------------------------------ MODULE MCWebUrls -----------------------------
(* Instances of WebUrls for TLC. *)
EXTENDS WebUrls

CONSTANTS w1, w2, site, endless   \* workers, hosts

AsTyped(scheme, host, port) ==
  [scheme |-> scheme, host |-> host, capital |-> FALSE, port |-> port, junk |-> FALSE]

\* One URL in two spellings, another one, and what is refused.
MCInputs ==
  {[AsTyped("http", site, FALSE) EXCEPT !.junk = TRUE],
   AsTyped("HTTP", site, FALSE),
   AsTyped("none", site, FALSE),
   AsTyped("none", site, TRUE),
   AsTyped("none", endless, FALSE),
   AsTyped("none", Null, FALSE)}
=============================================================================
