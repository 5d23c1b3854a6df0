----------------------------- MODULE MCAccounts -----------------------------
(* Instances of Accounts for TLC: an admin and an editor to begin with. *)
EXTENDS Accounts, TLC

CONSTANTS w1, w2, ma, mb, mc, ga, gb, gc, gd

MCUsers ==
  1 :> [email |-> ma, google_id |-> ga, role |-> "admin"]
    @@ 2 :> [email |-> mb, google_id |-> Null, role |-> "editor"]

\* Everyone keeps the email they came with, but the mailbox mc changes hands.
MCHandedOver ==
  {[sub |-> gb, email |-> mb], [sub |-> gc, email |-> mc], [sub |-> gd, email |-> mc]}

Symmetric == Permutations(Workers)
=============================================================================
