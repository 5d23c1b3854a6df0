----------------------------- MODULE MCApiKeys ------------------------------
(* Instances of ApiKeys for TLC. *)
EXTENDS ApiKeys, TLC

CONSTANTS w1, w2

Symmetric == Permutations(Workers)
=============================================================================
