---------------------------- MODULE MCPublicReads ----------------------------
(* Instances of PublicReads for TLC. *)
EXTENDS PublicReads
=============================================================================
