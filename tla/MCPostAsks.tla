----------------------------- MODULE MCPostAsks -----------------------------
(* Small instances of PostAsks for TLC. *)
EXTENDS PostAsks

CONSTANTS p1, r1, t1

=============================================================================
