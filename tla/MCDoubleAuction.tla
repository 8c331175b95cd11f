-------------------------- MODULE MCDoubleAuction --------------------------
(* Four interchangeable users.                                               *)
EXTENDS DoubleAuction, TLC

MCSymmetry == Permutations(User)
=============================================================================
