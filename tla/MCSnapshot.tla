----------------------------- MODULE MCSnapshot -----------------------------
(* Three validators and one more account, all of them alike until they vote.  *)
EXTENDS Snapshot, TLC

CONSTANTS a1, a2, a3, a4

MCAccount == {a1, a2, a3, a4}
MCGenesis == {a1, a2, a3}
Alike == Permutations(MCGenesis)
=============================================================================
