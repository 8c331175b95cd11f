------------------------------- MODULE Quorums -------------------------------
(***************************************************************************)
(* How many validators decide: the sizes that the consensus core           *)
(* (ibft/core/core.go, QuorumSize) and the validator set (validator/       *)
(* default.go, F) compute from the number of validators.                   *)
(***************************************************************************)
EXTENDS Naturals, FiniteSets

CONSTANTS
  Validator,     \* the validators of the snapshot; the set does not change here
  TwoFPlusOne    \* the formula for quorums: 2F+1 if TRUE, else ceil(2N/3)

N == Cardinality(Validator)
\* defaultSet.F: ceil(N/3) - 1
F == ((N + 2) \div 3) - 1
QuorumSize == IF TwoFPlusOne THEN 2 * F + 1 ELSE (2 * N + 2) \div 3
Quorum == {Q \in SUBSET Validator : Cardinality(Q) >= QuorumSize}
=============================================================================
