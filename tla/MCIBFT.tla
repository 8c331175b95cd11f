------------------------------- MODULE MCIBFT -------------------------------
(* Instances of IBFT: three validators over two rounds, and two over three     *)
(* rounds of which one may be started again.                                   *)
EXTENDS IBFT, TLC

CONSTANTS
  v1, v2, v3,
  p1, p2,
  MaxAnswers,    \* bound: how many answers about old blocks are sent
  MaxChanges     \* bound: how many different ROUND CHANGE messages are sent

ThreeValidators == {v1, v2, v3}
OrderOfThree == <<v1, v2, v3>>
TwoValidators == {v1, v2}
OrderOfTwo == <<v1, v2>>
TwoPayloads == {p1, p2}
AuthorOf == (p1 :> v1) @@ (p2 :> v2)

\* The instances are networks that are expected to agree.
ASSUME QuorumsOverlap == QuorumsMeet

\* An answer about an old block matters while another validator has neither that
\* block nor left the view the answer is for: no other is sent.
UsefulAnswers ==
  \A m \in commits' \ commits : m.old =>
    /\ \E w \in Validator \ {m.from} :
         /\ Len(tip[w]) < Len(m.block)
         /\ sequence[w] = Len(m.block) => round[w] <= m.round
    /\ Cardinality({n \in commits : n.old}) < MaxAnswers

FewChanges == Cardinality(changes) <= MaxChanges
=============================================================================
