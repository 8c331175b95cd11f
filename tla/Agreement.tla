------------------------------ MODULE Agreement ------------------------------
(***************************************************************************)
(* What the Istanbul BFT network promises its users: the validators decide *)
(* one block after another, one block per height, each on top of the last, *)
(* and every node's chain consists of decided blocks.                      *)
(* A block stands for the chain it ends: the sequence of payloads from the *)
(* first height to its own, as its hash commits to all its ancestors.      *)
(***************************************************************************)
EXTENDS Naturals, Sequences

CONSTANTS
  Node,      \* the nodes that keep the chain
  Payload    \* what a block adds to its parent

VARIABLES
  decided,   \* the blocks decided so far
  tip        \* [Node -> the last block of the node's chain, <<>> for genesis]
avars == <<decided, tip>>

Init ==
  /\ decided = {}
  /\ tip = [n \in Node |-> <<>>]

\* a block is decided on top of a decided one, where none is decided yet
Decide(parent, p) ==
  /\ parent \in decided \cup {<<>>}
  /\ \A d \in decided : Len(d) # Len(parent) + 1
  /\ decided' = decided \cup {Append(parent, p)}
  /\ UNCHANGED tip

\* a node adds a decided block to its chain
Learn(n, p) ==
  /\ Append(tip[n], p) \in decided
  /\ tip' = [tip EXCEPT ![n] = Append(@, p)]
  /\ UNCHANGED decided

Next ==
  \/ \E parent \in decided \cup {<<>>}, p \in Payload : Decide(parent, p)
  \/ \E n \in Node, p \in Payload : Learn(n, p)

Spec == Init /\ [][Next]_avars
=============================================================================
