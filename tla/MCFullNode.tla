----------------------------- MODULE MCFullNode -----------------------------
(* Three coinbases, a payment, a rival for the same coin, an unsigned spend  *)
(* of it, a child of the payment, one that overspends and one that leaves a  *)
(* fee; the chains a node of another program may hand over, one for each     *)
(* check of verify_chain, and those that pass it.                            *)
EXTENDS FullNode, TLC

In(i, n, s, o) == [id |-> i, index |-> n, signed |-> s, pubkeyhash |-> o]
Out(v, o) == [value |-> v, pubkeyhash |-> o]

MCTx == {"cb1", "cb2", "pay", "rival", "child", "over", "gift", "cb3", "forged"}
MCCoinbase == {"cb1", "cb2", "cb3"}
MCInputs ==
  [cb1 |-> <<>>, cb2 |-> <<>>, cb3 |-> <<>>,
   pay |-> <<In("cb1", 1, TRUE, "a")>>,
   rival |-> <<In("cb1", 1, TRUE, "a")>>,
   forged |-> <<In("cb1", 1, FALSE, "a")>>,
   child |-> <<In("pay", 1, TRUE, "b")>>,
   over |-> <<In("cb2", 1, TRUE, "b")>>,
   gift |-> <<In("cb2", 1, TRUE, "b")>>]
MCOutputs ==
  [cb1 |-> <<Out(2, "a")>>, cb2 |-> <<Out(2, "b")>>, cb3 |-> <<Out(1, "a")>>,
   pay |-> <<Out(1, "b"), Out(1, "a")>>,
   rival |-> <<Out(2, "b")>>,
   forged |-> <<Out(2, "b")>>,
   child |-> <<Out(1, "a")>>,
   over |-> <<Out(3, "b")>>,
   gift |-> <<Out(1, "a")>>]
MCNumber ==
  [cb1 |-> 1, rival |-> 4, pay |-> 3, cb2 |-> 2, child |-> 5, over |-> 6, gift |-> 7,
   cb3 |-> 8, forged |-> 0]

\* block i of the other program's chain
B(i, txs, prev) == Block(i, txs, Hash(prev), "p", TRUE)
F1 == B(1, <<"cb1">>, Genesis)
F2 == B(2, <<"pay">>, F1)
G1 == B(1, <<"cb2">>, Genesis)
MCGood ==
  { <<F1>>, <<F1, F2>>, <<G1>>,
    <<F2>>,                                          \* extends F1, and stale without it
    <<B(0, <<"cb1">>, F1)>> }                        \* a block 0 that names the tip
MCBad ==
  { <<Genesis, F1>>,                                 \* block 0 does not name the tip
    <<[F1 EXCEPT !.pow = FALSE]>>,                   \* no proof of work
    <<F1, [F2 EXCEPT !.previous_hash = Hash(G1)]>>,  \* broken link
    <<F1, [F2 EXCEPT !.index = 3]>>,                 \* index skipped
    <<[F1 EXCEPT !.index = 3]>>,                     \* starts beyond the chain
    <<F1, B(2, <<"cb1">>, F1)>>,                     \* transaction repeated
    <<F1, B(2, <<"pay", "rival">>, F1)>>,            \* double spend
    <<B(1, <<"cb2", "over">>, Genesis)>>,            \* value created
    <<B(1, <<"cb1", "child">>, Genesis)>> }          \* parent not in the chain
MCSymmetry == Permutations(Node)
MCForeign == MCGood \cup MCBad
MCRival == {<<F1, B(2, <<"rival">>, F1)>>}           \* a conflict for the two nodes
=============================================================================
