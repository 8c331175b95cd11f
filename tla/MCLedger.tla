------------------------------ MODULE MCLedger ------------------------------
(* A small transaction graph: two coinbases, a spender, a conflicting one,   *)
(* a child, one spending an output twice, one overspending, one unsigned in  *)
(* its second input, one naming a foreign key, a coinbase above the cap.     *)
EXTENDS Ledger

In(i, n, s, o) == [id |-> i, index |-> n, signed |-> s, pubkeyhash |-> o]
Out(v, o) == [value |-> v, pubkeyhash |-> o]

MCTx == {"cb1", "cb2", "pay", "rival", "child", "twice", "over", "forged", "steal", "cbBig"}
MCCoinbase == {"cb1", "cb2", "cbBig"}
MCInputs ==
  [cb1 |-> <<>>, cb2 |-> <<>>, cbBig |-> <<>>,
   steal |-> <<In("cb1", 1, TRUE, "b")>>,
   pay |-> <<In("cb1", 1, TRUE, "a")>>,
   rival |-> <<In("cb2", 1, TRUE, "b"), In("cb1", 1, TRUE, "a")>>,
   child |-> <<In("pay", 2, TRUE, "a"), In("pay", 1, TRUE, "b")>>,
   twice |-> <<In("cb2", 1, TRUE, "b"), In("cb2", 1, TRUE, "b")>>,
   over |-> <<In("pay", 1, TRUE, "b")>>,
   forged |-> <<In("cb2", 1, TRUE, "b"), In("cb1", 1, FALSE, "a")>>]
MCOutputs ==
  [cbBig |-> <<Out(2, "a"), Out(2, "b")>>, steal |-> <<Out(1, "b")>>,
   cb1 |-> <<Out(3, "a")>>, cb2 |-> <<Out(3, "b")>>,
   pay |-> <<Out(1, "b"), Out(2, "a")>>,
   rival |-> <<Out(5, "b")>>,
   child |-> <<Out(3, "a")>>,
   twice |-> <<Out(4, "b")>>,
   over |-> <<Out(2, "b")>>,
   forged |-> <<Out(1, "b")>>]
MCNumber ==
  [cb1 |-> 1, cb2 |-> 2, pay |-> 3, rival |-> 4, child |-> 5, twice |-> 6,
   over |-> 7, forged |-> 8, steal |-> 9, cbBig |-> 10]
\* what the node's lists hold matters for the parents only
MCKnownSets == {S \cup (MCTx \ {"cb1", "cb2", "pay"}) : S \in SUBSET {"cb1", "cb2", "pay"}}
=============================================================================
