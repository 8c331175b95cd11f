----------------------------- MODULE CallMarket -----------------------------
(***************************************************************************)
(* What the double auction promises, without saying how: everybody holds   *)
(* at most one bid until the market is called; a call pairs the dearest    *)
(* demand with the cheapest supply as far as they cross, all at the middle *)
(* of the last pair, and empties the book.                                 *)
(***************************************************************************)
EXTENDS Integers, Sequences, FiniteSets

CONSTANTS User, Quantity, Value
VARIABLES
  demand,    \* bids [user, q, v] to buy
  supply,    \* bids to sell
  trades     \* of the last call, a sequence of [seller, buyer, price, quantity]
vars == <<demand, supply, trades>>

Bidders == {b.user : b \in demand \cup supply}

Init == demand = {} /\ supply = {} /\ trades = <<>>

Buy(b) ==
  /\ b.user \notin Bidders
  /\ demand' = demand \cup {b}
  /\ UNCHANGED <<supply, trades>>

Sell(b) ==
  /\ b.user \notin Bidders
  /\ supply' = supply \cup {b}
  /\ UNCHANGED <<demand, trades>>

\* the orders in which nobody comes before a bid that is Worse than his; what
\* is done with equal values is left open
Rankings(bids, Worse(_, _)) ==
  {r \in [1 .. Cardinality(bids) -> bids] :
     \A i, j \in DOMAIN r : i < j => r[i] # r[j] /\ ~ Worse(r[i], r[j])}

Call ==
  \E b \in Rankings(demand, LAMBDA x, y : x.v < y.v),
     s \in Rankings(supply, LAMBDA x, y : x.v > y.v) :
    LET crossing == {i \in DOMAIN b \cap DOMAIN s : b[i].v >= s[i].v}
        k == Cardinality(crossing)
    IN  /\ trades' = [i \in 1 .. k |->
              [seller |-> s[i].user, buyer |-> b[i].user,
               price |-> (b[k].v + s[k].v) \div 2,
               quantity |-> IF b[i].q < s[i].q THEN b[i].q ELSE s[i].q]]
        /\ demand' = {} /\ supply' = {}

Next == (\E b \in [user : User, q : Quantity, v : Value] : Buy(b) \/ Sell(b)) \/ Call

Spec == Init /\ [][Next]_vars
=============================================================================
