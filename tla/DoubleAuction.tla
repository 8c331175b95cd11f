---------------------------- MODULE DoubleAuction ----------------------------
(***************************************************************************)
(* The DoubleAuction contract of PA3.  A transaction is atomic; a function *)
(* that reverts changes nothing and is therefore no step.  The four result *)
(* arrays grow together and are one sequence of records here.              *)
(***************************************************************************)
EXTENDS Integers, Sequences, FiniteSets, FiniteSetsExt, SequencesExt

CONSTANTS
  User,
  Quantity,      \* what bids ask for
  Value,
  MaxUint,       \* the largest uint, 2^256 - 1 in the EVM: beyond it arithmetic reverts
  Interval,      \* seconds between two auctions, 30 in the code
  MaxBids        \* bound: bids, those of the last trades included

ASSUME AuctionAssumption ==
  /\ MaxUint \in Nat
  /\ Quantity \subseteq 0 .. MaxUint /\ Value \subseteq 0 .. MaxUint
  /\ Interval \in Nat /\ MaxBids \in Nat

VARIABLES
  buyers,            \* sequences of bids [user, q, v]
  sellers,
  results,           \* of the last auction, [seller, buyer, price, quantity]
  used,              \* [User -> BOOLEAN]
  usedList,
  auctionRan,
  elapsed            \* block.timestamp - lastAuctionTime, counted up to Interval
vars == <<buyers, sellers, results, used, usedList, auctionRan, elapsed>>

Bid == [user : User, q : Quantity, v : Value]

Init ==
  /\ buyers = <<>> /\ sellers = <<>> /\ results = <<>>
  /\ used = [u \in User |-> FALSE]
  /\ usedList = <<>>
  /\ auctionRan = FALSE
  /\ elapsed = Interval

-----------------------------------------------------------------------------
(* Bids                                                                      *)

Register(b) ==
  /\ ~ used[b.user]
  /\ b.q > 0 /\ b.v > 0
  /\ Len(usedList) + 2 * Len(results) < MaxBids
  /\ used' = [used EXCEPT ![b.user] = TRUE]
  /\ usedList' = Append(usedList, b.user)
  /\ UNCHANGED <<results, auctionRan, elapsed>>

\* mutant: quantity and value change places
addBuyerSwapped(b) ==
  Register(b) /\ buyers' = Append(buyers, [b EXCEPT !.q = b.v, !.v = b.q]) /\ UNCHANGED sellers

addBuyer(b) == Register(b) /\ buyers' = Append(buyers, b) /\ UNCHANGED sellers

addSeller(b) == Register(b) /\ sellers' = Append(sellers, b) /\ UNCHANGED buyers

-----------------------------------------------------------------------------
(* The auction                                                               *)

Swap(s, i, j) == [s EXCEPT ![i] = s[j], ![j] = s[i]]

\* what the inner loops look for, as relations: <<x, y>> if x is to come before y
Dearer == {p \in Bid \X Bid : p[1].v > p[2].v}
Cheaper == {p \in Bid \X Bid : p[1].v < p[2].v}

\* the if of the inner loop.  The singleton makes TLC evaluate s once.
Exchange(s, i, j, before) ==
  CHOOSE r \in {IF <<p[j], p[i]>> \in before THEN Swap(p, i, j) ELSE p : p \in {s}} : TRUE

\* mutant: the inner loop skips the neighbour
PassSkips(s, i, before) ==
  LET after[j \in i .. Len(s)] ==
        IF j <= i + 1 THEN s ELSE Exchange(after[j - 1], i, j, before)
  IN  after[Len(s)]

\* the inner loop: each later bid that comes before the i-th changes place with it
Pass(s, i, before) ==
  LET after[j \in i .. Len(s)] ==
        IF j = i THEN s ELSE Exchange(after[j - 1], i, j, before)
  IN  after[Len(s)]

Sorted(s, before) ==
  LET after[i \in 0 .. Len(s)] == IF i = 0 THEN s ELSE Pass(after[i - 1], i, before)
  IN  after[Len(s)]

\* the trades of sorted books: the leading pairs that cross
Crossing(b, s) ==
  LET n == IF Len(s) < Len(b) THEN Len(s) ELSE Len(b)
  IN  Max({k \in 0 .. n : \A i \in 1 .. k : b[i].v >= s[i].v})

\* mutant: the price is that of the first pair
TradesAtFirst(b, s) ==
  LET k == Crossing(b, s)
      price == (b[1].v + s[1].v) \div 2
  IN  [i \in 1 .. k |->
         [seller |-> s[i].user, buyer |-> b[i].user, price |-> price,
          quantity |-> IF b[i].q < s[i].q THEN b[i].q ELSE s[i].q]]

Trades(b, s) ==
  LET k == Crossing(b, s)
      price == (b[k].v + s[k].v) \div 2
  IN  [i \in 1 .. k |->
         [seller |-> s[i].user, buyer |-> b[i].user, price |-> price,
          quantity |-> IF b[i].q < s[i].q THEN b[i].q ELSE s[i].q]]

\* the sum of the last pair's values is computed before it is halved
PriceFits(b, s) ==
  LET k == Crossing(b, s) IN k > 0 => b[k].v + s[k].v <= MaxUint

SortedBuyers == Sorted(buyers, Dearer)
SortedSellers == Sorted(sellers, Cheaper)

\* mutant: an interval must be exceeded
DueLater == auctionRan => elapsed > Interval

Due == auctionRan => elapsed >= Interval

\* doubleAuction does not revert: the require and the checked addition
Runs == Due /\ PriceFits(SortedBuyers, SortedSellers)

\* mutant: the flags are kept when nothing was traded
doubleAuctionKeepsUsed ==
  /\ Runs
  /\ results' = Trades(SortedBuyers, SortedSellers)
  /\ used' = IF results' = <<>> THEN used ELSE [u \in User |-> FALSE]
  /\ usedList' = <<>> /\ buyers' = <<>> /\ sellers' = <<>>
  /\ elapsed' = 0
  /\ auctionRan' = TRUE

doubleAuction ==
  /\ Runs
  /\ results' = Trades(SortedBuyers, SortedSellers)
  /\ used' = [u \in User |-> used[u] /\ \A i \in DOMAIN usedList : usedList[i] # u]
  /\ usedList' = <<>> /\ buyers' = <<>> /\ sellers' = <<>>
  /\ elapsed' = 0
  /\ auctionRan' = TRUE

\* a later block
Tick ==
  /\ elapsed' = IF elapsed < Interval THEN elapsed + 1 ELSE elapsed
  /\ UNCHANGED <<buyers, sellers, results, used, usedList, auctionRan>>

Next == (\E b \in Bid : addBuyer(b) \/ addSeller(b)) \/ doubleAuction \/ Tick

Spec == Init /\ [][Next]_vars

-----------------------------------------------------------------------------
TypeOK ==
  /\ buyers \in Seq(Bid) /\ sellers \in Seq(Bid)
  /\ results \in Seq([seller : User, buyer : User, price : 0 .. MaxUint, quantity : Quantity])
  /\ used \in [User -> BOOLEAN]
  /\ usedList \in Seq(User)
  /\ auctionRan \in BOOLEAN
  /\ elapsed \in 0 .. Interval

\* Whoever is barred from bidding holds exactly one bid in the book, and the list
\* the auction clears names exactly those: nobody bids twice before an auction,
\* on the other side either, and nobody stays barred after one.
Holds(u, s) == {i \in DOMAIN s : s[i].user = u}
OneBidEach ==
  \A u \in User :
    /\ used[u] <=> u \in {usedList[i] : i \in DOMAIN usedList}
    /\ \A i, j \in Holds(u, buyers) : i = j
    /\ \A i, j \in Holds(u, sellers) : i = j
    /\ Holds(u, buyers) = {} \/ Holds(u, sellers) = {}
    /\ used[u] <=> Holds(u, buyers) \cup Holds(u, sellers) # {}

\* No one trades at a price worse than the bid, nor more than was bid.
BidOf(u, s) == CHOOSE b \in ToSet(s) : b.user = u
NobodyLoses ==
  [][usedList # <<>> /\ usedList' = <<>> =>
       \A t \in ToSet(results') :
         LET buy == BidOf(t.buyer, buyers)
             sell == BidOf(t.seller, sellers)
         IN  /\ sell.v <= t.price /\ t.price <= buy.v
             /\ t.quantity <= buy.q /\ t.quantity <= sell.q]_vars

\* "If the auction interval has not passed, Solidity reverts" (DoubleAuction.js:62):
\* once it has, the book can be cleared, as long as two values can be added.
Clearable ==
  /\ ~ auctionRan \/ elapsed = Interval
  /\ \A b \in ToSet(buyers) : 2 * b.v <= MaxUint
  => Runs

Market == INSTANCE CallMarket WITH
  demand <- ToSet(buyers), supply <- ToSet(sellers), trades <- results
Implements == Market!Spec
=============================================================================
