------------------------- MODULE DoubleAuctionProofs -------------------------
(***************************************************************************)
(* For any number of users, bids and auctions: one bid each, as the auction *)
(* empties the books and takes the flag from everyone on its list; what the *)
(* sorting loops leave, round by round; and from both that the trades are   *)
(* those of a call market.                                                  *)
(***************************************************************************)
EXTENDS DoubleAuction, RecursionProofs, FunctionTheorems, SequenceTheorems

Books ==
  /\ buyers \in Seq(Bid) /\ sellers \in Seq(Bid)
  /\ used \in [User -> BOOLEAN]
  /\ usedList \in Seq(User)

AuctionInv == Books /\ OneBidEach

\* A bid by a user without one leaves everybody with one at most: stated for the
\* book the bid goes to and the other one, whichever is which.
LEMMA BidJoins ==
  ASSUME NEW s \in Seq(Bid), NEW o \in Seq(Bid), NEW b \in Bid, NEW u \in User,
         \A i, j \in Holds(u, s) : i = j,
         Holds(u, s) = {} \/ Holds(u, o) = {},
         u = b.user => Holds(u, s) = {} /\ Holds(u, o) = {}
  PROVE  /\ \A i, j \in Holds(u, Append(s, b)) : i = j
         /\ Holds(u, Append(s, b)) = {} \/ Holds(u, o) = {}
         /\ Holds(u, Append(s, b)) # {} <=> u = b.user \/ Holds(u, s) # {}
<1> DEFINE t == Append(s, b)
<1>1. /\ Len(t) = Len(s) + 1 /\ DOMAIN t = 1 .. Len(s) + 1
      /\ \A i \in 1 .. Len(s) : t[i] = s[i]
      /\ t[Len(s) + 1] = b
  BY AppendProperties
<1>2. DOMAIN s = 1 .. Len(s) /\ Len(s) \in Nat
  BY LenProperties
<1> HIDE DEF t
<1>3. CASE u = b.user
  <2>1. \A i \in 1 .. Len(s) : s[i].user # u
    BY <1>2, <1>3 DEF Holds
  <2>2. Holds(u, t) = {Len(s) + 1}
    BY <1>1, <1>2, <1>3, <2>1 DEF Holds
  <2> QED BY <1>3, <2>2 DEF t
<1>4. CASE u # b.user
  <2>1. Holds(u, t) = Holds(u, s)
    BY <1>1, <1>2, <1>4 DEF Holds
  <2> QED BY <1>4, <2>1 DEF t
<1> QED BY <1>3, <1>4

\* The list of users who have bid, with one more.
LEMMA ListJoins ==
  ASSUME NEW l \in Seq(User), NEW v \in User
  PROVE  {Append(l, v)[i] : i \in DOMAIN Append(l, v)} = {l[i] : i \in DOMAIN l} \cup {v}
<1> DEFINE m == Append(l, v)
<1>1. /\ DOMAIN m = 1 .. Len(l) + 1
      /\ \A i \in 1 .. Len(l) : m[i] = l[i]
      /\ m[Len(l) + 1] = v
  BY AppendProperties
<1>2. DOMAIN l = 1 .. Len(l) /\ Len(l) \in Nat
  BY LenProperties
<1> HIDE DEF m
<1>3. {m[i] : i \in DOMAIN m} = {l[i] : i \in DOMAIN l} \cup {v}
  BY <1>1, <1>2
<1> QED BY <1>3 DEF m

\* Nobody has bid yet.
LEMMA AuctionInit == Init => AuctionInv
<1> SUFFICES ASSUME Init PROVE AuctionInv
  OBVIOUS
<1>1. Books
  BY DEF Init, Books
<1>2. OneBidEach
  BY DEF Init, OneBidEach, Holds
<1> QED BY <1>1, <1>2 DEF AuctionInv

\* A bid joins one book and the list; an auction frees all who are on the list.
LEMMA AuctionStep == AuctionInv /\ [Next]_vars => AuctionInv'
<1> SUFFICES ASSUME AuctionInv, [Next]_vars PROVE AuctionInv'
  OBVIOUS
<1> USE DEF AuctionInv
<1>1. ASSUME NEW b \in Bid, addBuyer(b) \/ addSeller(b) PROVE AuctionInv'
  <2>1. /\ b.user \in User /\ ~ used[b.user]
        /\ used' = [used EXCEPT ![b.user] = TRUE]
        /\ usedList' = Append(usedList, b.user)
    BY <1>1 DEF addBuyer, addSeller, Register, Bid
  <2>2. Books'
    <3>1. /\ Append(buyers, b) \in Seq(Bid) /\ Append(sellers, b) \in Seq(Bid)
          /\ usedList' \in Seq(User)
      BY <2>1, AppendProperties DEF Books
    <3>2. used' \in [User -> BOOLEAN]
      BY <2>1 DEF Books
    <3>3. buyers' \in Seq(Bid) /\ sellers' \in Seq(Bid)
      BY <1>1, <3>1 DEF Books, addBuyer, addSeller
    <3> QED BY <3>1, <3>2, <3>3 DEF Books
  <2>3. ASSUME NEW u \in User
        PROVE  used'[u] <=> u \in {usedList'[i] : i \in DOMAIN usedList'}
    <3>1. used'[u] <=> u = b.user \/ used[u]
      BY <2>1 DEF Books
    <3>2. used[u] <=> u \in {usedList[i] : i \in DOMAIN usedList}
      BY DEF OneBidEach
    <3>3. usedList \in Seq(User)
      BY DEF Books
    <3>4. {Append(usedList, b.user)[i] : i \in DOMAIN Append(usedList, b.user)}
            = {usedList[i] : i \in DOMAIN usedList} \cup {b.user}
      BY <2>1, <3>3, ListJoins
    <3>5. {usedList'[i] : i \in DOMAIN usedList'}
            = {usedList[i] : i \in DOMAIN usedList} \cup {b.user}
      BY <2>1, <3>4
    <3> QED BY <3>1, <3>2, <3>5
  <2>4. Holds(b.user, buyers) = {} /\ Holds(b.user, sellers) = {}
    BY <2>1 DEF OneBidEach
  <2>5. ASSUME NEW u \in User
        PROVE  /\ \A i, j \in Holds(u, buyers') : i = j
               /\ \A i, j \in Holds(u, sellers') : i = j
               /\ Holds(u, buyers') = {} \/ Holds(u, sellers') = {}
               /\ used'[u] <=> Holds(u, buyers') \cup Holds(u, sellers') # {}
    <3>1. /\ \A i, j \in Holds(u, buyers) : i = j
          /\ \A i, j \in Holds(u, sellers) : i = j
          /\ Holds(u, buyers) = {} \/ Holds(u, sellers) = {}
          /\ used[u] <=> Holds(u, buyers) # {} \/ Holds(u, sellers) # {}
      BY DEF OneBidEach
    <3>2. used'[u] <=> u = b.user \/ used[u]
      BY <2>1 DEF Books
    <3>3. buyers \in Seq(Bid) /\ sellers \in Seq(Bid)
      BY DEF Books
    <3>4. CASE addBuyer(b)
      <4>1. buyers' = Append(buyers, b) /\ sellers' = sellers
        BY <3>4 DEF addBuyer
      <4>2. /\ \A i, j \in Holds(u, Append(buyers, b)) : i = j
            /\ Holds(u, Append(buyers, b)) = {} \/ Holds(u, sellers) = {}
            /\ Holds(u, Append(buyers, b)) # {} <=> u = b.user \/ Holds(u, buyers) # {}
        BY <2>4, <3>1, <3>3, BidJoins
      <4> QED BY <3>1, <3>2, <4>1, <4>2
    <3>5. CASE addSeller(b)
      <4>1. sellers' = Append(sellers, b) /\ buyers' = buyers
        BY <3>5 DEF addSeller
      <4>2. /\ \A i, j \in Holds(u, Append(sellers, b)) : i = j
            /\ Holds(u, Append(sellers, b)) = {} \/ Holds(u, buyers) = {}
            /\ Holds(u, Append(sellers, b)) # {} <=> u = b.user \/ Holds(u, sellers) # {}
        BY <2>4, <3>1, <3>3, BidJoins
      <4> QED BY <3>1, <3>2, <4>1, <4>2
    <3> QED BY <1>1, <3>4, <3>5
  <2>6. OneBidEach'
    BY <2>3, <2>5 DEF OneBidEach, Holds
  <2> QED BY <2>2, <2>6
<1>2. CASE doubleAuction
  <2>1. /\ used' = [u \in User |-> used[u] /\ \A i \in DOMAIN usedList : usedList[i] # u]
        /\ usedList' = <<>> /\ buyers' = <<>> /\ sellers' = <<>>
    BY <1>2 DEF doubleAuction
  <2>2. Books'
    BY <2>1 DEF Books
  <2>3. \A u \in User : ~ used'[u]
    <3> SUFFICES ASSUME NEW u \in User, used'[u] PROVE FALSE
      OBVIOUS
    <3>1. used[u] /\ \A i \in DOMAIN usedList : usedList[i] # u
      BY <2>1
    <3>2. u \in {usedList[i] : i \in DOMAIN usedList}
      BY <3>1 DEF OneBidEach
    <3> QED BY <3>1, <3>2
  <2>4. OneBidEach'
    BY <2>1, <2>3 DEF OneBidEach, Holds
  <2> QED BY <2>2, <2>4
<1>3. CASE Tick \/ UNCHANGED vars
  <2>1. UNCHANGED <<buyers, sellers, used, usedList>>
    BY <1>3 DEF Tick, vars
  <2>2. Books'
    BY <2>1 DEF Books
  <2>3. OneBidEach'
    <3>1. \A u \in User : Holds(u, buyers)' = Holds(u, buyers) /\ Holds(u, sellers)' = Holds(u, sellers)
      BY <2>1 DEF Holds
    <3> QED BY <2>1, <3>1 DEF OneBidEach
  <2> QED BY <2>2, <2>3
<1> QED BY <1>1, <1>2, <1>3 DEF Next

\* A user is barred from bidding exactly while one bid of his is in a book, on one
\* side only (addBuyer, addSeller, and the reset at the end of doubleAuction).
THEOREM OneBidEachAlways == Spec => []OneBidEach
<1>1. AuctionInv => OneBidEach
  BY DEF AuctionInv
<1> QED BY AuctionInit, AuctionStep, <1>1, PTL DEF Spec

-----------------------------------------------------------------------------
(* Sorting: n bids, of which no two are the same                             *)

\* what the loops need of the relation they sort by
Strict(before) ==
  /\ \A x, y \in Bid : <<x, y>> \in before => <<y, x>> \notin before
  /\ \A x, y, z \in Bid : <<x, y>> \in before /\ <<y, z>> \in before => <<x, z>> \in before

Lists(n) == [1 .. n -> Bid]
Distinct(r, n) == \A a, b \in 1 .. n : r[a] = r[b] => a = b
From(r, i, n) == {r[a] : a \in i .. n}

\* r is s with the bids from the i-th on in another order
Reorders(r, s, i, n) ==
  /\ r \in Lists(n) /\ Distinct(r, n)
  /\ \A a \in 1 .. i - 1 : r[a] = s[a]
  /\ From(r, i, n) = From(s, i, n)

\* What a bid holds is a uint.
LEMMA BidFacts ==
  ASSUME NEW b \in Bid
  PROVE  /\ b.user \in User /\ b.q \in Quantity /\ b.v \in Value
         /\ b.q \in Nat /\ b.v \in Nat /\ b.v <= MaxUint
<1>1. b.user \in User /\ b.q \in Quantity /\ b.v \in Value
  BY DEF Bid
<1>2. b.q \in 0 .. MaxUint /\ b.v \in 0 .. MaxUint /\ MaxUint \in Nat
  BY <1>1, AuctionAssumption
<1> QED BY <1>1, <1>2

\* The two orders of doubleAuction are strict.
LEMMA OrdersAreStrict == Strict(Dearer) /\ Strict(Cheaper)
<1>1. \A x \in Bid : x.v \in Int
  BY BidFacts
<1> QED BY <1>1 DEF Strict, Dearer, Cheaper

\* The if of the inner loop, without the singleton.
LEMMA ExchangeIs ==
  ASSUME NEW s, NEW i, NEW j, NEW before
  PROVE  Exchange(s, i, j, before) = IF <<s[j], s[i]>> \in before THEN Swap(s, i, j) ELSE s
BY DEF Exchange

\* Two bids change places.
LEMMA SwapPlaces ==
  ASSUME NEW n \in Nat, NEW r \in Lists(n), NEW i \in 1 .. n, NEW j \in 1 .. n, i # j
  PROVE  /\ Swap(r, i, j) \in Lists(n)
         /\ Swap(r, i, j)[i] = r[j] /\ Swap(r, i, j)[j] = r[i]
         /\ \A a \in 1 .. n : a # i /\ a # j => Swap(r, i, j)[a] = r[a]
BY DEF Swap, Lists

\* An exchange reorders the bids from the place of the inner loop on.
LEMMA SwapReorders ==
  ASSUME NEW n \in Nat, NEW s, NEW i \in 1 .. n, NEW r, Reorders(r, s, i, n),
         NEW j \in i + 1 .. n
  PROVE  Reorders(Swap(r, i, j), s, i, n)
<1> DEFINE w == Swap(r, i, j)
<1>1. /\ r \in Lists(n) /\ Distinct(r, n) /\ \A a \in 1 .. i - 1 : r[a] = s[a]
      /\ From(r, i, n) = From(s, i, n)
  BY DEF Reorders
<1>2. j \in 1 .. n /\ i # j /\ i \in i .. n /\ j \in i .. n /\ i .. n \subseteq 1 .. n
  OBVIOUS
<1>3. /\ w \in Lists(n) /\ w[i] = r[j] /\ w[j] = r[i]
      /\ \A a \in 1 .. n : a # i /\ a # j => w[a] = r[a]
  BY <1>1, <1>2, SwapPlaces
<1> HIDE DEF w
<1>4. Distinct(w, n)
  BY <1>1, <1>2, <1>3 DEF Distinct
<1>5. \A a \in 1 .. i - 1 : w[a] = s[a]
  BY <1>1, <1>2, <1>3
<1>6. From(w, i, n) = From(r, i, n)
  <2>1. ASSUME NEW a \in i .. n PROVE w[a] \in From(r, i, n)
    BY <1>2, <1>3 DEF From
  <2>2. ASSUME NEW a \in i .. n PROVE r[a] \in From(w, i, n)
    <3>1. CASE a = i
      BY <1>2, <1>3, <3>1 DEF From
    <3>2. CASE a = j
      BY <1>2, <1>3, <3>2 DEF From
    <3>3. CASE a # i /\ a # j
      BY <1>2, <1>3, <3>3 DEF From
    <3> QED BY <3>1, <3>2, <3>3
  <2> QED BY <2>1, <2>2 DEF From
<1> QED BY <1>1, <1>3, <1>4, <1>5, <1>6 DEF Reorders, w

\* The inner loop, round by round.
Selects(h, s, i, n, before) ==
  /\ h[i] = s
  /\ \A j \in i + 1 .. n :
       h[j] = IF <<h[j - 1][j], h[j - 1][i]>> \in before THEN Swap(h[j - 1], i, j) ELSE h[j - 1]

\* The inner loop, round by round.
LEMMA PassRounds ==
  ASSUME NEW n \in Nat, NEW s \in Lists(n), NEW i \in 1 .. n, NEW before
  PROVE  \E h : Selects(h, s, i, n, before) /\ Pass(s, i, before) = h[n]
<1> DEFINE V == Lists(n)
           m == n - i
           next(d, r) == IF <<r[i + d], r[i]>> \in before THEN Swap(r, i, i + d) ELSE r
           step == [p \in (1 .. m) \X V |-> next(p[1], p[2])]
           Is(a) == a = [j \in i .. n |-> IF j = i THEN s ELSE Exchange(a[j - 1], i, j, before)]
           after == CHOOSE a : Is(a)
<1>1. m \in Nat /\ s \in V /\ Len(s) = n
  BY DEF Lists
<1>2. ASSUME NEW d \in 1 .. m, NEW r \in V PROVE next(d, r) \in V
  <2>1. i + d \in 1 .. n /\ i # i + d
    OBVIOUS
  <2> QED BY <2>1, SwapPlaces
<1>3. step \in [(1 .. m) \X V -> V]
  BY <1>2
<1>4. Pass(s, i, before) = after[n]
  BY <1>1 DEF Pass
<1> HIDE DEF V, next
<1>5. PICK g \in [0 .. m -> V] : Rounds(g, m, s, step)
  BY <1>1, <1>3, LoopExists
<1>6. g[0] = s /\ \A d \in 1 .. m : g[d] = next(d, g[d - 1])
  <2>1. \A d \in 1 .. m : <<d, g[d - 1]>> \in (1 .. m) \X V
    BY <1>1, <1>5
  <2>2. \A d \in 1 .. m : step[<<d, g[d - 1]>>] = next(d, g[d - 1])
    BY <2>1
  <2> QED BY <1>5, <2>2 DEF Rounds
<1> DEFINE h == [j \in i .. n |-> g[j - i]]
<1>7. ASSUME NEW j \in i .. n
      PROVE  h[j] = IF j = i THEN s ELSE Exchange(h[j - 1], i, j, before)
  <2>1. CASE j = i
    BY <1>6, <2>1
  <2>2. CASE j # i
    <3>1. j - i \in 1 .. m /\ j - 1 \in i .. n /\ (j - i) - 1 = (j - 1) - i /\ i + (j - i) = j
      BY <2>2
    <3>2. h[j] = next(j - i, g[(j - i) - 1]) /\ h[j - 1] = g[(j - i) - 1]
      BY <1>6, <3>1
    <3>3. h[j] = IF <<h[j - 1][j], h[j - 1][i]>> \in before THEN Swap(h[j - 1], i, j) ELSE h[j - 1]
      BY <3>1, <3>2 DEF next
    <3> QED BY <2>2, <3>3, ExchangeIs
  <2> QED BY <2>1, <2>2
<1>8. Is(h)
  <2>1. h = [j \in i .. n |-> h[j]]
    OBVIOUS
  <2> HIDE DEF h
  <2>2. [j \in i .. n |-> h[j]]
          = [j \in i .. n |-> IF j = i THEN s ELSE Exchange(h[j - 1], i, j, before)]
    BY <1>7
  <2> QED BY <2>1, <2>2
<1> HIDE DEF h
<1>9. Is(after)
  BY <1>8
<1> HIDE DEF after
<1>10. after[i] = s
  BY <1>9
<1>11. ASSUME NEW j \in i + 1 .. n
       PROVE  after[j] = IF <<after[j - 1][j], after[j - 1][i]>> \in before
                         THEN Swap(after[j - 1], i, j) ELSE after[j - 1]
  <2>1. after[j] = Exchange(after[j - 1], i, j, before)
    BY <1>9
  <2> QED BY <2>1, ExchangeIs
<1> QED BY <1>4, <1>10, <1>11 DEF Selects

\* The inner loop brings to the i-th place a bid that none after it precedes.
LEMMA PassSelects ==
  ASSUME NEW n \in Nat, NEW s \in Lists(n), Distinct(s, n), NEW i \in 1 .. n,
         NEW before, Strict(before)
  PROVE  LET r == Pass(s, i, before)
         IN  /\ Reorders(r, s, i, n)
             /\ \A b \in i + 1 .. n : <<r[b], r[i]>> \notin before
<1>1. PICK h : Selects(h, s, i, n, before) /\ Pass(s, i, before) = h[n]
  BY PassRounds
<1> DEFINE Best(d) == /\ Reorders(h[i + d], s, i, n)
                      /\ \A b \in i + 1 .. i + d : <<h[i + d][b], h[i + d][i]>> \notin before
           P == {d \in 0 .. n - i : Best(d)}
<1>2. 0 \in P
  <2>1. h[i + 0] = s
    BY <1>1 DEF Selects
  <2>2. Reorders(s, s, i, n)
    BY DEF Reorders
  <2>3. Best(0)
    BY <2>1, <2>2
  <2> QED BY <2>3
<1>3. ASSUME NEW d \in 1 .. n - i, d - 1 \in P PROVE d \in P
  <2> DEFINE j == i + d
             r == h[j - 1]
             w == Swap(r, i, j)
  <2>1. /\ j \in i + 1 .. n /\ i + (d - 1) = j - 1 /\ i # j
        /\ i \in 1 .. n /\ j \in 1 .. n /\ i + 1 .. j \subseteq 1 .. n
    OBVIOUS
  <2>2. Best(d - 1)
    BY <1>3
  <2>3. Reorders(r, s, i, n) /\ \A b \in i + 1 .. j - 1 : <<r[b], r[i]>> \notin before
    BY <2>1, <2>2
  <2>4. h[j] = IF <<r[j], r[i]>> \in before THEN w ELSE r
    BY <1>1, <2>1 DEF Selects
  <2> HIDE DEF j, r
  <2>5. r \in Lists(n) /\ \A a \in 1 .. n : r[a] \in Bid
    BY <2>3 DEF Reorders, Lists
  <2>6. CASE <<r[j], r[i]>> \in before
    <3>1. Reorders(w, s, i, n)
      BY <2>1, <2>3, SwapReorders
    <3>2. /\ w[i] = r[j] /\ w[j] = r[i]
          /\ \A a \in 1 .. n : a # i /\ a # j => w[a] = r[a]
      BY <2>1, <2>5, SwapPlaces
    <3> HIDE DEF w
    <3>3. ASSUME NEW b \in i + 1 .. j PROVE <<w[b], w[i]>> \notin before
      <4>1. CASE b = j
        <5>1. r[i] \in Bid /\ r[j] \in Bid
          BY <2>1, <2>5
        <5> QED BY <2>6, <3>2, <4>1, <5>1 DEF Strict
      <4>2. CASE b # j
        <5>1. b \in 1 .. n /\ b # i /\ b \in i + 1 .. j - 1
          BY <2>1, <4>2
        <5>2. w[b] = r[b] /\ <<r[b], r[i]>> \notin before
          BY <2>3, <3>2, <4>2, <5>1
        <5>3. r[b] \in Bid /\ r[i] \in Bid /\ r[j] \in Bid
          BY <2>1, <2>5, <5>1
        <5> QED BY <2>6, <3>2, <5>2, <5>3 DEF Strict
      <4> QED BY <4>1, <4>2
    <3> QED BY <2>4, <2>6, <3>1, <3>3 DEF j
  <2>7. CASE <<r[j], r[i]>> \notin before
    <3>1. \A b \in i + 1 .. j : b = j \/ b \in i + 1 .. j - 1
      BY <2>1
    <3>2. h[j] = r
      BY <2>4, <2>7
    <3> QED BY <2>3, <2>7, <3>1, <3>2 DEF j
  <2> QED BY <2>6, <2>7
<1> DEFINE m == n - i
<1>4. m \in Nat /\ i + m = n
  OBVIOUS
<1>5. m \in P
  <2> HIDE DEF P
  <2>1. \A d \in 0 .. m : d \in P
    BY <1>2, <1>3, <1>4, Induction
  <2> QED BY <1>4, <2>1
<1>6. Best(m)
  BY <1>5
<1> HIDE DEF m
<1> QED BY <1>1, <1>4, <1>6

\* The outer loop, round by round.
LEMMA SortedRounds ==
  ASSUME NEW n \in Nat, NEW s \in Lists(n), Distinct(s, n), NEW before, Strict(before)
  PROVE  \E h : /\ h[0] = s /\ Sorted(s, before) = h[n]
                /\ \A i \in 1 .. n : h[i] = Pass(h[i - 1], i, before)
<1> DEFINE V == {r \in Lists(n) : Distinct(r, n)}
           next(i, r) == Pass(r, i, before)
           step == [p \in (1 .. n) \X V |-> next(p[1], p[2])]
           Is(a) == a = [i \in 0 .. n |-> IF i = 0 THEN s ELSE Pass(a[i - 1], i, before)]
           after == CHOOSE a : Is(a)
<1>1. s \in V /\ Len(s) = n
  BY DEF Lists
<1>2. ASSUME NEW i \in 1 .. n, NEW r \in V PROVE next(i, r) \in V
  <2>1. Reorders(Pass(r, i, before), r, i, n)
    BY PassSelects
  <2> QED BY <2>1 DEF Reorders
<1>3. step \in [(1 .. n) \X V -> V]
  BY <1>2
<1>4. Sorted(s, before) = after[n]
  BY <1>1 DEF Sorted
<1> HIDE DEF V
<1>5. PICK g \in [0 .. n -> V] : Rounds(g, n, s, step)
  BY <1>1, <1>3, LoopExists
<1>6. g[0] = s /\ \A i \in 1 .. n : g[i] = next(i, g[i - 1])
  <2>1. \A i \in 1 .. n : <<i, g[i - 1]>> \in (1 .. n) \X V
    BY <1>5
  <2>2. \A i \in 1 .. n : step[<<i, g[i - 1]>>] = next(i, g[i - 1])
    BY <2>1
  <2> QED BY <1>5, <2>2 DEF Rounds
<1>7. Is(g)
  <2>1. \A i \in 0 .. n : g[i] = IF i = 0 THEN s ELSE Pass(g[i - 1], i, before)
    BY <1>6
  <2> QED BY <1>5, <2>1
<1>8. Is(after)
  BY <1>7
<1> HIDE DEF after
<1>9. after[0] = s /\ \A i \in 1 .. n : after[i] = Pass(after[i - 1], i, before)
  BY <1>8
<1> QED BY <1>4, <1>9

\* What doubleAuction's loops leave: the same bids, none before an earlier one.
LEMMA SortedSorts ==
  ASSUME NEW n \in Nat, NEW s \in Lists(n), Distinct(s, n), NEW before, Strict(before)
  PROVE  LET r == Sorted(s, before)
         IN  /\ Reorders(r, s, 1, n)
             /\ \A a, b \in 1 .. n : a < b => <<r[b], r[a]>> \notin before
<1>1. PICK h : /\ h[0] = s /\ Sorted(s, before) = h[n]
               /\ \A i \in 1 .. n : h[i] = Pass(h[i - 1], i, before)
  BY SortedRounds
<1> DEFINE Ordered(i) == /\ Reorders(h[i], s, 1, n)
                         /\ \A a \in 1 .. i : \A b \in a + 1 .. n : <<h[i][b], h[i][a]>> \notin before
           P == {i \in 0 .. n : Ordered(i)}
<1>2. 0 \in P
  <2>1. Reorders(h[0], s, 1, n)
    BY <1>1 DEF Reorders
  <2> QED BY <2>1
<1>3. ASSUME NEW i \in 1 .. n, i - 1 \in P PROVE i \in P
  <2> DEFINE r == h[i - 1]
             w == h[i]
  <2>1. /\ Reorders(r, s, 1, n)
        /\ \A a \in 1 .. i - 1 : \A b \in a + 1 .. n : <<r[b], r[a]>> \notin before
    BY <1>3
  <2>2. r \in Lists(n) /\ Distinct(r, n) /\ From(r, 1, n) = From(s, 1, n)
    BY <2>1 DEF Reorders
  <2>3. w = Pass(r, i, before)
    BY <1>1
  <2>4. /\ Reorders(w, r, i, n)
        /\ \A b \in i + 1 .. n : <<w[b], w[i]>> \notin before
    <3> HIDE DEF r
    <3> QED BY <2>2, <2>3, PassSelects
  <2> HIDE DEF r, w
  <2>5. /\ w \in Lists(n) /\ Distinct(w, n)
        /\ \A a \in 1 .. i - 1 : w[a] = r[a]
        /\ From(w, i, n) = From(r, i, n)
    BY <2>4 DEF Reorders
  <2>6. \A b \in i .. n : \E c \in i .. n : w[b] = r[c]
    BY <2>5 DEF From
  <2>7. \A c \in i .. n : \E b \in i .. n : r[c] = w[b]
    BY <2>5 DEF From
  <2>8. From(w, 1, n) = From(r, 1, n)
    <3>1. ASSUME NEW a \in 1 .. n PROVE w[a] \in From(r, 1, n)
      <4>1. CASE a < i
        BY <2>5, <4>1 DEF From
      <4>2. CASE a >= i
        <5>1. PICK c \in i .. n : w[a] = r[c]
          BY <2>6, <4>2
        <5> QED BY <5>1 DEF From
      <4> QED BY <4>1, <4>2
    <3>2. ASSUME NEW a \in 1 .. n PROVE r[a] \in From(w, 1, n)
      <4>1. CASE a < i
        <5>1. r[a] = w[a]
          BY <2>5, <4>1
        <5> QED BY <5>1 DEF From
      <4>2. CASE a >= i
        <5>1. PICK b \in i .. n : r[a] = w[b]
          BY <2>7, <4>2
        <5> QED BY <5>1 DEF From
      <4> QED BY <4>1, <4>2
    <3> QED BY <3>1, <3>2 DEF From
  <2>9. Reorders(w, s, 1, n)
    BY <2>2, <2>5, <2>8 DEF Reorders
  <2>10. ASSUME NEW a \in 1 .. i, NEW b \in a + 1 .. n PROVE <<w[b], w[a]>> \notin before
    <3>1. CASE a = i
      BY <2>4, <3>1
    <3>2. CASE a # i
      <4>1. a \in 1 .. i - 1 /\ w[a] = r[a]
        BY <2>5, <3>2
      <4>2. CASE b < i
        <5>1. w[b] = r[b]
          BY <2>5, <4>2
        <5> QED BY <2>1, <4>1, <5>1
      <4>3. CASE b >= i
        <5>1. PICK c \in i .. n : w[b] = r[c]
          BY <2>6, <4>3
        <5>2. c \in a + 1 .. n
          BY <4>1
        <5> QED BY <2>1, <4>1, <5>1, <5>2
      <4> QED BY <4>2, <4>3
    <3> QED BY <3>1, <3>2
  <2> QED BY <2>9, <2>10 DEF w
<1>4. \A i \in 0 .. n : i \in P
  <2> HIDE DEF P
  <2> QED BY <1>2, <1>3, Induction
<1>5. Ordered(n)
  BY <1>4
<1>6. \A a, b \in 1 .. n : a < b => b \in a + 1 .. n
  OBVIOUS
<1> QED BY <1>1, <1>5, <1>6

-----------------------------------------------------------------------------
(* A sorted book, and the trades of two of them                              *)

\* The positions of a book.
LEMMA IntervalSize ==
  ASSUME NEW k \in Nat
  PROVE  IsFiniteSet(1 .. k) /\ Cardinality(1 .. k) = k
<1>1. IsFiniteSet(1 .. k) /\ Cardinality(1 .. k) = IF 1 > k THEN 0 ELSE k - 1 + 1
  BY FS_Interval
<1> QED BY <1>1

\* A book without two equal bids has as many bids as it is long.
LEMMA BookSize ==
  ASSUME NEW s \in Seq(Bid), Distinct(s, Len(s))
  PROVE  /\ Len(s) \in Nat /\ s \in Lists(Len(s)) /\ DOMAIN s = 1 .. Len(s)
         /\ ToSet(s) = From(s, 1, Len(s)) /\ Cardinality(ToSet(s)) = Len(s)
<1> DEFINE n == Len(s)
           S == 1 .. n
           T == ToSet(s)
<1>1. n \in Nat /\ s \in [1 .. n -> Bid] /\ DOMAIN s = 1 .. n
  BY LenProperties
<1>2. T = From(s, 1, n)
  BY <1>1 DEF From, ToSet
<1>3. s \in [S -> T] /\ \A a, b \in S : s[a] = s[b] => a = b
  BY <1>1 DEF ToSet, Distinct
<1>4. \A t \in T : \E a \in S : s[a] = t
  BY <1>1 DEF ToSet
<1>5. IsFiniteSet(S) /\ Cardinality(S) = n
  BY <1>1, IntervalSize
<1>6. Cardinality(T) = Cardinality(S)
  <2> HIDE DEF S, T, n
  <2>1. s \in Bijection(S, T)
    BY <1>3, <1>4, Fun_IsBij
  <2>2. ExistsBijection(S, T)
    BY <2>1 DEF ExistsBijection
  <2> QED BY <1>5, <2>2, FS_Bijection
<1> QED BY <1>1, <1>2, <1>5, <1>6 DEF Lists

\* r is the book s, best bids first
Best(r, s, before) ==
  /\ r \in Lists(Len(s)) /\ Distinct(r, Len(s)) /\ DOMAIN r = 1 .. Len(s) /\ Len(r) = Len(s)
  /\ From(r, 1, Len(s)) = ToSet(s)
  /\ \A a, b \in 1 .. Len(s) : a < b => <<r[b], r[a]>> \notin before

\* Sorting a book without two bids of one user ranks its bids.
LEMMA SortedIsBest ==
  ASSUME NEW s \in Seq(Bid), Distinct(s, Len(s)), NEW before, Strict(before)
  PROVE  Best(Sorted(s, before), s, before)
<1> DEFINE r == Sorted(s, before)
           n == Len(s)
<1>1. n \in Nat /\ s \in Lists(n) /\ ToSet(s) = From(s, 1, n)
  BY BookSize
<1>2. Reorders(r, s, 1, n) /\ \A a, b \in 1 .. n : a < b => <<r[b], r[a]>> \notin before
  <2> HIDE DEF n
  <2>1. Distinct(s, n)
    BY DEF n
  <2> QED BY <1>1, <2>1, SortedSorts
<1> HIDE DEF r, n
<1>3. r \in Lists(n) /\ Distinct(r, n) /\ From(r, 1, n) = From(s, 1, n)
  BY <1>2 DEF Reorders
<1>4. DOMAIN r = 1 .. n /\ Len(r) = n
  BY <1>1, <1>3 DEF Lists
<1>5. Best(r, s, before)
  BY <1>1, <1>2, <1>3, <1>4 DEF Best, n
<1> QED BY <1>5 DEF r

\* k pairs cross, and no more, and the k-th at the worst values.
Cross(b, s, m, n, k) ==
  /\ k \in Nat /\ k <= m /\ k <= n
  /\ Cardinality({i \in DOMAIN b \cap DOMAIN s : b[i].v >= s[i].v}) = k
  /\ \A i \in 1 .. k : b[k].v <= b[i].v /\ s[i].v <= s[k].v /\ s[k].v <= b[k].v

\* The leading pairs that cross are all that cross.
LEMMA CrossingIs ==
  ASSUME NEW m \in Nat, NEW b \in Lists(m), NEW n \in Nat, NEW s \in Lists(n),
         \A i, j \in 1 .. m : i < j => <<b[j], b[i]>> \notin Dearer,
         \A i, j \in 1 .. n : i < j => <<s[j], s[i]>> \notin Cheaper,
         NEW k, k = Crossing(b, s)
  PROVE  Cross(b, s, m, n, k)
<1> DEFINE l == IF n < m THEN n ELSE m
           K == {x \in 0 .. l : \A i \in 1 .. x : b[i].v >= s[i].v}
           C == {i \in DOMAIN b \cap DOMAIN s : b[i].v >= s[i].v}
           far == {l - x : x \in K}
<1>1. /\ DOMAIN b = 1 .. m /\ DOMAIN s = 1 .. n /\ Len(b) = m /\ Len(s) = n
      /\ \A i \in 1 .. m : b[i] \in Bid
      /\ \A i \in 1 .. n : s[i] \in Bid
  BY DEF Lists
<1>2. /\ \A i \in 1 .. m : b[i].v \in Nat
      /\ \A i \in 1 .. n : s[i].v \in Nat
  BY <1>1, BidFacts
<1>3. \A i, j \in 1 .. m : i < j => b[j].v <= b[i].v
  <2> SUFFICES ASSUME NEW i \in 1 .. m, NEW j \in 1 .. m, i < j PROVE b[j].v <= b[i].v
    OBVIOUS
  <2>1. ~ (b[j].v > b[i].v)
    BY <1>1 DEF Dearer
  <2> QED BY <1>2, <2>1
<1>4. \A i, j \in 1 .. n : i < j => s[i].v <= s[j].v
  <2> SUFFICES ASSUME NEW i \in 1 .. n, NEW j \in 1 .. n, i < j PROVE s[i].v <= s[j].v
    OBVIOUS
  <2>1. ~ (s[j].v < s[i].v)
    BY <1>1 DEF Cheaper
  <2> QED BY <1>2, <2>1
<1>5. k = Max(K)
  BY <1>1 DEF Crossing
<1>6. l \in Nat /\ l <= m /\ l <= n /\ 1 .. l = DOMAIN b \cap DOMAIN s
  BY <1>1
<1>7. 0 \in K
  BY <1>6
<1>8. \E x \in K : \A y \in K : x >= y
  <2>1. far \in SUBSET Nat /\ far # {}
    <3>1. \A x \in K : x \in 0 .. l
      OBVIOUS
    <3> HIDE DEF K, l
    <3>2. \A x \in K : l - x \in Nat
      BY <1>6, <3>1
    <3> QED BY <1>7, <3>2
  <2>2. PICK d \in far : \A y \in far : d <= y
    <3> HIDE DEF far
    <3> QED BY <2>1, LeastNatural
  <2>3. PICK x \in K : d = l - x
    OBVIOUS
  <2>4. \A y \in K : l - x <= l - y
    BY <2>2, <2>3
  <2>5. \A y \in K : y \in Int
    OBVIOUS
  <2> HIDE DEF K, l, far
  <2>6. \A y \in K : x >= y
    BY <1>6, <2>4, <2>5
  <2> QED BY <2>6
<1>9. k \in K /\ \A y \in K : k >= y
  <2> HIDE DEF K
  <2> QED BY <1>5, <1>8 DEF Max
<1>10. k \in Nat /\ k <= l /\ \A i \in 1 .. k : b[i].v >= s[i].v
  BY <1>6, <1>9
<1>11. C = 1 .. k
  <2>1. ASSUME NEW i \in 1 .. l, b[i].v >= s[i].v PROVE i \in 1 .. k
    <3>1. ASSUME NEW j \in 1 .. i PROVE b[j].v >= s[j].v
      <4>1. /\ j \in 1 .. m /\ i \in 1 .. m /\ j \in 1 .. n /\ i \in 1 .. n
            /\ j < i \/ j = i
        BY <1>6
      <4>2. /\ b[i].v <= b[j].v /\ s[j].v <= s[i].v
            /\ b[i].v \in Nat /\ b[j].v \in Nat /\ s[i].v \in Nat /\ s[j].v \in Nat
        BY <1>2, <1>3, <1>4, <4>1
      <4> QED BY <2>1, <4>2
    <3>2. i \in K
      BY <1>6, <3>1
    <3>3. k >= i
      BY <1>9, <3>2
    <3> QED BY <1>6, <3>3
  <2>2. \A i \in 1 .. k : i \in 1 .. l /\ b[i].v >= s[i].v
    BY <1>6, <1>10
  <2> HIDE DEF l
  <2> QED BY <1>6, <2>1, <2>2
<1>12. Cardinality(1 .. k) = k
  <2>1. k \in Nat
    BY <1>10
  <2> QED BY <2>1, IntervalSize
<1>13. ASSUME NEW i \in 1 .. k
       PROVE  b[k].v <= b[i].v /\ s[i].v <= s[k].v /\ s[k].v <= b[k].v
  <2>1. /\ i \in 1 .. m /\ k \in 1 .. m /\ i \in 1 .. n /\ k \in 1 .. n /\ k \in 1 .. k
        /\ i < k \/ i = k
    BY <1>6, <1>10
  <2>2. b[i].v \in Nat /\ b[k].v \in Nat /\ s[i].v \in Nat /\ s[k].v \in Nat
    BY <1>2, <2>1
  <2> QED BY <1>3, <1>4, <1>10, <2>1, <2>2
<1>14. k \in Nat /\ k <= m /\ k <= n
  <2> HIDE DEF l
  <2> QED BY <1>6, <1>10
<1>15. C = 1 .. k /\ Cardinality(C) = k
  BY <1>11, <1>12
<1> QED BY <1>13, <1>14, <1>15 DEF Cross

\* The books of the contract: nobody is in one twice.
LEMMA BooksAreDistinct ==
  ASSUME AuctionInv
  PROVE  /\ Distinct(buyers, Len(buyers)) /\ Distinct(sellers, Len(sellers))
         /\ \A x, y \in ToSet(buyers) : x.user = y.user => x = y
         /\ \A x, y \in ToSet(sellers) : x.user = y.user => x = y
<1>1. ASSUME NEW s \in Seq(Bid), \A u \in User : \A i, j \in Holds(u, s) : i = j
      PROVE  Distinct(s, Len(s)) /\ \A x, y \in ToSet(s) : x.user = y.user => x = y
  <2>1. DOMAIN s = 1 .. Len(s) /\ \A i \in DOMAIN s : s[i].user \in User
    BY LenProperties, ElementOfSeq, BidFacts
  <2>2. \A i, j \in DOMAIN s : s[i].user = s[j].user => i = j
    BY <1>1, <2>1 DEF Holds
  <2> QED BY <2>1, <2>2 DEF Distinct, ToSet
<1>2. /\ buyers \in Seq(Bid) /\ \A u \in User : \A i, j \in Holds(u, buyers) : i = j
      /\ sellers \in Seq(Bid) /\ \A u \in User : \A i, j \in Holds(u, sellers) : i = j
  BY DEF AuctionInv, Books, OneBidEach
<1> QED BY <1>1, <1>2

\* Two sorted books and the number of their pairs that cross.
Matched(b, s, k) ==
  /\ Best(b, buyers, Dearer) /\ Best(s, sellers, Cheaper)
  /\ k \in Nat /\ k <= Len(buyers) /\ k <= Len(sellers)
  /\ Cardinality({i \in DOMAIN b \cap DOMAIN s : b[i].v >= s[i].v}) = k
  /\ \A i \in 1 .. k :
       /\ b[i] \in ToSet(buyers) /\ b[i] \in Bid /\ b[k] \in Bid
       /\ s[i] \in ToSet(sellers) /\ s[i] \in Bid /\ s[k] \in Bid
       /\ b[k].v <= b[i].v /\ s[i].v <= s[k].v /\ s[k].v <= b[k].v

\* What doubleAuction pairs, in any state the contract reaches.
LEMMA AuctionMatches ==
  ASSUME AuctionInv
  PROVE  Matched(SortedBuyers, SortedSellers, Crossing(SortedBuyers, SortedSellers))
<1> DEFINE b == SortedBuyers
           s == SortedSellers
           k == Crossing(b, s)
           m == Len(buyers)
           n == Len(sellers)
<1>1. buyers \in Seq(Bid) /\ sellers \in Seq(Bid) /\ m \in Nat /\ n \in Nat
  BY DEF AuctionInv, Books
<1>2. Best(b, buyers, Dearer) /\ Best(s, sellers, Cheaper)
  BY <1>1, BooksAreDistinct, OrdersAreStrict, SortedIsBest DEF SortedBuyers, SortedSellers
<1> HIDE DEF b, s
<1>3. /\ b \in Lists(m) /\ s \in Lists(n)
      /\ \A i, j \in 1 .. m : i < j => <<b[j], b[i]>> \notin Dearer
      /\ \A i, j \in 1 .. n : i < j => <<s[j], s[i]>> \notin Cheaper
      /\ From(b, 1, m) = ToSet(buyers) /\ From(s, 1, n) = ToSet(sellers)
  BY <1>2 DEF Best
<1> HIDE DEF m, n
<1>4. /\ k \in Nat /\ k <= m /\ k <= n
      /\ Cardinality({i \in DOMAIN b \cap DOMAIN s : b[i].v >= s[i].v}) = k
      /\ \A i \in 1 .. k : b[k].v <= b[i].v /\ s[i].v <= s[k].v /\ s[k].v <= b[k].v
  <2>1. Cross(b, s, m, n, k)
    BY <1>1, <1>3, CrossingIs
  <2> HIDE DEF k
  <2> QED BY <2>1 DEF Cross
<1> HIDE DEF k
<1>5. ASSUME NEW i \in 1 .. k
      PROVE  /\ b[i] \in ToSet(buyers) /\ b[i] \in Bid /\ b[k] \in Bid
             /\ s[i] \in ToSet(sellers) /\ s[i] \in Bid /\ s[k] \in Bid
  <2>1. i \in 1 .. m /\ k \in 1 .. m /\ i \in 1 .. n /\ k \in 1 .. n
    BY <1>1, <1>4
  <2> QED BY <1>3, <2>1 DEF From, Lists
<1>6. Matched(b, s, k)
  BY <1>2, <1>4, <1>5 DEF Matched, m, n
<1> QED BY <1>6 DEF b, s, k

\* The middle of two values.
LEMMA Middle ==
  ASSUME NEW x \in Nat, NEW y \in Nat, x <= y
  PROVE  /\ (y + x) \div 2 \in Nat /\ x <= (y + x) \div 2 /\ (y + x) \div 2 <= y
OBVIOUS

Trade == [seller : User, buyer : User, price : 0 .. MaxUint, quantity : Quantity]

\* What the trades say, pair by pair.
LEMMA TradesFacts ==
  ASSUME NEW b, NEW s, NEW k, k = Crossing(b, s), Matched(b, s, k)
  PROVE  /\ DOMAIN Trades(b, s) = 1 .. k
         /\ \A i \in 1 .. k :
              LET t == Trades(b, s)[i] IN
              /\ t.seller = s[i].user /\ t.buyer = b[i].user
              /\ s[i].v <= t.price /\ t.price <= b[i].v
              /\ t.quantity <= b[i].q /\ t.quantity <= s[i].q
         /\ Trades(b, s) \in Seq(Trade)
<1> DEFINE price == (b[k].v + s[k].v) \div 2
           row(i) == [seller |-> s[i].user, buyer |-> b[i].user, price |-> price,
                      quantity |-> IF b[i].q < s[i].q THEN b[i].q ELSE s[i].q]
<1>1. Trades(b, s) = [i \in 1 .. k |-> row(i)]
  BY DEF Trades
<1>2. k \in Nat
  BY DEF Matched
<1>3. ASSUME NEW i \in 1 .. k
      PROVE  /\ price \in 0 .. MaxUint /\ s[i].v <= price /\ price <= b[i].v
             /\ s[i].user \in User /\ b[i].user \in User
             /\ b[i].q \in Quantity /\ s[i].q \in Quantity /\ b[i].q \in Nat /\ s[i].q \in Nat
  <2>1. /\ b[i] \in Bid /\ b[k] \in Bid /\ s[i] \in Bid /\ s[k] \in Bid
        /\ b[k].v <= b[i].v /\ s[i].v <= s[k].v /\ s[k].v <= b[k].v
    BY DEF Matched
  <2>2. /\ b[i].v \in Nat /\ b[k].v \in Nat /\ s[i].v \in Nat /\ s[k].v \in Nat
        /\ b[i].v <= MaxUint /\ MaxUint \in Nat
        /\ s[i].user \in User /\ b[i].user \in User
        /\ b[i].q \in Quantity /\ s[i].q \in Quantity /\ b[i].q \in Nat /\ s[i].q \in Nat
    BY <2>1, BidFacts, AuctionAssumption
  <2>3. price \in Nat /\ s[k].v <= price /\ price <= b[k].v
    BY <2>1, <2>2, Middle
  <2> HIDE DEF price
  <2> QED BY <2>1, <2>2, <2>3
<1> HIDE DEF price
<1>4. ASSUME NEW i \in 1 .. k PROVE row(i) \in Trade
  BY <1>3 DEF Trade
<1>5. [i \in 1 .. k |-> row(i)] \in Seq(Trade)
  <2> HIDE DEF row
  <2> QED BY <1>2, <1>4, IsASeq
<1>6. ASSUME NEW i \in 1 .. k
      PROVE  LET t == Trades(b, s)[i] IN
             /\ t.seller = s[i].user /\ t.buyer = b[i].user
             /\ s[i].v <= t.price /\ t.price <= b[i].v
             /\ t.quantity <= b[i].q /\ t.quantity <= s[i].q
  <2>1. Trades(b, s)[i] = row(i)
    BY <1>1
  <2>2. /\ row(i).seller = s[i].user /\ row(i).buyer = b[i].user /\ row(i).price = price
        /\ row(i).quantity <= b[i].q /\ row(i).quantity <= s[i].q
    BY <1>3
  <2> HIDE DEF row
  <2> QED BY <1>3, <2>1, <2>2
<1> QED BY <1>1, <1>5, <1>6

-----------------------------------------------------------------------------
(* Theorems                                                                  *)

\* The types are kept.
LEMMA TypeStep == AuctionInv /\ TypeOK /\ [Next]_vars => TypeOK'
<1> SUFFICES ASSUME AuctionInv, TypeOK, [Next]_vars PROVE TypeOK'
  OBVIOUS
<1>1. /\ Books' /\ elapsed \in 0 .. Interval /\ results \in Seq(Trade) /\ Interval \in Nat
      /\ auctionRan \in BOOLEAN
  BY AuctionStep, AuctionAssumption DEF AuctionInv, TypeOK, Trade
<1>2. results' \in Seq(Trade) /\ elapsed' \in 0 .. Interval /\ auctionRan' \in BOOLEAN
  <2>1. CASE doubleAuction
    <3>1. results' = Trades(SortedBuyers, SortedSellers) /\ elapsed' = 0 /\ auctionRan' = TRUE
      BY <2>1 DEF doubleAuction
    <3>2. Trades(SortedBuyers, SortedSellers) \in Seq(Trade)
      BY AuctionMatches, TradesFacts
    <3> QED BY <1>1, <3>1, <3>2
  <2>2. CASE Tick
    BY <1>1, <2>2 DEF Tick
  <2>3. CASE (\E b \in Bid : addBuyer(b) \/ addSeller(b)) \/ UNCHANGED vars
    <3>1. UNCHANGED <<results, auctionRan, elapsed>>
      BY <2>3 DEF addBuyer, addSeller, Register, vars
    <3> QED BY <1>1, <3>1
  <2> QED BY <2>1, <2>2, <2>3 DEF Next
<1> QED BY <1>1, <1>2 DEF TypeOK, Books, Trade

\* No price leaves the range of uint, and no trade is of a quantity nobody bid.
THEOREM TypeCorrect == Spec => []TypeOK
<1>1. Init => TypeOK
  <2>1. 0 \in Nat /\ Interval \in 0 .. Interval
    BY AuctionAssumption
  <2>2. /\ <<>> \in Seq(Bid) /\ <<>> \in Seq(User)
        /\ <<>> \in Seq([seller : User, buyer : User, price : 0 .. MaxUint, quantity : Quantity])
    BY EmptySeq
  <2>3. [u \in User |-> FALSE] \in [User -> BOOLEAN]
    OBVIOUS
  <2> QED BY <2>1, <2>2, <2>3 DEF Init, TypeOK
<1> QED BY <1>1, AuctionInit, AuctionStep, TypeStep, PTL DEF Spec

\* An auction, seen from the books it clears.
LEMMA FairTrades ==
  ASSUME AuctionInv, doubleAuction, NEW t \in ToSet(results')
  PROVE  LET buy == BidOf(t.buyer, buyers)
             sell == BidOf(t.seller, sellers)
         IN  /\ sell.v <= t.price /\ t.price <= buy.v
             /\ t.quantity <= buy.q /\ t.quantity <= sell.q
<1> DEFINE b == SortedBuyers
           s == SortedSellers
           k == Crossing(b, s)
           r == Trades(b, s)
<1>1. Matched(b, s, k)
  BY AuctionMatches
<1>2. results' = r
  BY DEF doubleAuction
<1>3. /\ DOMAIN r = 1 .. k
      /\ \A i \in 1 .. k :
           /\ r[i].seller = s[i].user /\ r[i].buyer = b[i].user
           /\ s[i].v <= r[i].price /\ r[i].price <= b[i].v
           /\ r[i].quantity <= b[i].q /\ r[i].quantity <= s[i].q
  BY <1>1, TradesFacts
<1> HIDE DEF r, b, s, k
<1>4. PICK i \in 1 .. k : t = r[i]
  BY <1>2, <1>3 DEF ToSet
<1>5. b[i] \in ToSet(buyers) /\ s[i] \in ToSet(sellers)
  BY <1>1 DEF Matched
<1>6. BidOf(t.buyer, buyers) = b[i] /\ BidOf(t.seller, sellers) = s[i]
  <2>1. /\ \A x \in ToSet(buyers) : x.user = b[i].user => x = b[i]
        /\ \A x \in ToSet(sellers) : x.user = s[i].user => x = s[i]
    BY <1>5, BooksAreDistinct
  <2> QED BY <1>3, <1>4, <1>5, <2>1 DEF BidOf
<1> QED BY <1>3, <1>4, <1>6

\* Once the interval is over the auction does not revert for the books it finds, as
\* long as no buyer's value is so large that its double overflows: both checks of
\* doubleAuction pass, so nothing else keeps the book from being cleared.
THEOREM AuctionNeverReverts == Spec => []Clearable
<1>1. ASSUME AuctionInv PROVE Clearable
  <2> SUFFICES ASSUME ~ auctionRan \/ elapsed = Interval,
                      \A x \in ToSet(buyers) : 2 * x.v <= MaxUint
               PROVE  Runs
    BY DEF Clearable
  <2> DEFINE b == SortedBuyers
             s == SortedSellers
             k == Crossing(b, s)
  <2>1. Due
    BY AuctionAssumption DEF Due
  <2>2. Matched(b, s, k)
    BY <1>1, AuctionMatches
  <2> HIDE DEF b, s, k
  <2>3. ASSUME k > 0 PROVE b[k].v + s[k].v <= MaxUint
    <3>1. k \in 1 .. k
      BY <2>2, <2>3 DEF Matched
    <3>2. /\ b[k] \in ToSet(buyers) /\ b[k] \in Bid /\ s[k] \in Bid /\ s[k].v <= b[k].v
      BY <2>2, <3>1 DEF Matched
    <3>3. b[k].v \in Nat /\ s[k].v \in Nat /\ MaxUint \in Nat /\ 2 * b[k].v <= MaxUint
      BY <3>2, BidFacts, AuctionAssumption
    <3> QED BY <3>2, <3>3
  <2>4. PriceFits(b, s)
    BY <2>3 DEF PriceFits, k
  <2> QED BY <2>1, <2>4 DEF Runs, b, s
<1> QED BY <1>1, AuctionInit, AuctionStep, PTL DEF Spec

\* Nobody pays more than the bid, gets less, or trades more than was bid, however
\* the loops of doubleAuction reorder the books.
THEOREM NobodyLosesEver == Spec => NobodyLoses
<1>1. ASSUME AuctionInv, [Next]_vars, usedList # <<>>, usedList' = <<>> PROVE doubleAuction
  <2>1. CASE \E b \in Bid : addBuyer(b) \/ addSeller(b)
    <3>1. PICK b \in Bid : usedList' = Append(usedList, b.user)
      BY <2>1 DEF addBuyer, addSeller, Register
    <3>2. usedList \in Seq(User) /\ b.user \in User
      BY <1>1, BidFacts DEF AuctionInv, Books
    <3>3. Len(<<>>) = Len(usedList) + 1 /\ Len(usedList) \in Nat
      BY <1>1, <3>1, <3>2, AppendProperties
    <3> QED BY <3>3
  <2>2. CASE Tick \/ UNCHANGED vars
    BY <1>1, <2>2 DEF Tick, vars
  <2> QED BY <1>1, <2>1, <2>2 DEF Next
<1>2. AuctionInv /\ [Next]_vars =>
        [usedList # <<>> /\ usedList' = <<>> =>
           \A t \in ToSet(results') :
             LET buy == BidOf(t.buyer, buyers)
                 sell == BidOf(t.seller, sellers)
             IN  /\ sell.v <= t.price /\ t.price <= buy.v
                 /\ t.quantity <= buy.q /\ t.quantity <= sell.q]_vars
  BY <1>1, FairTrades
<1> QED BY <1>2, AuctionInit, AuctionStep, PTL DEF Spec, NobodyLoses

\* A bid is one more in its book.
LEMMA BidRefines ==
  ASSUME AuctionInv, NEW b \in Bid, addBuyer(b) \/ addSeller(b)
  PROVE  Market!Buy(b) \/ Market!Sell(b)
<1>1. buyers \in Seq(Bid) /\ sellers \in Seq(Bid) /\ b.user \in User
  BY BidFacts DEF AuctionInv, Books
<1>2. b.user \notin Market!Bidders
  <2>1. ~ used[b.user]
    BY DEF addBuyer, addSeller, Register
  <2>2. Holds(b.user, buyers) = {} /\ Holds(b.user, sellers) = {}
    BY <1>1, <2>1 DEF AuctionInv, OneBidEach
  <2> QED BY <2>2 DEF Market!Bidders, Holds, ToSet
<1>3. ASSUME NEW s \in Seq(Bid) PROVE ToSet(Append(s, b)) = ToSet(s) \cup {b}
  <2>1. /\ DOMAIN Append(s, b) = 1 .. Len(s) + 1 /\ DOMAIN s = 1 .. Len(s) /\ Len(s) \in Nat
        /\ \A i \in 1 .. Len(s) : Append(s, b)[i] = s[i]
        /\ Append(s, b)[Len(s) + 1] = b
    BY AppendProperties, LenProperties
  <2> DEFINE w == Append(s, b)
  <2> HIDE DEF w
  <2>2. ToSet(w) = ToSet(s) \cup {b}
    BY <2>1 DEF ToSet, w
  <2> QED BY <2>2 DEF w
<1>4. CASE addBuyer(b)
  <2>1. ToSet(buyers)' = ToSet(buyers) \cup {b} /\ UNCHANGED <<ToSet(sellers), results>>
    BY <1>1, <1>3, <1>4 DEF addBuyer, Register
  <2> QED BY <1>2, <2>1 DEF Market!Buy
<1>5. CASE addSeller(b)
  <2>1. ToSet(sellers)' = ToSet(sellers) \cup {b} /\ UNCHANGED <<ToSet(buyers), results>>
    BY <1>1, <1>3, <1>5 DEF addSeller, Register
  <2> QED BY <1>2, <2>1 DEF Market!Sell
<1> QED BY <1>4, <1>5

\* The market counts as its implementation does.
LEMMA SameCount == \A S : Market!Cardinality(S) = Cardinality(S)
BY Zenon DEF Market!Cardinality, Cardinality

\* The auction is a call: the sorted books are rankings of the bids.
LEMMA AuctionRefines ==
  ASSUME AuctionInv, doubleAuction
  PROVE  Market!Call
<1> DEFINE b == SortedBuyers
           s == SortedSellers
           k == Crossing(b, s)
<1>1. Matched(b, s, k)
  BY AuctionMatches
<1>2. /\ results' = Trades(b, s) /\ buyers' = <<>> /\ sellers' = <<>>
  BY DEF doubleAuction
<1>3. Trades(b, s) = [i \in 1 .. k |->
         [seller |-> s[i].user, buyer |-> b[i].user, price |-> (b[k].v + s[k].v) \div 2,
          quantity |-> IF b[i].q < s[i].q THEN b[i].q ELSE s[i].q]]
  BY DEF Trades
<1> HIDE DEF b, s, k
<1>4. ToSet(buyers)' = {} /\ ToSet(sellers)' = {}
  BY <1>2 DEF ToSet
<1>5. /\ Cardinality(ToSet(buyers)) = Len(buyers) /\ Cardinality(ToSet(sellers)) = Len(sellers)
      /\ Len(buyers) \in Nat /\ Len(sellers) \in Nat
  BY BooksAreDistinct, BookSize DEF AuctionInv, Books
<1>6. b \in Market!Rankings(ToSet(buyers), LAMBDA x, y : x.v < y.v)
  <2>1. /\ b \in [1 .. Len(buyers) -> ToSet(buyers)] /\ b \in Lists(Len(buyers))
        /\ \A i, j \in 1 .. Len(buyers) : i < j => b[i] # b[j] /\ <<b[j], b[i]>> \notin Dearer
    BY <1>1, <1>5 DEF Matched, Best, Lists, Distinct, From
  <2>2. \A i, j \in 1 .. Len(buyers) : i < j => b[i] # b[j] /\ ~ (b[i].v < b[j].v)
    BY <2>1 DEF Dearer, Lists
  <2> QED BY <1>5, <2>1, <2>2, SameCount DEF Market!Rankings
<1>7. s \in Market!Rankings(ToSet(sellers), LAMBDA x, y : x.v > y.v)
  <2>1. /\ s \in [1 .. Len(sellers) -> ToSet(sellers)] /\ s \in Lists(Len(sellers))
        /\ \A i, j \in 1 .. Len(sellers) : i < j => s[i] # s[j] /\ <<s[j], s[i]>> \notin Cheaper
    BY <1>1, <1>5 DEF Matched, Best, Lists, Distinct, From
  <2>2. \A i, j \in 1 .. Len(sellers) : i < j => s[i] # s[j] /\ ~ (s[i].v > s[j].v)
    BY <2>1 DEF Cheaper, Lists
  <2> QED BY <1>5, <2>1, <2>2, SameCount DEF Market!Rankings
<1>8. Cardinality({i \in DOMAIN b \cap DOMAIN s : b[i].v >= s[i].v}) = k
  BY <1>1 DEF Matched
<1>9. Market!Cardinality({i \in DOMAIN b \cap DOMAIN s : b[i].v >= s[i].v}) = k
  BY <1>8, SameCount, Zenon
<1>10. LET crossing == {i \in DOMAIN b \cap DOMAIN s : b[i].v >= s[i].v}
           pairs == Market!Cardinality(crossing)
       IN  /\ results' = [i \in 1 .. pairs |->
                 [seller |-> s[i].user, buyer |-> b[i].user,
                  price |-> (b[pairs].v + s[pairs].v) \div 2,
                  quantity |-> IF b[i].q < s[i].q THEN b[i].q ELSE s[i].q]]
           /\ ToSet(buyers)' = {} /\ ToSet(sellers)' = {}
  BY <1>2, <1>3, <1>4, <1>9, Zenon
<1> QED BY <1>6, <1>7, <1>10, Zenon DEF Market!Call

\* However the contract sorts and pairs, it is a market that is called: the
\* dearest demand meets the cheapest supply, at one price, as far as they cross.
THEOREM AuctionIsCallMarket == Spec => Implements
<1>1. Init => Market!Init
  BY DEF Init, Market!Init, ToSet
<1>2. AuctionInv /\ [Next]_vars => [Market!Next]_(Market!vars)
  <2> SUFFICES ASSUME AuctionInv, [Next]_vars PROVE [Market!Next]_(Market!vars)
    OBVIOUS
  <2>1. ASSUME NEW b \in Bid, addBuyer(b) \/ addSeller(b) PROVE Market!Next
    <3>1. b \in [user : User, q : Quantity, v : Value]
      BY DEF Bid
    <3> QED BY <2>1, <3>1, BidRefines DEF Market!Next
  <2>2. CASE doubleAuction
    BY <2>2, AuctionRefines DEF Market!Next
  <2>3. CASE Tick \/ UNCHANGED vars
    BY <2>3 DEF Tick, vars, Market!vars
  <2> QED BY <2>1, <2>2, <2>3 DEF Next
<1> QED BY <1>1, <1>2, AuctionInit, AuctionStep, PTL DEF Spec, Implements, Market!Spec
=============================================================================
