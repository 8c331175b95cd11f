--------------------------- MODULE FullNodeProofs ---------------------------
(***************************************************************************)
(* Proofs about FullNode, for every network, mempool and set of foreign    *)
(* chains.  A transaction is Fit when nothing is wrong with itself; a      *)
(* sequence of transactions is Good when each is fit, new, and spends what *)
(* is live after those before it.  The three passes over transactions are  *)
(* related to Good once:                                                   *)
(*   - replaying a sequence accepts it only if it is Good (verify_chain);  *)
(*   - rebuilding the database over a Good sequence accepts every one of   *)
(*     them and ends with the unspent outputs (update_UTXO);               *)
(*   - collecting extends a Good sequence to a Good sequence.              *)
(* The inductive invariant says of every chain the system holds, in memory *)
(* or on its way, that it is linked and Good.                              *)
(***************************************************************************)
EXTENDS FullNode, RecursionProofs, FunctionTheorems, SequenceTheorems

\* A transaction without a fault of its own: with its parents in the chain and
\* its inputs live it is accepted.
Fit(t) ==
  IF t \in COINBASE THEN ~ (TotalValue(OutputsOf(t)) > CoinbaseCap)
  ELSE /\ \A k \in 1 .. Len(inputs[t]) :
            /\ inputs[t][k].signed
            /\ Exists(Ref(t, k))
            /\ inputs[t][k].pubkeyhash = OwnerOf(Ref(t, k))
            /\ \A j \in 1 .. k - 1 : Ref(t, j) # Ref(t, k)
       /\ ~ Overspends(t)

\* What the first k transactions created, spent, and left.
Made(txs, k) == UNION {OutputsOf(txs[j]) : j \in 1 .. k}
Gone(txs, k) == UNION {Spends(txs[j]) : j \in 1 .. k}
Live(txs, k) == Made(txs, k) \ Gone(txs, k)

\* The k-th transaction is new and spends what is live after those before it.
Follows(txs, k) ==
  /\ Fit(txs[k])
  /\ \A j \in 1 .. k - 1 : txs[j] # txs[k]
  /\ Spends(txs[k]) \subseteq Live(txs, k - 1)

Good(txs) == \A k \in 1 .. Len(txs) : Follows(txs, k)

\* A sequence of blocks that carry transactions of T.
Blocks(c, T) ==
  /\ c \in Seq(ToSet(c))
  /\ \A i \in 1 .. Len(c) : c[i].transactions \in Seq(T)

\* The blocks a chain may start with: a block 0 that was relayed may have replaced
\* the genesis block.
Root == {Genesis} \cup {c[1] : c \in {d \in Foreign : d[1].index = 0}}

Linked(c) ==
  /\ Len(c) > 0 /\ c[1] \in Root /\ c[1].index = 0
  /\ \A i \in 2 .. Len(c) :
        /\ c[i].index = i - 1
        /\ c[i].previous_hash = Hash(c[i - 1])
        /\ c[i].pow

GoodChain(c, T) == Blocks(c, T) /\ Linked(c) /\ Good(TxsOf(c))

Relayed(c, T) ==
  /\ Blocks(c, T) /\ c # <<>>
  /\ c[1].index \in Nat /\ (c[1].index = 0 => c[1] \in Root)


-----------------------------------------------------------------------------
(* Sequences                                                                 *)

\* A sequence is one over its own elements.
LEMMA OwnElements ==
  ASSUME NEW S, NEW c \in Seq(S)
  PROVE  c \in Seq(ToSet(c))
<1>1. DOMAIN c = 1 .. Len(c) /\ Len(c) \in Nat /\ c \in [1 .. Len(c) -> S]
  BY LenProperties
<1>2. \A i \in 1 .. Len(c) : c[i] \in ToSet(c)
  BY <1>1 DEF ToSet
<1>3. c \in [1 .. Len(c) -> ToSet(c)]
  BY <1>1, <1>2
<1> QED BY <1>1, <1>3, SeqDef

Elements(s) == {s[k] : k \in 1 .. Len(s)}

\* What a concatenation contains.
LEMMA ElementsConcat ==
  ASSUME NEW T, NEW s \in Seq(T), NEW t \in Seq(T)
  PROVE  Elements(s \o t) = Elements(s) \cup Elements(t)
<1> DEFINE u == s \o t
<1>1. /\ Len(s) \in Nat /\ Len(t) \in Nat /\ Len(u) = Len(s) + Len(t)
      /\ \A i \in 1 .. Len(s) + Len(t) : u[i] = IF i <= Len(s) THEN s[i] ELSE t[i - Len(s)]
  BY ConcatProperties
<1> HIDE DEF u
<1>2. ASSUME NEW k \in 1 .. Len(u)
      PROVE  (\E i \in 1 .. Len(s) : u[k] = s[i]) \/ (\E i \in 1 .. Len(t) : u[k] = t[i])
  <2>1. k \in 1 .. Len(s) \/ k - Len(s) \in 1 .. Len(t)
    BY <1>1
  <2> QED BY <1>1, <2>1
<1>3. \A i \in 1 .. Len(s) : i \in 1 .. Len(u) /\ u[i] = s[i]
  BY <1>1
<1>4. ASSUME NEW i \in 1 .. Len(t)
      PROVE  Len(s) + i \in 1 .. Len(u) /\ u[Len(s) + i] = t[i]
  <2>1. Len(s) + i \in 1 .. Len(s) + Len(t) /\ ~ (Len(s) + i <= Len(s))
        /\ (Len(s) + i) - Len(s) = i
    BY <1>1
  <2> QED BY <1>1, <2>1
<1>5. Elements(u) = Elements(s) \cup Elements(t)
  <2>1. Elements(u) \subseteq Elements(s) \cup Elements(t)
    BY <1>2 DEF Elements
  <2>2. Elements(s) \subseteq Elements(u)
    BY <1>3 DEF Elements
  <2>3. Elements(t) \subseteq Elements(u)
    BY <1>4 DEF Elements
  <2> QED BY <2>1, <2>2, <2>3
<1> QED BY <1>5 DEF u

\* What one more element adds.
LEMMA ElementsAppend ==
  ASSUME NEW T, NEW s \in Seq(T), NEW x \in T
  PROVE  Elements(Append(s, x)) = Elements(s) \cup {x}
<1> DEFINE u == Append(s, x)
<1>1. /\ Len(s) \in Nat /\ Len(u) = Len(s) + 1 /\ u[Len(s) + 1] = x
      /\ \A i \in 1 .. Len(s) : u[i] = s[i]
  BY AppendProperties
<1> HIDE DEF u
<1>2. \A i \in 1 .. Len(u) : i \in 1 .. Len(s) \/ i = Len(s) + 1
  BY <1>1
<1>3. Len(s) + 1 \in 1 .. Len(u) /\ \A i \in 1 .. Len(s) : i \in 1 .. Len(u)
  BY <1>1
<1>4. Elements(u) = Elements(s) \cup {x}
  BY <1>1, <1>2, <1>3 DEF Elements
<1> QED BY <1>4 DEF u

\* An element at the end of the second part is at the end of the whole.
LEMMA ConcatAppend ==
  ASSUME NEW T, NEW s \in Seq(T), NEW t \in Seq(T), NEW x \in T
  PROVE  s \o Append(t, x) = Append(s \o t, x)
<1>1. <<x>> \in Seq(T) /\ s \o t \in Seq(T)
  BY ConcatProperties
<1>2. Append(t, x) = t \o <<x>> /\ Append(s \o t, x) = (s \o t) \o <<x>>
  BY <1>1, AppendIsConcat
<1> QED BY <1>1, <1>2, ConcatAssociative

-----------------------------------------------------------------------------
(* Verdicts                                                                  *)

\* Min of the community modules is a CHOOSE: it needs a smallest element.
LEMMA MinIsMember ==
  ASSUME NEW S \in SUBSET Nat, S # {}
  PROVE  Min(S) \in S
<1>1. PICK x \in S : \A y \in S : x <= y
  BY LeastNatural
<1> QED BY <1>1 DEF Min

\* Outputs are counted from 1 (transaction.py).
LEMMA OutputsAreOutpoints ==
  ASSUME NEW t \in Tx
  PROVE  OutputsOf(t) \in SUBSET Outpoint
BY TxAssumption DEF OutputsOf, Outpoint

\* One input passes every check of verify_transaction, and only then.
LEMMA InputVerdictValid ==
  ASSUME NEW db, NEW K, NEW t \in Tx, NEW k \in 1 .. Len(inputs[t])
  PROVE  InputVerdict(db, K, t, k) = "valid" <=>
           /\ inputs[t][k].signed /\ Exists(Ref(t, k))
           /\ inputs[t][k].pubkeyhash = OwnerOf(Ref(t, k))
           /\ \A j \in 1 .. k - 1 : Ref(t, j) # Ref(t, k)
           /\ Ref(t, k) \in db /\ Ref(t, k)[1] \in K
BY DEF InputVerdict

\* A transaction is accepted when it is fit, its inputs are live and its parents
\* are known; a coinbase when none of its outputs is there already.
LEMMA VerdictValid ==
  ASSUME NEW db, NEW K, NEW t \in Tx
  PROVE  Verdict(db, K, t) = "valid" <=>
           /\ Fit(t)
           /\ t \in COINBASE => \A o \in db : o[1] # t
           /\ t \notin COINBASE =>
                \A k \in 1 .. Len(inputs[t]) : Ref(t, k) \in db /\ Ref(t, k)[1] \in K
<1>1. CASE t \in COINBASE
  BY <1>1 DEF Verdict, Fit
<1>2. CASE t \notin COINBASE
  <2> DEFINE bad == {k \in 1 .. Len(inputs[t]) : InputVerdict(db, K, t, k) # "valid"}
  <2>1. bad \in SUBSET Nat
    BY TxAssumption
  <2>2. CASE bad # {}
    <3>1. Min(bad) \in bad
      BY <2>1, <2>2, MinIsMember
    <3>2. Verdict(db, K, t) # "valid"
      BY <1>2, <2>2, <3>1 DEF Verdict
    <3>3. \E k \in 1 .. Len(inputs[t]) : InputVerdict(db, K, t, k) # "valid"
      BY <2>2
    <3> QED BY <1>2, <3>2, <3>3, InputVerdictValid DEF Fit
  <2>3. CASE bad = {}
    <3>1. Verdict(db, K, t) = "valid" <=> ~ Overspends(t)
      BY <1>2, <2>3 DEF Verdict
    <3>2. \A k \in 1 .. Len(inputs[t]) : InputVerdict(db, K, t, k) = "valid"
      BY <2>3
    <3> QED BY <1>2, <3>1, <3>2, InputVerdictValid DEF Fit
  <2> QED BY <2>2, <2>3
<1> QED BY <1>1, <1>2

\* Only a fault of its own makes a transaction corrupt.
LEMMA VerdictCorrupt ==
  ASSUME NEW db, NEW K, NEW t \in Tx, Verdict(db, K, t) = "corrupt"
  PROVE  ~ Fit(t)
<1>1. CASE t \in COINBASE
  BY <1>1 DEF Verdict, Fit
<1>2. CASE t \notin COINBASE
  <2> DEFINE bad == {k \in 1 .. Len(inputs[t]) : InputVerdict(db, K, t, k) # "valid"}
  <2>1. bad \in SUBSET Nat
    BY TxAssumption
  <2>2. CASE bad # {}
    <3>1. Min(bad) \in bad
      BY <2>1, <2>2, MinIsMember
    <3>2. InputVerdict(db, K, t, Min(bad)) = "corrupt"
      BY <1>2, <2>2 DEF Verdict
    <3>3. \/ ~ inputs[t][Min(bad)].signed
          \/ inputs[t][Min(bad)].pubkeyhash # OwnerOf(Ref(t, Min(bad)))
      BY <3>2 DEF InputVerdict
    <3> QED BY <1>2, <3>1, <3>3 DEF Fit
  <2>3. CASE bad = {}
    BY <1>2, <2>3 DEF Verdict, Fit
  <2> QED BY <2>2, <2>3
<1> QED BY <1>1, <1>2

-----------------------------------------------------------------------------
(* What is live after a prefix                                               *)

\* One more transaction moves the database as verifyTransaction does.
LEMMA LiveStep ==
  ASSUME NEW txs \in Seq(Tx), NEW k \in 1 .. Len(txs), \A j \in 1 .. k : Follows(txs, j)
  PROVE  Live(txs, k) = Apply(Live(txs, k - 1), txs[k])
<1>1. Len(txs) \in Nat
  OBVIOUS
<1>2. \A j \in 1 .. k : j \in 1 .. k - 1 \/ j = k
  BY <1>1
<1>3. \A j \in 1 .. k - 1 : j \in 1 .. k
  BY <1>1
<1>4. Made(txs, k) = Made(txs, k - 1) \cup OutputsOf(txs[k])
  BY <1>2, <1>3 DEF Made
<1>5. Gone(txs, k) = Gone(txs, k - 1) \cup Spends(txs[k])
  BY <1>2, <1>3 DEF Gone
<1>6. Gone(txs, k) \subseteq Made(txs, k - 1)
  <2> SUFFICES ASSUME NEW j \in 1 .. k, NEW o \in Spends(txs[j])
               PROVE  o \in Made(txs, k - 1)
    BY DEF Gone
  <2>1. o \in Made(txs, j - 1)
    BY DEF Follows, Live
  <2>2. \A i \in 1 .. j - 1 : i \in 1 .. k - 1
    BY <1>1
  <2> QED BY <2>1, <2>2 DEF Made
<1>7. OutputsOf(txs[k]) \cap Made(txs, k - 1) = {}
  <2>1. \A j \in 1 .. k - 1 : OutputsOf(txs[j]) \cap OutputsOf(txs[k]) = {}
    BY DEF Follows, OutputsOf
  <2> QED BY <2>1 DEF Made
<1> QED BY <1>4, <1>5, <1>6, <1>7 DEF Live, Apply

\* The outputs that are live belong to the transactions so far.
LEMMA LiveParents ==
  ASSUME NEW txs, NEW k, NEW o \in Live(txs, k)
  PROVE  \E j \in 1 .. k : o[1] = txs[j]
BY DEF Live, Made, OutputsOf

\* A transaction that follows is accepted once its parents are known.
LEMMA FollowsIsValid ==
  ASSUME NEW txs \in Seq(Tx), NEW k \in 1 .. Len(txs), Follows(txs, k),
         NEW K, \A j \in 1 .. k - 1 : txs[j] \in K
  PROVE  Verdict(Live(txs, k - 1), K, txs[k]) = "valid"
<1> DEFINE t == txs[k]
           db == Live(txs, k - 1)
<1>1. t \in Tx
  OBVIOUS
<1>2. \A o \in db : o[1] \in K /\ o[1] # t
  BY LiveParents DEF Follows
<1>3. t \notin COINBASE => \A i \in 1 .. Len(inputs[t]) : Ref(t, i) \in db
  BY DEF Follows, Spends
<1>4. Fit(t)
  BY DEF Follows
<1> HIDE DEF t, db
<1>5. Verdict(db, K, t) = "valid"
  BY <1>1, <1>2, <1>3, <1>4, VerdictValid
<1> QED BY <1>5 DEF t, db

\* What is accepted, and is new, follows.
LEMMA ValidFollows ==
  ASSUME NEW txs \in Seq(Tx), NEW k \in 1 .. Len(txs), NEW K,
         Verdict(Live(txs, k - 1), K, txs[k]) = "valid",
         \A j \in 1 .. k - 1 : txs[j] # txs[k]
  PROVE  Follows(txs, k)
<1>1. txs[k] \in Tx
  OBVIOUS
<1>2. /\ Fit(txs[k])
      /\ txs[k] \notin COINBASE =>
           \A i \in 1 .. Len(inputs[txs[k]]) : Ref(txs[k], i) \in Live(txs, k - 1)
  BY <1>1, VerdictValid
<1> QED BY <1>2 DEF Follows, Spends

-----------------------------------------------------------------------------
(* The transactions of a chain                                               *)

\* How TxsOf gathers them, block by block.
Gathers(h, c) ==
  /\ h[0] = <<>>
  /\ \A i \in 1 .. Len(c) :
       h[i] = IF c[i].index = 0 THEN h[i - 1] ELSE h[i - 1] \o c[i].transactions

\* The loop that gathers a chain's transactions, round by round.
LEMMA TxsRounds ==
  ASSUME NEW T, NEW c, Blocks(c, T)
  PROVE  \E h : /\ Gathers(h, c) /\ TxsOf(c) = h[Len(c)]
                /\ \A i \in 0 .. Len(c) : h[i] \in Seq(T)
<1> DEFINE n == Len(c)
           V == Seq(T)
           next(i, s) == IF c[i].index = 0 THEN s ELSE s \o c[i].transactions
           step == [p \in (1 .. n) \X V |-> next(p[1], p[2])]
           Is(a) == a = [i \in 0 .. n |->
                          IF i = 0 THEN <<>>
                          ELSE CHOOSE r \in {next(i, s) : s \in {a[i - 1]}} : TRUE]
           after == CHOOSE a : Is(a)
<1>1. n \in Nat /\ <<>> \in V
  BY DEF Blocks
<1>2. \A i \in 1 .. n, s \in V : next(i, s) \in V
  BY DEF Blocks
<1>3. step \in [(1 .. n) \X V -> V]
  BY <1>2
<1>4. TxsOf(c) = after[n]
  BY DEF TxsOf, Loop
<1> HIDE DEF n, V, next
<1>5. PICK g \in [0 .. n -> V] : Rounds(g, n, <<>>, step)
  BY <1>1, <1>3, LoopExists
<1>6. g[0] = <<>> /\ \A i \in 1 .. n : g[i] = next(i, g[i - 1])
  <2>1. \A i \in 1 .. n : <<i, g[i - 1]>> \in (1 .. n) \X V
    BY <1>1, <1>5
  <2>2. \A i \in 1 .. n : step[<<i, g[i - 1]>>] = next(i, g[i - 1])
    BY <2>1
  <2> QED BY <1>5, <2>2 DEF Rounds
<1>7. \A x, i : (CHOOSE r \in {next(i, s) : s \in {x}} : TRUE) = next(i, x)
  OBVIOUS
<1>8. Is(g)
  <2>1. \A i \in 0 .. n :
          g[i] = IF i = 0 THEN <<>>
                 ELSE CHOOSE r \in {next(i, s) : s \in {g[i - 1]}} : TRUE
    BY <1>1, <1>6, <1>7
  <2> QED BY <2>1
<1>9. Is(after)
  BY <1>8
<1> HIDE DEF after
<1>10. after[0] = <<>> /\ \A i \in 1 .. n : after[i] = next(i, after[i - 1])
  BY <1>1, <1>7, <1>9
<1>11. \A i \in 0 .. n : after[i] \in V
  <2>1. \A i \in 1 .. n : after[i - 1] \in V => after[i] \in V
    BY <1>2, <1>10
  <2> QED BY <1>1, <1>10, <2>1, LoopInvariant
<1> QED BY <1>4, <1>10, <1>11 DEF Gathers, n, V, next

\* It gathers what the blocks hold.
LEMMA TxsType ==
  ASSUME NEW T, NEW c, Blocks(c, T)
  PROVE  TxsOf(c) \in Seq(T)
<1>1. Len(c) \in Nat
  BY DEF Blocks
<1> QED BY <1>1, TxsRounds

\* A chain and one more block.
LEMMA BlocksAppend ==
  ASSUME NEW T, NEW c, Blocks(c, T), NEW b, b.transactions \in Seq(T)
  PROVE  /\ Blocks(c \o <<b>>, T) /\ Len(c \o <<b>>) = Len(c) + 1
         /\ \A i \in 1 .. Len(c) : (c \o <<b>>)[i] = c[i]
         /\ (c \o <<b>>)[Len(c) + 1] = b
<1> DEFINE S == ToSet(c) \cup {b}
           d == c \o <<b>>
<1>1. c \in Seq(S) /\ b \in S /\ <<b>> \in Seq(S)
  BY SeqMonotonic DEF Blocks
<1>2. d = Append(c, b)
  BY <1>1, AppendIsConcat
<1>3. d \in Seq(S) /\ Len(d) = Len(c) + 1 /\ d[Len(c) + 1] = b
      /\ \A i \in 1 .. Len(c) : d[i] = c[i]
  BY <1>1, <1>2, AppendProperties
<1> HIDE DEF d
<1>4. d \in Seq(ToSet(d))
  BY <1>3, OwnElements
<1>5. ASSUME NEW i \in 1 .. Len(d) PROVE d[i].transactions \in Seq(T)
  BY <1>1, <1>3 DEF Blocks
<1> QED BY <1>3, <1>4, <1>5 DEF Blocks, d

\* A block at the end adds its transactions at the end.
LEMMA TxsAppend ==
  ASSUME NEW T, NEW c, Blocks(c, T), NEW b, b.transactions \in Seq(T), b.index # 0
  PROVE  TxsOf(c \o <<b>>) = TxsOf(c) \o b.transactions
<1> DEFINE d == c \o <<b>>
           n == Len(c)
<1>1. /\ Blocks(d, T) /\ Len(d) = n + 1 /\ d[n + 1] = b
      /\ \A i \in 1 .. n : d[i] = c[i]
  BY BlocksAppend
<1>2. n \in Nat
  BY DEF Blocks
<1> HIDE DEF d, n
<1>3. PICK h : Gathers(h, c) /\ TxsOf(c) = h[n]
  BY TxsRounds DEF n
<1>4. PICK e : Gathers(e, d) /\ TxsOf(d) = e[Len(d)]
  BY <1>1, TxsRounds
<1> DEFINE P == {i \in 0 .. n : e[i] = h[i]}
<1>5. 0 \in P
  BY <1>2, <1>3, <1>4 DEF Gathers
<1>6. \A i \in 1 .. n : i - 1 \in P => i \in P
  BY <1>1, <1>2, <1>3, <1>4 DEF Gathers, n
<1> HIDE DEF P
<1>7. \A i \in 0 .. n : i \in P
  BY <1>2, <1>5, <1>6, Induction
<1>8. e[n] = h[n]
  BY <1>2, <1>7 DEF P
<1>9. e[n + 1] = e[n] \o b.transactions
  <2>1. n + 1 \in 1 .. Len(d) /\ (n + 1) - 1 = n
    BY <1>1, <1>2
  <2> QED BY <1>1, <1>4, <2>1 DEF Gathers
<1> QED BY <1>1, <1>3, <1>4, <1>8, <1>9 DEF d

\* Ids names exactly the transactions of the chain.
LEMMA IdsOfTxs ==
  ASSUME NEW T, NEW c, Blocks(c, T)
  PROVE  Ids(c) = Elements(TxsOf(c))
<1> DEFINE n == Len(c)
           Upto(i) == UNION {Elements(c[j].transactions) : j \in {l \in 1 .. i : c[l].index # 0}}
<1>1. PICK h : /\ Gathers(h, c) /\ TxsOf(c) = h[n]
               /\ \A i \in 0 .. n : h[i] \in Seq(T)
  BY TxsRounds
<1>2. n \in Nat /\ \A i \in 1 .. n : c[i].transactions \in Seq(T)
  BY DEF Blocks
<1>3. \A s, t \in Seq(T) : Elements(s \o t) = Elements(s) \cup Elements(t)
  BY ElementsConcat
<1> DEFINE P == {i \in 0 .. n : Elements(h[i]) = Upto(i)}
<1>4. 0 \in P
  <2>1. h[0] = <<>>
    BY <1>1 DEF Gathers
  <2>2. Elements(<<>>) = {} /\ Upto(0) = {}
    BY DEF Elements
  <2> QED BY <1>2, <2>1, <2>2
<1>5. ASSUME NEW i \in 1 .. n, i - 1 \in P PROVE i \in P
  <2>1. {l \in 1 .. i : c[l].index # 0} =
          {l \in 1 .. i - 1 : c[l].index # 0} \cup (IF c[i].index = 0 THEN {} ELSE {i})
    BY <1>2
  <2>2. Upto(i) = Upto(i - 1) \cup
          (IF c[i].index = 0 THEN {} ELSE Elements(c[i].transactions))
    BY <2>1
  <2>3. h[i] = IF c[i].index = 0 THEN h[i - 1] ELSE h[i - 1] \o c[i].transactions
    BY <1>1 DEF Gathers
  <2>4. h[i - 1] \in Seq(T)
    BY <1>1, <1>2
  <2> HIDE DEF Upto
  <2>5. Elements(h[i]) =
          Elements(h[i - 1]) \cup (IF c[i].index = 0 THEN {} ELSE Elements(c[i].transactions))
    BY <1>2, <1>3, <2>3, <2>4
  <2>6. Elements(h[i - 1]) = Upto(i - 1)
    BY <1>5
  <2>7. Elements(h[i]) = Upto(i)
    BY <2>2, <2>5, <2>6
  <2>8. i \in 0 .. n
    BY <1>2
  <2> QED BY <2>7, <2>8
<1> HIDE DEF P
<1>6. \A i \in 0 .. n : i \in P
  BY <1>2, <1>4, <1>5, Induction
<1>7. Ids(c) = Upto(n)
  <2>1. DOMAIN c = 1 .. n
    BY DEF Blocks
  <2>2. \A i \in 1 .. n : ToSet(c[i].transactions) = Elements(c[i].transactions)
    <3>1. \A s \in Seq(T) : ToSet(s) = Elements(s)
      BY DEF ToSet, Elements
    <3> QED BY <1>2, <3>1
  <2>3. ASSUME NEW x \in Ids(c) PROVE x \in Upto(n)
    <3>1. PICK i \in 1 .. n : c[i].index # 0 /\ x \in ToSet(c[i].transactions)
      BY <2>1 DEF Ids, ToSet
    <3> QED BY <2>2, <3>1
  <2>4. ASSUME NEW x \in Upto(n) PROVE x \in Ids(c)
    <3>1. PICK i \in 1 .. n : c[i].index # 0 /\ x \in Elements(c[i].transactions)
      OBVIOUS
    <3>2. c[i] \in ToSet(c)
      BY <2>1 DEF ToSet
    <3> QED BY <2>2, <3>1, <3>2 DEF Ids
  <2> QED BY <2>3, <2>4
<1>8. Elements(h[n]) = Upto(n)
  BY <1>2, <1>6 DEF P
<1> QED BY <1>1, <1>7, <1>8

\* The unspent outputs of a chain are what its transactions leave live.
LEMMA UnspentIsLive ==
  ASSUME NEW T, NEW c, Blocks(c, T)
  PROVE  Unspent(c) = Live(TxsOf(c), Len(TxsOf(c)))
<1> DEFINE txs == TxsOf(c)
<1>1. Ids(c) = {txs[k] : k \in 1 .. Len(txs)}
  BY IdsOfTxs DEF Elements
<1> HIDE DEF txs
<1> DEFINE A == UNION {OutputsOf(t) : t \in Ids(c)}
           B == UNION {Spends(t) : t \in Ids(c)}
<1>2. A = Made(txs, Len(txs))
  BY <1>1 DEF Made
<1>3. B = Gone(txs, Len(txs))
  BY <1>1 DEF Gone
<1>4. \A o : o \in Unspent(c) <=> o \in A /\ o \notin B
  BY DEF Unspent
<1> HIDE DEF A, B
<1>5. Unspent(c) = Live(txs, Len(txs))
  BY <1>2, <1>3, <1>4 DEF Live
<1> QED BY <1>5 DEF txs

\* What is live are outpoints.
LEMMA LiveType ==
  ASSUME NEW txs \in Seq(Tx), NEW k \in 0 .. Len(txs)
  PROVE  Live(txs, k) \in SUBSET Outpoint
<1>1. \A j \in 1 .. k : txs[j] \in Tx
  OBVIOUS
<1>2. \A t \in Tx : OutputsOf(t) \in SUBSET Outpoint
  BY OutputsAreOutpoints
<1> QED BY <1>1, <1>2 DEF Live, Made

\* update_UTXO and verify_chain start from an empty database.
LEMMA LiveStart == \A txs : Live(txs, 0) = {}
BY DEF Live, Made

-----------------------------------------------------------------------------
(* verify_chain                                                              *)

Replaying == [ok : BOOLEAN, seen : SUBSET Tx, db : SUBSET Outpoint]

\* How ReplayOK goes through the transactions.
Replays(h, txs, known) ==
  /\ h[0] = [ok |-> TRUE, seen |-> {}, db |-> {}]
  /\ \A i \in 1 .. Len(txs) : h[i] = ReplayStep(h[i - 1], txs[i], known)

\* verify_chain's replay, round by round.
LEMMA ReplayRounds ==
  ASSUME NEW c, NEW known, TxsOf(c) \in Seq(Tx)
  PROVE  \E h : /\ Replays(h, TxsOf(c), known)
                /\ ReplayOK(c, known) = h[Len(TxsOf(c))].ok
                /\ \A i \in 0 .. Len(TxsOf(c)) : h[i] \in Replaying
<1> DEFINE txs == TxsOf(c)
           n == Len(txs)
           start == [ok |-> TRUE, seen |-> {}, db |-> {}]
           next(i, s) == ReplayStep(s, txs[i], known)
           step == [p \in (1 .. n) \X Replaying |-> next(p[1], p[2])]
           Is(a) == a = [i \in 0 .. n |->
                          IF i = 0 THEN start
                          ELSE CHOOSE r \in {next(i, s) : s \in {a[i - 1]}} : TRUE]
           after == CHOOSE a : Is(a)
<1>1. n \in Nat /\ start \in Replaying
  BY DEF Replaying
<1>2. ASSUME NEW i \in 1 .. n, NEW s \in Replaying PROVE next(i, s) \in Replaying
  <2>1. txs[i] \in Tx
    OBVIOUS
  <2>2. Apply(s.db, txs[i]) \in SUBSET Outpoint
    BY <2>1, OutputsAreOutpoints DEF Apply, Replaying
  <2> QED BY <2>1, <2>2 DEF ReplayStep, Replaying
<1>3. step \in [(1 .. n) \X Replaying -> Replaying]
  BY <1>2
<1>4. ReplayOK(c, known) = after[n].ok
  BY DEF ReplayOK, Loop
<1> HIDE DEF n, next, start
<1>5. PICK g \in [0 .. n -> Replaying] : Rounds(g, n, start, step)
  BY <1>1, <1>3, LoopExists
<1>6. g[0] = start /\ \A i \in 1 .. n : g[i] = next(i, g[i - 1])
  <2>1. \A i \in 1 .. n : <<i, g[i - 1]>> \in (1 .. n) \X Replaying
    BY <1>1, <1>5
  <2>2. \A i \in 1 .. n : step[<<i, g[i - 1]>>] = next(i, g[i - 1])
    BY <2>1
  <2> QED BY <1>5, <2>2 DEF Rounds
<1>7. \A x, i : (CHOOSE r \in {next(i, s) : s \in {x}} : TRUE) = next(i, x)
  OBVIOUS
<1>8. Is(g)
  <2>1. \A i \in 0 .. n :
          g[i] = IF i = 0 THEN start
                 ELSE CHOOSE r \in {next(i, s) : s \in {g[i - 1]}} : TRUE
    BY <1>1, <1>6, <1>7
  <2> QED BY <2>1
<1>9. Is(after)
  BY <1>8
<1> HIDE DEF after
<1>10. after[0] = start /\ \A i \in 1 .. n : after[i] = next(i, after[i - 1])
  BY <1>1, <1>7, <1>9
<1>11. \A i \in 0 .. n : after[i] \in Replaying
  <2>1. \A i \in 1 .. n : after[i - 1] \in Replaying => after[i] \in Replaying
    BY <1>2, <1>10
  <2> QED BY <1>1, <1>10, <2>1, LoopInvariant
<1> QED BY <1>4, <1>10, <1>11 DEF Replays, n, next, start

\* A chain that passes holds no transaction twice and spends only what is live.
LEMMA ReplayGood ==
  ASSUME NEW c, NEW known, TxsOf(c) \in Seq(Tx), ReplayOK(c, known)
  PROVE  Good(TxsOf(c))
<1> DEFINE txs == TxsOf(c)
           n == Len(txs)
<1>1. PICK h : /\ Replays(h, txs, known) /\ h[n].ok
               /\ \A i \in 0 .. n : h[i] \in Replaying
  BY ReplayRounds
<1>2. n \in Nat /\ txs \in Seq(Tx)
  OBVIOUS
<1> HIDE DEF txs
<1> DEFINE P == {k \in 0 .. n : h[k].ok =>
                   /\ \A j \in 1 .. k : Follows(txs, j)
                   /\ h[k].seen = {txs[j] : j \in 1 .. k}
                   /\ h[k].db = Live(txs, k)}
<1>3. 0 \in P
  <2>1. h[0].ok /\ h[0].seen = {} /\ h[0].db = {}
    BY <1>1 DEF Replays
  <2>2. {txs[j] : j \in 1 .. 0} = {} /\ Live(txs, 0) = {} /\ 0 \in 0 .. n
    BY <1>2, LiveStart
  <2> QED BY <2>1, <2>2
<1>4. ASSUME NEW k \in 1 .. n, k - 1 \in P PROVE k \in P
  <2> SUFFICES ASSUME h[k].ok
               PROVE  /\ \A j \in 1 .. k : Follows(txs, j)
                      /\ h[k].seen = {txs[j] : j \in 1 .. k}
                      /\ h[k].db = Live(txs, k)
    BY <1>2
  <2> DEFINE s == h[k - 1]
             t == txs[k]
  <2>1. h[k] = ReplayStep(s, t, known) /\ s \in Replaying /\ t \in Tx
    BY <1>1, <1>2 DEF Replays
  <2>2. s.ok /\ t \notin s.seen /\ Verdict(s.db, known, t) = "valid"
    BY <2>1 DEF ReplayStep, Replaying
  <2>3. h[k] = [ok |-> TRUE, seen |-> s.seen \cup {t}, db |-> Apply(s.db, t)]
    BY <2>1, <2>2 DEF ReplayStep
  <2>4. /\ \A j \in 1 .. k - 1 : Follows(txs, j)
        /\ s.seen = {txs[j] : j \in 1 .. k - 1}
        /\ s.db = Live(txs, k - 1)
    BY <1>4, <2>2
  <2>5. \A j \in 1 .. k - 1 : txs[j] # t
    BY <2>2, <2>4
  <2>6. Follows(txs, k)
    BY <1>2, <2>2, <2>4, <2>5, ValidFollows
  <2>7. \A j \in 1 .. k : Follows(txs, j)
    BY <1>2, <2>4, <2>6
  <2>8. Live(txs, k) = Apply(s.db, t)
    BY <1>2, <2>4, <2>7, LiveStep
  <2>9. {txs[j] : j \in 1 .. k} = {txs[j] : j \in 1 .. k - 1} \cup {t}
    BY <1>2
  <2> QED BY <2>3, <2>4, <2>7, <2>8, <2>9
<1> HIDE DEF P
<1>5. \A k \in 0 .. n : k \in P
  BY <1>2, <1>3, <1>4, Induction
<1>6. \A j \in 1 .. n : Follows(txs, j)
  BY <1>1, <1>2, <1>5 DEF P
<1> QED BY <1>6 DEF Good, txs

\* A good chain passes, whoever knows its transactions.
LEMMA GoodReplays ==
  ASSUME NEW c, NEW known, TxsOf(c) \in Seq(Tx), Good(TxsOf(c)),
         Elements(TxsOf(c)) \subseteq known
  PROVE  ReplayOK(c, known)
<1> DEFINE txs == TxsOf(c)
           n == Len(txs)
<1>1. PICK h : /\ Replays(h, txs, known) /\ ReplayOK(c, known) = h[n].ok
               /\ \A i \in 0 .. n : h[i] \in Replaying
  BY ReplayRounds
<1>2. /\ n \in Nat /\ txs \in Seq(Tx)
      /\ \A j \in 1 .. n : Follows(txs, j) /\ txs[j] \in known
  BY DEF Good, Elements
<1> HIDE DEF txs
<1> DEFINE P == {k \in 0 .. n : /\ h[k].ok
                               /\ h[k].seen = {txs[j] : j \in 1 .. k}
                               /\ h[k].db = Live(txs, k)}
<1>3. 0 \in P
  <2>1. h[0].ok /\ h[0].seen = {} /\ h[0].db = {}
    BY <1>1 DEF Replays
  <2>2. {txs[j] : j \in 1 .. 0} = {} /\ Live(txs, 0) = {} /\ 0 \in 0 .. n
    BY <1>2, LiveStart
  <2> QED BY <2>1, <2>2
<1>4. ASSUME NEW k \in 1 .. n, k - 1 \in P PROVE k \in P
  <2> DEFINE s == h[k - 1]
             t == txs[k]
  <2>1. h[k] = ReplayStep(s, t, known) /\ t \in Tx
    BY <1>1, <1>2 DEF Replays
  <2>2. /\ s.ok
        /\ s.seen = {txs[j] : j \in 1 .. k - 1}
        /\ s.db = Live(txs, k - 1)
    BY <1>4
  <2>3. t \notin s.seen
    BY <1>2, <2>2 DEF Follows
  <2>4. Verdict(s.db, known, t) = "valid"
    <3>1. \A j \in 1 .. k - 1 : txs[j] \in known
      BY <1>2
    <3> QED BY <1>2, <2>2, <3>1, FollowsIsValid
  <2>5. h[k] = [ok |-> TRUE, seen |-> s.seen \cup {t}, db |-> Apply(s.db, t)]
    BY <2>1, <2>2, <2>3, <2>4 DEF ReplayStep
  <2>6. Live(txs, k) = Apply(s.db, t)
    <3>1. \A j \in 1 .. k : Follows(txs, j)
      BY <1>2
    <3> QED BY <1>2, <2>2, <3>1, LiveStep
  <2>7. {txs[j] : j \in 1 .. k} = {txs[j] : j \in 1 .. k - 1} \cup {t}
    BY <1>2
  <2>8. k \in 0 .. n
    BY <1>2
  <2> QED BY <2>2, <2>5, <2>6, <2>7, <2>8
<1> HIDE DEF P
<1>5. \A k \in 0 .. n : k \in P
  BY <1>2, <1>3, <1>4, Induction
<1> QED BY <1>1, <1>2, <1>5 DEF P

-----------------------------------------------------------------------------
(* update_UTXO                                                               *)

Rebuilding == [db : SUBSET Outpoint, corrupt : SUBSET Tx]

RebuildStep(s, t, known) ==
  CASE Verdict(s.db, known, t) = "valid" -> [s EXCEPT !.db = Apply(@, t)]
    [] Verdict(s.db, known, t) = "corrupt" -> [s EXCEPT !.corrupt = @ \cup {t}]
    [] OTHER -> s

Rebuilds(h, txs, known, corr) ==
  /\ h[0] = [db |-> {}, corrupt |-> corr]
  /\ \A i \in 1 .. Len(txs) : h[i] = RebuildStep(h[i - 1], txs[i], known)

\* update_UTXO, round by round.
LEMMA RebuildRounds ==
  ASSUME NEW c, NEW known, NEW corr \in SUBSET Tx, TxsOf(c) \in Seq(Tx)
  PROVE  \E h : /\ Rebuilds(h, TxsOf(c), known, corr)
                /\ UpdateUTXO(c, known, corr) = h[Len(TxsOf(c))]
                /\ \A i \in 0 .. Len(TxsOf(c)) : h[i] \in Rebuilding
<1> DEFINE txs == TxsOf(c)
           n == Len(txs)
           start == [db |-> {}, corrupt |-> corr]
           next(i, s) == RebuildStep(s, txs[i], known)
           step == [p \in (1 .. n) \X Rebuilding |-> next(p[1], p[2])]
           Is(a) == a = [i \in 0 .. n |->
                          IF i = 0 THEN start
                          ELSE CHOOSE r \in {next(i, s) : s \in {a[i - 1]}} : TRUE]
           after == CHOOSE a : Is(a)
<1>1. n \in Nat /\ start \in Rebuilding
  BY DEF Rebuilding
<1>2. ASSUME NEW i \in 1 .. n, NEW s \in Rebuilding PROVE next(i, s) \in Rebuilding
  <2>1. txs[i] \in Tx
    OBVIOUS
  <2>2. Apply(s.db, txs[i]) \in SUBSET Outpoint
    BY <2>1, OutputsAreOutpoints DEF Apply, Rebuilding
  <2> QED BY <2>1, <2>2 DEF RebuildStep, Rebuilding
<1>3. step \in [(1 .. n) \X Rebuilding -> Rebuilding]
  BY <1>2
<1>4. UpdateUTXO(c, known, corr) = after[n]
  BY DEF UpdateUTXO, Loop, RebuildStep
<1> HIDE DEF n, next, start
<1>5. PICK g \in [0 .. n -> Rebuilding] : Rounds(g, n, start, step)
  BY <1>1, <1>3, LoopExists
<1>6. g[0] = start /\ \A i \in 1 .. n : g[i] = next(i, g[i - 1])
  <2>1. \A i \in 1 .. n : <<i, g[i - 1]>> \in (1 .. n) \X Rebuilding
    BY <1>1, <1>5
  <2>2. \A i \in 1 .. n : step[<<i, g[i - 1]>>] = next(i, g[i - 1])
    BY <2>1
  <2> QED BY <1>5, <2>2 DEF Rounds
<1>7. \A x, i : (CHOOSE r \in {next(i, s) : s \in {x}} : TRUE) = next(i, x)
  OBVIOUS
<1>8. Is(g)
  <2>1. \A i \in 0 .. n :
          g[i] = IF i = 0 THEN start
                 ELSE CHOOSE r \in {next(i, s) : s \in {g[i - 1]}} : TRUE
    BY <1>1, <1>6, <1>7
  <2> QED BY <2>1
<1>9. Is(after)
  BY <1>8
<1> HIDE DEF after
<1>10. after[0] = start /\ \A i \in 1 .. n : after[i] = next(i, after[i - 1])
  BY <1>1, <1>7, <1>9
<1>11. \A i \in 0 .. n : after[i] \in Rebuilding
  <2>1. \A i \in 1 .. n : after[i - 1] \in Rebuilding => after[i] \in Rebuilding
    BY <1>2, <1>10
  <2> QED BY <1>1, <1>10, <2>1, LoopInvariant
<1> QED BY <1>4, <1>10, <1>11 DEF Rebuilds, n, next, start

\* Over a good chain every transaction is accepted again: the database ends with
\* the unspent outputs, and nothing is marked corrupt.
LEMMA RebuildIsExact ==
  ASSUME NEW c, NEW known, NEW corr \in SUBSET Tx, Blocks(c, Tx), Good(TxsOf(c)),
         Ids(c) \subseteq known
  PROVE  /\ UpdateUTXO(c, known, corr).db = Unspent(c)
         /\ UpdateUTXO(c, known, corr).corrupt = corr
<1> DEFINE txs == TxsOf(c)
           n == Len(txs)
<1>1. txs \in Seq(Tx) /\ Unspent(c) = Live(txs, n) /\ Ids(c) = Elements(txs)
  BY TxsType, UnspentIsLive, IdsOfTxs
<1>2. PICK h : /\ Rebuilds(h, txs, known, corr) /\ UpdateUTXO(c, known, corr) = h[n]
               /\ \A i \in 0 .. n : h[i] \in Rebuilding
  BY <1>1, RebuildRounds
<1>3. n \in Nat /\ \A j \in 1 .. n : Follows(txs, j) /\ txs[j] \in known
  BY <1>1 DEF Good, Elements
<1> HIDE DEF txs
<1> DEFINE P == {k \in 0 .. n : h[k].db = Live(txs, k) /\ h[k].corrupt = corr}
<1>4. 0 \in P
  <2>1. h[0].db = {} /\ h[0].corrupt = corr
    BY <1>2 DEF Rebuilds
  <2>2. Live(txs, 0) = {} /\ 0 \in 0 .. n
    BY <1>3, LiveStart
  <2> QED BY <2>1, <2>2
<1>5. ASSUME NEW k \in 1 .. n, k - 1 \in P PROVE k \in P
  <2> DEFINE s == h[k - 1]
             t == txs[k]
  <2>1. h[k] = RebuildStep(s, t, known) /\ s \in Rebuilding
    BY <1>2, <1>3 DEF Rebuilds
  <2>2. s.db = Live(txs, k - 1) /\ s.corrupt = corr
    BY <1>5
  <2>3. Verdict(s.db, known, t) = "valid"
    <3>1. \A j \in 1 .. k - 1 : txs[j] \in known
      BY <1>3
    <3> QED BY <1>1, <1>3, <2>2, <3>1, FollowsIsValid
  <2>4. h[k] = [s EXCEPT !.db = Apply(s.db, t)]
    BY <2>1, <2>3 DEF RebuildStep
  <2>5. h[k].db = Apply(s.db, t) /\ h[k].corrupt = s.corrupt
    BY <2>1, <2>4 DEF Rebuilding
  <2>6. Live(txs, k) = Apply(s.db, t)
    <3>1. \A j \in 1 .. k : Follows(txs, j)
      BY <1>3
    <3> QED BY <1>1, <2>2, <3>1, LiveStep
  <2>7. k \in 0 .. n
    BY <1>3
  <2> QED BY <2>2, <2>5, <2>6, <2>7
<1> HIDE DEF P
<1>6. \A k \in 0 .. n : k \in P
  BY <1>3, <1>4, <1>5, Induction
<1>7. h[n].db = Live(txs, n) /\ h[n].corrupt = corr
  BY <1>3, <1>6 DEF P
<1> QED BY <1>1, <1>2, <1>7

-----------------------------------------------------------------------------
(* The order of the mempool                                                  *)

\* How many of S come before t.
Rank(S, t) == Cardinality({u \in S : number[u] < number[t]})

\* Transaction numbers differ, so that each rank is taken once.
LEMMA RankIsOneToOne ==
  ASSUME NEW S \in SUBSET Tx
  PROVE  /\ Cardinality(S) \in Nat
         /\ \A i \in 0 .. Cardinality(S) - 1 : \E t \in S : Rank(S, t) = i
<1> DEFINE n == Cardinality(S)
           ranks == 0 .. n - 1
           f == [t \in S |-> Rank(S, t)]
           Before(t) == {u \in S : number[u] < number[t]}
<1>1. IsFiniteSet(S) /\ n \in Nat
  BY TxAssumption, FS_Subset, FS_CardinalityType
<1>2. \A t \in S : number[t] \in Nat
  BY TxAssumption
<1>3. ASSUME NEW t \in S
      PROVE  /\ IsFiniteSet(Before(t)) /\ Rank(S, t) \in Nat /\ Rank(S, t) < n
  <2>1. Before(t) \in SUBSET S /\ t \notin Before(t)
    BY <1>2
  <2>2. IsFiniteSet(Before(t)) /\ Cardinality(Before(t)) \in Nat
        /\ Cardinality(Before(t)) <= n /\ Cardinality(Before(t)) # n
    <3> HIDE DEF Before
    <3> QED BY <1>1, <2>1, FS_Subset, FS_CardinalityType
  <2> HIDE DEF n
  <2> QED BY <1>1, <2>2 DEF Rank
<1>4. ASSUME NEW t \in S, NEW u \in S, number[t] < number[u]
      PROVE  Rank(S, t) < Rank(S, u)
  <2>1. Before(t) \in SUBSET Before(u) /\ t \in Before(u) /\ t \notin Before(t)
    BY <1>2, <1>4
  <2>2. /\ Cardinality(Before(t)) <= Cardinality(Before(u))
        /\ Cardinality(Before(t)) # Cardinality(Before(u))
    <3>1. IsFiniteSet(Before(u))
      BY <1>3
    <3> HIDE DEF Before
    <3> QED BY <2>1, <3>1, FS_Subset
  <2>3. Rank(S, t) \in Nat /\ Rank(S, u) \in Nat
    BY <1>3
  <2> QED BY <2>2, <2>3 DEF Rank
<1>5. f \in Injection(S, ranks)
  <2>1. f \in [S -> ranks]
    <3>1. \A t \in S : Rank(S, t) \in ranks
      <4>1. \A t \in S : Rank(S, t) \in Nat /\ Rank(S, t) < n
        BY <1>3
      <4> HIDE DEF n
      <4> QED BY <1>1, <4>1
    <3> QED BY <3>1
  <2>2. ASSUME NEW t \in S, NEW u \in S, f[t] = f[u] PROVE t = u
    <3>1. Rank(S, t) = Rank(S, u) /\ Rank(S, t) \in Nat
      BY <1>3, <2>2
    <3>2. ~ (number[t] < number[u]) /\ ~ (number[u] < number[t])
      <4>1. number[t] < number[u] => Rank(S, t) < Rank(S, u)
        BY <1>4
      <4>2. number[u] < number[t] => Rank(S, u) < Rank(S, t)
        BY <1>4
      <4> QED BY <3>1, <4>1, <4>2
    <3>3. number[t] = number[u]
      BY <1>2, <3>2
    <3> QED BY <3>3, BlockchainAssumption
  <2> QED BY <2>1, <2>2 DEF Injection, IsInjective
<1>6. IsFiniteSet(ranks) /\ Cardinality(ranks) = n
  <2>1. 0 \in Int /\ n - 1 \in Int
    BY <1>1
  <2>2. IsFiniteSet(ranks) /\ Cardinality(ranks) = IF 0 > n - 1 THEN 0 ELSE (n - 1) - 0 + 1
    <3> HIDE DEF n
    <3> QED BY <2>1, FS_Interval
  <2> HIDE DEF n
  <2> QED BY <1>1, <2>2
<1> HIDE DEF f
<1>7. f \in Surjection(S, ranks)
  BY <1>5, <1>6, FS_Injection
<1>8. \A i \in ranks : \E t \in S : f[t] = i
  BY <1>7 DEF Surjection
<1> QED BY <1>1, <1>8 DEF f

\* Sorting by number yields every transaction of the set once.
LEMMA ByNumberSorts ==
  ASSUME NEW S \in SUBSET Tx
  PROVE  /\ ByNumber(S) \in Seq(S)
         /\ \A i, j \in 1 .. Len(ByNumber(S)) : ByNumber(S)[i] = ByNumber(S)[j] => i = j
<1> DEFINE n == Cardinality(S)
           at(i) == CHOOSE t \in S : Rank(S, t) = i - 1
           s == [i \in 1 .. n |-> at(i)]
<1>1. n \in Nat /\ \A i \in 0 .. n - 1 : \E t \in S : Rank(S, t) = i
  BY RankIsOneToOne
<1>2. ByNumber(S) = s
  BY DEF ByNumber, Rank
<1> HIDE DEF n
<1>3. ASSUME NEW i \in 1 .. n PROVE at(i) \in S /\ Rank(S, at(i)) = i - 1
  <2>1. i - 1 \in 0 .. n - 1
    BY <1>1
  <2>2. \E t \in S : Rank(S, t) = i - 1
    BY <1>1, <2>1
  <2> QED BY <2>2
<1> HIDE DEF at
<1>4. s \in [1 .. n -> S] /\ \A i \in 1 .. n : s[i] = at(i)
  BY <1>3
<1> HIDE DEF s
<1>5. s \in Seq(S) /\ Len(s) = n
  BY <1>1, <1>4, SeqDef
<1>6. ASSUME NEW i \in 1 .. n, NEW j \in 1 .. n, s[i] = s[j] PROVE i = j
  <2>1. i - 1 = j - 1
    BY <1>3, <1>4, <1>6
  <2> QED BY <1>1, <2>1
<1> QED BY <1>2, <1>5, <1>6

-----------------------------------------------------------------------------
(* findValidButUnconfirmedTransactions                                       *)

\* A valid transaction that is new extends a good sequence.
LEMMA GoodAppend ==
  ASSUME NEW q \in Seq(Tx), Good(q), NEW t \in Tx, t \notin Elements(q), NEW K,
         Verdict(Live(q, Len(q)), K, t) = "valid"
  PROVE  /\ Good(Append(q, t))
         /\ Live(Append(q, t), Len(q) + 1) = Apply(Live(q, Len(q)), t)
<1> DEFINE r == Append(q, t)
           n == Len(q)
<1>1. /\ n \in Nat /\ r \in Seq(Tx) /\ Len(r) = n + 1 /\ r[n + 1] = t
      /\ \A i \in 1 .. n : r[i] = q[i]
  BY AppendProperties
<1> HIDE DEF r
<1>2. ASSUME NEW k \in 0 .. n PROVE Live(r, k) = Live(q, k)
  <2>1. \A j \in 1 .. k : r[j] = q[j]
    BY <1>1
  <2>2. Made(r, k) = Made(q, k)
    BY <2>1 DEF Made
  <2>3. Gone(r, k) = Gone(q, k)
    BY <2>1 DEF Gone
  <2> QED BY <2>2, <2>3 DEF Live
<1>3. ASSUME NEW k \in 1 .. n PROVE Follows(r, k)
  <2>1. Follows(q, k) /\ r[k] = q[k] /\ \A j \in 1 .. k - 1 : r[j] = q[j]
    BY <1>1 DEF Good
  <2>2. k - 1 \in 0 .. n
    BY <1>1
  <2>3. Live(r, k - 1) = Live(q, k - 1)
    BY <1>2, <2>2
  <2> QED BY <2>1, <2>3 DEF Follows
<1>4. Follows(r, n + 1)
  <2>1. n + 1 \in 1 .. Len(r) /\ (n + 1) - 1 = n /\ n \in 0 .. n
    BY <1>1
  <2>2. Live(r, n) = Live(q, n)
    BY <1>2, <2>1
  <2>3. \A j \in 1 .. n : r[j] # t
    BY <1>1 DEF Elements
  <2> HIDE DEF n
  <2>4. Verdict(Live(r, (n + 1) - 1), K, r[n + 1]) = "valid"
    BY <1>1, <2>1, <2>2 DEF n
  <2>5. \A j \in 1 .. (n + 1) - 1 : r[j] # r[n + 1]
    BY <1>1, <2>1, <2>3
  <2> QED BY <1>1, <2>1, <2>4, <2>5, ValidFollows
<1>5. \A k \in 1 .. n + 1 : Follows(r, k)
  <2>1. \A k \in 1 .. n + 1 : k \in 1 .. n \/ k = n + 1
    BY <1>1
  <2> QED BY <1>3, <1>4, <2>1
<1>6. Live(r, n + 1) = Apply(Live(q, n), t)
  <2>1. n + 1 \in 1 .. Len(r) /\ (n + 1) - 1 = n /\ n \in 0 .. n
    BY <1>1
  <2>2. Live(r, n + 1) = Apply(Live(r, (n + 1) - 1), r[n + 1])
    BY <1>1, <1>5, <2>1, LiveStep
  <2> QED BY <1>1, <1>2, <2>1, <2>2
<1> QED BY <1>1, <1>5, <1>6 DEF Good, r

Collecting(S) == [db : SUBSET Outpoint, picked : Seq(S), corrupt : SUBSET Tx]

Collects(h, S, db, known, corr) ==
  /\ h[0] = [db |-> db, picked |-> <<>>, corrupt |-> corr]
  /\ \A i \in 1 .. Len(ByNumber(S)) : h[i] = CollectStep(h[i - 1], ByNumber(S)[i], known)

\* One round of findValidButUnconfirmedTransactions stays in shape.
LEMMA CollectStepType ==
  ASSUME NEW S \in SUBSET Tx, NEW s \in Collecting(S), NEW t \in S, NEW known
  PROVE  CollectStep(s, t, known) \in Collecting(S)
<1>1. Append(s.picked, t) \in Seq(S)
  BY DEF Collecting
<1>2. Apply(s.db, t) \in SUBSET Outpoint
  BY OutputsAreOutpoints DEF Apply, Collecting
<1>3. CASE Len(s.picked) >= BlockMax
  BY <1>3 DEF CollectStep
<1>4. CASE ~ (Len(s.picked) >= BlockMax)
  <2>1. CASE Verdict(s.db, known, t) = "valid"
    BY <1>1, <1>2, <1>4, <2>1 DEF CollectStep, Collecting
  <2>2. CASE Verdict(s.db, known, t) = "corrupt"
    BY <1>4, <2>2 DEF CollectStep, Collecting
  <2>3. CASE Verdict(s.db, known, t) \notin {"valid", "corrupt"}
    BY <1>4, <2>3 DEF CollectStep, Collecting
  <2> QED BY <2>1, <2>2, <2>3
<1> QED BY <1>3, <1>4

\* All rounds of findValidButUnconfirmedTransactions.
LEMMA CollectRounds ==
  ASSUME NEW S \in SUBSET Tx, NEW db \in SUBSET Outpoint, NEW known, NEW corr \in SUBSET Tx
  PROVE  \E h : /\ Collects(h, S, db, known, corr)
                /\ Collect(db, S, known, corr) = h[Len(ByNumber(S))]
                /\ \A i \in 0 .. Len(ByNumber(S)) : h[i] \in Collecting(S)
<1> DEFINE sorted == ByNumber(S)
           n == Len(sorted)
           V == Collecting(S)
           start == [db |-> db, picked |-> <<>>, corrupt |-> corr]
           next(i, s) == CollectStep(s, sorted[i], known)
           step == [p \in (1 .. n) \X V |-> next(p[1], p[2])]
           Is(a) == a = [i \in 0 .. n |->
                          IF i = 0 THEN start
                          ELSE CHOOSE r \in {next(i, s) : s \in {a[i - 1]}} : TRUE]
           after == CHOOSE a : Is(a)
<1>1. n \in Nat /\ start \in V /\ \A i \in 1 .. n : sorted[i] \in S
  BY ByNumberSorts DEF Collecting
<1>2. \A i \in 1 .. n, s \in V : next(i, s) \in V
  BY <1>1, CollectStepType
<1>3. step \in [(1 .. n) \X V -> V]
  BY <1>2
<1>4. Collect(db, S, known, corr) = after[n]
  BY DEF Collect, Loop
<1> HIDE DEF n, V, next, start
<1>5. PICK g \in [0 .. n -> V] : Rounds(g, n, start, step)
  BY <1>1, <1>3, LoopExists
<1>6. g[0] = start /\ \A i \in 1 .. n : g[i] = next(i, g[i - 1])
  <2>1. \A i \in 1 .. n : <<i, g[i - 1]>> \in (1 .. n) \X V
    BY <1>1, <1>5
  <2>2. \A i \in 1 .. n : step[<<i, g[i - 1]>>] = next(i, g[i - 1])
    BY <2>1
  <2> QED BY <1>5, <2>2 DEF Rounds
<1>7. \A x, i : (CHOOSE r \in {next(i, s) : s \in {x}} : TRUE) = next(i, x)
  OBVIOUS
<1>8. Is(g)
  <2>1. \A i \in 0 .. n :
          g[i] = IF i = 0 THEN start
                 ELSE CHOOSE r \in {next(i, s) : s \in {g[i - 1]}} : TRUE
    BY <1>1, <1>6, <1>7
  <2> QED BY <2>1
<1>9. Is(after)
  BY <1>8
<1> HIDE DEF after
<1>10. after[0] = start /\ \A i \in 1 .. n : after[i] = next(i, after[i - 1])
  BY <1>1, <1>7, <1>9
<1>11. \A i \in 0 .. n : after[i] \in V
  <2>1. \A i \in 1 .. n : after[i - 1] \in V => after[i] \in V
    BY <1>2, <1>10
  <2> QED BY <1>1, <1>10, <2>1, LoopInvariant
<1> QED BY <1>4, <1>10, <1>11 DEF Collects, n, V, next, start

\* What is collected extends the chain's transactions to a good sequence, and
\* only transactions with a fault of their own are given up.
LEMMA CollectIsGood ==
  ASSUME NEW q \in Seq(Tx), Good(q), NEW S \in SUBSET Tx, S \cap Elements(q) = {},
         NEW known, NEW corr \in SUBSET Tx, \A t \in corr : ~ Fit(t)
  PROVE  LET c == Collect(Live(q, Len(q)), S, known, corr)
         IN  /\ c.picked \in Seq(S) /\ Good(q \o c.picked)
             /\ c.corrupt \in SUBSET Tx /\ \A t \in c.corrupt : ~ Fit(t)
<1> DEFINE sorted == ByNumber(S)
           n == Len(sorted)
           db == Live(q, Len(q))
           Whole(s) == q \o s.picked
<1>1. PICK h : /\ Collects(h, S, db, known, corr)
               /\ Collect(db, S, known, corr) = h[n]
               /\ \A i \in 0 .. n : h[i] \in Collecting(S)
  <2>1. db \in SUBSET Outpoint
    BY LiveType
  <2> HIDE DEF db
  <2> QED BY <2>1, CollectRounds
<1>2. /\ n \in Nat /\ \A i \in 1 .. n : sorted[i] \in S
      /\ \A i, j \in 1 .. n : sorted[i] = sorted[j] => i = j
  BY ByNumberSorts
<1> HIDE DEF sorted
<1> DEFINE P == {k \in 0 .. n :
                   /\ Good(Whole(h[k]))
                   /\ h[k].db = Live(Whole(h[k]), Len(Whole(h[k])))
                   /\ Elements(h[k].picked) \subseteq {sorted[j] : j \in 1 .. k}
                   /\ \A t \in h[k].corrupt : ~ Fit(t)}
<1>3. 0 \in P
  <2>1. h[0].db = db /\ h[0].picked = <<>> /\ h[0].corrupt = corr
    BY <1>1 DEF Collects
  <2>2. q \o <<>> = q
    OBVIOUS
  <2>3. Whole(h[0]) = q
    BY <2>1, <2>2
  <2>4. Elements(<<>>) = {}
    BY DEF Elements
  <2>5. 0 \in 0 .. n
    BY <1>2
  <2> HIDE DEF Whole
  <2> QED BY <2>1, <2>3, <2>4, <2>5
<1>4. ASSUME NEW k \in 1 .. n, k - 1 \in P PROVE k \in P
  <2> DEFINE s == h[k - 1]
             t == sorted[k]
             w == Whole(s)
  <2>1. /\ h[k] = CollectStep(s, t, known) /\ s \in Collecting(S)
        /\ t \in S /\ t \in Tx /\ k \in 0 .. n
    BY <1>1, <1>2 DEF Collects, sorted
  <2>2. /\ Good(w) /\ s.db = Live(w, Len(w))
        /\ Elements(s.picked) \subseteq {sorted[j] : j \in 1 .. k - 1}
        /\ \A x \in s.corrupt : ~ Fit(x)
    BY <1>4
  <2>3. s.picked \in Seq(S) /\ s.picked \in Seq(Tx) /\ w \in Seq(Tx)
    <3>1. s.picked \in Seq(S)
      BY <2>1 DEF Collecting
    <3>2. s.picked \in Seq(Tx)
      BY <3>1, SeqMonotonic
    <3> QED BY <3>1, <3>2
  <2>4. {sorted[j] : j \in 1 .. k - 1} \subseteq {sorted[j] : j \in 1 .. k}
    BY <1>2
  <2>5. CASE h[k] = s
    <3> HIDE DEF Whole, s
    <3> QED BY <2>1, <2>2, <2>4, <2>5 DEF w
  <2>6. CASE Verdict(s.db, known, t) = "valid" /\ ~ (Len(s.picked) >= BlockMax)
    <3>1. h[k] = [s EXCEPT !.db = Apply(s.db, t), !.picked = Append(s.picked, t)]
      BY <2>1, <2>6 DEF CollectStep
    <3>2. /\ h[k].db = Apply(s.db, t) /\ h[k].picked = Append(s.picked, t)
          /\ h[k].corrupt = s.corrupt
      BY <2>1, <3>1 DEF Collecting
    <3>3. Whole(h[k]) = Append(w, t)
      <4>1. q \o Append(s.picked, t) = Append(q \o s.picked, t)
        <5>1. q \in Seq(Tx) /\ s.picked \in Seq(Tx) /\ t \in Tx
          BY <2>1, <2>3
        <5> HIDE DEF s, t
        <5> QED BY <5>1, ConcatAppend
      <4> QED BY <3>2, <4>1
    <3>4. t \notin Elements(w)
      <4>1. Elements(w) = Elements(q) \cup Elements(s.picked)
        BY <2>3, ElementsConcat
      <4>2. t \notin Elements(q)
        BY <2>1
      <4>3. t \notin {sorted[j] : j \in 1 .. k - 1}
        BY <1>2
      <4> QED BY <2>2, <4>1, <4>2, <4>3
    <3> HIDE DEF w, s, t
    <3>5. /\ Good(Append(w, t))
          /\ Live(Append(w, t), Len(w) + 1) = Apply(Live(w, Len(w)), t)
      BY <2>1, <2>2, <2>3, <2>6, <3>4, GoodAppend
    <3>6. Len(Append(w, t)) = Len(w) + 1
      BY <2>1, <2>3
    <3>7. Elements(Append(s.picked, t)) = Elements(s.picked) \cup {t}
      BY <2>1, <2>3, ElementsAppend
    <3>8. t \in {sorted[j] : j \in 1 .. k}
      BY <1>2 DEF t
    <3> HIDE DEF Whole
    <3> QED BY <2>1, <2>2, <2>4, <3>2, <3>3, <3>5, <3>6, <3>7, <3>8
  <2>7. CASE Verdict(s.db, known, t) = "corrupt" /\ ~ (Len(s.picked) >= BlockMax)
    <3>1. h[k] = [s EXCEPT !.corrupt = s.corrupt \cup {t}]
      BY <2>1, <2>7 DEF CollectStep
    <3>2. /\ h[k].db = s.db /\ h[k].picked = s.picked
          /\ h[k].corrupt = s.corrupt \cup {t}
      BY <2>1, <3>1 DEF Collecting
    <3>3. ~ Fit(t)
      BY <2>1, <2>7, VerdictCorrupt
    <3>4. Whole(h[k]) = w
      BY <3>2
    <3> HIDE DEF w, s, t, Whole
    <3> QED BY <2>1, <2>2, <2>4, <3>2, <3>3, <3>4
  <2>8. h[k] = s \/ (/\ Verdict(s.db, known, t) \in {"valid", "corrupt"}
                     /\ ~ (Len(s.picked) >= BlockMax))
    BY <2>1 DEF CollectStep
  <2> QED BY <2>5, <2>6, <2>7, <2>8
<1> HIDE DEF P
<1>5. \A k \in 0 .. n : k \in P
  BY <1>2, <1>3, <1>4, Induction
<1>6. /\ Good(Whole(h[n])) /\ \A t \in h[n].corrupt : ~ Fit(t)
  BY <1>2, <1>5 DEF P
<1>7. h[n].picked \in Seq(S) /\ h[n].corrupt \in SUBSET Tx
  BY <1>1, <1>2 DEF Collecting
<1> QED BY <1>1, <1>6, <1>7

-----------------------------------------------------------------------------
(* Chains                                                                    *)

\* What the other proofs need to know of a good chain.
LEMMA ChainFacts ==
  ASSUME NEW T \in SUBSET Tx, NEW c, GoodChain(c, T)
  PROVE  /\ Len(c) \in Nat \ {0} /\ DOMAIN c = 1 .. Len(c) /\ c # <<>>
         /\ c[1] \in Root /\ c[1].index = 0
         /\ \A i \in 1 .. Len(c) : c[i].index = i - 1
         /\ Blocks(c, T) /\ Blocks(c, Tx)
         /\ TxsOf(c) \in Seq(T) /\ TxsOf(c) \in Seq(Tx)
         /\ Ids(c) = Elements(TxsOf(c)) /\ Ids(c) \in SUBSET T
         /\ Confirmed(c) \in SUBSET T /\ Ids(c) \subseteq Confirmed(c)
<1>1. Blocks(c, T) /\ Linked(c) /\ Good(TxsOf(c))
  BY DEF GoodChain
<1>2. Len(c) \in Nat \ {0} /\ DOMAIN c = 1 .. Len(c) /\ c # <<>> /\ c[1] \in Root
  BY <1>1 DEF Blocks, Linked
<1>3. c[1].index = 0
  BY <1>1 DEF Linked
<1>4. \A i \in 1 .. Len(c) : c[i].index = i - 1
  BY <1>1, <1>2, <1>3 DEF Linked
<1>5. Blocks(c, Tx)
  <2>1. \A i \in 1 .. Len(c) : c[i].transactions \in Seq(Tx)
    BY <1>1, SeqMonotonic DEF Blocks
  <2> QED BY <1>1, <2>1 DEF Blocks
<1>6. TxsOf(c) \in Seq(T) /\ TxsOf(c) \in Seq(Tx)
  BY <1>1, <1>5, TxsType
<1>7. Ids(c) = Elements(TxsOf(c))
  BY <1>1, IdsOfTxs
<1>8. Ids(c) \in SUBSET T
  BY <1>6, <1>7 DEF Elements
<1>9. Confirmed(c) \in SUBSET T
  <2>1. \A b \in ToSet(c) : b.transactions \in Seq(T)
    BY <1>1, <1>2 DEF Blocks, ToSet
  <2>2. \A q \in Seq(T) : ToSet(q) \subseteq T
    BY DEF ToSet
  <2> QED BY <2>1, <2>2 DEF Confirmed
<1>10. Ids(c) \subseteq Confirmed(c)
  BY DEF Ids, Confirmed
<1> QED BY <1>1, <1>2, <1>3, <1>4, <1>5, <1>6, <1>7, <1>8, <1>9, <1>10

\* A good chain is sound in the words of Blockchain.
LEMMA GoodIsSound ==
  ASSUME NEW T \in SUBSET Tx, NEW c, GoodChain(c, T)
  PROVE  Sound(c)
<1> DEFINE txs == TxsOf(c)
<1>1. /\ Len(txs) \in Nat /\ \A k \in 1 .. Len(txs) : Follows(txs, k)
  BY ChainFacts DEF GoodChain, Good
<1>2. Linked(c)
  BY DEF GoodChain
<1> HIDE DEF txs
<1>3. ASSUME NEW j \in 1 .. Len(txs), NEW i \in 1 .. j - 1
      PROVE  txs[i] # txs[j] /\ Spends(txs[i]) \cap Spends(txs[j]) = {}
  <2>1. Spends(txs[j]) \cap Gone(txs, j - 1) = {}
    BY <1>1 DEF Follows, Live
  <2>2. Spends(txs[i]) \subseteq Gone(txs, j - 1)
    BY DEF Gone
  <2> QED BY <1>1, <2>1, <2>2 DEF Follows
<1>4. ASSUME NEW i \in 1 .. Len(txs), NEW j \in 1 .. Len(txs), i # j
      PROVE  txs[i] # txs[j] /\ Spends(txs[i]) \cap Spends(txs[j]) = {}
  <2>1. i \in 1 .. j - 1 \/ j \in 1 .. i - 1
    BY <1>1, <1>4
  <2> QED BY <1>3, <2>1
<1>5. \A i \in 1 .. Len(txs) :
        Spends(txs[i]) \subseteq UNION {OutputsOf(txs[j]) : j \in 1 .. i - 1}
  BY <1>1 DEF Follows, Live, Made
<1> QED BY <1>2, <1>4, <1>5 DEF Sound, Linked, txs

\* A mined block extends its chain.
LEMMA MinedIsGood ==
  ASSUME NEW T \in SUBSET Tx, NEW c, GoodChain(c, T),
         NEW picked \in Seq(T), Good(TxsOf(c) \o picked), NEW n
  PROVE  GoodChain(c \o <<Block(c[Len(c)].index + 1, picked, Hash(c[Len(c)]), n, TRUE)>>, T)
<1> DEFINE b == Block(c[Len(c)].index + 1, picked, Hash(c[Len(c)]), n, TRUE)
           d == c \o <<b>>
           m == Len(c)
<1>1. /\ m \in Nat \ {0} /\ c[1] \in Root /\ c[1].index = 0 /\ Blocks(c, T)
      /\ c[m].index = m - 1
      /\ \A i \in 2 .. m : c[i].index = i - 1 /\ c[i].previous_hash = Hash(c[i - 1]) /\ c[i].pow
  BY ChainFacts DEF GoodChain, Linked
<1>2. b.index = m /\ b.transactions = picked /\ b.previous_hash = Hash(c[m]) /\ b.pow
  BY <1>1 DEF Block
<1> HIDE DEF b
<1>3. Blocks(d, T) /\ Len(d) = m + 1 /\ d[m + 1] = b /\ \A i \in 1 .. m : d[i] = c[i]
  BY <1>1, <1>2, BlocksAppend
<1>4. TxsOf(d) = TxsOf(c) \o picked
  <2>1. b.index # 0 /\ b.transactions \in Seq(T) /\ Blocks(c, T)
    BY <1>1, <1>2
  <2> QED BY <1>2, <2>1, TxsAppend
<1> HIDE DEF d, m
<1>5. Linked(d)
  <2>1. Len(d) > 0 /\ d[1] \in Root /\ d[1].index = 0
    BY <1>1, <1>3
  <2>2. ASSUME NEW i \in 2 .. Len(d)
        PROVE  d[i].index = i - 1 /\ d[i].previous_hash = Hash(d[i - 1]) /\ d[i].pow
    <3>1. CASE i = m + 1
      <4>1. i - 1 = m /\ m \in 1 .. m
        BY <1>1, <3>1
      <4>2. d[i - 1] = c[m]
        BY <1>3, <4>1
      <4> QED BY <1>2, <1>3, <3>1, <4>1, <4>2
    <3>2. CASE i # m + 1
      <4>1. i \in 2 .. m /\ i \in 1 .. m /\ i - 1 \in 1 .. m
        BY <1>1, <1>3, <3>2
      <4> QED BY <1>1, <1>3, <4>1
    <3> QED BY <3>1, <3>2
  <2> QED BY <2>1, <2>2 DEF Linked
<1>6. GoodChain(d, T)
  BY <1>3, <1>4, <1>5 DEF GoodChain
<1> QED BY <1>6 DEF d, b, m

\* What CurrentLongest puts together, block by block.
LEMMA LongestBlocks ==
  ASSUME NEW T, NEW c, Blocks(c, T), NEW temp, Relayed(temp, T), temp[1].index <= Len(c)
  PROVE  LET d == CurrentLongest(c, temp)
             k == temp[1].index
         IN  /\ Blocks(d, T) /\ Len(d) = k + Len(temp) /\ Len(temp) \in Nat \ {0}
             /\ k \in 0 .. Len(c)
             /\ \A i \in 1 .. k : d[i] = c[i]
             /\ \A i \in 1 .. Len(temp) : d[k + i] = temp[i]
<1> DEFINE d == CurrentLongest(c, temp)
           k == temp[1].index
           front == SubSeq(c, 1, k)
           S == ToSet(c) \cup ToSet(temp)
<1>1. Len(c) \in Nat /\ k \in 0 .. Len(c) /\ Len(temp) \in Nat \ {0}
  BY DEF Blocks, Relayed
<1>2. c \in Seq(S) /\ temp \in Seq(S)
  BY SeqMonotonic DEF Blocks, Relayed
<1>3. d = front \o temp
  BY DEF CurrentLongest
<1> HIDE DEF S, k
<1>4. front \in Seq(S) /\ Len(front) = k /\ \A i \in 1 .. k : front[i] = c[i]
  <2>1. 1 \in Int /\ k \in Int /\ \A i \in 1 .. k : c[i] \in S
    BY <1>1, <1>2
  <2>2. /\ SubSeq(c, 1, k) \in Seq(S)
        /\ Len(SubSeq(c, 1, k)) = IF 1 <= k THEN k - 1 + 1 ELSE 0
        /\ \A i \in 1 .. k - 1 + 1 : SubSeq(c, 1, k)[i] = c[1 + i - 1]
    BY <2>1, SubSeqProperties
  <2>3. /\ k - 1 + 1 = k /\ (IF 1 <= k THEN k - 1 + 1 ELSE 0) = k
        /\ \A i \in 1 .. k : 1 + i - 1 = i
    BY <1>1
  <2> HIDE DEF front
  <2> QED BY <2>2, <2>3 DEF front
<1> HIDE DEF front, d
<1>5. /\ d \in Seq(S) /\ Len(d) = k + Len(temp)
      /\ \A i \in 1 .. k + Len(temp) : d[i] = IF i <= k THEN front[i] ELSE temp[i - k]
  BY <1>2, <1>3, <1>4, ConcatProperties
<1>6. \A i \in 1 .. k : d[i] = c[i]
  BY <1>1, <1>4, <1>5
<1>7. ASSUME NEW i \in 1 .. Len(temp) PROVE d[k + i] = temp[i]
  <2>1. k + i \in 1 .. k + Len(temp) /\ ~ (k + i <= k) /\ (k + i) - k = i
    BY <1>1
  <2> QED BY <1>5, <2>1
<1>8. Blocks(d, T)
  <2>1. d \in Seq(ToSet(d))
    BY <1>5, OwnElements
  <2>2. ASSUME NEW i \in 1 .. Len(d) PROVE d[i].transactions \in Seq(T)
    <3>1. i \in 1 .. k \/ (i - k \in 1 .. Len(temp) /\ i = k + (i - k))
      BY <1>1, <1>5
    <3>2. CASE i \in 1 .. k
      <4>1. i \in 1 .. Len(c)
        BY <1>1, <3>2
      <4> QED BY <1>6, <3>2, <4>1 DEF Blocks
    <3>3. CASE i - k \in 1 .. Len(temp) /\ i = k + (i - k)
      <4>1. d[i] = temp[i - k]
        BY <1>7, <3>3
      <4> QED BY <3>3, <4>1 DEF Relayed, Blocks
    <3> QED BY <3>1, <3>2, <3>3
  <2> QED BY <2>1, <2>2 DEF Blocks
<1> QED BY <1>1, <1>5, <1>6, <1>7, <1>8 DEF k, d

\* A relayed chain that is accepted yields a good chain.
LEMMA AcceptedIsGood ==
  ASSUME NEW T \in SUBSET Tx, NEW c, GoodChain(c, T), NEW temp, Relayed(temp, T),
         NEW known, Acceptable(c, temp, known)
  PROVE  GoodChain(CurrentLongest(c, temp), T)
<1> DEFINE d == CurrentLongest(c, temp)
           k == temp[1].index
           n == Len(temp)
<1>1. /\ Len(c) \in Nat /\ c[1] \in Root /\ c[1].index = 0 /\ Blocks(c, T) /\ k \in Nat
      /\ \A i \in 2 .. Len(c) : c[i].index = i - 1 /\ c[i].previous_hash = Hash(c[i - 1]) /\ c[i].pow
  BY ChainFacts DEF GoodChain, Linked, Relayed
<1>2. /\ ~ (k - 1 >= Len(c)) /\ LinksOK(temp, Hash(LastBlock(c, temp))) /\ ReplayOK(d, known)
  BY DEF Acceptable, StartsBeyond, VerifyChain
<1>3. k <= Len(c)
  BY <1>1, <1>2
<1>4. /\ Blocks(d, T) /\ Len(d) = k + n /\ n \in Nat \ {0}
      /\ k \in 0 .. Len(c)
      /\ \A i \in 1 .. k : d[i] = c[i]
      /\ \A i \in 1 .. n : d[k + i] = temp[i]
  BY <1>1, <1>3, LongestBlocks
<1>5. k # 0 => LastBlock(c, temp) = c[k]
  BY <1>1 DEF LastBlock
<1>6. \A i \in 1 .. n : /\ temp[i].index = k + i - 1
                        /\ i = 1 /\ k # 0 => temp[i].previous_hash = Hash(c[k])
                        /\ i # 1 => temp[i].previous_hash = Hash(temp[i - 1])
                        /\ temp[i].pow
  BY <1>2, <1>5 DEF LinksOK
<1>0. k = 0 => temp[1] \in Root /\ temp[1].index = 0
  BY DEF Relayed
<1> HIDE DEF d, k, n
<1>7. Linked(d)
  <2>1. Len(d) > 0 /\ d[1] \in Root /\ d[1].index = 0
    <3>1. CASE k = 0
      <4>1. 1 \in 1 .. n /\ k + 1 = 1
        BY <1>4, <3>1
      <4> QED BY <1>0, <1>4, <3>1, <4>1
    <3>2. CASE k # 0
      <4>1. 1 \in 1 .. k
        BY <1>1, <3>2
      <4> QED BY <1>1, <1>4, <4>1
    <3> QED BY <3>1, <3>2
  <2>2. ASSUME NEW i \in 2 .. Len(d)
        PROVE  d[i].index = i - 1 /\ d[i].previous_hash = Hash(d[i - 1]) /\ d[i].pow
    <3>1. CASE i <= k
      <4>1. i \in 2 .. Len(c) /\ i \in 1 .. k /\ i - 1 \in 1 .. k
        BY <1>1, <1>4, <3>1
      <4> QED BY <1>1, <1>4, <4>1
    <3>2. CASE ~ (i <= k)
      <4> DEFINE j == i - k
      <4>1. j \in 1 .. n /\ i = k + j /\ k + j - 1 = i - 1
        BY <1>1, <1>4, <3>2
      <4>2. d[i] = temp[j]
        BY <1>4, <4>1
      <4>0. j = 1 => k # 0
        BY <1>4, <4>1
      <4>3. d[i - 1] = IF j = 1 THEN c[k] ELSE temp[j - 1]
        <5>1. CASE j = 1
          <6>1. i - 1 = k /\ k \in 1 .. k
            BY <1>4, <4>0, <4>1, <5>1
          <6> QED BY <1>4, <5>1, <6>1
        <5>2. CASE j # 1
          <6>1. j - 1 \in 1 .. n /\ i - 1 = k + (j - 1)
            BY <1>4, <4>1, <5>2
          <6> QED BY <1>4, <5>2, <6>1
        <5> QED BY <5>1, <5>2
      <4> HIDE DEF j
      <4> QED BY <1>6, <4>0, <4>1, <4>2, <4>3
    <3> QED BY <3>1, <3>2
  <2> QED BY <2>1, <2>2 DEF Linked
<1>8. TxsOf(d) \in Seq(Tx)
  <2>1. TxsOf(d) \in Seq(T)
    BY <1>4, TxsType
  <2> QED BY <2>1, SeqMonotonic
<1>9. Good(TxsOf(d))
  BY <1>2, <1>8, ReplayGood
<1>10. GoodChain(d, T)
  BY <1>4, <1>7, <1>9 DEF GoodChain
<1> QED BY <1>10 DEF d

\* what a chain has after its first k blocks
After(c, k) == SubSeq(c, k + 1, Len(c))

\* Something is left when the chain is longer.
LEMMA AfterIsLonger ==
  ASSUME NEW S, NEW c \in Seq(S), NEW k \in Nat, k + 1 <= Len(c)
  PROVE  After(c, k) # <<>>
<1>1. Len(c) \in Nat /\ \A i \in k + 1 .. Len(c) : c[i] \in S
  OBVIOUS
<1>2. Len(SubSeq(c, k + 1, Len(c))) = IF k + 1 <= Len(c) THEN Len(c) - (k + 1) + 1 ELSE 0
  BY <1>1, SubSeqProperties
<1>3. Len(SubSeq(c, k + 1, Len(c))) # 0
  BY <1>1, <1>2
<1>4. Len(<<>>) = 0
  OBVIOUS
<1> QED BY <1>3, <1>4 DEF After

\* the same, block by block
Follow(rest, c, k) ==
  /\ Len(rest) = Len(c) - k /\ Len(rest) \in Nat \ {0}
  /\ \A i \in 1 .. Len(rest) : rest[i] = c[k + i]
  /\ rest[1].index = k

\* Two good chains share a prefix, block 0 at least if it is the same; Missing is
\* the rest.
LEMMA SharedPrefix ==
  ASSUME NEW T \in SUBSET Tx, NEW c, GoodChain(c, T), NEW v, GoodChain(v, T)
  PROVE  \E k \in 0 .. Len(c) : /\ k <= Len(v)
                                /\ \A j \in 1 .. k : c[j] = v[j]
                                /\ c[1] = v[1] => k # 0
                                /\ Missing(c, v) = After(c, k)
<1> DEFINE shared == {i \in 0 .. Len(c) : i <= Len(v) /\ \A j \in 1 .. i : c[j] = v[j]}
           n == Len(c)
           far == {n - i : i \in shared}
<1>1. n \in Nat \ {0} /\ Len(v) \in Nat \ {0}
  BY ChainFacts
<1>2. 0 \in shared /\ (c[1] = v[1] => 1 \in shared)
  BY <1>1
<1>3. PICK m \in far : \A x \in far : m <= x
  <2>1. far \in SUBSET Nat
    BY <1>1
  <2>2. far # {}
    BY <1>2
  <2> HIDE DEF far
  <2> QED BY <2>1, <2>2, LeastNatural
<1>4. PICK k \in shared : m = n - k
  OBVIOUS
<1>5. \A i \in shared : k >= i
  <2>1. \A i \in shared : n - k <= n - i
    BY <1>3, <1>4
  <2>2. \A i \in shared : i \in Int
    BY <1>1
  <2> HIDE DEF shared, far
  <2> QED BY <1>1, <2>1, <2>2
<1>6. Max(shared) \in shared /\ \A i \in shared : Max(shared) >= i
  <2> HIDE DEF shared
  <2> QED BY <1>5 DEF Max
<1>7. Missing(c, v) = SubSeq(c, Max(shared) + 1, n)
  BY DEF Missing
<1> DEFINE top == Max(shared)
<1>8. /\ top \in 0 .. n /\ top <= Len(v) /\ \A j \in 1 .. top : c[j] = v[j]
      /\ c[1] = v[1] => top # 0
  BY <1>2, <1>6
<1>9. Missing(c, v) = SubSeq(c, top + 1, n)
  BY <1>7
<1> HIDE DEF top, n
<1> QED BY <1>8, <1>9 DEF n, After

\* The rest of a good chain, block by block: it can be relayed.
LEMMA RestBlocks ==
  ASSUME NEW T \in SUBSET Tx, NEW c, GoodChain(c, T), NEW k \in 0 .. Len(c),
         NEW rest, rest = After(c, k), rest # <<>>
  PROVE  Relayed(rest, T) /\ Follow(rest, c, k)
<1> DEFINE n == Len(c)
           S == ToSet(c)
<1>1. /\ n \in Nat /\ c \in Seq(S) /\ \A i \in 1 .. n : c[i].transactions \in Seq(T)
      /\ \A i \in 1 .. n : c[i].index = i - 1
      /\ c[1] \in Root
  BY ChainFacts DEF Blocks
<1> HIDE DEF n, S
<1>0. rest = SubSeq(c, k + 1, Len(c))
  BY DEF After
<1>2. k < n
  <2> SUFFICES ASSUME n < k + 1 PROVE FALSE
    BY <1>1 DEF n
  <2> QED BY <1>0, <1>1, SubSeqEmpty DEF n
<1>3. /\ rest \in Seq(S) /\ Len(rest) = n - k
      /\ \A i \in 1 .. n - k : rest[i] = c[k + i]
  <2>1. k + 1 \in Int /\ n \in Int /\ \A i \in k + 1 .. n : c[i] \in S
    BY <1>1 DEF n
  <2>2. /\ SubSeq(c, k + 1, n) \in Seq(S)
        /\ Len(SubSeq(c, k + 1, n)) = IF k + 1 <= n THEN n - (k + 1) + 1 ELSE 0
        /\ \A i \in 1 .. n - (k + 1) + 1 : SubSeq(c, k + 1, n)[i] = c[(k + 1) + i - 1]
    BY <2>1, SubSeqProperties
  <2>3. k + 1 <= n /\ n - (k + 1) + 1 = n - k /\ \A i \in 1 .. n - k : (k + 1) + i - 1 = k + i
    BY <1>1, <1>2
  <2>4. rest = SubSeq(c, k + 1, n)
    BY <1>0 DEF n
  <2> QED BY <2>2, <2>3, <2>4
<1>4. n - k \in Nat \ {0} /\ \A i \in 1 .. n - k : k + i \in 1 .. n
  BY <1>1, <1>2
<1>5. rest[1].index = k /\ k \in Nat /\ (k = 0 => rest[1] \in Root)
  <2>1. 1 \in 1 .. n - k /\ k + 1 \in 1 .. n /\ (k + 1) - 1 = k /\ k \in Nat
    BY <1>4
  <2> QED BY <1>1, <1>3, <2>1
<1>6. Blocks(rest, T)
  <2>1. rest \in Seq(ToSet(rest))
    BY <1>3, OwnElements
  <2> QED BY <1>1, <1>3, <1>4, <2>1 DEF Blocks
<1> QED BY <1>3, <1>4, <1>5, <1>6 DEF Relayed, Follow, n

-----------------------------------------------------------------------------
(* The inductive invariant, for the transactions T that chains may hold      *)

Shape ==
  /\ DOMAIN valid_chain = Node /\ DOMAIN candidate = Node
  /\ DOMAIN pending = Node /\ \A n \in Node : DOMAIN pending[n] = Sender
  /\ DOMAIN state = Node /\ DOMAIN request = Node

\* A node's chain is good, with the candidate too; what it has given up could
\* never be accepted; at the prompt nothing else is missing from the lists.
NodeOK(n, T) ==
  /\ GoodChain(valid_chain[n], T)
  /\ GoodChain(valid_chain[n] \o candidate[n], T)
  /\ Len(candidate[n]) <= 1
  /\ candidate[n] # <<>> => mode[n] = "mining"
  /\ \A t \in corrupt[n] : ~ Fit(t)
  /\ mode[n] = "prompt" =>
       unconfirmed[n] = Mempool \ (Confirmed(valid_chain[n]) \cup corrupt[n])

\* So is every chain on its way; what came from a node is the rest of a good one.
IsRest(rest, T) == \E c : GoodChain(c, T) /\ \E k \in 0 .. Len(c) : rest = After(c, k)

Messages(T) ==
  /\ \A n \in Node, s \in Sender : pending[n][s] # <<>> => Relayed(pending[n][s], T)
  /\ \A n, s \in Node : pending[n][s] # <<>> => IsRest(pending[n][s], T)
  /\ \A n \in Node : state[n] # <<>> => GoodChain(state[n], T)
  /\ \A n \in Node : \A r \in request[n] : r.from \in Node /\ GoodChain(r.headers, T)

NodeInv(T) == TypeOK /\ Shape /\ (\A n \in Node : NodeOK(n, T)) /\ Messages(T)

\* The chain every node starts with.
LEMMA GenesisIsGood ==
  ASSUME NEW T \in SUBSET Tx
  PROVE  GoodChain(<<Genesis>>, T) /\ Confirmed(<<Genesis>>) = {}
<1> DEFINE c == <<Genesis>>
<1>1. Len(c) = 1 /\ c[1] = Genesis /\ DOMAIN c = 1 .. 1 /\ c \in Seq({Genesis})
  OBVIOUS
<1>2. Genesis.index = 0 /\ Genesis.transactions = <<>>
  BY DEF Genesis, Block
<1> HIDE DEF c
<1>3. Blocks(c, T)
  <2>1. c \in Seq(ToSet(c))
    BY <1>1, OwnElements
  <2>2. <<>> \in Seq(T)
    BY EmptySeq
  <2>3. ASSUME NEW i \in 1 .. Len(c) PROVE c[i].transactions \in Seq(T)
    <3>1. i = 1
      BY <1>1
    <3> QED BY <1>1, <1>2, <2>2, <3>1
  <2> QED BY <2>1, <2>3 DEF Blocks
<1>4. PICK h : Gathers(h, c) /\ TxsOf(c) = h[Len(c)]
  BY <1>3, TxsRounds
<1>5. TxsOf(c) = <<>>
  <2>1. 1 \in 1 .. Len(c) /\ 1 - 1 = 0
    BY <1>1
  <2> QED BY <1>1, <1>2, <1>4, <2>1 DEF Gathers
<1>6. Linked(c) /\ Good(TxsOf(c))
  BY <1>1, <1>2, <1>5 DEF Linked, Good, Root
<1>7. Confirmed(c) = {}
  <2>1. \A b \in ToSet(c) : ToSet(b.transactions) = {}
    BY <1>1, <1>2 DEF ToSet
  <2> QED BY <2>1 DEF Confirmed
<1> QED BY <1>3, <1>6, <1>7 DEF GoodChain, c

\* The invariant holds before the first command.
LEMMA NodeInit ==
  ASSUME NEW T \in SUBSET Tx
  PROVE  Init => NodeInv(T)
<1> SUFFICES ASSUME Init PROVE NodeInv(T)
  OBVIOUS
<1>1. TypeOK
  BY FullNodeAssumption DEF Init, TypeOK
<1>2. Shape
  BY DEF Init, Shape
<1>3. ASSUME NEW n \in Node PROVE NodeOK(n, T)
  <2>1. /\ valid_chain[n] = <<Genesis>> /\ candidate[n] = <<>> /\ corrupt[n] = {}
        /\ unconfirmed[n] = Mempool
    BY DEF Init
  <2>2. <<Genesis>> \o <<>> = <<Genesis>>
    OBVIOUS
  <2> QED BY <2>1, <2>2, GenesisIsGood DEF NodeOK
<1>4. Messages(T)
  BY DEF Init, Messages, Sender
<1> QED BY <1>1, <1>2, <1>3, <1>4 DEF NodeInv

\* A chain without a candidate.
LEMMA NothingAdded ==
  ASSUME NEW T, NEW c, GoodChain(c, T)
  PROVE  Len(c) > 0 /\ c \o <<>> = c
<1>1. c \in Seq(ToSet(c)) /\ Len(c) > 0
  BY DEF GoodChain, Blocks, Linked
<1> QED BY <1>1, ConcatEmptySeq

\* A step of another node.
LEMMA NodeKept ==
  ASSUME NEW T, NEW m \in Node, NodeOK(m, T),
         valid_chain'[m] = valid_chain[m], candidate'[m] = candidate[m], mode'[m] = mode[m],
         corrupt'[m] = corrupt[m], unconfirmed'[m] = unconfirmed[m]
  PROVE  NodeOK(m, T)'
BY DEF NodeOK

\* update_UTXO on a node's chain, whatever the node still waits for.
LEMMA NodeRebuilds ==
  ASSUME NEW T \in SUBSET Tx, NEW c, GoodChain(c, T), NEW U, NEW corr \in SUBSET Tx
  PROVE  /\ UpdateUTXO(c, Known(c, U), corr).db = Unspent(c)
         /\ UpdateUTXO(c, Known(c, U), corr).corrupt = corr
         /\ Unspent(c) \in SUBSET Outpoint
<1>1. Blocks(c, Tx) /\ Good(TxsOf(c)) /\ TxsOf(c) \in Seq(Tx)
  BY ChainFacts DEF GoodChain
<1>2. Ids(c) \subseteq Known(c, U)
  BY ChainFacts DEF Known
<1>3. Unspent(c) \in SUBSET Outpoint
  <2>1. Len(TxsOf(c)) \in 0 .. Len(TxsOf(c))
    BY <1>1
  <2> QED BY <1>1, <2>1, UnspentIsLive, LiveType
<1> QED BY <1>1, <1>2, <1>3, RebuildIsExact

\* "update_UTXO" and the reload after it.
LEMMA UpdateKeeps ==
  ASSUME NEW T \in SUBSET Tx, NodeInv(T), NEW n \in Node, UpdateCommand(n)
  PROVE  NodeInv(T)'
<1> DEFINE c == valid_chain[n]
           u == UpdateUTXO(c, Known(c, unconfirmed[n]), corrupt[n])
<1>1. TypeOK /\ Shape /\ NodeOK(n, T) /\ Messages(T) /\ \A m \in Node : NodeOK(m, T)
  BY DEF NodeInv
<1>2. GoodChain(c, T) /\ corrupt[n] \in SUBSET Tx
  BY <1>1 DEF NodeOK, TypeOK
<1>3. u.db = Unspent(c) /\ u.corrupt = corrupt[n] /\ Unspent(c) \in SUBSET Outpoint
  BY <1>2, NodeRebuilds
<1>4. /\ utxo' = [utxo EXCEPT ![n] = Unspent(c)]
      /\ corrupt' = [corrupt EXCEPT ![n] = corrupt[n]]
      /\ unconfirmed' = [unconfirmed EXCEPT ![n] = Mempool \ (Confirmed(c) \cup corrupt[n])]
      /\ UNCHANGED <<valid_chain, mode, candidate, todo, pending, state, request>>
  BY <1>3 DEF UpdateCommand, Reload
<1> HIDE DEF u, c
<1>5. TypeOK'
  BY <1>1, <1>2, <1>3, <1>4 DEF TypeOK
<1>6. Shape' /\ Messages(T)'
  BY <1>1, <1>4 DEF Shape, Messages
<1>7. ASSUME NEW m \in Node PROVE NodeOK(m, T)'
  <2>1. CASE m = n
    <3>1. corrupt'[n] = corrupt[n] /\ unconfirmed'[n] = Mempool \ (Confirmed(c) \cup corrupt[n])
      BY <1>1, <1>4 DEF TypeOK
    <3> QED BY <1>1, <1>4, <2>1, <3>1 DEF NodeOK, c
  <2>2. CASE m # n
    BY <1>1, <1>4, <2>2, NodeKept DEF TypeOK
  <2> QED BY <2>1, <2>2
<1> QED BY <1>5, <1>6, <1>7 DEF NodeInv

\* A candidate is collected for the chain it will extend.
LEMMA MineKeeps ==
  ASSUME NEW T \in SUBSET Tx, Mempool \subseteq T, NodeInv(T), NEW n \in Node, StartMine(n)
  PROVE  NodeInv(T)'
<1> DEFINE chain == valid_chain[n]
           known == Known(chain, unconfirmed[n])
           u == UpdateUTXO(chain, known, corrupt[n])
           c == Collect(u.db, unconfirmed[n], known, u.corrupt)
           tip == chain[Len(chain)]
           block == Block(tip.index + 1, c.picked, Hash(tip), n, TRUE)
<1>1. TypeOK /\ Shape /\ NodeOK(n, T) /\ Messages(T) /\ \A m \in Node : NodeOK(m, T)
  BY DEF NodeInv
<1>2. /\ GoodChain(chain, T) /\ corrupt[n] \in SUBSET Tx /\ unconfirmed[n] \in SUBSET Tx
      /\ unconfirmed[n] \in SUBSET T
      /\ mode[n] = "prompt" /\ \A t \in corrupt[n] : ~ Fit(t)
      /\ unconfirmed[n] = Mempool \ (Confirmed(chain) \cup corrupt[n])
  BY <1>1, FullNodeAssumption DEF NodeOK, TypeOK, StartMine
<1>3. u.db = Unspent(chain) /\ u.corrupt = corrupt[n] /\ Unspent(chain) \in SUBSET Outpoint
  BY <1>2, NodeRebuilds
<1> DEFINE q == TxsOf(chain)
<1>4. /\ q \in Seq(Tx) /\ Good(q) /\ Elements(q) \subseteq Confirmed(chain)
      /\ u.db = Live(q, Len(q))
  <2>1. /\ q \in Seq(Tx) /\ Ids(chain) = Elements(q) /\ Ids(chain) \subseteq Confirmed(chain)
        /\ Blocks(chain, Tx)
    <3>1. GoodChain(chain, T)
      BY <1>2
    <3> HIDE DEF chain, known, u, c, block, tip
    <3> QED BY <3>1, ChainFacts
  <2>2. Good(q)
    BY <1>2 DEF GoodChain
  <2>3. Unspent(chain) = Live(q, Len(q))
    BY <2>1, <2>2, UnspentIsLive
  <2> QED BY <1>3, <2>1, <2>2, <2>3
<1>5. /\ utxo' = [utxo EXCEPT ![n] = u.db]
      /\ corrupt' = [corrupt EXCEPT ![n] = c.corrupt]
      /\ UNCHANGED <<valid_chain, todo, pending, state, request>>
      /\ \/ /\ c.picked = <<>>
            /\ unconfirmed' = [unconfirmed EXCEPT ![n] = Mempool \ (Confirmed(chain) \cup c.corrupt)]
            /\ UNCHANGED <<mode, candidate>>
         \/ /\ c.picked # <<>>
            /\ candidate' = [candidate EXCEPT ![n] = <<block>>]
            /\ mode' = [mode EXCEPT ![n] = "mining"]
            /\ UNCHANGED unconfirmed
  BY DEF StartMine, Reload
<1>6. /\ c.picked \in Seq(unconfirmed[n]) /\ Good(q \o c.picked)
      /\ c.corrupt \in SUBSET Tx /\ \A t \in c.corrupt : ~ Fit(t)
  <2>1. unconfirmed[n] \cap Elements(q) = {}
    BY <1>2, <1>4
  <2>2. c = Collect(Live(q, Len(q)), unconfirmed[n], known, corrupt[n])
    BY <1>3, <1>4
  <2> HIDE DEF c, q, known
  <2> QED BY <1>2, <1>4, <2>1, <2>2, CollectIsGood
<1>7. c.picked \in Seq(T)
  BY <1>2, <1>6, SeqMonotonic
<1> HIDE DEF c, u, known
<1>8. GoodChain(chain \o <<block>>, T)
  BY <1>2, <1>6, <1>7, MinedIsGood
<1> HIDE DEF q, block, chain
<1>9. TypeOK'
  <2>1. ASSUME NEW m \in Node PROVE Len(candidate'[m]) <= 1
    <3>1. candidate'[m] = candidate[m] \/ candidate'[m] = <<block>>
      BY <1>1, <1>5 DEF Shape
    <3>2. Len(<<block>>) <= 1
      OBVIOUS
    <3> QED BY <1>1, <3>1, <3>2 DEF NodeOK
  <2>2. \A m \in Node : Len(valid_chain'[m]) > 0
    BY <1>1, <1>5 DEF TypeOK
  <2> QED BY <1>1, <1>3, <1>5, <1>6, <2>1, <2>2 DEF TypeOK
<1>10. Shape' /\ Messages(T)'
  BY <1>1, <1>5 DEF Shape, Messages
<1>11. ASSUME NEW m \in Node PROVE NodeOK(m, T)'
  <2>1. CASE m = n
    <3>1. corrupt'[n] = c.corrupt /\ valid_chain'[n] = chain
      BY <1>1, <1>5 DEF TypeOK, chain
    <3>2. CASE c.picked = <<>>
      <4>1. /\ unconfirmed'[n] = Mempool \ (Confirmed(chain) \cup c.corrupt)
            /\ mode'[n] = mode[n] /\ candidate'[n] = candidate[n]
        BY <1>1, <1>5, <3>2 DEF TypeOK
      <4> QED BY <1>1, <1>6, <2>1, <3>1, <4>1 DEF NodeOK, chain
    <3>3. CASE c.picked # <<>>
      <4>1. candidate'[n] = <<block>> /\ mode'[n] = "mining"
        BY <1>1, <1>5, <3>3 DEF TypeOK, Shape
      <4>2. Len(<<block>>) <= 1
        OBVIOUS
      <4> QED BY <1>2, <1>6, <1>8, <2>1, <3>1, <4>1, <4>2 DEF NodeOK
    <3> QED BY <3>2, <3>3
  <2>2. CASE m # n
    <3>1. /\ valid_chain'[m] = valid_chain[m] /\ candidate'[m] = candidate[m]
          /\ mode'[m] = mode[m] /\ corrupt'[m] = corrupt[m] /\ unconfirmed'[m] = unconfirmed[m]
      BY <1>1, <1>5, <2>2 DEF TypeOK, Shape
    <3> QED BY <1>1, <3>1, NodeKept
  <2> QED BY <2>1, <2>2
<1> QED BY <1>9, <1>10, <1>11 DEF NodeInv

\* The candidate becomes the tip.
LEMMA FoundKeeps ==
  ASSUME NEW T \in SUBSET Tx, NodeInv(T), NEW n \in Node, FoundBlock(n)
  PROVE  NodeInv(T)'
<1> DEFINE chain == valid_chain[n] \o candidate[n]
           u == UpdateUTXO(chain, Known(chain, unconfirmed[n]), corrupt[n])
<1>1. TypeOK /\ Shape /\ NodeOK(n, T) /\ Messages(T) /\ \A m \in Node : NodeOK(m, T)
  BY DEF NodeInv
<1>2. GoodChain(chain, T) /\ corrupt[n] \in SUBSET Tx
  BY <1>1 DEF NodeOK, TypeOK
<1>3. u.db = Unspent(chain) /\ u.corrupt = corrupt[n] /\ Unspent(chain) \in SUBSET Outpoint
  BY <1>2, NodeRebuilds
<1>4. /\ valid_chain' = [valid_chain EXCEPT ![n] = chain]
      /\ utxo' = [utxo EXCEPT ![n] = Unspent(chain)]
      /\ corrupt' = [corrupt EXCEPT ![n] = corrupt[n]]
      /\ unconfirmed' = [unconfirmed EXCEPT ![n] = Mempool \ (Confirmed(chain) \cup corrupt[n])]
      /\ candidate' = [candidate EXCEPT ![n] = <<>>]
      /\ mode' = [mode EXCEPT ![n] = "prompt"]
      /\ UNCHANGED <<todo, pending, state, request>>
  BY <1>3 DEF FoundBlock, Reload
<1> HIDE DEF u, chain
<1>5. Len(chain) > 0 /\ chain \o <<>> = chain
  BY <1>2, NothingAdded
<1>6. TypeOK'
  BY <1>1, <1>2, <1>3, <1>4, <1>5 DEF TypeOK, Shape
<1>7. Shape' /\ Messages(T)'
  BY <1>1, <1>4 DEF Shape, Messages
<1>8. ASSUME NEW m \in Node PROVE NodeOK(m, T)'
  <2>1. CASE m = n
    <3>1. /\ corrupt'[n] = corrupt[n] /\ unconfirmed'[n] = Mempool \ (Confirmed(chain) \cup corrupt[n])
          /\ valid_chain'[n] = chain /\ candidate'[n] = <<>>
      BY <1>1, <1>4 DEF TypeOK, Shape
    <3>2. Len(<<>>) <= 1
      OBVIOUS
    <3> QED BY <1>1, <1>2, <1>5, <2>1, <3>1, <3>2 DEF NodeOK
  <2>2. CASE m # n
    <3>1. /\ valid_chain'[m] = valid_chain[m] /\ candidate'[m] = candidate[m]
          /\ mode'[m] = mode[m] /\ corrupt'[m] = corrupt[m] /\ unconfirmed'[m] = unconfirmed[m]
      BY <1>1, <1>4, <2>2 DEF TypeOK, Shape
    <3> QED BY <1>1, <3>1, NodeKept
  <2> QED BY <2>1, <2>2
<1> QED BY <1>6, <1>7, <1>8 DEF NodeInv

\* A subdirectory of pending_chains, adopted or refused.
LEMMA ValidateKeeps ==
  ASSUME NEW T \in SUBSET Tx, NodeInv(T), NEW n \in Node, NEW s \in Sender,
         ValidateDirectory(n, s)
  PROVE  NodeInv(T)'
<1> DEFINE temp == pending[n][s]
           valid == valid_chain[n]
           ok == Acceptable(valid, temp, Known(valid, unconfirmed[n]))
           chain == IF ok THEN CurrentLongest(valid, temp) ELSE valid
<1>1. TypeOK /\ Shape /\ NodeOK(n, T) /\ Messages(T) /\ \A m \in Node : NodeOK(m, T)
  BY DEF NodeInv
<1>2. GoodChain(chain, T)
  <2>1. GoodChain(valid, T)
    BY <1>1 DEF NodeOK
  <2>2. CASE ok
    <3>1. temp # <<>>
      BY <2>2 DEF Acceptable, VerifyChain
    <3>2. Relayed(temp, T)
      BY <1>1, <3>1 DEF Messages
    <3>3. GoodChain(CurrentLongest(valid, temp), T)
      <4> HIDE DEF temp, valid
      <4> QED BY <2>1, <2>2, <3>2, AcceptedIsGood
    <3> QED BY <2>2, <3>3
  <2> QED BY <2>1, <2>2
<1>3. /\ mode[n] = "validating" /\ s \in todo[n]
      /\ valid_chain' = [valid_chain EXCEPT ![n] = chain]
      /\ pending' = [pending EXCEPT ![n][s] = <<>>]
      /\ todo' = [todo EXCEPT ![n] = @ \ {s}]
      /\ mode' \in {mode, [mode EXCEPT ![n] = "prompt"]}
      /\ \/ /\ mode'[n] = "prompt"
            /\ unconfirmed' = [unconfirmed EXCEPT ![n] = Mempool \ (Confirmed(chain) \cup corrupt[n])]
         \/ mode'[n] = "validating" /\ UNCHANGED unconfirmed
      /\ UNCHANGED <<corrupt, utxo, candidate, state, request>>
  BY <1>1 DEF ValidateDirectory, Reload, TypeOK
<1> HIDE DEF chain, valid, temp, ok
<1>4. candidate[n] = <<>> /\ Len(chain) > 0 /\ chain \o <<>> = chain
  BY <1>1, <1>2, <1>3, NothingAdded DEF NodeOK
<1>5. TypeOK'
  <2>1. \A m \in Node : Len(valid_chain'[m]) > 0
    BY <1>1, <1>3, <1>4 DEF TypeOK, Shape
  <2>2. mode' \in [Node -> {"prompt", "mining", "validating"}]
    BY <1>1, <1>3 DEF TypeOK
  <2>3. unconfirmed' \in [Node -> SUBSET Mempool] /\ todo' \in [Node -> SUBSET Sender]
    BY <1>1, <1>3 DEF TypeOK
  <2> QED BY <1>1, <1>3, <2>1, <2>2, <2>3 DEF TypeOK
<1>6. Shape'
  BY <1>1, <1>3 DEF Shape
<1>7. Messages(T)'
  <2>1. ASSUME NEW m \in Node, NEW p \in Sender, pending'[m][p] # <<>>
        PROVE  Relayed(pending'[m][p], T)
    <3>1. pending'[m][p] = pending[m][p]
      BY <1>1, <1>3, <2>1 DEF Shape
    <3> QED BY <1>1, <2>1, <3>1 DEF Messages
  <2>2. ASSUME NEW m \in Node, NEW p \in Node, pending'[m][p] # <<>>
        PROVE  IsRest(pending'[m][p], T)
    <3>1. pending'[m][p] = pending[m][p]
      BY <1>1, <1>3, <2>2 DEF Shape, Sender
    <3> QED BY <1>1, <2>2, <3>1 DEF Messages
  <2> QED BY <1>1, <1>3, <2>1, <2>2 DEF Messages
<1>8. ASSUME NEW m \in Node PROVE NodeOK(m, T)'
  <2>1. CASE m = n
    <3>1. valid_chain'[n] = chain /\ candidate'[n] = <<>> /\ corrupt'[n] = corrupt[n]
      BY <1>1, <1>3, <1>4 DEF Shape
    <3>2. mode'[n] = "prompt" => unconfirmed'[n] = Mempool \ (Confirmed(chain) \cup corrupt[n])
      BY <1>1, <1>3 DEF TypeOK
    <3>3. Len(<<>>) <= 1
      OBVIOUS
    <3> QED BY <1>1, <1>2, <1>4, <2>1, <3>1, <3>2, <3>3 DEF NodeOK
  <2>2. CASE m # n
    <3>1. /\ valid_chain'[m] = valid_chain[m] /\ candidate'[m] = candidate[m]
          /\ mode'[m] = mode[m] /\ corrupt'[m] = corrupt[m] /\ unconfirmed'[m] = unconfirmed[m]
      BY <1>1, <1>3, <2>2 DEF TypeOK, Shape
    <3> QED BY <1>1, <3>1, NodeKept
  <2> QED BY <2>1, <2>2
<1> QED BY <1>5, <1>6, <1>7, <1>8 DEF NodeInv

\* The process is started again from its disk.
LEMMA RestartKeeps ==
  ASSUME NEW T \in SUBSET Tx, NodeInv(T), NEW n \in Node, Restart(n)
  PROVE  NodeInv(T)'
<1>1. TypeOK /\ Shape /\ NodeOK(n, T) /\ Messages(T) /\ \A m \in Node : NodeOK(m, T)
  BY DEF NodeInv
<1> DEFINE c == valid_chain[n]
<1>2. GoodChain(c, T) /\ c \o <<>> = c
  BY <1>1, NothingAdded DEF NodeOK
<1>3. /\ unconfirmed' = [unconfirmed EXCEPT ![n] = Mempool \ Confirmed(c)]
      /\ corrupt' = [corrupt EXCEPT ![n] = {}]
      /\ utxo' = [utxo EXCEPT ![n] = {}]
      /\ mode' = [mode EXCEPT ![n] = "prompt"]
      /\ candidate' = [candidate EXCEPT ![n] = <<>>]
      /\ todo' = [todo EXCEPT ![n] = {}]
      /\ request' = [request EXCEPT ![n] = {}]
      /\ state' \in {state, [state EXCEPT ![n] = c]}
      /\ UNCHANGED <<valid_chain, pending>>
  BY DEF Restart
<1>4. c = valid_chain[n]
  OBVIOUS
<1> HIDE DEF c
<1>5. Len(<<>>) = 0
  OBVIOUS
<1>6. TypeOK'
  <2>1. ASSUME NEW m \in Node PROVE Len(candidate'[m]) <= 1
    <3>1. candidate'[m] = candidate[m] \/ candidate'[m] = <<>>
      BY <1>1, <1>3 DEF Shape
    <3> QED BY <1>1, <1>5, <3>1 DEF NodeOK
  <2>2. \A m \in Node : Len(valid_chain'[m]) > 0
    BY <1>1, <1>3 DEF TypeOK
  <2> QED BY <1>1, <1>3, <2>1, <2>2 DEF TypeOK
<1>7. Shape'
  BY <1>1, <1>3 DEF Shape
<1>8. Messages(T)'
  <2>1. ASSUME NEW m \in Node, state'[m] # <<>> PROVE GoodChain(state'[m], T)
    <3>1. state'[m] = state[m] \/ state'[m] = c
      BY <1>1, <1>3 DEF Shape
    <3> QED BY <1>1, <1>2, <2>1, <3>1 DEF Messages
  <2>2. ASSUME NEW m \in Node, NEW r \in request'[m] PROVE r \in request[m]
    BY <1>1, <1>3 DEF Shape
  <2> QED BY <1>1, <1>3, <2>1, <2>2 DEF Messages
<1>9. ASSUME NEW m \in Node PROVE NodeOK(m, T)'
  <2>1. CASE m = n
    <3>1. /\ valid_chain'[n] = c /\ candidate'[n] = <<>> /\ corrupt'[n] = {}
          /\ unconfirmed'[n] = Mempool \ Confirmed(c)
      BY <1>1, <1>3, <1>4 DEF TypeOK, Shape
    <3> QED BY <1>2, <1>5, <2>1, <3>1 DEF NodeOK
  <2>2. CASE m # n
    <3>1. /\ valid_chain'[m] = valid_chain[m] /\ candidate'[m] = candidate[m]
          /\ mode'[m] = mode[m] /\ corrupt'[m] = corrupt[m] /\ unconfirmed'[m] = unconfirmed[m]
      BY <1>1, <1>3, <2>2 DEF TypeOK, Shape
    <3> QED BY <1>1, <3>1, NodeKept
  <2> QED BY <2>1, <2>2
<1> QED BY <1>6, <1>7, <1>8, <1>9 DEF NodeInv

\* What the backend relays of a chain that was sent.
LEMMA MissingIsRelayed ==
  ASSUME NEW T \in SUBSET Tx, NEW c, c # <<>> => GoodChain(c, T), NEW v, GoodChain(v, T),
         Missing(c, v) # <<>>
  PROVE  Relayed(Missing(c, v), T) /\ IsRest(Missing(c, v), T)
<1>1. c # <<>>
  <2> SUFFICES ASSUME c = <<>> PROVE Missing(c, v) = <<>>
    OBVIOUS
  <2>1. Missing(c, v) = SubSeq(c, Max({i \in 0 .. 0 : i <= Len(v) /\ \A j \in 1 .. i : c[j] = v[j]}) + 1, 0)
    BY DEF Missing
  <2>2. {i \in 0 .. 0 : i <= Len(v) /\ \A j \in 1 .. i : c[j] = v[j]} = {0}
    <3>1. Len(v) \in Nat
      BY ChainFacts
    <3> QED BY <3>1
  <2>3. Max({0}) = 0
    BY DEF Max
  <2>4. Missing(c, v) = SubSeq(c, 0 + 1, 0)
    BY <2>1, <2>2, <2>3
  <2>5. SubSeq(<<>>, 1, 0) = <<>>
    OBVIOUS
  <2> QED BY <2>4, <2>5
<1>2. PICK k \in 0 .. Len(c) : Missing(c, v) = After(c, k)
  BY <1>1, SharedPrefix
<1> QED BY <1>1, <1>2, RestBlocks DEF IsRest

\* A chain of a node, or of a sender that runs another program, is stored.
LEMMA SaveKeeps ==
  ASSUME NEW T \in SUBSET Tx, NodeInv(T), NEW n \in Node, NEW s \in Sender,
         NEW chain, Relayed(chain, T), s \in Node => IsRest(chain, T),
         SavePendingChain(n, s, chain),
         UNCHANGED <<local, state>>, DOMAIN request' = Node,
         \A m \in Node : request'[m] \subseteq request[m]
  PROVE  NodeInv(T)'
<1>1. TypeOK /\ Shape /\ Messages(T) /\ \A m \in Node : NodeOK(m, T)
  BY DEF NodeInv
<1>2. /\ pending' = [pending EXCEPT ![n][s] = chain]
      /\ UNCHANGED <<valid_chain, unconfirmed, corrupt, utxo, mode, candidate, todo, state>>
  BY DEF SavePendingChain, local
<1>3. TypeOK' /\ Shape'
  BY <1>1, <1>2 DEF TypeOK, Shape
<1>4. Messages(T)'
  <2>1. ASSUME NEW m \in Node, NEW p \in Sender, pending'[m][p] # <<>>
        PROVE  Relayed(pending'[m][p], T)
    <3>1. pending'[m][p] = pending[m][p] \/ pending'[m][p] = chain
      BY <1>1, <1>2 DEF Shape
    <3> QED BY <1>1, <2>1, <3>1 DEF Messages
  <2>2. ASSUME NEW m \in Node, NEW p \in Node, pending'[m][p] # <<>>
        PROVE  IsRest(pending'[m][p], T)
    <3>1. pending'[m][p] = pending[m][p] \/ (p = s /\ pending'[m][p] = chain)
      BY <1>1, <1>2 DEF Shape, Sender
    <3> QED BY <1>1, <2>2, <3>1 DEF Messages
  <2> QED BY <1>1, <1>2, <2>1, <2>2 DEF Messages
<1>5. ASSUME NEW m \in Node PROVE NodeOK(m, T)'
  BY <1>1, <1>2, NodeKept
<1> QED BY <1>3, <1>4, <1>5 DEF NodeInv

\* What the backend relays was sent by a node, cut where the requester's chain ends.
LEMMA RelayKeeps ==
  ASSUME NEW T \in SUBSET Tx, NodeInv(T), NEW n \in Node, NEW r \in request[n], Relay(n, r)
  PROVE  NodeInv(T)'
<1> DEFINE rest == Missing(state[r.from], r.headers)
<1>1. Shape /\ Messages(T)
  BY DEF NodeInv
<1>2. /\ rest # <<>> /\ SavePendingChain(n, r.from, rest) /\ UNCHANGED <<local, state>>
      /\ request' \in {[request EXCEPT ![n] = {}], [request EXCEPT ![n] = @ \ {r}]}
  BY DEF Relay
<1>3. r.from \in Node /\ GoodChain(r.headers, T) /\ (state[r.from] # <<>> => GoodChain(state[r.from], T))
  BY <1>1 DEF Messages
<1>4. Relayed(rest, T) /\ IsRest(rest, T)
  BY <1>2, <1>3, MissingIsRelayed
<1> HIDE DEF rest
<1>5. DOMAIN request' = Node /\ \A m \in Node : request'[m] \subseteq request[m]
  BY <1>1, <1>2 DEF Shape
<1>6. r.from \in Sender
  BY <1>3 DEF Sender
<1> QED BY <1>2, <1>4, <1>5, <1>6, SaveKeeps

\* Commands that send something, or begin a loop.
LEMMA TalkKeeps ==
  ASSUME NEW T \in SUBSET Tx, NodeInv(T), NEW n \in Node,
         \/ SendState(n) \/ \E kind \in {"longest", "all"} : Request(n, kind)
  PROVE  NodeInv(T)'
<1>1. TypeOK /\ Shape /\ Messages(T) /\ \A m \in Node : NodeOK(m, T)
  BY DEF NodeInv
<1>2. UNCHANGED <<valid_chain, unconfirmed, corrupt, utxo, mode, candidate, todo, pending>>
  BY DEF SendState, Request, local
<1>3. GoodChain(valid_chain[n], T)
  BY <1>1 DEF NodeOK
<1>4. TypeOK'
  BY <1>1, <1>2 DEF TypeOK
<1>5. \A m \in Node : NodeOK(m, T)'
  BY <1>1, <1>2, NodeKept
<1>6. CASE SendState(n)
  <2>1. state' = [state EXCEPT ![n] = valid_chain[n]] /\ request' = request
    BY <1>6 DEF SendState
  <2>2. Messages(T)'
    BY <1>1, <1>2, <1>3, <2>1 DEF Messages, Shape
  <2> QED BY <1>1, <1>2, <1>4, <1>5, <2>1, <2>2 DEF NodeInv, Shape
<1>7. ASSUME NEW kind \in {"longest", "all"}, Request(n, kind) PROVE NodeInv(T)'
  <2>1. /\ state' = state
        /\ request' = [request EXCEPT ![n] =
             {[from |-> m, kind |-> kind, headers |-> valid_chain[n]] : m \in Node \ {n}}]
    BY <1>7 DEF Request
  <2>2. ASSUME NEW m \in Node, NEW r \in request'[m]
        PROVE  r.from \in Node /\ GoodChain(r.headers, T)
    <3>1. CASE m = n
      BY <1>1, <1>3, <2>1, <3>1 DEF Shape
    <3>2. CASE m # n
      BY <1>1, <2>1, <3>2 DEF Shape, Messages
    <3> QED BY <3>1, <3>2
  <2>3. Messages(T)'
    BY <1>1, <1>2, <2>1, <2>2 DEF Messages
  <2> QED BY <1>1, <1>2, <1>4, <1>5, <2>1, <2>3 DEF NodeInv, Shape
<1> QED BY <1>6, <1>7

\* "validate" lists the subdirectories.
LEMMA StartValidateKeeps ==
  ASSUME NEW T \in SUBSET Tx, NodeInv(T), NEW n \in Node, StartValidate(n)
  PROVE  NodeInv(T)'
<1>1. TypeOK /\ Shape /\ Messages(T) /\ \A m \in Node : NodeOK(m, T)
  BY DEF NodeInv
<1>2. /\ mode[n] = "prompt"
      /\ todo' \in {[todo EXCEPT ![n] = dirs] : dirs \in SUBSET Sender}
      /\ mode' = [mode EXCEPT ![n] = "validating"]
      /\ UNCHANGED <<valid_chain, unconfirmed, corrupt, utxo, candidate, pending, state, request>>
  BY DEF StartValidate
<1>3. TypeOK' /\ Shape'
  BY <1>1, <1>2 DEF TypeOK, Shape
<1>5. Messages(T)'
  BY <1>1, <1>2 DEF Messages
<1>4. ASSUME NEW m \in Node PROVE NodeOK(m, T)'
  <2>1. mode'[m] = mode[m] \/ (m = n /\ mode'[m] = "validating")
    BY <1>1, <1>2 DEF TypeOK
  <2> QED BY <1>1, <1>2, <2>1 DEF NodeOK
<1> QED BY <1>3, <1>4, <1>5 DEF NodeInv

\* Every step keeps the invariant.
LEMMA NodeStep ==
  ASSUME NEW T \in SUBSET Tx, Mempool \subseteq T, \A c \in Foreign : Relayed(c, T)
  PROVE  NodeInv(T) /\ [Next]_vars => NodeInv(T)'
<1> SUFFICES ASSUME NodeInv(T), [Next]_vars PROVE NodeInv(T)'
  OBVIOUS
<1>1. CASE UNCHANGED vars
  BY <1>1 DEF vars, NodeInv, TypeOK, Shape, Messages, NodeOK
<1>2. ASSUME NEW n \in Node, Step(n) PROVE NodeInv(T)'
  <2>1. CASE UpdateCommand(n)
    BY <2>1, UpdateKeeps
  <2>2. CASE StartMine(n)
    BY <2>2, MineKeeps
  <2>3. CASE StartValidate(n)
    BY <2>3, StartValidateKeeps
  <2>4. CASE SendState(n) \/ Request(n, "longest") \/ Request(n, "all")
    BY <2>4, TalkKeeps
  <2>5. CASE ResumeMine(n)
    BY <1>1, <2>5 DEF ResumeMine
  <2>6. CASE FoundBlock(n)
    BY <2>6, FoundKeeps
  <2>7. CASE Restart(n)
    BY <2>7, RestartKeeps
  <2>8. CASE \E s \in Sender : ValidateDirectory(n, s)
    BY <2>8, ValidateKeeps
  <2>9. CASE \E r \in request[n] : Relay(n, r)
    BY <2>9, RelayKeeps
  <2>10. CASE \E s \in Peer, chain \in Foreign : RelayForeign(n, s, chain)
    <3>1. PICK s \in Peer, chain \in Foreign : RelayForeign(n, s, chain)
      BY <2>10
    <3>2. SavePendingChain(n, s, chain) /\ UNCHANGED <<local, state>> /\ request' = request
      BY <3>1 DEF RelayForeign
    <3>3. DOMAIN request' = Node /\ \A m \in Node : request'[m] \subseteq request[m]
      BY <3>2 DEF NodeInv, Shape
    <3>4. s \in Sender /\ s \notin Node /\ Relayed(chain, T)
      BY FullNodeAssumption DEF Sender
    <3> QED BY <3>2, <3>3, <3>4, SaveKeeps
  <2> QED BY <1>2, <2>1, <2>2, <2>3, <2>4, <2>5, <2>6, <2>7, <2>8, <2>9, <2>10 DEF Step, Command
<1> QED BY <1>1, <1>2 DEF Next

-----------------------------------------------------------------------------
(* Theorems                                                                  *)

\* What is assumed of foreign chains, as the invariant says it.
LEMMA ForeignIsRelayed ==
  ASSUME NEW T \in SUBSET Tx, \A c \in Foreign : \A i \in 1 .. Len(c) : c[i].transactions \in Seq(T)
  PROVE  \A c \in Foreign : Relayed(c, T)
BY ForeignAssumption DEF Relayed, Blocks, Root

\* For chains of any transactions.
LEMMA NodeInvariant == Spec => []NodeInv(Tx)
<1>1. Tx \in SUBSET Tx /\ Mempool \subseteq Tx
  BY FullNodeAssumption
<1>2. \A c \in Foreign : Relayed(c, Tx)
  BY <1>1, ForeignAssumption, ForeignIsRelayed
<1>3. Init => NodeInv(Tx)
  BY <1>1, NodeInit
<1>4. NodeInv(Tx) /\ [Next]_vars => NodeInv(Tx)'
  BY <1>1, <1>2, NodeStep
<1> QED BY <1>3, <1>4, PTL DEF Spec

\* A node's chain is never empty, it has at most one candidate, and its lists and
\* its database hold transactions and outputs.
THEOREM TypeCorrect == Spec => []TypeOK
<1>1. NodeInv(Tx) => TypeOK
  BY DEF NodeInv
<1> QED BY <1>1, NodeInvariant, PTL

\* Whatever is mined, relayed, adopted and dropped, also by senders that run another
\* program, a node's chain is linked from a block 0 on; after that block it holds
\* nothing twice and spends only what it created, once.
THEOREM ChainsStaySound == Spec => []ChainSound
<1>1. NodeInv(Tx) => ChainSound
  <2> SUFFICES ASSUME NodeInv(Tx), NEW n \in Node PROVE Sound(valid_chain[n])
    BY DEF ChainSound
  <2>1. GoodChain(valid_chain[n], Tx)
    BY DEF NodeInv, NodeOK
  <2> QED BY <2>1, GoodIsSound
<1> QED BY <1>1, NodeInvariant, PTL

\* Block 0 is the genesis block for ever, as long as no foreign chain starts with a
\* block 0.  The hypothesis is needed: verify_chain compares such a block with the
\* tip, so that one made for the tip replaces the whole chain (FullNode.py:388-397).
THEOREM GenesisStays ==
  ASSUME \A c \in Foreign : c[1].index # 0
  PROVE  Spec => [](\A n \in Node : valid_chain[n][1] = Genesis)
<1>1. Root = {Genesis}
  BY DEF Root
<1>2. NodeInv(Tx) => \A n \in Node : valid_chain[n][1] = Genesis
  BY <1>1 DEF NodeInv, NodeOK, GoodChain, Linked
<1> QED BY <1>2, NodeInvariant, PTL

\* proof_of_work may give up and be resumed at any later time: the candidate it
\* works on would still be a sound extension of the node's chain.
THEOREM CandidatesStaySound == Spec => []CandidateSound
<1>1. NodeInv(Tx) => CandidateSound
  <2> SUFFICES ASSUME NodeInv(Tx), NEW n \in Node PROVE Sound(valid_chain[n] \o candidate[n])
    BY DEF CandidateSound
  <2>1. GoodChain(valid_chain[n] \o candidate[n], Tx)
    BY DEF NodeInv, NodeOK
  <2> QED BY <2>1, GoodIsSound
<1> QED BY <1>1, NodeInvariant, PTL

\* The reload before each prompt (main.py:75-85) finds every transaction again that
\* a dropped fork held: what is in neither list could never be accepted.
THEOREM NothingIsForgotten == Spec => []NoneForgotten
<1>1. NodeInv(Tx) => NoneForgotten
  <2> SUFFICES ASSUME NodeInv(Tx), NEW n \in Node, mode[n] = "prompt",
                      NEW t \in Mempool \ unconfirmed[n], t \notin Confirmed(valid_chain[n])
               PROVE  Verdict(Unspent(valid_chain[n]), Tx, t) # "valid"
    BY DEF NoneForgotten
  <2>1. NodeOK(n, Tx) /\ t \in Tx
    BY FullNodeAssumption DEF NodeInv
  <2>2. t \in corrupt[n]
    BY <2>1 DEF NodeOK
  <2>3. ~ Fit(t)
    BY <2>1, <2>2 DEF NodeOK
  <2> QED BY <2>1, <2>3, VerdictValid
<1> QED BY <1>1, NodeInvariant, PTL

\* Each of the commands that rebuild the database.
LEMMA RebuildStepIsExact ==
  ASSUME NodeInv(Tx), NEW n \in Node, RebuildsDatabase(n)
  PROVE  utxo'[n] = Unspent(valid_chain'[n])
<1>1. /\ DOMAIN utxo = Node /\ DOMAIN valid_chain = Node /\ corrupt[n] \in SUBSET Tx
      /\ GoodChain(valid_chain[n], Tx) /\ GoodChain(valid_chain[n] \o candidate[n], Tx)
  BY DEF NodeInv, NodeOK, TypeOK, Shape
<1>2. CASE UpdateCommand(n) \/ StartMine(n)
  <2> DEFINE c == valid_chain[n]
  <2>1. /\ utxo' = [utxo EXCEPT ![n] = UpdateUTXO(c, Known(c, unconfirmed[n]), corrupt[n]).db]
        /\ valid_chain' = valid_chain
    BY <1>2 DEF UpdateCommand, StartMine
  <2>2. UpdateUTXO(c, Known(c, unconfirmed[n]), corrupt[n]).db = Unspent(c)
    BY <1>1, NodeRebuilds
  <2>3. utxo' = [utxo EXCEPT ![n] = Unspent(c)]
    BY <2>1, <2>2
  <2> QED BY <1>1, <2>1, <2>3
<1>3. CASE FoundBlock(n)
  <2> DEFINE c == valid_chain[n] \o candidate[n]
  <2>1. /\ utxo' = [utxo EXCEPT ![n] = UpdateUTXO(c, Known(c, unconfirmed[n]), corrupt[n]).db]
        /\ valid_chain' = [valid_chain EXCEPT ![n] = c]
    BY <1>3 DEF FoundBlock
  <2>2. UpdateUTXO(c, Known(c, unconfirmed[n]), corrupt[n]).db = Unspent(c)
    BY <1>1, NodeRebuilds
  <2>3. utxo' = [utxo EXCEPT ![n] = Unspent(c)]
    BY <2>1, <2>2
  <2> HIDE DEF c
  <2> QED BY <1>1, <2>1, <2>3
<1> QED BY <1>2, <1>3 DEF RebuildsDatabase

\* No other step touches a node's database, but the stop that empties it.
LEMMA OthersLeaveUtxo ==
  ASSUME NodeInv(Tx), [Next]_vars, NEW m \in Node, ~ RebuildsDatabase(m)
  PROVE  utxo'[m] = IF Restart(m) THEN {} ELSE utxo[m]
<1>1. DOMAIN utxo = Node
  BY DEF NodeInv, TypeOK
<1>2. CASE Restart(m)
  <2>1. utxo'[m] = {}
    BY <1>1, <1>2 DEF Restart
  <2> QED BY <1>2, <2>1
<1>3. CASE ~ Restart(m)
  <2> SUFFICES utxo'[m] = utxo[m]
    BY <1>3
  <2>1. CASE UNCHANGED vars
    BY <2>1 DEF vars
  <2>2. ASSUME NEW n \in Node, Step(n) PROVE utxo'[m] = utxo[m]
    <3>1. CASE UpdateCommand(n) \/ StartMine(n) \/ FoundBlock(n) \/ Restart(n)
      <4>1. n # m
        BY <1>3, <3>1 DEF RebuildsDatabase
      <4>2. \E db : utxo' = [utxo EXCEPT ![n] = db]
        BY <3>1 DEF UpdateCommand, StartMine, FoundBlock, Restart
      <4> QED BY <1>1, <4>1, <4>2
    <3>2. CASE \/ StartValidate(n) \/ SendState(n) \/ Request(n, "longest") \/ Request(n, "all")
               \/ ResumeMine(n)
               \/ \E s \in Sender : ValidateDirectory(n, s)
               \/ \E r \in request[n] : Relay(n, r)
               \/ \E s \in Peer, chain \in Foreign : RelayForeign(n, s, chain)
      <4>1. utxo' = utxo
        BY <3>2 DEF StartValidate, SendState, Request, ResumeMine, ValidateDirectory, Relay,
                    RelayForeign, local, vars
      <4> QED BY <4>1
    <3> QED BY <2>2, <3>1, <3>2 DEF Step, Command
  <2> QED BY <2>1, <2>2 DEF Next
<1> QED BY <1>2, <1>3

\* update_UTXO ignores its verdicts, yet each command that calls it leaves in
\* UTXO_Database exactly what the chain leaves unspent; a stop empties the database,
\* and no other step changes it, validation included.
THEOREM RebuildsAreExact == Spec => UtxoFollowsChain
<1>1. NodeInv(Tx) /\ [Next]_vars =>
        \A n \in Node :
           IF RebuildsDatabase(n) THEN utxo'[n] = Unspent(valid_chain'[n])
           ELSE utxo'[n] = IF Restart(n) THEN {} ELSE utxo[n]
  <2> SUFFICES ASSUME NodeInv(Tx), [Next]_vars, NEW n \in Node
               PROVE  IF RebuildsDatabase(n) THEN utxo'[n] = Unspent(valid_chain'[n])
                      ELSE utxo'[n] = IF Restart(n) THEN {} ELSE utxo[n]
    OBVIOUS
  <2>1. RebuildsDatabase(n) => utxo'[n] = Unspent(valid_chain'[n])
    BY RebuildStepIsExact
  <2>2. ~ RebuildsDatabase(n) => utxo'[n] = IF Restart(n) THEN {} ELSE utxo[n]
    BY OthersLeaveUtxo
  <2> QED BY <2>1, <2>2
<1> QED BY <1>1, NodeInvariant, PTL DEF Spec, UtxoFollowsChain

\* The rest of a good chain, offered to a node that knows its transactions.
LEMMA RestIsAcceptable ==
  ASSUME NEW T \in SUBSET Tx, NEW c, GoodChain(c, T), NEW v, GoodChain(v, T),
         NEW k \in 1 .. Len(c), k <= Len(v), \A j \in 1 .. k : c[j] = v[j],
         NEW new, new = After(c, k), new # <<>>,
         NEW known, Elements(TxsOf(c)) \subseteq known
  PROVE  Acceptable(v, new, known)
<1>1. k \in 0 .. Len(c)
  OBVIOUS
<1>3. /\ Len(c) \in Nat /\ Len(v) \in Nat /\ Blocks(c, T) /\ Blocks(v, T) /\ TxsOf(c) \in Seq(Tx)
      /\ \A i \in 1 .. Len(c) : c[i].index = i - 1
  BY ChainFacts
<1>2. /\ Relayed(new, T) /\ Len(new) = Len(c) - k /\ Len(new) \in Nat \ {0}
      /\ \A i \in 1 .. Len(new) : new[i] = c[k + i]
      /\ new[1].index = k
  <2>1. Relayed(new, T) /\ Follow(new, c, k)
    BY <1>1, RestBlocks
  <2> QED BY <2>1 DEF Follow
<1>4. ~ StartsBeyond(v, new)
  BY <1>1, <1>2, <1>3 DEF StartsBeyond
<1>5. LastBlock(v, new) = c[k]
  <2>1. k # 0 /\ k \in 1 .. k
    BY <1>3
  <2>2. LastBlock(v, new) = v[k]
    BY <1>2, <2>1 DEF LastBlock
  <2> QED BY <1>1, <2>1, <2>2
<1>6. LinksOK(new, Hash(c[k]))
  <2> SUFFICES ASSUME NEW i \in 1 .. Len(new)
               PROVE  /\ new[i].index = new[1].index + i - 1
                      /\ new[i].previous_hash = IF i = 1 THEN Hash(c[k]) ELSE Hash(new[i - 1])
                      /\ new[i].pow
    BY DEF LinksOK
  <2>1. k + i \in 2 .. Len(c) /\ new[i] = c[k + i]
    BY <1>2, <1>3
  <2>2. new[i].index = k + i - 1 /\ new[i].previous_hash = Hash(c[k + i - 1]) /\ new[i].pow
    BY <2>1 DEF GoodChain, Linked
  <2>3. i # 1 => new[i - 1] = c[k + i - 1]
    <3>1. i # 1 => i - 1 \in 1 .. Len(new) /\ k + (i - 1) = k + i - 1
      BY <1>2
    <3> QED BY <1>2, <3>1
  <2>4. i = 1 => k + i - 1 = k
    OBVIOUS
  <2> QED BY <1>2, <2>2, <2>3, <2>4
<1>7. CurrentLongest(v, new) = c
  <2> DEFINE d == CurrentLongest(v, new)
             m == new[1].index
  <2>0. m = k /\ m <= Len(v) /\ Relayed(new, T) /\ Blocks(v, T)
    BY <1>1, <1>2, <1>3
  <2>1. /\ Blocks(d, T) /\ Len(d) = m + Len(new)
        /\ \A i \in 1 .. m : d[i] = v[i]
        /\ \A i \in 1 .. Len(new) : d[m + i] = new[i]
    BY <2>0, LongestBlocks
  <2> HIDE DEF d, m
  <2>2. d \in Seq(ToSet(d)) /\ c \in Seq(ToSet(c)) /\ Len(d) = Len(c)
    BY <1>2, <1>3, <2>0, <2>1 DEF Blocks
  <2>3. ASSUME NEW i \in 1 .. Len(c) PROVE d[i] = c[i]
    <3>1. CASE i <= k
      BY <1>1, <2>0, <2>1, <3>1
    <3>2. CASE i > k
      <4>1. i - k \in 1 .. Len(new) /\ k + (i - k) = i
        BY <1>2, <1>3, <3>2
      <4>2. d[k + (i - k)] = new[i - k]
        BY <2>0, <2>1, <4>1
      <4>3. new[i - k] = c[k + (i - k)]
        BY <1>2, <4>1
      <4> QED BY <4>1, <4>2, <4>3
    <3> QED BY <3>1, <3>2
  <2> QED BY <2>2, <2>3, SeqEqual DEF d
<1>8. ReplayOK(c, known)
  BY <1>3, GoodReplays DEF GoodChain
<1> QED BY <1>4, <1>5, <1>6, <1>7, <1>8 DEF Acceptable, VerifyChain

\* A block names its whole past: two good chains with one block in common are the
\* same up to it.
LEMMA SamePast ==
  ASSUME NEW T \in SUBSET Tx, NEW c, GoodChain(c, T), NEW v, GoodChain(v, T),
         NEW k \in 1 .. Len(c), k <= Len(v), c[k] = v[k]
  PROVE  \A j \in 1 .. k : c[j] = v[j]
<1>1. /\ k - 1 \in Nat /\ Len(c) \in Nat /\ Len(v) \in Nat
      /\ \A i \in 2 .. k : /\ c[i].previous_hash = Hash(c[i - 1])
                           /\ v[i].previous_hash = Hash(v[i - 1])
  BY ChainFacts DEF GoodChain, Linked
<1> DEFINE P == {i \in 0 .. k - 1 : c[k - i] = v[k - i]}
<1>2. 0 \in P
  <2>1. k - 0 = k /\ 0 \in 0 .. k - 1
    BY <1>1
  <2> QED BY <2>1
<1>3. ASSUME NEW i \in 1 .. k - 1, i - 1 \in P PROVE i \in P
  <2>1. /\ k - (i - 1) \in 2 .. k /\ (k - (i - 1)) - 1 = k - i /\ i \in 0 .. k - 1
        /\ c[k - (i - 1)] = v[k - (i - 1)]
    BY <1>1, <1>3
  <2>2. Hash(c[k - i]) = Hash(v[k - i])
    BY <1>1, <2>1
  <2>3. c[k - i] = v[k - i]
    BY <2>2 DEF Hash
  <2> QED BY <2>1, <2>3
<1> HIDE DEF P
<1>4. \A i \in 0 .. k - 1 : i \in P
  BY <1>1, <1>2, <1>3, Induction
<1>5. ASSUME NEW j \in 1 .. k PROVE c[j] = v[j]
  <2>1. k - j \in 0 .. k - 1 /\ k - (k - j) = j
    BY <1>1
  <2> QED BY <1>4, <2>1 DEF P
<1> QED BY <1>5

\* What every node knows of covers what any chain holds.
MempoolOnly == \A c \in Foreign : \A i \in 1 .. Len(c) : c[i].transactions \in Seq(Mempool)

\* verify_chain never refuses a longer chain a correct node built, nor an answer it
\* asked for earlier that still extends its chain, whatever the node has confirmed,
\* waits for or gave up.  What foreign chains hold must be in the mempool, for a
\* parent that a node knows nowhere makes it refuse the child; and none may replace
\* the genesis block, for chains with different blocks 0 have nothing in common.
THEOREM ForksAreAcceptable ==
  ASSUME MempoolOnly, \A c \in Foreign : c[1].index # 0
  PROVE  Spec => []ChainsAreAcceptable
<1>1. Mempool \in SUBSET Tx /\ Mempool \subseteq Mempool
  BY FullNodeAssumption
<1>2. \A c \in Foreign : Relayed(c, Mempool)
  BY <1>1, ForeignIsRelayed DEF MempoolOnly
<1>3. Init => NodeInv(Mempool)
  BY <1>1, NodeInit
<1>4. NodeInv(Mempool) /\ [Next]_vars => NodeInv(Mempool)'
  BY <1>1, <1>2, NodeStep
<1>5. ASSUME NodeInv(Mempool), NEW m \in Node, mode[m] = "prompt",
             NEW c, GoodChain(c, Mempool)
      PROVE  Elements(TxsOf(c)) \subseteq Known(valid_chain[m], unconfirmed[m])
  <2>1. /\ unconfirmed[m] = Mempool \ (Confirmed(valid_chain[m]) \cup corrupt[m])
        /\ \A t \in corrupt[m] : ~ Fit(t)
    BY <1>5 DEF NodeInv, NodeOK
  <2>2. Ids(c) \subseteq Mempool /\ Ids(c) = Elements(TxsOf(c))
    BY <1>1, <1>5, ChainFacts
  <2>3. \A t \in Elements(TxsOf(c)) : Fit(t)
    BY <1>5 DEF GoodChain, Good, Follows, Elements
  <2> QED BY <2>1, <2>2, <2>3 DEF Known
<1>6. ASSUME NEW c, GoodChain(c, Mempool), NEW v, GoodChain(v, Mempool),
             c[1] = v[1], Len(c) > Len(v),
             NEW known, Elements(TxsOf(c)) \subseteq known
      PROVE  Acceptable(v, Missing(c, v), known)
  <2>1. PICK k \in 0 .. Len(c) : /\ k <= Len(v) /\ \A j \in 1 .. k : c[j] = v[j]
                                 /\ c[1] = v[1] => k # 0
                                 /\ Missing(c, v) = After(c, k)
    BY <1>1, <1>6, SharedPrefix
  <2>2. Len(c) \in Nat /\ Len(v) \in Nat /\ Blocks(c, Mempool)
    BY <1>1, <1>6, ChainFacts DEF GoodChain
  <2>3. k \in 1 .. Len(c) /\ k + 1 <= Len(c)
    BY <1>6, <2>1, <2>2
  <2>4. After(c, k) # <<>>
    BY <2>2, <2>3, AfterIsLonger DEF Blocks
  <2> QED BY <1>1, <1>6, <2>1, <2>3, <2>4, RestIsAcceptable
<1>7. ASSUME NEW c, GoodChain(c, Mempool), NEW v, GoodChain(v, Mempool),
             NEW k \in 1 .. Len(c), k <= Len(v), c[k] = v[k]
      PROVE  \A j \in 1 .. k : c[j] = v[j]
  BY <1>1, <1>7, SamePast
<1>8. NodeInv(Mempool) => ChainsAreAcceptable
  <2> SUFFICES ASSUME NodeInv(Mempool), NEW n \in Node, NEW m \in Node, mode[m] = "prompt",
                      NEW v, v = valid_chain[m], NEW known, known = Known(v, unconfirmed[m])
               PROVE  /\ Len(valid_chain[n]) > Len(v) =>
                           Acceptable(v, Missing(valid_chain[n], v), known)
                      /\ Extends(v, pending[m][n]) => Acceptable(v, pending[m][n], known)
    BY DEF ChainsAreAcceptable
  <2>1. GoodChain(v, Mempool) /\ Len(v) \in Nat
    BY <1>1, ChainFacts DEF NodeInv, NodeOK
  <2>2. ASSUME Len(valid_chain[n]) > Len(v)
        PROVE  Acceptable(v, Missing(valid_chain[n], v), known)
    <3>1. PICK c : c = valid_chain[n] /\ GoodChain(c, Mempool)
      BY DEF NodeInv, NodeOK
    <3>2. c[1] = v[1]
      <4>1. Root = {Genesis}
        BY DEF Root
      <4> QED BY <1>1, <2>1, <3>1, <4>1, ChainFacts
    <3>3. Elements(TxsOf(c)) \subseteq known
      BY <1>5, <3>1
    <3>4. GoodChain(c, Mempool) /\ GoodChain(v, Mempool) /\ Len(c) > Len(v)
      BY <2>1, <2>2, <3>1
    <3>5. Acceptable(v, Missing(c, v), known)
      BY <1>6, <3>2, <3>3, <3>4
    <3> QED BY <3>1, <3>5
  <2>3. ASSUME Extends(v, pending[m][n])
        PROVE  Acceptable(v, pending[m][n], known)
    <3> DEFINE new == pending[m][n]
    <3>1. /\ new # <<>> /\ new[1].index \in 1 .. Len(v)
          /\ new[1].previous_hash = Hash(v[new[1].index])
      BY <2>3 DEF Extends
    <3>2. PICK c : GoodChain(c, Mempool) /\ \E k \in 0 .. Len(c) : new = After(c, k)
      BY <3>1 DEF NodeInv, Messages, IsRest
    <3>3. PICK k \in 0 .. Len(c) : new = After(c, k)
      BY <3>2
    <3> HIDE DEF new
    <3>4. Len(c) \in Nat /\ Follow(new, c, k)
      BY <1>1, <3>1, <3>2, <3>3, ChainFacts, RestBlocks
    <3>5. /\ k \in 1 .. Len(c) /\ k <= Len(v) /\ k + 1 \in 2 .. Len(c) /\ new[1] = c[k + 1]
          /\ new[1].index = k
      BY <2>1, <3>1, <3>3, <3>4 DEF Follow
    <3>6. new[1].previous_hash = Hash(c[k])
      <4>1. (k + 1) - 1 = k
        BY <3>5
      <4> QED BY <3>2, <3>5, <4>1 DEF GoodChain, Linked
    <3>7. c[k] = v[k]
      BY <3>1, <3>5, <3>6 DEF Hash
    <3>8. \A j \in 1 .. k : c[j] = v[j]
      <4>1. GoodChain(c, Mempool) /\ GoodChain(v, Mempool) /\ k \in 1 .. Len(c) /\ k <= Len(v)
        BY <2>1, <3>2, <3>5
      <4> QED BY <1>7, <3>7, <4>1
    <3>9. Elements(TxsOf(c)) \subseteq known
      BY <1>5, <3>2
    <3>10. Acceptable(v, new, known)
      BY <1>1, <2>1, <3>1, <3>2, <3>3, <3>5, <3>8, <3>9, RestIsAcceptable
    <3> QED BY <3>10 DEF new
  <2> QED BY <2>2, <2>3
<1> QED BY <1>3, <1>4, <1>8, PTL DEF Spec
=============================================================================
