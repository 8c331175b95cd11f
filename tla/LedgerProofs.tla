---------------------------- MODULE LedgerProofs ----------------------------
(***************************************************************************)
(* Proofs about Ledger, for every set of transactions.  The argument: an   *)
(* accepted transaction finds all its inputs live (ValidSpendsLive), what  *)
(* is live was created and not spent (UtxoExact), and what is spent was    *)
(* created, so outputs of a new transaction cannot have been spent before. *)
(***************************************************************************)
EXTENDS Ledger, RecursionProofs, FunctionTheorems

\* The smallest bad input is one of the bad inputs.
LEMMA MinIsMember ==
  ASSUME NEW S, S \subseteq Nat, S # {}
  PROVE  Min(S) \in S /\ \A y \in S : Min(S) <= y
<1>1. PICK x \in S : \A y \in S : x <= y
  BY LeastNatural
<1>. QED  BY <1>1 DEF Min

\* A transaction found valid spends live outputs only.
LEMMA ValidSpendsLive ==
  ASSUME NEW db, NEW K, NEW t \in Tx, Verdict(db, K, t) = "valid"
  PROVE  Spends(t) \subseteq db
<1>1. CASE t \in COINBASE  BY <1>1 DEF Spends
<1>2. CASE t \notin COINBASE
  <2>. DEFINE bad == {k \in 1 .. Len(inputs[t]) : InputVerdict(db, K, t, k) # "valid"}
  <2>1. Len(inputs[t]) \in Nat  BY TxAssumption
  <2>2. bad = {}
    <3>. SUFFICES ASSUME bad # {} PROVE FALSE  OBVIOUS
    <3>1. Min(bad) \in bad
      <4>1. bad \subseteq Nat  BY <2>1
      <4>. QED  BY <4>1, MinIsMember
    <3>2. InputVerdict(db, K, t, Min(bad)) = "valid"  BY <1>2 DEF Verdict
    <3>. QED  BY <3>1, <3>2
  <2>3. ASSUME NEW k \in 1 .. Len(inputs[t])  PROVE Ref(t, k) \in db
    BY <2>2, <2>3 DEF InputVerdict
  <2>. QED  BY <1>2, <2>3 DEF Spends
<1>. QED  BY <1>1, <1>2

LEMMA OutputsAreOutpoints ==
  ASSUME NEW t \in Tx  PROVE OutputsOf(t) \subseteq Outpoint
BY TxAssumption DEF OutputsOf, Outpoint

LEMMA OutputsDisjoint ==
  ASSUME NEW t \in Tx, NEW u \in Tx, t # u
  PROVE  OutputsOf(t) \cap OutputsOf(u) = {}
BY DEF OutputsOf

-----------------------------------------------------------------------------
(* Type correctness                                                         *)

LEMMA TypeInit == Init => TypeOK
BY LedgerAssumption DEF Init, TypeOK

LEMMA TypeVerify ==
  ASSUME TypeOK, NEW t \in Tx, VerifyTransaction(t)
  PROVE  TypeOK'
<1>. USE DEF TypeOK, VerifyTransaction
<1>1. pending' \subseteq Outpoint  BY OutputsAreOutpoints DEF Apply
<1>2. corrupt' \subseteq Tx /\ known' \subseteq Tx  OBVIOUS
<1>3. applied' \subseteq Tx  OBVIOUS
<1>. QED  BY <1>1, <1>2, <1>3

LEMMA TypeNext == TypeOK /\ [Next]_vars => TypeOK'
<1>. SUFFICES ASSUME TypeOK, [Next]_vars PROVE TypeOK'  OBVIOUS
<1>1. CASE Reset  BY <1>1, LedgerAssumption DEF Reset, TypeOK
<1>2. CASE \E t \in Tx : Replay(t)  BY <1>2, TypeVerify DEF Replay
<1>3. CASE UNCHANGED vars  BY <1>3 DEF vars, TypeOK
<1>. QED  BY <1>1, <1>2, <1>3 DEF Next

\* Whatever is accepted and refused, the ledger keeps its types.
THEOREM TypeCorrect == Spec => []TypeOK
BY TypeInit, TypeNext, PTL DEF Spec

-----------------------------------------------------------------------------
(* The inductive invariant                                                  *)

LedgerInv == TypeOK /\ UtxoExact /\ NoDoubleSpend /\ SpentWasCreated

LEMMA LedgerInit == Init => LedgerInv
<1>. SUFFICES ASSUME Init PROVE LedgerInv  OBVIOUS
<1>1. applied = {}  BY DEF Init
<1>. QED
  BY <1>1, TypeInit
  DEF Init, LedgerInv, UtxoExact, NoDoubleSpend, SpentWasCreated, Created, Spent

LEMMA LedgerReset == Reset /\ LedgerInv => LedgerInv'
<1>. SUFFICES ASSUME Reset, LedgerInv PROVE LedgerInv'  OBVIOUS
<1>1. applied' = {}  BY DEF Reset
<1>2. TypeOK'  BY LedgerAssumption DEF Reset, LedgerInv, TypeOK
<1>. QED
  BY <1>1, <1>2
  DEF Reset, LedgerInv, UtxoExact, NoDoubleSpend, SpentWasCreated, Created, Spent

\* An accepted transaction: the database moves from its inputs to its outputs.
LEMMA LedgerAccept ==
  ASSUME LedgerInv, NEW t \in Tx, Replay(t), Verdict(pending, known, t) = "valid"
  PROVE  LedgerInv'
<1>1. TypeOK'  BY TypeVerify DEF Replay, LedgerInv
<1>2. applied' = applied \cup {t} /\ t \notin applied
  BY DEF Replay, VerifyTransaction, LedgerInv, TypeOK
<1>3. pending' = Apply(pending, t)  BY DEF Replay, VerifyTransaction
<1>4. Spends(t) \subseteq pending  BY ValidSpendsLive
<1>5. Created' = Created \cup OutputsOf(t) /\ Spent' = Spent \cup Spends(t)
  BY <1>2 DEF Created, Spent
<1>6. OutputsOf(t) \cap Created = {}
  <2>1. \A u \in applied : u \in Tx /\ u # t  BY <1>2 DEF LedgerInv, TypeOK
  <2>2. \A u \in applied : OutputsOf(u) \cap OutputsOf(t) = {}  BY <2>1, OutputsDisjoint
  <2>. QED  BY <2>2 DEF Created
<1>7. Spends(t) \cap Spent = {}  BY <1>4 DEF LedgerInv, UtxoExact
<1>8. Spends(t) \subseteq Created  BY <1>4 DEF LedgerInv, UtxoExact
<1>9. UtxoExact'
  BY <1>3, <1>5, <1>6, <1>8 DEF LedgerInv, UtxoExact, SpentWasCreated, Apply
<1>10. NoDoubleSpend'
  <2>1. \A u \in applied : Spends(u) \cap Spends(t) = {}  BY <1>7 DEF Spent
  <2>. QED  BY <1>2, <2>1 DEF LedgerInv, NoDoubleSpend
<1>11. SpentWasCreated'  BY <1>5, <1>8 DEF LedgerInv, SpentWasCreated
<1>. QED  BY <1>1, <1>9, <1>10, <1>11 DEF LedgerInv

\* A refused one leaves the database and the history alone.
LEMMA LedgerRefuse ==
  ASSUME LedgerInv, NEW t \in Tx, Replay(t), Verdict(pending, known, t) # "valid"
  PROVE  LedgerInv'
<1>1. pending' = pending /\ applied' = applied  BY DEF Replay, VerifyTransaction
<1>2. TypeOK'  BY TypeVerify DEF Replay, LedgerInv
<1>. QED
  BY <1>1, <1>2
  DEF LedgerInv, UtxoExact, NoDoubleSpend, SpentWasCreated, Created, Spent

LEMMA LedgerStep == LedgerInv /\ [Next]_vars => LedgerInv'
<1>. SUFFICES ASSUME LedgerInv, [Next]_vars PROVE LedgerInv'  OBVIOUS
<1>1. CASE Reset  BY <1>1, LedgerReset
<1>2. CASE \E t \in Tx : Replay(t)  BY <1>2, LedgerAccept, LedgerRefuse
<1>3. CASE UNCHANGED vars
  BY <1>3
  DEF vars, LedgerInv, TypeOK, UtxoExact, NoDoubleSpend, SpentWasCreated,
      Created, Spent
<1>. QED  BY <1>1, <1>2, <1>3 DEF Next

LEMMA LedgerInvariant == Spec => []LedgerInv
BY LedgerInit, LedgerStep, PTL DEF Spec

\* The UTXO database is what the accepted transactions created and did not
\* spend: no coin is lost or revived by rejections in between.
THEOREM UtxoIsExact == Spec => []UtxoExact
<1>1. LedgerInv => UtxoExact  BY DEF LedgerInv
<1>. QED  BY <1>1, LedgerInvariant, PTL

\* No output is spent twice by the transactions accepted since a reset.
THEOREM NeverDoubleSpent == Spec => []NoDoubleSpend
<1>1. LedgerInv => NoDoubleSpend  BY DEF LedgerInv
<1>. QED  BY <1>1, LedgerInvariant, PTL

\* Every coin spent was created by an accepted transaction.
THEOREM SpentCoinsExist == Spec => []SpentWasCreated
<1>1. LedgerInv => SpentWasCreated  BY DEF LedgerInv
<1>. QED  BY <1>1, LedgerInvariant, PTL

-----------------------------------------------------------------------------
(* Value.  All outputs there can be form one finite set, and the value of a   *)
(* part of it is one sum, whichever order the fold takes the outputs in.      *)

AllOutputs == UNION {OutputsOf(t) : t \in Tx}

\* The value of every output.
Worth == [o \in AllOutputs |-> ValueOf(o)]

LEMMA AllOutputsFinite == IsFiniteSet(AllOutputs)
<1>. DEFINE parts == {OutputsOf(t) : t \in Tx}
           f == [t \in Tx |-> OutputsOf(t)]
<1>1. f \in Surjection(Tx, parts)  BY DEF Surjection
<1>2. IsFiniteSet(parts)
  <2>1. IsFiniteSet(Tx)  BY TxAssumption
  <2>. HIDE DEF f, parts
  <2>. QED  BY <1>1, <2>1, FS_Surjection
<1>3. ASSUME NEW t \in Tx  PROVE IsFiniteSet(OutputsOf(t))
  <2>1. 1 \in Int /\ Len(outputs[t]) \in Int  BY TxAssumption
  <2>2. IsFiniteSet({t})  BY FS_Singleton
  <2>3. IsFiniteSet(1 .. Len(outputs[t]))  BY <2>1, FS_Interval
  <2>. QED  BY <2>2, <2>3, FS_Product DEF OutputsOf
<1>. QED  BY <1>2, <1>3, FS_UNION DEF AllOutputs

LEMMA WorthType == Worth \in [AllOutputs -> Int]
<1>. SUFFICES ASSUME NEW t \in Tx, NEW o \in OutputsOf(t) PROVE ValueOf(o) \in Int
  BY DEF AllOutputs, Worth
<1>1. o[1] = t /\ o[2] \in 1 .. Len(outputs[t])  BY DEF OutputsOf
<1>2. outputs[t] \in Seq(Output)  BY TxAssumption
<1>3. outputs[t][o[2]] \in Output  BY <1>1, <1>2
<1>. QED  BY <1>1, <1>3 DEF ValueOf, Output

\* TotalValue is the sum of a part of the outputs.
LEMMA TotalValueIsSum ==
  ASSUME NEW g, Sums(g, Worth, AllOutputs), NEW A \in SUBSET AllOutputs
  PROVE  TotalValue(A) = g[A]
<1>. DEFINE Is(h) == h = [s \in SUBSET A |->
                           IF s = {} THEN 0 ELSE ValueOf(Pick(s)) + h[s \ {Pick(s)}]]
           iter == CHOOSE h : Is(h)
           part == [s \in SUBSET A |-> g[s]]
           P == {s \in SUBSET A : iter[s] = g[s]}
<1>1. \A s \in SUBSET A : s # {} => Pick(s) \in s  BY DEF Pick
<1>2. \A s \in SUBSET A :
        g[s] = IF s = {} THEN 0 ELSE ValueOf(Pick(s)) + g[s \ {Pick(s)}]
  <2>. SUFFICES ASSUME NEW s \in SUBSET A
                PROVE  g[s] = IF s = {} THEN 0 ELSE ValueOf(Pick(s)) + g[s \ {Pick(s)}]
    OBVIOUS
  <2>1. g[s] = IF s = {} THEN 0 ELSE Worth[Pick(s)] + g[s \ {Pick(s)}]
    <3>1. s \in SUBSET AllOutputs  OBVIOUS
    <3>. QED  BY <3>1 DEF Sums
  <2>2. s # {} => Worth[Pick(s)] = ValueOf(Pick(s))  BY <1>1 DEF Worth
  <2>. QED  BY <2>1, <2>2
<1>3. Is(part)
  <2>1. \A s \in SUBSET A : s \ {Pick(s)} \in SUBSET A  OBVIOUS
  <2>2. \A s \in SUBSET A :
          part[s] = IF s = {} THEN 0 ELSE ValueOf(Pick(s)) + part[s \ {Pick(s)}]
    BY <1>2, <2>1
  <2>. QED  BY <2>2
<1>4. Is(iter)  BY <1>3
<1>5. TotalValue(A) = iter[A]
  BY DEF TotalValue, MapThenSumSet, MapThenFoldSet, Pick
<1>. HIDE DEF iter, part
<1>6. \A s \in SUBSET A :
        iter[s] = IF s = {} THEN 0 ELSE ValueOf(Pick(s)) + iter[s \ {Pick(s)}]
  BY <1>4
<1>7. {} \in P  BY <1>2, <1>6
<1>8. \A s \in SUBSET A : s # {} /\ s \ {Pick(s)} \in P => s \in P  BY <1>2, <1>6
<1>9. IsFiniteSet(A)  BY AllOutputsFinite, FS_Subset
<1>. HIDE DEF P
<1>10. \A s \in SUBSET A : s \in P  BY <1>7, <1>8, <1>9, SubsetInduction
<1>. QED  BY <1>5, <1>10 DEF P

\* Nothing is worth nothing.
LEMMA NoValue == TotalValue({}) = 0
<1>1. PICK g : Sums(g, Worth, AllOutputs)  BY AllOutputsFinite, WorthType, SumExists
<1>2. {} \in SUBSET AllOutputs  OBVIOUS
<1>3. g[{}] = 0  BY <1>1, <1>2 DEF Sums
<1>. QED  BY <1>1, <1>2, <1>3, TotalValueIsSum

\* A valid transaction consumes what it spends, creates its outputs, and is paid
\* for by the one or, when it is a coinbase, by the cap.
LEMMA ValueMoves ==
  ASSUME NEW db \in SUBSET AllOutputs, NEW K, NEW t \in Tx, Verdict(db, K, t) = "valid",
         OutputsOf(t) \cap db = {}
  PROVE  /\ TotalValue(db) \in Int /\ TotalValue(Apply(db, t)) \in Int
         /\ TotalValue(Apply(db, t))
              <= TotalValue(db) + (IF t \in COINBASE THEN CoinbaseCap ELSE 0)
<1>1. PICK g : Sums(g, Worth, AllOutputs)  BY AllOutputsFinite, WorthType, SumExists
<1>2. \A s \in SUBSET AllOutputs : TotalValue(s) = g[s] /\ g[s] \in Int
  BY <1>1, TotalValueIsSum, SumsType, AllOutputsFinite, WorthType
<1>. DEFINE kept == db \ Spends(t)
           used == Spends(t)
           made == OutputsOf(t)
<1>3. used \subseteq db  BY ValidSpendsLive
<1>4. made \in SUBSET AllOutputs  BY DEF AllOutputs
<1>5. db = kept \cup used /\ kept \cap used = {} /\ Apply(db, t) = kept \cup made
      /\ kept \cap made = {} /\ used \in SUBSET AllOutputs /\ kept \in SUBSET AllOutputs
      /\ Apply(db, t) \in SUBSET AllOutputs
  BY <1>3, <1>4 DEF Apply
<1>6. TotalValue(made) <= TotalValue(used) + (IF t \in COINBASE THEN CoinbaseCap ELSE 0)
  <2>1. TotalValue(made) \in Int /\ TotalValue(used) \in Int /\ CoinbaseCap \in Nat
    BY <1>2, <1>4, <1>5, TxAssumption
  <2>2. CASE t \in COINBASE
    <3>1. TotalValue(made) <= CoinbaseCap
      <4>1. ~ (TotalValue(made) > CoinbaseCap)  BY <2>2 DEF Verdict
      <4>. HIDE DEF made, used
      <4>. QED  BY <2>1, <4>1
    <3>2. used = {}  BY <2>2 DEF Spends
    <3>3. TotalValue(used) = 0  BY <3>2, NoValue
    <3>. HIDE DEF made, used
    <3>. QED  BY <2>1, <2>2, <3>1, <3>3
  <2>3. CASE t \notin COINBASE
    <3>1. ~ Overspends(t)
      <4>. DEFINE bad == {k \in 1 .. Len(inputs[t]) : InputVerdict(db, K, t, k) # "valid"}
      <4>1. CASE bad = {}  BY <2>3, <4>1 DEF Verdict
      <4>2. CASE bad # {}
        <5>1. bad \subseteq Nat  BY TxAssumption
        <5>2. Min(bad) \in bad  BY <4>2, <5>1, MinIsMember
        <5>. QED  BY <2>3, <4>2, <5>2 DEF Verdict
      <4>. QED  BY <4>1, <4>2
    <3>2. ~ (TotalValue(used) < TotalValue(made))  BY <3>1 DEF Overspends
    <3>. HIDE DEF made, used
    <3>. QED  BY <2>1, <2>3, <3>2
  <2>. QED  BY <2>2, <2>3
<1>. HIDE DEF kept, used, made
<1>7. g[db] = g[kept] + g[used] /\ g[kept \cup made] = g[kept] + g[made]
  BY <1>1, <1>4, <1>5, SumsUnion, AllOutputsFinite, WorthType
<1>. DEFINE all == kept \cup made
           extra == IF t \in COINBASE THEN CoinbaseCap ELSE 0
<1>8. g[db] \in Int /\ g[kept] \in Int /\ g[used] \in Int /\ g[made] \in Int
      /\ extra \in Int
  BY <1>2, <1>4, <1>5, TxAssumption
<1>9. g[made] <= g[used] + extra  BY <1>2, <1>4, <1>5, <1>6
<1>. HIDE DEF extra, all
<1>10. g[kept] + g[made] <= (g[kept] + g[used]) + extra  BY <1>8, <1>9
<1>11. g[all] = g[kept] + g[made]  BY <1>7 DEF all
<1>12. g[all] <= g[db] + extra  BY <1>7, <1>10, <1>11
<1>13. Apply(db, t) = all /\ TotalValue(db) = g[db] /\ TotalValue(all) = g[all]
       /\ g[all] \in Int
  BY <1>2, <1>5 DEF all
<1>14. TotalValue(all) <= TotalValue(db) + extra  BY <1>12, <1>13
<1>. QED  BY <1>8, <1>13, <1>14 DEF extra

SupplyInv == LedgerInv /\ SupplyBacked

LEMMA PendingIsOutputs == LedgerInv => pending \in SUBSET AllOutputs
BY DEF LedgerInv, TypeOK, UtxoExact, Created, AllOutputs

LEMMA SupplyInit == Init => SupplyInv
<1>. SUFFICES ASSUME Init PROVE SupplyBacked  BY LedgerInit DEF SupplyInv
<1>1. pending = {} /\ applied = {}  BY DEF Init
<1>2. TotalValue({}) = 0  BY NoValue
<1>3. Cardinality({} \cap COINBASE) = 0  BY FS_EmptySet
<1>. QED  BY <1>1, <1>2, <1>3, TxAssumption DEF SupplyBacked

LEMMA SupplyReset == Reset /\ SupplyInv => SupplyInv'
<1>. SUFFICES ASSUME Reset, SupplyInv PROVE SupplyBacked'
  BY LedgerReset DEF SupplyInv
<1>1. pending' = {} /\ applied' = {}  BY DEF Reset
<1>2. TotalValue({}) = 0  BY NoValue
<1>3. Cardinality({} \cap COINBASE) = 0  BY FS_EmptySet
<1>. QED  BY <1>1, <1>2, <1>3, TxAssumption DEF SupplyBacked

LEMMA SupplyAccept ==
  ASSUME SupplyInv, NEW t \in Tx, Replay(t), Verdict(pending, known, t) = "valid"
  PROVE  SupplyBacked'
<1>1. pending' = Apply(pending, t) /\ applied' = applied \cup {t} /\ t \notin applied
  BY DEF Replay, VerifyTransaction, SupplyInv, LedgerInv, TypeOK
<1>2. pending \in SUBSET AllOutputs  BY PendingIsOutputs DEF SupplyInv
<1>3. OutputsOf(t) \cap pending = {}
  <2>1. \A u \in applied : u \in Tx /\ u # t  BY <1>1 DEF SupplyInv, LedgerInv, TypeOK
  <2>2. \A u \in applied : OutputsOf(u) \cap OutputsOf(t) = {}  BY <2>1, OutputsDisjoint
  <2>. QED  BY <2>2 DEF SupplyInv, LedgerInv, UtxoExact, Created
<1>. DEFINE old == applied \cap COINBASE
           new == applied' \cap COINBASE
           n == Cardinality(old)
           before == TotalValue(pending)
           after == TotalValue(pending')
<1>4. IsFiniteSet(old) /\ n \in Nat
  <2>1. old \in SUBSET Tx  BY DEF SupplyInv, LedgerInv, TypeOK
  <2>. QED  BY <2>1, TxAssumption, FS_Subset, FS_CardinalityType
<1>5. before \in Int /\ after \in Int
      /\ after <= before + (IF t \in COINBASE THEN CoinbaseCap ELSE 0)
  BY <1>1, <1>2, <1>3, ValueMoves
<1>6. before <= CoinbaseCap * n  BY DEF SupplyInv, SupplyBacked
<1>7. CASE t \in COINBASE
  <2>1. new = old \cup {t} /\ t \notin old  BY <1>1, <1>7
  <2>. HIDE DEF old
  <2>2. Cardinality(new) = n + 1  BY <1>4, <2>1, FS_AddElement
  <2>3. CoinbaseCap \in Nat  BY TxAssumption
  <2>. HIDE DEF n, before, after, new
  <2>4. CoinbaseCap * (n + 1) = CoinbaseCap * n + CoinbaseCap  BY <1>4, <2>3
  <2>5. CoinbaseCap * n \in Nat  BY <1>4, <2>3
  <2>6. after <= CoinbaseCap * (n + 1)  BY <1>5, <1>6, <1>7, <2>3, <2>4, <2>5
  <2>. QED  BY <2>2, <2>6 DEF SupplyBacked, after, new
<1>8. CASE t \notin COINBASE
  <2>1. new = old  BY <1>1, <1>8
  <2>2. CoinbaseCap * n \in Nat  BY <1>4, TxAssumption
  <2>. HIDE DEF n, before, after, new, old
  <2>3. after <= CoinbaseCap * n  BY <1>5, <1>6, <1>8, <2>2
  <2>. QED  BY <2>1, <2>3 DEF SupplyBacked, after, new, n
<1>. QED  BY <1>7, <1>8

LEMMA SupplyStep == SupplyInv /\ [Next]_vars => SupplyInv'
<1>. SUFFICES ASSUME SupplyInv, [Next]_vars PROVE SupplyBacked'
  BY LedgerStep DEF SupplyInv
<1>1. CASE Reset  BY <1>1, SupplyReset DEF SupplyInv
<1>2. ASSUME NEW t \in Tx, Replay(t)  PROVE SupplyBacked'
  <2>1. CASE Verdict(pending, known, t) = "valid"  BY <1>2, <2>1, SupplyAccept
  <2>2. CASE Verdict(pending, known, t) # "valid"
    BY <1>2, <2>2 DEF Replay, VerifyTransaction, SupplyInv, SupplyBacked
  <2>. QED  BY <2>1, <2>2
<1>3. CASE UNCHANGED vars  BY <1>3 DEF vars, SupplyInv, SupplyBacked
<1>. QED  BY <1>1, <1>2, <1>3 DEF Next

\* No value appears from nowhere: however coins are moved, split and merged, the
\* database never holds more than the accepted coinbases were allowed to mint.
THEOREM SupplyIsBacked == Spec => []SupplyBacked
<1>1. SupplyInv => SupplyBacked  BY DEF SupplyInv
<1>. QED  BY <1>1, SupplyInit, SupplyStep, PTL DEF Spec

-----------------------------------------------------------------------------
(* Corrupt transactions.  What makes one corrupt is a fault of its own that  *)
(* no state of the database can repair.                                      *)

BadInput(t, k) ==
  \/ ~ inputs[t][k].signed
  \/ inputs[t][k].pubkeyhash # OwnerOf(Ref(t, k))

Faulty(t) ==
  IF t \in COINBASE THEN TotalValue(OutputsOf(t)) > CoinbaseCap
  ELSE (\E k \in 1 .. Len(inputs[t]) : BadInput(t, k)) \/ Overspends(t)

LEMMA CorruptIsFaulty ==
  ASSUME NEW db, NEW K, NEW t \in Tx, Verdict(db, K, t) = "corrupt"
  PROVE  Faulty(t)
<1>1. CASE t \in COINBASE  BY <1>1 DEF Verdict, Faulty
<1>2. CASE t \notin COINBASE
  <2>. DEFINE bad == {k \in 1 .. Len(inputs[t]) : InputVerdict(db, K, t, k) # "valid"}
  <2>1. CASE bad = {}  BY <1>2, <2>1 DEF Verdict, Faulty
  <2>2. CASE bad # {}
    <3>1. bad \subseteq Nat  BY TxAssumption
    <3>2. Min(bad) \in bad  BY <2>2, <3>1, MinIsMember
    <3>3. InputVerdict(db, K, t, Min(bad)) = "corrupt"  BY <1>2, <2>2 DEF Verdict
    <3>4. BadInput(t, Min(bad))  BY <3>3 DEF InputVerdict, BadInput
    <3>. QED  BY <1>2, <3>2, <3>4 DEF Faulty
  <2>. QED  BY <2>1, <2>2
<1>. QED  BY <1>1, <1>2

LEMMA FaultyNeverValid ==
  ASSUME NEW db, NEW K, NEW t \in Tx, Faulty(t)
  PROVE  Verdict(db, K, t) # "valid"
<1>1. CASE t \in COINBASE  BY <1>1 DEF Verdict, Faulty
<1>2. CASE t \notin COINBASE
  <2>. DEFINE bad == {k \in 1 .. Len(inputs[t]) : InputVerdict(db, K, t, k) # "valid"}
  <2>1. CASE bad = {}
    <3>1. \A k \in 1 .. Len(inputs[t]) : ~ BadInput(t, k)
      BY <2>1 DEF InputVerdict, BadInput
    <3>2. Overspends(t)  BY <1>2, <3>1 DEF Faulty
    <3>. QED  BY <1>2, <2>1, <3>2 DEF Verdict
  <2>2. CASE bad # {}
    <3>1. bad \subseteq Nat  BY TxAssumption
    <3>2. Min(bad) \in bad  BY <2>2, <3>1, MinIsMember
    <3>. QED  BY <1>2, <2>2, <3>2 DEF Verdict
  <2>. QED  BY <2>1, <2>2
<1>. QED  BY <1>1, <1>2

CorruptInv ==
  /\ TypeOK
  /\ \A t \in corrupt : Faulty(t)
  /\ \A t \in applied : ~ Faulty(t)

LEMMA CorruptInit == Init => CorruptInv
BY TypeInit DEF Init, CorruptInv

LEMMA CorruptStep == CorruptInv /\ [Next]_vars => CorruptInv'
<1>. SUFFICES ASSUME CorruptInv, [Next]_vars PROVE CorruptInv'  OBVIOUS
<1>1. CASE Reset
  BY <1>1, LedgerAssumption DEF Reset, CorruptInv, TypeOK
<1>2. ASSUME NEW t \in Tx, Replay(t)  PROVE CorruptInv'
  <2>1. TypeOK'  BY <1>2, TypeVerify DEF Replay, CorruptInv
  <2>2. \A u \in corrupt' : Faulty(u)
    BY <1>2, CorruptIsFaulty DEF Replay, VerifyTransaction, CorruptInv
  <2>3. \A u \in applied' : ~ Faulty(u)
    <3>1. CASE Verdict(pending, known, t) = "valid"
      <4>1. applied' = applied \cup {t}
        BY <1>2, <3>1 DEF Replay, VerifyTransaction, CorruptInv, TypeOK
      <4>. QED  BY <3>1, <4>1, FaultyNeverValid DEF CorruptInv
    <3>2. CASE Verdict(pending, known, t) # "valid"
      BY <1>2, <3>2 DEF Replay, VerifyTransaction, CorruptInv
    <3>. QED  BY <3>1, <3>2
  <2>. QED  BY <2>1, <2>2, <2>3 DEF CorruptInv
<1>3. CASE UNCHANGED vars  BY <1>3 DEF vars, CorruptInv, TypeOK
<1>. QED  BY <1>1, <1>2, <1>3 DEF Next

\* A transaction on the corrupt list was rightly given up: none of them is
\* ever accepted, whatever the order of the mempool and of the blocks.
THEOREM CorruptStaysOut == Spec => []CorruptNeverAccepted
<1>1. CorruptInv => CorruptNeverAccepted  BY DEF CorruptInv, CorruptNeverAccepted
<1>. QED  BY <1>1, CorruptInit, CorruptStep, PTL DEF Spec
=============================================================================
