--------------------------- MODULE SnapshotProofs ---------------------------
(***************************************************************************)
(* The tally of a snapshot is exact, and its voting is that of Election,   *)
(* for every set of accounts, every first set of validators and every      *)
(* length of the epoch.                                                    *)
(*                                                                         *)
(* A header is applied in parts: each takes a pair of votes and tally that *)
(* is Exact to another one.  What follows from the last is the same for    *)
(* the three outcomes of a header.                                         *)
(***************************************************************************)
EXTENDS Snapshot, FiniteSetTheorems, TLAPS

About(s, a) == {m \in s.votes : m.address = a}

\* a pair of votes and tally fits the validators
Exact(s) ==
  /\ s.votes \subseteq Vote /\ IsFiniteSet(s.votes)
  /\ s.tally \in [Account -> [authorize : BOOLEAN, votes : Nat]]
  /\ \A a \in Account : s.tally[a].votes = Cardinality(About(s, a))
  /\ \A a \in Account : s.tally[a].votes > 0 => CheckVote(a, s.tally[a].authorize)
  /\ \A m \in s.votes : m.validator \in valSet /\ CheckVote(m.address, m.authorize)

Now == [votes |-> votes, tally |-> tally]
IInv == TypeOK /\ Exact(Now)

(* The votes about one account are finitely many, and none if it has no      *)
(* tally; they are all for what its tally is for.                            *)
LEMMA AboutFacts ==
  ASSUME NEW s, Exact(s), NEW a \in Account
  PROVE  /\ IsFiniteSet(About(s, a)) /\ Cardinality(About(s, a)) \in Nat
         /\ s.tally[a].votes = 0 <=> About(s, a) = {}
         /\ \A m \in About(s, a) : m.authorize = s.tally[a].authorize
<1>1. IsFiniteSet(About(s, a)) /\ Cardinality(About(s, a)) \in Nat
  BY FS_Subset, FS_CardinalityType DEF Exact, About
<1>2. s.tally[a].votes = 0 <=> About(s, a) = {}
  BY <1>1, FS_EmptySet DEF Exact
<1>3. ASSUME NEW m \in About(s, a) PROVE m.authorize = s.tally[a].authorize
  <2>1. s.tally[a].votes > 0
    BY <1>1, <1>2, <1>3 DEF Exact
  <2>2. m.authorize \in BOOLEAN /\ s.tally[a].authorize \in BOOLEAN
    BY DEF Exact, About, Vote
  <2>3. CheckVote(a, m.authorize) /\ CheckVote(a, s.tally[a].authorize)
    BY <2>1 DEF Exact, About
  <2> QED  BY <2>2, <2>3 DEF CheckVote
<1> QED  BY <1>1, <1>2, <1>3

(* One validator has one vote about an account.                              *)
LEMMA OneVoteEach ==
  ASSUME NEW s, Exact(s), NEW m \in s.votes, NEW n \in s.votes,
         m.validator = n.validator, m.address = n.address
  PROVE  m = n
<1>1. m \in Vote /\ n \in Vote
  BY DEF Exact
<1>2. m.authorize = n.authorize
  <2>1. m \in About(s, m.address) /\ n \in About(s, m.address) /\ m.address \in Account
    BY <1>1 DEF About, Vote
  <2> QED  BY <2>1, AboutFacts
<1> QED  BY <1>1, <1>2 DEF Vote

LEMMA FreshExact == Exact(Fresh)
<1>1. Fresh.votes = {} /\ \A a \in Account : Fresh.tally[a] = NoTally /\ About(Fresh, a) = {}
  BY DEF Fresh, About
<1>2. Fresh.tally \in [Account -> [authorize : BOOLEAN, votes : Nat]]
  BY DEF Fresh, NoTally
<1> QED  BY <1>1, <1>2, FS_EmptySet DEF Exact, NoTally

LEMMA StandingExact ==
  ASSUME IInv
  PROVE  Exact(Standing)
BY FreshExact DEF IInv, Now, Standing

(* Uncasting one of the votes about an account that its tally is for.        *)
LEMMA UncastFacts ==
  ASSUME NEW t \in [authorize : BOOLEAN, votes : Nat], t.votes > 0
  PROVE  /\ Uncast(t, t.authorize) \in [authorize : BOOLEAN, votes : Nat]
         /\ Uncast(t, t.authorize).votes = t.votes - 1
         /\ Uncast(t, t.authorize).votes > 0 => Uncast(t, t.authorize).authorize = t.authorize
BY DEF Uncast, NoTally

LEMMA CastFacts ==
  ASSUME NEW t \in [authorize : BOOLEAN, votes : Nat], NEW authorize \in BOOLEAN
  PROVE  /\ Cast(t, authorize) \in [authorize : BOOLEAN, votes : Nat]
         /\ Cast(t, authorize).votes = t.votes + 1
         /\ Cast(t, authorize).authorize = IF t.votes > 0 THEN t.authorize ELSE authorize
BY DEF Cast

(* The second part: nothing v has said of the address is left.               *)
LEMMA DiscardedExact ==
  ASSUME NEW s, Exact(s), NEW v \in Account, NEW c \in Account
  PROVE  /\ Exact(Discarded(s, v, c))
         /\ Discarded(s, v, c).votes =
              s.votes \ {m \in s.votes : m.validator = v /\ m.address = c}
<1> DEFINE before == {m \in s.votes : m.validator = v /\ m.address = c}
           d == Discarded(s, v, c)
<1>1. /\ d.votes = s.votes \ before
      /\ d.tally = IF before = {} THEN s.tally
                   ELSE [s.tally EXCEPT ![c] = Uncast(@, (CHOOSE m \in before : TRUE).authorize)]
  BY DEF Discarded
<1> HIDE DEF d
<1>2. CASE before = {}
  <2>1. d.votes = s.votes /\ d.tally = s.tally
    BY <1>1, <1>2
  <2>2. Exact(d)
    BY <2>1 DEF Exact, About
  <2> QED  BY <2>2, <1>1 DEF d
<1>3. CASE before # {}
  <2>1. PICK m \in s.votes : m = (CHOOSE n \in before : TRUE) /\ m.validator = v /\ m.address = c
    BY <1>3
  <2>2. before = {m}
    BY <2>1, OneVoteEach
  <2>3. m \in About(s, c) /\ m.authorize = s.tally[c].authorize
    <3>1. m \in About(s, c)
      BY <2>1 DEF About
    <3> QED  BY <3>1, AboutFacts
  <2>4. s.tally[c] \in [authorize : BOOLEAN, votes : Nat] /\ s.tally[c].votes > 0
    BY <2>3, AboutFacts DEF Exact
  <2>5. d.tally = [s.tally EXCEPT ![c] = Uncast(s.tally[c], s.tally[c].authorize)]
    BY <1>1, <1>3, <2>1, <2>3
  <2>6. /\ d.tally \in [Account -> [authorize : BOOLEAN, votes : Nat]]
        /\ d.tally[c].votes = s.tally[c].votes - 1
        /\ d.tally[c].votes > 0 => d.tally[c].authorize = s.tally[c].authorize
        /\ \A a \in Account \ {c} : d.tally[a] = s.tally[a]
    BY <2>4, <2>5, UncastFacts DEF Exact
  <2>7. d.votes \subseteq Vote /\ IsFiniteSet(d.votes)
    BY <1>1, FS_Subset DEF Exact
  <2>8. About(d, c) = About(s, c) \ {m} /\ \A a \in Account \ {c} : About(d, a) = About(s, a)
    BY <1>1, <2>1, <2>2 DEF About
  <2>9. Cardinality(About(d, c)) = Cardinality(About(s, c)) - 1
    <3>1. IsFiniteSet(About(s, c))
      BY AboutFacts
    <3> QED  BY <2>3, <2>8, <3>1, FS_RemoveElement
  <2>10. \A a \in Account : d.tally[a].votes = Cardinality(About(d, a))
    BY <2>6, <2>8, <2>9 DEF Exact
  <2>11. \A a \in Account : d.tally[a].votes > 0 => CheckVote(a, d.tally[a].authorize)
    BY <2>4, <2>6 DEF Exact
  <2>12. \A n \in d.votes : n.validator \in valSet /\ CheckVote(n.address, n.authorize)
    BY <1>1 DEF Exact
  <2>13. Exact(d)
    BY <2>6, <2>7, <2>10, <2>11, <2>12 DEF Exact
  <2> QED  BY <2>13, <1>1 DEF d
<1> QED  BY <1>2, <1>3

(* The third part: a meaningful vote is added to a pair that holds none of   *)
(* that validator about that address.                                        *)
LEMMA CountedExact ==
  ASSUME NEW s, Exact(s), NEW v \in valSet, NEW c \in Account, NEW authorize \in BOOLEAN,
         valSet \subseteq Account, \A m \in s.votes : ~ (m.validator = v /\ m.address = c)
  PROVE  /\ Exact(Counted(s, v, c, authorize))
         /\ Counted(s, v, c, authorize).votes = s.votes \cup
              {m \in {[validator |-> v, address |-> c, authorize |-> authorize]} :
                 CheckVote(c, authorize)}
<1> DEFINE m == [validator |-> v, address |-> c, authorize |-> authorize]
           d == Counted(s, v, c, authorize)
<1>1. CASE ~ CheckVote(c, authorize)
  BY <1>1 DEF Counted
<1>2. CASE CheckVote(c, authorize)
  <2>1. d.votes = s.votes \cup {m} /\ d.tally = [s.tally EXCEPT ![c] = Cast(s.tally[c], authorize)]
    BY <1>2 DEF Counted
  <2>2. m \in Vote /\ m \notin s.votes /\ m.address = c /\ m.validator = v /\ m.authorize = authorize
    BY DEF Vote
  <2> HIDE DEF d, m
  <2>3. s.tally[c] \in [authorize : BOOLEAN, votes : Nat]
    BY DEF Exact
  <2>4. /\ d.tally \in [Account -> [authorize : BOOLEAN, votes : Nat]]
        /\ d.tally[c] = Cast(s.tally[c], authorize)
        /\ \A a \in Account \ {c} : d.tally[a] = s.tally[a]
    BY <2>1, <2>3, CastFacts DEF Exact
  <2>5. /\ d.tally[c].votes = s.tally[c].votes + 1
        /\ CheckVote(c, d.tally[c].authorize)
    BY <1>2, <2>3, <2>4, CastFacts DEF Exact
  <2>6. d.votes \subseteq Vote /\ IsFiniteSet(d.votes)
    BY <2>1, <2>2, FS_AddElement DEF Exact
  <2>7. About(d, c) = About(s, c) \cup {m} /\ \A a \in Account \ {c} : About(d, a) = About(s, a)
    BY <2>1, <2>2 DEF About
  <2>8. Cardinality(About(d, c)) = Cardinality(About(s, c)) + 1
    <3>1. m \notin About(s, c)
      BY <2>2 DEF About
    <3> QED  BY <3>1, <2>7, AboutFacts, FS_AddElement
  <2>9. \A a \in Account : d.tally[a].votes = Cardinality(About(d, a))
    BY <2>4, <2>5, <2>7, <2>8 DEF Exact
  <2>10. \A a \in Account : d.tally[a].votes > 0 => CheckVote(a, d.tally[a].authorize)
    BY <2>4, <2>5 DEF Exact
  <2>11. \A n \in d.votes : n.validator \in valSet /\ CheckVote(n.address, n.authorize)
    BY <1>2, <2>1, <2>2 DEF Exact
  <2>12. Exact(d)
    BY <2>4, <2>6, <2>9, <2>10, <2>11 DEF Exact
  <2> QED  BY <1>2, <2>1, <2>12 DEF d, m
<1> QED  BY <1>1, <1>2

(* The parts together.                                                       *)
LEMMA AfterExact ==
  ASSUME IInv, NEW v \in valSet, NEW c \in Account, NEW authorize \in BOOLEAN
  PROVE  /\ Exact(After(v, c, authorize))
         /\ After(v, c, authorize).votes =
              (Standing.votes \ {m \in Standing.votes : m.validator = v /\ m.address = c})
                \cup {m \in {[validator |-> v, address |-> c, authorize |-> authorize]} :
                         CheckVote(c, authorize)}
<1> DEFINE s == Standing
           d == Discarded(s, v, c)
<1>1. Exact(s)
  BY StandingExact
<1>2. valSet \subseteq Account /\ v \in Account
  BY DEF IInv, TypeOK
<1> HIDE DEF s
<1>3. /\ Exact(d)
      /\ d.votes = s.votes \ {m \in s.votes : m.validator = v /\ m.address = c}
  BY <1>1, <1>2, DiscardedExact
<1> HIDE DEF d
<1>4. \A m \in d.votes : ~ (m.validator = v /\ m.address = c)
  BY <1>3
<1>5. /\ Exact(Counted(d, v, c, authorize))
      /\ Counted(d, v, c, authorize).votes = d.votes \cup
           {m \in {[validator |-> v, address |-> c, authorize |-> authorize]} :
              CheckVote(c, authorize)}
  BY <1>2, <1>3, <1>4, CountedExact
<1> QED  BY <1>3, <1>5 DEF After, d, s

(* What the next snapshot needs, put together from its parts.                *)
LEMMA ExactNext ==
  ASSUME number' \in 0 .. Epoch - 1, valSet' \subseteq Account,
         votes' \subseteq Vote, IsFiniteSet(votes'),
         tally' \in [Account -> [authorize : BOOLEAN, votes : Nat]],
         \A a \in Account : tally'[a].votes = Cardinality({m \in votes' : m.address = a}),
         \A a \in Account : tally'[a].votes > 0 => (tally'[a].authorize = (a \notin valSet')),
         \A m \in votes' : m.validator \in valSet' /\ (m.authorize = (m.address \notin valSet'))
  PROVE  IInv'
BY DEF IInv, TypeOK, Exact, Now, About, CheckVote

LEMMA HeaderType ==
  ASSUME TypeOK, NEW v, Header(v)
  PROVE  number' \in 0 .. Epoch - 1 /\ v \in valSet /\ valSet \subseteq Account
BY SnapshotAssumption DEF TypeOK, Header

LEMMA NoMajorityKeeps ==
  ASSUME IInv, NEW v \in Account, NEW c \in Account, NEW authorize \in BOOLEAN,
         NoMajority(v, c, authorize)
  PROVE  IInv'
<1> DEFINE s == After(v, c, authorize)
<1>1. number' \in 0 .. Epoch - 1 /\ v \in valSet /\ valSet \subseteq Account
  BY HeaderType DEF IInv, NoMajority
<1>2. Exact(s)
  BY <1>1, AfterExact
<1>3. votes' = s.votes /\ tally' = s.tally /\ valSet' = valSet
  BY DEF NoMajority
<1> HIDE DEF s
<1>4. \A a, x : (x = (a \notin valSet')) <=> CheckVote(a, x)
  BY <1>3 DEF CheckVote
<1>5. \A a \in Account : tally'[a].votes = Cardinality({m \in votes' : m.address = a})
  BY <1>2, <1>3 DEF Exact, About
<1>6. votes' \subseteq Vote /\ IsFiniteSet(votes')
        /\ tally' \in [Account -> [authorize : BOOLEAN, votes : Nat]]
  BY <1>2, <1>3 DEF Exact
<1>7. \A a \in Account : tally'[a].votes > 0 => (tally'[a].authorize = (a \notin valSet'))
  BY <1>2, <1>3, <1>4 DEF Exact
<1>8. \A m \in votes' : m.validator \in valSet' /\ (m.authorize = (m.address \notin valSet'))
  BY <1>2, <1>3, <1>4 DEF Exact
<1> QED  BY <1>1, <1>3, <1>5, <1>6, <1>7, <1>8, ExactNext

LEMMA AddValidatorKeeps ==
  ASSUME IInv, NEW v \in Account, NEW c \in Account, NEW authorize \in BOOLEAN,
         AddValidator(v, c, authorize)
  PROVE  IInv'
<1> DEFINE s == After(v, c, authorize)
<1>1. number' \in 0 .. Epoch - 1 /\ v \in valSet /\ valSet \subseteq Account
  BY HeaderType DEF IInv, AddValidator
<1>2. Exact(s)
  BY <1>1, AfterExact
<1>3. /\ valSet' = valSet \cup {c}
      /\ votes' = {m \in s.votes : m.address # c}
      /\ tally' = [s.tally EXCEPT ![c] = NoTally]
  BY DEF AddValidator
<1> HIDE DEF s
<1>4. /\ tally' \in [Account -> [authorize : BOOLEAN, votes : Nat]]
      /\ tally'[c].votes = 0 /\ \A a \in Account \ {c} : tally'[a] = s.tally[a]
  BY <1>2, <1>3 DEF Exact, NoTally
<1>5. votes' \subseteq Vote /\ IsFiniteSet(votes')
  BY <1>2, <1>3, FS_Subset DEF Exact
<1>6. \A a, x : a # c => ((x = (a \notin valSet')) <=> CheckVote(a, x))
  BY <1>3 DEF CheckVote
<1>7. \A a \in Account : tally'[a].votes = Cardinality({m \in votes' : m.address = a})
  <2>1. {m \in votes' : m.address = c} = {}
    BY <1>3
  <2>2. \A a \in Account \ {c} : {m \in votes' : m.address = a} = About(s, a)
    BY <1>3 DEF About
  <2> QED  BY <1>2, <1>4, <2>1, <2>2, FS_EmptySet DEF Exact
<1>8. \A a \in Account : tally'[a].votes > 0 => (tally'[a].authorize = (a \notin valSet'))
  BY <1>2, <1>4, <1>6 DEF Exact
<1>9. \A m \in votes' : m.validator \in valSet' /\ (m.authorize = (m.address \notin valSet'))
  BY <1>2, <1>3, <1>6 DEF Exact
<1> QED  BY <1>1, <1>3, <1>4, <1>5, <1>7, <1>8, <1>9, ExactNext

LEMMA RemoveValidatorKeeps ==
  ASSUME IInv, NEW v \in Account, NEW c \in Account, NEW authorize \in BOOLEAN,
         RemoveValidator(v, c, authorize)
  PROVE  IInv'
<1> DEFINE s == After(v, c, authorize)
           Said(a) == {m \in s.votes : m.validator = c /\ m.address = a}
<1>1. number' \in 0 .. Epoch - 1 /\ v \in valSet /\ valSet \subseteq Account
  BY HeaderType DEF IInv, RemoveValidator
<1>2. Exact(s)
  BY <1>1, AfterExact
<1>3. /\ valSet' = valSet \ {c}
      /\ votes' = {m \in s.votes : m.validator # c /\ m.address # c}
      /\ tally' = [a \in Account |->
            IF a = c THEN NoTally
            ELSE IF Said(a) = {} THEN s.tally[a]
            ELSE Uncast(s.tally[a], (CHOOSE m \in Said(a) : TRUE).authorize)]
  BY DEF RemoveValidator
<1> HIDE DEF s
<1>4. votes' \subseteq Vote /\ IsFiniteSet(votes')
  BY <1>2, <1>3, FS_Subset DEF Exact
<1>5. \A a, x : a # c => ((x = (a \notin valSet')) <=> CheckVote(a, x))
  BY <1>3 DEF CheckVote
<1>6. ASSUME NEW a \in Account
      PROVE  /\ tally'[a] \in [authorize : BOOLEAN, votes : Nat]
             /\ tally'[a].votes = Cardinality({m \in votes' : m.address = a})
             /\ tally'[a].votes > 0 => a # c /\ tally'[a].authorize = s.tally[a].authorize
                                          /\ s.tally[a].votes > 0
  <2>1. s.tally[a] \in [authorize : BOOLEAN, votes : Nat]
    BY <1>2 DEF Exact
  <2>2. CASE a = c
    <3>1. {m \in votes' : m.address = a} = {} /\ tally'[a] = NoTally
      BY <1>3, <2>2
    <3> QED  BY <3>1, FS_EmptySet DEF NoTally
  <2>3. CASE a # c /\ Said(a) = {}
    <3>1. {m \in votes' : m.address = a} = About(s, a) /\ tally'[a] = s.tally[a]
      BY <1>3, <2>3 DEF About
    <3> QED  BY <1>2, <2>1, <2>3, <3>1 DEF Exact
  <2>4. CASE a # c /\ Said(a) # {}
    <3>1. PICK m \in s.votes : m = (CHOOSE n \in Said(a) : TRUE) /\ m.validator = c /\ m.address = a
      BY <2>4
    <3>2. Said(a) = {m}
      BY <1>2, <3>1, OneVoteEach
    <3>3. m \in About(s, a)
      BY <3>1 DEF About
    <3>4. m.authorize = s.tally[a].authorize /\ s.tally[a].votes > 0
      <4>1. s.tally[a].votes # 0 /\ m.authorize = s.tally[a].authorize
        BY <1>2, <3>3, AboutFacts
      <4> QED  BY <2>1, <4>1
    <3>5. tally'[a] = Uncast(s.tally[a], s.tally[a].authorize)
      BY <1>3, <2>4, <3>1, <3>4
    <3>6. {n \in votes' : n.address = a} = About(s, a) \ {m}
      BY <1>3, <2>4, <3>1, <3>2 DEF About
    <3>7. Cardinality(About(s, a) \ {m}) = Cardinality(About(s, a)) - 1
      <4>1. IsFiniteSet(About(s, a))
        BY <1>2, AboutFacts
      <4> QED  BY <3>3, <4>1, FS_RemoveElement
    <3>8. s.tally[a].votes = Cardinality(About(s, a))
      BY <1>2 DEF Exact
    <3> QED  BY <2>1, <2>4, <3>4, <3>5, <3>6, <3>7, <3>8, UncastFacts
  <2> QED  BY <2>2, <2>3, <2>4
<1>7. tally' \in [Account -> [authorize : BOOLEAN, votes : Nat]]
  <2>1. tally' = [a \in Account |-> tally'[a]]
    BY <1>3
  <2> QED  BY <1>6, <2>1
<1>8. \A a \in Account : tally'[a].votes > 0 => (tally'[a].authorize = (a \notin valSet'))
  BY <1>2, <1>5, <1>6 DEF Exact
<1>9. \A m \in votes' : m.validator \in valSet' /\ (m.authorize = (m.address \notin valSet'))
  BY <1>2, <1>3, <1>5 DEF Exact
<1>10. \A a \in Account : tally'[a].votes = Cardinality({m \in votes' : m.address = a})
  BY <1>6
<1> QED  BY <1>1, <1>3, <1>4, <1>7, <1>8, <1>9, <1>10, ExactNext

LEMMA Invariance == Spec => []IInv
<1>1. Init => IInv
  <2> SUFFICES ASSUME Init PROVE IInv
    OBVIOUS
  <2>1. TypeOK
    BY SnapshotAssumption DEF Init, TypeOK, Fresh, NoTally
  <2>2. Exact(Now)
    BY FreshExact DEF Init, Now, Exact, About
  <2> QED  BY <2>1, <2>2 DEF IInv
<1>2. IInv /\ [Next]_vars => IInv'
  <2> SUFFICES ASSUME IInv, [Next]_vars PROVE IInv'
    OBVIOUS
  <2>1. CASE Next
    BY <2>1, NoMajorityKeeps, AddValidatorKeeps, RemoveValidatorKeeps DEF Next
  <2>2. CASE UNCHANGED vars
    BY <2>2 DEF vars, IInv, TypeOK, Exact, Now, About, CheckVote
  <2> QED  BY <2>1, <2>2
<1> QED  BY <1>1, <1>2, PTL DEF Spec

(* Every snapshot has validators, votes and tallies of their types.          *)
THEOREM TypeCorrect == Spec => []TypeOK
<1>1. IInv => TypeOK
  BY DEF IInv
<1> QED  BY <1>1, Invariance, PTL

(* snapApplyHeader keeps the tally equal to the count of the votes that      *)
(* stand, whatever headers come and however the set of validators changes.   *)
THEOREM TallyIsExact == Spec => []TallyExact
<1>1. IInv => TallyExact
  BY DEF IInv, Exact, Now, About, TallyExact, VotesAbout
<1> QED  BY <1>1, Invariance, PTL
-----------------------------------------------------------------------------
(* The refinement                                                            *)

Wish(s) == {<<m.validator, m.address>> : m \in s.votes}

(* The tally of an account counts its supporters.                            *)
LEMMA SupportersCounted ==
  ASSUME NEW s, Exact(s), NEW c \in Account
  PROVE  Cardinality(E!Supporters(Wish(s), c)) = s.tally[c].votes
<1> DEFINE S == {v \in Account : <<v, c>> \in Wish(s)}
           f == [m \in About(s, c) |-> m.validator]
<1>1. f \in [About(s, c) -> S]
  BY DEF About, Wish, Exact, Vote
<1>2. ASSUME NEW m \in About(s, c), NEW n \in About(s, c), f[m] = f[n] PROVE m = n
  <2>1. m \in s.votes /\ n \in s.votes /\ m.validator = n.validator /\ m.address = n.address
    BY <1>2 DEF About
  <2> QED  BY <2>1, OneVoteEach
<1>3. ASSUME NEW v \in S PROVE \E m \in About(s, c) : f[m] = v
  BY DEF About, Wish
<1>4. f \in Bijection(About(s, c), S)
  BY <1>1, <1>2, <1>3 DEF Bijection, Injection, Surjection, IsInjective
<1>5. ExistsBijection(About(s, c), S) /\ IsFiniteSet(About(s, c))
  BY <1>4, AboutFacts DEF ExistsBijection
<1>6. Cardinality(S) = Cardinality(About(s, c))
  BY <1>5, FS_Bijection
<1> QED  BY <1>6 DEF Exact, E!Supporters

(* A header says one wish of its author, and begins with those that stand.   *)
LEMMA WishAfter ==
  ASSUME IInv, NEW v \in valSet, NEW c \in Account, NEW authorize \in BOOLEAN
  PROVE  /\ Wish(Standing) \in {Wish(Now), {}}
         /\ Wish(After(v, c, authorize)) =
              (Wish(Standing) \ {<<v, c>>}) \cup {p \in {<<v, c>>} : CheckVote(c, authorize)}
<1>1. Wish(Standing) \in {Wish(Now), {}}
  BY DEF Standing, Fresh, Now, Wish
<1> DEFINE s == Standing
           d == After(v, c, authorize)
           new == [validator |-> v, address |-> c, authorize |-> authorize]
<1>2. d.votes = (s.votes \ {m \in s.votes : m.validator = v /\ m.address = c})
                  \cup {m \in {new} : CheckVote(c, authorize)}
  BY AfterExact
<1>3. new.validator = v /\ new.address = c
  OBVIOUS
<1> HIDE DEF s, d, new
<1>4. ASSUME NEW p PROVE p \in Wish(d) <=> \/ p \in Wish(s) \ {<<v, c>>}
                                           \/ p = <<v, c>> /\ CheckVote(c, authorize)
  BY <1>2, <1>3 DEF Wish
<1>5. Wish(d) = (Wish(s) \ {<<v, c>>}) \cup {p \in {<<v, c>>} : CheckVote(c, authorize)}
  BY <1>4
<1> QED  BY <1>1, <1>5 DEF s, d

(* Election counts with the same Cardinality.                                *)
LEMMA SameCardinality == \A S : E!Cardinality(S) = Cardinality(S)
BY DEF E!Cardinality, Cardinality

(* More than half of the validators, rounded down, is a majority.            *)
LEMMA MajorityPasses ==
  ASSUME IInv, NEW v \in valSet, NEW c \in Account, NEW authorize \in BOOLEAN
  PROVE  Passed(After(v, c, authorize), c)
           <=> E!Majority(E!Supporters(Wish(After(v, c, authorize)), c))
<1>1. Exact(After(v, c, authorize))
  BY AfterExact
<1>2. /\ Cardinality(E!Supporters(Wish(After(v, c, authorize)), c)) =
           After(v, c, authorize).tally[c].votes
      /\ After(v, c, authorize).tally[c].votes \in Nat
  BY <1>1, SupportersCounted DEF Exact
<1>3. Cardinality(valSet) \in Nat
  BY SnapshotAssumption, FS_Subset, FS_CardinalityType DEF IInv, TypeOK
<1> QED  BY <1>2, <1>3, SameCardinality DEF Passed, E!Majority

LEMMA NoMajorityMaps ==
  ASSUME IInv, NEW v \in Account, NEW c \in Account, NEW authorize \in BOOLEAN,
         NoMajority(v, c, authorize)
  PROVE  E!Block(v, c, CheckVote(c, authorize), Wish(Standing))
<1> DEFINE s == After(v, c, authorize)
<1>1. v \in valSet /\ valSet' = valSet /\ votes' = s.votes /\ ~ Passed(s, c)
  BY DEF NoMajority, Header
<1>2. ~ E!Majority(E!Supporters(Wish(s), c))
  BY <1>1, MajorityPasses
<1>3. Wish(s) = (Wish(Standing) \ {<<v, c>>}) \cup {p \in {<<v, c>>} : CheckVote(c, authorize)}
        /\ Wish(Standing) \in {Wish(Now), {}}
  BY <1>1, WishAfter
<1>4. {<<m.validator, m.address>> : m \in votes'} = Wish(s)
  BY <1>1 DEF Wish
<1>5. Wish(Now) = {<<m.validator, m.address>> : m \in votes}
  BY DEF Wish, Now
<1> HIDE DEF s
<1> QED  BY <1>1, <1>2, <1>3, <1>4, <1>5 DEF E!Block

(* A majority changes c's side, and the wishes about c, or of c when it is   *)
(* removed, are gone.                                                        *)
LEMMA AddValidatorMaps ==
  ASSUME IInv, NEW v \in Account, NEW c \in Account, NEW authorize \in BOOLEAN,
         AddValidator(v, c, authorize)
  PROVE  E!Block(v, c, CheckVote(c, authorize), Wish(Standing))
<1> DEFINE s == After(v, c, authorize)
<1>1. /\ v \in valSet /\ valSet' = valSet \cup {c}
      /\ votes' = {m \in s.votes : m.address # c}
      /\ Passed(s, c) /\ s.tally[c].authorize
  BY DEF AddValidator, Header
<1>2. E!Majority(E!Supporters(Wish(s), c))
  BY <1>1, MajorityPasses
<1>3. Wish(s) = (Wish(Standing) \ {<<v, c>>}) \cup {p \in {<<v, c>>} : CheckVote(c, authorize)}
        /\ Wish(Standing) \in {Wish(Now), {}}
  BY <1>1, WishAfter
<1>4. Exact(s)
  BY <1>1, AfterExact
<1> HIDE DEF s
<1>5. c \notin valSet
  <2>1. s.tally[c].votes > 0
    <3>1. Cardinality(valSet) \in Nat /\ s.tally[c].votes \in Nat
      BY <1>4, SnapshotAssumption, FS_Subset, FS_CardinalityType DEF IInv, TypeOK, Exact
    <3> QED  BY <1>1, <3>1 DEF Passed
  <2> QED  BY <1>1, <1>4, <2>1 DEF Exact, CheckVote
<1>6. {<<m.validator, m.address>> : m \in votes'} = {p \in Wish(s) : p[2] # c /\ p[1] \in valSet'}
  BY <1>1, <1>4 DEF Wish, Exact
<1>7. Wish(Now) = {<<m.validator, m.address>> : m \in votes}
  BY DEF Wish, Now
<1> QED  BY <1>1, <1>2, <1>3, <1>5, <1>6, <1>7 DEF E!Block

LEMMA RemoveValidatorMaps ==
  ASSUME IInv, NEW v \in Account, NEW c \in Account, NEW authorize \in BOOLEAN,
         RemoveValidator(v, c, authorize)
  PROVE  E!Block(v, c, CheckVote(c, authorize), Wish(Standing))
<1> DEFINE s == After(v, c, authorize)
<1>1. /\ v \in valSet /\ valSet' = valSet \ {c}
      /\ votes' = {m \in s.votes : m.validator # c /\ m.address # c}
      /\ Passed(s, c) /\ ~ s.tally[c].authorize
  BY DEF RemoveValidator, Header
<1>2. E!Majority(E!Supporters(Wish(s), c))
  BY <1>1, MajorityPasses
<1>3. Wish(s) = (Wish(Standing) \ {<<v, c>>}) \cup {p \in {<<v, c>>} : CheckVote(c, authorize)}
        /\ Wish(Standing) \in {Wish(Now), {}}
  BY <1>1, WishAfter
<1>4. Exact(s)
  BY <1>1, AfterExact
<1> HIDE DEF s
<1>5. c \in valSet
  <2>1. s.tally[c].votes > 0 /\ s.tally[c].authorize \in BOOLEAN
    <3>1. Cardinality(valSet) \in Nat /\ s.tally[c].votes \in Nat
      BY <1>4, SnapshotAssumption, FS_Subset, FS_CardinalityType DEF IInv, TypeOK, Exact
    <3>2. s.tally[c].authorize \in BOOLEAN
      BY <1>4 DEF Exact
    <3> QED  BY <1>1, <3>1, <3>2 DEF Passed
  <2> QED  BY <1>1, <1>4, <2>1 DEF Exact, CheckVote
<1>6. {<<m.validator, m.address>> : m \in votes'} = {p \in Wish(s) : p[2] # c /\ p[1] \in valSet'}
  BY <1>1, <1>4 DEF Wish, Exact
<1>7. Wish(Now) = {<<m.validator, m.address>> : m \in votes}
  BY DEF Wish, Now
<1> QED  BY <1>1, <1>2, <1>3, <1>5, <1>6, <1>7 DEF E!Block

(* Every header of a chain is a step of the voting as its users know it: the *)
(* set of validators changes when, and only when, more than half of those    *)
(* that are validators have the wish, whoever of them said it how often.     *)
THEOREM SnapshotImplementsElection == Spec => Implements
<1>1. Init => E!Init
  BY DEF Init, Fresh, E!Init
<1>2. IInv /\ [Next]_vars => [E!Next]_(E!evars)
  <2> SUFFICES ASSUME IInv, [Next]_vars PROVE [E!Next]_(E!evars)
    OBVIOUS
  <2>1. CASE UNCHANGED vars
    BY <2>1 DEF vars, E!evars
  <2>2. ASSUME NEW v \in Account, NEW c \in Account, NEW authorize \in BOOLEAN,
               E!Block(v, c, CheckVote(c, authorize), Wish(Standing))
        PROVE  E!Next
    <3> DEFINE wanted == CheckVote(c, authorize)
               old == Wish(Standing)
    <3>1. wanted \in BOOLEAN
      BY DEF CheckVote
    <3>2. old \in {{<<m.validator, m.address>> : m \in votes}, {}}
      BY DEF Standing, Fresh, Wish
    <3>3. E!Block(v, c, wanted, old)
      BY <2>2
    <3> HIDE DEF wanted, old
    <3>4. ASSUME NEW w \in BOOLEAN, w = wanted,
                 NEW o \in {{<<m.validator, m.address>> : m \in votes}, {}}, o = old
          PROVE  E!Next
      <4>1. E!Block(v, c, w, o)
        BY <3>3, <3>4 DEF E!Block
      <4> QED  BY <4>1 DEF E!Next
    <3> QED  BY <3>1, <3>2, <3>4
  <2>3. CASE Next
    <3>1. PICK v \in Account, c \in Account, authorize \in BOOLEAN :
            \/ NoMajority(v, c, authorize)
            \/ AddValidator(v, c, authorize)
            \/ RemoveValidator(v, c, authorize)
      BY <2>3 DEF Next
    <3>2. E!Block(v, c, CheckVote(c, authorize), Wish(Standing))
      BY <3>1, NoMajorityMaps, AddValidatorMaps, RemoveValidatorMaps
    <3> QED  BY <2>2, <3>2
  <2> QED  BY <2>1, <2>3
<1> QED  BY <1>1, <1>2, Invariance, PTL DEF Spec, Implements, E!Spec
=============================================================================
