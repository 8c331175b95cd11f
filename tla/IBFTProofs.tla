----------------------------- MODULE IBFTProofs -----------------------------
(***************************************************************************)
(* Proofs about IBFT, for any validators, quorums that share a steady      *)
(* validator, payloads, heights and rounds.                                *)
(*                                                                         *)
(* The argument: what a steady validator has sent a COMMIT for it is       *)
(* locked on until its chain reaches that height, so it sends COMMITs for  *)
(* one block per height (VoteLocked, OneVote).  A committed block has the  *)
(* COMMITs of a quorum (DecidedCertified); an answer about an old block    *)
(* only repeats what was committed.  Two quorums share a steady validator, *)
(* so no two blocks of one height are committed.  That quorums share one   *)
(* is the only thing assumed of their size (QuorumsMeet), and follows from *)
(* the formulas of the code as the last part shows.                        *)
(***************************************************************************)
EXTENDS IBFT, FiniteSetTheorems, SequenceTheorems, TLAPS

Steady == Validator \ Forgetful
Decided == {c.block : c \in committed}
Certified(b) == SendersOf({m \in Votes : m.block = b}) \in Quorum
Supported(b, r) ==
  SendersOf({n \in prepares \cup commits : n.block = b /\ n.round = r}) \in Quorum

\* What a core holds fits the height it works on.
CoreFits ==
  \A v \in Validator :
    /\ sequence[v] <= Len(tip[v]) + 1
    /\ proposal[v] # NoBlock =>
         /\ Len(proposal[v]) = sequence[v]
         /\ OnChain(v, Parent(proposal[v]))
    /\ ~ waiting[v] /\ state[v] # "AcceptRequest" => proposal[v] # NoBlock

\* A steady validator is locked on what it has sent a COMMIT for at its height.
VoteLocked ==
  \A m \in Votes :
    m.from \in Steady =>
      /\ Len(m.block) <= sequence[m.from]
      /\ Len(m.block) = sequence[m.from] => locked[m.from] = m.block

\* It sends COMMITs for one block of a height.
OneVote ==
  \A m, n \in Votes :
    m.from = n.from /\ m.from \in Steady /\ Len(m.block) = Len(n.block)
      => m.block = n.block

\* Its votes of the current view are for its proposal; there are none before
\* it has accepted one, and none later than the view.
VotesOfView ==
  \A m \in prepares \cup Votes :
    m.from \in Steady =>
      /\ \/ Len(m.block) < sequence[m.from]
         \/ Len(m.block) = sequence[m.from] /\ m.round <= round[m.from]
      /\ Len(m.block) = sequence[m.from] /\ m.round = round[m.from] =>
           /\ ~ waiting[m.from] /\ state[m.from] # "AcceptRequest"
           /\ proposal[m.from] = m.block

\* A lock was taken on the votes of a quorum.
LockSupported ==
  \A v \in Validator :
    locked[v] # NoBlock => \E r \in 0 .. round[v] : Supported(locked[v], r)

\* Committed blocks have the COMMITs of a quorum, on top of committed blocks.
DecidedCertified ==
  \A b \in Decided : Certified(b) /\ Parent(b) \in Decided \cup {NoBlock}

\* Chains are made of committed blocks, and old blocks are from chains.
ChainsDecided ==
  /\ \A v \in Validator : \A i \in 1 .. Len(tip[v]) : SubSeq(tip[v], 1, i) \in Decided
  /\ \A m \in commits : m.old => m.block \in Decided

\* The inductive invariant.
IInv ==
  /\ TypeOK /\ LockIsProposal /\ CoreFits
  /\ VoteLocked /\ OneVote /\ VotesOfView /\ VotesOnce
  /\ LockSupported /\ CommitJustified
  /\ DecidedCertified /\ ChainsDecided

-----------------------------------------------------------------------------
(* Blocks as sequences                                                       *)

\* The first i payloads of a block.
LEMMA PrefixFacts ==
  ASSUME NEW b \in Seq(Payload), NEW i \in 0 .. Len(b)
  PROVE  /\ SubSeq(b, 1, i) \in Seq(Payload)
         /\ Len(SubSeq(b, 1, i)) = i
         /\ \A j \in 1 .. i : SubSeq(b, 1, i)[j] = b[j]
  <1>1. \A j \in 1 .. i : b[j] \in Payload
    BY ElementOfSeq, LenProperties
  <1>2. /\ SubSeq(b, 1, i) \in Seq(Payload)
        /\ Len(SubSeq(b, 1, i)) = IF 1 <= i THEN i - 1 + 1 ELSE 0
        /\ \A j \in 1 .. i - 1 + 1 : SubSeq(b, 1, i)[j] = b[1 + j - 1]
    BY <1>1, SubSeqProperties, LenProperties
  <1> QED BY <1>2, LenProperties

\* A prefix of a prefix is a prefix.
LEMMA PrefixOfPrefix ==
  ASSUME NEW b \in Seq(Payload), NEW j \in 0 .. Len(b), NEW i \in 0 .. j
  PROVE  SubSeq(SubSeq(b, 1, j), 1, i) = SubSeq(b, 1, i)
  <1>1. Len(b) \in Nat
    BY LenProperties
  <1> DEFINE c == SubSeq(b, 1, j)
  <1>2. c \in Seq(Payload) /\ Len(c) = j /\ \A k \in 1 .. j : c[k] = b[k]
    BY PrefixFacts
  <1>3. /\ SubSeq(c, 1, i) \in Seq(Payload)
        /\ Len(SubSeq(c, 1, i)) = i
        /\ \A k \in 1 .. i : SubSeq(c, 1, i)[k] = c[k]
    <2> HIDE DEF c
    <2> QED BY <1>2, PrefixFacts
  <1>4. /\ SubSeq(b, 1, i) \in Seq(Payload)
        /\ Len(SubSeq(b, 1, i)) = i
        /\ \A k \in 1 .. i : SubSeq(b, 1, i)[k] = b[k]
    BY <1>1, PrefixFacts
  <1>5. \A k \in 1 .. i : SubSeq(c, 1, i)[k] = SubSeq(b, 1, i)[k]
    BY <1>1, <1>2, <1>3, <1>4
  <1> HIDE DEF c
  <1>6. SubSeq(c, 1, i) = SubSeq(b, 1, i)
    BY <1>3, <1>4, <1>5, SeqEqual
  <1> QED BY <1>6 DEF c

\* A block is its last payload on top of its parent.
LEMMA ParentFacts ==
  ASSUME NEW b \in Seq(Payload), b # NoBlock
  PROVE  /\ Len(b) \in Nat \ {0}
         /\ Parent(b) \in Seq(Payload)
         /\ Len(Parent(b)) = Len(b) - 1
         /\ b[Len(b)] \in Payload
         /\ Append(Parent(b), b[Len(b)]) = b
         /\ \A i \in 1 .. Len(b) - 1 : SubSeq(b, 1, i) = SubSeq(Parent(b), 1, i)
         /\ SubSeq(b, 1, Len(b)) = b
  <1>1. Len(b) \in Nat \ {0} /\ Len(b) - 1 \in 0 .. Len(b) /\ Len(b) \in 1 .. Len(b)
    BY EmptySeq DEF NoBlock
  <1>2. b[Len(b)] \in Payload
    BY <1>1, ElementOfSeq
  <1>3. /\ Parent(b) \in Seq(Payload)
        /\ Len(Parent(b)) = Len(b) - 1
        /\ \A j \in 1 .. Len(b) - 1 : Parent(b)[j] = b[j]
    BY <1>1, PrefixFacts DEF Parent
  <1> DEFINE a == Append(Parent(b), b[Len(b)])
  <1>4. /\ a \in Seq(Payload)
        /\ Len(a) = Len(Parent(b)) + 1
        /\ \A i \in 1 .. Len(Parent(b)) : a[i] = Parent(b)[i]
        /\ a[Len(Parent(b)) + 1] = b[Len(b)]
    BY <1>2, <1>3, AppendProperties
  <1>5. Len(a) = Len(b) /\ \A i \in 1 .. Len(b) : a[i] = b[i]
    <2> HIDE DEF a
    <2> QED BY <1>1, <1>3, <1>4
  <1>6. a = b
    <2> HIDE DEF a
    <2> QED BY <1>4, <1>5, SeqEqual
  <1>7. \A i \in 1 .. Len(b) - 1 : SubSeq(b, 1, i) = SubSeq(Parent(b), 1, i)
    BY <1>1, PrefixOfPrefix DEF Parent
  <1>8. SubSeq(b, 1, Len(b)) = b
    BY SubSeqFull
  <1> QED BY <1>1, <1>2, <1>3, <1>6, <1>7, <1>8

\* A payload put on a block makes a block whose parent it is.
LEMMA AppendFacts ==
  ASSUME NEW b \in Seq(Payload), NEW p \in Payload
  PROVE  /\ Append(b, p) \in Seq(Payload)
         /\ Append(b, p) # NoBlock
         /\ Len(Append(b, p)) = Len(b) + 1
         /\ Parent(Append(b, p)) = b
  <1> DEFINE c == Append(b, p)
  <1>1. c \in Seq(Payload) /\ c # NoBlock /\ Len(c) = Len(b) + 1
    BY AppendProperties DEF NoBlock
  <1>2. Append(Parent(c), c[Len(c)]) = c /\ Parent(c) \in Seq(Payload) /\ c[Len(c)] \in Payload
    <2> HIDE DEF c
    <2> QED BY <1>1, ParentFacts
  <1>3. Parent(c) = b
    BY <1>2, AppendInjective
  <1> QED BY <1>1, <1>3

-----------------------------------------------------------------------------
(* Quorums and chains                                                        *)

\* Validators that include a quorum are a quorum.
LEMMA QuorumGrows ==
  ASSUME NEW Q \in Quorum, NEW S \in SUBSET Validator, Q \subseteq S
  PROVE  S \in Quorum
  <1>1. IsFiniteSet(S) /\ Cardinality(S) \in Nat
    BY IBFTAssumption, FS_Subset, FS_CardinalityType
  <1>2. Cardinality(Q) <= Cardinality(S) /\ Cardinality(Q) \in Nat
    BY <1>1, FS_Subset, FS_CardinalityType
  <1>3. N \in Nat
    BY IBFTAssumption, FS_CardinalityType DEF N
  <1>4. QuorumSize \in Int
    BY <1>3 DEF QuorumSize, F
  <1> QED BY <1>1, <1>2, <1>4 DEF Quorum

\* Senders are validators.
LEMMA SendersAreValidators ==
  ASSUME TypeOK
  PROVE  /\ \A ms \in SUBSET (prepares \cup commits) : SendersOf(ms) \in SUBSET Validator
         /\ Votes \subseteq commits
  BY DEF TypeOK, SendersOf, Votes

\* The COMMITs of two quorums at one height are for one block.
LEMMA CertifiedOnce ==
  ASSUME QuorumsMeet, TypeOK, OneVote, NEW b, NEW c, Certified(b), Certified(c), Len(b) = Len(c)
  PROVE  b = c
  <1>1. PICK v \in Steady : /\ v \in SendersOf({m \in Votes : m.block = b})
                            /\ v \in SendersOf({m \in Votes : m.block = c})
    BY DEF Certified, QuorumsMeet, Quorum, Steady
  <1>2. PICK m \in Votes : m.from = v /\ m.block = b
    BY <1>1 DEF SendersOf
  <1>3. PICK n \in Votes : n.from = v /\ n.block = c
    BY <1>1 DEF SendersOf
  <1> QED BY <1>1, <1>2, <1>3 DEF OneVote

\* The block a proposer builds on is on its chain.
LEMMA LastProposalFacts ==
  ASSUME TypeOK, CoreFits, NEW v \in Validator
  PROVE  /\ LastProposal(v) \in Seq(Payload)
         /\ Len(LastProposal(v)) = sequence[v] - 1
         /\ OnChain(v, LastProposal(v))
  <1>1. tip[v] \in Seq(Payload) /\ Len(tip[v]) \in Nat /\ sequence[v] \in Nat \ {0}
    BY IBFTAssumption, LenProperties DEF TypeOK, Block
  <1>2. sequence[v] - 1 \in 0 .. Len(tip[v])
    BY <1>1 DEF CoreFits
  <1> QED BY <1>1, <1>2, PrefixFacts DEF LastProposal, OnChain

\* A chain that grows keeps its blocks.
LEMMA ChainGrows ==
  ASSUME NEW t \in Seq(Payload), NEW c \in Seq(Payload), c # NoBlock, Parent(c) = t,
         NEW b, Len(b) \in Nat, Len(b) <= Len(t), b = SubSeq(t, 1, Len(b))
  PROVE  Len(b) <= Len(c) /\ b = SubSeq(c, 1, Len(b))
  <1>1. Len(c) \in Nat \ {0} /\ Len(t) = Len(c) - 1
    BY ParentFacts
  <1>2. SubSeq(SubSeq(c, 1, Len(c) - 1), 1, Len(b)) = SubSeq(c, 1, Len(b))
    BY <1>1, PrefixOfPrefix
  <1> QED BY <1>1, <1>2 DEF Parent

-----------------------------------------------------------------------------
(* Types                                                                     *)

Commits == [from : Validator, round : Round, block : Block \ {NoBlock},
            sound : BOOLEAN, old : BOOLEAN]

\* A COMMIT that is put together from typed parts is typed.
LEMMA CommitType ==
  \A v \in Validator, r \in Round, b \in Block \ {NoBlock}, s, o \in BOOLEAN :
    [from |-> v, round |-> r, block |-> b, sound |-> s, old |-> o] \in Commits
  BY Zenon DEF Commits

LEMMA TypeStep ==
  ASSUME TypeOK, LockIsProposal, CoreFits, [Next]_vars
  PROVE  TypeOK'
  <1> USE IBFTAssumption
  <1>0. CASE UNCHANGED vars
    BY <1>0 DEF TypeOK, vars, core, msgs
  <1>1. SUFFICES ASSUME NEW v \in Validator, Step(v) PROVE TypeOK'
    BY <1>0, <1>1 DEF Next
  <1>2. /\ Len(tip[v]) \in Nat /\ Len(tip[v]) <= MaxHeight
        /\ sequence[v] \in Nat /\ round[v] \in Nat
        /\ NoBlock \in Block
        /\ round[v] \in Round /\ commits \subseteq Commits
    BY LenProperties, EmptySeq DEF TypeOK, Block, Round, NoBlock, Commits
  <1>3. ASSUME NEW p \in Payload, Request(v, p) PROVE TypeOK'
    <2>1. Append(LastProposal(v), p) \in Block \ {NoBlock}
      BY <1>2, <1>3, LastProposalFacts, AppendFacts DEF Request, Block
    <2>2. /\ UNCHANGED <<tip, sequence, round, waiting, lead, state, proposal, locked>>
          /\ UNCHANGED <<prepares, commits, changes, committed>>
      BY <1>3 DEF Request, core
    <2>3. [from |-> v, round |-> round[v], block |-> Append(LastProposal(v), p)]
            \in [from : Validator, round : Round, block : Block \ {NoBlock}]
      BY <2>1 DEF TypeOK
    <2>4. preprepares' \subseteq [from : Validator, round : Round, block : Block \ {NoBlock}]
      BY <1>3, <2>3 DEF Request, TypeOK
    <2> QED BY <2>2, <2>4 DEF TypeOK
  <1>4. ASSUME NEW m \in preprepares, AcceptProposal(v, m) PROVE TypeOK'
    BY <1>4 DEF AcceptProposal, TypeOK, States
  <1>5. ASSUME NEW m \in preprepares, AcceptLockedProposal(v, m) PROVE TypeOK'
    <2>1. m.block \in Block \ {NoBlock}
      BY DEF TypeOK
    <2>2. commits' \subseteq Commits
      BY <1>2, <1>5, <2>1, CommitType DEF AcceptLockedProposal, SendCommit
    <2> QED BY <1>5, <2>1, <2>2 DEF AcceptLockedProposal, TypeOK, States, Commits
  <1>6. ASSUME NEW r \in Round, RoundChange(v, r) PROVE TypeOK'
    <2>1. sequence[v] \in 1 .. MaxHeight + 1
      BY DEF TypeOK
    <2> QED BY <1>2, <1>6, <2>1 DEF RoundChange, TypeOK
  <1>7. ASSUME NEW m \in preprepares, RefuseProposal(v, m) PROVE TypeOK'
    <2>1. round[v] + 1 \in Round
      BY <1>2, <1>7 DEF RefuseProposal, RoundChange, Round
    <2> QED BY <1>6, <1>7, <2>1 DEF RefuseProposal
  <1>8. ASSUME NEW m \in preprepares, AnswerOldProposal(v, m) PROVE TypeOK'
    <2>1. /\ UNCHANGED <<tip, sequence, round, waiting, lead, state, proposal, locked>>
          /\ UNCHANGED <<preprepares, prepares, changes, committed>>
      BY <1>8 DEF AnswerOldProposal, core
    <2>2. m.block \in Block \ {NoBlock} /\ m.round \in Round
      BY DEF TypeOK
    <2>3. commits' \subseteq Commits
      <3>1. (proposal[v] = m.block) \in BOOLEAN
        OBVIOUS
      <3>2. [from |-> v, round |-> m.round, block |-> m.block,
             sound |-> proposal[v] = m.block, old |-> TRUE] \in Commits
        BY <2>2, <3>1, CommitType, Zenon
      <3> QED BY <1>2, <1>8, <3>2 DEF AnswerOldProposal
    <2> QED BY <2>1, <2>3 DEF TypeOK, Commits
  <1>9. ASSUME Prepared(v) PROVE TypeOK'
    <2>1. proposal[v] \in Block \ {NoBlock}
      BY <1>9 DEF Prepared, CoreFits, TypeOK
    <2>2. commits' \subseteq Commits
      BY <1>2, <1>9, <2>1, CommitType DEF Prepared, SendCommit
    <2> QED BY <1>9, <2>1, <2>2 DEF Prepared, TypeOK, States, Commits
  <1>10. ASSUME NEW Q \in SUBSET AboutProposal(v, commits), Commit(v, Q) PROVE TypeOK'
    <2>1. proposal[v] \in Block \ {NoBlock}
      BY <1>10 DEF Commit, CoreFits, TypeOK
    <2>2. [by |-> v, block |-> proposal[v], sound |-> \A m \in Q : m.sound]
            \in [by : Validator, block : Block \ {NoBlock}, sound : BOOLEAN]
      BY <2>1, Zenon
    <2>3. committed' \subseteq [by : Validator, block : Block \ {NoBlock}, sound : BOOLEAN]
      BY <1>10, <2>2 DEF Commit, TypeOK
    <2>4. UNCHANGED <<preprepares, prepares, commits, changes>>
      BY <1>10 DEF Commit, msgs
    <2> QED BY <1>10, <2>3, <2>4 DEF Commit, TypeOK, States
  <1>11. ASSUME NEW c \in committed, Import(v, c) PROVE TypeOK'
    BY <1>11 DEF Import, TypeOK, core, msgs
  <1>12. ASSUME NewSequence(v) PROVE TypeOK'
    <2>1. UNCHANGED <<tip, preprepares, prepares, commits, changes, committed>>
      BY <1>12 DEF NewSequence, msgs
    <2>2. Len(tip[v]) + 1 \in 1 .. MaxHeight + 1 /\ 0 \in Round
      BY <1>2 DEF Round
    <2> QED BY <1>2, <1>12, <2>1, <2>2 DEF NewSequence, TypeOK, States
  <1>13. ASSUME NEW r \in 1 .. MaxRound, NewRound(v, r) PROVE TypeOK'
    <2>1. r \in Round
      BY DEF Round
    <2>2. locked[v] # NoBlock => proposal[v] \in Block \ {NoBlock}
      BY DEF LockIsProposal, TypeOK
    <2> QED BY <1>2, <1>13, <2>1, <2>2 DEF NewRound, TypeOK, States
  <1>14. ASSUME Timeout(v) PROVE TypeOK'
    <2>1. \A r \in round[v] + 1 .. MaxRound : r \in Round
      BY <1>2 DEF Round
    <2>2. RoundChange(v, round[v] + 1) => round[v] + 1 \in Round
      BY <1>2 DEF RoundChange, Round
    <2> QED BY <1>6, <1>12, <1>14, <2>1, <2>2 DEF Timeout
  <1>15. ASSUME NEW r \in 1 .. MaxRound, CatchUp(v, r) PROVE TypeOK'
    BY <1>6, <1>15 DEF CatchUp, Round
  <1>16. ASSUME NEW r \in 1 .. MaxRound, QuorumForRound(v, r) PROVE TypeOK'
    BY <1>12, <1>13, <1>16 DEF QuorumForRound
  <1>17. ASSUME FinalCommitted(v) \/ Restart(v) PROVE TypeOK'
    BY <1>12, <1>17 DEF FinalCommitted, Restart
  <1> QED
    BY <1>1, <1>3, <1>4, <1>5, <1>7, <1>8, <1>9, <1>10, <1>11, <1>14, <1>15, <1>16, <1>17
       DEF Step, HandlePreprepare

-----------------------------------------------------------------------------
(* Cores                                                                     *)

LEMMA CoreStep ==
  ASSUME TypeOK, LockIsProposal, CoreFits, [Next]_vars
  PROVE  LockIsProposal' /\ CoreFits'
  <1> DEFINE G == LockIsProposal' /\ CoreFits'
  <1>0. CASE UNCHANGED vars
    BY <1>0 DEF LockIsProposal, CoreFits, OnChain, vars, core
  <1>1. SUFFICES ASSUME NEW v \in Validator, Step(v) PROVE G
    BY <1>0, <1>1 DEF Next
  <1> HIDE DEF G
  <1>2. /\ tip \in [Validator -> Block] /\ sequence \in [Validator -> Nat]
        /\ waiting \in [Validator -> BOOLEAN] /\ state \in [Validator -> States]
        /\ proposal \in [Validator -> Block] /\ locked \in [Validator -> Block]
        /\ tip[v] \in Seq(Payload) /\ Len(tip[v]) \in Nat
    BY IBFTAssumption, LenProperties DEF TypeOK, Block
  <1>3. ASSUME UNCHANGED <<tip, sequence, waiting, state, proposal, locked>> PROVE G
    BY <1>3 DEF G, LockIsProposal, CoreFits, OnChain
  <1>4. ASSUME NEW m \in preprepares, AcceptProposal(v, m) \/ AcceptLockedProposal(v, m)
        PROVE  G
    <2>1. /\ Len(m.block) = sequence[v] /\ OnChain(v, Parent(m.block))
          /\ locked[v] # NoBlock => locked[v] = m.block
          /\ proposal' = [proposal EXCEPT ![v] = m.block]
          /\ UNCHANGED <<tip, sequence, waiting, locked>>
          /\ \E s \in States : state' = [state EXCEPT ![v] = s]
          /\ ~ waiting[v]
      BY <1>4 DEF AcceptProposal, AcceptLockedProposal, Proposed, InView, States
    <2>2. m.block # NoBlock
      BY DEF TypeOK
    <2> QED BY <1>2, <2>1, <2>2 DEF G, LockIsProposal, CoreFits, OnChain
  <1>5. ASSUME NEW r, RoundChange(v, r) \/ NewRound(v, r) PROVE G
    BY <1>2, <1>5 DEF G, RoundChange, NewRound, LockIsProposal, CoreFits, OnChain
  <1>6. ASSUME Prepared(v) \/ \E Q \in SUBSET AboutProposal(v, commits) : Commit(v, Q)
        PROVE  G
    <2>1. /\ locked' = [locked EXCEPT ![v] = proposal[v]]
          /\ \E s \in States : state' = [state EXCEPT ![v] = s]
          /\ UNCHANGED <<tip, sequence, waiting, proposal>>
          /\ state[v] # "AcceptRequest"
      BY <1>6 DEF Prepared, Commit, States
    <2> QED BY <1>2, <2>1 DEF G, LockIsProposal, CoreFits, OnChain
  <1>7. ASSUME NEW c \in committed, Import(v, c) PROVE G
    <2>1. /\ c.block \in Seq(Payload) /\ c.block # NoBlock /\ Parent(c.block) = tip[v]
          /\ tip' = [tip EXCEPT ![v] = c.block]
          /\ UNCHANGED <<sequence, waiting, state, proposal, locked>>
      BY <1>7 DEF Import, TypeOK, Block, core
    <2>2. Len(tip[v]) <= Len(c.block) /\ Len(c.block) \in Nat
      BY <1>2, <2>1, ParentFacts
    <2>3. \A w \in Validator : sequence'[w] <= Len(tip'[w]) + 1
      BY <1>2, <2>1, <2>2 DEF CoreFits
    <2>4. ASSUME NEW w \in Validator, proposal[w] # NoBlock
          PROVE  Len(Parent(proposal[w])) <= Len(tip'[w])
                 /\ Parent(proposal[w]) = SubSeq(tip'[w], 1, Len(Parent(proposal[w])))
      <3>1. /\ Len(Parent(proposal[w])) <= Len(tip[w])
            /\ Parent(proposal[w]) = SubSeq(tip[w], 1, Len(Parent(proposal[w])))
        BY <2>4 DEF CoreFits, OnChain
      <3>2. Len(Parent(proposal[w])) \in Nat
        BY <1>2, <2>4, ParentFacts DEF Block
      <3>3. CASE w = v
        BY <1>2, <2>1, <3>1, <3>2, <3>3, ChainGrows
      <3> QED BY <1>2, <2>1, <3>1, <3>3
    <2> QED BY <2>1, <2>3, <2>4 DEF G, LockIsProposal, CoreFits, OnChain
  <1>8. ASSUME NewSequence(v) PROVE G
    BY <1>2, <1>8 DEF G, NewSequence, LockIsProposal, CoreFits, OnChain
  <1>9. ASSUME NEW p \in Payload, Request(v, p) PROVE G
    BY <1>3, <1>9 DEF Request, core
  <1>10. ASSUME NEW m \in preprepares, AnswerOldProposal(v, m) PROVE G
    BY <1>3, <1>10 DEF AnswerOldProposal, core
  <1> QED
    BY <1>1, <1>4, <1>5, <1>6, <1>7, <1>8, <1>9, <1>10
       DEF Step, HandlePreprepare, RefuseProposal, Timeout, CatchUp, QuorumForRound,
           FinalCommitted, Restart

-----------------------------------------------------------------------------
(* Votes of a steady validator                                               *)

LEMMA VoteStep ==
  ASSUME TypeOK, LockIsProposal, CoreFits,
         VoteLocked, OneVote, VotesOfView, VotesOnce, [Next]_vars
  PROVE  VoteLocked' /\ OneVote' /\ VotesOfView' /\ VotesOnce'
  <1> DEFINE G == VoteLocked' /\ OneVote' /\ VotesOfView' /\ VotesOnce'
  <1>0. CASE UNCHANGED vars
    BY <1>0 DEF VoteLocked, OneVote, VotesOfView, VotesOnce, Votes, vars, core, msgs
  <1>1. SUFFICES ASSUME NEW v \in Validator, Step(v) PROVE G
    BY <1>0, <1>1 DEF Next
  <1> HIDE DEF G
  <1>2. /\ tip \in [Validator -> Block] /\ sequence \in [Validator -> Nat]
        /\ round \in [Validator -> Nat] /\ Len(tip[v]) \in Nat
        /\ waiting \in [Validator -> BOOLEAN] /\ state \in [Validator -> States]
        /\ proposal \in [Validator -> Block] /\ locked \in [Validator -> Block]
        /\ \A m \in prepares \cup Votes :
             /\ m.from \in Validator /\ m.round \in Nat
             /\ m.block # NoBlock /\ Len(m.block) \in Nat
    <2>1. \A m \in prepares \cup Votes :
             m.from \in Validator /\ m.round \in Round /\ m.block \in Block \ {NoBlock}
      BY DEF TypeOK, Votes
    <2>2. \A b \in Block : Len(b) \in Nat
      BY LenProperties DEF Block
    <2>3. /\ tip \in [Validator -> Block] /\ sequence \in [Validator -> Nat]
          /\ round \in [Validator -> Nat]
          /\ waiting \in [Validator -> BOOLEAN] /\ state \in [Validator -> States]
          /\ proposal \in [Validator -> Block] /\ locked \in [Validator -> Block]
      BY IBFTAssumption DEF TypeOK, Round
    <2>4. \A m \in prepares \cup Votes : m.round \in Nat
      BY <2>1, IBFTAssumption DEF Round
    <2> QED BY <2>1, <2>2, <2>3, <2>4
  <1>3. ASSUME UNCHANGED <<sequence, round, waiting, state, proposal, locked>>,
               prepares' = prepares, Votes' = Votes
        PROVE  G
    BY <1>3 DEF G, VoteLocked, OneVote, VotesOfView, VotesOnce
  <1>4. ASSUME NEW r \in Nat, r > round[v], RoundChange(v, r) PROVE G
    <2>1. prepares' = prepares /\ Votes' = Votes
      BY <1>4 DEF RoundChange, Votes
    <2> QED BY <1>2, <1>4, <2>1
         DEF G, RoundChange, VoteLocked, OneVote, VotesOfView, VotesOnce
  <1>5. ASSUME NEW r \in Nat, round[v] < r \/ (waiting[v] /\ round[v] = r), NewRound(v, r)
        PROVE  G
    <2>1. prepares' = prepares /\ Votes' = Votes
      BY <1>5 DEF NewRound, Votes
    <2> QED BY <1>2, <1>5, <2>1
         DEF G, NewRound, VoteLocked, OneVote, VotesOfView, VotesOnce
  <1>6. ASSUME Behind(v) \/ v \in Forgetful, NewSequence(v) PROVE G
    <2>1. prepares' = prepares /\ Votes' = Votes
      BY <1>6 DEF NewSequence, Votes, msgs
    <2>2. v \in Steady => sequence'[v] > sequence[v]
      BY <1>2, <1>6 DEF NewSequence, Behind, Steady
    <2>3. /\ sequence' = [sequence EXCEPT ![v] = Len(tip[v]) + 1]
          /\ \A w \in Validator \ {v} :
               /\ round'[w] = round[w] /\ waiting'[w] = waiting[w]
               /\ state'[w] = state[w] /\ proposal'[w] = proposal[w]
               /\ locked'[w] = locked[w]
      BY <1>2, <1>6 DEF NewSequence
    <2>4. VoteLocked' /\ OneVote' /\ VotesOnce'
      BY <1>2, <2>1, <2>2, <2>3 DEF VoteLocked, OneVote, VotesOnce
    <2>5. VotesOfView'
      <3>1. SUFFICES ASSUME NEW m \in prepares \cup Votes, m.from \in Steady
                     PROVE  (/\ \/ Len(m.block) < sequence[m.from]
                                \/ Len(m.block) = sequence[m.from] /\ m.round <= round[m.from]
                             /\ Len(m.block) = sequence[m.from] /\ m.round = round[m.from] =>
                                  /\ ~ waiting[m.from] /\ state[m.from] # "AcceptRequest"
                                  /\ proposal[m.from] = m.block)'
        BY <2>1 DEF VotesOfView
      <3>2. CASE m.from = v
        <4>1. Len(m.block) \in Nat /\ sequence[v] \in Nat /\ sequence'[v] \in Nat
          BY <1>2, <2>3
        <4>2. Len(m.block) < sequence[v] \/ Len(m.block) = sequence[v]
          BY <3>1, <3>2 DEF VotesOfView
        <4>3. sequence'[v] > sequence[v]
          BY <2>2, <3>1, <3>2
        <4>4. Len(m.block) < sequence'[v]
          BY <4>1, <4>2, <4>3
        <4> QED BY <3>2, <4>1, <4>4
      <3>3. CASE m.from # v
        <4>1. m.from \in Validator \ {v} /\ sequence'[m.from] = sequence[m.from]
          BY <1>2, <2>3, <3>3
        <4> QED BY <2>3, <3>1, <4>1 DEF VotesOfView
      <3> QED BY <3>2, <3>3
    <2> QED BY <2>4, <2>5 DEF G
  <1>7. ASSUME NEW m \in preprepares, AcceptProposal(v, m) PROVE G
    <2> DEFINE n == [from |-> v, round |-> round[v], block |-> m.block]
    <2>1. /\ prepares' = prepares \cup {n} /\ Votes' = Votes
          /\ Len(m.block) = sequence[v] /\ ~ waiting[v] /\ state[v] = "AcceptRequest"
          /\ proposal' = [proposal EXCEPT ![v] = m.block]
          /\ state' = [state EXCEPT ![v] = "Preprepared"]
          /\ UNCHANGED <<sequence, round, waiting, locked>>
      BY <1>7 DEF AcceptProposal, Proposed, InView, Votes
    <2>2. n.from = v /\ n.round = round[v] /\ n.block = m.block
      OBVIOUS
    <2>3. VoteLocked' /\ OneVote'
      BY <2>1 DEF VoteLocked, OneVote
    <2> HIDE DEF n
    <2>4. VotesOfView'
      BY <1>2, <2>1, <2>2 DEF VotesOfView, Steady
    <2>5. VotesOnce'
      <3>1. \A k \in prepares \cup Votes :
              ~ (k.from = v /\ v \in Steady /\ Len(k.block) = Len(n.block) /\ k.round = n.round)
        BY <1>2, <2>1, <2>2 DEF VotesOfView
      <3>2. (prepares \cup Votes)' = (prepares \cup Votes) \cup {n}
        BY <2>1
      <3> QED BY <1>2, <2>2, <3>1, <3>2 DEF VotesOnce, Steady
    <2> QED BY <2>3, <2>4, <2>5 DEF G
  <1>8. ASSUME NEW m \in preprepares, AcceptLockedProposal(v, m) PROVE G
    <2> DEFINE n == [from |-> v, round |-> round[v], block |-> m.block,
                     sound |-> TRUE, old |-> FALSE]
    <2>1. /\ prepares' = prepares /\ commits' = commits \cup {n}
          /\ Len(m.block) = sequence[v] /\ ~ waiting[v] /\ state[v] = "AcceptRequest"
          /\ locked[v] = m.block
          /\ proposal' = [proposal EXCEPT ![v] = m.block]
          /\ state' = [state EXCEPT ![v] = "Prepared"]
          /\ UNCHANGED <<sequence, round, waiting, locked>>
      BY <1>8 DEF AcceptLockedProposal, SendCommit, Proposed, InView
    <2>2. n.from = v /\ n.round = round[v] /\ n.block = m.block /\ ~ n.old
      OBVIOUS
    <2> HIDE DEF n
    <2>3. Votes' = Votes \cup {n}
      BY <2>1, <2>2 DEF Votes
    <2>4. VoteLocked' /\ OneVote'
      BY <1>2, <2>1, <2>2, <2>3 DEF VoteLocked, OneVote
    <2>5. VotesOfView'
      BY <1>2, <2>1, <2>2, <2>3 DEF VotesOfView, Steady
    <2>6. VotesOnce'
      <3>1. \A k \in prepares \cup Votes :
              ~ (k.from = v /\ v \in Steady /\ Len(k.block) = Len(n.block) /\ k.round = n.round)
        BY <1>2, <2>1, <2>2 DEF VotesOfView
      <3>2. (prepares \cup Votes)' = (prepares \cup Votes) \cup {n}
        BY <2>1, <2>3
      <3> QED BY <1>2, <2>2, <3>1, <3>2 DEF VotesOnce, Steady
    <2> QED BY <2>4, <2>5, <2>6 DEF G
  <1>9. ASSUME Prepared(v) PROVE G
    <2> DEFINE n == [from |-> v, round |-> round[v], block |-> proposal[v],
                     sound |-> TRUE, old |-> FALSE]
    <2>1. /\ prepares' = prepares /\ commits' = commits \cup {n}
          /\ ~ waiting[v] /\ state[v] = "Preprepared"
          /\ locked' = [locked EXCEPT ![v] = proposal[v]]
          /\ state' = [state EXCEPT ![v] = "Prepared"]
          /\ UNCHANGED <<sequence, round, waiting, proposal>>
      BY <1>9 DEF Prepared, SendCommit
    <2>2. n.from = v /\ n.round = round[v] /\ n.block = proposal[v] /\ ~ n.old
      OBVIOUS
    <2> HIDE DEF n
    <2>3. Votes' = Votes \cup {n}
      BY <2>1, <2>2 DEF Votes
    <2>4. proposal[v] # NoBlock /\ Len(proposal[v]) = sequence[v]
      BY <2>1 DEF CoreFits
    <2>5. VoteLocked' /\ OneVote'
      BY <1>2, <2>1, <2>2, <2>3, <2>4 DEF VoteLocked, OneVote, LockIsProposal
    <2>6. VotesOfView'
      BY <1>2, <2>1, <2>2, <2>3, <2>4 DEF VotesOfView, Steady
    <2>7. VotesOnce'
      <3>1. \A k \in prepares \cup Votes :
              k.from = v /\ v \in Steady /\ Len(k.block) = Len(n.block) /\ k.round = n.round
                => k.block = n.block
        BY <1>2, <2>1, <2>2, <2>4 DEF VotesOfView
      <3>2. (prepares \cup Votes)' = (prepares \cup Votes) \cup {n}
        BY <2>1, <2>3
      <3> QED BY <1>2, <2>2, <3>1, <3>2 DEF VotesOnce, Steady
    <2> QED BY <2>5, <2>6, <2>7 DEF G
  <1>10. ASSUME NEW Q \in SUBSET AboutProposal(v, commits), Commit(v, Q) PROVE G
    <2>1. /\ prepares' = prepares /\ Votes' = Votes
          /\ ~ waiting[v] /\ state[v] # "AcceptRequest"
          /\ locked' = [locked EXCEPT ![v] = proposal[v]]
          /\ state' = [state EXCEPT ![v] = "Committed"]
          /\ UNCHANGED <<sequence, round, waiting, proposal>>
      BY <1>10 DEF Commit, msgs, Votes
    <2>2. VoteLocked' /\ OneVote'
      BY <1>2, <2>1 DEF VoteLocked, OneVote, LockIsProposal
    <2>3. VotesOfView' /\ VotesOnce'
      BY <1>2, <2>1 DEF VotesOfView, VotesOnce
    <2> QED BY <2>2, <2>3 DEF G
  <1>11. ASSUME NEW c \in committed, Import(v, c) PROVE G
    BY <1>3, <1>11 DEF Import, core, msgs, Votes
  <1>12. ASSUME NEW p \in Payload, Request(v, p) PROVE G
    BY <1>3, <1>12 DEF Request, core, Votes
  <1>13. ASSUME NEW m \in preprepares, AnswerOldProposal(v, m) PROVE G
    <2>1. UNCHANGED <<sequence, round, waiting, state, proposal, locked>> /\ prepares' = prepares
      BY <1>13 DEF AnswerOldProposal, core
    <2>2. Votes' = Votes
      BY <1>13 DEF AnswerOldProposal, Votes
    <2> QED BY <1>3, <2>1, <2>2
  <1>14. ASSUME NEW m \in preprepares, RefuseProposal(v, m) PROVE G
    BY <1>2, <1>4, <1>14 DEF RefuseProposal
  <1>15. ASSUME Timeout(v) PROVE G
    <2>1. ASSUME NEW r \in round[v] + 1 .. MaxRound, RoundChange(v, r) PROVE G
      BY <1>2, <1>4, <2>1, IBFTAssumption
    <2>2. RoundChange(v, round[v] + 1) => G
      BY <1>2, <1>4
    <2> QED BY <1>6, <1>15, <2>1, <2>2 DEF Timeout
  <1>16. ASSUME NEW r \in 1 .. MaxRound, CatchUp(v, r) \/ QuorumForRound(v, r) PROVE G
    <2>1. r \in Nat
      BY IBFTAssumption
    <2> QED BY <1>2, <1>4, <1>5, <1>6, <1>16, <2>1 DEF CatchUp, QuorumForRound
  <1>17. ASSUME FinalCommitted(v) \/ Restart(v) PROVE G
    BY <1>6, <1>17 DEF FinalCommitted, Restart
  <1> QED
    BY <1>1, <1>7, <1>8, <1>9, <1>10, <1>11, <1>12, <1>13, <1>14, <1>15, <1>16, <1>17
       DEF Step, HandlePreprepare

-----------------------------------------------------------------------------
(* Messages, locks and COMMITs                                               *)

\* Messages and committed blocks stay.
LEMMA MessagesStay ==
  ASSUME [Next]_vars
  PROVE  /\ prepares \subseteq prepares' /\ commits \subseteq commits'
         /\ committed \subseteq committed'
  <1>0. CASE UNCHANGED vars
    BY <1>0 DEF vars, msgs
  <1>1. SUFFICES ASSUME NEW v \in Validator, Step(v)
                 PROVE  /\ prepares \subseteq prepares' /\ commits \subseteq commits'
                        /\ committed \subseteq committed'
    BY <1>0, <1>1 DEF Next
  <1>2. \A r : RoundChange(v, r) \/ NewRound(v, r) \/ NewSequence(v) =>
          prepares' = prepares /\ commits' = commits /\ committed' = committed
    BY DEF RoundChange, NewRound, NewSequence, msgs
  <1>3. CASE \E m \in preprepares : HandlePreprepare(v, m)
    BY <1>2, <1>3 DEF HandlePreprepare, AcceptProposal, AcceptLockedProposal, SendCommit,
                      RefuseProposal, AnswerOldProposal
  <1>4. CASE \E p \in Payload : Request(v, p)
    BY <1>4 DEF Request
  <1>5. CASE Prepared(v) \/ \E Q \in SUBSET AboutProposal(v, commits) : Commit(v, Q)
    BY <1>5 DEF Prepared, SendCommit, Commit, msgs
  <1>6. CASE \E c \in committed : Import(v, c)
    BY <1>6 DEF Import, msgs
  <1> QED
    BY <1>1, <1>2, <1>3, <1>4, <1>5, <1>6
       DEF Step, FinalCommitted, Timeout, CatchUp, QuorumForRound, Restart

\* So what a quorum supports or certifies, it goes on supporting or certifying.
LEMMA SupportStays ==
  ASSUME TypeOK, TypeOK', [Next]_vars, NEW b, NEW r
  PROVE  (Supported(b, r) => Supported(b, r)') /\ (Certified(b) => Certified(b)')
  <1>1. prepares \subseteq prepares' /\ commits \subseteq commits'
    BY MessagesStay
  <1> DEFINE S == {n \in prepares \cup commits : n.block = b /\ n.round = r}
             C == {m \in Votes : m.block = b}
  <1>2. SendersOf(S) \subseteq SendersOf(S') /\ SendersOf(C) \subseteq SendersOf(C')
    BY <1>1 DEF SendersOf, Votes
  <1>3. SendersOf(S') \in SUBSET Validator /\ SendersOf(C') \in SUBSET Validator
    BY DEF SendersOf, Votes, TypeOK
  <1>4. SendersOf(S) \in Quorum => SendersOf(S') \in Quorum
    BY <1>2, <1>3, QuorumGrows
  <1>5. SendersOf(C) \in Quorum => SendersOf(C') \in Quorum
    BY <1>2, <1>3, QuorumGrows
  <1> QED BY <1>4, <1>5 DEF Supported, Certified, SendersOf

\* Where COMMITs about its proposal come from a quorum, that supports it.
LEMMA ProposalSupported ==
  ASSUME TypeOK, NEW v \in Validator,
         \/ SendersOf(AboutProposal(v, prepares) \cup AboutProposal(v, commits)) \in Quorum
         \/ \E Q \in SUBSET AboutProposal(v, commits) : SendersOf(Q) \in Quorum
  PROVE  Supported(proposal[v], round[v])
  <1> DEFINE S == {n \in prepares \cup commits : n.block = proposal[v] /\ n.round = round[v]}
  <1>1. AboutProposal(v, prepares) \cup AboutProposal(v, commits) = S
    BY DEF AboutProposal
  <1>2. SendersOf(S) \in SUBSET Validator
    BY SendersAreValidators
  <1>3. \A Q \in SUBSET AboutProposal(v, commits) : SendersOf(Q) \subseteq SendersOf(S)
    BY DEF AboutProposal, SendersOf
  <1> QED BY <1>1, <1>2, <1>3, QuorumGrows DEF Supported

LEMMA SupportStep ==
  ASSUME TypeOK, TypeOK', LockIsProposal, CoreFits, LockSupported, CommitJustified,
         [Next]_vars
  PROVE  LockSupported' /\ CommitJustified'
  <1> DEFINE G == LockSupported' /\ CommitJustified'
             \* Supported in the next state
             Then(b, r) ==
               SendersOf({n \in prepares' \cup commits' : n.block = b /\ n.round = r}) \in Quorum
  <1>a. \A b, r : Supported(b, r) => Then(b, r)
    BY SupportStays DEF Supported
  <1>b. \A m \in Votes : \E r \in 0 .. m.round : Supported(m.block, r)
    BY DEF CommitJustified, Supported
  <1>c. (\A m \in Votes' : \E r \in 0 .. m.round : Then(m.block, r)) => CommitJustified'
    BY DEF CommitJustified
  <1>d. (\A u \in Validator : locked'[u] # NoBlock =>
           \E r \in 0 .. round'[u] : Then(locked'[u], r)) => LockSupported'
    BY DEF LockSupported, Supported
  <1>e. \A m \in Votes : \E r \in 0 .. m.round : Then(m.block, r)
    BY <1>a, <1>b
  <1> HIDE DEF G, Then
  <1>0. CASE UNCHANGED vars
    <2>1. Votes' = Votes /\ locked' = locked /\ round' = round
      BY <1>0 DEF vars, core, msgs, Votes
    <2> QED BY <1>a, <1>c, <1>d, <1>e, <2>1 DEF LockSupported
  <1>1. SUFFICES ASSUME NEW v \in Validator, Step(v) PROVE G
    BY <1>0, <1>1 DEF Next, G
  <1>2. /\ round \in [Validator -> Nat] /\ proposal \in [Validator -> Block]
        /\ locked \in [Validator -> Block]
    BY IBFTAssumption DEF TypeOK, Round
  \* v's lock stays or is given up, and its round does not go back under a lock
  <1>3. ASSUME locked'[v] # NoBlock => locked'[v] = locked[v] /\ round'[v] >= round[v],
               \A u \in Validator \ {v} : locked'[u] = locked[u] /\ round'[u] = round[u],
               round'[v] \in Nat
        PROVE  LockSupported'
    <2>1. SUFFICES ASSUME NEW u \in Validator, locked'[u] # NoBlock
                   PROVE  \E r \in 0 .. round'[u] : Then(locked'[u], r)
      BY <1>d
    <2>2. locked'[u] = locked[u] /\ round'[u] >= round[u] /\ round'[u] \in Nat
      BY <1>2, <1>3, <2>1
    <2>3. PICK r \in 0 .. round[u] : Supported(locked[u], r)
      BY <2>1, <2>2 DEF LockSupported
    <2>4. r \in 0 .. round'[u]
      BY <1>2, <2>2, <2>3
    <2> QED BY <1>a, <2>2, <2>3, <2>4
  <1>4. ASSUME Votes' = Votes PROVE CommitJustified'
    BY <1>c, <1>e, <1>4
  <1>5. ASSUME NEW r \in Nat, RoundChange(v, r), r > round[v] PROVE G
    <2>1. Votes' = Votes
      BY <1>5 DEF RoundChange, Votes
    <2> QED BY <1>2, <1>3, <1>4, <1>5, <2>1 DEF RoundChange, G
  <1>6. ASSUME NEW r \in Nat, NewRound(v, r), r >= round[v] PROVE G
    <2>1. Votes' = Votes
      BY <1>6 DEF NewRound, Votes
    <2> QED BY <1>2, <1>3, <1>4, <1>6, <2>1 DEF NewRound, G
  <1>7. ASSUME NewSequence(v) PROVE G
    <2>1. Votes' = Votes
      BY <1>7 DEF NewSequence, msgs, Votes
    <2> QED BY <1>2, <1>3, <1>4, <1>7, <2>1 DEF NewSequence, G
  <1>8. ASSUME UNCHANGED <<round, locked>>, Votes' = Votes PROVE G
    BY <1>2, <1>3, <1>4, <1>8 DEF G
  <1>9. ASSUME NEW m \in preprepares, AcceptLockedProposal(v, m) PROVE G
    <2> DEFINE n == [from |-> v, round |-> round[v], block |-> m.block,
                     sound |-> TRUE, old |-> FALSE]
    <2>1. /\ commits' = commits \cup {n} /\ locked[v] = m.block
          /\ UNCHANGED <<round, locked>>
      BY <1>9 DEF AcceptLockedProposal, SendCommit
    <2>2. n.round = round[v] /\ n.block = m.block /\ m.block # NoBlock
      BY DEF TypeOK
    <2> HIDE DEF n
    <2>3. \A k \in Votes' : k \in Votes \/ k = n
      BY <2>1 DEF Votes
    <2>4. \E r \in 0 .. n.round : Then(n.block, r)
      BY <1>a, <2>1, <2>2 DEF LockSupported
    <2>5. CommitJustified'
      BY <1>c, <1>e, <2>3, <2>4
    <2> QED BY <1>2, <1>3, <2>1, <2>5 DEF G
  \* v's lock is taken on its proposal
  <1>10. ASSUME UNCHANGED round, locked' = [locked EXCEPT ![v] = proposal[v]],
                Supported(proposal[v], round[v])
         PROVE  LockSupported'
    <2>1. SUFFICES ASSUME NEW u \in Validator, locked'[u] # NoBlock
                   PROVE  \E r \in 0 .. round'[u] : Then(locked'[u], r)
      BY <1>d
    <2>2. CASE u = v
      BY <1>2, <1>10, <1>a, <2>2
    <2>3. CASE u # v
      BY <1>2, <1>10, <1>a, <2>1, <2>3 DEF LockSupported
    <2> QED BY <2>2, <2>3
  <1>11. ASSUME Prepared(v) PROVE G
    <2> DEFINE n == [from |-> v, round |-> round[v], block |-> proposal[v],
                     sound |-> TRUE, old |-> FALSE]
    <2>1. /\ commits' = commits \cup {n} /\ UNCHANGED round
          /\ locked' = [locked EXCEPT ![v] = proposal[v]]
          /\ proposal[v] # NoBlock
      BY <1>11 DEF Prepared, SendCommit, CoreFits
    <2>2. n.round = round[v] /\ n.block = proposal[v]
      OBVIOUS
    <2> HIDE DEF n
    <2>3. \A k \in Votes' : k \in Votes \/ k = n
      BY <2>1 DEF Votes
    <2>4. locked[v] = proposal[v] \/ Supported(proposal[v], round[v])
      BY <1>11, ProposalSupported DEF Prepared
    <2>5. \E r \in 0 .. n.round : Then(n.block, r)
      BY <1>2, <1>a, <2>1, <2>2, <2>4 DEF LockSupported
    <2>6. CommitJustified'
      BY <1>c, <1>e, <2>3, <2>5
    <2>7. CASE locked[v] = proposal[v]
      BY <1>2, <1>3, <2>1, <2>6, <2>7 DEF G
    <2>8. CASE locked[v] # proposal[v]
      BY <1>10, <2>1, <2>4, <2>6, <2>8 DEF G
    <2> QED BY <2>7, <2>8
  <1>12. ASSUME NEW Q \in SUBSET AboutProposal(v, commits), Commit(v, Q) PROVE G
    <2>1. Votes' = Votes
      BY <1>12 DEF Commit, msgs, Votes
    <2>2. Supported(proposal[v], round[v])
      BY <1>12, ProposalSupported DEF Commit
    <2> QED BY <1>4, <1>10, <1>12, <2>1, <2>2 DEF Commit, G
  <1>13. ASSUME NEW m \in preprepares,
                AcceptProposal(v, m) \/ AnswerOldProposal(v, m)
         PROVE  G
    BY <1>8, <1>13 DEF AcceptProposal, AnswerOldProposal, core, Votes
  <1>14. ASSUME (\E p \in Payload : Request(v, p)) \/ \E c \in committed : Import(v, c)
         PROVE  G
    BY <1>8, <1>14 DEF Request, Import, core, msgs, Votes
  <1>15. ASSUME NEW m \in preprepares, RefuseProposal(v, m) PROVE G
    BY <1>2, <1>5, <1>15 DEF RefuseProposal
  <1>16. ASSUME Timeout(v) PROVE G
    <2>1. ASSUME NEW r \in round[v] + 1 .. MaxRound, RoundChange(v, r) PROVE G
      BY <1>2, <1>5, <2>1, IBFTAssumption
    <2>2. RoundChange(v, round[v] + 1) => G
      BY <1>2, <1>5
    <2> QED BY <1>7, <1>16, <2>1, <2>2 DEF Timeout
  <1>17. ASSUME NEW r \in 1 .. MaxRound, CatchUp(v, r) \/ QuorumForRound(v, r) PROVE G
    <2>1. r \in Nat
      BY IBFTAssumption
    <2> QED BY <1>2, <1>5, <1>6, <1>7, <1>17, <2>1 DEF CatchUp, QuorumForRound
  <1> QED
    BY <1>1, <1>7, <1>9, <1>11, <1>12, <1>13, <1>14, <1>15, <1>16, <1>17
       DEF Step, HandlePreprepare, FinalCommitted, Restart

-----------------------------------------------------------------------------
(* Committed blocks                                                          *)

\* What is on a chain is committed.
LEMMA OnChainDecided ==
  ASSUME TypeOK, ChainsDecided, NEW v \in Validator, NEW b \in Seq(Payload), OnChain(v, b)
  PROVE  b \in Decided \cup {NoBlock}
  <1>1. Len(b) \in Nat /\ (b # NoBlock => Len(b) \in Nat \ {0}) /\ Len(tip[v]) \in Nat
    BY LenProperties, EmptySeq DEF TypeOK, Block, NoBlock
  <1>2. CASE b # NoBlock
    <2>1. Len(b) \in 1 .. Len(tip[v]) /\ b = SubSeq(tip[v], 1, Len(b))
      BY <1>1, <1>2 DEF OnChain
    <2>2. SubSeq(tip[v], 1, Len(b)) \in Decided
      BY <2>1 DEF ChainsDecided
    <2> QED BY <2>1, <2>2
  <1> QED BY <1>2

\* A validator commits its proposal, which a quorum has sent COMMITs for and
\* which comes next after a committed block.
LEMMA CommitDecides ==
  ASSUME TypeOK, CoreFits, DecidedCertified, ChainsDecided,
         NEW v \in Validator, NEW Q \in SUBSET AboutProposal(v, commits), Commit(v, Q)
  PROVE  /\ proposal[v] \in Block \ {NoBlock}
         /\ Certified(proposal[v])
         /\ Parent(proposal[v]) \in Decided \cup {NoBlock}
         /\ Decided' = Decided \cup {proposal[v]}
         /\ UNCHANGED <<tip, commits>>
  <1>1. /\ proposal[v] \in Block \ {NoBlock} /\ OnChain(v, Parent(proposal[v]))
        /\ \A m \in Q : m \in commits /\ m.block = proposal[v]
        /\ SendersOf(Q) \in Quorum
        /\ UNCHANGED <<tip, commits>>
    BY DEF Commit, CoreFits, TypeOK, AboutProposal, msgs
  <1>2. Certified(proposal[v])
    <2>1. CASE \E m \in Q : m.old
      BY <1>1, <2>1 DEF ChainsDecided, DecidedCertified
    <2>2. CASE \A m \in Q : ~ m.old
      <3> DEFINE C == {m \in Votes : m.block = proposal[v]}
      <3>1. SendersOf(Q) \subseteq SendersOf(C)
        BY <1>1, <2>2 DEF Votes, SendersOf
      <3>2. SendersOf(C) \in SUBSET Validator
        BY SendersAreValidators
      <3> QED BY <1>1, <3>1, <3>2, QuorumGrows DEF Certified
    <2> QED BY <2>1, <2>2
  <1>3. Parent(proposal[v]) \in Decided \cup {NoBlock}
    BY <1>1, ParentFacts, OnChainDecided DEF Block
  <1>4. Decided' = Decided \cup {proposal[v]}
    <2> DEFINE s == \A m \in Q : m.sound
               c == [by |-> v, block |-> proposal[v], sound |-> s]
    <2>1. committed' = committed \cup {c}
      BY Zenon DEF Commit
    <2> HIDE DEF s
    <2>2. c.block = proposal[v]
      OBVIOUS
    <2> HIDE DEF c
    <2> QED BY <2>1, <2>2 DEF Decided
  <1> QED BY <1>1, <1>2, <1>3, <1>4

\* A validator that imports a block adds one payload to its chain.
LEMMA ImportExtends ==
  ASSUME TypeOK, NEW v \in Validator, NEW c \in committed, Import(v, c)
  PROVE  /\ c.block \in Seq(Payload) /\ c.block # NoBlock /\ c.block \in Decided
         /\ Parent(c.block) = tip[v]
         /\ tip' = [tip EXCEPT ![v] = c.block]
         /\ UNCHANGED <<commits, committed>>
  BY DEF Import, TypeOK, Block, Decided, msgs

\* Every other step leaves chains, and what is committed, alone.
LEMMA OtherSteps ==
  ASSUME NEW v \in Validator, Step(v),
         ~ \E Q \in SUBSET AboutProposal(v, commits) : Commit(v, Q),
         ~ \E c \in committed : Import(v, c)
  PROVE  UNCHANGED <<tip, committed>>
  BY DEF Step, HandlePreprepare, Request, AcceptProposal, AcceptLockedProposal,
         RefuseProposal, AnswerOldProposal, Prepared, RoundChange, NewRound, NewSequence,
         FinalCommitted, Timeout, CatchUp, QuorumForRound, Restart

LEMMA DecidedStep ==
  ASSUME TypeOK, TypeOK', CoreFits, DecidedCertified, ChainsDecided, [Next]_vars
  PROVE  DecidedCertified' /\ ChainsDecided'
  <1> DEFINE G == DecidedCertified' /\ ChainsDecided'
             \* Certified in the next state
             Then(b) == SendersOf({m \in Votes' : m.block = b}) \in Quorum
  <1>a. \A b : Certified(b) => Then(b)
    BY SupportStays DEF Certified
  <1>b. (\A b \in Decided' : Then(b) /\ Parent(b) \in Decided' \cup {NoBlock})
          => DecidedCertified'
    BY DEF DecidedCertified, Certified
  <1>c. Decided \subseteq Decided'
    BY MessagesStay DEF Decided
  <1> HIDE DEF G, Then
  <1>d. Decided' = Decided => DecidedCertified'
    BY <1>a, <1>b DEF DecidedCertified
  <1>0. CASE UNCHANGED vars
    <2>1. UNCHANGED <<tip, commits, committed>>
      BY <1>0 DEF vars, msgs
    <2>2. Decided' = Decided
      BY <2>1 DEF Decided
    <2> QED BY <1>d, <2>1, <2>2 DEF ChainsDecided
  <1>1. SUFFICES ASSUME NEW v \in Validator, Step(v) PROVE G
    BY <1>0, <1>1 DEF Next, G
  <1>2. ASSUME NEW Q \in SUBSET AboutProposal(v, commits), Commit(v, Q) PROVE G
    <2>1. /\ Certified(proposal[v])
          /\ Parent(proposal[v]) \in Decided \cup {NoBlock}
          /\ Decided' = Decided \cup {proposal[v]}
          /\ UNCHANGED <<tip, commits>>
      BY <1>2, CommitDecides
    <2>2. DecidedCertified'
      BY <1>a, <1>b, <2>1 DEF DecidedCertified
    <2>3. ChainsDecided'
      BY <1>c, <2>1 DEF ChainsDecided
    <2> QED BY <2>2, <2>3 DEF G
  <1>3. ASSUME NEW c \in committed, Import(v, c) PROVE G
    <2>1. /\ c.block \in Seq(Payload) /\ c.block # NoBlock /\ c.block \in Decided
          /\ Parent(c.block) = tip[v]
          /\ tip' = [tip EXCEPT ![v] = c.block]
          /\ UNCHANGED <<commits, committed>>
      BY <1>3, ImportExtends
    <2>2. Decided' = Decided
      BY <2>1 DEF Decided
    <2>3. \A i \in 1 .. Len(c.block) : SubSeq(c.block, 1, i) \in Decided
      <3>1. /\ Len(c.block) \in Nat \ {0} /\ Len(tip[v]) = Len(c.block) - 1
            /\ \A i \in 1 .. Len(c.block) - 1 : SubSeq(c.block, 1, i) = SubSeq(tip[v], 1, i)
            /\ SubSeq(c.block, 1, Len(c.block)) = c.block
        BY <2>1, ParentFacts
      <3>2. \A i \in 1 .. Len(c.block) - 1 : SubSeq(c.block, 1, i) \in Decided
        <4> TAKE i \in 1 .. Len(c.block) - 1
        <4>1. i \in 1 .. Len(tip[v])
          BY <3>1
        <4>2. SubSeq(tip[v], 1, i) \in Decided
          BY <4>1 DEF ChainsDecided
        <4> QED BY <3>1, <4>2
      <3>3. \A i \in 1 .. Len(c.block) : i \in 1 .. Len(c.block) - 1 \/ i = Len(c.block)
        BY <3>1
      <3> QED BY <2>1, <3>1, <3>2, <3>3
    <2>4. tip \in [Validator -> Block]
      BY DEF TypeOK
    <2>5. ChainsDecided'
      BY <2>1, <2>2, <2>3, <2>4 DEF ChainsDecided
    <2> QED BY <1>d, <2>2, <2>5 DEF G
  <1>4. ASSUME ~ (\E Q \in SUBSET AboutProposal(v, commits) : Commit(v, Q)),
               ~ \E c \in committed : Import(v, c)
        PROVE  G
    <2>1. UNCHANGED <<tip, committed>>
      BY <1>1, <1>4, OtherSteps
    <2>2. Decided' = Decided
      BY <2>1 DEF Decided
    <2>3. \A m \in commits' : m.old => m \in commits \/ m.block \in Decided
      <3>1. ASSUME NEW m \in preprepares, AnswerOldProposal(v, m)
            PROVE  m.block \in Decided
        BY <3>1, OnChainDecided DEF AnswerOldProposal, TypeOK, Block
      <3>2. \A r : RoundChange(v, r) \/ NewRound(v, r) \/ NewSequence(v) => commits' = commits
        BY DEF RoundChange, NewRound, NewSequence, msgs
      <3>3. CASE \E m \in preprepares : HandlePreprepare(v, m)
        BY <3>1, <3>2, <3>3 DEF HandlePreprepare, AcceptProposal, AcceptLockedProposal,
                                SendCommit, RefuseProposal, AnswerOldProposal
      <3>4. CASE Prepared(v)
        BY <3>4 DEF Prepared, SendCommit
      <3>5. CASE \E p \in Payload : Request(v, p)
        BY <3>5 DEF Request
      <3> QED
        BY <1>1, <1>4, <3>2, <3>3, <3>4, <3>5
           DEF Step, FinalCommitted, Timeout, CatchUp, QuorumForRound, Restart
    <2>4. ChainsDecided'
      BY <2>1, <2>2, <2>3 DEF ChainsDecided
    <2> QED BY <1>d, <2>2, <2>4 DEF G
  <1> QED BY <1>2, <1>3, <1>4

-----------------------------------------------------------------------------
(* The invariant                                                             *)

LEMMA InitIInv == Init => IInv
  <1> SUFFICES ASSUME Init PROVE IInv
    OBVIOUS
  <1> USE IBFTAssumption
  <1>1. NoBlock \in Block /\ Len(NoBlock) = 0
    BY EmptySeq DEF NoBlock, Block
  <1>2. Votes = {} /\ Decided = {} /\ commits = {} /\ prepares = {}
    BY DEF Init, Votes, Decided
  <1>3. TypeOK
    <2>1. 1 \in 1 .. MaxHeight + 1 /\ 0 \in Round /\ "AcceptRequest" \in States
      BY DEF Round, States
    <2> QED BY <1>1, <2>1 DEF Init, TypeOK
  <1>4. LockIsProposal /\ LockSupported
    BY DEF Init, LockIsProposal, LockSupported
  <1>5. CoreFits
    BY <1>1 DEF Init, CoreFits
  <1>6. VoteLocked /\ OneVote /\ VotesOfView /\ VotesOnce /\ CommitJustified
    BY <1>2 DEF VoteLocked, OneVote, VotesOfView, VotesOnce, CommitJustified
  <1>7. DecidedCertified /\ ChainsDecided
    BY <1>1, <1>2 DEF Init, DecidedCertified, ChainsDecided
  <1> QED BY <1>3, <1>4, <1>5, <1>6, <1>7 DEF IInv

LEMMA NextIInv == IInv /\ [Next]_vars => IInv'
  <1> SUFFICES ASSUME IInv, [Next]_vars PROVE IInv'
    OBVIOUS
  <1>1. TypeOK'
    BY TypeStep DEF IInv
  <1>2. LockIsProposal' /\ CoreFits'
    BY CoreStep DEF IInv
  <1>3. VoteLocked' /\ OneVote' /\ VotesOfView' /\ VotesOnce'
    BY VoteStep DEF IInv
  <1>4. LockSupported' /\ CommitJustified'
    BY <1>1, SupportStep DEF IInv
  <1>5. DecidedCertified' /\ ChainsDecided'
    BY <1>1, DecidedStep DEF IInv
  <1> QED BY <1>1, <1>2, <1>3, <1>4, <1>5 DEF IInv

LEMMA Invariance == Spec => []IInv
  BY InitIInv, NextIInv, PTL DEF Spec

\* handleCheckedMsg and the round state keep their types in every behaviour.
THEOREM TypeCorrect == Spec => []TypeOK
  <1>1. IInv => TypeOK
    BY DEF IInv
  <1> QED BY <1>1, Invariance, PTL

\* A validator that keeps its memory votes for one block in a view, whatever is
\* proposed to it and however rounds change (handlePreprepare, startNewRound).
THEOREM OneVotePerView == Spec => []VotesOnce
  <1>1. IInv => VotesOnce
    BY DEF IInv
  <1> QED BY <1>1, Invariance, PTL

\* No COMMIT without the votes of a quorum (handlePrepare, handleCommit).
THEOREM CommitsJustified == Spec => []CommitJustified
  <1>1. IInv => CommitJustified
    BY DEF IInv
  <1> QED BY <1>1, Invariance, PTL

\* A lock is on the proposal that is kept for it (updateRoundState).
THEOREM LocksKept == Spec => []LockIsProposal
  <1>1. IInv => LockIsProposal
    BY DEF IInv
  <1> QED BY <1>1, Invariance, PTL

-----------------------------------------------------------------------------
(* Agreement                                                                 *)

LEMMA RefinesInit == Init => A!Init
  BY DEF Init, A!Init, NoBlock

LEMMA RefinesStep == QuorumsMeet /\ IInv /\ [Next]_vars => [A!Next]_(A!avars)
  <1> SUFFICES ASSUME QuorumsMeet, IInv, [Next]_vars PROVE [A!Next]_(A!avars)
    OBVIOUS
  <1>0. ASSUME UNCHANGED <<tip, committed>> PROVE [A!Next]_(A!avars)
    BY <1>0 DEF A!avars
  <1>1. CASE UNCHANGED vars
    BY <1>0, <1>1 DEF vars
  <1>2. SUFFICES ASSUME NEW v \in Validator, Step(v) PROVE [A!Next]_(A!avars)
    BY <1>1, <1>2 DEF Next
  <1>3. ASSUME NEW Q \in SUBSET AboutProposal(v, commits), Commit(v, Q)
        PROVE  [A!Next]_(A!avars)
    <2> DEFINE b == proposal[v]
               p == b[Len(b)]
    <2>1. /\ b \in Block \ {NoBlock} /\ Certified(b)
          /\ Parent(b) \in Decided \cup {NoBlock}
          /\ Decided' = Decided \cup {b} /\ UNCHANGED tip
      BY <1>3, CommitDecides DEF IInv
    <2>2. /\ Append(Parent(b), p) = b /\ p \in Payload
          /\ Len(b) \in Nat /\ Len(Parent(b)) + 1 = Len(b)
      BY <2>1, ParentFacts DEF Block
    <2> HIDE DEF b, p
    <2>3. CASE b \in Decided
      BY <2>1, <2>3 DEF A!avars, Decided
    <2>4. CASE b \notin Decided
      <3>1. \A d \in Decided : Len(d) # Len(Parent(b)) + 1
        BY <2>1, <2>2, <2>4, CertifiedOnce DEF DecidedCertified, IInv
      <3>2. A!Decide(Parent(b), p)
        BY <2>1, <2>2, <3>1 DEF A!Decide, Decided, NoBlock
      <3>3. Parent(b) \in {c.block : c \in committed} \cup {<<>>}
        BY <2>1 DEF Decided, NoBlock
      <3>4. A!Next
        BY <2>2, <3>2, <3>3 DEF A!Next, A!Decide
      <3> QED BY <3>4
    <2> QED BY <2>3, <2>4
  <1>4. ASSUME NEW c \in committed, Import(v, c) PROVE [A!Next]_(A!avars)
    <2> DEFINE b == c.block
               p == b[Len(b)]
    <2>1. /\ b \in Seq(Payload) /\ b # NoBlock /\ b \in Decided
          /\ Parent(b) = tip[v] /\ tip' = [tip EXCEPT ![v] = b]
          /\ UNCHANGED committed
      BY <1>4, ImportExtends DEF IInv
    <2>2. Append(tip[v], p) = b /\ p \in Payload
      BY <2>1, ParentFacts
    <2> HIDE DEF b, p
    <2>3. A!Learn(v, p)
      BY <2>1, <2>2 DEF A!Learn, Decided
    <2> QED BY <2>2, <2>3 DEF A!Next
  <1> QED BY <1>0, <1>2, <1>3, <1>4, OtherSteps

\* The validators agree: for every number of validators and every quorum size
\* under which two quorums share a validator that keeps its lock, blocks are
\* committed one per height, each on the last, and chains are made of them.
THEOREM IBFTImplementsAgreement == ASSUME QuorumsMeet PROVE Spec => Implements
  <1>1. Spec => A!Init /\ [][A!Next]_(A!avars)
    BY RefinesInit, RefinesStep, Invariance, PTL DEF Spec
  <1> QED BY <1>1 DEF Implements, A!Spec

-----------------------------------------------------------------------------
(* Which network sizes and formulas make quorums meet in a steady validator  *)

\* F is the largest number of which N is more than three times as many.
LEMMA FaultBound ==
  ASSUME Validator # {}
  PROVE  N \in Nat /\ N >= 1 /\ F \in Nat /\ 3 * F + 1 <= N /\ N <= 3 * F + 3
  <1>1. N \in Nat /\ N # 0
    BY IBFTAssumption, FS_CardinalityType, FS_EmptySet DEF N
  <1> QED  BY <1>1 DEF F

\* Sets of at least k of the validators have 2k - N of them in common.
LEMMA Overlap ==
  ASSUME NEW k \in Nat,
         NEW Q \in SUBSET Validator, NEW R \in SUBSET Validator,
         Cardinality(Q) >= k, Cardinality(R) >= k
  PROVE  IsFiniteSet(Q \cap R) /\ Cardinality(Q \cap R) \in Nat
           /\ N + Cardinality(Q \cap R) >= 2 * k
  <1>1. IsFiniteSet(Q) /\ IsFiniteSet(R) /\ IsFiniteSet(Q \cap R)
    BY IBFTAssumption, FS_Subset, FS_Intersection
  <1>2. /\ Cardinality(Q) \in Nat /\ Cardinality(R) \in Nat
        /\ Cardinality(Q \cap R) \in Nat /\ Cardinality(Q \cup R) \in Nat /\ N \in Nat
    BY IBFTAssumption, <1>1, FS_CardinalityType, FS_Union DEF N
  <1>3. Cardinality(Q \cup R) = Cardinality(Q) + Cardinality(R) - Cardinality(Q \cap R)
    BY IBFTAssumption, <1>1, FS_Union
  <1>4. Cardinality(Q \cup R) <= N
    BY IBFTAssumption, FS_Subset, Q \cup R \subseteq Validator DEF N
  <1> QED  BY <1>1, <1>2, <1>3, <1>4

\* A set that is larger than another is not contained in it.
LEMMA TooLargeToBeContained ==
  ASSUME NEW S, NEW T, IsFiniteSet(T), Cardinality(S) > Cardinality(T)
  PROVE  ~ (S \subseteq T)
  <1> SUFFICES ASSUME S \subseteq T PROVE FALSE
    OBVIOUS
  <1>1. Cardinality(S) <= Cardinality(T) /\ Cardinality(S) \in Nat /\ Cardinality(T) \in Nat
    BY IBFTAssumption, FS_Subset, FS_CardinalityType
  <1> QED  BY <1>1

\* QuorumSize with Ceil2Nby3Block reached: in every network two quorums have
\* a validator in common that is not among F chosen ones.
THEOREM CeilQuorumsMeet ==
  ASSUME Validator # {}, TwoFPlusOne = FALSE,
         Cardinality(Forgetful) <= F
  PROVE  QuorumsMeet
  <1> SUFFICES ASSUME NEW Q \in Quorum, NEW R \in Quorum
               PROVE  ~ (Q \cap R \subseteq Forgetful)
    BY DEF QuorumsMeet
  <1>1. QuorumSize = (2 * N + 2) \div 3 /\ QuorumSize \in Nat
    BY FaultBound DEF QuorumSize
  <1>2. Cardinality(Q \cap R) \in Nat /\ N + Cardinality(Q \cap R) >= 2 * QuorumSize
    BY <1>1, Overlap DEF Quorum
  <1>3. 2 * QuorumSize >= N + F + 1
    <2>1. N \in Nat /\ F \in Nat /\ 3 * F + 1 <= N
      BY FaultBound
    <2>2. 3 * QuorumSize >= 2 * N
      BY <1>1, <2>1
    <2> QED  BY <1>1, <2>1, <2>2
  <1>4. IsFiniteSet(Forgetful) /\ Cardinality(Forgetful) \in Nat
    BY IBFTAssumption, FS_Subset, FS_CardinalityType
  <1>5. Cardinality(Q \cap R) > Cardinality(Forgetful)
    BY <1>1, <1>2, <1>3, <1>4, FaultBound
  <1> QED  BY <1>4, <1>5, TooLargeToBeContained

\* QuorumSize without that block, 2F+1: the same holds in the networks of
\* 3F+1 validators.
THEOREM TwoFPlusOneQuorumsMeet ==
  ASSUME Validator # {}, TwoFPlusOne = TRUE, N = 3 * F + 1,
         Cardinality(Forgetful) <= F
  PROVE  QuorumsMeet
  <1> SUFFICES ASSUME NEW Q \in Quorum, NEW R \in Quorum
               PROVE  ~ (Q \cap R \subseteq Forgetful)
    BY DEF QuorumsMeet
  <1>1. QuorumSize = 2 * F + 1 /\ QuorumSize \in Nat
    BY FaultBound DEF QuorumSize
  <1>2. Cardinality(Q \cap R) \in Nat /\ N + Cardinality(Q \cap R) >= 2 * QuorumSize
    BY <1>1, Overlap DEF Quorum
  <1>3. IsFiniteSet(Forgetful) /\ Cardinality(Forgetful) \in Nat
    BY IBFTAssumption, FS_Subset, FS_CardinalityType
  <1>4. Cardinality(Q \cap R) > Cardinality(Forgetful)
    BY <1>1, <1>2, <1>3, FaultBound
  <1> QED  BY <1>3, <1>4, TooLargeToBeContained

\* With 2F+1 and three or six validators two quorums need not meet at all:
\* one of three, or three of six, and the others.
THEOREM TwoFPlusOneCanSplit ==
  ASSUME TwoFPlusOne = TRUE, NEW S \in SUBSET Validator,
         (N = 3 /\ Cardinality(S) = 1) \/ (N = 6 /\ Cardinality(S) = 3)
  PROVE  S \in Quorum /\ Validator \ S \in Quorum
  <1>1. QuorumSize = Cardinality(S)
    BY DEF QuorumSize, F
  <1>2. Cardinality(Validator \ S) = N - Cardinality(Validator \cap S)
    BY IBFTAssumption, FS_Difference DEF N
  <1>3. Validator \cap S = S
    OBVIOUS
  <1> QED  BY <1>1, <1>2, <1>3 DEF Quorum

\* Either quorum can be made while F validators do not answer.
THEOREM QuorumOfTheRest ==
  ASSUME Validator # {}, TwoFPlusOne \in BOOLEAN,
         NEW Silent \in SUBSET Validator, Cardinality(Silent) <= F
  PROVE  Validator \ Silent \in Quorum
  <1>1. N \in Nat /\ F \in Nat /\ QuorumSize <= N - F
    BY FaultBound DEF QuorumSize, F
  <1>2. IsFiniteSet(Silent) /\ Cardinality(Silent) \in Nat
    BY IBFTAssumption, FS_Subset, FS_CardinalityType
  <1>3. Validator \cap Silent = Silent
    OBVIOUS
  <1>4. Cardinality(Validator \ Silent) = N - Cardinality(Silent)
    BY IBFTAssumption, <1>3, FS_Difference DEF N
  <1>5. QuorumSize \in Int
    BY FaultBound DEF QuorumSize
  <1> QED  BY <1>1, <1>2, <1>4, <1>5 DEF Quorum

\* The PA3 network, whose genesis chooses ceil(2N/3), agrees while at most F of its
\* validators are ever started again, whatever its size.
THEOREM CeilNetworkAgrees ==
  ASSUME Validator # {}, TwoFPlusOne = FALSE, Cardinality(Forgetful) <= F
  PROVE  Spec => Implements
  BY CeilQuorumsMeet, IBFTImplementsAgreement
=============================================================================
