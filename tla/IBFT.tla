-------------------------------- MODULE IBFT --------------------------------
(***************************************************************************)
(* The Istanbul BFT consensus of Quorum, which the validators of the PA3   *)
(* network run: one core (consensus/istanbul/ibft/core) per validator and  *)
(* the part of its backend that commits and imports blocks.                *)
(*                                                                         *)
(* Messages go into sets and stay there: a message that is never taken     *)
(* from its set is lost, one that is taken late is delayed or out of       *)
(* order, one taken again is a duplicate.  A core counts the messages of   *)
(* its view it has taken in; since it may have taken in any part of those  *)
(* that were sent, a threshold may be reached as soon as enough of them    *)
(* exist.  A block is the sequence of payloads from height 1 to its own:   *)
(* its hash commits to its ancestors.                                      *)
(***************************************************************************)
EXTENDS Quorums, Sequences

CONSTANTS
  order,         \* the sequence of validators as the proposer policy sorts them
  Payload,       \* what a block adds to its parent
  author,        \* [Payload -> Validator], who builds and seals a block with it
  Forgetful,     \* validators that may stop and be started again
  MaxHeight,     \* bound: the highest block that is proposed or voted on
  MaxRound       \* bound: the highest round that is asked for

ASSUME IBFTAssumption ==
  /\ IsFiniteSet(Validator)
  /\ Forgetful \subseteq Validator
  /\ author \in [Payload -> Validator]
  /\ order \in Seq(Validator)
  /\ MaxHeight \in Nat
  /\ MaxRound \in Nat

NoBlock == <<>>

VARIABLES
  tip,          \* [Validator -> block], the last block of its chain (LastProposal)
  sequence,     \* [Validator -> height its core works on]
  round,        \* [Validator -> round of its current view]
  waiting,      \* [Validator -> BOOLEAN], waitingForRoundChange
  lead,         \* [Validator -> round its proposer was last computed for]
  state,        \* [Validator -> AcceptRequest, Preprepared, Prepared, Committed]
  proposal,     \* [Validator -> block], current.Preprepare's, NoBlock if nil
  locked,       \* [Validator -> block], lockedHash, NoBlock if empty
  preprepares,  \* PRE-PREPARE messages sent
  prepares,     \* PREPARE messages sent
  commits,      \* COMMIT messages sent: is the seal over that block? is it the
                \*   answer to an old PRE-PREPARE? (history)
  changes,      \* ROUND CHANGE messages sent
  committed     \* blocks handed to backend.Commit: by whom, with sound seals?
core == <<sequence, round, waiting, lead, state, proposal, locked>>
msgs == <<preprepares, prepares, commits, changes>>
vars == <<tip, core, msgs, committed>>

Init ==
  /\ tip = [v \in Validator |-> NoBlock]
  /\ sequence = [v \in Validator |-> 1]
  /\ round = [v \in Validator |-> 0]
  /\ waiting = [v \in Validator |-> FALSE]
  /\ lead = [v \in Validator |-> 0]
  /\ state = [v \in Validator |-> "AcceptRequest"]
  /\ proposal = [v \in Validator |-> NoBlock]
  /\ locked = [v \in Validator |-> NoBlock]
  /\ preprepares = {} /\ prepares = {} /\ commits = {} /\ changes = {}
  /\ committed = {}

-----------------------------------------------------------------------------
(* Helpers                                                                   *)

\* the validator with this index, counted round
ValidatorAt(i) == order[(i % N) + 1]
Position(v) == CHOOSE i \in 0 .. N - 1 : ValidatorAt(i) = v

\* roundRobinProposer: the one after the author of the parent, moved on by round
Proposer(parent, r) ==
  IF parent = NoBlock THEN ValidatorAt(r)
  ELSE ValidatorAt(Position(author[parent[Len(parent)]]) + r + 1)

\* a block is on v's chain, genesis included
OnChain(v, b) == Len(b) <= Len(tip[v]) /\ b = SubSeq(tip[v], 1, Len(b))
Parent(b) == SubSeq(b, 1, Len(b) - 1)
LastProposal(v) == SubSeq(tip[v], 1, sequence[v] - 1)

\* the order of views
Earlier(h1, r1, h2, r2) == h1 < h2 \/ (h1 = h2 /\ r1 < r2)

\* v takes messages of its view, checkMessage returning nil in this state
InView(v, m) ==
  /\ ~ waiting[v]
  /\ Len(m.block) = sequence[v] /\ m.round = round[v]

SendersOf(ms) == {m.from : m \in ms}
AboutProposal(v, ms) == {m \in ms : m.block = proposal[v] /\ m.round = round[v]}

\* who asked for round r of v's sequence
Asking(v, r) == SendersOf({m \in changes : m.height = sequence[v] /\ m.round = r})

-----------------------------------------------------------------------------
(* Rounds and sequences                                                      *)

\* mutant: the view is moved to the round after the one asked for
RoundChangePast(v, r) ==
  /\ r <= MaxRound /\ sequence[v] <= MaxHeight
  /\ round' = [round EXCEPT ![v] = r + 1]
  /\ waiting' = [waiting EXCEPT ![v] = TRUE]
  /\ proposal' = [proposal EXCEPT ![v] = IF locked[v] = NoBlock THEN NoBlock ELSE @]
  /\ changes' = changes \cup {[from |-> v, height |-> sequence[v], round |-> r]}
  /\ UNCHANGED <<tip, sequence, lead, state, locked, preprepares, prepares, commits,
                 committed>>

\* sendRoundChange: catchUpRound keeps the lock and what is locked, and leaves
\* the state and the proposer as they are
RoundChange(v, r) ==
  /\ r <= MaxRound /\ sequence[v] <= MaxHeight
  /\ round' = [round EXCEPT ![v] = r]
  /\ waiting' = [waiting EXCEPT ![v] = TRUE]
  /\ proposal' = [proposal EXCEPT ![v] = IF locked[v] = NoBlock THEN NoBlock ELSE @]
  /\ changes' = changes \cup {[from |-> v, height |-> sequence[v], round |-> r]}
  /\ UNCHANGED <<tip, sequence, lead, state, locked, preprepares, prepares, commits,
                 committed>>

\* startNewRound when the chain has reached the sequence, and at the start
NewSequence(v) ==
  /\ sequence' = [sequence EXCEPT ![v] = Len(tip[v]) + 1]
  /\ round' = [round EXCEPT ![v] = 0]
  /\ waiting' = [waiting EXCEPT ![v] = FALSE]
  /\ lead' = [lead EXCEPT ![v] = 0]
  /\ state' = [state EXCEPT ![v] = "AcceptRequest"]
  /\ proposal' = [proposal EXCEPT ![v] = NoBlock]
  /\ locked' = [locked EXCEPT ![v] = NoBlock]
  /\ UNCHANGED <<tip, msgs, committed>>

\* mutant: a new round state is made without the lock
NewRoundUnlocked(v, r) ==
  /\ round' = [round EXCEPT ![v] = r]
  /\ waiting' = [waiting EXCEPT ![v] = FALSE]
  /\ lead' = [lead EXCEPT ![v] = r]
  /\ state' = [state EXCEPT ![v] = "AcceptRequest"]
  /\ proposal' = [proposal EXCEPT ![v] = NoBlock]
  /\ locked' = [locked EXCEPT ![v] = NoBlock]
  /\ UNCHANGED <<tip, sequence, msgs, committed>>

\* startNewRound within a sequence: a proposer that is locked proposes that
\* block again; one with a pending request may do so by Request
NewRound(v, r) ==
  /\ round' = [round EXCEPT ![v] = r]
  /\ waiting' = [waiting EXCEPT ![v] = FALSE]
  /\ lead' = [lead EXCEPT ![v] = r]
  /\ state' = [state EXCEPT ![v] = "AcceptRequest"]
  /\ proposal' = [proposal EXCEPT ![v] = IF locked[v] = NoBlock THEN NoBlock ELSE @]
  /\ preprepares' = preprepares \cup
       {m \in {[from |-> v, round |-> r, block |-> proposal[v]]} :
          locked[v] # NoBlock /\ v = Proposer(LastProposal(v), r)}
  /\ UNCHANGED <<tip, sequence, locked, prepares, commits, changes, committed>>

Behind(v) == Len(tip[v]) >= sequence[v]

-----------------------------------------------------------------------------
(* Proposals                                                                 *)

\* handleRequest and sendPreprepare: the miner hands over a block on top of the
\* chain, twice if it has sealed a better one.  catchUpRound computes no proposer:
\* the one of the round that was left sends the PRE-PREPARE of the round it waits
\* for, which others take if the round went on by a multiple of N.
Request(v, p) ==
  LET b == Append(LastProposal(v), p) IN
  /\ author[p] = v
  /\ sequence[v] <= MaxHeight
  /\ state[v] = "AcceptRequest"
  /\ v = Proposer(LastProposal(v), lead[v])
  /\ preprepares' = preprepares \cup {[from |-> v, round |-> round[v], block |-> b]}
  /\ UNCHANGED <<tip, core, prepares, commits, changes, committed>>

\* the view and the proposer are right, and Verify finds the parent
Proposed(v, m) ==
  /\ InView(v, m)
  /\ m.from = Proposer(LastProposal(v), round[v])
  /\ OnChain(v, Parent(m.block))

\* mutant: the state is not looked at
AcceptProposalAgain(v, m) ==
  /\ Proposed(v, m)
  /\ locked[v] = NoBlock
  /\ proposal' = [proposal EXCEPT ![v] = m.block]
  /\ state' = [state EXCEPT ![v] = "Preprepared"]
  /\ prepares' = prepares \cup {[from |-> v, round |-> round[v], block |-> m.block]}
  /\ UNCHANGED <<tip, sequence, round, waiting, lead, locked, preprepares, commits,
                 changes, committed>>

\* handlePreprepare without a lock: PREPARE
AcceptProposal(v, m) ==
  /\ Proposed(v, m)
  /\ state[v] = "AcceptRequest" /\ locked[v] = NoBlock
  /\ proposal' = [proposal EXCEPT ![v] = m.block]
  /\ state' = [state EXCEPT ![v] = "Preprepared"]
  /\ prepares' = prepares \cup {[from |-> v, round |-> round[v], block |-> m.block]}
  /\ UNCHANGED <<tip, sequence, round, waiting, lead, locked, preprepares, commits,
                 changes, committed>>

\* the COMMIT of the current proposal
SendCommit(v, b) ==
  commits' = commits \cup
    {[from |-> v, round |-> round[v], block |-> b, sound |-> TRUE, old |-> FALSE]}

\* mutant: a locked validator goes along with another proposal
AcceptAnyProposal(v, m) ==
  /\ Proposed(v, m)
  /\ state[v] = "AcceptRequest" /\ locked[v] # NoBlock
  /\ proposal' = [proposal EXCEPT ![v] = m.block]
  /\ state' = [state EXCEPT ![v] = "Prepared"]
  /\ SendCommit(v, m.block)
  /\ UNCHANGED <<tip, sequence, round, waiting, lead, locked, preprepares, prepares,
                 changes, committed>>

\* handlePreprepare with the lock on that block: Prepared and COMMIT at once
AcceptLockedProposal(v, m) ==
  /\ Proposed(v, m)
  /\ state[v] = "AcceptRequest" /\ locked[v] = m.block
  /\ proposal' = [proposal EXCEPT ![v] = m.block]
  /\ state' = [state EXCEPT ![v] = "Prepared"]
  /\ SendCommit(v, m.block)
  /\ UNCHANGED <<tip, sequence, round, waiting, lead, locked, preprepares, prepares,
                 changes, committed>>

\* handlePreprepare with the lock on another block
RefuseProposal(v, m) ==
  /\ Proposed(v, m)
  /\ state[v] = "AcceptRequest" /\ locked[v] \notin {NoBlock, m.block}
  /\ RoundChange(v, round[v] + 1)

\* handlePreprepare of an earlier view, for a block that is on the chain:
\* sendCommitForOldBlock.  finalizeMessage seals the current proposal all the
\* same, whatever block the message is about.
AnswerOldProposal(v, m) ==
  /\ Earlier(Len(m.block), m.round, sequence[v], round[v])
  /\ m.from = Proposer(Parent(m.block), m.round)
  /\ OnChain(v, m.block)
  /\ commits' = commits \cup
       {[from |-> v, round |-> m.round, block |-> m.block,
         sound |-> proposal[v] = m.block, old |-> TRUE]}
  /\ UNCHANGED <<tip, core, preprepares, prepares, changes, committed>>

-----------------------------------------------------------------------------
(* Votes                                                                     *)

\* mutant: the PREPAREs are not counted
PreparedAlone(v) ==
  /\ ~ waiting[v] /\ state[v] = "Preprepared"
  /\ locked' = [locked EXCEPT ![v] = proposal[v]]
  /\ state' = [state EXCEPT ![v] = "Prepared"]
  /\ SendCommit(v, proposal[v])
  /\ UNCHANGED <<tip, sequence, round, waiting, lead, proposal, preprepares, prepares,
                 changes, committed>>

\* handlePrepare: a PREPARE comes in and PREPAREs and COMMITs for the proposal
\* are from a quorum, a validator that sent both counting once; or it is locked
Prepared(v) ==
  /\ ~ waiting[v] /\ state[v] = "Preprepared"
  /\ AboutProposal(v, prepares) # {}
  /\ locked[v] # proposal[v] =>
       SendersOf(AboutProposal(v, prepares) \cup AboutProposal(v, commits)) \in Quorum
  /\ locked' = [locked EXCEPT ![v] = proposal[v]]
  /\ state' = [state EXCEPT ![v] = "Prepared"]
  /\ SendCommit(v, proposal[v])
  /\ UNCHANGED <<tip, sequence, round, waiting, lead, proposal, preprepares, prepares,
                 changes, committed>>

\* mutant: PREPAREs count as COMMITs
CommitOnPrepares(v, Q) ==
  /\ ~ waiting[v] /\ state[v] \in {"Preprepared", "Prepared"}
  /\ Q \subseteq AboutProposal(v, commits)
  /\ SendersOf(AboutProposal(v, prepares) \cup Q) \in Quorum
  /\ locked' = [locked EXCEPT ![v] = proposal[v]]
  /\ state' = [state EXCEPT ![v] = "Committed"]
  /\ committed' = committed \cup
       {[by |-> v, block |-> proposal[v], sound |-> \A m \in Q : m.sound]}
  /\ UNCHANGED <<tip, sequence, round, waiting, lead, proposal, msgs>>

\* handleCommit: Q makes a quorum, one COMMIT of each sender being kept.  The
\* header gets their seals; backend.Commit cannot fail on a verified proposal.
Commit(v, Q) ==
  /\ ~ waiting[v] /\ state[v] \in {"Preprepared", "Prepared"}
  /\ Q \subseteq AboutProposal(v, commits)
  /\ Cardinality(Q) = QuorumSize /\ SendersOf(Q) \in Quorum
  /\ locked' = [locked EXCEPT ![v] = proposal[v]]
  /\ state' = [state EXCEPT ![v] = "Committed"]
  /\ committed' = committed \cup
       {[by |-> v, block |-> proposal[v], sound |-> \A m \in Q : m.sound]}
  /\ UNCHANGED <<tip, sequence, round, waiting, lead, proposal, msgs>>

\* A committed block reaches v's chain: its own block through the commit channel
\* of Seal, another through the fetcher or the downloader, which check the seals.
Import(v, c) ==
  /\ Parent(c.block) = tip[v]
  /\ c.sound \/ (c.by = v /\ author[c.block[Len(c.block)]] = v)
  /\ tip' = [tip EXCEPT ![v] = c.block]
  /\ UNCHANGED <<core, msgs, committed>>

-----------------------------------------------------------------------------
(* Timers and ROUND CHANGE                                                   *)

\* handleFinalCommitted: the chain has a new head
FinalCommitted(v) == Behind(v) /\ NewSequence(v)

\* handleTimeoutMsg: go where F+1 have gone, unless already waiting; else the
\* next sequence, or the next round
Timeout(v) ==
  \/ /\ ~ waiting[v]
     /\ \E r \in round[v] + 1 .. MaxRound :
          /\ Cardinality(Asking(v, r)) >= F + 1
          /\ RoundChange(v, r)
  \/ Behind(v) /\ NewSequence(v)
  \/ ~ Behind(v) /\ RoundChange(v, round[v] + 1)

\* handleRoundChange: F+1 ask for a later round than the one v waits for
CatchUp(v, r) ==
  /\ waiting[v] /\ round[v] < r
  /\ Cardinality(Asking(v, r)) >= F + 1
  /\ RoundChange(v, r)

\* handleRoundChange: a quorum asks for round r.  A validator that waits looks
\* at F+1 first and then no further, so that the sizes must differ.
QuorumForRound(v, r) ==
  /\ round[v] < r \/ (waiting[v] /\ round[v] = r)
  /\ waiting[v] => QuorumSize # F + 1
  /\ Asking(v, r) \in Quorum
  /\ IF Behind(v) THEN NewSequence(v) ELSE NewRound(v, r)

\* the process ends and is started again: the core keeps nothing on disk
Restart(v) == v \in Forgetful /\ NewSequence(v)

-----------------------------------------------------------------------------
HandlePreprepare(v, m) ==
  \/ AcceptProposal(v, m) \/ AcceptLockedProposal(v, m)
  \/ RefuseProposal(v, m) \/ AnswerOldProposal(v, m)

Step(v) ==
  \/ \E p \in Payload : Request(v, p)
  \/ \E m \in preprepares : HandlePreprepare(v, m)
  \/ Prepared(v)
  \/ \E Q \in SUBSET AboutProposal(v, commits) : Commit(v, Q)
  \/ \E c \in committed : Import(v, c)
  \/ FinalCommitted(v) \/ Timeout(v)
  \/ \E r \in 1 .. MaxRound : CatchUp(v, r) \/ QuorumForRound(v, r)
  \/ Restart(v)

Next == \E v \in Validator : Step(v)
Spec == Init /\ [][Next]_vars

-----------------------------------------------------------------------------
(* Properties                                                                *)

Block == {b \in Seq(Payload) : Len(b) <= MaxHeight}
States == {"AcceptRequest", "Preprepared", "Prepared", "Committed"}
Round == 0 .. MaxRound

\* Every variable keeps its type; no core works above the height after the last
\* that is proposed.
TypeOK ==
  /\ tip \in [Validator -> Block]
  /\ sequence \in [Validator -> 1 .. MaxHeight + 1]
  /\ round \in [Validator -> Round]
  /\ waiting \in [Validator -> BOOLEAN]
  /\ lead \in [Validator -> Round]
  /\ state \in [Validator -> States]
  /\ proposal \in [Validator -> Block]
  /\ locked \in [Validator -> Block]
  /\ preprepares \subseteq [from : Validator, round : Round, block : Block \ {NoBlock}]
  /\ prepares \subseteq [from : Validator, round : Round, block : Block \ {NoBlock}]
  /\ commits \subseteq [from : Validator, round : Round, block : Block \ {NoBlock},
                        sound : BOOLEAN, old : BOOLEAN]
  /\ changes \subseteq [from : Validator, height : 1 .. MaxHeight + 1, round : Round]
  /\ committed \subseteq [by : Validator, block : Block \ {NoBlock}, sound : BOOLEAN]

\* The votes of the current view, as against the answers about old blocks.
Votes == {m \in commits : ~ m.old}

\* A validator that is not started again in between votes for one block in a
\* view, with PREPARE and COMMIT together, however messages, timers and round
\* changes cross: a second PRE-PREPARE of the view must find it in a later state.
VotesOnce ==
  \A m, n \in prepares \cup Votes :
    /\ m.from = n.from /\ m.from \notin Forgetful
    /\ Len(m.block) = Len(n.block) /\ m.round = n.round
    => m.block = n.block

\* A COMMIT rests on votes of a quorum for that block in its round or in an
\* earlier one, when the lock was taken: no message order makes a validator
\* lock, or commit itself to, what it has only been proposed.
CommitJustified ==
  \A m \in Votes : \E r \in 0 .. m.round :
    SendersOf({n \in prepares \cup commits : n.block = m.block /\ n.round = r}) \in Quorum

\* A validator that waits for a round, or is in it, keeps what it is locked on
\* as its proposal, so that as a proposer it can propose it again.
LockIsProposal ==
  \A v \in Validator : locked[v] # NoBlock => proposal[v] = locked[v]

\* Two quorums share a validator that does not forget its lock.
QuorumsMeet == \A Q, R \in Quorum : ~ (Q \cap R \subseteq Forgetful)

\* The network is a step-by-step implementation of the agreement on a chain:
\* whatever rounds they are in, whatever they are locked on and whoever has been
\* started again, two validators never commit different blocks at one height,
\* nor does one write a block that was not committed.
A == INSTANCE Agreement
       WITH Node <- Validator, decided <- {c.block : c \in committed}, tip <- tip
Implements == A!Spec
=============================================================================
