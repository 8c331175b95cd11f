------------------------------ MODULE Snapshot ------------------------------
(***************************************************************************)
(* The voting on validators of the PA3 network (consensus/istanbul/        *)
(* backend/snapshot.go and engine.go): each block carries one vote of its  *)
(* author, and the snapshot after a block holds the validators, the votes  *)
(* that stand and a tally of them that is kept along, vote by vote.        *)
(*                                                                         *)
(* One step applies one header.  A header without a vote says drop about   *)
(* the zero address, which is a vote about one that is no validator.       *)
(***************************************************************************)
EXTENDS Naturals, FiniteSets

CONSTANTS
  Account,     \* all addresses
  Genesis,     \* the validators of the first block
  Epoch        \* blocks after which the votes are dropped

ASSUME SnapshotAssumption ==
  /\ IsFiniteSet(Account)
  /\ Genesis \subseteq Account
  /\ Epoch \in Nat \ {0}

VARIABLES
  valSet,      \* the validators
  votes,       \* the votes that stand: a list in the code, whose order is not used
  tally,       \* [Account -> its tally]
  number       \* the number of the last block, modulo Epoch
vars == <<valSet, votes, tally, number>>

Vote == [validator : Account, address : Account, authorize : BOOLEAN]

\* an address that has no entry in the map, the zero value of its type
NoTally == [authorize |-> FALSE, votes |-> 0]
Fresh == [votes |-> {}, tally |-> [a \in Account |-> NoTally]]

Init ==
  /\ valSet = Genesis
  /\ votes = Fresh.votes /\ tally = Fresh.tally
  /\ number = 0

-----------------------------------------------------------------------------
(* What the functions of snapshot.go do to one tally, and to the two records *)

\* checkVote: the vote would change something
CheckVote(address, authorize) == authorize = (address \notin valSet)

\* cast, on an entry that is there or on a new one
Cast(t, authorize) ==
  IF t.votes > 0 THEN [t EXCEPT !.votes = @ + 1]
  ELSE [authorize |-> authorize, votes |-> 1]

\* uncast: nothing for a dangling vote or one of the other direction
Uncast(t, authorize) ==
  IF t.votes = 0 \/ t.authorize # authorize THEN t
  ELSE IF t.votes > 1 THEN [t EXCEPT !.votes = @ - 1]
  ELSE NoTally

\* snapApplyHeader, first part: a new epoch begins without votes
Standing == IF number' = 0 THEN Fresh ELSE [votes |-> votes, tally |-> tally]

\* second part: what v has said of the address before is discarded
Discarded(s, v, address) ==
  LET before == {m \in s.votes : m.validator = v /\ m.address = address} IN
  [votes |-> s.votes \ before,
   tally |-> IF before = {} THEN s.tally
             ELSE [s.tally EXCEPT ![address] =
                     Uncast(@, (CHOOSE m \in before : TRUE).authorize)]]

\* third part: the vote is added if it is meaningful
Counted(s, v, address, authorize) ==
  IF ~ CheckVote(address, authorize) THEN s
  ELSE [votes |-> s.votes \cup
          {[validator |-> v, address |-> address, authorize |-> authorize]},
        tally |-> [s.tally EXCEPT ![address] = Cast(@, authorize)]]

After(v, address, authorize) ==
  Counted(Discarded(Standing, v, address), v, address, authorize)

\* mutant: half of the validators are enough
PassedByHalf(s, address) == s.tally[address].votes >= Cardinality(valSet) \div 2

Passed(s, address) == s.tally[address].votes > Cardinality(valSet) \div 2

-----------------------------------------------------------------------------
(* snapApplyHeader                                                           *)

\* mutant: the epoch ends one block late
HeaderLate(v) ==
  /\ v \in valSet
  /\ number' = (number + 1) % (Epoch + 1)

\* a header of one who is no validator is an error, and nothing is applied
Header(v) ==
  /\ v \in valSet
  /\ number' = (number + 1) % Epoch

\* the address has no majority yet
NoMajority(v, address, authorize) ==
  /\ Header(v)
  /\ LET s == After(v, address, authorize) IN
       /\ ~ Passed(s, address)
       /\ votes' = s.votes /\ tally' = s.tally
  /\ UNCHANGED valSet

\* a majority for adding it: the votes about it are done with
AddValidator(v, address, authorize) ==
  /\ Header(v)
  /\ LET s == After(v, address, authorize) IN
       /\ Passed(s, address) /\ s.tally[address].authorize
       /\ valSet' = valSet \cup {address}
       /\ votes' = {m \in s.votes : m.address # address}
       /\ tally' = [s.tally EXCEPT ![address] = NoTally]

\* mutant: the votes of the removed validator go, their part of the tally stays
RemoveValidatorOnly(v, address, authorize) ==
  /\ Header(v)
  /\ LET s == After(v, address, authorize) IN
       /\ Passed(s, address) /\ ~ s.tally[address].authorize
       /\ valSet' = valSet \ {address}
       /\ votes' = {m \in s.votes : m.validator # address /\ m.address # address}
       /\ tally' = [s.tally EXCEPT ![address] = NoTally]

\* a majority for removing it: the votes it has cast are uncast, too
RemoveValidator(v, address, authorize) ==
  /\ Header(v)
  /\ LET s == After(v, address, authorize)
         Said(a) == {m \in s.votes : m.validator = address /\ m.address = a}
     IN
       /\ Passed(s, address) /\ ~ s.tally[address].authorize
       /\ valSet' = valSet \ {address}
       /\ votes' = {m \in s.votes : m.validator # address /\ m.address # address}
       /\ tally' = [a \in Account |->
            IF a = address THEN NoTally
            ELSE IF Said(a) = {} THEN s.tally[a]
            ELSE Uncast(s.tally[a], (CHOOSE m \in Said(a) : TRUE).authorize)]

Next ==
  \E v, address \in Account, authorize \in BOOLEAN :
    \/ NoMajority(v, address, authorize)
    \/ AddValidator(v, address, authorize)
    \/ RemoveValidator(v, address, authorize)

Spec == Init /\ [][Next]_vars

-----------------------------------------------------------------------------
(* Properties                                                                *)

TypeOK ==
  /\ valSet \subseteq Account
  /\ votes \subseteq Vote
  /\ tally \in [Account -> [authorize : BOOLEAN, votes : Nat]]
  /\ number \in 0 .. Epoch - 1

VotesAbout(a) == {m \in votes : m.address = a}

\* The tally that is kept along is the count of the votes that stand, and these
\* are meaningful: of validators, one for each account, all for the change that
\* is possible.  Each of the ways a vote may go takes exactly its part with it:
\* said again, taken back, decided, of a removed validator, end of the epoch.
TallyExact ==
  /\ \A a \in Account : tally[a].votes = Cardinality(VotesAbout(a))
  /\ \A a \in Account : tally[a].votes > 0 => CheckVote(a, tally[a].authorize)
  /\ \A m \in votes : m.validator \in valSet /\ CheckVote(m.address, m.authorize)

\* The list of votes and the tally implement the voting as the operators see it:
\* only more than half of the current validators, each counted once, change the
\* set of validators.
E == INSTANCE Election
       WITH member <- valSet, wish <- {<<m.validator, m.address>> : m \in votes}
Implements == E!Spec
=============================================================================
