---------------------------- MODULE Transactions ----------------------------
(***************************************************************************)
(* The transactions of PA1 and the rules FullNode.verifyTransaction        *)
(* applies to them (PA1/FullNode.py:53-164).  A transaction is named by    *)
(* its id; its static content is given by constants.  A UTXO dictionary    *)
(* {id: {index: {value, pubkeyhash}}} is the set of the outpoints          *)
(* <<id, index>> it holds: value and owner are determined by the outpoint. *)
(* Hashes and signatures appear only through their outcome: an input       *)
(* carries whether its signature verifies, and the hash of its public key. *)
(* Output indices count from 1 here, from 0 in the code.                   *)
(***************************************************************************)
EXTENDS Integers, Sequences, FiniteSets, FiniteSetsExt

CONSTANTS
  Tx,           \* transaction ids
  COINBASE,     \* the ids whose COINBASE flag is set
  inputs,       \* [Tx -> Seq([id, index, signed, pubkeyhash])]
  outputs,      \* [Tx -> Seq([value, pubkeyhash])], never empty
  number,       \* [Tx -> Nat], the order of the mempool
  Owner,        \* public-key hashes
  CoinbaseCap   \* 5e9 satoshis in the code

Input == [id : Tx, index : Nat \ {0}, signed : BOOLEAN, pubkeyhash : Owner]
Output == [value : Nat, pubkeyhash : Owner]

ASSUME TxAssumption ==
  /\ IsFiniteSet(Tx)
  /\ COINBASE \subseteq Tx
  /\ inputs \in [Tx -> Seq(Input)]
  /\ outputs \in [Tx -> Seq(Output) \ {<<>>}]
  /\ number \in [Tx -> Nat]
  /\ CoinbaseCap \in Nat

-----------------------------------------------------------------------------
Outpoint == Tx \X (Nat \ {0})

\* the outpoints _add_transaction_outputs writes
OutputsOf(t) == {t} \X (1 .. Len(outputs[t]))

\* the outpoint the k-th input of t refers to
Ref(t, k) == <<inputs[t][k].id, inputs[t][k].index>>

\* the outpoints t consumes: a coinbase's inputs are never looked at
Spends(t) ==
  IF t \in COINBASE THEN {} ELSE {Ref(t, k) : k \in 1 .. Len(inputs[t])}

Exists(o) == o[2] <= Len(outputs[o[1]])
ValueOf(o) == outputs[o[1]][o[2]].value
OwnerOf(o) == outputs[o[1]][o[2]].pubkeyhash
TotalValue(S) == MapThenSumSet(ValueOf, S)

\* mutant: an output already spent counts as live
InputVerdictNotLive(db, known, t, k) ==
  LET o == Ref(t, k) IN
  IF ~ inputs[t][k].signed THEN "corrupt"
  ELSE IF o[1] \notin known \/ ~ Exists(o) THEN "invalid"
  ELSE IF inputs[t][k].pubkeyhash # OwnerOf(o) THEN "corrupt"
  ELSE "valid"

\* mutant: an output that is not live yet makes the transaction corrupt
InputVerdictEarlyIsCorrupt(db, known, t, k) ==
  LET o == Ref(t, k) IN
  IF ~ inputs[t][k].signed THEN "corrupt"
  ELSE IF o[1] \notin known \/ ~ Exists(o) THEN "invalid"
  ELSE IF inputs[t][k].pubkeyhash # OwnerOf(o) \/ o \notin db THEN "corrupt"
  ELSE "valid"

\* The fate of the k-th input when the earlier ones were accepted: a bad
\* signature or a foreign owner makes the transaction corrupt, an unknown
\* parent or an output that is not live (any more) only makes it invalid.
\* known: the ids in confirmed, all_unconfirmed and unconfirmed transactions.
InputVerdict(db, known, t, k) ==
  LET o == Ref(t, k) IN
  IF ~ inputs[t][k].signed THEN "corrupt"
  ELSE IF o[1] \notin known \/ ~ Exists(o) THEN "invalid"
  ELSE IF inputs[t][k].pubkeyhash # OwnerOf(o) THEN "corrupt"
  ELSE IF o \notin db \ {Ref(t, j) : j \in 1 .. k - 1} THEN "invalid"
  ELSE "valid"

\* mutant: the comparison of line 157 the wrong way round
OverspendsSwapped(t) == TotalValue(Spends(t)) > TotalValue(OutputsOf(t))

\* all inputs passed: outputs may not exceed them, what is left is the fee
Overspends(t) == TotalValue(Spends(t)) < TotalValue(OutputsOf(t))

\* the outcome of verifyTransaction(t); the loop stops at the first bad input
Verdict(db, known, t) ==
  IF t \in COINBASE
  THEN IF \E o \in db : o[1] = t THEN "invalid"
       ELSE IF TotalValue(OutputsOf(t)) > CoinbaseCap THEN "corrupt"
       ELSE "valid"
  ELSE LET bad == {k \in 1 .. Len(inputs[t]) :
                      InputVerdict(db, known, t, k) # "valid"}
       IN  IF bad # {} THEN InputVerdict(db, known, t, Min(bad))
           ELSE IF Overspends(t) THEN "corrupt"
           ELSE "valid"

\* mutant: the spent outputs are not removed
ApplyKeepsSpent(db, t) == db \cup OutputsOf(t)

\* mutant: the marker of line 112 stays beside the outputs
ApplyLeavesMarker(db, t) == (db \ Spends(t)) \cup OutputsOf(t) \cup {<<t, 0>>}

\* the dictionary after a transaction found valid
Apply(db, t) == (db \ Spends(t)) \cup OutputsOf(t)
=============================================================================
