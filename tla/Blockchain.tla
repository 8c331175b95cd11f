----------------------------- MODULE Blockchain -----------------------------
(***************************************************************************)
(* Blocks, and the passes FullNode makes over a chain: rebuilding the UTXO *)
(* database (update_UTXO), verifying a peer's chain (verify_chain) and     *)
(* collecting a block (findValidButUnconfirmedTransactions).               *)
(* A chain is a sequence whose i-th element has index i - 1, block 0 first *)
(* (the genesis block, unless a peer's block 0 replaced it).  The hash of  *)
(* a block is an injective image of its content.  pow says that the hash   *)
(* starts with DIFFICULTY zeros and the nonce is a multiple of 10; the     *)
(* time stamp is left out.                                                 *)
(***************************************************************************)
EXTENDS Transactions, SequencesExt

CONSTANT BlockMax      \* transactions per block, 5 in the code

ASSUME BlockchainAssumption ==
  /\ BlockMax \in Nat \ {0}
  /\ \A t, u \in Tx : number[t] = number[u] => t = u

Hash(block) == <<block>>

Block(index, txs, prev, miner, pow) ==
  [index |-> index, transactions |-> txs, previous_hash |-> prev,
   miner |-> miner, pow |-> pow]

Genesis == Block(0, <<>>, <<>>, "genesis", TRUE)

\* A loop over a sequence.  Unlike FoldLeft of SequencesExt it binds each
\* intermediate result, so that TLC computes it once also inside ENABLED.
Loop(Op(_, _), start, seq) ==
  LET after[i \in 0 .. Len(seq)] ==
        IF i = 0 THEN start
        ELSE CHOOSE r \in {Op(s, seq[i]) : s \in {after[i - 1]}} : TRUE
  IN  after[Len(seq)]

\* the transactions of a chain in block order; those of block 0 do not count
TxsOf(chain) ==
  Loop(LAMBDA s, b : IF b.index = 0 THEN s ELSE s \o b.transactions,
           <<>>, chain)
Ids(chain) ==
  UNION {ToSet(b.transactions) : b \in {c \in ToSet(chain) : c.index # 0}}

\* load_valid_chain: confirmed_transactions, those of block 0 included
Confirmed(chain) == UNION {ToSet(b.transactions) : b \in ToSet(chain)}

-----------------------------------------------------------------------------
(* update_UTXO: every transaction of the chain is verified again from an     *)
(* empty database, results are ignored, corrupt ones are remembered.         *)

UpdateUTXO(chain, known, corrupt) ==
  Loop(LAMBDA s, t :
             CASE Verdict(s.db, known, t) = "valid" -> [s EXCEPT !.db = Apply(@, t)]
               [] Verdict(s.db, known, t) = "corrupt" -> [s EXCEPT !.corrupt = @ \cup {t}]
               [] OTHER -> s,
           [db |-> {}, corrupt |-> corrupt], TxsOf(chain))

\* mutant: the links are not compared with the computed hashes
LinksOKIndexOnly(temp, lastHash) ==
  \A i \in 1 .. Len(temp) : temp[i].index = temp[1].index + i - 1 /\ temp[i].pow

(* verify_chain, steps 1-3: indices, links and proof of work of the new      *)
(* blocks, the first one chained to last_block_hash.                         *)
LinksOK(temp, lastHash) ==
  \A i \in 1 .. Len(temp) :
     /\ temp[i].index = temp[1].index + i - 1
     /\ temp[i].previous_hash = IF i = 1 THEN lastHash ELSE Hash(temp[i - 1])
     /\ temp[i].pow

(* verify_chain, step 4: replay the whole candidate from an empty database;  *)
(* one repeated id or one refused transaction rejects it.                    *)
ReplayStep(s, t, known) ==
  IF s.ok /\ t \notin s.seen /\ Verdict(s.db, known, t) = "valid"
  THEN [ok |-> TRUE, seen |-> s.seen \cup {t}, db |-> Apply(s.db, t)]
  ELSE [s EXCEPT !.ok = FALSE]

ReplayOK(candidate, known) ==
  Loop(LAMBDA s, t : ReplayStep(s, t, known),
           [ok |-> TRUE, seen |-> {}, db |-> {}], TxsOf(candidate)).ok

VerifyChain(candidate, temp, lastHash, known) ==
  /\ temp # <<>>
  /\ LinksOK(temp, lastHash)
  /\ ReplayOK(candidate, known)

(* validate_pending_chains, lines 388-397, for one pending chain.            *)
(* valid_chain[-1] is Python's last element: a pending chain that starts     *)
(* with index 0 is compared with the tip, and replaces the whole chain.      *)
StartsBeyond(valid, temp) == temp[1].index - 1 >= Len(valid)
LastBlock(valid, temp) ==
  IF temp[1].index = 0 THEN valid[Len(valid)] ELSE valid[temp[1].index]
CurrentLongest(valid, temp) == SubSeq(valid, 1, temp[1].index) \o temp

Acceptable(valid, temp, known) ==
  /\ ~ StartsBeyond(valid, temp)
  /\ VerifyChain(CurrentLongest(valid, temp), temp,
                 Hash(LastBlock(valid, temp)), known)

\* mutant: what was picked is not applied before the next is looked at
CollectStepNoApply(s, t, known) ==
  IF Len(s.picked) >= BlockMax THEN s
  ELSE CASE Verdict(s.db, known, t) = "valid" -> [s EXCEPT !.picked = Append(@, t)]
         [] Verdict(s.db, known, t) = "corrupt" ->
              [s EXCEPT !.corrupt = @ \cup {t}]
         [] OTHER -> s

(* findValidButUnconfirmedTransactions: by number, each valid transaction is *)
(* applied before the next is looked at, until the block is full.            *)
CollectStep(s, t, known) ==
  IF Len(s.picked) >= BlockMax THEN s
  ELSE CASE Verdict(s.db, known, t) = "valid" ->
              [s EXCEPT !.db = Apply(@, t), !.picked = Append(@, t)]
         [] Verdict(s.db, known, t) = "corrupt" ->
              [s EXCEPT !.corrupt = @ \cup {t}]
         [] OTHER -> s

\* sorted(..., key=number); the numbers differ
ByNumber(S) ==
  [i \in 1 .. Cardinality(S) |->
     CHOOSE t \in S : Cardinality({u \in S : number[u] < number[t]}) = i - 1]

\* mutant: only the first BlockMax files are looked at (util.py:40, 51-52)
CollectFirst(utxo, unconfirmed, known, corrupt) ==
  LET sorted == ByNumber(unconfirmed)
  IN  Loop(LAMBDA s, t : CollectStep(s, t, known),
               [db |-> utxo, picked |-> <<>>, corrupt |-> corrupt],
               SubSeq(sorted, 1, Min({BlockMax, Len(sorted)})))

Collect(utxo, unconfirmed, known, corrupt) ==
  Loop(LAMBDA s, t : CollectStep(s, t, known),
           [db |-> utxo, picked |-> <<>>, corrupt |-> corrupt],
           ByNumber(unconfirmed))

-----------------------------------------------------------------------------
(* What a sound chain is, said without replaying it.                         *)

Unspent(chain) ==
  (UNION {OutputsOf(t) : t \in Ids(chain)}) \ (UNION {Spends(t) : t \in Ids(chain)})

Sound(chain) ==
  LET txs == TxsOf(chain) IN
  /\ Len(chain) > 0 /\ chain[1].index = 0
  /\ \A i \in 2 .. Len(chain) :
        /\ chain[i].index = i - 1
        /\ chain[i].previous_hash = Hash(chain[i - 1])
        /\ chain[i].pow
  /\ \A i, j \in 1 .. Len(txs) : i # j =>
        txs[i] # txs[j] /\ Spends(txs[i]) \cap Spends(txs[j]) = {}
  /\ \A i \in 1 .. Len(txs) :
        Spends(txs[i]) \subseteq UNION {OutputsOf(txs[j]) : j \in 1 .. i - 1}
=============================================================================
