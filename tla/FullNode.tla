------------------------------ MODULE FullNode ------------------------------
(***************************************************************************)
(* A network of PA1 nodes.  Each node runs the command loop of main.py:    *)
(* between two commands it reloads the chain and the mempool, then mines,  *)
(* validates pending chains, rebuilds its UTXO database, sends its state   *)
(* or requests chains.  Its listener thread stores chains the backend      *)
(* relays, at any time.  The backend is not in the repository: it keeps    *)
(* the last state each node sent and answers a request with the blocks the *)
(* requester lacks.  Commands that loop (mine, validate) take one step per *)
(* iteration, so that the rest of the network moves in between.            *)
(***************************************************************************)
EXTENDS Blockchain

CONSTANTS
  Node,        \* nodes running this program
  Peer,        \* senders that run another program
  Foreign,     \* the pending chains such a sender may have relayed
  Mempool,     \* the transactions in every node's mempool folder
  MaxBlocks,   \* bound: no node mines beyond this many blocks
  MaxExchanges \* bound: nodes with a request or a relayed chain outstanding

Sender == Node \cup Peer

ASSUME FullNodeAssumption ==
  /\ Node \cap Peer = {}
  /\ Mempool \subseteq Tx
  /\ MaxBlocks \in Nat
  /\ MaxExchanges \in Nat

\* Nothing is known of a foreign chain but that it holds a block, numbers its
\* first block from 0 on and carries transactions this program can read.
ASSUME ForeignAssumption ==
  \A chain \in Foreign :
    /\ chain \in Seq(ToSet(chain)) \ {<<>>}
    /\ chain[1].index \in Nat
    /\ \A i \in 1 .. Len(chain) : chain[i].transactions \in Seq(Tx)

VARIABLES
  valid_chain,   \* [Node -> Seq(block)], on disk; in memory between commands
  unconfirmed,   \* [Node -> SUBSET Tx], (all_)unconfirmed_transactions
  corrupt,       \* [Node -> SUBSET Tx], corrupt_transactions
  utxo,          \* [Node -> set of outpoints], UTXO_Database
  mode,          \* [Node -> "prompt", "mining" or "validating"]
  candidate,     \* [Node -> <<>> or <<block>>], _candidate_block
  todo,          \* [Node -> SUBSET Sender], subdirectories still to validate
  pending,       \* [Node -> [Sender -> Seq(block)]], pending_chains; <<>>: none
  state,         \* backend: [Node -> chain last sent, <<>> if none]
  request        \* backend: [Node -> unanswered requests]

local == <<valid_chain, unconfirmed, corrupt, utxo, mode, candidate, todo>>
vars == <<valid_chain, unconfirmed, corrupt, utxo, mode, candidate, todo,
          pending, state, request>>

\* mutant: parents are searched in the confirmed transactions only
KnownConfirmed(chain, unconf) == Confirmed(chain)

\* the ids a parent transaction is searched in, for a node with this chain
Known(chain, unconf) == Confirmed(chain) \cup unconf

\* mutant: the list only ever shrinks, a dropped fork is not taken back
ReloadShrinks(n, chain, corr) ==
  unconfirmed' = [unconfirmed EXCEPT ![n] = @ \ (Confirmed(chain) \cup corr)]

\* main.py:75-85, run before every prompt
Reload(n, chain, corr) ==
  unconfirmed' = [unconfirmed EXCEPT ![n] = Mempool \ (Confirmed(chain) \cup corr)]

Init ==
  /\ valid_chain = [n \in Node |-> <<Genesis>>]
  /\ unconfirmed = [n \in Node |-> Mempool]
  /\ corrupt = [n \in Node |-> {}]
  /\ utxo = [n \in Node |-> {}]
  /\ mode = [n \in Node |-> "prompt"]
  /\ candidate = [n \in Node |-> <<>>]
  /\ todo = [n \in Node |-> {}]
  /\ pending = [n \in Node |-> [s \in Sender |-> <<>>]]
  /\ state = [n \in Node |-> <<>>]
  /\ request = [n \in Node |-> {}]

-----------------------------------------------------------------------------
(* "update_UTXO"                                                             *)

UpdateCommand(n) ==
  LET u == UpdateUTXO(valid_chain[n], Known(valid_chain[n], unconfirmed[n]), corrupt[n])
  IN
  /\ mode[n] = "prompt"
  /\ utxo' = [utxo EXCEPT ![n] = u.db]
  /\ corrupt' = [corrupt EXCEPT ![n] = u.corrupt]
  /\ Reload(n, valid_chain[n], u.corrupt)
  /\ UNCHANGED <<valid_chain, mode, candidate, todo, pending, state, request>>

(* "mine", first call: rebuild the database, collect, build the candidate;   *)
(* with nothing to mine, return 0.                                           *)
StartMine(n) ==
  LET chain == valid_chain[n]
      known == Known(chain, unconfirmed[n])
      u == UpdateUTXO(chain, known, corrupt[n])
      c == Collect(u.db, unconfirmed[n], known, u.corrupt)
      tip == chain[Len(chain)]
  IN
  /\ mode[n] = "prompt"
  /\ Len(chain) <= MaxBlocks
  /\ UNCHANGED <<valid_chain, todo, pending, state, request>>
  /\ utxo' = [utxo EXCEPT ![n] = u.db]
  /\ corrupt' = [corrupt EXCEPT ![n] = c.corrupt]
  /\ IF c.picked = <<>>
     THEN /\ Reload(n, chain, c.corrupt)
          /\ UNCHANGED <<mode, candidate>>
     ELSE /\ candidate' = [candidate EXCEPT ![n] =
                <<Block(tip.index + 1, c.picked, Hash(tip), n, TRUE)>>]
          /\ mode' = [mode EXCEPT ![n] = "mining"]
          /\ UNCHANGED unconfirmed

(* proof_of_work gives up after 5000 nonces; main.py calls mine again, which *)
(* goes on with the same candidate.                                          *)
ResumeMine(n) ==
  /\ mode[n] = "mining"
  /\ UNCHANGED vars

(* proof_of_work succeeds: append, save, rebuild the database, return 0.     *)
FoundBlock(n) ==
  LET chain == valid_chain[n] \o candidate[n]
      u == UpdateUTXO(chain, Known(chain, unconfirmed[n]), corrupt[n])
  IN
  /\ mode[n] = "mining"
  /\ UNCHANGED <<todo, pending, state, request>>
  /\ valid_chain' = [valid_chain EXCEPT ![n] = chain]
  /\ utxo' = [utxo EXCEPT ![n] = u.db]
  /\ corrupt' = [corrupt EXCEPT ![n] = u.corrupt]
  /\ Reload(n, chain, u.corrupt)
  /\ candidate' = [candidate EXCEPT ![n] = <<>>]
  /\ mode' = [mode EXCEPT ![n] = "prompt"]

(* "validate": the subdirectories are listed once.                           *)
StartValidate(n) ==
  LET dirs == {s \in Sender : pending[n][s] # <<>>} IN
  /\ mode[n] = "prompt"
  /\ dirs # {}
  /\ todo' = [todo EXCEPT ![n] = dirs]
  /\ mode' = [mode EXCEPT ![n] = "validating"]
  /\ UNCHANGED <<valid_chain, unconfirmed, corrupt, utxo, candidate, pending,
                 state, request>>

\* mutant: verify_chain returns without its finally, what the replay left in the
\* database stays there
ValidateNotRestored(n, s) ==
  LET temp == pending[n][s]
      valid == valid_chain[n]
      known == Known(valid, unconfirmed[n])
      longest == CurrentLongest(valid, temp)
      chain == IF Acceptable(valid, temp, known) THEN longest ELSE valid
      last == todo[n] = {s}
  IN
  /\ mode[n] = "validating"
  /\ s \in todo[n]
  /\ valid_chain' = [valid_chain EXCEPT ![n] = chain]
  /\ utxo' = [utxo EXCEPT ![n] = UpdateUTXO(longest, known, {}).db]
  /\ pending' = [pending EXCEPT ![n][s] = <<>>]
  /\ todo' = [todo EXCEPT ![n] = @ \ {s}]
  /\ mode' = [mode EXCEPT ![n] = IF last THEN "prompt" ELSE @]
  /\ IF last THEN Reload(n, chain, corrupt[n]) ELSE UNCHANGED unconfirmed
  /\ UNCHANGED <<corrupt, candidate, state, request>>

\* One subdirectory, in the order os.listdir gives.  The chain and
\* confirmed_transactions are loaded afresh after a replacement, the two
\* unconfirmed lists are still those of the prompt; verify_chain puts the
\* databases and the corrupt list back.  The subdirectory is removed anyway.
ValidateDirectory(n, s) ==
  LET temp == pending[n][s]
      valid == valid_chain[n]
      ok == Acceptable(valid, temp, Known(valid, unconfirmed[n]))
      chain == IF ok THEN CurrentLongest(valid, temp) ELSE valid
      last == todo[n] = {s}
  IN
  /\ mode[n] = "validating"
  /\ s \in todo[n]
  /\ valid_chain' = [valid_chain EXCEPT ![n] = chain]
  /\ pending' = [pending EXCEPT ![n][s] = <<>>]
  /\ todo' = [todo EXCEPT ![n] = @ \ {s}]
  /\ mode' = [mode EXCEPT ![n] = IF last THEN "prompt" ELSE @]
  /\ IF last THEN Reload(n, chain, corrupt[n]) ELSE UNCHANGED unconfirmed
  /\ UNCHANGED <<corrupt, utxo, candidate, state, request>>

(* "send state"                                                              *)
SendState(n) ==
  /\ mode[n] = "prompt"
  /\ state' = [state EXCEPT ![n] = valid_chain[n]]
  /\ UNCHANGED <<local, pending, request>>

\* the other nodes that wait for a chain or have not validated one yet
Exchanging(n) ==
  {m \in Node \ {n} : request[m] # {} \/ \E s \in Sender : pending[m][s] # <<>>}

(* "rl" and "ra": the hashes of the valid chain go to the backend.           *)
Request(n, kind) ==
  /\ mode[n] = "prompt"
  /\ Cardinality(Exchanging(n)) < MaxExchanges
  /\ request' = [request EXCEPT ![n] =
        {[from |-> m, kind |-> kind, headers |-> valid_chain[n]] : m \in Node \ {n}}]
  /\ UNCHANGED <<local, pending, state>>

\* The process ends and is started again: the disk and the backend survive,
\* and main.py:73 reports the chain, if the backend can be reached.
Restart(n) ==
  /\ unconfirmed' = [unconfirmed EXCEPT ![n] = Mempool \ Confirmed(valid_chain[n])]
  /\ corrupt' = [corrupt EXCEPT ![n] = {}]
  /\ utxo' = [utxo EXCEPT ![n] = {}]
  /\ mode' = [mode EXCEPT ![n] = "prompt"]
  /\ candidate' = [candidate EXCEPT ![n] = <<>>]
  /\ todo' = [todo EXCEPT ![n] = {}]
  /\ request' = [request EXCEPT ![n] = {}]
  /\ state' \in {state, [state EXCEPT ![n] = valid_chain[n]]}
  /\ UNCHANGED <<valid_chain, pending>>

-----------------------------------------------------------------------------
(* The backend and the listener thread                                       *)

\* the blocks of a chain after the part the headers already cover
Missing(chain, headers) ==
  LET shared == {i \in 0 .. Len(chain) :
                   /\ i <= Len(headers)
                   /\ \A j \in 1 .. i : chain[j] = headers[j]}
  IN  SubSeq(chain, Max(shared) + 1, Len(chain))

\* save_pending_chain: the sender's directory is replaced
SavePendingChain(n, s, chain) ==
  pending' = [pending EXCEPT ![n][s] = chain]

\* a node's state reaches the requester; "longest" only relays a longest one
Relay(n, r) ==
  /\ r \in request[n]
  /\ Missing(state[r.from], r.headers) # <<>>
  /\ r.kind = "longest" =>
        /\ Len(state[r.from]) > Len(r.headers)
        /\ \A m \in Node : Len(state[m]) <= Len(state[r.from])
  /\ SavePendingChain(n, r.from, Missing(state[r.from], r.headers))
  /\ request' = [request EXCEPT ![n] = IF r.kind = "longest" THEN {} ELSE @ \ {r}]
  /\ UNCHANGED <<local, state>>

\* a chain of a sender that runs another program
RelayForeign(n, s, chain) ==
  /\ Cardinality(Exchanging(n)) < MaxExchanges
  /\ SavePendingChain(n, s, chain)
  /\ UNCHANGED <<local, state, request>>

Command(n) ==
  \/ UpdateCommand(n) \/ StartMine(n) \/ StartValidate(n)
  \/ SendState(n) \/ Request(n, "longest") \/ Request(n, "all")

Step(n) ==
  \/ Command(n) \/ ResumeMine(n) \/ FoundBlock(n) \/ Restart(n)
  \/ \E s \in Sender : ValidateDirectory(n, s)
  \/ \E r \in request[n] : Relay(n, r)
  \/ \E s \in Peer, chain \in Foreign : RelayForeign(n, s, chain)

Next == \E n \in Node : Step(n)
Spec == Init /\ [][Next]_vars

\* "mine" would find transactions for a block (within the bound)
SomethingToMine(n) ==
  LET known == Known(valid_chain[n], unconfirmed[n])
      u == UpdateUTXO(valid_chain[n], known, corrupt[n])
  IN
  /\ Len(valid_chain[n]) <= MaxBlocks
  /\ Collect(u.db, unconfirmed[n], known, u.corrupt).picked # <<>>

\* A node whose operator types "mine" again and again while there is something
\* to mine, whatever else is typed and however often the node is restarted in
\* between.  main.py resumes the search until a nonce is found, and every search
\* has a chance to find one: searches that are begun again and again do not all
\* fail.  A validate command comes to its end.
MiningSpec ==
  /\ Spec
  /\ \A n \in Node :
       /\ []<>(mode[n] = "mining" \/ ~ SomethingToMine(n))
       /\ SF_vars(FoundBlock(n))
       /\ []<>(mode[n] # "validating")

-----------------------------------------------------------------------------
TypeOK ==
  /\ \A n \in Node : Len(valid_chain[n]) > 0 /\ Len(candidate[n]) <= 1
  /\ unconfirmed \in [Node -> SUBSET Mempool]
  /\ corrupt \in [Node -> SUBSET Tx]
  /\ utxo \in [Node -> SUBSET Outpoint]
  /\ mode \in [Node -> {"prompt", "mining", "validating"}]
  /\ todo \in [Node -> SUBSET Sender]

\* Whatever was mined, relayed, adopted and dropped, a node's chain is linked
\* with proof of work from a block 0 on; after that block it holds no
\* transaction twice and spends only what it created before, and nothing twice.
\* Block 0 is the genesis block until a relayed one that names the tip replaces
\* it (FullNode.py:388-397).
ChainSound == \A n \in Node : Sound(valid_chain[n])

\* The candidate of a search that was resumed is still a sound extension.
CandidateSound ==
  \A n \in Node : candidate[n] # <<>> => Sound(valid_chain[n] \o candidate[n])

\* the steps that call update_UTXO
RebuildsDatabase(n) == UpdateCommand(n) \/ StartMine(n) \/ FoundBlock(n)

\* Each rebuild of UTXO_Database yields exactly the unspent outputs of the chain
\* the node then has.  A stop empties the database; no other step touches it,
\* and validation, which replays chains in it, puts it back also when it rejects.
UtxoFollowsChain ==
  [][\A n \in Node :
       IF RebuildsDatabase(n) THEN utxo'[n] = Unspent(valid_chain'[n])
       ELSE utxo'[n] = IF Restart(n) THEN {} ELSE utxo[n]]_vars

\* the pending chain names the block before it in the chain, and makes it longer
Extends(valid, temp) ==
  /\ temp # <<>>
  /\ temp[1].index \in 1 .. Len(valid)
  /\ temp[1].previous_hash = Hash(valid[temp[1].index])
  /\ temp[1].index + Len(temp) > Len(valid)

\* What a node at its prompt has confirmed, given up as corrupt or still waits
\* for never makes it refuse an honest chain: it accepts what it lacks of any
\* longer chain, and a reply that was asked for before its own chain changed
\* when that reply still extends it.
ChainsAreAcceptable ==
  \A n, m \in Node :
     LET valid == valid_chain[m]
         accepts(temp) == Acceptable(valid, temp, Known(valid, unconfirmed[m]))
     IN mode[m] = "prompt" =>
          /\ Len(valid_chain[n]) > Len(valid) => accepts(Missing(valid_chain[n], valid))
          /\ Extends(valid, pending[m][n]) => accepts(pending[m][n])

\* Nothing is forgotten in a fork: at the prompt a transaction that the chain
\* does not hold and that could extend it waits in the unconfirmed list.
NoneForgotten ==
  \A n \in Node : mode[n] = "prompt" =>
     \A t \in Mempool \ unconfirmed[n] :
        t \in Confirmed(valid_chain[n])
          \/ Verdict(Unspent(valid_chain[n]), Tx, t) # "valid"

\* every mempool transaction is confirmed, or can not extend the chain
Settled ==
  \A n \in Node : \A t \in Mempool :
     t \in Confirmed(valid_chain[n])
       \/ Verdict(Unspent(valid_chain[n]), Tx, t) # "valid"

\* a pending chain replaces a node's chain
TakeOver ==
  \E n \in Node : mode[n] = "validating" /\ valid_chain'[n] # valid_chain[n]

\* Nodes that keep mining and do not take over chains for ever confirm every
\* mempool transaction that stays acceptable, whatever they took before: none is
\* starved by those that are refused and come first by number, or lost with a
\* chain that was left.
AllSettle == <>[]Settled \/ []<><<TakeOver>>_vars

=============================================================================
