------------------------------- MODULE Ledger -------------------------------
(***************************************************************************)
(* The UTXO bookkeeping of one FullNode: UTXO_Database_Pending and the     *)
(* corrupt list as successive calls of verifyTransaction change them.  The *)
(* callers are verify_chain (FullNode.py:469-477) and                      *)
(* findValidButUnconfirmedTransactions (172-183), which never call it for  *)
(* an id accepted since the last reset.                                    *)
(***************************************************************************)
EXTENDS Transactions

CONSTANT KnownSets    \* the sets of ids the node's transaction lists may hold

ASSUME LedgerAssumption == KnownSets \subseteq SUBSET Tx

VARIABLES
  pending,    \* UTXO_Database_Pending
  known,      \* ids a parent is searched in (_find_parent_output_anywhere)
  corrupt,    \* corrupt_transactions, never cleared
  applied     \* history: the transactions accepted since the last reset

vars == <<pending, known, corrupt, applied>>

Init ==
  /\ pending = {}
  /\ known \in KnownSets
  /\ corrupt = {}
  /\ applied = {}

VerifyTransaction(t) ==
  LET v == Verdict(pending, known, t) IN
  /\ pending' = IF v = "valid" THEN Apply(pending, t) ELSE pending
  /\ corrupt' = IF v = "corrupt" THEN corrupt \cup {t} ELSE corrupt
  /\ applied' = IF v = "valid" THEN applied \cup {t} ELSE applied
  /\ UNCHANGED known

\* the callers that skip (line 175) or refuse (line 473) a repeated id
Replay(t) == t \notin applied /\ VerifyTransaction(t)

\* update_UTXO or verify_chain starts over; main.py:75-85 has reloaded the
\* chain and the mempool, so the known parents may differ; corrupt is kept
Reset ==
  /\ pending' = {}
  /\ applied' = {}
  /\ known' \in KnownSets
  /\ UNCHANGED corrupt

Next == Reset \/ \E t \in Tx : Replay(t)
Spec == Init /\ [][Next]_vars

-----------------------------------------------------------------------------
Created == UNION {OutputsOf(t) : t \in applied}
Spent == UNION {Spends(t) : t \in applied}

TypeOK ==
  /\ pending \subseteq Outpoint
  /\ known \subseteq Tx
  /\ corrupt \subseteq Tx
  /\ applied \subseteq Tx

\* The database holds exactly the outputs created and not yet spent by the
\* accepted transactions, whatever was rejected in between.
UtxoExact == pending = Created \ Spent

\* No output is consumed by two accepted transactions.
NoDoubleSpend ==
  \A t, u \in applied : t # u => Spends(t) \cap Spends(u) = {}

\* Nothing is spent that an accepted transaction did not create.
SpentWasCreated == Spent \subseteq Created

\* The coins in the database never exceed what the accepted coinbases may mint:
\* a regular transaction moves value or leaves a fee, it never creates any.
SupplyBacked ==
  TotalValue(pending) <= CoinbaseCap * Cardinality(applied \cap COINBASE)

\* load_unconfirmed_transactions drops a corrupt transaction for good, so only
\* one that no later state could accept may be marked (it was not merely early).
CorruptNeverAccepted == corrupt \cap applied = {}
=============================================================================
