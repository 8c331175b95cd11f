# A verification project for the blockchain course assignments

The repository holds three programs, all under `src/programming_assignments/`:

| part | what it is | code |
|---|---|---|
| PA1 | a proof-of-work full node: UTXO database, mempool, mining, adoption of peers' chains, a listener thread and a command loop | `PA1/*.py` |
| PA2 | a banking contract: accounts, deposits, loans, interest | `PA2/contracts/banking_26106_contract.sol` |
| PA3 | a double-auction contract run on a private five-validator Quorum network | `PA3/students/pa3_std/contracts/DoubleAuction.sol`, `PA3/scriptSetupV2/*.sh` |

This directory models them in TLA+, checks the models with TLC on small
instances, and proves the most important invariants for every instance with
TLAPS. Abbreviations below: FN is `PA1/FullNode.py`, NW `PA1/network.py`, BK the
banking contract, DA `DoubleAuction.sol`, IB
`PA3/scriptSetupV2/quorum/consensus/istanbul`, the consensus the PA3 network runs.

1. Inventory · 2. Modules · 3. Runs · 4. Fairness · 5. Proofs ·
6. Where code and documents differ · 7. Not modelled · 8. Plan

## 1. Inventory

### PA1: the node

**Transactions and UTXO database** (FN:53-190).
*State:* `UTXO_Database`, `UTXO_Database_Pending`, `corrupt_transactions`, and the
three lists in which a parent transaction is searched.
*Operations:* `verifyTransaction`, `update_UTXO`,
`findValidButUnconfirmedTransactions`, the replay in `verify_chain`.
*Hard:* the outcome depends on the order of the transactions; an input may be
accepted before a later one fails; "corrupt" is for ever, "invalid" is only for
now, and one is easily taken for the other.
*Correct when:* the database holds exactly what was created and not spent; nothing
is spent twice or before it exists; no value appears; only what can never be valid
is marked corrupt.

**The node** (FN:165-408, main.py).
*State:* `valid_chain`, the confirmed and unconfirmed lists, `_candidate_block`.
*Operations:* the commands `mine` (called again until a nonce is found),
`validate`, `update_UTXO`, `rl`/`ra`, `send state`; a restart.
*Interactions:* reads and writes the directories `valid_chain/`, `mempool/`,
`pending_chains/`; talks to a backend (not in the repository) that relays chains.
*Hard:* a reply refers to the chain as it was when the request was sent; forks and
reorganisations with lists loaded earlier; resumed searches; restarts.
*Correct when:* every chain a node has is linked, worked for and free of double
spends; what one node mines the others accept; a dropped fork's transactions can
be mined again; refused transactions do not starve the others.

**The `valid_chain` directory** (util.py:21-90). One file per block, rewritten from
scratch on adoption, extended by one file on mining. *Hard:* the process may end
between any two file operations. *Correct when:* what loads afterwards is a leading
part of the old or the new chain, never a mixture.

**`pending_chains/` and the listener thread** (NW:161-175, FN:361-408). The listener
replaces a sender's directory while the command loop may be listing, reading or
removing it; nothing is locked. *Correct when:* no interleaving lets a mixture into
the node's chain, a directory left in peace is read as it was saved, validation
ends, and what is removed has been verified.

**Connections** (NW:13-147, 204-219). Two sockets, the `connected` flag and the
receive buffer, assigned by both threads. *Hard:* `reset_sockets` and
`start_connection` run in both threads at once; either connection may break while
the other stands. *Correct when:* the node gets both connections back.

### PA2: the bank

*State:* `userAccounts` (exists, balance, principal, interest), `addressList`,
`loan_funds`, `operational_funds`, two rates, the contract's ether.
*Operations:* the public functions: open, close, deposit, withdraw, transfer, top
up, take and return a loan, set rates, add deposit and loan interest.
*Hard:* a dozen functions move money between accounts, two funds and the outside;
closing and opening again; interest loops whose total is computed before the
balances are raised; loans, limits and withdrawals in any order.
*Correct when:* the ether held is what is owed; no principal appears or is lost; a
closed account holds nothing; interest is paid to everybody, once.

### PA3: the auction

*State:* two books of bids, four result arrays, the flags `used`, `usedList`, the
time of the last auction. *Operations:* `addBuyer`, `addSeller`, `doubleAuction`.
*Hard:* three records of who has bid that must agree; the exchange sort; the count
of crossing pairs; checked arithmetic that reverts; calls at any time.
*Correct when:* one bid each, trades nobody loses by, the outcome a call market
promises, and a book that can be cleared.

### PA3: the network

**Istanbul BFT** (IB/ibft/core). Five validators decide the blocks.
*State:* per validator a sequence and a round, the state of the round, the proposal,
the lock, message sets, a timer; the chain below.
*Operations:* requests of the miner, PRE-PREPARE, PREPARE, COMMIT and ROUND CHANGE
handlers, timeouts, the final commit.
*Hard:* messages late, lost, repeated, of later views and of old ones; timers that
fire while votes are under way; locks that must go from round to round and that a
restart forgets; two formulas for the size of a quorum.
*Correct when:* no two validators commit different blocks at one height; a validator
votes once in a view; a COMMIT rests on the votes of a quorum.

**Voting on validators** (IB/backend/snapshot.go, engine.go:490-608). Each block
carries a vote; the snapshot keeps the votes and a tally. *Hard:* the tally is kept
along with the votes through everything that can happen to a vote. *Correct when:* the
tally is the count of the votes that stand, and only majorities change the set.

### Other parts

The rest of Quorum, node creation scripts, web3 client scripts, course variants,
graders: see section 7.

## 2. Modules

| module | models | abstraction |
|---|---|---|
| `Transactions` | `verifyTransaction` as a pure verdict and update | a UTXO dictionary is the set of outpoints it holds; a signature is whether it verifies |
| `Ledger` | one node's pending database through any sequence of verifications and resets | history `applied`: what was accepted since the last reset |
| `Blockchain` | blocks; the passes over a chain: rebuild, verify, collect | a block's hash is an injective image of it; `pow` says it meets the target |
| `FullNode` | a network of nodes with their command loops, listeners and a backend | one step per command or iteration; directories hold whole chains |
| `ChainStore` | the operations on `valid_chain/`, file by file | a block is the path of labels from genesis to it |
| `PendingChains` | `pending_chains/` file by file, two threads, composed with `ChainStore`; stops and starts | as above; verification is the link check |
| `Connection` | both sockets, both threads, the backend | a message is one item |
| `Banking` | every public function of the contract | ether outside is `wallet`, inside `vault` |
| `CallMarket` | the abstract specification of the auction | sets of bids, any ranking by value |
| `DoubleAuction` | the auction contract, sort and count included | four arrays are one sequence of records |
| `Agreement` | the abstract specification of the consensus | a block is the chain it ends |
| `Quorums` | F and the two sizes of a quorum | |
| `IBFT` | the consensus core of each validator | messages are kept in sets; a validator has taken in any part of them |
| `Election` | the abstract specification of the voting | wishes and majorities |
| `Snapshot` | votes, tally and validators, header by header | the list of votes is a set; the author is any validator |
| `LedgerProofs`, `FullNodeProofs`, `BankingProofs`, `DoubleAuctionProofs`, `IBFTProofs`, `SnapshotProofs` | theorems about the module of that name | |
| `ProcessProofs` | theorems about the two threads of a node's process: `PendingChains` and `Connection` | |
| `RecursionProofs` | induction, loops and sums for the proofs | |
| `MC*` | values for TLC | |

`Transactions` ← `Ledger`; `Transactions` ← `Blockchain` ← `FullNode`;
`ChainStore` ← `PendingChains`; `Quorums` ← `IBFT`; `DoubleAuction` implements
`CallMarket`, `IBFT` implements `Agreement`, `Snapshot` implements `Election`.
`FullNode` treats the two directories as whole objects; `PendingChains` opens both up
and joins them in one process, so the two together cover what is atomic in the first.

How state and actions correspond to the code:

- **Ledger.** `VerifyTransaction(t)` is FN:91-164 whole; `pending` and `corrupt` are
  the attributes of that name. The callers skip (FN:175) or refuse (FN:473) an id
  already accepted: `Replay`. `Reset` is the start of `update_UTXO`,
  `findValidButUnconfirmedTransactions` or `verify_chain`.
- **FullNode.** `valid_chain`, `unconfirmed`, `corrupt`, `utxo`, `candidate` are
  attributes of a node; `Reload` is main.py:75-85, part of every action that ends at
  the prompt. `StartMine` is the first call of `mine`, `ResumeMine` a call that finds
  no nonce, `FoundBlock` the call that does. `ValidateDirectory` is one round of the
  loop FN:376-405, in any order of directories. `Request` and `Relay` are NW:204-219
  and the external backend: it answers with the blocks after the part the request's
  hashes cover, computed when it answers. A new request replaces an unanswered one.
  `Restart` loses what is only in memory.
- **ChainStore.** `SaveChain` → `DeleteFile`* → `DeletedAll` → (`OpenFile`,
  `DumpBlock`)* → `FinishSave` is `save_chain` and the load after it;
  `SaveMinedBlock` the append and save of `mine`; `StartStore` the load of the next
  start, which raises when files are missing or torn. `job` says what the command loop
  has in hand; it is `stopped` when the loop has ended.
- **PendingChains.** `ListenerClear`, `Make`, `Open`, `Dump`, `Done` are
  `save_pending_chain`; `StartValidate` … `RemoveDirectory` are
  `validate_pending_chains`. `VerifyChain` starts the save of a chain that is taken
  over, and the directory it came from is opened for removal when the save has ended.
  An exception in the listener ends the handling of one message, one in the command
  loop ends the loop (`Raise`) and leaves the listener. `Stop` ends both at any step;
  `Start` begins with the listener, as main.py:65 does, and goes no further while the
  chain cannot be loaded. Files are named by `lcount`, which is `block_count` of
  NW:165-175: it starts at the first block's index and counts, whatever the indices of
  the other blocks. `rmtree` is modelled on a directory handle, as CPython does
  it on Linux: it unlinks what it listed.
- **Connection.** One step per assignment that the other thread can see. A socket
  nobody refers to any more is closed, as CPython's reference counting does; a thread
  in `recv` keeps its socket, even when the other thread closes it. Steps between
  which no shared attribute changes are merged. Its specification is `ConnectionSpec`, and
  its state `connection`: one module of proofs is about both parts of the process.
- **Banking.** One action per public function, absent when it reverts. A transaction
  is atomic and ether goes to `tx.origin`, which runs no code. Overflow of 256 bits
  only reverts here and would need more ether than exists, so numbers are unbounded.
- **DoubleAuction.** One action per function; `Sorted` does the exchanges of the two
  nested loops in their order; `PriceFits` is the checked addition of DA:94. `elapsed`
  is the time since the last auction as far as the guard distinguishes it.

- **IBFT.** One action per outcome of a handler; the map names the lines. A message
  that is sent goes into a set for good; taking one from it, late, again or never, is
  delay, repetition and loss, so the backlog and gossip need no state of their own. A
  core counts what it has taken in of its view; since that may be any part of what was
  sent, `Prepared`, `Commit`, `CatchUp` and `QuorumForRound` ask for enough messages
  that exist. `RoundChange` is `sendRoundChange` with `catchUpRound`; `NewSequence` and
  `NewRound` are the two outcomes of `startNewRound`. `waiting` is
  `waitingForRoundChange`. `commits` records whether the seal is over the block the
  COMMIT is about, and `committed` whether all the seals written into the header are:
  other nodes import only such a header, the builder of the block its own in any case
  (the commit channel of `Seal`). A timer may fire at any time. `Restart` is `New`
  with the chain kept.
- **Snapshot.** One step applies one header: `Standing` (a new epoch), `Discarded`
  (what the author said before), `Counted` (the vote of the header), and one of three
  outcomes. The account voted about is any, members and strangers, with either
  direction, since a proposer may put anything into its header; a vote that would
  change nothing is not counted.

In IBFT these are left out: a proposal that fails `Verify` (blocks are valid; the
parent must be known), so `hasBadProposal`; the timer for a block of the future, which
delays a message like any other; signatures and seals, taken as sound; the switch to
QBFT, which the genesis does not set. `lead` is the round for which a core last computed
the proposer: `startNewRound` does so (core.go:254) and `catchUpRound` does not, so a
proposer that waits for a round change still sends its request as a PRE-PREPARE, for the
round it waits for, and the validators it leads there may accept it. All validators of
one chain have the same set, which does not change.

Simplifications with an effect worth knowing: output indices count from 1; `Foreign`
(chains of other programs) holds one chain per check of `verify_chain`, good ones, one
that is stale unless an earlier one was taken, and one whose block 0 names the tip of the
node's chain and so replaces all of it (section 6). Of a foreign chain only this is
assumed: it holds a block and its first index is natural (a negative one would be one of
Python's indices from the end). In `PendingChains` a block is its path from genesis, so
that a block 0 is the genesis block there. The mempool directory does not change while the nodes
run (nothing in the code writes it).

## 3. Runs

| run | configuration | shows |
|---|---|---|
| `ledger` | `Ledger.cfg` | the database is exact, nothing is spent twice or before it exists, supply is backed, corrupt ones stay out, over a graph with every kind of bad transaction |
| `network` | `Network.cfg` | two nodes mine, send, request, adopt and restart in any order, with an unsigned and a rival transaction in the mempool and a rival fork relayed to them: each accepts what it lacks of the other's longer chain, and a late reply that still makes its own longer |
| `foreign` | `Foreign.cfg` | one node and a peer running something else, one chain per check of `verify_chain`: chain, candidate, database and lists stay right; by mining on, the node settles its mempool, whatever chains it took before and whatever refused transactions come first (liveness) |
| `pending` | `Pending.cfg` | every interleaving of listener, validator, saves, stops and starts: links hold, quiet directories are read whole, the blocks of a chain that is taken over stay in its directory until it is saved, a stop never mixes chains, an undisturbed save loads as saved; saves and validations end |
| `pending_lost` | `PendingLost.cfg` | **violation:** a chain is removed that was never verified |
| `connection` | `Connection.cfg` | overlapping resets and broken connections: both connections come back (liveness) |
| `banking` | `Banking.cfg` | solvency, loan book, closed accounts, nobody skipped, over all sequences of calls |
| `interest_once` | `InterestOnce.cfg` | **violation:** an account opened again is paid twice |
| `auction` | `Auction.cfg` | the contract implements the call market, nobody loses, one bid each, a due book can be cleared |
| `ibft` | `IBFT.cfg` | three validators, two rounds: one vote per view, COMMITs rest on quorums, one block per height |
| `ibft_restart` | `IBFTRestart.cfg` | two validators, three rounds, one forgets its lock, answers about old blocks: one block per height |
| `snapshot` | `Snapshot.cfg` | the tally is exact; only majorities of the current validators change their set |

Bounds, and why they are enough:

- `Ledger`: ten transactions: two coinbases and one above the cap, a payment, a
  rival, a child, one naming a coin twice, one that overspends, one unsigned in its
  second input, one with a foreign key. `KnownSets` varies exactly the parents, which
  is all the lists are used for. Values are as small as the comparisons need.
- `FullNode`: `BlockMax` is 5 in the code and 2 here, so that blocks fill up.
  `MaxBlocks` stops mining beyond 2 blocks in `network` (two fork branches of two blocks)
  and 3 in `foreign` (a block more than the longest chain relayed). The mempool of
  `network` holds an unsigned spend, which each node marks corrupt, a coin and two that
  spend it: the nodes and the relayed fork choose between these. The mempool of `foreign`
  is, by number, a coin, two that spend it, one whose parent only a peer may bring, and a
  second coin: when the first and one spender are confirmed, two refused ones, as many as
  a block holds, come before the second coin. `MaxExchanges` 1: a request or a relay
  starts for a node while no other has one outstanding; its answer may still come after
  the chain has changed. Nodes are symmetric (`SYMMETRY`), which is used in a safety run
  only.
- `PendingChains`: chains of up to three blocks, `MaxLen` 3: the chain taken over may
  be longer, shorter or as long as the old one and share a part of it or none. One
  sender, four received chains that share a block, fork, start later, or hold their blocks
  in the wrong order; the last of these writes a file numbered two past its block, which
  is why `MaxFile` is 4. The node's own blocks have a label of their own. Senders do not interact: every step is in one
  sender's directory.
- `Connection`: four sockets suffice, as at most three are referred to at a time (the
  two attributes and the one read) and one is new; `MaxTroubles` 3 lets trouble strike
  again during the recovery from trouble; `MaxWire` 1 message underway.
- `Banking`: two clients with two ether, an owner with three, rates 0 and 50 per cent,
  so that rounding happens; `MaxOpenings` 3 allows one account to be listed twice;
  `MaxDue` bounds accrued interest.
- `DoubleAuction`: four users, two quantities, three values, `MaxUint` 5 so that the
  two highest values overflow, `Interval` 1. `MaxBids` bounds the bids of the book and
  of the last trades together: up to four in a book.

- `IBFT`: three validators (a quorum is two) and `MaxRound` 1: a lock is taken in one
  round and met in the next, by a proposer with another block. Two validators and
  `MaxRound` 2: the second must agree to everything, which is what makes a forgetful one
  harmless. Two payloads, one block high (`MaxHeight` 1): heights are separated by
  `sequence`, and the theorems cover them. `MaxChanges` bounds the different ROUND
  CHANGE messages, `MaxAnswers` the answers about old blocks; of those, only ones that
  can matter to somebody are sent (`UsefulAnswers`). A validator may stop for good at
  the last round, hence no deadlock check.
- `Snapshot`: four accounts, three of them validators at first, so that sets of none to
  four occur, and majorities of one, two and three; `Epoch` 8 leaves time for a
  newcomer to vote and be removed. With an empty set nothing more happens, hence no
  deadlock check. `SYMMETRY` in a run with a refinement: `Election` treats the accounts
  alike, too, and no liveness is checked.

A definition marked *mutant* in a module is a plausible mistake in the definition
after it. Each property checked by a passing run is violated when one of them takes
that definition's place; no specification uses them.

## 4. Fairness

- `MiningSpec`: a node does not stay for ever at the prompt with something to mine: the
  operator keeps typing `mine`, among other commands. Strong fairness of `FoundBlock`:
  main.py:95-103 calls `mine` until it returns 0, and a nonce that hits exists with
  probability one in a search without end; strong, because a restart may interrupt
  searches, and then not all that are begun again fail. A `validate` ends, one directory
  after the other. `AllSettle` excepts only a node whose chain is replaced for ever;
  chains that are refused, or are taken finitely often, excuse nothing.
- `PendingChains!FairSpec`: weak fairness of each thread: both are scheduled by the
  interpreter; and of the steps of a save: straight-line code. Messages and stops are
  not fair: messages may go on for ever, and a stop may end anything.
- `ConnectionSpec`: weak fairness of each thread, and strong fairness of each kind
  of command: the user keeps sending states and requests. Without it nothing
  reconnects, as the node connects only when it sends. Troubles are finitely many (`MaxTroubles`).
- The contracts have none: a transaction comes when somebody sends it.
- `IBFT` has none, and no liveness is claimed: locks can block a height (section 6).
  `Snapshot` has none: blocks come when they come.

## 5. Proofs

The assumptions are the named `ASSUME`s of the constants, which TLC evaluates in the
runs: finite sets of transactions, clients or senders, natural amounts, non-empty outputs;
at least four sockets (one more than can be referred to at a time); chains
of foreign programs are sequences of blocks whose first index is natural
(`ForeignAssumption`), and nothing is assumed of their links, work or transactions.
Some theorems have a hypothesis more, explained below: `MempoolOnly` and that no foreign
chain starts with a block 0 (`ForksAreAcceptable`; the latter also `GenesisStays`), and
`QuorumsMeet` (`IBFTImplementsAgreement`).

| theorem | says |
|---|---|
| `LedgerProofs`: `TypeCorrect`, `UtxoIsExact`, `NeverDoubleSpent`, `SpentCoinsExist` | for any graph of transactions and any order, the database is exactly created minus spent, and nothing is spent twice or before it exists |
| `LedgerProofs`: `SupplyIsBacked` | the database never holds more value than the accepted coinbases may mint |
| `LedgerProofs`: `CorruptStaysOut` | a transaction marked corrupt is never accepted, whatever the lists and the database become |
| `FullNodeProofs`: `TypeCorrect`, `ChainsStaySound`, `CandidatesStaySound` | for any nodes, mempool, block size and foreign chains: every chain a node has, and every candidate a search may be resumed on, is linked from a block 0 on and, after it, holds nothing twice and spends only what it created, once |
| `FullNodeProofs`: `GenesisStays` | if no foreign chain starts with a block 0, that block is the genesis block for ever |
| `FullNodeProofs`: `RebuildsAreExact` | every rebuild yields exactly what the chain leaves unspent, although `update_UTXO` ignores its verdicts; a stop empties the database and no other step changes it |
| `FullNodeProofs`: `NothingIsForgotten` | at the prompt every mempool transaction that could extend the chain is in the unconfirmed list, whatever forks were dropped |
| `FullNodeProofs`: `ForksAreAcceptable` | a node at its prompt accepts what it lacks of any other's longer chain, and a late reply that still makes its own longer, when foreign chains hold only mempool transactions and none starts with a block 0 |
| `BankingProofs`: `TypeCorrect`, `ClosedHoldsNothingAlways` | no balance, debt or fund ever goes below zero; closed accounts hold and owe nothing |
| `BankingProofs`: `SolvencyAlways` | the ether held is the sum of the balances and the two funds |
| `BankingProofs`: `LoanBookKeptAlways` | funds to lend plus principal lent change only by the owner's ether |
| `BankingProofs`: `NobodyIsSkipped` | when interest is paid on deposits every open account gets at least its own, whatever the list holds |
| `BankingProofs`: `InterestOnceIfListedOnce` | an account that is listed once gets exactly its interest, whatever else the list holds: what the run `interest_once` refutes fails for no other reason than a second entry |
| `DoubleAuctionProofs`: `TypeCorrect`, `OneBidEachAlways` | flags, list and books agree on who has bid, once each; prices are uints |
| `DoubleAuctionProofs`: `NobodyLosesEver` | for books of any length, no trade is at a worse price or of more than was bid |
| `DoubleAuctionProofs`: `AuctionIsCallMarket` | the exchange sort, the count and the pairing are one call of the abstract market |
| `DoubleAuctionProofs`: `AuctionNeverReverts` | once due, both checks of `doubleAuction` pass unless a buyer's value overflows when doubled: the contract's `Clearable`, in any book |
| `IBFTProofs`: `TypeCorrect`, `OneVotePerView`, `CommitsJustified`, `LocksKept` | for any validators, heights and rounds: one vote in a view, COMMITs rest on quorums, a lock keeps its block |
| `IBFTProofs`: `IBFTImplementsAgreement` | the consensus decides one block per height, each on top of the last, and chains hold decided blocks only, if quorums meet |
| `IBFTProofs`: `CeilNetworkAgrees` | with quorums of ceil(2N/3) and at most F validators that restart, it does |
| `IBFTProofs`: `CeilQuorumsMeet`, `TwoFPlusOneQuorumsMeet`, `TwoFPlusOneCanSplit`, `QuorumOfTheRest` | when two quorums share a validator that forgets nothing, when they need not, and that quorums can be made without F validators |
| `ProcessProofs`: `TypeCorrect`, `KeptChainIsLinked`, `QuietReadIsWhole`, `ReceivedStays` | for any labels, senders and messages, and any length of chains: whatever the listener writes meanwhile, the chain kept is linked; a directory left in peace is read as it was saved; the blocks of a chain taken over stay there until `valid_chain` holds the whole new chain |
| `ProcessProofs`: `StopLoadsOldOrNew`, `SaveLoadsTarget` | wherever a save stops, a leading part of the old or the new chain loads; a save that is not stopped loads as given |
| `ProcessProofs`: `QuietRemoval` | a directory that was saved whole is removed only after all of it was verified, if no message was handled since `validate` began: what the run `pending_lost` refutes, but for that condition |
| `ProcessProofs`: `SaveIsBounded`, `ValidationIsBounded`, `ValidateGoesOn` | each step of a save, and of `validate`, uses up one of finitely many, whatever the listener does meanwhile; and the save of a chain that is taken over does not end the command loop |
| `ProcessProofs`: `ConnectionTypeCorrect`, `PortsStayApart` | overlapping resets of both threads always find a socket to make, and never connect one attribute's socket to the other's port |
| `SnapshotProofs`: `TypeCorrect`, `TallyIsExact`, `SnapshotImplementsElection` | for any accounts and epoch the tally is the count of the votes, and the voting is an election by majorities |

*The ledger.* `UtxoExact` is not inductive: that a valid transaction removes coins
that were live says something about all accepted ones only together with the facts
that their spends are disjoint and that what they spent was created. `LedgerInv` is
the conjunction, with the types. For the corrupt list the argument is different:
`Faulty(t)` says, of the constants alone, that t has an unsigned input, a foreign
owner or too little value; a transaction is marked only if faulty, and accepted only
if not. Parents are constant, so what the verdict saw then it sees ever after.
`SupplyBacked` compares a sum over outpoints with the number of coinbases. A payment
takes coins out of the sum and puts its outputs in; that the outputs are worth no more
is `Overspends`, but along the sequence of inputs, where the sum over the database is one
over a set: `SumsRemove` and `SumsUnion` (a sum over disjoint parts) connect the two, as
no input names a coin twice in an accepted transaction.

*The node.* `ChainSound` is not inductive, and neither can it be used where it is
needed: the passes of the code speak of verdicts, one after the other. `Fit(t)` says, of
the constants alone, that nothing is wrong with t itself, and `Good(txs)` that each of a
sequence is fit, new, and spends what is live after those before it. Three lemmas relate
the passes to it, each by induction along the pass: a replay that refuses nothing was
over a `Good` sequence (`ReplayGood`, `verify_chain`) and a `Good` one is not refused when
all parents are known (`GoodReplays`); a rebuild over a `Good` sequence accepts every
transaction and ends with `Live`, the unspent outputs (`RebuildIsExact`, `update_UTXO`);
collecting for a block keeps the sequence `Good` and marks only what is not fit
(`CollectIsGood`). `NodeInv` then says that every chain in memory, with its candidate, and
every chain in a request or a state message is linked and `Good`; that what waits in a
pending directory is only relayed, `Good` or not; that marked transactions are not fit;
and that at the prompt the unconfirmed list is what the reload makes it. A chain that is
adopted is a prefix of the node's own and a pending part, linked by the checks and good
because it was replayed (`AcceptedIsGood`). `NodeInv` has a parameter, the transactions
that chains may hold: all of them for the invariants, the mempool for
`ForksAreAcceptable`. There `MempoolOnly` is needed because `verify_chain` looks parents up
in the verifier's own lists: a child whose parent only a foreign chain brought is refused
by a node that never took that chain. A block 0 is excluded because a node that took one
has a chain nobody with the genesis block can follow, and transactions in it count as
confirmed (util.py:24) without having created anything. The run `network` has both
hypotheses; `GenesisStays` is the second one's own consequence.

*The bank.* `BankInv` is the types and `ClosedHoldsNothing`: an account that opens
must have nothing, or `Solvency` would lose it. The loop in `addDepositInterest` is a
recursive function over `addressList`; `PayoutType` shows it stays in the set `Paying`
(natural balances, funds an integer, addresses without an account untouched, and
balances and funds together unchanged) and solvency follows whatever the list holds,
repeated entries included. `NobodySkipped` needs that an open account is in that list
(`Listed`, which survives closing since entries are never removed) and that a balance
already paid earns no less (`PercentGrows`), so that an entry paid twice is paid its
interest at least. An account listed once is paid in the round of its entry and in no other
(`LoopPaysOnce`, along the list: before that round its balance is the old one, after it the
new one), hence `InterestOnceIfListedOnce`. Sums over all addresses change by the difference when one
entry does (`SumChange`). `RecursionProofs` establishes these as membership of sets,
by a least counterexample, because induction over a formula is out of the provers'
reach here.

*The auction.* `AuctionInv` adds to `OneBidEach` only the types of books and flags; from
it the rest follows. One bid each makes the bids of a book distinct, so that a sequence
of them is a ranking of a set. The inner loop, round by round, reorders the bids from the
i-th place on and leaves there one that none of the later ones precedes
(`PassSelects`); the outer loop leaves all in order (`SortedSorts`). For this the two
orders need only be strict (`OrdersAreStrict`). In sorted books the leading pairs that
cross are all that cross (`CrossingIs`), which is why counting from the front, as the code
does, finds the number the market defines as a cardinality (`AuctionMatches`). The price
lies between the last pair's values and these inside every earlier pair's, which gives
`NobodyLoses` and, as the sum of a pair is at most twice the buyer's value, `Clearable`.

*The consensus.* `Implements` says that two committed blocks of a height are equal, and
nothing in it is inductive. `IInv` adds that what a validator that forgets nothing has
sent a COMMIT for it stays locked on until its chain gets there (`VoteLocked`), so that
it sends COMMITs for one block of a height (`OneVote`); that its votes of the current
view are for its proposal (`VotesOfView`), which makes the second PRE-PREPARE harmless;
that a lock was taken on a quorum's votes (`LockSupported`); that a committed block has
the COMMITs of a quorum and a committed parent (`DecidedCertified`); and that chains
and answers about old blocks repeat committed blocks (`ChainsDecided`). Two quorums
share a validator that forgets nothing (`QuorumsMeet`), hence one block. That
hypothesis is about the validators only; the runs evaluate it (`QuorumsOverlap`), and it is
derived from the formulas of the code: for ceil(2N/3), which the PA3 genesis chooses, whenever at most
F validators are started again; for 2F+1, Quorum's default, when N = 3F+1. With 2F+1 and
N = 3 or 6 it fails: `TwoFPlusOneCanSplit` shows two disjoint quorums.

*The voting.* `Exact` says of a pair of votes and tally what `TallyExact` says, with the
facts that make it inductive: the votes are finitely many and all about one account
have one direction. Each part of a header's handling takes an exact pair to an exact
pair (`DiscardedExact`, `CountedExact`); removing a validator uncasts all its votes in
one step, one for each account, as no validator has two about one (`OneVoteEach`). The
refinement follows from `SupportersCounted`: the tally counts the election's supporters.

*The two directories.* `StoreInv` says for each phase of a save what the files hold:
while old ones are removed, some of the old chain (`Deleting`); while new ones are
written, those before `next`, with the open one torn (`Writing`); at rest, the chain in
memory and nothing else (`Holds`); after a stop, torn files and files of one of the two
chains (`PartOf`). A load counts the files and opens that many from 0 on: if all are
there, they are all there are (`LoadableFiles`), so what loads is a leading part of that
chain (`LoadsPart`). Since nothing is assumed of the pending files but that each is torn
or holds some block, under any number, `KeptChainIsLinked` covers every mixture the listener can
leave; that the blocks passed by `Linked` fit the index they are cut at is an induction
along them (`LinkedLengths`). `ReceivedIsKept` needs that, while no message is handled, what
was read is still there (`StillThere`), and `QuietReadsWhole` that it was read in order
(`ReadInOrder`): the k-th block read is the one with k - 1 files before it. What is being
removed is then still what was saved (`ClearedWhole`, `QuietRemoval`). That a save and a
validation come to an end rests on two measures. `SaveLeft` counts the files still to be
removed and the two steps of each block still to be written; `ValidationLeft` the
directories still to come, each at the most it can take, and what is left of the one in
hand: what is not yet read, verified, listed for removal and removed. The listener adds
files, never to what `validate` has listed, so neither measure grows. From them to
`SaveEnds` and `ValidateEnds` only the scheduling is missing, and that what waits for a
save sees it end: `GoesOn`.

*The connections.* `ConnectionInv` adds two facts to the types. A socket that neither
attribute nor thread refers to is as new (`SocketsInv`): with it a reset always has one to
create (`FreshSocket`, of four sockets at most three are taken), and the one it creates is
not connected, open or half read. A thread between the parts of `reset_sockets` has
resets to do, and the listener is in `recv` exactly when it holds a socket (`ThreadsInv`).
Then `PortsApart`: resets of both threads may overlap in any order, and `connect` may
find sockets that changed since it began, but a socket gets into one attribute only, as
each is new when it is assigned. It is a theorem only, no run checks it: `ConnectionTypeOK`
and `Recovers` are what the run is for.

What stays with TLC is liveness: `AllSettle`, `SaveEnds`, `ValidateEnds` and `Recovers`
rest on fairness, which is beyond the prover. The two properties of the violation runs
are false; `QuietRemoval` and `InterestOnceIfListedOnce` prove what is left of them.

## 6. Where code and documents differ

With a run:

- **A chain is removed unverified** (FN:405). The directory is removed by name after
  what was read has been verified; the listener may have replaced it. "It then calls
  verify_chain method on each chain" (FN:365). Run `pending_lost`.
- **Interest twice after opening again** (BK:99, 221). The address stays listed on
  closing and is listed again on opening; each entry is paid. The test expects 20
  ether at 10% to become 22 (`PA2/test/interest_test.js:21`). Run `interest_once`.

Seen while modelling, no run, either because no document says otherwise or because
the model leaves the detail out:

- A shorter chain is accepted (FN:436): the docstring lists "whether length of
  temp_chain is greater than current valid chain" (FN:422), and no length is compared.
  After `ra` a node may end with a peer's shorter chain; the steps are in the runs
  `network` and `foreign`.
- A chain whose save was cut by a stop may be refused when the node validates it again:
  it starts after blocks that the cut chain no longer has, so its directory is removed
  (FN:389-393), and its older blocks were only in memory while `valid_chain` was rewritten.
  `ReceivedIsKept` is about the received blocks, up to the stop.
- A COMMIT that answers an old PRE-PREPARE carries a seal over the current proposal:
  `finalizeMessage` (IB/ibft/core/core.go:100-109) seals that whatever block
  `sendCommitForOldBlock` is about. A validator still deciding the old block may count
  it and write a header that other nodes refuse; the block reaches them from another
  committer. Agreement is not touched.
- Two validators locked on different blocks refuse each other's proposals
  (IB/ibft/core/preprepare.go:111). With five validators and one more stopped no
  proposal gets four PREPAREs and the height never ends, although F is 1.
- The last validator can vote itself out: half of one is 0 (engine.go:577), and the
  chain ends with an empty set.
- Without `ceil2Nby3Block` in the genesis quorums are 2F+1 and need not meet for
  N = 3 or 6; the network of PA3 sets it to 0.
- A coinbase verified again after its output was spent is credited again: the marker
  "required by the handout" (FN:111) is overwritten by the next line. The node's own
  callers never do that.
- `mine` returns 0 with nothing to mine (FN:228) although 0 means "successfully mined"
  (FN:215), and main.py:101 then says so.
- In one `validate` the unconfirmed lists are those of the prompt while the chain is
  replaced (FN:401): transactions of a dropped fork are known nowhere, and a later
  good chain in the same pass can be refused.
- A stop during a save may leave `block1` without `block0`, after which every start
  raises; or no block at all, after which `mine` raises.
- `addDepositInterest` checks a total computed on the balances before any is raised
  (BK:214) and pays amounts computed after (BK:221); checked arithmetic catches the rest.
- The auction book has no limit; `scriptSetupV2/contracts/DoubleAuction.sol:15` has one.
- `send_states` always sends, its docstring says only on a change (NW:131, 136).
- If only `state_sender` breaks, the listener stays in `recv` on the old, closed
  socket and replies on the new one are not read, for as long as the old connection stands.
- `recv_buffer` survives `reset_sockets` (NW:82): a message cut off by a break spoils
  the first message of the next connection.
- `start_connection` raises when the backend cannot be reached at the start
  (main.py:65); the listener thread keeps the process alive without a prompt.
- A pending chain that starts with index 0 is compared with the tip: `valid_chain[-1]` is
  Python's last element and `valid_chain[:0]` is empty (FN:388-397). If its block 0 names
  the tip as its previous block it replaces the whole chain, the genesis block included,
  although the previous hash is then meant to be that of the genesis block
  (FN:413-414) and the chain to be longer. The step is in the run
  `foreign`; what a chain keeps through it is `ChainSound`, and without such chains
  genesis stays (`GenesisStays`).

## 7. Not modelled

- *Message framing* (`mux_msg`, `recv_buffer`, JSON): the next addition of the plan.
- *The rest of Quorum*, about 400,000 lines of third-party code that the assignment
  runs unchanged: virtual machine, transaction pool, synchronisation, databases,
  accounts, interfaces, generated code, and the consensus engines the genesis does not
  enable. The models follow what the repository's own programs rest on, the consensus
  of their network; by lines of the whole tree they cover little, and could not cover
  much of it.
- *Around the voting*: the snapshot cache and checkpoints, `transitions` and the
  contract mode (engine.go:339-483). A transition replaces the validators only when the
  snapshot starts from the cached one of that height, and keeps votes and tally; the
  PA3 genesis has none.
- *`broadcast`*: never called. *`disconnect`*: ends the process.
- *Hashing and signatures*: taken as injective and sound.
- *Shell and web3 scripts*: run once by hand; they keep no state.
- *Course variants, skeletons, graders*: other versions, or callers of the programs.
- *Gas*: the quadratic sort in one transaction is a hazard without a property.

## 8. Plan

Done: the ledger, the network of nodes, both directories in one process, connections,
both contracts, the consensus, the voting, and the proofs of section 5. In this order
next:

1. `Framing`: `mux_msg` and the receive loop as functions, checked against a
   reference definition (the messages sent are the messages handled) over all ways to
   cut a stream, resets included; then composed with `Connection`.
2. The directories of `FullNode` as an abstraction of the files of `PendingChains`, at
   least while nobody writes them.
3. `Snapshot` composed with `IBFT`, so that the validators of a height are those of the
   snapshot before it; then the snapshot cache and transitions.
