----------------------------- MODULE ChainStore -----------------------------
(***************************************************************************)
(* The valid_chain directory of a PA1 node: one file per block, rewritten  *)
(* file by file when a chain is adopted (util.save_chain), extended by one *)
(* file when a block is mined, and read back by load_valid_chain.  The     *)
(* process may stop between any two of these steps.  PendingChains says    *)
(* when the command loop takes them.                                       *)
(* A block is the path of labels from genesis to it, so the previous block *)
(* a block names by hash is the path without its last label.               *)
(***************************************************************************)
EXTENDS Integers, Sequences, FiniteSets

CONSTANTS
  Label,     \* names of blocks
  Own,       \* those of the blocks this node mines
  Root,      \* the label of the genesis block
  MaxLen     \* bound: blocks in a chain

ASSUME StoreAssumption ==
  /\ Root \in Label
  /\ "torn" \notin Label
  /\ Own \subseteq Label
  /\ MaxLen \in Nat \ {0}

Genesis == <<Root>>
Path == UNION {[1 .. k -> Label] : k \in 1 .. MaxLen}

\* contents of a file that is not there, or opened and not yet dumped
Absent == <<>>
Torn == <<"torn", "torn">>

Slot == 0 .. MaxLen - 1

VARIABLES
  dir,      \* [Slot -> content], block{i}.block
  mem,      \* valid_chain in memory, a sequence of blocks
  job,      \* "idle", "delete", "write", "stopped" (the process has ended)
  next,     \* index of the file to write next
  open,     \* the file `next' is open
  target,   \* the chain the last save was given
  base      \* the chain on disk when it began
store == <<dir, mem, job, next, open, target, base>>

Files == {i \in Slot : dir[i] # Absent}
Count == Cardinality(Files)
\* load_valid_chain opens block0 .. block(n-1), n being the number of files
Loadable == \A i \in Slot : i < Count => dir[i] \notin {Absent, Torn}
Loaded == [i \in 1 .. Count |-> dir[i - 1]]

InitStore ==
  /\ dir = [i \in Slot |-> IF i = 0 THEN Genesis ELSE Absent]
  /\ mem = <<Genesis>>
  /\ job = "idle"
  /\ next = 0
  /\ open = FALSE
  /\ target = mem
  /\ base = mem

-----------------------------------------------------------------------------
\* mutant: the old files are overwritten in place
SaveChainInPlace(c) ==
  /\ job = "idle"
  /\ job' = "write"
  /\ target' = c
  /\ base' = mem
  /\ next' = 0
  /\ UNCHANGED <<dir, mem, open>>

\* validate_pending_chains adopts a chain: save_chain starts with deleting
SaveChain(c) ==
  /\ job = "idle"
  /\ job' = "delete"
  /\ target' = c
  /\ base' = mem
  /\ next' = 0
  /\ UNCHANGED <<dir, mem, open>>

\* the files go in the order glob.glob returns, which is any
DeleteFile(i) ==
  /\ job = "delete"
  /\ dir[i] # Absent
  /\ dir' = [dir EXCEPT ![i] = Absent]
  /\ UNCHANGED <<mem, job, next, open, target, base>>

DeletedAll ==
  /\ job = "delete"
  /\ Files = {}
  /\ job' = "write"
  /\ UNCHANGED <<dir, mem, next, open, target, base>>

\* mutant: mine names the file by the new length, one too far
SaveMinedBlockNext(l) ==
  /\ job = "idle"
  /\ Len(mem) \in 1 .. MaxLen - 2
  /\ base' = mem
  /\ target' = Append(mem, Append(mem[Len(mem)], l))
  /\ mem' = target'
  /\ job' = "write"
  /\ next' = Len(mem')
  /\ UNCHANGED <<dir, open>>

\* mine found a nonce: append in memory, then save one file.  Without any
\* block last_block raises: the process ends, as in Stop.
SaveMinedBlock(l) ==
  /\ job = "idle"
  /\ Len(mem) \in 1 .. MaxLen - 1
  /\ base' = mem
  /\ target' = Append(mem, Append(mem[Len(mem)], l))
  /\ mem' = target'
  /\ job' = "write"
  /\ next' = Len(mem)
  /\ UNCHANGED <<dir, open>>

\* save_object: open for writing truncates, then the block is dumped
OpenFile ==
  /\ job = "write" /\ ~ open
  /\ next < Len(target)
  /\ dir' = [dir EXCEPT ![next] = Torn]
  /\ open' = TRUE
  /\ UNCHANGED <<mem, job, next, target, base>>

\* mutant: the counter moves when the file is opened and again when it is closed
DumpBlockTwice ==
  /\ job = "write" /\ open
  /\ dir' = [dir EXCEPT ![next] = target[next + 1]]
  /\ open' = FALSE
  /\ next' = next + 2
  /\ UNCHANGED <<mem, job, target, base>>

\* mutant: the counter does not move
DumpBlockStays ==
  /\ job = "write" /\ open
  /\ dir' = [dir EXCEPT ![next] = target[next + 1]]
  /\ open' = FALSE
  /\ UNCHANGED <<next, mem, job, target, base>>

DumpBlock ==
  /\ job = "write" /\ open
  /\ dir' = [dir EXCEPT ![next] = target[next + 1]]
  /\ open' = FALSE
  /\ next' = next + 1
  /\ UNCHANGED <<mem, job, target, base>>

\* both callers load the directory again; a failing load ends the command loop
FinishSave ==
  /\ job = "write" /\ ~ open
  /\ next >= Len(target)
  /\ IF Loadable
     THEN job' = "idle" /\ mem' = Loaded /\ target' = mem' /\ base' = mem'
     ELSE job' = "stopped" /\ UNCHANGED <<mem, target, base>>
  /\ UNCHANGED <<dir, next, open>>

\* the process ends at any point
StopStore ==
  /\ job' = "stopped"
  /\ open' = FALSE
  /\ UNCHANGED <<dir, mem, next, target, base>>

\* main.py:69-70 loads the chain; if that raises, so does every later start
StartStore ==
  /\ job = "stopped"
  /\ IF Loadable
     THEN job' = "idle" /\ mem' = Loaded /\ target' = mem' /\ base' = mem'
     ELSE UNCHANGED <<job, mem, target, base>>
  /\ UNCHANGED <<dir, next, open>>

SaveStep == (\E i \in Slot : DeleteFile(i)) \/ DeletedAll \/ OpenFile \/ DumpBlock \/ FinishSave

-----------------------------------------------------------------------------
Content == {Absent, Torn} \cup Path

StoreTypeOK ==
  /\ dir \in [Slot -> Content]
  /\ job \in {"idle", "delete", "write", "stopped"}
  /\ next \in 0 .. MaxLen
  /\ open \in BOOLEAN

PrefixOf(s, t) == Len(s) <= Len(t) /\ \A i \in 1 .. Len(s) : s[i] = t[i]

\* Whatever moment the process ends at, a chain that loads afterwards is a
\* leading part of the old chain or of the new one: blocks of the two are never
\* mixed, and a torn file is never taken for a block.
LoadsOldOrNew ==
  [][job = "stopped" /\ job' = "idle" => PrefixOf(mem', base) \/ PrefixOf(mem', target)]_store

\* Without an interruption the next load gives exactly the chain saved, also
\* when the old one was longer.
SavedIsLoaded ==
  [][job = "write" /\ job' = "idle" => mem' = target]_store

\* A save comes to its end unless the process does.
SaveEnds == job \in {"delete", "write"} ~> job \in {"idle", "stopped"}
=============================================================================
