--------------------------- MODULE PendingChains ---------------------------
(***************************************************************************)
(* The pending_chains folder of a PA1 node, shared without a lock by the   *)
(* listener thread, which replaces a sender's directory file by file       *)
(* (network.py:161-175), and by the command loop, which lists, reads,      *)
(* verifies and removes directories (FullNode.py:361-408).  A chain that   *)
(* is taken over goes to the valid_chain directory of ChainStore, as does  *)
(* a block that is mined.  The process may end, and be started again, at   *)
(* any moment.  Block <<g, a, b>> has index 2 and names <<g, a>> as its    *)
(* previous block.                                                         *)
(***************************************************************************)
EXTENDS ChainStore, FiniteSetsExt, SequencesExt

CONSTANTS
  Sender,       \* senders of pending chains
  Received,     \* the chains (sequences of blocks) the backend relays
  MaxFile       \* bound: files are numbered below it

IndexOf(block) == Len(block) - 1

\* Files are named by a counter that starts at the first block's index: the names
\* agree with the indices of the other blocks only if the message has no gap.
FirstNumber(c) == IndexOf(c[1])

ASSUME PendingAssumption ==
  /\ IsFiniteSet(Sender)
  /\ MaxFile \in Nat
  /\ \A c \in Received : /\ c \in Seq(Path) /\ c # <<>>
                         /\ FirstNumber(c) + Len(c) <= MaxFile

Number == 0 .. MaxFile - 1

VARIABLES
  made,       \* [Sender -> BOOLEAN], the sender's directory exists
  file,       \* [Sender -> [Number -> content]], block{i}.block
  lpc,        \* listener: "recv", "clear", "make" or "write"; "off": no process
  lfrom,      \* the sender of the message it handles
  lchain,     \* the blocks it has still to write
  lcount,     \* block_count, the number of the next file
  lopen,      \* it has opened the file of the first of them
  vpc,        \* commands: "prompt", "next", "list", "read", "verified", "clear"
  vtodo,      \* directories listed and not handled yet
  vdir,       \* the one being handled
  vlist,      \* its files to read, or to remove
  vtemp,      \* temp_chain
  whole,      \* history: [Sender -> the chain the directory holds in full]
  quiet,      \* history: no message was handled since validate began
  took        \* history: vtemp was taken over
lvars == <<lpc, lfrom, lchain, lcount, lopen>>
vvars == <<vpc, vtodo, vdir, vlist, vtemp, took>>
vars == <<made, file, lvars, vvars, whole, quiet, store>>

FilesOf(s) == {i \in Number : file[s][i] # Absent}
NoFiles == [i \in Number |-> Absent]

Init ==
  /\ InitStore
  /\ made = [s \in Sender |-> FALSE]
  /\ file = [s \in Sender |-> NoFiles]
  /\ lpc = "recv" /\ lfrom \in Sender /\ lchain = <<>>
  /\ lcount = 0 /\ lopen = FALSE
  /\ vpc = "prompt" /\ vtodo = {} /\ vdir \in Sender /\ vlist = {} /\ vtemp = <<>>
  /\ took = FALSE
  /\ whole = [s \in Sender |-> <<>>]
  /\ quiet = TRUE

-----------------------------------------------------------------------------
(* The listener: save_pending_chain.  An exception ends the handling of the  *)
(* message; listen prints it and receives the next one.                      *)

Receive(s, c) ==
  /\ lpc = "recv"
  /\ lpc' = "clear" /\ lfrom' = s /\ lchain' = c /\ lcount' = FirstNumber(c)
  /\ quiet' = FALSE
  /\ UNCHANGED <<made, file, lopen, vvars, whole, store>>

\* rmtree with its errors ignored, one file at a time, then the directory.
\* rmtree works on the directory it opened: if the command loop is removing the
\* same one, it finds nothing more to unlink, whatever is made under that name.
ListenerClear ==
  /\ lpc = "clear"
  /\ \/ \E i \in FilesOf(lfrom) :
          /\ file' = [file EXCEPT ![lfrom][i] = Absent]
          /\ UNCHANGED <<made, lpc, vlist>>
     \/ /\ FilesOf(lfrom) = {}
        /\ made' = [made EXCEPT ![lfrom] = FALSE]
        /\ lpc' = "make"
        /\ vlist' = IF vpc = "clear" /\ vdir = lfrom THEN {} ELSE vlist
        /\ UNCHANGED file
  /\ whole' = [whole EXCEPT ![lfrom] = <<>>]
  /\ UNCHANGED <<lfrom, lchain, lcount, lopen, vpc, vtodo, vdir, vtemp, took, quiet, store>>

ListenerMake ==
  /\ lpc = "make"
  /\ made' = [made EXCEPT ![lfrom] = TRUE]
  /\ lpc' = "write"
  /\ UNCHANGED <<file, lfrom, lchain, lcount, lopen, vvars, whole, quiet, store>>

\* save_object opens the next file: it raises if the directory is gone
ListenerOpen ==
  /\ lpc = "write" /\ ~ lopen /\ lchain # <<>>
  /\ IF made[lfrom]
     THEN /\ file' = [file EXCEPT ![lfrom][lcount] = Torn]
          /\ lopen' = TRUE
          /\ UNCHANGED <<lpc, lchain>>
     ELSE /\ lpc' = "recv" /\ lchain' = <<>>
          /\ UNCHANGED <<file, lopen>>
  /\ UNCHANGED <<made, lfrom, lcount, vvars, whole, quiet, store>>

\* mutant: the counter moves when the file is opened and again when it is closed
ListenerDumpTwice ==
  /\ lpc = "write" /\ lopen
  /\ file' = IF file[lfrom][lcount] = Absent THEN file
             ELSE [file EXCEPT ![lfrom][lcount] = lchain[1]]
  /\ lopen' = FALSE
  /\ lchain' = Tail(lchain) /\ lcount' = lcount + 2
  /\ UNCHANGED <<made, lpc, lfrom, vvars, whole, quiet, store>>

\* the block is dumped; a file unlinked meanwhile takes it with it
ListenerDump ==
  /\ lpc = "write" /\ lopen
  /\ file' = IF file[lfrom][lcount] = Absent THEN file
             ELSE [file EXCEPT ![lfrom][lcount] = lchain[1]]
  /\ lopen' = FALSE
  /\ lchain' = Tail(lchain) /\ lcount' = lcount + 1
  /\ UNCHANGED <<made, lpc, lfrom, vvars, whole, quiet, store>>

ListenerDone ==
  /\ lpc = "write" /\ lchain = <<>>
  /\ lpc' = "recv"
  /\ whole' = [whole EXCEPT ![lfrom] =
                 [k \in 1 .. Cardinality(FilesOf(lfrom)) |->
                    file[lfrom][CHOOSE i \in FilesOf(lfrom) :
                       Cardinality({j \in FilesOf(lfrom) : j < i}) = k - 1]]]
  /\ UNCHANGED <<made, file, lfrom, lchain, lcount, lopen, vvars, quiet, store>>

-----------------------------------------------------------------------------
(* The commands "validate" and "mine": one thread, so that nothing else is   *)
(* done while a chain is saved                                               *)

StartValidate ==
  /\ vpc = "prompt" /\ job = "idle"
  /\ \E s \in Sender : made[s]
  /\ vtodo' = {s \in Sender : made[s]}
  /\ vpc' = "next"
  /\ quiet' = (lpc = "recv")
  /\ UNCHANGED <<made, file, lvars, vdir, vlist, vtemp, took, whole, store>>

NextDirectory(s) ==
  /\ vpc = "next" /\ s \in vtodo
  /\ vtodo' = vtodo \ {s}
  /\ vdir' = s
  /\ vpc' = "list"
  /\ UNCHANGED <<made, file, lvars, vlist, vtemp, took, whole, quiet, store>>

EndValidate ==
  /\ vpc = "next" /\ vtodo = {}
  /\ vpc' = "prompt"
  /\ UNCHANGED <<made, file, lvars, vtodo, vdir, vlist, vtemp, took, whole, quiet, store>>

\* the command loop is not in a command, or ended in one
LeaveCommand ==
  vpc' = "prompt" /\ vtodo' = {} /\ vlist' = {} /\ vtemp' = <<>> /\ took' = FALSE

\* an exception ends the command loop; the listener thread goes on
Raise ==
  /\ LeaveCommand
  /\ job' = "stopped"
  /\ UNCHANGED <<dir, mem, next, open, target, base>>

\* os.listdir: raises if the directory is gone
ListFiles ==
  /\ vpc = "list"
  /\ IF made[vdir] THEN /\ vpc' = "read" /\ vlist' = FilesOf(vdir)
                        /\ UNCHANGED <<vtodo, vtemp, took, store>>
                   ELSE Raise
  /\ UNCHANGED <<made, file, lvars, vdir, whole, quiet>>

\* mutant: the files are read in the order of the listing
ReadFileUnsorted ==
  /\ vpc = "read"
  /\ \E i \in vlist :
       /\ vlist' = vlist \ {i}
       /\ vtemp' = IF file[vdir][i] \in {Absent, Torn} THEN vtemp
                   ELSE Append(vtemp, file[vdir][i])
  /\ UNCHANGED <<made, file, lvars, vpc, vtodo, vdir, took, whole, quiet, store>>

\* mutant: a file that cannot be read is tried again
ReadFileRetry ==
  /\ vpc = "read" /\ vlist # {}
  /\ LET i == Min(vlist) IN
       IF file[vdir][i] \in {Absent, Torn} THEN UNCHANGED <<vlist, vtemp>>
       ELSE vlist' = vlist \ {i} /\ vtemp' = Append(vtemp, file[vdir][i])
  /\ UNCHANGED <<made, file, lvars, vpc, vtodo, vdir, took, whole, quiet, store>>

\* by number; a file that is gone or torn is passed over ("except: pass")
ReadFile ==
  /\ vpc = "read" /\ vlist # {}
  /\ LET i == Min(vlist) IN
       /\ vlist' = vlist \ {i}
       /\ vtemp' = IF file[vdir][i] \in {Absent, Torn} THEN vtemp
                   ELSE Append(vtemp, file[vdir][i])
  /\ UNCHANGED <<made, file, lvars, vpc, vtodo, vdir, took, whole, quiet, store>>

\* mutant: only the first new block is linked to the chain
LinkedFirstOnly(chain, temp) ==
  /\ IndexOf(temp[1]) \in 1 .. Len(chain)
  /\ Front(temp[1]) = chain[IndexOf(temp[1])]

\* the links verify_chain follows, as far as blocks stand for their hashes
Linked(chain, temp) ==
  /\ IndexOf(temp[1]) \in 1 .. Len(chain)
  /\ \A i \in 1 .. Len(temp) :
       Front(temp[i]) = IF i = 1 THEN chain[IndexOf(temp[1])] ELSE temp[i - 1]

\* temp_chain[0] raises on an empty list, valid_chain[-1] on an empty chain
Unindexable == vtemp = <<>> \/ (mem = <<>> /\ IndexOf(vtemp[1]) = 0)
TakesOver == ~ Unindexable /\ Linked(mem, vtemp)

\* the chain is verified and, if it is linked, taken over: its save begins
VerifyChain ==
  /\ vpc = "read" /\ vlist = {}
  /\ CASE Unindexable -> Raise
       [] TakesOver ->
            /\ SaveChain(SubSeq(mem, 1, IndexOf(vtemp[1])) \o vtemp)
            /\ vpc' = "verified" /\ took' = TRUE
            /\ UNCHANGED <<vtodo, vlist, vtemp>>
       [] OTHER ->
            /\ vpc' = "verified"
            /\ UNCHANGED <<vtodo, vlist, vtemp, took, store>>
  /\ UNCHANGED <<made, file, lvars, vdir, whole, quiet>>

\* mutant: the directory is removed before the chain is saved
OpenDirectoryFirst ==
  /\ vpc = "verified"
  /\ vpc' = "clear"
  /\ vlist' = FilesOf(vdir)
  /\ UNCHANGED <<made, file, lvars, vtodo, vdir, vtemp, took, whole, quiet, store>>

\* whatever came out, the directory goes: rmtree opens and lists it
OpenDirectory ==
  /\ vpc = "verified" /\ job = "idle"
  /\ vpc' = "clear"
  /\ vlist' = FilesOf(vdir)
  /\ UNCHANGED <<made, file, lvars, vtodo, vdir, vtemp, took, whole, quiet, store>>

\* it unlinks what it listed, then removes the directory if that is empty
RemoveDirectory ==
  /\ vpc = "clear"
  /\ IF vlist # {}
     THEN \E i \in vlist :
            /\ file' = [file EXCEPT ![vdir][i] = Absent]
            /\ vlist' = vlist \ {i}
            /\ whole' = [whole EXCEPT ![vdir] = IF file[vdir][i] # Absent THEN <<>> ELSE @]
            /\ UNCHANGED <<made, vpc, vtemp, took>>
     ELSE /\ made' = [made EXCEPT ![vdir] = @ /\ FilesOf(vdir) # {}]
          /\ vpc' = "next" /\ vtemp' = <<>> /\ took' = FALSE
          /\ UNCHANGED <<file, vlist, whole>>
  /\ UNCHANGED <<lvars, vtodo, vdir, quiet, store>>

\* the search of "mine" succeeds
Mine(l) ==
  /\ vpc = "prompt"
  /\ SaveMinedBlock(l)
  /\ UNCHANGED <<made, file, lvars, vvars, whole, quiet>>

Save ==
  /\ SaveStep
  /\ UNCHANGED <<made, file, lvars, vvars, whole, quiet>>

\* the process ends at any point, or it is ended after the command loop raised
Stop ==
  /\ lpc # "off"
  /\ lpc' = "off" /\ lchain' = <<>> /\ lopen' = FALSE
  /\ LeaveCommand
  /\ StopStore
  /\ UNCHANGED <<made, file, lfrom, lcount, vdir, whole, quiet>>

\* main.py:65 starts the listener before the chain is loaded
Start ==
  /\ lpc = "off"
  /\ lpc' = "recv"
  /\ StartStore
  /\ UNCHANGED <<made, file, lfrom, lchain, lcount, lopen, vvars, whole, quiet>>

Listener == ListenerClear \/ ListenerMake \/ ListenerOpen \/ ListenerDump \/ ListenerDone
Validator ==
  \/ \E s \in Sender : NextDirectory(s)
  \/ EndValidate \/ ListFiles \/ ReadFile \/ VerifyChain
  \/ OpenDirectory \/ RemoveDirectory
Next ==
  \/ \E s \in Sender, c \in Received : Receive(s, c)
  \/ Listener \/ StartValidate \/ Validator
  \/ \E l \in Own : Mine(l)
  \/ Save \/ Stop \/ Start

Spec == Init /\ [][Next]_vars
\* the scheduler runs both threads; a save, once begun, runs on
FairSpec == Spec /\ WF_vars(Listener) /\ WF_vars(Validator) /\ WF_vars(Save)

-----------------------------------------------------------------------------
TypeOK ==
  /\ StoreTypeOK
  /\ made \in [Sender -> BOOLEAN]
  /\ file \in [Sender -> [Number -> Content]]
  /\ lpc \in {"recv", "clear", "make", "write", "off"}
  /\ lcount \in Nat /\ lcount + Len(lchain) <= MaxFile
  /\ vpc \in {"prompt", "next", "list", "read", "verified", "clear"}
  /\ vtodo \subseteq Sender /\ vlist \subseteq Number

\* Whatever mixture of two messages, torn files and gaps the command loop read
\* while the listener was writing, and whatever was left by a stop, the chain it
\* keeps is linked throughout.
ValidIsLinked ==
  \A i \in 1 .. Len(mem) :
     mem[i] = IF i = 1 THEN Genesis ELSE Append(mem[i - 1], Last(mem[i]))

\* With the listener at rest, what is verified is the directory as it was saved.
QuietReadsWhole ==
  vpc = "verified" /\ quiet /\ whole[vdir] # <<>> => vtemp = whole[vdir]

\* The blocks a taken-over chain brought stay in the directory they came from,
\* unless a message has replaced that, until valid_chain holds the whole new chain:
\* removed any earlier (FullNode.py:405), a stop would leave them nowhere.  The
\* older blocks they extend have no such copy: while valid_chain is rewritten they
\* are in memory alone, and a stop loses them.
ReceivedIsKept ==
  took /\ quiet =>
    \/ Loadable /\ Loaded = target
    \/ \A i \in 1 .. Len(vtemp) : \E k \in FilesOf(vdir) : file[vdir][k] = vtemp[i]

\* A validation passes every directory and returns, even if the listener never
\* rests, unless the command loop ends.
ValidateEnds == vpc = "next" ~> vpc = "prompt"

\* "It then calls verify_chain method on each chain" (FullNode.py:365): what
\* validate removes it has verified.  It fails when the listener writes between
\* the reading and the removal.
RemovedWasVerified ==
  [][\A s \in Sender :
       vpc = "clear" /\ vlist' # vlist /\ lpc' = lpc
         /\ whole[s] # <<>> /\ whole'[s] = <<>>
         => vtemp = whole[s]]_vars
=============================================================================
