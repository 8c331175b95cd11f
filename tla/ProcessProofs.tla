------------------------ MODULE ProcessProofs ------------------------
(***************************************************************************)
(* The two threads of a PA1 node's process, for any labels, senders,       *)
(* messages, length of chains and sockets.                                 *)
(*                                                                         *)
(* Their directories: whatever the listener writes under the command       *)
(* loop's hands, and wherever the process stops, the chain it keeps is     *)
(* linked from genesis on, a stop leaves a leading part of the chain       *)
(* before or after the save, the blocks received for a chain taken over    *)
(* stay on disk until it is saved, and saving and validating take a        *)
(* bounded number of steps.  The inductive invariant says of each phase of *)
(* a save what the files hold, and of each step of "validate" where the    *)
(* blocks read still are.                                                  *)
(*                                                                         *)
(* Their connections: whatever the two threads assign in turn, the sockets *)
(* of the two ports are never mixed up.  The invariant says whom the       *)
(* listener waits for and that a socket nobody refers to is new.           *)
(***************************************************************************)
EXTENDS PendingChains, Connection, RecursionProofs, SequenceTheorems

-----------------------------------------------------------------------------
(* The inductive invariant                                                   *)

\* Chains from genesis in which block i names block i - 1.
Chain ==
  {c \in Seq(Path) :
     \A i \in 1 .. Len(c) :
       /\ Len(c[i]) = i
       /\ c[i] = IF i = 1 THEN Genesis ELSE Append(c[i - 1], Last(c[i]))}

\* The directory holds c and nothing else.
Holds(c) == \A i \in Slot : dir[i] = IF i < Len(c) THEN c[i + 1] ELSE Absent

\* What it holds is torn or of c.
PartOf(c) ==
  \A i \in Slot : dir[i] \in {Absent, Torn} \/ (i < Len(c) /\ dir[i] = c[i + 1])

\* While the old files are removed, what is left is of the old chain.
Deleting ==
  /\ next = 0
  /\ \A i \in Slot : dir[i] = Absent \/ (i < Len(base) /\ dir[i] = base[i + 1])

\* While the new ones are written, there are those before `next', and the open one.
Writing ==
  /\ next <= Len(target)
  /\ open => next < Len(target)
  /\ \A i \in Slot :
       dir[i] = IF i < next THEN target[i + 1]
                ELSE IF i = next /\ open THEN Torn ELSE Absent

StoreInv ==
  /\ StoreTypeOK
  /\ mem \in Chain /\ base \in Chain /\ target \in Chain
  /\ job # "write" => ~ open
  /\ job = "idle" => Holds(mem) /\ target = mem /\ base = mem
  /\ job = "delete" => Deleting
  /\ job = "write" => Writing
  /\ job = "stopped" => PartOf(base) \/ PartOf(target)

FolderInv ==
  /\ made \in [Sender -> BOOLEAN]
  /\ file \in [Sender -> [Number -> Content]]
  /\ lpc \in {"recv", "clear", "make", "write", "off"}
  /\ lfrom \in Sender /\ lchain \in Seq(Path) /\ lopen \in BOOLEAN
  /\ lcount \in Nat /\ lcount + Len(lchain) <= MaxFile
  /\ lopen => lpc = "write" /\ lchain # <<>>
  /\ vpc \in {"prompt", "next", "list", "read", "verified", "clear"}
  /\ vdir \in Sender /\ vtodo \subseteq Sender /\ vlist \subseteq Number
  /\ vtemp \in Seq(Path)

\* The blocks read are still in the directory they were read from.
StillThere == \A i \in 1 .. Len(vtemp) : \E k \in FilesOf(vdir) : file[vdir][k] = vtemp[i]

CommandInv ==
  /\ vpc \in {"prompt", "verified"} \/ job = "idle"
  /\ vpc \in {"prompt", "next", "list"} => vtemp = <<>>
  /\ vpc # "prompt" /\ quiet => lpc = "recv"
  /\ vpc \in {"read", "verified"} /\ quiet => StillThere
  /\ took => vpc \in {"verified", "clear"}

Inv == StoreInv /\ FolderInv /\ CommandInv

-----------------------------------------------------------------------------
(* Blocks and chains                                                         *)

LEMMA Bound == MaxLen \in Nat /\ MaxLen >= 1
BY StoreAssumption

LEMMA SlotFacts ==
  /\ MaxLen \in Nat /\ MaxLen >= 1
  /\ \A i : i \in Slot <=> i \in Nat /\ i < MaxLen
BY StoreAssumption DEF Slot

\* A block is a sequence of one to MaxLen labels.
LEMMA PathFacts ==
  \A p : p \in Path <=> p \in Seq(Label) /\ Len(p) \in 1 .. MaxLen
<1>1. ASSUME NEW p \in Path PROVE p \in Seq(Label) /\ Len(p) \in 1 .. MaxLen
  <2>1. PICK k \in 1 .. MaxLen : p \in [1 .. k -> Label]
    BY DEF Path
  <2>2. k \in Nat
    BY SlotFacts
  <2>3. p \in Seq(Label)
    BY <2>1, <2>2, SeqDef
  <2>4. Len(p) = k
    <3>1. DOMAIN p = 1 .. k /\ DOMAIN p = 1 .. Len(p) /\ Len(p) \in Nat
      BY <2>1, <2>3, LenProperties
    <3> QED  BY <2>1, <3>1, SlotFacts
  <2> QED  BY <2>3, <2>4
<1>2. ASSUME NEW p \in Seq(Label), Len(p) \in 1 .. MaxLen PROVE p \in Path
  <2>1. p \in [1 .. Len(p) -> Label]
    BY LenProperties
  <2> QED  BY <1>2, <2>1 DEF Path
<1> QED  BY <1>1, <1>2

\* A file that is absent or torn is no block.
LEMMA NoBlock == Absent \notin Path /\ Torn \notin Path
<1>1. Absent \notin Path
  BY PathFacts, SlotFacts DEF Absent
<1>2. ASSUME Torn \in Path PROVE FALSE
  <2>1. Torn \in Seq(Label) /\ Len(Torn) = 2
    BY <1>2, PathFacts DEF Torn
  <2>2. Torn[1] \in Label
    BY <2>1, ElementOfSeq
  <2> QED  BY <2>2, StoreAssumption DEF Torn
<1> QED  BY <1>1, <1>2

LEMMA ChainFacts ==
  ASSUME NEW c \in Chain
  PROVE  /\ c \in Seq(Path) /\ Len(c) \in 0 .. MaxLen
         /\ \A i \in 1 .. Len(c) : c[i] \in Path /\ Len(c[i]) = i
<1>1. c \in Seq(Path) /\ Len(c) \in Nat
  BY LenProperties DEF Chain
<1>2. \A i \in 1 .. Len(c) : c[i] \in Path /\ Len(c[i]) = i
  BY <1>1, ElementOfSeq DEF Chain
<1>3. Len(c) <= MaxLen
  <2>1. CASE Len(c) = 0
    BY <2>1, SlotFacts
  <2>2. CASE Len(c) # 0
    <3>1. Len(c) \in 1 .. Len(c)
      BY <1>1, <2>2
    <3>2. c[Len(c)] \in Path /\ Len(c[Len(c)]) = Len(c)
      BY <1>2, <3>1
    <3> QED  BY <3>2, PathFacts
  <2> QED  BY <2>1, <2>2
<1> QED  BY <1>1, <1>2, <1>3, SlotFacts

\* What begins like a chain is one.
LEMMA PrefixIsChain ==
  ASSUME NEW c \in Chain, NEW d \in Seq(Path), PrefixOf(d, c)
  PROVE  d \in Chain
<1>1. Len(d) \in Nat /\ Len(c) \in Nat /\ Len(d) <= Len(c)
  BY ChainFacts, LenProperties DEF PrefixOf
<1>2. ASSUME NEW i \in 1 .. Len(d)
      PROVE  /\ Len(d[i]) = i
             /\ d[i] = IF i = 1 THEN Genesis ELSE Append(d[i - 1], Last(d[i]))
  <2>1. i \in 1 .. Len(c) /\ d[i] = c[i]
    BY <1>1, PrefixOf(d, c) DEF PrefixOf
  <2>2. i # 1 => i - 1 \in 1 .. Len(d)
    BY <1>1
  <2>3. i # 1 => d[i - 1] = c[i - 1]
    BY <2>2 DEF PrefixOf
  <2>4. Len(c[i]) = i /\ c[i] = IF i = 1 THEN Genesis ELSE Append(c[i - 1], Last(c[i]))
    BY <2>1 DEF Chain
  <2> QED  BY <2>1, <2>3, <2>4
<1> QED  BY <1>2 DEF Chain

\* A block is the block it names, and one label more.
LEMMA FrontAndLast ==
  ASSUME NEW p \in Path, Len(p) >= 2
  PROVE  /\ Front(p) \in Path /\ Len(p) = Len(Front(p)) + 1
         /\ p = Append(Front(p), Last(p))
<1>1. p \in Seq(Label) /\ Len(p) \in 1 .. MaxLen /\ \A i \in 1 .. Len(p) : p[i] \in Label
  BY PathFacts, ElementOfSeq
<1>2. /\ Front(p) \in Seq(Label) /\ Len(Front(p)) = Len(p) - 1
      /\ \A i \in 1 .. Len(p) - 1 : Front(p)[i] = p[i]
  <2>1. \A i \in 1 .. Len(p) - 1 : p[i] \in Label
    BY <1>1, SlotFacts
  <2>2. Len(p) - 1 \in Int /\ 1 <= Len(p) - 1
    BY <1>1, SlotFacts
  <2>3. /\ SubSeq(p, 1, Len(p) - 1) \in Seq(Label)
        /\ Len(SubSeq(p, 1, Len(p) - 1)) = IF 1 <= Len(p) - 1 THEN (Len(p) - 1) - 1 + 1 ELSE 0
        /\ \A i \in 1 .. (Len(p) - 1) - 1 + 1 : SubSeq(p, 1, Len(p) - 1)[i] = p[1 + i - 1]
    BY <2>1, <2>2, SubSeqProperties
  <2> QED  BY <2>2, <2>3 DEF Front
<1>3. Front(p) \in Path
  BY <1>1, <1>2, PathFacts, SlotFacts
<1>4. Last(p) \in Label
  BY <1>1, SlotFacts DEF Last
<1>5. p = Append(Front(p), Last(p))
  <2>1. /\ Append(Front(p), Last(p)) \in Seq(Label)
        /\ Len(Append(Front(p), Last(p))) = Len(Front(p)) + 1
        /\ \A i \in 1 .. Len(Front(p)) : Append(Front(p), Last(p))[i] = Front(p)[i]
        /\ Append(Front(p), Last(p))[Len(Front(p)) + 1] = Last(p)
    BY <1>2, <1>4, AppendProperties
  <2>2. \A i \in 1 .. Len(p) : p[i] = Append(Front(p), Last(p))[i]
    BY <1>1, <1>2, <2>1 DEF Last
  <2> QED  BY <1>1, <1>2, <2>1, <2>2, SeqEqual
<1> QED  BY <1>1, <1>2, <1>3, <1>5

\* Mining: one block more that names the last one.
LEMMA MinedIsChain ==
  ASSUME NEW c \in Chain, Len(c) \in 1 .. MaxLen - 1, NEW l \in Label
  PROVE  /\ Append(c, Append(c[Len(c)], l)) \in Chain
         /\ Len(Append(c, Append(c[Len(c)], l))) = Len(c) + 1
         /\ \A i \in 1 .. Len(c) : Append(c, Append(c[Len(c)], l))[i] = c[i]
<1> DEFINE n == Len(c)
           b == Append(c[n], l)
           d == Append(c, b)
<1>1. n \in Nat /\ n \in 1 .. n /\ n + 1 <= MaxLen /\ c \in Seq(Path)
  BY ChainFacts, SlotFacts
<1>2. c[n] \in Seq(Label) /\ Len(c[n]) = n
  BY <1>1, ChainFacts, PathFacts
<1>3. b \in Seq(Label) /\ Len(b) = n + 1 /\ b[n + 1] = l
  BY <1>2, AppendProperties
<1>4. b \in Path
  <2>1. Len(b) \in 1 .. MaxLen
    BY <1>1, <1>3, Bound
  <2> HIDE DEF b
  <2> QED  BY <1>3, <2>1, PathFacts
<1>5. Last(b) = l
  BY <1>3 DEF Last
<1> HIDE DEF b
<1>6. /\ d \in Seq(Path) /\ Len(d) = n + 1 /\ d[n + 1] = b
      /\ \A i \in 1 .. n : d[i] = c[i]
  BY <1>1, <1>4, AppendProperties
<1>7. ASSUME NEW i \in 1 .. Len(d)
      PROVE  /\ Len(d[i]) = i
             /\ d[i] = IF i = 1 THEN Genesis ELSE Append(d[i - 1], Last(d[i]))
  <2>1. CASE i = n + 1
    <3>1. i # 1 /\ d[i - 1] = c[n] /\ d[i] = b
      BY <1>1, <1>6, <2>1
    <3>2. b = Append(c[n], Last(b))
      BY <1>5 DEF b
    <3> QED  BY <1>3, <2>1, <3>1, <3>2
  <2>2. CASE i # n + 1
    <3>1. i \in 1 .. n /\ d[i] = c[i]
      BY <1>1, <1>6, <2>2
    <3>2. i # 1 => d[i - 1] = c[i - 1]
      BY <1>1, <1>6, <3>1
    <3>3. Len(c[i]) = i /\ c[i] = IF i = 1 THEN Genesis ELSE Append(c[i - 1], Last(c[i]))
      BY <3>1 DEF Chain
    <3> QED  BY <3>1, <3>2, <3>3
  <2> QED  BY <2>1, <2>2
<1>8. d \in Chain
  BY <1>6, <1>7 DEF Chain
<1> QED  BY <1>6, <1>8 DEF b

\* The blocks read that are linked to the chain have its indices from there on.
LEMMA LinkedLengths ==
  ASSUME NEW c \in Chain, NEW t \in Seq(Path), t # <<>>, Linked(c, t)
  PROVE  /\ IndexOf(t[1]) \in 1 .. Len(c)
         /\ \A i \in 1 .. Len(t) :
              /\ t[i] \in Path /\ Len(t[i]) = IndexOf(t[1]) + i
              /\ t[i] = Append(IF i = 1 THEN c[IndexOf(t[1])] ELSE t[i - 1], Last(t[i]))
<1> DEFINE k == IndexOf(t[1])
           P == {i \in 0 .. Len(t) : i = 0 \/ (Len(t[i]) = k + i)}
<1>1. Len(t) \in Nat /\ Len(t) >= 1 /\ k \in 1 .. Len(c) /\ Len(c) \in Nat
  BY EmptySeq, LenProperties, ChainFacts DEF Linked
<1>2. \A i \in 1 .. Len(t) : t[i] \in Path /\ Len(t[i]) \in 1 .. MaxLen
  BY ElementOfSeq, PathFacts
<1>3. \A i \in 1 .. Len(t) : Front(t[i]) = IF i = 1 THEN c[k] ELSE t[i - 1]
  BY DEF Linked
<1>4. Len(t[1]) = k + 1
  BY <1>1, <1>2, SlotFacts DEF IndexOf
<1> HIDE DEF k
<1>5. ASSUME NEW i \in 1 .. Len(t), i - 1 \in P PROVE Len(t[i]) >= 2 /\ i \in P
  <2>1. CASE i = 1
    BY <1>1, <1>4, <2>1
  <2>2. CASE i # 1
    <3>1. i - 1 \in 1 .. Len(t) /\ Len(t[i - 1]) = k + (i - 1)
      BY <1>1, <1>5, <2>2
    <3>2. Front(t[i]) = t[i - 1] /\ t[i] \in Path
      BY <1>2, <1>3, <2>2
    <3>3. ASSUME Len(t[i]) < 2 PROVE FALSE
      <4>0. Len(t[i]) \in 1 .. MaxLen
        BY <1>2
      <4>1. Len(t[i]) = 1
        BY <3>3, <4>0, Bound
      <4>2. Front(t[i]) = <<>>
        BY <4>1, SubSeqEmpty DEF Front
      <4>3. Len(t[i - 1]) \in 1 .. MaxLen
        BY <1>2, <3>1
      <4>4. Len(t[i - 1]) = 0
        BY <3>2, <4>2
      <4> QED  BY <4>3, <4>4, Bound
    <3>4. Len(t[i]) >= 2
      BY <1>2, <3>3, SlotFacts
    <3>5. Len(t[i]) = Len(t[i - 1]) + 1
      BY <3>2, <3>4, FrontAndLast
    <3> QED  BY <1>1, <3>1, <3>4, <3>5
  <2> QED  BY <2>1, <2>2
<1>6. \A i \in 1 .. Len(t) : i - 1 \in P => i \in P
  BY <1>5
<1>7. 0 \in P
  BY <1>1
<1>8. \A i \in 0 .. Len(t) : i \in P
  <2> HIDE DEF P
  <2> QED  BY <1>1, <1>6, <1>7, Induction
<1>9. ASSUME NEW i \in 1 .. Len(t)
      PROVE  /\ Len(t[i]) = k + i
             /\ t[i] = Append(IF i = 1 THEN c[k] ELSE t[i - 1], Last(t[i]))
  <2>1. i \in P /\ i - 1 \in P
    <3>1. i \in 0 .. Len(t) /\ i - 1 \in 0 .. Len(t)
      BY <1>1
    <3> HIDE DEF P
    <3> QED  BY <1>8, <3>1
  <2>2. Len(t[i]) >= 2 /\ Len(t[i]) = k + i
    BY <1>1, <1>5, <2>1
  <2>3. t[i] = Append(Front(t[i]), Last(t[i]))
    BY <1>2, <2>2, FrontAndLast
  <2> QED  BY <1>3, <2>2, <2>3
<1> QED  BY <1>1, <1>2, <1>9 DEF k

\* A chain that is taken over is one.
LEMMA TakenIsChain ==
  ASSUME NEW c \in Chain, NEW t \in Seq(Path), t # <<>>, Linked(c, t)
  PROVE  SubSeq(c, 1, IndexOf(t[1])) \o t \in Chain
<1> DEFINE k == IndexOf(t[1])
           h == SubSeq(c, 1, k)
           d == h \o t
<1>1. /\ k \in 1 .. Len(c) /\ k \in Nat /\ Len(c) \in Nat /\ Len(t) \in Nat
      /\ c \in Seq(Path)
  BY LinkedLengths, ChainFacts, LenProperties, SlotFacts
<1>2. \A i \in 1 .. Len(t) :
        /\ Len(t[i]) = k + i
        /\ t[i] = Append(IF i = 1 THEN c[k] ELSE t[i - 1], Last(t[i]))
  BY LinkedLengths
<1> HIDE DEF k
<1>3. h \in Seq(Path) /\ Len(h) = k /\ \A i \in 1 .. k : h[i] = c[i]
  <2>1. \A i \in 1 .. k : c[i] \in Path
    BY <1>1, ChainFacts
  <2>2. /\ h \in Seq(Path) /\ Len(h) = IF 1 <= k THEN k - 1 + 1 ELSE 0
        /\ \A i \in 1 .. k - 1 + 1 : h[i] = c[1 + i - 1]
    BY <1>1, <2>1, SubSeqProperties
  <2> QED  BY <1>1, <2>2
<1> HIDE DEF h
<1>4. /\ d \in Seq(Path) /\ Len(d) = k + Len(t)
      /\ \A i \in 1 .. k + Len(t) : d[i] = IF i <= k THEN h[i] ELSE t[i - k]
  BY <1>3, ConcatProperties
<1> HIDE DEF d
<1>5. ASSUME NEW i \in 1 .. Len(d)
      PROVE  /\ Len(d[i]) = i
             /\ d[i] = IF i = 1 THEN Genesis ELSE Append(d[i - 1], Last(d[i]))
  <2>1. CASE i <= k
    <3>1. i \in 1 .. Len(c) /\ d[i] = c[i]
      BY <1>1, <1>3, <1>4, <2>1
    <3>2. i # 1 => d[i - 1] = c[i - 1]
      BY <1>1, <1>3, <1>4, <2>1
    <3>3. Len(c[i]) = i /\ c[i] = IF i = 1 THEN Genesis ELSE Append(c[i - 1], Last(c[i]))
      BY <3>1 DEF Chain
    <3> QED  BY <3>1, <3>2, <3>3
  <2>2. CASE ~ (i <= k)
    <3>1. i - k \in 1 .. Len(t) /\ d[i] = t[i - k] /\ i # 1
      BY <1>1, <1>4, <2>2
    <3>2. d[i - 1] = IF i - k = 1 THEN c[k] ELSE t[(i - k) - 1]
      <4>1. CASE i - k = 1
        BY <1>1, <1>3, <1>4, <4>1
      <4>2. CASE i - k # 1
        BY <1>1, <1>4, <2>2, <4>2
      <4> QED  BY <4>1, <4>2
    <3>3. Len(t[i - k]) = i
      BY <1>1, <1>2, <3>1
    <3>4. t[i - k] = Append(IF i - k = 1 THEN c[k] ELSE t[(i - k) - 1], Last(t[i - k]))
      BY <1>2, <3>1
    <3> QED  BY <3>1, <3>2, <3>3, <3>4
  <2> QED  BY <2>1, <2>2
<1>6. d \in Chain
  BY <1>4, <1>5 DEF Chain
<1> QED  BY <1>6 DEF d, h, k

-----------------------------------------------------------------------------
(* What load_valid_chain returns                                             *)

LEMMA FirstNumbers ==
  ASSUME NEW n \in Nat
  PROVE  /\ \A i : i \in 0 .. n - 1 <=> i \in Nat /\ i < n
         /\ IsFiniteSet(0 .. n - 1) /\ Cardinality(0 .. n - 1) = n
<1>1. IsFiniteSet(0 .. n - 1) /\ Cardinality(0 .. n - 1) = IF 0 > n - 1 THEN 0 ELSE (n - 1) - 0 + 1
  BY FS_Interval
<1> QED  BY <1>1

LEMMA CountFacts ==
  /\ IsFiniteSet(Files) /\ Count \in Nat /\ Count <= MaxLen
  /\ Files \subseteq Slot
<1>1. Files \in SUBSET Slot
  BY DEF Files
<1>2. IsFiniteSet(Slot) /\ Cardinality(Slot) = MaxLen
  BY Bound, FirstNumbers DEF Slot
<1>3. IsFiniteSet(Files) /\ Cardinality(Files) <= MaxLen
  BY <1>1, <1>2, FS_Subset
<1>4. Cardinality(Files) \in Nat
  BY <1>3, FS_CardinalityType
<1> QED  BY <1>1, <1>3, <1>4 DEF Count

\* If every file it opens is there, it opens every file there is.
LEMMA LoadableFiles ==
  ASSUME Loadable
  PROVE  /\ \A i \in Slot : dir[i] # Absent <=> i < Count
         /\ \A i \in Nat : i < Count => i \in Slot
<1>1. Count \in Nat /\ Count <= MaxLen /\ IsFiniteSet(Files) /\ Files \subseteq Slot
  BY CountFacts
<1>2. \A i \in Nat : i < Count => i \in Slot
  BY <1>1, Bound, SlotFacts
<1>3. 0 .. Count - 1 \subseteq Files
  BY <1>1, <1>2, FirstNumbers DEF Files, Loadable
<1>4. Cardinality(0 .. Count - 1) = Cardinality(Files)
  BY <1>1, FirstNumbers DEF Count
<1>5. Files = 0 .. Count - 1
  BY <1>1, <1>3, <1>4, FS_Subset
<1>6. \A i \in Slot : i \in Files <=> i < Count
  BY <1>1, <1>5, FirstNumbers, SlotFacts
<1> QED  BY <1>2, <1>6 DEF Files

\* What loads from a directory that holds torn files and files of c is a
\* leading part of c, and all there is.
LEMMA LoadsPart ==
  ASSUME NEW c \in Chain, PartOf(c), Loadable
  PROVE  Loaded \in Chain /\ PrefixOf(Loaded, c) /\ Holds(Loaded)
<1>1. /\ Count \in Nat /\ Count <= MaxLen
      /\ c \in Seq(Path) /\ Len(c) \in Nat /\ \A i \in 1 .. Len(c) : c[i] \in Path
  BY CountFacts, ChainFacts, LenProperties
<1>2. ASSUME NEW i \in 1 .. Count
      PROVE  i \in 1 .. Len(c) /\ Loaded[i] = c[i] /\ Loaded[i] = dir[i - 1]
  <2>1. i - 1 \in Slot /\ i - 1 < Count
    BY <1>1, LoadableFiles
  <2>2. dir[i - 1] \notin {Absent, Torn}
    BY <2>1 DEF Loadable
  <2>3. i - 1 < Len(c) /\ dir[i - 1] = c[(i - 1) + 1]
    BY <2>1, <2>2 DEF PartOf
  <2> QED  BY <1>1, <2>3 DEF Loaded
<1>3. Loaded \in [1 .. Count -> Path]
  <2>1. \A i \in 1 .. Count : dir[i - 1] \in Path
    BY <1>1, <1>2
  <2> QED  BY <2>1 DEF Loaded
<1>4. Loaded \in Seq(Path)
  BY <1>1, <1>3, SeqDef
<1>5. Len(Loaded) = Count
  <2>1. DOMAIN Loaded = 1 .. Count /\ DOMAIN Loaded = 1 .. Len(Loaded) /\ Len(Loaded) \in Nat
    BY <1>3, <1>4, LenProperties
  <2> QED  BY <1>1, <2>1
<1>6. PrefixOf(Loaded, c)
  <2>1. Count <= Len(c)
    <3>1. CASE Count = 0
      BY <1>1, <3>1
    <3>2. CASE Count # 0
      <4>1. Count \in 1 .. Count
        BY <1>1, <3>2
      <4> QED  BY <1>1, <1>2, <4>1
    <3> QED  BY <3>1, <3>2
  <2> QED  BY <1>2, <1>5, <2>1 DEF PrefixOf
<1>7. Holds(Loaded)
  <2>1. ASSUME NEW i \in Slot, i < Count PROVE dir[i] = Loaded[i + 1]
    <3>1. i + 1 \in 1 .. Count /\ (i + 1) - 1 = i
      BY <1>1, <2>1, SlotFacts
    <3> QED  BY <1>2, <3>1
  <2>2. ASSUME NEW i \in Slot, ~ (i < Count) PROVE dir[i] = Absent
    BY <2>2, LoadableFiles
  <2> QED  BY <1>5, <2>1, <2>2 DEF Holds
<1> QED  BY <1>4, <1>6, <1>7, PrefixIsChain

\* A directory that holds c and nothing else loads as c.
LEMMA LoadsWhole ==
  ASSUME NEW c \in Chain, Holds(c)
  PROVE  Loadable /\ Loaded = c
<1>1. /\ c \in Seq(Path) /\ Len(c) \in Nat /\ Len(c) <= MaxLen
      /\ \A i \in 1 .. Len(c) : c[i] \in Path
  BY ChainFacts, Bound
<1>2. \A i \in Slot : i < Len(c) => dir[i] = c[i + 1] /\ dir[i] \in Path
  <2> SUFFICES ASSUME NEW i \in Slot, i < Len(c)
               PROVE  dir[i] = c[i + 1] /\ dir[i] \in Path
    OBVIOUS
  <2>1. i + 1 \in 1 .. Len(c)
    BY <1>1, SlotFacts
  <2> QED  BY <1>1, <2>1 DEF Holds
<1>3. \A i \in Slot : i \in Files <=> i < Len(c)
  BY <1>2, NoBlock DEF Files, Holds
<1>4. Files = 0 .. Len(c) - 1
  <2>1. \A i \in 0 .. Len(c) - 1 : i \in Slot
    BY <1>1, Bound DEF Slot
  <2>2. \A i : i \in Files => i \in Slot
    BY DEF Files
  <2>3. \A i \in Slot : i \in 0 .. Len(c) - 1 <=> i < Len(c)
    BY <1>1, FirstNumbers, SlotFacts
  <2> QED  BY <1>3, <2>1, <2>2, <2>3
<1>5. Count = Len(c)
  BY <1>1, <1>4, FirstNumbers DEF Count
<1>6. Loadable
  BY <1>2, <1>5, NoBlock DEF Loadable
<1>7. PartOf(c)
  BY <1>2 DEF PartOf, Holds
<1>8. Loaded \in Chain /\ PrefixOf(Loaded, c)
  BY <1>6, <1>7, LoadsPart
<1>9. Len(Loaded) = Len(c)
  <2>1. Loaded \in Seq(Path) /\ DOMAIN Loaded = 1 .. Count
    BY <1>8, ChainFacts DEF Loaded
  <2>2. DOMAIN Loaded = 1 .. Len(Loaded) /\ Len(Loaded) \in Nat
    BY <2>1, LenProperties
  <2> QED  BY <1>1, <1>5, <2>1, <2>2
<1>10. Loaded = c
  BY <1>1, <1>8, <1>9, ChainFacts, SeqEqual DEF PrefixOf
<1> QED  BY <1>6, <1>10

-----------------------------------------------------------------------------
(* The valid_chain directory: each step of a save, a stop and a start        *)

LEMMA GenesisIsChain == Genesis \in Path /\ <<Genesis>> \in Chain /\ <<>> \in Seq(Path)
<1>1. Genesis \in Seq(Label) /\ Len(Genesis) = 1
  BY StoreAssumption DEF Genesis
<1>2. Genesis \in Path
  <2>1. Len(Genesis) \in 1 .. MaxLen
    BY <1>1, Bound
  <2> QED  BY <1>1, <2>1, PathFacts
<1>3. <<Genesis>> \in Seq(Path) /\ Len(<<Genesis>>) = 1 /\ <<Genesis>>[1] = Genesis
  BY <1>2
<1>4. \A i \in 1 .. Len(<<Genesis>>) : i = 1
  BY <1>3
<1>5. <<Genesis>> \in Chain
  <2> DEFINE c == <<Genesis>>
  <2>1. /\ c \in Seq(Path) /\ \A i \in 1 .. Len(c) : i = 1
        /\ c[1] = Genesis /\ Len(Genesis) = 1
    BY <1>1, <1>3, <1>4
  <2> HIDE DEF c
  <2>2. c \in Chain
    BY <2>1 DEF Chain
  <2> QED  BY <2>2 DEF c
<1> QED  BY <1>2, <1>5

LEMMA InitStoreInv ==
  ASSUME InitStore
  PROVE  StoreInv
<1>1. mem \in Chain /\ base \in Chain /\ target \in Chain /\ Len(mem) = 1 /\ mem[1] = Genesis
  BY GenesisIsChain DEF InitStore
<1>2. 0 \in Slot /\ 0 \in 0 .. MaxLen
  BY SlotFacts, Bound
<1>3. dir \in [Slot -> Content]
  BY GenesisIsChain DEF InitStore, Content
<1>4. StoreTypeOK
  BY <1>2, <1>3 DEF InitStore, StoreTypeOK
<1>5. Holds(mem)
  <2> SUFFICES ASSUME NEW i \in Slot
               PROVE  dir[i] = IF i < Len(mem) THEN mem[i + 1] ELSE Absent
    BY DEF Holds
  <2>1. i \in Nat
    BY SlotFacts
  <2> QED  BY <1>1, <2>1 DEF InitStore
<1> QED  BY <1>1, <1>4, <1>5 DEF InitStore, StoreInv

LEMMA SaveBegins ==
  ASSUME StoreInv, NEW c \in Chain, SaveChain(c)
  PROVE  StoreInv'
<1>1. /\ Holds(mem) /\ mem \in Chain /\ base \in Chain /\ StoreTypeOK /\ open = FALSE
      /\ job' = "delete" /\ target' = c /\ base' = mem /\ next' = 0
      /\ dir' = dir /\ mem' = mem /\ open' = open
  BY DEF StoreInv, SaveChain
<1>2. StoreTypeOK'
  BY <1>1, Bound DEF StoreTypeOK
<1>3. Deleting'
  BY <1>1 DEF Deleting, Holds
<1> QED  BY <1>1, <1>2, <1>3 DEF StoreInv

LEMMA BlockMined ==
  ASSUME StoreInv, NEW l \in Own, SaveMinedBlock(l)
  PROVE  StoreInv'
<1>1. /\ Holds(mem) /\ mem \in Chain /\ StoreTypeOK /\ open = FALSE
      /\ Len(mem) \in 1 .. MaxLen - 1 /\ l \in Label
      /\ target' = Append(mem, Append(mem[Len(mem)], l))
      /\ mem' = target' /\ base' = mem /\ job' = "write" /\ next' = Len(mem)
      /\ dir' = dir /\ open' = open
  BY StoreAssumption DEF StoreInv, SaveMinedBlock
<1>2. /\ target' \in Chain /\ Len(target') = Len(mem) + 1
      /\ \A i \in 1 .. Len(mem) : target'[i] = mem[i]
  BY <1>1, MinedIsChain
<1>3. StoreTypeOK'
  BY <1>1, Bound DEF StoreTypeOK
<1>4. Writing'
  <2>1. Len(mem) \in Nat
    BY <1>1, Bound
  <2>2. ASSUME NEW i \in Slot
        PROVE  dir[i] = IF i < Len(mem) THEN target'[i + 1] ELSE Absent
    <3>1. i < Len(mem) => i + 1 \in 1 .. Len(mem)
      BY <2>1, SlotFacts
    <3> QED  BY <1>1, <1>2, <3>1 DEF Holds
  <2>3. next' = Len(mem) /\ next' <= Len(target') /\ open' = FALSE
    BY <1>1, <1>2, <2>1
  <2>4. \A i \in Slot : dir'[i] = IF i < next' THEN target'[i + 1] ELSE Absent
    BY <1>1, <2>2, <2>3
  <2> QED  BY <2>3, <2>4 DEF Writing
<1> QED  BY <1>1, <1>2, <1>3, <1>4 DEF StoreInv

\* When the last file is closed, the directory holds the chain that was given.
LEMMA SaveFinishes ==
  ASSUME StoreInv, FinishSave
  PROVE  StoreInv' /\ job' = "idle" /\ mem' = target
<1>1. /\ Writing /\ StoreTypeOK /\ target \in Chain /\ open = FALSE
      /\ next >= Len(target) /\ dir' = dir /\ next' = next /\ open' = open
  BY DEF StoreInv, StoreTypeOK, FinishSave
<1>2. Holds(target)
  <2>1. next = Len(target) /\ next \in Nat
    BY <1>1, ChainFacts, Bound DEF Writing, StoreTypeOK
  <2> QED  BY <1>1, <2>1 DEF Writing, Holds
<1>3. Loadable /\ Loaded = target
  BY <1>1, <1>2, LoadsWhole
<1>4. job' = "idle" /\ mem' = target /\ target' = target /\ base' = target
  BY <1>3 DEF FinishSave
<1>5. StoreTypeOK' /\ Holds(target)'
  BY <1>1, <1>2, <1>4 DEF StoreTypeOK, Holds
<1> QED  BY <1>1, <1>4, <1>5 DEF StoreInv, Holds

LEMMA SaveGoesOn ==
  ASSUME StoreInv, SaveStep
  PROVE  StoreInv' /\ mem' \in {mem, target} /\ (job' = job \/ job' \in {"write", "idle"})
<1>1. ASSUME NEW i \in Slot, DeleteFile(i) PROVE StoreInv' /\ mem' = mem /\ job' = job
  <2>1. /\ Deleting /\ StoreTypeOK /\ dir' = [dir EXCEPT ![i] = Absent]
        /\ mem' = mem /\ job' = job /\ next' = next /\ open' = open
        /\ target' = target /\ base' = base /\ job = "delete"
    BY <1>1 DEF StoreInv, DeleteFile
  <2>2. StoreTypeOK'
    BY <2>1 DEF StoreTypeOK, Content
  <2>3. Deleting'
    BY <2>1 DEF Deleting, StoreTypeOK
  <2> QED  BY <2>1, <2>2, <2>3 DEF StoreInv
<1>2. ASSUME DeletedAll PROVE StoreInv' /\ mem' = mem /\ job' = "write"
  <2>1. /\ Deleting /\ StoreTypeOK /\ Files = {} /\ open = FALSE /\ target \in Chain
        /\ mem' = mem /\ job' = "write" /\ next' = next /\ open' = open /\ dir' = dir
        /\ target' = target /\ base' = base
    BY <1>2 DEF StoreInv, DeletedAll, StoreTypeOK
  <2>2. \A i \in Slot : dir[i] = Absent
    BY <2>1 DEF Files
  <2>3. next = 0 /\ Len(target) \in Nat
    BY <2>1, ChainFacts, Bound DEF Deleting
  <2>4. Writing'
    BY <2>1, <2>2, <2>3, SlotFacts DEF Writing
  <2>5. StoreTypeOK'
    BY <2>1 DEF StoreTypeOK
  <2> QED  BY <2>1, <2>4, <2>5 DEF StoreInv
<1>3. ASSUME OpenFile PROVE StoreInv' /\ mem' = mem /\ job' = job
  <2>1. /\ Writing /\ StoreTypeOK /\ target \in Chain /\ open = FALSE /\ job = "write"
        /\ next < Len(target) /\ dir' = [dir EXCEPT ![next] = Torn] /\ open' = TRUE
        /\ mem' = mem /\ job' = job /\ next' = next /\ target' = target /\ base' = base
    BY <1>3 DEF StoreInv, StoreTypeOK, OpenFile
  <2>2. next \in Slot /\ next \in Nat
    BY <2>1, ChainFacts, SlotFacts, Bound DEF StoreTypeOK
  <2>3. StoreTypeOK'
    BY <2>1 DEF StoreTypeOK, Content
  <2>4. Writing'
    <3>1. ASSUME NEW i \in Slot
          PROVE  dir'[i] = IF i < next THEN target[i + 1]
                           ELSE IF i = next THEN Torn ELSE Absent
      BY <2>1, <2>2, SlotFacts DEF Writing, StoreTypeOK
    <3> QED  BY <2>1, <3>1 DEF Writing
  <2> QED  BY <2>1, <2>3, <2>4 DEF StoreInv
<1>4. ASSUME DumpBlock PROVE StoreInv' /\ mem' = mem /\ job' = job
  <2>1. /\ Writing /\ StoreTypeOK /\ target \in Chain /\ open /\ job = "write"
        /\ dir' = [dir EXCEPT ![next] = target[next + 1]] /\ open' = FALSE
        /\ next' = next + 1
        /\ mem' = mem /\ job' = job /\ target' = target /\ base' = base
    BY <1>4 DEF StoreInv, DumpBlock
  <2>2. /\ next \in Slot /\ next \in Nat /\ next < Len(target) /\ Len(target) \in Nat
        /\ Len(target) <= MaxLen
    BY <2>1, ChainFacts, SlotFacts, Bound DEF StoreTypeOK, Writing
  <2>3. target[next + 1] \in Path
    <3>1. next + 1 \in 1 .. Len(target)
      BY <2>2
    <3> QED  BY <2>1, <3>1, ChainFacts
  <2>4. next' \in 0 .. MaxLen /\ next' <= Len(target)
    BY <2>1, <2>2, Bound
  <2>5. StoreTypeOK'
    BY <2>1, <2>3, <2>4 DEF StoreTypeOK, Content
  <2>6. Writing'
    <3>1. ASSUME NEW i \in Slot
          PROVE  dir'[i] = IF i < next + 1 THEN target[i + 1] ELSE Absent
      <4>1. i \in Nat
        BY SlotFacts
      <4>2. CASE i = next
        BY <2>1, <2>2, <4>2 DEF StoreTypeOK
      <4>3. CASE i # next
        <5>1. dir'[i] = dir[i] /\ (i < next + 1 <=> i < next)
          BY <2>1, <2>2, <4>1, <4>3 DEF StoreTypeOK
        <5> QED  BY <2>1, <4>3, <5>1 DEF Writing
      <4> QED  BY <4>2, <4>3
    <3> QED  BY <2>1, <2>4, <3>1 DEF Writing
  <2> QED  BY <2>1, <2>5, <2>6 DEF StoreInv
<1> QED  BY <1>1, <1>2, <1>3, <1>4, SaveFinishes DEF SaveStep

\* Wherever the process stops, what is left is of the old chain or of the new.
LEMMA StopLeavesPart ==
  ASSUME StoreInv, job' = "stopped", open' = FALSE,
         UNCHANGED <<dir, mem, next, target, base>>
  PROVE  StoreInv'
<1>1. PartOf(base) \/ PartOf(target)
  <2>1. CASE job = "idle"
    BY <2>1 DEF StoreInv, Holds, PartOf
  <2>2. CASE job = "delete"
    BY <2>2 DEF StoreInv, Deleting, PartOf
  <2>3. CASE job = "write"
    <3>1. Writing /\ next \in Nat /\ target \in Chain
      BY <2>3, Bound DEF StoreInv, StoreTypeOK
    <3>2. ASSUME NEW i \in Slot
          PROVE  dir[i] \in {Absent, Torn} \/ (i < Len(target) /\ dir[i] = target[i + 1])
      BY <3>1, ChainFacts, SlotFacts, Bound DEF Writing
    <3> QED  BY <3>2 DEF PartOf
  <2>4. CASE job = "stopped"
    BY <2>4 DEF StoreInv
  <2> QED  BY <2>1, <2>2, <2>3, <2>4 DEF StoreInv, StoreTypeOK
<1>2. (PartOf(base) \/ PartOf(target))'
  BY <1>1 DEF PartOf
<1>3. StoreTypeOK'
  BY DEF StoreInv, StoreTypeOK
<1> QED  BY <1>2, <1>3 DEF StoreInv

LEMMA StartLoads ==
  ASSUME StoreInv, StartStore
  PROVE  /\ StoreInv'
         /\ job' = "idle" => PrefixOf(mem', base) \/ PrefixOf(mem', target)
<1>1. /\ StoreTypeOK /\ base \in Chain /\ target \in Chain /\ mem \in Chain /\ open = FALSE
      /\ PartOf(base) \/ PartOf(target)
      /\ dir' = dir /\ next' = next /\ open' = open /\ job = "stopped"
  BY DEF StoreInv, StoreTypeOK, StartStore
<1>2. CASE Loadable
  <2>1. job' = "idle" /\ mem' = Loaded /\ target' = Loaded /\ base' = Loaded
    BY <1>2 DEF StartStore
  <2>2. /\ Loaded \in Chain /\ Holds(Loaded)
        /\ PrefixOf(Loaded, base) \/ PrefixOf(Loaded, target)
    BY <1>1, <1>2, LoadsPart
  <2>3. StoreTypeOK'
    BY <1>1, <2>1 DEF StoreTypeOK
  <2>4. Holds(mem)'
    BY <1>1, <2>1, <2>2 DEF Holds
  <2> QED  BY <1>1, <2>1, <2>2, <2>3, <2>4 DEF StoreInv
<1>3. CASE ~ Loadable
  <2>1. UNCHANGED store
    BY <1>1, <1>3 DEF StartStore, store
  <2> QED
    BY <1>1, <2>1 DEF store, StoreInv, StoreTypeOK, PartOf
<1> QED  BY <1>2, <1>3

LEMMA StoreUnchanged ==
  ASSUME StoreInv, UNCHANGED store
  PROVE  StoreInv'
BY DEF store, StoreInv, StoreTypeOK, Holds, PartOf, Deleting, Writing

-----------------------------------------------------------------------------
(* The pending_chains folder: the listener's steps                           *)

LEMMA NumberFacts ==
  /\ MaxFile \in Nat
  /\ \A i : i \in Number <=> i \in Nat /\ i < MaxFile
BY PendingAssumption DEF Number

\* The file of the next block has a number, and so will the one after it.
LEMMA NextFile ==
  ASSUME FolderInv, lchain # <<>>
  PROVE  /\ lcount \in Number /\ lchain[1] \in Path /\ Tail(lchain) \in Seq(Path)
         /\ lcount + 1 + Len(Tail(lchain)) <= MaxFile
<1>1. /\ lchain \in Seq(Path) /\ lcount \in Nat /\ Len(lchain) \in Nat \ {0}
      /\ lcount + Len(lchain) <= MaxFile
  BY EmptySeq, LenProperties DEF FolderInv
<1>2. lchain[1] \in Path /\ Tail(lchain) \in Seq(Path) /\ Len(Tail(lchain)) = Len(lchain) - 1
  BY <1>1, ElementOfSeq, HeadTailProperties
<1> QED  BY <1>1, <1>2, NumberFacts

LEMMA FileChanged ==
  ASSUME FolderInv, NEW s \in Sender, NEW i \in Number, NEW v \in Content,
         file' = [file EXCEPT ![s][i] = v]
  PROVE  /\ file' \in [Sender -> [Number -> Content]]
         /\ \A t \in Sender, j \in Number :
              file'[t][j] = IF t = s /\ j = i THEN v ELSE file[t][j]
BY DEF FolderInv

LEMMA NoContent == Absent \in Content /\ Torn \in Content
BY DEF Content

\* A step of the listener, or of the process as a whole, during which the
\* command loop takes none: nothing was read that is still relied on.
LEMMA CommandWaits ==
  ASSUME CommandInv, vpc = "prompt" \/ ~ quiet,
         vpc' = vpc, vtemp' = vtemp, vdir' = vdir, took' = took, quiet' = quiet,
         job' = job \/ job' = "idle" \/ vpc = "verified"
  PROVE  CommandInv'
BY DEF CommandInv

LEMMA ReceiveKeeps ==
  ASSUME Inv, NEW s \in Sender, NEW c \in Received, Receive(s, c)
  PROVE  Inv'
<1>1. UNCHANGED <<made, file, lopen, vvars, whole, store>> /\ quiet' = FALSE
  BY DEF Receive
<1>2. StoreInv'
  BY <1>1, StoreUnchanged DEF Inv
<1>3. FolderInv'
  <2>1. /\ c \in Seq(Path) /\ c # <<>> /\ FirstNumber(c) + Len(c) <= MaxFile
        /\ FirstNumber(c) \in Nat
    <3>1. c \in Seq(Path) /\ c # <<>>
      BY PendingAssumption
    <3>2. c[1] \in Path
      BY <3>1, EmptySeq, ElementOfSeq
    <3>3. Len(c[1]) \in 1 .. MaxLen /\ MaxLen \in Nat
      BY <3>2, PathFacts, Bound
    <3> QED  BY <3>1, <3>3, PendingAssumption DEF FirstNumber, IndexOf
  <2> QED  BY <1>1, <2>1 DEF Receive, Inv, FolderInv, vvars
<1>4. CommandInv'
  BY <1>1 DEF Inv, CommandInv, vvars, store
<1> QED  BY <1>2, <1>3, <1>4 DEF Inv

LEMMA ListenerKeeps ==
  ASSUME Inv, Listener
  PROVE  Inv' /\ UNCHANGED store
<1>1. StoreInv /\ FolderInv /\ CommandInv /\ UNCHANGED store
  BY DEF Inv, Listener, ListenerClear, ListenerMake, ListenerOpen, ListenerDump, ListenerDone
<1>2. StoreInv'
  BY <1>1, StoreUnchanged
<1>3. CommandInv'
  <2>1. lpc # "recv"
    BY DEF Listener, ListenerClear, ListenerMake, ListenerOpen, ListenerDump, ListenerDone
  <2>2. vpc = "prompt" \/ ~ quiet
    BY <1>1, <2>1 DEF CommandInv
  <2>3. /\ vpc' = vpc /\ vtemp' = vtemp /\ vdir' = vdir /\ took' = took /\ quiet' = quiet
        /\ job' = job
    BY <1>1 DEF Listener, ListenerClear, ListenerMake, ListenerOpen, ListenerDump,
                ListenerDone, vvars, store
  <2> QED  BY <1>1, <2>2, <2>3, CommandWaits
<1>4. CASE ListenerClear
  <2>1. /\ lpc' \in {lpc, "make"} /\ vpc' = vpc /\ UNCHANGED <<lfrom, lchain, lcount>>
        /\ lopen' = lopen /\ lopen = FALSE
        /\ vtodo' = vtodo /\ vdir' = vdir /\ vtemp' = vtemp
        /\ vlist' \in {vlist, {}}
    BY <1>1, <1>4 DEF ListenerClear, FolderInv
  <2>2. made' \in [Sender -> BOOLEAN] /\ file' \in [Sender -> [Number -> Content]]
    <3>1. CASE \E i \in FilesOf(lfrom) :
                 file' = [file EXCEPT ![lfrom][i] = Absent] /\ made' = made
      <4>1. PICK i \in Number : file' = [file EXCEPT ![lfrom][i] = Absent]
        BY <3>1 DEF FilesOf
      <4>2. lfrom \in Sender /\ made' \in [Sender -> BOOLEAN]
        BY <1>1, <3>1 DEF FolderInv
      <4> QED  BY <1>1, <4>1, <4>2, NoContent, FileChanged
    <3>2. CASE file' = file /\ made' = [made EXCEPT ![lfrom] = FALSE]
      BY <1>1, <3>2 DEF FolderInv
    <3> QED  BY <1>4, <3>1, <3>2 DEF ListenerClear
  <2>3. FolderInv'
    BY <1>1, <2>1, <2>2 DEF FolderInv
  <2> QED  BY <1>1, <1>2, <1>3, <2>3 DEF Inv
<1>5. CASE ListenerMake
  <2>1. FolderInv'
    BY <1>1, <1>5 DEF ListenerMake, FolderInv, vvars
  <2> QED  BY <1>1, <1>2, <1>3, <2>1 DEF Inv
<1>6. CASE ListenerOpen
  <2>1. lcount \in Number /\ lfrom \in Sender
    BY <1>1, <1>6, NextFile DEF FolderInv, ListenerOpen
  <2>2. file' \in [Sender -> [Number -> Content]]
    <3>1. CASE file' = file
      BY <1>1, <3>1 DEF FolderInv
    <3>2. CASE file' = [file EXCEPT ![lfrom][lcount] = Torn]
      BY <1>1, <2>1, <3>2, NoContent, FileChanged
    <3> QED  BY <1>6, <3>1, <3>2 DEF ListenerOpen
  <2>3. /\ lpc' \in {"write", "recv"} /\ lchain' \in Seq(Path)
        /\ lfrom' = lfrom /\ lcount' = lcount
        /\ lopen' \in BOOLEAN
        /\ lopen' => lpc' = "write" /\ lchain' # <<>>
        /\ made' = made /\ UNCHANGED vvars
    BY <1>1, <1>6, EmptySeq DEF ListenerOpen, FolderInv
  <2>4. lcount + Len(lchain') <= MaxFile
    <3>1. CASE lchain' = lchain
      BY <1>1, <3>1 DEF FolderInv
    <3>2. CASE lchain' = <<>>
      <4>1. Len(lchain') = 0
        BY <3>2, EmptySeq
      <4> QED  BY <2>1, <4>1, NumberFacts
    <3> QED  BY <1>6, <3>1, <3>2 DEF ListenerOpen
  <2>5. FolderInv'
    BY <1>1, <2>2, <2>3, <2>4 DEF FolderInv, vvars
  <2> QED  BY <1>1, <1>2, <1>3, <2>5 DEF Inv
<1>7. CASE ListenerDump
  <2>1. /\ lcount \in Number /\ lfrom \in Sender /\ lchain[1] \in Path
        /\ Tail(lchain) \in Seq(Path) /\ lcount + 1 + Len(Tail(lchain)) <= MaxFile
    BY <1>1, <1>7, NextFile DEF FolderInv, ListenerDump
  <2>2. file' \in [Sender -> [Number -> Content]]
    <3>1. CASE file' = file
      BY <1>1, <3>1 DEF FolderInv
    <3>2. CASE file' = [file EXCEPT ![lfrom][lcount] = lchain[1]]
      <4>1. lchain[1] \in Content
        BY <2>1 DEF Content
      <4> QED  BY <1>1, <2>1, <3>2, <4>1, FileChanged
    <3> QED  BY <1>7, <3>1, <3>2 DEF ListenerDump
  <2>3. /\ lpc' = lpc /\ lchain' = Tail(lchain) /\ lcount' = lcount + 1
        /\ lfrom' = lfrom /\ lopen' = FALSE
        /\ made' = made /\ UNCHANGED vvars
    BY <1>7 DEF ListenerDump
  <2>4. lcount' \in Nat /\ lcount' + Len(lchain') <= MaxFile
    BY <2>1, <2>3, NumberFacts
  <2>5. FolderInv'
    BY <1>1, <2>1, <2>2, <2>3, <2>4 DEF FolderInv, vvars
  <2> QED  BY <1>1, <1>2, <1>3, <2>5 DEF Inv
<1>8. CASE ListenerDone
  <2>1. FolderInv'
    BY <1>1, <1>8 DEF ListenerDone, FolderInv, vvars
  <2> QED  BY <1>1, <1>2, <1>3, <2>1 DEF Inv
<1> QED  BY <1>4, <1>5, <1>6, <1>7, <1>8 DEF Listener

-----------------------------------------------------------------------------
(* The command loop's steps                                                  *)

LEMMA InitInv ==
  ASSUME Init
  PROVE  Inv
<1>1. StoreInv
  BY InitStoreInv DEF Init
<1>2. FolderInv
  <2>1. file \in [Sender -> [Number -> Content]]
    BY NoContent DEF Init, NoFiles
  <2>2. lcount = 0 /\ lcount \in Nat /\ lcount + Len(lchain) <= MaxFile
    <3>1. lcount = 0 /\ lchain = <<>> /\ Len(<<>>) = 0 /\ MaxFile \in Nat
      BY EmptySeq, NumberFacts DEF Init
    <3> QED  BY <3>1
  <2>3. made \in [Sender -> BOOLEAN]
    BY DEF Init
  <2> QED  BY <2>1, <2>2, <2>3, EmptySeq DEF Init, FolderInv
<1>3. CommandInv
  BY DEF Init, CommandInv
<1> QED  BY <1>1, <1>2, <1>3 DEF Inv

LEMMA RaiseKeeps ==
  ASSUME Inv, Raise, job = "idle",
         UNCHANGED <<made, file, lvars, vdir, whole, quiet>>
  PROVE  Inv'
<1>1. StoreInv'
  <2>1. open' = FALSE
    BY DEF Inv, StoreInv, StoreTypeOK, Raise
  <2> QED  BY <2>1, StopLeavesPart DEF Inv, Raise
<1>2. FolderInv'
  BY EmptySeq DEF Inv, FolderInv, Raise, LeaveCommand, lvars
<1>3. CommandInv'
  BY DEF CommandInv, Raise, LeaveCommand
<1> QED  BY <1>1, <1>2, <1>3 DEF Inv

LEMMA StartValidateKeeps ==
  ASSUME Inv, StartValidate
  PROVE  Inv'
<1>1. StoreInv'
  BY StoreUnchanged DEF Inv, StartValidate
<1>2. FolderInv'
  BY DEF Inv, FolderInv, StartValidate, lvars
<1>3. CommandInv'
  BY DEF Inv, CommandInv, StartValidate, lvars, store
<1> QED  BY <1>1, <1>2, <1>3 DEF Inv

LEMMA NextDirectoryKeeps ==
  ASSUME Inv, NEW s \in Sender, NextDirectory(s)
  PROVE  Inv'
<1>1. StoreInv'
  BY StoreUnchanged DEF Inv, NextDirectory
<1>2. FolderInv'
  BY DEF Inv, FolderInv, NextDirectory, lvars
<1>3. CommandInv'
  BY DEF Inv, CommandInv, NextDirectory, lvars, store
<1> QED  BY <1>1, <1>2, <1>3 DEF Inv

LEMMA EndValidateKeeps ==
  ASSUME Inv, EndValidate
  PROVE  Inv'
<1>1. StoreInv'
  BY StoreUnchanged DEF Inv, EndValidate
<1>2. FolderInv'
  BY DEF Inv, FolderInv, EndValidate, lvars
<1>3. CommandInv'
  BY DEF Inv, CommandInv, EndValidate, lvars, store
<1> QED  BY <1>1, <1>2, <1>3 DEF Inv

LEMMA ListFilesKeeps ==
  ASSUME Inv, ListFiles
  PROVE  Inv'
<1>1. /\ vpc = "list" /\ job = "idle" /\ vtemp = <<>> /\ ~ took
      /\ UNCHANGED <<made, file, lvars, vdir, whole, quiet>>
  BY DEF Inv, CommandInv, ListFiles
<1>2. CASE made[vdir]
  <2>1. /\ vpc' = "read" /\ vlist' = FilesOf(vdir)
        /\ UNCHANGED <<vtodo, vtemp, took, store>>
    BY <1>2 DEF ListFiles
  <2>2. StoreInv'
    BY <2>1, StoreUnchanged DEF Inv
  <2>3. FolderInv'
    BY <1>1, <2>1 DEF Inv, FolderInv, lvars, FilesOf
  <2>4. StillThere'
    BY <1>1, <2>1 DEF StillThere
  <2>5. CommandInv'
    BY <1>1, <2>1, <2>4 DEF Inv, CommandInv, lvars, store
  <2> QED  BY <2>2, <2>3, <2>5 DEF Inv
<1>3. CASE ~ made[vdir]
  <2>1. Raise
    BY <1>3 DEF ListFiles
  <2> QED  BY <1>1, <2>1, RaiseKeeps
<1> QED  BY <1>2, <1>3

LEMMA MinIsIn ==
  ASSUME NEW S \in SUBSET Number, S # {}
  PROVE  Min(S) \in S
<1>1. S \in SUBSET Nat
  BY NumberFacts
<1>2. \E k \in S : \A m \in S : k <= m
  BY <1>1, LeastNatural
<1> QED  BY <1>2 DEF Min

\* What is read is in the file it was read from; torn files are passed over.
LEMMA ReadFileKeeps ==
  ASSUME Inv, ReadFile
  PROVE  Inv'
<1> DEFINE i == Min(vlist)
<1>1. /\ StoreInv /\ FolderInv /\ CommandInv /\ vpc = "read" /\ vlist # {}
      /\ vlist' = vlist \ {i}
      /\ UNCHANGED <<made, file, lvars, vpc, vtodo, vdir, took, whole, quiet, store>>
  BY DEF Inv, ReadFile
<1>2. vtemp' = IF file[vdir][i] \in {Absent, Torn} THEN vtemp
               ELSE Append(vtemp, file[vdir][i])
  BY DEF ReadFile
<1>3. i \in Number
  BY <1>1, MinIsIn DEF FolderInv
<1> HIDE DEF i
<1>4. /\ vtemp \in Seq(Path) /\ Len(vtemp) \in Nat /\ vdir \in Sender
      /\ file[vdir][i] \in Content
  BY <1>1, <1>3, LenProperties DEF FolderInv
<1>5. StoreInv'
  BY <1>1, StoreUnchanged
<1>6. CASE file[vdir][i] \in {Absent, Torn}
  <2>1. vtemp' = vtemp
    BY <1>2, <1>6
  <2>2. FolderInv'
    BY <1>1, <2>1 DEF FolderInv, lvars
  <2>3. CommandInv'
    BY <1>1, <2>1 DEF CommandInv, StillThere, FilesOf, lvars, store
  <2> QED  BY <1>5, <2>2, <2>3 DEF Inv
<1>7. CASE file[vdir][i] \notin {Absent, Torn}
  <2> DEFINE b == file[vdir][i]
  <2>1. vtemp' = Append(vtemp, b) /\ b \in Path /\ i \in FilesOf(vdir)
    BY <1>2, <1>3, <1>4, <1>7 DEF Content, FilesOf
  <2>2. /\ vtemp' \in Seq(Path) /\ Len(vtemp') = Len(vtemp) + 1
        /\ \A j \in 1 .. Len(vtemp) : vtemp'[j] = vtemp[j]
        /\ vtemp'[Len(vtemp) + 1] = b
    BY <1>4, <2>1, AppendProperties
  <2>3. FolderInv'
    BY <1>1, <2>2 DEF FolderInv, lvars
  <2>4. ASSUME StillThere PROVE StillThere'
    <3> SUFFICES ASSUME NEW j \in 1 .. Len(vtemp')
                 PROVE  \E k \in FilesOf(vdir) : file[vdir][k] = vtemp'[j]
      BY <1>1 DEF StillThere, FilesOf
    <3>1. CASE j = Len(vtemp) + 1
      BY <2>1, <2>2, <3>1
    <3>2. CASE j # Len(vtemp) + 1
      <4>1. j \in 1 .. Len(vtemp)
        BY <1>4, <2>2, <3>2
      <4> QED  BY <2>2, <2>4, <4>1 DEF StillThere
    <3> QED  BY <3>1, <3>2
  <2>5. CommandInv'
    BY <1>1, <2>4 DEF CommandInv, lvars, store
  <2> QED  BY <1>5, <2>3, <2>5 DEF Inv
<1> QED  BY <1>6, <1>7

LEMMA VerifyChainKeeps ==
  ASSUME Inv, VerifyChain
  PROVE  Inv'
<1>1. /\ StoreInv /\ FolderInv /\ CommandInv /\ vpc = "read" /\ job = "idle" /\ ~ took
      /\ UNCHANGED <<made, file, lvars, vdir, whole, quiet>>
  BY DEF Inv, CommandInv, VerifyChain
<1>2. CASE Unindexable
  <2>1. Raise
    BY <1>2 DEF VerifyChain, TakesOver
  <2> QED  BY <1>1, <2>1, RaiseKeeps
<1>3. CASE TakesOver
  <2>1. /\ SaveChain(SubSeq(mem, 1, IndexOf(vtemp[1])) \o vtemp)
        /\ vpc' = "verified" /\ took' = TRUE /\ UNCHANGED <<vtodo, vlist, vtemp>>
    BY <1>3 DEF VerifyChain, TakesOver
  <2>2. vtemp \in Seq(Path) /\ vtemp # <<>> /\ Linked(mem, vtemp) /\ mem \in Chain
    BY <1>1, <1>3 DEF TakesOver, Unindexable, StoreInv, FolderInv
  <2>3. SubSeq(mem, 1, IndexOf(vtemp[1])) \o vtemp \in Chain
    BY <2>2, TakenIsChain
  <2>4. StoreInv'
    BY <1>1, <2>1, <2>3, SaveBegins
  <2>5. FolderInv'
    BY <1>1, <2>1 DEF FolderInv, lvars
  <2>6. CommandInv'
    BY <1>1, <2>1 DEF CommandInv, StillThere, FilesOf, lvars
  <2> QED  BY <2>4, <2>5, <2>6 DEF Inv
<1>4. CASE ~ Unindexable /\ ~ TakesOver
  <2>1. vpc' = "verified" /\ UNCHANGED <<vtodo, vlist, vtemp, took, store>>
    BY <1>4 DEF VerifyChain
  <2>2. StoreInv'
    BY <1>1, <2>1, StoreUnchanged
  <2>3. FolderInv'
    BY <1>1, <2>1 DEF FolderInv, lvars
  <2>4. CommandInv'
    BY <1>1, <2>1 DEF CommandInv, StillThere, FilesOf, lvars
  <2> QED  BY <2>2, <2>3, <2>4 DEF Inv
<1> QED  BY <1>2, <1>3, <1>4

LEMMA OpenDirectoryKeeps ==
  ASSUME Inv, OpenDirectory
  PROVE  Inv'
<1>1. StoreInv'
  BY StoreUnchanged DEF Inv, OpenDirectory
<1>2. FolderInv'
  BY DEF Inv, FolderInv, OpenDirectory, FilesOf, lvars
<1>3. CommandInv'
  BY DEF Inv, CommandInv, OpenDirectory, lvars, store
<1> QED  BY <1>1, <1>2, <1>3 DEF Inv

LEMMA RemoveDirectoryKeeps ==
  ASSUME Inv, RemoveDirectory
  PROVE  Inv'
<1>1. /\ StoreInv /\ FolderInv /\ CommandInv /\ vpc = "clear"
      /\ UNCHANGED <<lvars, vtodo, vdir, quiet, store>>
  BY DEF Inv, RemoveDirectory
<1>2. StoreInv'
  BY <1>1, StoreUnchanged
<1>3. CASE vlist # {}
  <2>1. /\ UNCHANGED <<made, vpc, vtemp, took>>
        /\ \E i \in vlist : file' = [file EXCEPT ![vdir][i] = Absent] /\ vlist' = vlist \ {i}
    BY <1>3 DEF RemoveDirectory
  <2>2. PICK i \in vlist : file' = [file EXCEPT ![vdir][i] = Absent] /\ vlist' = vlist \ {i}
    BY <2>1
  <2>3. vdir \in Sender /\ i \in Number
    BY <1>1, <2>2 DEF FolderInv
  <2>4. file' \in [Sender -> [Number -> Content]]
    BY <1>1, <2>2, <2>3, NoContent, FileChanged
  <2>5. FolderInv'
    BY <1>1, <2>1, <2>2, <2>4 DEF FolderInv, lvars
  <2>6. CommandInv'
    BY <1>1, <2>1 DEF CommandInv, lvars, store
  <2> QED  BY <1>2, <2>5, <2>6 DEF Inv
<1>4. CASE vlist = {}
  <2>1. /\ made' = [made EXCEPT ![vdir] = @ /\ FilesOf(vdir) # {}]
        /\ vpc' = "next" /\ vtemp' = <<>> /\ took' = FALSE /\ UNCHANGED <<file, vlist, whole>>
    BY <1>4 DEF RemoveDirectory
  <2>2. made' \in [Sender -> BOOLEAN]
    BY <1>1, <2>1 DEF FolderInv
  <2>3. FolderInv'
    BY <1>1, <2>1, <2>2, EmptySeq DEF FolderInv, lvars
  <2>4. CommandInv'
    BY <1>1, <2>1 DEF CommandInv, lvars, store
  <2> QED  BY <1>2, <2>3, <2>4 DEF Inv
<1> QED  BY <1>3, <1>4

-----------------------------------------------------------------------------
(* Mining, saving, stopping and starting                                     *)

LEMMA MineKeeps ==
  ASSUME Inv, NEW l \in Own, Mine(l)
  PROVE  Inv'
<1>1. /\ StoreInv /\ FolderInv /\ CommandInv /\ vpc = "prompt" /\ SaveMinedBlock(l)
      /\ UNCHANGED <<made, file, lvars, vvars, whole, quiet>>
  BY DEF Inv, Mine
<1>2. StoreInv'
  BY <1>1, BlockMined
<1>3. FolderInv'
  BY <1>1 DEF FolderInv, lvars, vvars
<1>4. CommandInv'
  BY <1>1 DEF CommandInv, lvars, vvars
<1> QED  BY <1>2, <1>3, <1>4 DEF Inv

LEMMA SaveKeeps ==
  ASSUME Inv, Save
  PROVE  Inv'
<1>1. /\ StoreInv /\ FolderInv /\ CommandInv /\ SaveStep
      /\ UNCHANGED <<made, file, lvars, vvars, whole, quiet>>
  BY DEF Inv, Save
<1>2. StoreInv'
  BY <1>1, SaveGoesOn
<1>3. FolderInv'
  BY <1>1 DEF FolderInv, lvars, vvars
<1>4. job # "idle"
  BY <1>1 DEF SaveStep, DeleteFile, DeletedAll, OpenFile, DumpBlock, FinishSave
<1>5. CommandInv'
  BY <1>1, <1>4 DEF CommandInv, StillThere, FilesOf, lvars, vvars
<1> QED  BY <1>2, <1>3, <1>5 DEF Inv

LEMMA StopKeeps ==
  ASSUME Inv, Stop
  PROVE  Inv'
<1>1. StoreInv'
  BY StopLeavesPart DEF Inv, Stop, StopStore
<1>2. FolderInv'
  <2>1. lcount + Len(<<>>) <= MaxFile
    BY EmptySeq, LenProperties, NumberFacts DEF Inv, FolderInv
  <2> QED  BY <2>1, EmptySeq DEF Inv, FolderInv, Stop, LeaveCommand
<1>3. CommandInv'
  BY DEF CommandInv, Stop, LeaveCommand
<1> QED  BY <1>1, <1>2, <1>3 DEF Inv

LEMMA StartKeeps ==
  ASSUME Inv, Start
  PROVE  Inv'
<1>1. /\ StoreInv /\ FolderInv /\ CommandInv /\ StartStore /\ lpc = "off" /\ lpc' = "recv"
      /\ UNCHANGED <<made, file, lfrom, lchain, lcount, lopen, vvars, whole, quiet>>
  BY DEF Inv, Start
<1>2. StoreInv'
  BY <1>1, StartLoads
<1>3. FolderInv'
  BY <1>1 DEF FolderInv, vvars
<1>4. job' = job \/ job' = "idle"
  BY <1>1 DEF StartStore
<1>5. vpc = "prompt" \/ ~ quiet
  BY <1>1 DEF CommandInv
<1>6. CommandInv'
  BY <1>1, <1>4, <1>5, CommandWaits DEF vvars
<1> QED  BY <1>2, <1>3, <1>6 DEF Inv

LEMMA NextKeeps == Inv /\ [Next]_vars => Inv'
<1> SUFFICES ASSUME Inv, [Next]_vars PROVE Inv'
  OBVIOUS
<1>1. CASE \E s \in Sender, c \in Received : Receive(s, c)
  BY <1>1, ReceiveKeeps
<1>2. CASE Listener
  BY <1>2, ListenerKeeps
<1>3. CASE StartValidate
  BY <1>3, StartValidateKeeps
<1>4. CASE Validator
  BY <1>4, NextDirectoryKeeps, EndValidateKeeps, ListFilesKeeps, ReadFileKeeps,
     VerifyChainKeeps, OpenDirectoryKeeps, RemoveDirectoryKeeps DEF Validator
<1>5. CASE \E l \in Own : Mine(l)
  BY <1>5, MineKeeps
<1>6. CASE Save
  BY <1>6, SaveKeeps
<1>7. CASE Stop
  BY <1>7, StopKeeps
<1>8. CASE Start
  BY <1>8, StartKeeps
<1>9. CASE UNCHANGED vars
  <2>1. StoreInv'
    BY <1>9, StoreUnchanged DEF Inv, vars
  <2>2. FolderInv'
    BY <1>9 DEF Inv, FolderInv, vars, lvars, vvars
  <2>3. CommandInv'
    BY <1>9 DEF Inv, CommandInv, StillThere, vars, lvars, vvars, store, FilesOf
  <2> QED  BY <2>1, <2>2, <2>3 DEF Inv
<1> QED
  BY <1>1, <1>2, <1>3, <1>4, <1>5, <1>6, <1>7, <1>8, <1>9 DEF Next

THEOREM Inductive == Spec => []Inv
<1>1. Init => Inv
  BY InitInv
<1>2. Inv /\ [Next]_vars => Inv'
  BY NextKeeps
<1> QED  BY <1>1, <1>2, PTL DEF Spec

-----------------------------------------------------------------------------
(* The properties                                                            *)

\* Files of the pending folder are absent, torn or hold one block, and the counter the
\* listener names them by (network.py:165-175) stays in range for all of a message,
\* whatever the order and the gaps of its blocks.
THEOREM TypeCorrect == Spec => []TypeOK
<1>1. Inv => TypeOK
  BY DEF Inv, StoreInv, FolderInv, TypeOK
<1> QED  BY <1>1, Inductive, PTL

\* Whatever the listener writes while the command loop reads (network.py:161-175,
\* FullNode.py:376-404), and wherever the process stops, the chain in memory is
\* linked from genesis on.
THEOREM KeptChainIsLinked == Spec => []ValidIsLinked
<1>1. Inv => ValidIsLinked
  BY DEF Inv, StoreInv, Chain, ValidIsLinked
<1> QED  BY <1>1, Inductive, PTL

\* The blocks a taken-over chain brought are in the directory they came from until
\* valid_chain holds all of the new chain (FullNode.py:400-405).
THEOREM ReceivedStays == Spec => []ReceivedIsKept
<1>1. ASSUME Inv PROVE ReceivedIsKept
  <2> SUFFICES ASSUME took, quiet
               PROVE  \/ Loadable /\ Loaded = target
                      \/ StillThere
    BY DEF ReceivedIsKept, StillThere
  <2>1. vpc = "verified" \/ vpc = "clear"
    BY <1>1 DEF Inv, CommandInv
  <2>2. CASE vpc = "verified"
    BY <1>1, <2>2 DEF Inv, CommandInv
  <2>3. CASE vpc = "clear"
    <3>1. job = "idle"
      BY <1>1, <2>3 DEF Inv, CommandInv
    <3>2. Holds(mem) /\ target = mem /\ mem \in Chain
      BY <1>1, <3>1 DEF Inv, StoreInv
    <3> QED  BY <3>2, LoadsWhole
  <2> QED  BY <2>1, <2>2, <2>3
<1> QED  BY <1>1, Inductive, PTL

\* The directory is loaded only by a start and at the end of a save.
LEMMA OnlyLoads ==
  ASSUME Inv, [Next]_vars
  PROVE  /\ job = "stopped" /\ job' = "idle" => StartStore
         /\ job = "write" /\ job' = "idle" => FinishSave
<1>1. CASE (\E s \in Sender, c \in Received : Receive(s, c)) \/ StartValidate
  BY <1>1 DEF Receive, StartValidate, store
<1>2. CASE Listener
  BY <1>2, ListenerKeeps DEF store
<1>3. CASE Validator
  <2>1. CASE \E s \in Sender : NextDirectory(s)
    BY <2>1 DEF NextDirectory, store
  <2>2. CASE EndValidate \/ ReadFile \/ OpenDirectory
    BY <2>2 DEF EndValidate, ReadFile, OpenDirectory, store
  <2>3. CASE ListFiles \/ VerifyChain
    <3>1. job = "idle"
      BY <2>3 DEF Inv, CommandInv, ListFiles, VerifyChain
    <3> QED  BY <3>1
  <2>4. CASE RemoveDirectory
    BY <2>4 DEF RemoveDirectory, store
  <2> QED  BY <1>3, <2>1, <2>2, <2>3, <2>4 DEF Validator
<1>4. CASE \E l \in Own : Mine(l)
  BY <1>4 DEF Mine, SaveMinedBlock
<1>5. CASE Save
  BY <1>5 DEF Save, SaveStep, DeleteFile, DeletedAll, OpenFile, DumpBlock, FinishSave
<1>6. CASE Stop
  BY <1>6 DEF Stop, StopStore
<1>7. CASE Start
  BY <1>7 DEF Start, StartStore
<1>8. CASE UNCHANGED vars
  BY <1>8 DEF vars, store
<1> QED
  BY <1>1, <1>2, <1>3, <1>4, <1>5, <1>6, <1>7, <1>8 DEF Next

\* Wherever a save was stopped (util.py:56-75), a chain that loads afterwards is
\* a leading part of the one before or of the one that was being saved.
THEOREM StopLoadsOldOrNew == Spec => LoadsOldOrNew
<1>1. ASSUME Inv, [Next]_vars
      PROVE  [job = "stopped" /\ job' = "idle"
                => PrefixOf(mem', base) \/ PrefixOf(mem', target)]_store
  BY <1>1, OnlyLoads, StartLoads DEF Inv
<1> QED  BY <1>1, Inductive, PTL DEF Spec, LoadsOldOrNew

\* A save that was not stopped loads as the chain it was given.
THEOREM SaveLoadsTarget == Spec => SavedIsLoaded
<1>1. ASSUME Inv, [Next]_vars
      PROVE  [job = "write" /\ job' = "idle" => mem' = target]_store
  BY <1>1, OnlyLoads, SaveFinishes DEF Inv
<1> QED  BY <1>1, Inductive, PTL DEF Spec, SavedIsLoaded

-----------------------------------------------------------------------------
(* What is read while no message is handled                                  *)

\* The k-th file of a directory, and the blocks of all of them by their numbers.
FilesIn(f) == {i \in Number : f[i] # Absent}
Before(f, i) == {j \in FilesIn(f) : j < i}
Numbered(f, k) == CHOOSE i \in FilesIn(f) : Cardinality(Before(f, i)) = k - 1
Listing(f) == [k \in 1 .. Cardinality(FilesIn(f)) |-> f[Numbered(f, k)]]

\* The blocks read so far are those of the first files, in their order.
ReadInOrder ==
  /\ vlist \subseteq FilesIn(file[vdir])
  /\ \A i \in FilesIn(file[vdir]) \ vlist, j \in vlist : i < j
  /\ Len(vtemp) = Cardinality(FilesIn(file[vdir]) \ vlist)
  /\ \A k \in 1 .. Len(vtemp) : vtemp[k] = file[vdir][Numbered(file[vdir], k)]

\* A directory that was saved in full is as it was saved, and one that is being
\* saved has at most the open file torn.
ListenerWhole ==
  /\ whole = [s \in Sender |-> whole[s]]
  /\ lpc = "make" => FilesIn(file[lfrom]) = {}
  /\ lpc \in {"make", "write"} => whole[lfrom] = <<>>
  /\ lpc = "write" =>
       \A i \in Number : file[lfrom][i] = Torn => lopen /\ i = lcount
  /\ \A s \in Sender :
       whole[s] # <<>> => /\ whole[s] = Listing(file[s])
                          /\ \A i \in Number : file[s][i] # Torn

ReadWhole ==
  /\ vpc = "verified" => vlist = {}
  /\ vpc \in {"read", "verified"} /\ quiet /\ whole[vdir] # <<>> => ReadInOrder

WholeInv == ListenerWhole /\ ReadWhole

LEMMA NumbersFinite == \A S \in SUBSET Number : IsFiniteSet(S) /\ Cardinality(S) \in Nat
<1>1. IsFiniteSet(Number)
  BY NumberFacts, FirstNumbers DEF Number
<1> QED  BY <1>1, FS_Subset, FS_CardinalityType

\* No two files have the same number of others before them.
LEMMA NumberedIsUnique ==
  ASSUME NEW f, NEW i \in FilesIn(f)
  PROVE  Numbered(f, Cardinality(Before(f, i)) + 1) = i
<1>1. ASSUME NEW a \in FilesIn(f), NEW b \in FilesIn(f), a < b
      PROVE  Cardinality(Before(f, a)) # Cardinality(Before(f, b))
  <2>1. a \in Nat /\ b \in Nat
    BY NumberFacts DEF FilesIn
  <2>2. Before(f, a) \subseteq Before(f, b) /\ a \in Before(f, b) /\ a \notin Before(f, a)
    <3>1. \A j \in FilesIn(f) : j \in Nat
      BY NumberFacts DEF FilesIn
    <3>2. \A j \in FilesIn(f) : j < a => j < b
      BY <1>1, <2>1, <3>1
    <3>3. ~ (a < a)
      BY <2>1
    <3> QED  BY <1>1, <3>2, <3>3 DEF Before
  <2>3. IsFiniteSet(Before(f, b))
    <3>1. Before(f, b) \in SUBSET Number
      BY DEF Before, FilesIn
    <3> QED  BY <3>1, NumbersFinite
  <2> QED  BY <2>2, <2>3, FS_Subset
<1> DEFINE n == Cardinality(Before(f, i)) + 1
           m == Numbered(f, n)
<1>2. Cardinality(Before(f, i)) \in Nat
  <2>1. Before(f, i) \in SUBSET Number
    BY DEF Before, FilesIn
  <2> QED  BY <2>1, NumbersFinite
<1>3. Cardinality(Before(f, i)) = n - 1
  BY <1>2
<1>4. m \in FilesIn(f) /\ Cardinality(Before(f, m)) = n - 1
  <2> HIDE DEF n
  <2> QED  BY <1>3 DEF Numbered
<1> HIDE DEF m, n
<1>5. ~ (m < i) /\ ~ (i < m)
  BY <1>1, <1>3, <1>4
<1>6. m \in Nat /\ i \in Nat
  BY <1>4, NumberFacts DEF FilesIn
<1>7. m = i
  BY <1>5, <1>6
<1> QED  BY <1>7 DEF m, n

\* The next file read is the one after those read.
LEMMA ReadFileInOrder ==
  ASSUME Inv, ReadFile, ReadInOrder, \A j \in Number : file[vdir][j] # Torn
  PROVE  ReadInOrder'
<1> DEFINE i == Min(vlist)
           f == file[vdir]
           R == FilesIn(f) \ vlist
<1>1. /\ vlist # {} /\ vlist \in SUBSET Number /\ vlist' = vlist \ {i}
      /\ file' = file /\ vdir' = vdir /\ vtemp \in Seq(Path)
  BY DEF ReadFile, Inv, FolderInv
<1>2. i \in vlist /\ i \in Number
  BY <1>1, MinIsIn
<1>3. \A j \in vlist : i <= j
  <2>1. vlist \in SUBSET Nat
    BY <1>1, NumberFacts
  <2>2. \E k \in vlist : \A j \in vlist : k <= j
    BY <1>1, <2>1, LeastNatural
  <2> QED  BY <2>2 DEF Min
<1>4. vtemp' = IF f[i] \in {Absent, Torn} THEN vtemp ELSE Append(vtemp, f[i])
  BY DEF ReadFile
<1> HIDE DEF i
<1>5. /\ vlist \subseteq FilesIn(f) /\ \A a \in R, b \in vlist : a < b
      /\ Len(vtemp) = Cardinality(R)
      /\ \A k \in 1 .. Len(vtemp) : vtemp[k] = f[Numbered(f, k)]
  BY DEF ReadInOrder
<1>6. f \in [Number -> Content] /\ i \in FilesIn(f) /\ f[i] \in Path
  <2>1. f \in [Number -> Content]
    BY DEF Inv, FolderInv
  <2> QED  BY <1>2, <1>5, <2>1 DEF FilesIn, Content
<1>7. vtemp' = Append(vtemp, f[i])
  BY <1>2, <1>4, <1>6, NoBlock
<1> HIDE DEF f
<1>8. FilesIn(f) \ vlist' = R \cup {i} /\ i \notin R /\ R \in SUBSET Number
  BY <1>1, <1>2, <1>6 DEF FilesIn
<1>9. Before(f, i) = R
  <2>1. \A j \in FilesIn(f) : j \in Nat
    BY NumberFacts DEF FilesIn
  <2>2. \A j \in FilesIn(f) : j < i <=> j \notin vlist
    BY <1>2, <1>3, <1>5, <2>1, NumberFacts
  <2> QED  BY <2>2 DEF Before
<1>10. Numbered(f, Len(vtemp) + 1) = i
  BY <1>5, <1>6, <1>9, NumberedIsUnique
<1>11. Cardinality(R \cup {i}) = Cardinality(R) + 1 /\ Cardinality(R) \in Nat
  BY <1>8, NumbersFinite, FS_AddElement
<1>12. /\ Len(vtemp') = Len(vtemp) + 1
       /\ \A k \in 1 .. Len(vtemp) : vtemp'[k] = vtemp[k]
       /\ vtemp'[Len(vtemp) + 1] = f[i]
  BY <1>1, <1>6, <1>7, AppendProperties
<1>13. ASSUME NEW a \in FilesIn(f) \ vlist', NEW b \in vlist' PROVE a < b
  <2>1. b \in vlist /\ b # i /\ i <= b /\ b \in Nat /\ i \in Nat
    BY <1>1, <1>2, <1>3, NumberFacts
  <2>2. a \in R \/ a = i
    BY <1>8
  <2>3. CASE a \in R
    BY <1>5, <2>1, <2>3
  <2>4. CASE a = i
    BY <2>1, <2>4
  <2> QED  BY <2>2, <2>3, <2>4
<1>14. ASSUME NEW k \in 1 .. Len(vtemp') PROVE vtemp'[k] = f[Numbered(f, k)]
  <2>1. CASE k = Len(vtemp) + 1
    BY <1>10, <1>12, <2>1
  <2>2. CASE k # Len(vtemp) + 1
    <3>1. k \in 1 .. Len(vtemp)
      BY <1>5, <1>11, <1>12, <2>2
    <3> QED  BY <1>5, <1>12, <3>1
  <2> QED  BY <2>1, <2>2
<1>15. /\ vlist' \subseteq FilesIn(f)
       /\ Len(vtemp') = Cardinality(FilesIn(f) \ vlist')
  BY <1>1, <1>5, <1>8, <1>11, <1>12
<1>16. f = file[vdir] /\ file[vdir]' = f
  BY <1>1 DEF f
<1> QED  BY <1>13, <1>14, <1>15, <1>16 DEF ReadInOrder

\* The operators above take a step with their arguments.
LEMMA WholeNext ==
  ASSUME whole' = [s \in Sender |-> whole'[s]],
         lpc' = "make" => FilesIn(file'[lfrom']) = {},
         lpc' \in {"make", "write"} => whole'[lfrom'] = <<>>,
         lpc' = "write" =>
           \A i \in Number : file'[lfrom'][i] = Torn => lopen' /\ i = lcount',
         \A s \in Sender :
           whole'[s] # <<>> => /\ whole'[s] = Listing(file'[s])
                               /\ \A i \in Number : file'[s][i] # Torn
  PROVE  ListenerWhole'
<1>1. FilesIn(file[lfrom])' = FilesIn(file'[lfrom'])
  BY DEF FilesIn
<1>2. ASSUME NEW s \in Sender PROVE Listing(file[s])' = Listing(file'[s])
  BY DEF Listing, Numbered, Before, FilesIn
<1> QED  BY <1>1, <1>2 DEF ListenerWhole

\* Steps that leave the folder and the listener alone.
LEMMA FolderAlone ==
  ASSUME ListenerWhole, UNCHANGED <<file, lfrom, whole>>,
         lpc' \notin {"make", "write"} \/ (lpc' = lpc /\ UNCHANGED <<lcount, lopen>>)
  PROVE  ListenerWhole'
<1>1. /\ file' = file /\ lfrom' = lfrom /\ whole' = whole
  OBVIOUS
<1> QED  BY <1>1, WholeNext DEF ListenerWhole

\* One file of one directory goes: what the directory was saved as is forgotten.
LEMMA FileGone ==
  ASSUME Inv, ListenerWhole, NEW s \in Sender, NEW i \in Number,
         file' = [file EXCEPT ![s][i] = Absent], whole' = [whole EXCEPT ![s] = <<>>],
         UNCHANGED <<lpc, lfrom, lcount, lopen>>
  PROVE  ListenerWhole'
<1>1. file \in [Sender -> [Number -> Content]] /\ lfrom \in Sender
  BY DEF Inv, FolderInv
<1>2. \A t \in Sender, j \in Number :
        file'[t][j] = IF t = s /\ j = i THEN Absent ELSE file[t][j]
  BY <1>1
<1>3. \A t \in Sender : t # s => file'[t] = file[t]
  BY <1>1
<1>4. /\ whole' = [t \in Sender |-> whole'[t]]
      /\ \A t \in Sender : whole'[t] = IF t = s THEN <<>> ELSE whole[t]
  BY DEF ListenerWhole
<1>5. lpc = "make" => FilesIn(file'[lfrom]) = {}
  BY <1>1, <1>2 DEF ListenerWhole, FilesIn
<1>6. lpc \in {"make", "write"} => whole'[lfrom] = <<>>
  BY <1>1, <1>4 DEF ListenerWhole
<1>7. lpc = "write" =>
        \A j \in Number : file'[lfrom][j] = Torn => lopen /\ j = lcount
  <2>1. Absent # Torn
    BY DEF Absent, Torn
  <2> QED  BY <1>1, <1>2, <2>1 DEF ListenerWhole
<1>8. ASSUME NEW t \in Sender, whole'[t] # <<>>
      PROVE  whole'[t] = Listing(file'[t]) /\ \A j \in Number : file'[t][j] # Torn
  BY <1>3, <1>4, <1>8 DEF ListenerWhole
<1> QED  BY <1>4, <1>5, <1>6, <1>7, <1>8, WholeNext

\* The listener changes a file of the directory it has emptied.
LEMMA FileWritten ==
  ASSUME Inv, ListenerWhole, lpc = "write", NEW i \in Number, NEW v \in Content,
         file' = [file EXCEPT ![lfrom][i] = v],
         UNCHANGED <<lfrom, whole>>, lpc' = "write",
         v = Torn => lopen' /\ i = lcount',
         lopen => i = lcount
  PROVE  ListenerWhole'
<1>1. file \in [Sender -> [Number -> Content]] /\ lfrom \in Sender /\ whole[lfrom] = <<>>
  BY DEF Inv, FolderInv, ListenerWhole
<1>2. \A j \in Number : file'[lfrom][j] = IF j = i THEN v ELSE file[lfrom][j]
  BY <1>1
<1>3. \A t \in Sender : t # lfrom => file'[t] = file[t]
  BY <1>1
<1>4. \A j \in Number : file'[lfrom][j] = Torn => lopen' /\ j = lcount'
  BY <1>2 DEF ListenerWhole
<1>5. ASSUME NEW t \in Sender, whole'[t] # <<>>
      PROVE  whole'[t] = Listing(file'[t]) /\ \A j \in Number : file'[t][j] # Torn
  BY <1>1, <1>3, <1>5 DEF ListenerWhole
<1>6. whole' = [t \in Sender |-> whole'[t]]
  BY DEF ListenerWhole
<1> QED  BY <1>1, <1>4, <1>5, <1>6, WholeNext

LEMMA ListenerLeavesWhole ==
  ASSUME Inv, ListenerWhole, Listener
  PROVE  ListenerWhole'
<1>1. lfrom \in Sender /\ FolderInv
  BY DEF Inv, FolderInv
<1>2. CASE ListenerClear
  <2>1. UNCHANGED <<lfrom, lcount, lopen>> /\ whole' = [whole EXCEPT ![lfrom] = <<>>]
    BY <1>2 DEF ListenerClear
  <2>2. CASE \E i \in FilesOf(lfrom) :
               file' = [file EXCEPT ![lfrom][i] = Absent] /\ lpc' = lpc
    <3>1. PICK i \in Number : file' = [file EXCEPT ![lfrom][i] = Absent]
      BY <2>2 DEF FilesOf
    <3> QED  BY <1>1, <2>1, <2>2, <3>1, FileGone
  <2>3. CASE FilesOf(lfrom) = {} /\ lpc' = "make" /\ file' = file
    <3>1. \A t \in Sender : whole'[t] = IF t = lfrom THEN <<>> ELSE whole[t]
      BY <2>1 DEF ListenerWhole
    <3>2. whole' = [t \in Sender |-> whole'[t]]
      BY <2>1 DEF ListenerWhole
    <3>3. FilesIn(file[lfrom]) = {}
      BY <2>3 DEF FilesIn, FilesOf
    <3>4. ASSUME NEW t \in Sender, whole'[t] # <<>>
          PROVE  whole'[t] = Listing(file[t]) /\ \A j \in Number : file[t][j] # Torn
      BY <3>1, <3>4 DEF ListenerWhole
    <3> QED  BY <1>1, <2>1, <2>3, <3>1, <3>2, <3>3, <3>4, WholeNext
  <2> QED  BY <1>2, <2>2, <2>3 DEF ListenerClear
<1>3. CASE ListenerMake
  <2>1. /\ lpc = "make" /\ lpc' = "write"
        /\ UNCHANGED <<file, lfrom, lcount, lopen, whole>>
    BY <1>3 DEF ListenerMake
  <2>2. \A j \in Number : file[lfrom][j] # Torn
    BY <2>1 DEF ListenerWhole, FilesIn, Absent, Torn
  <2> QED  BY <2>1, <2>2, WholeNext DEF ListenerWhole
<1>4. CASE ListenerOpen
  <2>1. CASE made[lfrom]
    <3>1. /\ lpc = "write" /\ ~ lopen /\ lchain # <<>> /\ lpc' = lpc
          /\ lopen' = TRUE /\ UNCHANGED <<lfrom, lcount, whole>>
          /\ file' = [file EXCEPT ![lfrom][lcount] = Torn]
      BY <1>4, <2>1 DEF ListenerOpen
    <3>2. lcount \in Number
      BY <1>1, <3>1, NextFile
    <3> QED  BY <3>1, <3>2, NoContent, FileWritten
  <2>2. CASE ~ made[lfrom]
    <3>1. lpc' = "recv" /\ UNCHANGED <<file, lfrom, whole>>
      BY <1>4, <2>2 DEF ListenerOpen
    <3> QED  BY <3>1, FolderAlone
  <2> QED  BY <2>1, <2>2
<1>5. CASE ListenerDump
  <2> DEFINE i == lcount
  <2>1. /\ lpc = "write" /\ lopen /\ lpc' = lpc /\ lopen' = FALSE
        /\ UNCHANGED <<lfrom, whole>>
        /\ file' = IF file[lfrom][i] = Absent THEN file
                   ELSE [file EXCEPT ![lfrom][i] = lchain[1]]
    BY <1>5 DEF ListenerDump
  <2>2. lchain[1] \in Path /\ i \in Number
    BY <1>1, <2>1, NextFile DEF FolderInv
  <2>3. CASE file[lfrom][i] = Absent
    <3>1. Absent # Torn
      BY DEF Absent, Torn
    <3>2. \A j \in Number : file[lfrom][j] # Torn
      BY <2>1, <2>3, <3>1 DEF ListenerWhole
    <3>3. file' = file /\ lfrom' = lfrom /\ whole' = whole /\ lpc' = "write" /\ lpc = "write"
      BY <2>1, <2>3
    <3> QED  BY <3>2, <3>3, WholeNext DEF ListenerWhole
  <2>4. CASE file[lfrom][i] # Absent
    <3>1. lchain[1] \in Content /\ lchain[1] # Torn
      BY <2>2, NoBlock DEF Content
    <3>2. file' = [file EXCEPT ![lfrom][i] = lchain[1]]
      BY <2>1, <2>4
    <3> QED  BY <2>1, <2>2, <3>1, <3>2, FileWritten
  <2> QED  BY <2>3, <2>4
<1>6. CASE ListenerDone
  <2>1. /\ lpc = "write" /\ lchain = <<>> /\ lpc' = "recv"
        /\ UNCHANGED <<file, lfrom, lcount, lopen>>
    BY <1>6 DEF ListenerDone
  <2>2. \A j \in Number : file[lfrom][j] # Torn
    BY <1>1, <2>1 DEF ListenerWhole, FolderInv
  <2>3. whole' = [whole EXCEPT ![lfrom] = Listing(file[lfrom])]
    BY <1>6 DEF ListenerDone, Listing, Numbered, Before, FilesIn, FilesOf
  <2>4. /\ whole' = [t \in Sender |-> whole'[t]]
        /\ \A t \in Sender :
             whole'[t] = IF t = lfrom THEN Listing(file[lfrom]) ELSE whole[t]
    BY <1>1, <2>3 DEF ListenerWhole
  <2>5. ASSUME NEW t \in Sender, whole'[t] # <<>>
        PROVE  whole'[t] = Listing(file[t]) /\ \A j \in Number : file[t][j] # Torn
    BY <2>2, <2>4, <2>5 DEF ListenerWhole
  <2> QED  BY <2>1, <2>4, <2>5, WholeNext
<1> QED  BY <1>2, <1>3, <1>4, <1>5, <1>6 DEF Listener

LEMMA ReadInOrderStays ==
  ASSUME ReadInOrder, UNCHANGED <<file, vdir, vlist, vtemp>>
  PROVE  ReadInOrder'
<1> DEFINE f == file[vdir]
<1>1. f = file[vdir] /\ file[vdir]' = f
  OBVIOUS
<1> HIDE DEF f
<1> QED  BY <1>1 DEF ReadInOrder

\* Steps that leave alone what was read, what is to be read and the directory.
LEMMA ReadAlone ==
  ASSUME ReadWhole, UNCHANGED <<file, whole, vdir, vlist, vtemp, vpc>>, quiet' => quiet
  PROVE  ReadWhole'
<1>1. ReadInOrder => ReadInOrder'
  BY ReadInOrderStays
<1> QED  BY <1>1 DEF ReadWhole

LEMMA ListFilesInOrder ==
  ASSUME vtemp' = <<>>, vlist' = FilesOf(vdir), UNCHANGED <<file, vdir>>
  PROVE  ReadInOrder'
<1>1. FilesIn(file[vdir])' = FilesIn(file[vdir]) /\ FilesIn(file[vdir]) = FilesOf(vdir)
  BY DEF FilesIn, FilesOf
<1>2. Cardinality(FilesIn(file[vdir]) \ vlist)' = 0
  <2>1. (FilesIn(file[vdir]) \ vlist)' = {}
    BY <1>1
  <2> QED  BY <2>1, FS_EmptySet
<1> QED  BY <1>1, <1>2, EmptySeq DEF ReadInOrder

LEMMA CommandsLeaveWhole ==
  ASSUME Inv, WholeInv, StartValidate \/ Validator
  PROVE  WholeInv'
<1>1. /\ ListenerWhole /\ ReadWhole /\ CommandInv /\ FolderInv /\ UNCHANGED lvars
  BY DEF Inv, WholeInv, StartValidate, Validator, NextDirectory, EndValidate, ListFiles,
         ReadFile, VerifyChain, OpenDirectory, RemoveDirectory
<1>2. CASE StartValidate \/ EndValidate \/ OpenDirectory \/ \E s \in Sender : NextDirectory(s)
  <2>1. UNCHANGED <<file, whole>> /\ vpc' \notin {"read", "verified"}
    BY <1>2 DEF StartValidate, EndValidate, OpenDirectory, NextDirectory
  <2>2. ListenerWhole'
    BY <1>1, <2>1, FolderAlone DEF lvars
  <2> QED  BY <2>1, <2>2 DEF WholeInv, ReadWhole
<1>3. CASE ListFiles
  <2>1. /\ UNCHANGED <<file, whole, vdir>> /\ vtemp = <<>>
        /\ \/ vpc' = "read" /\ vlist' = FilesOf(vdir) /\ vtemp' = vtemp
           \/ vpc' = "prompt"
    BY <1>1, <1>3 DEF ListFiles, CommandInv, Raise, LeaveCommand
  <2>2. ListenerWhole'
    BY <1>1, <2>1, FolderAlone DEF lvars
  <2>3. vpc' = "read" => ReadInOrder'
    BY <2>1, ListFilesInOrder
  <2> QED  BY <2>1, <2>2, <2>3 DEF WholeInv, ReadWhole
<1>4. CASE ReadFile
  <2>1. UNCHANGED <<file, whole, vdir, quiet, vpc>> /\ vpc = "read"
    BY <1>4 DEF ReadFile
  <2>2. ListenerWhole'
    BY <1>1, <2>1, FolderAlone DEF lvars
  <2>3. ASSUME quiet, whole[vdir] # <<>> PROVE ReadInOrder'
    <3>1. ReadInOrder
      BY <1>1, <2>1, <2>3 DEF ReadWhole
    <3>2. \A j \in Number : file[vdir][j] # Torn
      BY <1>1, <2>3 DEF ListenerWhole, FolderInv
    <3> QED  BY <1>4, <3>1, <3>2, ReadFileInOrder
  <2> QED  BY <2>1, <2>2, <2>3 DEF WholeInv, ReadWhole
<1>5. CASE VerifyChain
  <2>1. UNCHANGED <<file, whole, vdir, quiet>> /\ vpc = "read" /\ vlist = {}
    BY <1>5 DEF VerifyChain
  <2>2. ListenerWhole'
    BY <1>1, <2>1, FolderAlone DEF lvars
  <2>3. (vpc' = "verified" /\ vlist' = vlist /\ vtemp' = vtemp) \/ vpc' = "prompt"
    BY <1>5 DEF VerifyChain, Raise, LeaveCommand
  <2>4. vpc' = "verified" /\ ReadInOrder => ReadInOrder'
    BY <2>1, <2>3, ReadInOrderStays
  <2> QED  BY <1>1, <2>1, <2>2, <2>3, <2>4 DEF WholeInv, ReadWhole
<1>6. CASE RemoveDirectory
  <2>1. vpc' \notin {"read", "verified"} /\ vdir \in Sender
    BY <1>1, <1>6 DEF RemoveDirectory, FolderInv
  <2>2. CASE vlist # {}
    <3>1. PICK i \in vlist :
            /\ file' = [file EXCEPT ![vdir][i] = Absent]
            /\ whole' = [whole EXCEPT ![vdir] = IF file[vdir][i] # Absent THEN <<>> ELSE @]
      BY <1>6, <2>2 DEF RemoveDirectory
    <3>2. i \in Number
      BY <1>1 DEF FolderInv
    <3>3. CASE file[vdir][i] # Absent
      <4>1. whole' = [whole EXCEPT ![vdir] = <<>>]
        BY <3>1, <3>3
      <4>2. ListenerWhole'
        BY <1>1, <2>1, <3>1, <3>2, <4>1, FileGone DEF lvars
      <4> QED  BY <2>1, <4>2 DEF WholeInv, ReadWhole
    <3>4. CASE file[vdir][i] = Absent
      <4>1. file' = file
        BY <1>1, <2>1, <3>1, <3>2, <3>4 DEF FolderInv
      <4>2. whole' = whole
        BY <1>1, <2>1, <3>1, <3>4 DEF ListenerWhole
      <4>3. ListenerWhole'
        BY <1>1, <4>1, <4>2, FolderAlone DEF lvars
      <4> QED  BY <2>1, <4>3 DEF WholeInv, ReadWhole
    <3> QED  BY <3>3, <3>4
  <2>3. CASE vlist = {}
    <3>1. UNCHANGED <<file, whole>>
      BY <1>6, <2>3 DEF RemoveDirectory
    <3>2. ListenerWhole'
      BY <1>1, <3>1, FolderAlone DEF lvars
    <3> QED  BY <2>1, <3>2 DEF WholeInv, ReadWhole
  <2> QED  BY <2>2, <2>3
<1> QED  BY <1>2, <1>3, <1>4, <1>5, <1>6 DEF Validator

LEMMA WholeKept == Inv /\ WholeInv /\ [Next]_vars => WholeInv'
<1> SUFFICES ASSUME Inv, WholeInv, [Next]_vars PROVE WholeInv'
  OBVIOUS
<1>1. ListenerWhole /\ ReadWhole /\ CommandInv
  BY DEF Inv, WholeInv
<1>2. CASE \E s \in Sender, c \in Received : Receive(s, c)
  <2>1. /\ UNCHANGED <<file, whole, vdir, vlist, vtemp, vpc>>
        /\ quiet' = FALSE /\ lpc' = "clear"
    BY <1>2 DEF Receive, vvars
  <2>2. ReadWhole'
    BY <1>1, <2>1, ReadAlone
  <2>3. ListenerWhole'
    <3>1. UNCHANGED <<file, whole>> /\ lpc' \notin {"make", "write"}
      BY <2>1
    <3>2. /\ whole' = [s \in Sender |-> whole'[s]]
          /\ \A s \in Sender :
               whole'[s] # <<>> => /\ whole'[s] = Listing(file'[s])
                                   /\ \A i \in Number : file'[s][i] # Torn
      BY <1>1, <3>1 DEF ListenerWhole
    <3> QED  BY <3>1, <3>2, WholeNext
  <2> QED  BY <2>2, <2>3 DEF WholeInv
<1>3. CASE Listener
  <2>1. ListenerWhole'
    BY <1>1, <1>3, ListenerLeavesWhole
  <2>2. vpc' = vpc /\ quiet' = quiet /\ vlist' \in {vlist, {}} /\ lpc # "recv"
    BY <1>3 DEF Listener, ListenerClear, ListenerMake, ListenerOpen, ListenerDump,
                ListenerDone, vvars
  <2>3. vpc = "prompt" \/ ~ quiet
    BY <1>1, <2>2 DEF CommandInv
  <2> QED  BY <1>1, <2>1, <2>2, <2>3 DEF WholeInv, ReadWhole
<1>4. CASE StartValidate \/ Validator
  BY <1>4, CommandsLeaveWhole
<1>5. CASE (\E l \in Own : Mine(l)) \/ Save \/ UNCHANGED vars
  <2>1. UNCHANGED <<file, whole, lvars, vdir, vlist, vtemp, vpc, quiet>>
    BY <1>5 DEF Mine, Save, vars, vvars
  <2>2. ReadWhole'
    BY <1>1, <2>1, ReadAlone
  <2>3. ListenerWhole'
    BY <1>1, <2>1, FolderAlone DEF lvars
  <2> QED  BY <2>2, <2>3 DEF WholeInv
<1>6. CASE Stop
  <2>1. UNCHANGED <<file, whole, lfrom>> /\ vpc' = "prompt" /\ lpc' = "off"
    BY <1>6 DEF Stop, LeaveCommand
  <2>2. ListenerWhole'
    BY <1>1, <2>1, FolderAlone
  <2> QED  BY <2>1, <2>2 DEF WholeInv, ReadWhole
<1>7. CASE Start
  <2>1. UNCHANGED <<file, whole, lfrom, vdir, vlist, vtemp, vpc, quiet>> /\ lpc' = "recv"
    BY <1>7 DEF Start, vvars
  <2>2. ReadWhole'
    BY <1>1, <2>1, ReadAlone
  <2>3. ListenerWhole'
    BY <1>1, <2>1, FolderAlone
  <2> QED  BY <2>2, <2>3 DEF WholeInv
<1> QED  BY <1>2, <1>3, <1>4, <1>5, <1>6, <1>7 DEF Next

\* With no message handled in between, the blocks "validate" verifies are the
\* directory as it was saved, in the order of their numbers (FullNode.py:379-395).
THEOREM QuietReadIsWhole == Spec => []QuietReadsWhole
<1>1. Init => WholeInv
  <2> SUFFICES ASSUME Init PROVE WholeInv
    OBVIOUS
  <2>1. ListenerWhole
    BY DEF Init, ListenerWhole
  <2>2. ReadWhole
    BY DEF Init, ReadWhole
  <2> QED  BY <2>1, <2>2 DEF WholeInv
<1>2. Inv /\ WholeInv /\ [Next]_vars => WholeInv'
  BY WholeKept
<1>3. ASSUME Inv, WholeInv PROVE QuietReadsWhole
  <2> SUFFICES ASSUME vpc = "verified", quiet, whole[vdir] # <<>>
               PROVE  vtemp = whole[vdir]
    BY DEF QuietReadsWhole
  <2> DEFINE f == file[vdir]
  <2>1. vlist = {} /\ ReadInOrder
    BY <1>3 DEF WholeInv, ReadWhole
  <2>2. vdir \in Sender /\ vtemp \in Seq(Path)
    BY <1>3 DEF Inv, FolderInv
  <2>3. whole[vdir] = Listing(f)
    BY <1>3, <2>2 DEF WholeInv, ListenerWhole
  <2>4. /\ Len(vtemp) = Cardinality(FilesIn(f))
        /\ \A k \in 1 .. Len(vtemp) : vtemp[k] = f[Numbered(f, k)]
    <3>1. FilesIn(f) \ vlist = FilesIn(f)
      BY <2>1
    <3> QED  BY <2>1, <3>1 DEF ReadInOrder
  <2> HIDE DEF f
  <2>5. vtemp = [k \in 1 .. Len(vtemp) |-> vtemp[k]]
    BY <2>2, LenProperties
  <2> QED  BY <2>3, <2>4, <2>5 DEF Listing
<1> QED  BY <1>1, <1>2, <1>3, Inductive, PTL DEF Spec

-----------------------------------------------------------------------------
(* What is removed while no message is handled                               *)

\* What is removed was verified: the directory as it was saved, or what is left of it.
ClearedWhole == vpc = "clear" /\ quiet /\ whole[vdir] # <<>> => vtemp = whole[vdir]

QuietRemovalIsVerified ==
  [][\A s \in Sender :
       vpc = "clear" /\ quiet /\ whole[s] # <<>> /\ whole'[s] = <<>>
         => vtemp = whole[s]]_vars

LEMMA ClearedWholeNext ==
  ASSUME Inv, WholeInv, QuietReadsWhole, ClearedWhole, [Next]_vars
  PROVE  ClearedWhole'
<1>1. /\ CommandInv /\ vdir \in Sender /\ whole = [s \in Sender |-> whole[s]]
  BY DEF Inv, FolderInv, WholeInv, ListenerWhole
<1>2. CASE \E s \in Sender, c \in Received : Receive(s, c)
  BY <1>2 DEF Receive, ClearedWhole
<1>3. CASE Listener
  <2>1. vpc' = vpc /\ quiet' = quiet /\ lpc # "recv"
    BY <1>3 DEF Listener, ListenerClear, ListenerMake, ListenerOpen, ListenerDump,
                ListenerDone, vvars
  <2> QED  BY <1>1, <2>1 DEF CommandInv, ClearedWhole
<1>4. CASE OpenDirectory
  BY <1>4 DEF OpenDirectory, QuietReadsWhole, ClearedWhole
<1>5. CASE RemoveDirectory
  <2>1. CASE vlist # {}
    <3>1. /\ UNCHANGED <<vdir, vtemp, quiet>> /\ vpc = "clear"
          /\ whole'[vdir] \in {whole[vdir], <<>>}
      BY <1>1, <1>5, <2>1 DEF RemoveDirectory
    <3> QED  BY <3>1 DEF ClearedWhole
  <2>2. CASE vlist = {}
    BY <1>5, <2>2 DEF RemoveDirectory, ClearedWhole
  <2> QED  BY <2>1, <2>2
<1>6. CASE \/ StartValidate \/ EndValidate \/ ListFiles \/ ReadFile \/ VerifyChain
           \/ \E s \in Sender : NextDirectory(s)
  <2>1. vpc' # "clear"
    BY <1>6 DEF StartValidate, EndValidate, ListFiles, ReadFile, VerifyChain, NextDirectory,
                Raise, LeaveCommand
  <2> QED  BY <2>1 DEF ClearedWhole
<1>7. CASE (\E l \in Own : Mine(l)) \/ Save \/ Start \/ UNCHANGED vars
  BY <1>7 DEF Mine, Save, Start, vars, vvars, ClearedWhole
<1>8. CASE Stop
  BY <1>8 DEF Stop, LeaveCommand, ClearedWhole
<1> QED  BY <1>2, <1>3, <1>4, <1>5, <1>6, <1>7, <1>8 DEF Next, Validator

\* With no message handled since "validate" began, it "calls verify_chain method on each
\* chain" (FullNode.py:365) that it then removes.  Without that condition it does not:
\* the listener may write between the reading and the removal.
THEOREM QuietRemoval == Spec => QuietRemovalIsVerified
<1>1. Init => WholeInv /\ ClearedWhole
  BY DEF Init, WholeInv, ListenerWhole, ReadWhole, ClearedWhole
<1>2. Inv /\ WholeInv /\ [Next]_vars => WholeInv'
  BY WholeKept
<1>3. Inv /\ WholeInv /\ QuietReadsWhole /\ ClearedWhole /\ [Next]_vars => ClearedWhole'
  BY ClearedWholeNext
<1>4. ASSUME Inv, WholeInv, ClearedWhole, [Next]_vars
      PROVE  [\A s \in Sender :
                vpc = "clear" /\ quiet /\ whole[s] # <<>> /\ whole'[s] = <<>>
                  => vtemp = whole[s]]_vars
  <2> SUFFICES ASSUME NEW s \in Sender,
                      vpc = "clear", quiet, whole[s] # <<>>, whole'[s] = <<>>
               PROVE  vtemp = whole[s]
    OBVIOUS
  <2>1. lpc = "recv" /\ vdir \in Sender /\ whole = [t \in Sender |-> whole[t]]
    BY <1>4 DEF Inv, CommandInv, FolderInv, WholeInv, ListenerWhole
  <2>2. ~ Listener
    BY <2>1 DEF Listener, ListenerClear, ListenerMake, ListenerOpen, ListenerDump, ListenerDone
  <2>3. RemoveDirectory \/ whole' = whole
    BY <1>4, <2>2
    DEF Next, Validator, Receive, StartValidate, NextDirectory, EndValidate, ListFiles,
        ReadFile, VerifyChain, OpenDirectory, Mine, Save, Stop, Start, vars
  <2>4. s = vdir
    BY <2>1, <2>3 DEF RemoveDirectory
  <2> QED  BY <1>4, <2>4 DEF ClearedWhole
<1> QED
  BY <1>1, <1>2, <1>3, <1>4, Inductive, QuietReadIsWhole, PTL
  DEF Spec, QuietRemovalIsVerified

-----------------------------------------------------------------------------
(* How much of a save and of "validate" is left                              *)

\* Steps a save still takes: files to remove, then two steps for each file to write.
SaveLeft ==
  CASE job = "delete" -> Cardinality(Files) + 2 * Len(target) + 2
    [] job = "write" -> 2 * (Len(target) - next) + (IF open THEN 0 ELSE 1)
    [] OTHER -> 0

SaveShrinks ==
  [][(job \in {"delete", "write"}) => (store' = store) \/ (SaveLeft' < SaveLeft)]_vars

LEMMA SaveFacts ==
  ASSUME Inv
  PROVE  /\ Len(target) \in Nat /\ next \in Nat
         /\ Cardinality(Files) \in Nat /\ IsFiniteSet(Files)
         /\ job = "write" => next <= Len(target) /\ (open => next < Len(target))
<1>1. target \in Chain
  BY DEF Inv, StoreInv
<1>2. Len(target) \in Nat /\ next \in Nat
  BY <1>1, ChainFacts, Bound DEF Inv, StoreInv, StoreTypeOK
<1>3. Cardinality(Files) \in Nat /\ IsFiniteSet(Files)
  BY CountFacts DEF Count
<1> QED  BY <1>2, <1>3 DEF Inv, StoreInv, Writing

LEMMA SaveLeftIsNat ==
  ASSUME Inv
  PROVE  /\ SaveLeft \in Nat
         /\ job \in {"delete", "write"} => SaveLeft > 0
<1>1. CASE job = "delete"
  BY <1>1, SaveFacts DEF SaveLeft
<1>2. CASE job = "write"
  <2>1. 2 * (Len(target) - next) \in Nat
    BY <1>2, SaveFacts
  <2>2. CASE open
    <3>1. Len(target) - next >= 1
      BY <1>2, <2>2, SaveFacts
    <3> QED  BY <1>2, <2>2, <3>1, SaveFacts DEF SaveLeft
  <2>3. CASE ~ open
    BY <1>2, <2>1, <2>3 DEF SaveLeft
  <2> QED  BY <2>2, <2>3
<1>3. CASE job \notin {"delete", "write"}
  BY <1>3 DEF SaveLeft
<1> QED  BY <1>1, <1>2, <1>3

LEMMA SaveStepShrinks ==
  ASSUME Inv, SaveStep
  PROVE  SaveLeft' < SaveLeft
<1> USE SaveFacts
<1>1. ASSUME NEW i \in Slot, DeleteFile(i) PROVE SaveLeft' < SaveLeft
  <2>1. /\ job = "delete" /\ job' = "delete" /\ target' = target /\ i \in Files
        /\ dir' = [dir EXCEPT ![i] = Absent] /\ dir \in [Slot -> Content]
    BY <1>1 DEF DeleteFile, Files, Inv, StoreInv, StoreTypeOK
  <2>2. Files' = Files \ {i}
    BY <2>1 DEF Files
  <2>3. Cardinality(Files \ {i}) = Cardinality(Files) - 1
    BY <2>1, FS_RemoveElement
  <2>4. /\ SaveLeft = Cardinality(Files) + 2 * Len(target) + 2
        /\ SaveLeft' = Cardinality(Files') + 2 * Len(target) + 2
    BY <2>1 DEF SaveLeft
  <2> QED  BY <2>2, <2>3, <2>4
<1>2. ASSUME DeletedAll PROVE SaveLeft' < SaveLeft
  <2>1. /\ job = "delete" /\ job' = "write" /\ target' = target /\ next' = 0 /\ open' = open
    BY <1>2 DEF DeletedAll, Inv, StoreInv, Deleting
  <2>2. /\ SaveLeft = Cardinality(Files) + 2 * Len(target) + 2
        /\ SaveLeft' = 2 * (Len(target) - 0) + (IF open' THEN 0 ELSE 1)
    BY <2>1 DEF SaveLeft
  <2> QED  BY <2>2
<1>3. ASSUME OpenFile PROVE SaveLeft' < SaveLeft
  BY <1>3 DEF OpenFile, SaveLeft
<1>4. ASSUME DumpBlock PROVE SaveLeft' < SaveLeft
  BY <1>4 DEF DumpBlock, SaveLeft
<1>5. ASSUME FinishSave PROVE SaveLeft' < SaveLeft
  <2>1. SaveLeft' = 0
    BY <1>5 DEF FinishSave, SaveLeft
  <2> QED  BY <1>5, <2>1, SaveLeftIsNat DEF FinishSave
<1> QED  BY <1>1, <1>2, <1>3, <1>4, <1>5 DEF SaveStep

\* While a chain is saved, the files are touched only by the save and by a stop.
LEMMA SavesAlone ==
  ASSUME Inv, [Next]_vars, job \in {"delete", "write"}
  PROVE  store' = store \/ SaveStep \/ job' = "stopped"
<1>1. CASE (\E s \in Sender, c \in Received : Receive(s, c)) \/ StartValidate
  BY <1>1 DEF Receive, StartValidate
<1>2. CASE Listener
  BY <1>2, ListenerKeeps
<1>3. CASE Validator
  <2>1. ~ ListFiles /\ ~ VerifyChain
    BY DEF Inv, CommandInv, ListFiles, VerifyChain
  <2> QED
    BY <1>3, <2>1
    DEF Validator, NextDirectory, EndValidate, ReadFile, OpenDirectory, RemoveDirectory
<1>4. CASE \E l \in Own : Mine(l)
  BY <1>4 DEF Mine, SaveMinedBlock
<1>5. CASE Save \/ Stop \/ Start
  BY <1>5 DEF Save, Stop, StopStore, Start, StartStore
<1>6. CASE UNCHANGED vars
  BY <1>6 DEF vars
<1> QED  BY <1>1, <1>2, <1>3, <1>4, <1>5, <1>6 DEF Next

\* A save takes a bounded number of steps, whatever is done to the other directory in
\* between (util.py:18-32, 56-75): SaveEnds, but for the scheduling that lets it go on.
THEOREM SaveIsBounded == Spec => [](SaveLeft \in Nat) /\ SaveShrinks
<1>1. Inv => SaveLeft \in Nat
  BY SaveLeftIsNat
<1>2. ASSUME Inv, [Next]_vars
      PROVE  [(job \in {"delete", "write"}) =>
                (store' = store) \/ (SaveLeft' < SaveLeft)]_vars
  <2> SUFFICES ASSUME job \in {"delete", "write"}
               PROVE  (store' = store) \/ (SaveLeft' < SaveLeft)
    OBVIOUS
  <2>1. store' = store \/ SaveStep \/ job' = "stopped"
    BY <1>2, SavesAlone
  <2>2. job' = "stopped" => SaveLeft' = 0
    BY DEF SaveLeft
  <2>3. SaveLeft \in Nat /\ SaveLeft > 0
    BY <1>2, SaveLeftIsNat
  <2> QED  BY <1>2, <2>1, <2>2, <2>3, SaveStepShrinks
<1> QED  BY <1>1, <1>2, Inductive, PTL DEF Spec, SaveShrinks

\* Steps the directory being handled still takes, at most; nothing at the prompt.
DirectoryLeft ==
  CASE vpc = "next" -> 1
    [] vpc = "list" -> 2 * MaxFile + 5
    [] vpc = "read" -> Cardinality(vlist) + MaxFile + 4
    [] vpc = "verified" -> MaxFile + 3
    [] vpc = "clear" -> Cardinality(vlist) + 2
    [] OTHER -> 0
ValidationLeft == Cardinality(vtodo) * (2 * MaxFile + 5) + DirectoryLeft

ValidationShrinks ==
  [][vpc # "prompt" => (vvars' = vvars) \/ (ValidationLeft' < ValidationLeft)]_vars

LEMMA ListFacts ==
  ASSUME NEW S \in SUBSET Number
  PROVE  IsFiniteSet(S) /\ Cardinality(S) \in Nat /\ Cardinality(S) <= MaxFile
<1>1. IsFiniteSet(Number) /\ Cardinality(Number) = MaxFile
  BY NumberFacts, FirstNumbers DEF Number
<1> QED  BY <1>1, FS_Subset, FS_CardinalityType

LEMMA TodoFacts ==
  ASSUME NEW S \in SUBSET Sender
  PROVE  IsFiniteSet(S) /\ Cardinality(S) \in Nat
BY PendingAssumption, FS_Subset, FS_CardinalityType

LEMMA ValidationLeftIsNat ==
  ASSUME Inv
  PROVE  /\ ValidationLeft \in Nat
         /\ vpc # "prompt" => ValidationLeft > 0
<1> DEFINE n == Cardinality(vtodo)
           m == 2 * MaxFile + 5
<1>1. n \in Nat /\ m \in Nat /\ Cardinality(vlist) \in Nat /\ MaxFile \in Nat
  BY TodoFacts, ListFacts, NumberFacts DEF Inv, FolderInv
<1>2. DirectoryLeft \in Nat /\ (vpc # "prompt" => DirectoryLeft > 0)
  <2>1. vpc \in {"prompt", "next", "list", "read", "verified", "clear"}
    BY DEF Inv, FolderInv
  <2> QED  BY <1>1, <2>1 DEF DirectoryLeft
<1>3. ValidationLeft = n * m + DirectoryLeft
  BY DEF ValidationLeft
<1> HIDE DEF n, m
<1>4. n * m \in Nat
  BY <1>1
<1> QED  BY <1>2, <1>3, <1>4

\* The directories still to come are the same.
LEMMA SameTodo ==
  ASSUME Inv, vtodo' = vtodo, DirectoryLeft' < DirectoryLeft,
         DirectoryLeft \in Nat, DirectoryLeft' \in Nat
  PROVE  ValidationLeft' < ValidationLeft
<1>1. Cardinality(vtodo) * (2 * MaxFile + 5) \in Nat
  <2> DEFINE n == Cardinality(vtodo)
             m == 2 * MaxFile + 5
  <2>1. n \in Nat /\ m \in Nat
    BY TodoFacts, NumberFacts DEF Inv, FolderInv
  <2> HIDE DEF n, m
  <2>2. n * m \in Nat
    BY <2>1
  <2> QED  BY <2>2 DEF n, m
<1>2. PICK p \in Nat : p = Cardinality(vtodo) * (2 * MaxFile + 5)
  BY <1>1
<1>3. ValidationLeft = p + DirectoryLeft /\ ValidationLeft' = p + DirectoryLeft'
  BY <1>2 DEF ValidationLeft
<1>4. \A a, b \in Nat : b < a => p + b < p + a
  OBVIOUS
<1>5. p + DirectoryLeft' < p + DirectoryLeft
  BY <1>4
<1> QED  BY <1>3, <1>5, Zenon

\* The command loop is at the prompt: nothing is left.
LEMMA NothingLeft ==
  ASSUME vtodo' = {}, vpc' = "prompt"
  PROVE  ValidationLeft' = 0
<1>1. Cardinality(vtodo') = 0
  BY FS_EmptySet
<1>2. DirectoryLeft' = 0
  BY DEF DirectoryLeft
<1>3. 0 * (2 * MaxFile + 5) = 0
  BY NumberFacts
<1> QED  BY <1>1, <1>2, <1>3 DEF ValidationLeft

\* Each step of the command loop leaves less to be done.
LEMMA ValidatorShrinks ==
  ASSUME Inv, Validator
  PROVE  ValidationLeft' < ValidationLeft
<1>1. /\ vtodo \in SUBSET Sender /\ vlist \in SUBSET Number /\ MaxFile \in Nat
      /\ Cardinality(vlist) \in Nat /\ IsFiniteSet(vlist)
  BY ListFacts, NumberFacts DEF Inv, FolderInv
<1>2. ASSUME LeaveCommand, vpc # "prompt" PROVE ValidationLeft' < ValidationLeft
  BY <1>2, NothingLeft, ValidationLeftIsNat DEF LeaveCommand
<1>3. ASSUME NEW s \in Sender, NextDirectory(s) PROVE ValidationLeft' < ValidationLeft
  <2> DEFINE n == Cardinality(vtodo)
             m == 2 * MaxFile + 5
  <2>1. vpc = "next" /\ vpc' = "list" /\ s \in vtodo /\ vtodo' = vtodo \ {s}
    BY <1>3 DEF NextDirectory
  <2>2. n \in Nat /\ Cardinality(vtodo \ {s}) = n - 1
    BY <1>1, <2>1, TodoFacts, FS_RemoveElement
  <2>3. DirectoryLeft = 1 /\ DirectoryLeft' = m
    BY <2>1 DEF DirectoryLeft
  <2>4. ValidationLeft = n * m + 1 /\ ValidationLeft' = (n - 1) * m + m
    BY <2>1, <2>2, <2>3 DEF ValidationLeft
  <2>5. m \in Nat
    BY <1>1
  <2> HIDE DEF n, m
  <2>6. (n - 1) * m + m = n * m /\ n * m \in Nat
    BY <2>2, <2>5
  <2> QED  BY <2>4, <2>6
<1>4. ASSUME EndValidate PROVE ValidationLeft' < ValidationLeft
  <2>1. vtodo' = vtodo /\ vpc = "next" /\ vpc' = "prompt"
    BY <1>4 DEF EndValidate
  <2>2. DirectoryLeft = 1 /\ DirectoryLeft' = 0
    BY <2>1 DEF DirectoryLeft
  <2> QED  BY <2>1, <2>2, SameTodo
<1>5. ASSUME ListFiles PROVE ValidationLeft' < ValidationLeft
  <2>1. CASE made[vdir]
    <3>1. vpc = "list" /\ vpc' = "read" /\ vtodo' = vtodo /\ vlist' = FilesOf(vdir)
      BY <1>5, <2>1 DEF ListFiles
    <3>2. Cardinality(vlist') \in Nat /\ Cardinality(vlist') <= MaxFile
      BY <3>1, ListFacts DEF FilesOf
    <3>3. /\ DirectoryLeft = 2 * MaxFile + 5
          /\ DirectoryLeft' = Cardinality(vlist') + MaxFile + 4
      BY <3>1 DEF DirectoryLeft
    <3> QED  BY <1>1, <3>1, <3>2, <3>3, SameTodo
  <2>2. CASE ~ made[vdir]
    BY <1>2, <1>5, <2>2 DEF ListFiles, Raise
  <2> QED  BY <2>1, <2>2
<1>6. ASSUME ReadFile PROVE ValidationLeft' < ValidationLeft
  <2>1. /\ vpc = "read" /\ vpc' = vpc /\ vtodo' = vtodo /\ vlist' = vlist \ {Min(vlist)}
        /\ Min(vlist) \in vlist
    BY <1>1, <1>6, MinIsIn DEF ReadFile
  <2>2. Cardinality(vlist') = Cardinality(vlist) - 1 /\ Cardinality(vlist') \in Nat
    BY <1>1, <2>1, FS_RemoveElement, FS_CardinalityType
  <2>3. /\ DirectoryLeft = Cardinality(vlist) + MaxFile + 4
        /\ DirectoryLeft' = Cardinality(vlist') + MaxFile + 4
    BY <2>1 DEF DirectoryLeft
  <2> QED  BY <1>1, <2>1, <2>2, <2>3, SameTodo
<1>7. ASSUME VerifyChain PROVE ValidationLeft' < ValidationLeft
  <2>1. CASE Unindexable
    BY <1>2, <1>7, <2>1 DEF VerifyChain, TakesOver, Raise
  <2>2. CASE ~ Unindexable
    <3>1. vpc = "read" /\ vpc' = "verified" /\ vtodo' = vtodo
      BY <1>7, <2>2 DEF VerifyChain
    <3>2. /\ DirectoryLeft = Cardinality(vlist) + MaxFile + 4
          /\ DirectoryLeft' = MaxFile + 3
      BY <3>1 DEF DirectoryLeft
    <3> QED  BY <1>1, <3>1, <3>2, SameTodo
  <2> QED  BY <2>1, <2>2
<1>8. ASSUME OpenDirectory PROVE ValidationLeft' < ValidationLeft
  <2>1. vpc = "verified" /\ vpc' = "clear" /\ vtodo' = vtodo /\ vlist' = FilesOf(vdir)
    BY <1>8 DEF OpenDirectory
  <2>2. Cardinality(vlist') \in Nat /\ Cardinality(vlist') <= MaxFile
    BY <2>1, ListFacts DEF FilesOf
  <2>3. DirectoryLeft = MaxFile + 3 /\ DirectoryLeft' = Cardinality(vlist') + 2
    BY <2>1 DEF DirectoryLeft
  <2> QED  BY <1>1, <2>1, <2>2, <2>3, SameTodo
<1>9. ASSUME RemoveDirectory PROVE ValidationLeft' < ValidationLeft
  <2>1. vpc = "clear" /\ vtodo' = vtodo
    BY <1>9 DEF RemoveDirectory
  <2>2. DirectoryLeft = Cardinality(vlist) + 2
    BY <2>1 DEF DirectoryLeft
  <2>3. CASE vlist # {}
    <3>1. vpc' = "clear" /\ \E i \in vlist : vlist' = vlist \ {i}
      BY <1>9, <2>1, <2>3 DEF RemoveDirectory
    <3>2. Cardinality(vlist') = Cardinality(vlist) - 1 /\ Cardinality(vlist') \in Nat
      BY <1>1, <3>1, FS_RemoveElement, FS_CardinalityType
    <3>3. DirectoryLeft' = Cardinality(vlist') + 2
      BY <3>1 DEF DirectoryLeft
    <3> QED  BY <1>1, <2>1, <2>2, <3>2, <3>3, SameTodo
  <2>4. CASE vlist = {}
    <3>1. vpc' = "next"
      BY <1>9, <2>4 DEF RemoveDirectory
    <3>2. DirectoryLeft' = 1
      BY <3>1 DEF DirectoryLeft
    <3> QED  BY <1>1, <2>1, <2>2, <3>2, SameTodo
  <2> QED  BY <2>3, <2>4
<1> QED  BY <1>3, <1>4, <1>5, <1>6, <1>7, <1>8, <1>9, Validator DEF Validator

\* "validate" takes a bounded number of steps of its own, and no other step adds to
\* them: the listener, writing all the while, can only save it some (FullNode.py:361-408).
\* This is ValidateEnds, but for the scheduling that lets the command loop go on.
THEOREM ValidationIsBounded == Spec => [](ValidationLeft \in Nat) /\ ValidationShrinks
<1>1. Inv => ValidationLeft \in Nat
  BY ValidationLeftIsNat
<1>2. ASSUME Inv, [Next]_vars
      PROVE  [vpc # "prompt" => (vvars' = vvars) \/ (ValidationLeft' < ValidationLeft)]_vars
  <2> SUFFICES ASSUME vpc # "prompt", vvars' # vvars
               PROVE  ValidationLeft' < ValidationLeft
    OBVIOUS
  <2>1. CASE Validator
    BY <1>2, <2>1, ValidatorShrinks
  <2>2. CASE Listener
    <3>1. ListenerClear /\ vlist' # vlist
      BY <2>2 DEF Listener, ListenerClear, ListenerMake, ListenerOpen, ListenerDump,
                  ListenerDone, vvars
    <3>2. vlist' = {} /\ vlist # {} /\ vpc = "clear" /\ vpc' = vpc /\ vtodo' = vtodo
      BY <3>1 DEF ListenerClear
    <3>3. /\ Cardinality(vlist') = 0 /\ Cardinality(vlist) # 0 /\ Cardinality(vlist) \in Nat
      BY <1>2, <3>2, ListFacts, FS_EmptySet DEF Inv, FolderInv
    <3>4. DirectoryLeft = Cardinality(vlist) + 2 /\ DirectoryLeft' = Cardinality(vlist') + 2
      BY <3>2 DEF DirectoryLeft
    <3> QED  BY <1>2, <3>2, <3>3, <3>4, SameTodo
  <2>3. CASE Stop
    <3>1. ValidationLeft' = 0
      BY <2>3, NothingLeft DEF Stop, LeaveCommand
    <3> QED  BY <1>2, <3>1, ValidationLeftIsNat
  <2>4. ~ (Save \/ Start \/ \E l \in Own : Mine(l)) /\ ~ UNCHANGED vars
        /\ ~ StartValidate /\ ~ \E s \in Sender, c \in Received : Receive(s, c)
    BY DEF Save, Start, Mine, vars, StartValidate, Receive
  <2> QED  BY <1>2, <2>1, <2>2, <2>3, <2>4 DEF Next
<1> QED  BY <1>1, <1>2, Inductive, PTL DEF Spec, ValidationShrinks

\* A chain is taken over without ending the command loop: what it saves loads again.
GoesOn == vpc = "verified" => job # "stopped"

\* validate never waits for a save that will not come: the load that ends each save finds
\* the chain that was saved, and only the end of the process ends the command loop
\* between verifying a directory and removing it (FullNode.py:401-408).
THEOREM ValidateGoesOn == Spec => []GoesOn
<1>1. Init => GoesOn
  BY DEF Init, GoesOn
<1>2. ASSUME Inv, GoesOn, [Next]_vars PROVE GoesOn'
  <2>1. CASE VerifyChain
    <3>1. job = "idle" /\ vpc = "read"
      BY <1>2, <2>1 DEF Inv, CommandInv, VerifyChain
    <3> QED
      BY <2>1, <3>1 DEF VerifyChain, Raise, LeaveCommand, SaveChain, store, GoesOn
  <2>2. CASE Save
    <3>1. job' = job \/ job' \in {"write", "idle"}
      BY <1>2, <2>2, SaveGoesOn DEF Inv, Save
    <3> QED  BY <1>2, <2>2, <3>1 DEF Save, vvars, GoesOn
  <2>3. CASE Start
    BY <1>2, <2>3 DEF Start, StartStore, vvars, GoesOn
  <2>4. CASE Listener
    BY <1>2, <2>4, ListenerKeeps
    DEF Listener, ListenerClear, ListenerMake, ListenerOpen, ListenerDump, ListenerDone,
        vvars, store, GoesOn
  <2>5. CASE \/ StartValidate \/ EndValidate \/ ListFiles \/ OpenDirectory \/ RemoveDirectory
             \/ Stop \/ (\E s \in Sender : NextDirectory(s)) \/ (\E l \in Own : Mine(l))
    <3>1. vpc' # "verified"
      BY <2>5 DEF StartValidate, EndValidate, ListFiles, OpenDirectory, RemoveDirectory, Stop,
                  NextDirectory, Mine, Raise, LeaveCommand, vvars
    <3> QED  BY <3>1 DEF GoesOn
  <2>6. CASE \/ ReadFile \/ UNCHANGED vars
             \/ \E s \in Sender, c \in Received : Receive(s, c)
    BY <1>2, <2>6 DEF ReadFile, Receive, vars, vvars, store, GoesOn
  <2> QED  BY <1>2, <2>1, <2>2, <2>3, <2>4, <2>5, <2>6 DEF Next, Validator
<1> QED  BY <1>1, <1>2, Inductive, PTL DEF Spec

-----------------------------------------------------------------------------
(* The two connections                                                       *)

Resetting == {"reset", "close", "newSoc", "newSender"}

\* Sockets of the two ports are never mixed up: not the attributes, and not the one
\* the listener waits on, whatever assignments of two resets and a connect alternate.
PortsApart ==
  /\ soc # state_sender
  /\ sock[soc].conn # "state" /\ sock[state_sender].conn # "main"
  /\ reading # None => reading # state_sender /\ sock[reading].conn # "state"

\* What nobody refers to is as good as new.
SocketsInv ==
  /\ connected \in BOOLEAN /\ soc \in Socket /\ state_sender \in Socket
  /\ sock \in [Socket -> SocketState] /\ reading \in Socket \cup {None}
  /\ PortsApart
  /\ \A x \in Socket : x \notin Referred => sock[x] = New

\* The listener waits on a socket when it is in recv, and a thread that resets sockets
\* counts down to an end.
ThreadsInv ==
  /\ DOMAIN pc = Thread
  /\ pc["listener"] = "recv" <=> reading # None
  /\ pc["listener"] \in {"loop", "recv"} \cup Resetting
  /\ pc["command"] \in {"prompt", "connectSoc", "connectSender", "connected", "send",
                        "crashed"} \cup Resetting
  /\ resets \in [Thread -> 0 .. 2]
  /\ \A t \in Thread : pc[t] \in Resetting => resets[t] > 0

ConnectionInv ==
  /\ SocketsInv /\ ThreadsInv
  /\ command \in {"startup", "state", "request"} /\ troubles \in 0 .. MaxTroubles

LEMMA InvGivesTypes == ConnectionInv => ConnectionTypeOK /\ PortsApart
  BY DEF ConnectionInv, SocketsInv, ThreadsInv, ConnectionTypeOK, Resetting

AtMost(S, n) == IsFiniteSet(S) /\ Cardinality(S) \in Nat /\ Cardinality(S) <= n

LEMMA OneMore ==
  ASSUME NEW S, NEW n \in Nat, AtMost(S, n), NEW x
  PROVE  AtMost(S \cup {x}, n + 1)
<1>1. /\ IsFiniteSet(S \cup {x})
      /\ Cardinality(S \cup {x}) = IF x \in S THEN Cardinality(S) ELSE Cardinality(S) + 1
  BY FS_AddElement DEF AtMost
<1> QED BY <1>1 DEF AtMost

\* At most three sockets are referred to, so there is always another.
LEMMA FreshSocket ==
  ASSUME NEW a, NEW b, NEW c
  PROVE  \E x \in Socket : x \notin {a, b, c}
<1> SUFFICES ASSUME Socket \subseteq {a, b, c} PROVE FALSE
  OBVIOUS
<1>1. AtMost({}, 0)
  BY FS_EmptySet DEF AtMost
<1>2. AtMost({} \cup {a}, 0 + 1)
  BY <1>1, OneMore, ZenonT(20)
<1>3. AtMost({a}, 1)
  <2>1. {} \cup {a} = {a} /\ 0 + 1 = 1
    OBVIOUS
  <2> QED BY <1>2, <2>1
<1>4. AtMost({a} \cup {b}, 1 + 1)
  <2>1. 1 \in Nat
    OBVIOUS
  <2> QED BY <1>3, <2>1, OneMore
<1>5. AtMost({a, b}, 2)
  <2>1. {a} \cup {b} = {a, b} /\ 1 + 1 = 2
    OBVIOUS
  <2> QED BY <1>4, <2>1
<1>6. AtMost({a, b} \cup {c}, 2 + 1)
  <2>1. 2 \in Nat
    OBVIOUS
  <2> QED BY <1>5, <2>1, OneMore
<1>7. IsFiniteSet({a, b, c}) /\ Cardinality({a, b, c}) \in Nat /\ Cardinality({a, b, c}) <= 3
  <2>1. {a, b} \cup {c} = {a, b, c} /\ 2 + 1 = 3
    OBVIOUS
  <2>2. AtMost({a, b, c}, 3)
    BY <1>6, <2>1
  <2> QED BY <2>2 DEF AtMost
<1>8. Cardinality(Socket) <= Cardinality({a, b, c}) /\ Cardinality(Socket) \in Nat
  BY <1>7, FS_Subset, FS_CardinalityType, ConnectionAssumption
<1> QED BY <1>7, <1>8, ConnectionAssumption

LEMMA FreshIs == Fresh \in Socket /\ Fresh \notin Referred
<1>1. \E x \in Socket : x \notin Referred
  BY FreshSocket DEF Referred
<1> QED BY <1>1 DEF Fresh

\* What a socket can be.
LEMMA SocketFacts ==
  /\ New \in SocketState /\ [New EXCEPT !.closed = TRUE] \in SocketState
  /\ New.conn = "none" /\ [New EXCEPT !.closed = TRUE].conn = "none"
<1>1. <<>> \in Seq({"reply", "timeout"})
  BY EmptySeq
<1> QED BY <1>1 DEF New, SocketState

\* At the start there are two new sockets.
LEMMA ConnectionStarts == InitConnection => ConnectionInv
<1> SUFFICES ASSUME InitConnection PROVE ConnectionInv
  OBVIOUS
<1>1. soc \in Socket
  <2>1. \E x \in Socket : TRUE
    BY FreshSocket
  <2> QED BY <2>1 DEF InitConnection
<1>2. state_sender \in Socket /\ state_sender # soc
  <2>1. \E x \in Socket : x # soc
    <3>1. \E x \in Socket : x \notin {soc, soc, soc}
      BY FreshSocket
    <3> QED BY <3>1
  <2> QED BY <2>1 DEF InitConnection
<1>3. /\ sock \in [Socket -> SocketState] /\ \A x \in Socket : sock[x] = New
      /\ reading = None /\ pc = [listener |-> "loop", command |-> "connectSoc"]
  BY SocketFacts DEF InitConnection
<1>4. PortsApart
  BY <1>1, <1>2, <1>3, SocketFacts DEF PortsApart
<1>5. SocketsInv
  BY <1>1, <1>2, <1>3, <1>4 DEF InitConnection, SocketsInv
<1>6. ThreadsInv
  BY <1>3 DEF InitConnection, ThreadsInv, Thread, Resetting
<1> QED BY <1>5, <1>6, ConnectionAssumption DEF InitConnection, ConnectionInv

\* The sockets of the next state, attribute by attribute.
LEMMA SocketsNext ==
  ASSUME connected' \in BOOLEAN, soc' \in Socket, state_sender' \in Socket, soc' # state_sender',
         sock' \in [Socket -> SocketState],
         sock'[soc'].conn # "state", sock'[state_sender'].conn # "main",
         reading' = None \/
           (reading' \in Socket /\ reading' # state_sender' /\ sock'[reading'].conn # "state"),
         \A x \in Socket : x \notin {soc', state_sender', reading'} => sock'[x] = New
  PROVE  SocketsInv'
<1>1. PortsApart'
  BY DEF PortsApart
<1>2. (\A x \in Socket : x \notin Referred => sock[x] = New)'
  BY DEF Referred, New
<1> QED BY <1>1, <1>2 DEF SocketsInv

\* A step of one thread moves its own program counter and not the other's.
LEMMA Moves ==
  ASSUME ConnectionInv, NEW t \in Thread, NEW step, Goto(t, step)
  PROVE  /\ DOMAIN pc' = Thread /\ pc'[t] = step
         /\ \A u \in Thread : u # t => pc'[u] = pc[u]
  BY DEF ConnectionInv, ThreadsInv, Goto

\* A thread that goes to a step that is not recv, from one that is not, leaves the
\* listener where it is waiting.
LEMMA MovesAway ==
  ASSUME ConnectionInv, NEW t \in Thread, NEW step, Goto(t, step),
         pc[t] # "recv", reading' = reading,
         step \in Resetting \cup (IF t = "listener" THEN {"loop"}
            ELSE {"prompt", "connectSoc", "connectSender", "connected", "send", "crashed"}),
         resets' \in [Thread -> 0 .. 2],
         step \in Resetting => resets'[t] > 0,
         \A u \in Thread : u # t => resets'[u] = resets[u]
  PROVE  ThreadsInv'
<1>1. /\ DOMAIN pc' = Thread /\ pc'[t] = step
      /\ \A u \in Thread : u # t => pc'[u] = pc[u]
  BY Moves
<1>2. /\ pc["listener"] = "recv" <=> reading # None
      /\ \A u \in Thread : pc[u] \in Resetting => resets[u] > 0
      /\ pc["listener"] \in {"loop", "recv"} \cup Resetting
      /\ pc["command"] \in {"prompt", "connectSoc", "connectSender", "connected", "send",
                            "crashed"} \cup Resetting
  BY DEF ConnectionInv, SocketsInv, ThreadsInv, Resetting
<1>3. CASE t = "listener"
  BY <1>1, <1>2, <1>3 DEF Thread, Resetting, ThreadsInv
<1>4. CASE t = "command"
  BY <1>1, <1>2, <1>4 DEF Thread, Resetting, ThreadsInv
<1> QED BY <1>3, <1>4 DEF Thread

LEMMA ResetConnectedKeeps ==
  ASSUME ConnectionInv, NEW t \in Thread, ResetConnected(t)
  PROVE  ConnectionInv'
<1>1. ThreadsInv'
  <2>1. /\ Goto(t, "close") /\ pc[t] = "reset" /\ "reset" # "recv" /\ "close" \in Resetting
        /\ reading' = reading /\ resets' = resets /\ "reset" \in Resetting
    BY DEF ResetConnected, Resetting
  <2>2. resets' \in [Thread -> 0 .. 2] /\ resets'[t] > 0
    BY <2>1 DEF ConnectionInv, SocketsInv, ThreadsInv
  <2> QED BY <2>1, <2>2, MovesAway
<1>2. /\ connected' = FALSE /\ soc' = soc /\ state_sender' = state_sender /\ sock' = sock
      /\ reading' = reading /\ resets' = resets /\ command' = command /\ troubles' = troubles
  BY DEF ResetConnected
<1>3. \A x \in Socket : x \notin {soc', state_sender', reading'} => sock'[x] = New
  BY <1>2 DEF ConnectionInv, SocketsInv, Referred
<1>4. SocketsInv'
  BY <1>1, <1>2, <1>3, SocketsNext
  DEF ConnectionInv, SocketsInv, PortsApart
<1> QED  BY <1>1, <1>2, <1>3, <1>4 DEF ConnectionInv

\* Both sockets are closed; the one the listener waits on keeps what it had.
LEMMA CloseBothKeeps ==
  ASSUME ConnectionInv, NEW t \in Thread, CloseBoth(t)
  PROVE  ConnectionInv'
<1>1. ThreadsInv'
  <2>1. /\ Goto(t, "newSoc") /\ pc[t] = "close" /\ "close" # "recv" /\ "newSoc" \in Resetting
        /\ reading' = reading /\ resets' = resets /\ "close" \in Resetting
    BY DEF CloseBoth, Resetting
  <2>2. resets' \in [Thread -> 0 .. 2] /\ resets'[t] > 0
    BY <2>1 DEF ConnectionInv, SocketsInv, ThreadsInv
  <2> QED BY <2>1, <2>2, MovesAway
<1>2. /\ connected' = connected /\ soc' = soc /\ state_sender' = state_sender
      /\ reading' = reading /\ resets' = resets /\ command' = command /\ troubles' = troubles
  BY DEF CloseBoth, attributes
<1>3. /\ sock' \in [Socket -> SocketState]
      /\ \A x \in Socket : sock'[x].conn \in {sock[x].conn, "none"}
      /\ \A x \in Socket : x \notin {soc, state_sender} => sock'[x] = sock[x]
  <2> DEFINE Now(x) == IF x \in {soc, state_sender}
                       THEN IF x = reading THEN [sock[x] EXCEPT !.closed = TRUE]
                            ELSE [New EXCEPT !.closed = TRUE]
                       ELSE sock[x]
  <2>1. sock' = [x \in Socket |-> Now(x)]
    BY DEF CloseBoth
  <2>2. ASSUME NEW x \in Socket
        PROVE  Now(x) \in SocketState /\ Now(x).conn \in {sock[x].conn, "none"}
    <3>1. sock[x] \in SocketState
      BY DEF ConnectionInv, SocketsInv, ThreadsInv
    <3>2. /\ [sock[x] EXCEPT !.closed = TRUE] \in SocketState
          /\ [sock[x] EXCEPT !.closed = TRUE].conn = sock[x].conn
      BY <3>1 DEF SocketState
    <3> QED BY <3>1, <3>2, SocketFacts
  <2> QED BY <2>1, <2>2
<1>4. \A x \in Socket : x \notin {soc', state_sender', reading'} => sock'[x] = New
  BY <1>2, <1>3 DEF ConnectionInv, SocketsInv, Referred
<1>5. SocketsInv'
  BY <1>1, <1>2, <1>3, <1>4, SocketsNext
  DEF ConnectionInv, SocketsInv, PortsApart
<1> QED  BY <1>1, <1>2, <1>3, <1>4, <1>5 DEF ConnectionInv

\* What the interpreter collects is new; what is referred to stays.
LEMMA CollectedFacts ==
  ASSUME NEW s \in [Socket -> SocketState], sock' = Collected(s)
  PROVE  /\ sock' \in [Socket -> SocketState]
         /\ \A x \in Socket : x \in {soc', state_sender', reading'} => sock'[x] = s[x]
         /\ \A x \in Socket : x \notin {soc', state_sender', reading'} => sock'[x] = New
<1>1. Referred' = {soc', state_sender', reading'}
  BY DEF Referred
<1>2. sock' = [x \in Socket |-> IF x \in {soc', state_sender', reading'} THEN s[x] ELSE New]
  BY <1>1 DEF Collected
<1> QED BY <1>2, SocketFacts

LEMMA NewSocKeeps ==
  ASSUME ConnectionInv, NEW t \in Thread, NewSoc(t)
  PROVE  ConnectionInv'
<1>1. ThreadsInv'
  <2>1. /\ Goto(t, "newSender") /\ pc[t] = "newSoc" /\ "newSoc" # "recv"
        /\ "newSender" \in Resetting
        /\ reading' = reading /\ resets' = resets /\ "newSoc" \in Resetting
    BY DEF NewSoc, Resetting
  <2>2. resets' \in [Thread -> 0 .. 2] /\ resets'[t] > 0
    BY <2>1 DEF ConnectionInv, SocketsInv, ThreadsInv
  <2> QED BY <2>1, <2>2, MovesAway
<1>2. /\ connected' = connected /\ soc' = Fresh /\ state_sender' = state_sender
      /\ reading' = reading /\ resets' = resets /\ command' = command /\ troubles' = troubles
      /\ sock' = Collected(sock) /\ sock \in [Socket -> SocketState]
  BY DEF NewSoc, ConnectionInv, SocketsInv, ThreadsInv
<1>3. /\ Fresh \in Socket /\ Fresh # soc /\ Fresh # state_sender /\ Fresh # reading
      /\ sock[Fresh] = New
  BY FreshIs DEF Referred, ConnectionInv, SocketsInv
<1>4. /\ sock' \in [Socket -> SocketState]
      /\ \A x \in Socket : x \in {soc', state_sender', reading'} => sock'[x] = sock[x]
      /\ \A x \in Socket : x \notin {soc', state_sender', reading'} => sock'[x] = New
  BY <1>2, CollectedFacts
<1>5. sock'[soc'].conn = "none"
  BY <1>2, <1>3, <1>4, SocketFacts
<1>6. SocketsInv'
  BY <1>1, <1>2, <1>3, <1>4, <1>5, SocketsNext
  DEF ConnectionInv, SocketsInv, PortsApart
<1> QED  BY <1>1, <1>2, <1>3, <1>4, <1>5, <1>6 DEF ConnectionInv

LEMMA NewSenderKeeps ==
  ASSUME ConnectionInv, NEW t \in Thread, NewSender(t)
  PROVE  ConnectionInv'
<1>1. ThreadsInv' /\ resets' \in [Thread -> 0 .. 2]
  <2> DEFINE step == IF resets[t] > 1 THEN "reset"
                     ELSE IF t = "listener" THEN "loop"
                     ELSE IF command = "startup" THEN "crashed" ELSE "prompt"
  <2>1. /\ Goto(t, step) /\ pc[t] = "newSender" /\ "newSender" # "recv"
        /\ reading' = reading /\ resets' = [resets EXCEPT ![t] = @ - 1]
        /\ resets \in [Thread -> 0 .. 2] /\ resets[t] > 0
    BY DEF NewSender, ConnectionInv, SocketsInv, ThreadsInv, Resetting
  <2>2. /\ resets' \in [Thread -> 0 .. 2] /\ resets'[t] = resets[t] - 1
        /\ \A u \in Thread : u # t => resets'[u] = resets[u]
    BY <2>1
  <2>3. step \in Resetting => resets'[t] > 0
    BY <2>1, <2>2 DEF Resetting
  <2>4. step \in Resetting \cup (IF t = "listener" THEN {"loop"}
            ELSE {"prompt", "connectSoc", "connectSender", "connected", "send", "crashed"})
    BY DEF Resetting
  <2> HIDE DEF step
  <2> QED BY <2>1, <2>2, <2>3, <2>4, MovesAway
<1>2. /\ connected' = connected /\ soc' = soc /\ state_sender' = Fresh
      /\ reading' = reading /\ command' = command /\ troubles' = troubles
      /\ sock' = Collected(sock) /\ sock \in [Socket -> SocketState]
  BY DEF NewSender, ConnectionInv, SocketsInv, ThreadsInv
<1>3. /\ Fresh \in Socket /\ Fresh # soc /\ Fresh # state_sender /\ Fresh # reading
      /\ sock[Fresh] = New
  BY FreshIs DEF Referred, ConnectionInv, SocketsInv
<1>4. /\ sock' \in [Socket -> SocketState]
      /\ \A x \in Socket : x \in {soc', state_sender', reading'} => sock'[x] = sock[x]
      /\ \A x \in Socket : x \notin {soc', state_sender', reading'} => sock'[x] = New
  BY <1>2, CollectedFacts
<1>5. sock'[state_sender'].conn = "none"
  BY <1>2, <1>3, <1>4, SocketFacts
<1>6. SocketsInv'
  BY <1>1, <1>2, <1>3, <1>4, <1>5, SocketsNext
  DEF ConnectionInv, SocketsInv, PortsApart
<1> QED  BY <1>1, <1>2, <1>3, <1>4, <1>5, <1>6 DEF ConnectionInv

\* One socket that is referred to gets a value that fits its port.
LEMMA OneSocket ==
  ASSUME ConnectionInv, NEW s \in Socket, s \in Referred, NEW new \in SocketState,
         s = state_sender => new.conn # "main",
         s # state_sender => new.conn # "state",
         sock' = [sock EXCEPT ![s] = new],
         UNCHANGED <<attributes, reading>>
  PROVE  SocketsInv'
<1>1. /\ soc' = soc /\ state_sender' = state_sender /\ connected' = connected
      /\ reading' = reading
  BY DEF attributes
<1>2. /\ sock' \in [Socket -> SocketState] /\ sock'[s] = new
      /\ \A x \in Socket : x # s => sock'[x] = sock[x]
  BY DEF ConnectionInv, SocketsInv, ThreadsInv
<1>3. s \in {soc, state_sender, reading}
  BY DEF Referred
<1>4. \A x \in Socket : x \notin {soc', state_sender', reading'} => sock'[x] = New
  BY <1>1, <1>2, <1>3 DEF ConnectionInv, SocketsInv, Referred
<1> QED
  BY <1>1, <1>2, <1>4, SocketsNext DEF ConnectionInv, SocketsInv, PortsApart

\* Nothing about the sockets changes.
LEMMA NoSocket ==
  ASSUME ConnectionInv, UNCHANGED <<attributes, reading, sock>>
  PROVE  SocketsInv'
<1>1. /\ soc' = soc /\ state_sender' = state_sender /\ connected' = connected
      /\ reading' = reading /\ sock' = sock
  BY DEF attributes
<1>2. \A x \in Socket : x \notin {soc', state_sender', reading'} => sock'[x] = New
  BY <1>1 DEF ConnectionInv, SocketsInv, Referred
<1> QED
  BY <1>1, <1>2, SocketsNext DEF ConnectionInv, SocketsInv, PortsApart

\* The command loop goes on, or starts to reset the sockets once or twice.
LEMMA CommandMoves ==
  ASSUME ConnectionInv, reading' = reading,
         \/ /\ \E step \in {"prompt", "connectSoc", "connectSender", "connected", "send",
                            "crashed"} : Goto("command", step)
            /\ UNCHANGED resets
         \/ \E times \in 1 .. 2 : ResetSockets("command", times)
  PROVE  ThreadsInv' /\ resets' \in [Thread -> 0 .. 2]
<1>1. "command" \in Thread /\ pc["command"] # "recv" /\ resets \in [Thread -> 0 .. 2]
  BY DEF Thread, ConnectionInv, ThreadsInv, Resetting
<1>2. ASSUME NEW step \in {"prompt", "connectSoc", "connectSender", "connected", "send",
                           "crashed"}, Goto("command", step), UNCHANGED resets
      PROVE  ThreadsInv' /\ resets' \in [Thread -> 0 .. 2]
  <2>1. step \notin Resetting
    BY DEF Resetting
  <2>2. step \in Resetting \cup (IF "command" = "listener" THEN {"loop"}
          ELSE {"prompt", "connectSoc", "connectSender", "connected", "send", "crashed"})
    OBVIOUS
  <2>3. resets' = resets
    BY <1>2
  <2> QED BY <1>1, <1>2, <2>1, <2>2, <2>3, MovesAway
<1>3. ASSUME NEW times \in 1 .. 2, ResetSockets("command", times)
      PROVE  ThreadsInv' /\ resets' \in [Thread -> 0 .. 2]
  <2>1. "reset" \in Resetting /\ Goto("command", "reset")
    BY <1>3 DEF ResetSockets, Resetting
  <2>2. /\ resets' \in [Thread -> 0 .. 2] /\ resets'["command"] > 0
        /\ \A u \in Thread : u # "command" => resets'[u] = resets[u]
    BY <1>1, <1>3 DEF ResetSockets
  <2> QED BY <1>1, <2>1, <2>2, MovesAway
<1> QED BY <1>2, <1>3

LEMMA StartCommandKeeps ==
  ASSUME ConnectionInv, NEW kind \in {"state", "request"}, StartCommand(kind)
  PROVE  ConnectionInv'
<1>1. /\ command' = kind /\ UNCHANGED <<attributes, reading, sock>> /\ UNCHANGED resets
      /\ reading' = reading /\ troubles' = troubles
      /\ \E step \in {"prompt", "connectSoc", "connectSender", "connected", "send",
                      "crashed"} : Goto("command", step)
  BY DEF StartCommand
<1>2. troubles' \in 0 .. MaxTroubles
  BY <1>1 DEF ConnectionInv, SocketsInv, ThreadsInv
<1> QED
  BY <1>1, <1>2, NoSocket, CommandMoves DEF ConnectionInv

\* A socket is connected to the port it is for.
LEMMA ConnectKeeps ==
  ASSUME ConnectionInv, NEW s, NEW port, NEW after,
         \/ s = soc /\ port = "main" /\ after = "connectSender"
         \/ s = state_sender /\ port = "state" /\ after = "connected",
         Connect(s, port, after)
  PROVE  ConnectionInv'
<1>1. /\ UNCHANGED <<attributes, reading>> /\ reading' = reading /\ command' = command
      /\ command \in {"startup", "state", "request"} /\ troubles \in 0 .. MaxTroubles
      /\ MaxTroubles \in Nat
  BY ConnectionAssumption DEF Connect, ConnectionInv, SocketsInv, ThreadsInv
<1>2. ConnectFails => \E times \in 1 .. 2 : ResetSockets("command", times)
  BY DEF ConnectFails
<1>3. CASE /\ sock[s] = New
           /\ sock' = [sock EXCEPT ![s].conn = port]
           /\ Goto("command", after)
           /\ UNCHANGED <<resets, troubles>>
  <2> DEFINE new == [New EXCEPT !.conn = port]
  <2>1. s \in Socket /\ s \in Referred /\ soc # state_sender
    BY DEF Referred, ConnectionInv, SocketsInv, ThreadsInv, PortsApart
  <2>2. new \in SocketState /\ new.conn = port
    BY SocketFacts DEF SocketState
  <2>3. sock' = [sock EXCEPT ![s] = new]
    BY <1>3
  <2>4. /\ s = state_sender => new.conn # "main"
        /\ s # state_sender => new.conn # "state"
    BY <2>1, <2>2
  <2>5. \E step \in {"prompt", "connectSoc", "connectSender", "connected", "send",
                     "crashed"} : Goto("command", step)
    BY <1>3
  <2>6. UNCHANGED resets /\ troubles' = troubles
    BY <1>3
  <2> HIDE DEF new
  <2>7. SocketsInv'
    BY <1>1, <2>1, <2>2, <2>3, <2>4, OneSocket
  <2> QED
    BY <1>1, <2>5, <2>6, <2>7, CommandMoves DEF ConnectionInv
<1>4. CASE ConnectFails /\ UNCHANGED sock /\ troubles' \in 0 .. MaxTroubles
  BY <1>1, <1>2, <1>4, NoSocket, CommandMoves DEF ConnectionInv
<1> QED  BY <1>1, <1>3, <1>4 DEF Connect

LEMMA SetConnectedKeeps == ConnectionInv /\ SetConnected => ConnectionInv'
<1> SUFFICES ASSUME ConnectionInv, SetConnected PROVE ConnectionInv'
  OBVIOUS
<1>1. /\ connected' = TRUE /\ soc' = soc /\ state_sender' = state_sender /\ sock' = sock
      /\ reading' = reading /\ UNCHANGED resets /\ command' = command /\ troubles' = troubles
      /\ \E step \in {"prompt", "connectSoc", "connectSender", "connected", "send",
                      "crashed"} : Goto("command", step)
  BY DEF SetConnected
<1>2. \A x \in Socket : x \notin {soc', state_sender', reading'} => sock'[x] = New
  BY <1>1 DEF ConnectionInv, SocketsInv, Referred
<1>3. ThreadsInv' /\ resets' \in [Thread -> 0 .. 2]
  BY <1>1, CommandMoves
<1>4. SocketsInv'
  BY <1>1, <1>2, <1>3, SocketsNext
  DEF ConnectionInv, SocketsInv, PortsApart
<1> QED  BY <1>1, <1>2, <1>3, <1>4 DEF ConnectionInv

\* A send that fails resets the sockets, or leaves an end that is then known.
LEMMA SendFailsFacts ==
  ASSUME ConnectionInv, NEW s \in {soc, state_sender}, SendFails(s),
         UNCHANGED <<attributes, reading, command, troubles>>
  PROVE  ConnectionInv'
<1>1. /\ UNCHANGED <<attributes, reading>> /\ reading' = reading
      /\ command' \in {"startup", "state", "request"} /\ troubles' \in 0 .. MaxTroubles
  BY DEF ConnectionInv, SocketsInv, ThreadsInv
<1>2. CASE ResetSockets("command", 1) /\ UNCHANGED sock
  <2>1. \E times \in 1 .. 2 : ResetSockets("command", times)
    BY <1>2
  <2> QED BY <1>1, <1>2, <2>1, NoSocket, CommandMoves DEF ConnectionInv
<1>3. CASE /\ sock' = [sock EXCEPT ![s].conn = "reset"]
           /\ Goto("command", "prompt")
           /\ UNCHANGED resets
  <2> DEFINE new == [sock[s] EXCEPT !.conn = "reset"]
  <2>1. s \in Socket /\ s \in Referred /\ sock[s] \in SocketState
    BY DEF Referred, ConnectionInv, SocketsInv, ThreadsInv
  <2>2. new \in SocketState /\ new.conn = "reset"
    BY <2>1 DEF SocketState
  <2>3. sock' = [sock EXCEPT ![s] = new]
    BY <1>3
  <2>4. \E step \in {"prompt", "connectSoc", "connectSender", "connected", "send",
                     "crashed"} : Goto("command", step)
    BY <1>3
  <2> HIDE DEF new
  <2>5. SocketsInv'
    BY <1>1, <2>1, <2>2, <2>3, OneSocket
  <2> QED
    BY <1>1, <1>3, <2>4, <2>5, CommandMoves DEF ConnectionInv
<1> QED BY <1>2, <1>3 DEF SendFails

LEMMA SendKeeps == ConnectionInv /\ (SendState \/ SendRequest) => ConnectionInv'
<1> SUFFICES ASSUME ConnectionInv, SendState \/ SendRequest PROVE ConnectionInv'
  OBVIOUS
<1>1. /\ UNCHANGED <<attributes, reading>> /\ UNCHANGED <<attributes, reading, command, troubles>>
      /\ reading' = reading
      /\ command' \in {"startup", "state", "request"} /\ troubles' \in 0 .. MaxTroubles
  BY DEF SendState, SendRequest, ConnectionInv, SocketsInv, ThreadsInv
<1>2. CASE \E s \in {soc, state_sender} : SendFails(s)
  BY <1>1, <1>2, SendFailsFacts
<1>3. CASE Goto("command", "prompt") /\ UNCHANGED <<sock, resets>>
  <2>1. \E step \in {"prompt", "connectSoc", "connectSender", "connected", "send",
                     "crashed"} : Goto("command", step)
    BY <1>3
  <2> QED BY <1>1, <1>3, <2>1, NoSocket, CommandMoves DEF ConnectionInv
<1>4. CASE /\ sock[soc].conn = "main"
           /\ sock' = [sock EXCEPT ![soc].asked = TRUE]
           /\ Goto("command", "prompt")
           /\ UNCHANGED resets
  <2> DEFINE new == [sock[soc] EXCEPT !.asked = TRUE]
  <2>1. soc \in Socket /\ soc \in Referred /\ sock[soc] \in SocketState /\ soc # state_sender
    BY DEF Referred, ConnectionInv, SocketsInv, ThreadsInv, PortsApart
  <2>2. new \in SocketState /\ new.conn = "main"
    BY <1>4, <2>1 DEF SocketState
  <2>3. sock' = [sock EXCEPT ![soc] = new]
    BY <1>4
  <2>4. \E step \in {"prompt", "connectSoc", "connectSender", "connected", "send",
                     "crashed"} : Goto("command", step)
    BY <1>4
  <2> HIDE DEF new
  <2>5. SocketsInv'
    BY <1>1, <2>1, <2>2, <2>3, OneSocket
  <2> QED
    BY <1>1, <1>4, <2>4, <2>5, CommandMoves DEF ConnectionInv
<1> QED BY <1>2, <1>3, <1>4 DEF SendState, SendRequest

-----------------------------------------------------------------------------

\* recv returned: the listener refers to no other socket than soc any more.
LEMMA ListenerReturns ==
  ASSUME ConnectionInv, pc["listener"] = "recv", reading' = None,
         UNCHANGED <<attributes, command, troubles>>,
         NEW new \in SocketState, new.conn \in {sock[reading].conn, "none"},
         sock' = Collected([sock EXCEPT ![reading] = new]),
         \/ Goto("listener", "loop") /\ UNCHANGED resets
         \/ ResetSockets("listener", 1)
  PROVE  ConnectionInv'
<1>1. /\ soc' = soc /\ state_sender' = state_sender /\ connected' = connected
      /\ command' = command /\ troubles' = troubles
      /\ reading \in Socket /\ reading # None /\ None \notin Socket
      /\ reading # state_sender /\ sock[reading].conn # "state"
      /\ resets \in [Thread -> 0 .. 2] /\ "listener" \in Thread /\ "command" \in Thread
      /\ DOMAIN pc = Thread
  BY ConnectionAssumption DEF ConnectionInv, SocketsInv, ThreadsInv, PortsApart, attributes, Thread
<1>2. [sock EXCEPT ![reading] = new] \in [Socket -> SocketState]
  BY <1>1 DEF ConnectionInv, SocketsInv, ThreadsInv
<1>3. /\ sock' \in [Socket -> SocketState]
      /\ \A x \in Socket : x \in {soc', state_sender', reading'} =>
           sock'[x] = [sock EXCEPT ![reading] = new][x]
      /\ \A x \in Socket : x \notin {soc', state_sender', reading'} => sock'[x] = New
  BY <1>2, CollectedFacts
<1>4. sock'[soc'].conn # "state" /\ sock'[state_sender'].conn # "main"
  <2>1. /\ sock'[soc] = [sock EXCEPT ![reading] = new][soc]
        /\ sock'[state_sender] = [sock EXCEPT ![reading] = new][state_sender]
        /\ soc \in Socket /\ state_sender \in Socket
    BY <1>1, <1>3 DEF ConnectionInv, SocketsInv, ThreadsInv
  <2>2. sock'[state_sender] = sock[state_sender] /\ sock'[soc] \in {sock[soc], new}
    BY <1>1, <2>1 DEF ConnectionInv, SocketsInv, ThreadsInv
  <2> QED BY <1>1, <2>2 DEF ConnectionInv, SocketsInv, PortsApart
<1>5. /\ DOMAIN pc' = Thread /\ pc'["command"] = pc["command"]
      /\ \/ pc'["listener"] = "loop" /\ UNCHANGED resets
         \/ pc'["listener"] = "reset" /\ resets' = [resets EXCEPT !["listener"] = 1]
  BY <1>1 DEF Goto, ResetSockets
<1>6. resets' \in [Thread -> 0 .. 2]
  BY <1>1, <1>5
<1>7. \A u \in Thread : pc'[u] \in Resetting => resets'[u] > 0
  <2>1. "loop" \notin Resetting
    BY DEF Resetting
  <2>2. pc'["command"] \in Resetting => resets'["command"] > 0
    BY <1>1, <1>5 DEF ConnectionInv, SocketsInv, ThreadsInv
  <2>3. pc'["listener"] \in Resetting => resets'["listener"] > 0
    BY <1>1, <1>5, <2>1
  <2> QED BY <2>2, <2>3 DEF Thread
<1>8. /\ pc'["listener"] = "recv" <=> reading' # None
      /\ pc'["listener"] \in {"loop", "recv"} \cup Resetting
      /\ pc'["command"] \in {"prompt", "connectSoc", "connectSender", "connected", "send",
                             "crashed"} \cup Resetting
  BY <1>5 DEF ConnectionInv, SocketsInv, ThreadsInv, Resetting
<1>9. /\ connected' \in BOOLEAN /\ soc' \in Socket /\ state_sender' \in Socket
      /\ soc' # state_sender' /\ command' \in {"startup", "state", "request"}
      /\ troubles' \in 0 .. MaxTroubles
  BY <1>1 DEF ConnectionInv, SocketsInv, ThreadsInv, PortsApart
<1>10. ThreadsInv'
  BY <1>5, <1>6, <1>7, <1>8 DEF ThreadsInv
<1>11. SocketsInv'
  BY <1>1, <1>3, <1>4, <1>9, SocketsNext
<1> QED  BY <1>9, <1>10, <1>11 DEF ConnectionInv

LEMMA RecvKeeps == ConnectionInv /\ (RecvMessage \/ RecvNothing) => ConnectionInv'
<1> SUFFICES ASSUME ConnectionInv, RecvMessage \/ RecvNothing PROVE ConnectionInv'
  OBVIOUS
<1>1. /\ pc["listener"] = "recv" /\ reading' = None
      /\ UNCHANGED <<attributes, command, troubles>>
      /\ \/ Goto("listener", "loop") /\ UNCHANGED resets
         \/ ResetSockets("listener", 1)
  BY DEF RecvMessage, RecvNothing
<1>2. reading \in Socket /\ sock[reading] \in SocketState /\ sock \in [Socket -> SocketState]
  BY <1>1 DEF ConnectionInv, SocketsInv, ThreadsInv
<1>3. CASE RecvMessage
  <2> DEFINE new == IF sock[reading].closed THEN [New EXCEPT !.closed = TRUE]
                    ELSE [sock[reading] EXCEPT !.wire = Tail(sock[reading].wire)]
  <2>1. sock' = Collected([sock EXCEPT ![reading] = new])
    BY <1>2, <1>3 DEF RecvMessage
  <2>2. /\ [sock[reading] EXCEPT !.wire = Tail(sock[reading].wire)] \in SocketState
        /\ [sock[reading] EXCEPT !.wire = Tail(sock[reading].wire)].conn = sock[reading].conn
    <3>1. sock[reading].wire \in Seq({"reply", "timeout"}) /\ sock[reading].wire # <<>>
      BY <1>2, <1>3 DEF RecvMessage, SocketState
    <3>2. Tail(sock[reading].wire) \in Seq({"reply", "timeout"})
      BY <3>1, HeadTailProperties
    <3> QED BY <1>2, <3>2 DEF SocketState
  <2>3. new \in SocketState /\ new.conn \in {sock[reading].conn, "none"}
    BY <2>2, SocketFacts
  <2> HIDE DEF new
  <2> QED BY <1>1, <2>1, <2>3, ListenerReturns
<1>4. CASE RecvNothing
  <2>1. sock = [sock EXCEPT ![reading] = sock[reading]]
    BY <1>2
  <2>2. sock' = Collected([sock EXCEPT ![reading] = sock[reading]])
    BY <1>4, <2>1 DEF RecvNothing
  <2> QED BY <1>1, <1>2, <2>2, ListenerReturns
<1> QED BY <1>3, <1>4

LEMMA ListenKeeps == ConnectionInv /\ Listen => ConnectionInv'
<1> SUFFICES ASSUME ConnectionInv, Listen PROVE ConnectionInv'
  OBVIOUS
<1>1. /\ soc' = soc /\ state_sender' = state_sender /\ connected' = connected /\ sock' = sock
      /\ reading' = soc /\ resets' = resets /\ command' = command /\ troubles' = troubles
      /\ pc["listener"] = "loop" /\ Goto("listener", "recv")
      /\ "listener" \in Thread /\ "command" \in Thread
  BY DEF Listen, attributes, Thread
<1>2. /\ DOMAIN pc' = Thread /\ pc'["listener"] = "recv" /\ pc'["command"] = pc["command"]
  BY <1>1 DEF Goto, ConnectionInv, ThreadsInv
<1>3. reading = None /\ soc \in Socket /\ None \notin Socket
  BY <1>1, ConnectionAssumption DEF ConnectionInv, SocketsInv, ThreadsInv
<1>4. \A x \in Socket : x \notin {soc', state_sender', reading'} => sock'[x] = New
  BY <1>1, <1>3 DEF ConnectionInv, SocketsInv, Referred
<1>5. \A u \in Thread : pc'[u] \in Resetting => resets'[u] > 0
  BY <1>1, <1>2 DEF ConnectionInv, ThreadsInv, Resetting, Thread
<1>6. pc'["command"] \in {"prompt", "connectSoc", "connectSender", "connected", "send",
                          "crashed"} \cup Resetting
  BY <1>2 DEF ConnectionInv, SocketsInv, ThreadsInv, Resetting
<1>7. SocketsInv'
  BY <1>1, <1>2, <1>3, <1>4, <1>5, <1>6, SocketsNext
  DEF ConnectionInv, SocketsInv, PortsApart
<1>8. ThreadsInv'
  <2>1. resets' \in [Thread -> 0 .. 2] /\ reading' # None
    BY <1>1, <1>3 DEF ConnectionInv, ThreadsInv
  <2> QED BY <1>2, <1>5, <1>6, <2>1 DEF ThreadsInv
<1> QED  BY <1>1, <1>7, <1>8 DEF ConnectionInv

\* The other side: messages arrive on connections, and connections end.
LEMMA BackendKeeps ==
  ASSUME ConnectionInv, NEW s \in Socket, Answer(s) \/ Timeout(s) \/ Break(s)
  PROVE  ConnectionInv'
<1>1. /\ UNCHANGED <<attributes, reading>> /\ reading' = reading /\ pc' = pc
      /\ resets' = resets /\ command' = command
      /\ troubles' \in 0 .. MaxTroubles
  BY ConnectionAssumption
  DEF Answer, Timeout, Break, threads, ConnectionInv, SocketsInv, ThreadsInv
<1>2. \E new \in SocketState : /\ sock' = [sock EXCEPT ![s] = new]
                               /\ new.conn \in {sock[s].conn, "ended"}
  <2>1. sock[s] \in SocketState
    BY DEF ConnectionInv, SocketsInv, ThreadsInv
  <2>2. CASE Break(s)
    <3>1. /\ sock' = [sock EXCEPT ![s] = [sock[s] EXCEPT !.conn = "ended"]]
      BY <2>2 DEF Break
    <3>2. /\ [sock[s] EXCEPT !.conn = "ended"] \in SocketState
          /\ [sock[s] EXCEPT !.conn = "ended"].conn = "ended"
      BY <2>1 DEF SocketState
    <3> QED BY <3>1, <3>2
  <2>3. ASSUME NEW message \in {"reply", "timeout"}, Deliver(s, message)
        PROVE  \E new \in SocketState : /\ sock' = [sock EXCEPT ![s] = new]
                                        /\ new.conn \in {sock[s].conn, "ended"}
    <3> DEFINE left == IF message = "reply" THEN FALSE ELSE sock[s].asked
               new == [sock[s] EXCEPT !.wire = Append(sock[s].wire, message), !.asked = left]
    <3>1. sock' = [sock EXCEPT ![s] = new]
      BY <2>3 DEF Deliver, ConnectionInv, SocketsInv, ThreadsInv, SocketState
    <3>2. Append(sock[s].wire, message) \in Seq({"reply", "timeout"}) /\ left \in BOOLEAN
      BY <2>1, AppendProperties DEF SocketState
    <3>3. new \in SocketState /\ new.conn = sock[s].conn
      BY <2>1, <3>2 DEF SocketState
    <3> HIDE DEF new
    <3> QED BY <3>1, <3>3
  <2> QED BY <2>2, <2>3 DEF Answer, Timeout
<1>3. PICK new \in SocketState : /\ sock' = [sock EXCEPT ![s] = new]
                                 /\ new.conn \in {sock[s].conn, "ended"}
  BY <1>2
<1>4. s \in Referred
  <2>1. sock[s].conn # "none"
    BY DEF Answer, Timeout, Break, Deliver
  <2> QED BY <2>1, SocketFacts DEF ConnectionInv, SocketsInv, ThreadsInv
<1>5. /\ s = state_sender => new.conn # "main"
      /\ s # state_sender => new.conn # "state"
  <2>1. s # state_sender => s \in {soc, reading}
    BY <1>4 DEF Referred
  <2>2. s # state_sender => sock[s].conn # "state"
    BY <2>1, ConnectionAssumption DEF ConnectionInv, SocketsInv, ThreadsInv, PortsApart
  <2> QED BY <1>3, <2>2 DEF ConnectionInv, SocketsInv, PortsApart
<1>6. SocketsInv'
  BY <1>1, <1>3, <1>4, <1>5, OneSocket
<1>7. ThreadsInv' /\ resets' \in [Thread -> 0 .. 2] /\ command' \in {"startup", "state", "request"}
  BY <1>1 DEF ConnectionInv, SocketsInv, ThreadsInv, Resetting
<1> QED
  BY <1>1, <1>6, <1>7 DEF ConnectionInv

\* Whatever either thread or the backend does next, the invariant stays.
LEMMA ConnectionStep == ConnectionInv /\ [ConnectionNext]_connection => ConnectionInv'
<1> SUFFICES ASSUME ConnectionInv, [ConnectionNext]_connection PROVE ConnectionInv'
  OBVIOUS
<1>1. CASE UNCHANGED connection
  BY <1>1
  DEF connection, attributes, threads, ConnectionInv, SocketsInv, ThreadsInv, PortsApart, Referred
<1>2. ASSUME NEW t \in Thread, Reset(t) PROVE ConnectionInv'
  BY <1>2, ResetConnectedKeeps, CloseBothKeeps, NewSocKeeps, NewSenderKeeps DEF Reset
<1>3. "listener" \in Thread /\ "command" \in Thread
  BY DEF Thread
<1>4. CASE CommandStep
  BY <1>2, <1>3, <1>4, ConnectKeeps, SetConnectedKeeps, SendKeeps
  DEF CommandStep, ConnectSoc, ConnectSender
<1>5. CASE ListenerStep
  <2>1. CASE ListenAgain
    BY <1>1, <2>1 DEF ListenAgain
  <2> QED BY <1>2, <1>3, <1>5, <2>1, ListenKeeps, RecvKeeps DEF ListenerStep
<1>6. CASE \E kind \in {"state", "request"} : StartCommand(kind)
  BY <1>6, StartCommandKeeps
<1>7. CASE \E s \in Socket : Answer(s) \/ Timeout(s) \/ Break(s)
  BY <1>7, BackendKeeps
<1> QED BY <1>1, <1>4, <1>5, <1>6, <1>7 DEF ConnectionNext

\* What each attribute of the node, each socket and each thread can hold at any time,
\* whatever the two threads assign in turn (network.py:28-68).
THEOREM ConnectionTypeCorrect == ConnectionSpec => []ConnectionTypeOK
<1> QED BY InvGivesTypes, ConnectionStarts, ConnectionStep, PTL DEF ConnectionSpec

\* Chains and requests never go to the port for state messages, nor the other way, and
\* the listener never waits for replies on the connection that carries none: resets by
\* both threads and a connect, in any order, leave two sockets in the two attributes,
\* neither of which was ever connected to the other's port (network.py:28-68).
THEOREM PortsStayApart == ConnectionSpec => []PortsApart
<1> QED BY InvGivesTypes, ConnectionStarts, ConnectionStep, PTL DEF ConnectionSpec
=============================================================================
