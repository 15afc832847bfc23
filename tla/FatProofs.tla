------------------------------ MODULE FatProofs ------------------------------
(***************************************************************************)
(* Proofs about module Fat: whatever transfer fails and whenever the drive *)
(* is pulled, the files in the directory stay whole, for every size of the *)
(* volume, number of copies of the table, size of the directory and of a   *)
(* report; and without a failure no cluster is lost.  And about FatMount:  *)
(* the volume that is mounted is one the drive's own tables name.          *)
(***************************************************************************)
EXTENDS Fat, FiniteSetTheorems, SequenceTheorems, WellFoundedInduction, TLAPS

-----------------------------------------------------------------------------
(***************************************************************************)
(* The inductive invariant                                                 *)
(***************************************************************************)
Tag == [name : 0 .. Config, version : Settings, part : Nat]
Entry == [state : {"end", "file", "deleted"}, name : 0 .. Config, first : {0} \cup Cluster,
          size : Nat, version : Settings]
PcValue == {"idle", "write", "find", "free", "alloc", "chain", "fail", "data", "part", "next",
            "entry", "done", "failed", "reboot"}

\* What can be written.
FatWrites == [kind : {"fat"}, copy : 1 .. Copies, cluster : Cluster, value : FatValue]
DataWrites == [kind : {"data"}, cluster : Cluster, value : Tag]
DirWrites == [kind : {"dir"}, slot : 1 .. Slots, value : Entry]
Writes == FatWrites \cup DataWrites \cup DirWrites

OpType ==
  [pc : PcValue, kind : {"none", "config", "restore", "report"}, name : 0 .. Config, size : Nat,
   version : Settings, first : {0} \cup Cluster, prev : {0} \cup Cluster,
   cluster : FatValue, count : 0 .. MaxCluster, freed : 0 .. MaxCluster, slot : 0 .. Slots,
   todo : Seq(Writes), ok : PcValue, fail : PcValue,
   clean : BOOLEAN]

\* The types, in full.
Types ==
  /\ fat \in [1 .. Copies -> [Cluster -> FatValue]]
  /\ data \in [Cluster -> Tag]
  /\ dir \in [1 .. Slots -> Entry]
  /\ settings \in Settings /\ saved \in Settings
  /\ op \in OpType
  /\ faults \in 0 .. MaxFaults /\ pulls \in 0 .. MaxPulls

\* The clusters of the files in the directory.
Owned == UNION {Clusters(s) : s \in Files}

\* The file's entry has a place that find_file_dir_entry gets to, and a first cluster.
Reached == \A s \in Files : dir[s].size > 0 /\ \A t \in 1 .. s : dir[t].state # "end"

\* The clusters no file has.
Spare == Cluster \ Owned

\* n clusters of A from c on that a table f chains, the last one marked as the end.
Path(f, A, c, n) ==
  /\ n \in Nat \ {0}
  /\ \A k \in 1 .. n : ChainIn(f, c, n)[k] \in A
  /\ \A j, k \in 1 .. n : ChainIn(f, c, n)[j] = ChainIn(f, c, n)[k] => j = k
  /\ f[ChainIn(f, c, n)[n]] = EOC
Span(f, c, n) == {ChainIn(f, c, n)[k] : k \in 1 .. n}

\* The chain an operation has built so far: clusters of nobody else.
WorkChain(n) == ChainIn(fat[1], op.first, n)
WorkSet(n) == Span(fat[1], op.first, n)
Work(n) == Path(fat[1], Spare, op.first, n)

\* Its first m clusters hold their parts of the file.
TagOf(k) == [name |-> op.name, version |-> op.version, part |-> k]
HoldsParts(ch, d, name, version, m) ==
  \A k \in 1 .. m : d[ch[k]] = [name |-> name, version |-> version, part |-> k]
Tagged(m) == HoldsParts(WorkChain(op.size), data, op.name, op.version, m)

\* While clusters are collected.
Collected(n) ==
  /\ n = 0 => op.first = 0
  /\ n > 0 => Work(n) /\ op.prev = WorkChain(n)[n]

\* A set of clusters that no way leads out of.
Closed(f, D) == \A d \in D : f[d] \in D \cup {FAT_FREE, EOC}

\* From cluster c on everything may be freed: no way leads to a cluster of a file.
DoomedIn(f, A, c) == \E D \in SUBSET A : c \in D \cup {FAT_FREE, EOC} /\ Closed(f, D)
Doomed(c) == DoomedIn(fat[1], Spare, c)

\* What holds at a point p of an operation, when nothing is left to be written.
At(p) ==
  /\ p = "free" => Doomed(op.cluster)
  /\ p = "fail" => Doomed(op.first)
  /\ p \in {"alloc", "chain"} => Collected(op.count) /\ op.count < op.size
  /\ p = "chain" => /\ op.cluster \in Spare
                    /\ op.cluster \notin WorkSet(op.count)
                    /\ fat[1][op.cluster] = EOC
  /\ p \in {"data", "part", "next", "entry"} => Work(op.size)
  /\ p = "part" => /\ op.count < op.size /\ Tagged(op.count)
                   /\ op.cluster = WorkChain(op.size)[op.count + 1]
  /\ p = "next" => /\ op.count \in 1 .. op.size /\ Tagged(op.count)
                   /\ op.cluster = WorkChain(op.size)[op.count]
  /\ p = "entry" => Tagged(op.size)

\* What is left of the writes of an entry of the table when j copies are written.
FatTodo(c, v, j) ==
  [i \in 1 .. (Copies - j) |-> [kind |-> "fat", copy |-> i + j, cluster |-> c, value |-> v]]

Left == 0 .. (Copies - 1)

\* A directory entry is about to be marked as deleted.
Unlinking ==
  /\ op.ok = "free" /\ op.first = 0
  /\ \E s \in Files :
       /\ op.todo = <<[kind |-> "dir", slot |-> s, value |-> [dir[s] EXCEPT !.state = "deleted"]]>>
       /\ op.cluster = dir[s].first
       /\ dir[s].name = op.name

\* The entry of a cluster is set to free.
Freeing(c, j) ==
  /\ op.ok = "free" /\ op.todo = FatTodo(c, FAT_FREE, j)
  /\ \E D \in SUBSET Spare :
       c \in D /\ op.cluster \in D \cup {FAT_FREE, EOC} /\ Closed(fat[1], D)

\* The entry of a free cluster is set to the end of a chain.
Allocating(j) ==
  /\ op.ok = "chain" /\ op.todo = FatTodo(op.cluster, EOC, j)
  /\ Collected(op.count) /\ op.count < op.size
  /\ op.cluster \in Spare
  /\ op.cluster \notin WorkSet(op.count)
  /\ fat[1][op.cluster] = IF j = 0 THEN FAT_FREE ELSE EOC

\* The cluster is appended to the one before.
Chaining(c, j) ==
  /\ op.todo = FatTodo(c, op.cluster, j)
  /\ op.prev = op.cluster
  /\ op.ok = IF op.count < op.size THEN "alloc" ELSE "data"
  /\ op.count \in 2 .. op.size
  /\ IF j = 0 THEN /\ Work(op.count - 1) /\ c = WorkChain(op.count - 1)[op.count - 1]
                   /\ op.cluster \in Spare
                   /\ op.cluster \notin WorkSet(op.count - 1)
                   /\ fat[1][op.cluster] = EOC
              ELSE Work(op.count) /\ op.cluster = WorkChain(op.count)[op.count]
                   /\ c \in Spare

\* A part of the file is stored.
Storing ==
  /\ op.ok = "next" /\ Work(op.size)
  /\ op.count \in 1 .. op.size /\ Tagged(op.count - 1)
  /\ op.cluster = WorkChain(op.size)[op.count]
  /\ op.todo = <<[kind |-> "data", cluster |-> op.cluster, value |-> TagOf(op.count)]>>

NewEntry == [state |-> "file", name |-> op.name, first |-> op.first, size |-> op.size,
             version |-> op.version]

\* The entry is written.
Entering ==
  /\ op.ok = "done" /\ Work(op.size) /\ Tagged(op.size)
  /\ op.slot \in 1 .. Slots /\ dir[op.slot].state # "file"
  /\ \A t \in 1 .. (op.slot - 1) : dir[t].state # "end"
  /\ op.todo = <<[kind |-> "dir", slot |-> op.slot, value |-> NewEntry]>>

\* A write in progress: what is left to be written, and what holds before that.
Writing ==
  \/ op.todo = << >> /\ At(op.ok)
  \/ Unlinking
  \/ \E c \in Cluster : \E j \in Left : Freeing(c, j) \/ Chaining(c, j)
  \/ \E j \in Left : Allocating(j)
  \/ Storing \/ Entering

\* Where the operation goes when a write fails; the files that operations write.
Stages == {"alloc", "chain", "data", "part", "next", "entry", "done"}
OpInv ==
  /\ op.first = 0 => op.prev = 0 /\ op.count = 0
  /\ op.kind \in {"config", "report"} => op.size > 0
  /\ op.kind = "config" => op.name = Config
  /\ op.kind = "report" => op.name # Config
  /\ op.pc = "find" => op.first = 0
  /\ op.pc \in Stages \/ (op.pc = "write" /\ op.ok \in Stages) => op.kind \in {"config", "report"}
  /\ op.pc = "write" => op.ok \in {"free", "alloc", "chain", "data", "part", "next", "done"}
  /\ op.pc = "write" => op.fail = IF op.ok = "free" THEN AfterFree ELSE "fail"
  /\ op.pc # "write" => op.todo = << >> /\ At(op.pc)
  /\ op.pc = "write" => Writing

\* Safety, whatever fails.
Safe == Types /\ Reached /\ FilesWhole /\ NoCrossLink /\ OpInv

-----------------------------------------------------------------------------
(* Without a failure: nothing is lost. *)

Used == {c \in Cluster : fat[1][c] # FAT_FREE}

\* m clusters from c on are left to be freed.
FreeChain(c, m) ==
  /\ m \in 0 .. (MaxCluster - op.freed)
  /\ m = 0 => c \notin Cluster
  /\ m > 0 => Path(fat[1], Spare, c, m)
ChainSet(c, m) == Span(fat[1], c, m)

\* The clusters in use are those of the files and what the operation holds.
UsedAt(p) ==
  /\ p # "fail"
  /\ p \in {"idle", "find", "failed", "reboot", "done"} => Used = Owned
  /\ p = "alloc" => Used = Owned \cup WorkSet(op.count)
  /\ p = "chain" => Used = Owned \cup WorkSet(op.count) \cup {op.cluster}
  /\ p \in {"data", "part", "next", "entry"} => Used = Owned \cup WorkSet(op.size)
  /\ p = "free" => \E m \in 0 .. MaxCluster : FreeChain(op.cluster, m) /\ Used = Owned \cup ChainSet(op.cluster, m)

UsedFreeing(c, j) ==
  \E m \in 0 .. MaxCluster :
    /\ FreeChain(op.cluster, m) /\ c \notin ChainSet(op.cluster, m)
    /\ Used = Owned \cup ChainSet(op.cluster, m) \cup (IF j = 0 THEN {c} ELSE {})

UsedChaining(j) ==
  Used = Owned \cup IF j = 0 THEN WorkSet(op.count - 1) \cup {op.cluster} ELSE WorkSet(op.count)

UsedAllocating(j) ==
  Used = Owned \cup WorkSet(op.count) \cup (IF j = 0 THEN {} ELSE {op.cluster})

UsedInv ==
  /\ op.pc # "write" => UsedAt(op.pc)
  /\ op.pc = "write" =>
       \/ op.todo = << >> /\ UsedAt(op.ok)
       \/ Unlinking /\ op.freed = 0 /\ Used = Owned
       \/ \E c \in Cluster : \E j \in Left : \/ Freeing(c, j) /\ UsedFreeing(c, j)
                                             \/ Chaining(c, j) /\ UsedChaining(j)
       \/ \E j \in Left : Allocating(j) /\ UsedAllocating(j)
       \/ (Storing \/ Entering) /\ Used = Owned \cup WorkSet(op.size)

\* The copies of the table agree, but for the entry that is being written.
FatPending == op.pc = "write" /\ op.todo # << >> /\ op.todo[1].kind = "fat"
TablesInv ==
  IF FatPending
  THEN \E c \in Cluster : \E v \in FatValue, j \in Left :
         /\ op.todo = FatTodo(c, v, j)
         /\ \A k \in 1 .. Copies : \A d \in Cluster \ {c} : fat[k][d] = fat[1][d]
         /\ \A k \in 1 .. j : fat[k][c] = v
  ELSE \A k \in 1 .. Copies : fat[k] = fat[1]

\* The file of the operation's name is gone before another one gets that name.
DirPending == op.pc = "write" /\ op.todo # << >> /\ op.todo[1].kind = "dir"
NameGone ==
  \/ op.pc \in {"free", "alloc", "chain", "data", "part", "next", "entry"}
  \/ op.pc = "write" /\ op.ok \in {"alloc", "chain", "data", "part", "next"}
  \/ op.pc = "write" /\ op.ok = "free" /\ ~DirPending
  \/ op.pc = "write" /\ op.ok = "done" /\ DirPending
NamesInv ==
  /\ \A s, t \in Files : dir[s].name = dir[t].name => s = t
  /\ NameGone => \A s \in Files : dir[s].name # op.name

\* The settings in the file are those of the last save that went through.
Stored == op.kind = "config" /\ (op.pc = "done" \/ (op.pc = "write" /\ op.ok = "done" /\ ~DirPending))
KeptVersion == IF Stored THEN op.version ELSE saved

\* The operation may still go through.
Unfailed ==
  \/ op.pc \in Stages \cup {"find"} \/ (op.pc = "write" /\ op.ok \in Stages)
  \/ op.first = 0 /\ (op.pc = "free" \/ (op.pc = "write" /\ op.ok = "free"))
KeptInv ==
  /\ \A s \in Files : dir[s].name = Config => dir[s].version = KeptVersion
  /\ Unfailed => op.clean

Sound == UsedInv /\ TablesInv /\ NamesInv /\ KeptInv

NoLoss == faults = 0 /\ pulls = 0 => Sound

\* The record of the mount.
MountShape ==
  /\ DOMAIN mnt = {"pc", "buf", "i", "loaded", "lba", "gpt", "type", "clean"}
  /\ mnt.type \in {0, 16, 32} /\ mnt.i \in Nat

IInv == Safe /\ MountShape /\ NoLoss

(***************************************************************************)
(* The invariant of fat32_mount, of the drive d and the record m           *)
(***************************************************************************)
SectorIn(d, a) == IF a \in DOMAIN d THEN d[a] ELSE NoSector

IsVolume(d, a) == a \in DOMAIN d /\ IsFat(d[a])

\* The place of entry i of the GPT header g, and the entry if it can be read.
PlaceSector(g, i) == g.lba + (i * g.size) \div BlockSize
PlaceOffset(g, i) == (i * g.size) % BlockSize
EntryThere(d, g, i) ==
  /\ PlaceOffset(g, i) + EntryPart <= BlockSize
  /\ PlaceOffset(g, i) \in DOMAIN SectorIn(d, PlaceSector(g, i)).entries
EntryIn(d, g, i) == SectorIn(d, PlaceSector(g, i)).entries[PlaceOffset(g, i)]

\* Entry i leads to no volume.
NoVolumeAt(d, g, i) ==
  EntryThere(d, g, i) /\ EntryIn(d, g, i).guid = "basic" => ~IsVolume(d, EntryIn(d, g, i).lba)

GptHeld(d, m) ==
  /\ 1 \in DOMAIN d /\ m.gpt = d[1].gpt /\ m.gpt # << >> /\ m.gpt.size >= MinEntry
  /\ m.loaded # None => m.buf = SectorIn(d, m.loaded)
  /\ m.clean => \A j \in 0 .. m.i - 1 : NoVolumeAt(d, m.gpt, j)

\* The boot sector that is read next is that of entry m.i.
EntryHeld(d, m) ==
  /\ m.i < m.gpt.count /\ EntryThere(d, m.gpt, m.i)
  /\ EntryIn(d, m.gpt, m.i).guid = "basic" /\ EntryIn(d, m.gpt, m.i).lba = m.lba

\* The table of the MBR is in the buffer, or lost behind the first FAT partition.
TableHeld(d, m) == m.buf = d[0] /\ (m.clean => \A j \in FatParts(d) : j >= m.i)
TableLost(d, m) ==
  /\ \A j \in DOMAIN m.buf.parts : m.buf.parts[j].type \notin FatTypes \/ m.buf.parts[j].lba = 0
  /\ m.clean => \E k \in FatParts(d) : /\ ~IsVolume(d, d[0].parts[k].lba)
                                       /\ \A j \in FatParts(d) : k <= j
PartHeld(d, m) == TableHeld(d, m) \/ TableLost(d, m)

OnGpt == {"gpt", "entry", "gpt_vbr"}
OnMbr == {"mbr", "part"}

FoundRight(d, m) == m.lba \in Volumes(d) /\ m.type = FatType(d[m.lba])

FailedRight(d) ==
  \/ Volumes(d) = {}
  \/ /\ ~HasGpt(d)
     /\ \E i, j \in FatParts(d) : /\ i < j /\ d[0].parts[j].lba \in Volumes(d)
                                  /\ d[0].parts[i].lba \notin Volumes(d)

Held(d, m) ==
  /\ m.pc # "mounted" => d \in Drives
  /\ m.pc \in OnGpt \cup OnMbr => d[0].sig /\ ~IsFat(d[0])
  /\ m.pc \in OnGpt => HasGpt(d)
  /\ m.pc \in OnMbr => ~HasGpt(d)
  /\ m.pc \in {"entry", "gpt_vbr"} => GptHeld(d, m)
  /\ m.pc = "gpt_vbr" => EntryHeld(d, m)
  /\ m.pc = "part" => PartHeld(d, m)
  /\ m.pc = "found" => FoundRight(d, m)
  /\ m.pc = "failed" /\ m.clean => FailedRight(d)

MountInv == Held(drive, mnt)

-----------------------------------------------------------------------------
(***************************************************************************)
(* Least elements: what the two CHOOSEs stand for exists                   *)
(***************************************************************************)
\* A well-founded relation that contains < gives least elements.
LEMMA LeastInOrder ==
  ASSUME NEW R, IsWellFoundedOn(R, Nat), NEW T, T \subseteq Nat, T # {}
  PROVE  (\A x, y \in Nat : x < y => <<x, y>> \in R) => \E x \in T : \A y \in T : x <= y
<1>1. PICK x \in T : \A y \in T : ~ (<<y, x>> \in R)
  BY WFMin, Zenon
<1>2. ASSUME \A v, w \in Nat : v < w => <<v, w>> \in R PROVE \A y \in T : x <= y
  <2>1. \A y \in T : ~ (y < x)
    BY <1>1, <1>2
  <2>2. x \in Nat /\ \A y \in T : y \in Nat
    OBVIOUS
  <2> QED BY <2>1, <2>2
<1> QED BY <1>2

\* A nonempty set of natural numbers has a least element.
LEMMA LeastNatural ==
  ASSUME NEW T, T \subseteq Nat, T # {}
  PROVE  \E x \in T : \A y \in T : x <= y
<1>1. \A x, y \in Nat : x < y => <<x, y>> \in OpToRel(<, Nat)
  BY Zenon DEF OpToRel
<1> QED BY <1>1, LeastInOrder, NatLessThanWellFounded, Zenon

-----------------------------------------------------------------------------
(***************************************************************************)
(* Chains                                                                  *)
(***************************************************************************)
\* One step of a chain.
Link(f, x) == IF x \in Cluster THEN f[x] ELSE EOC

\* The chain satisfies the equation it is defined by.
LEMMA ChainDef ==
  ASSUME NEW f, NEW c, NEW n \in Nat
  PROVE  ChainIn(f, c, n) = [k \in 1 .. n |-> IF k = 1 THEN c ELSE Link(f, ChainIn(f, c, n)[k - 1])]
<1> DEFINE Eq(m, at) == at = [k \in 1 .. m |-> IF k = 1 THEN c ELSE Link(f, at[k - 1])]
           T == {m \in 1 .. n : ~\E at : Eq(m, at)}
<1>1. T = {}
  <2> SUFFICES ASSUME T # {} PROVE FALSE
    OBVIOUS
  <2>0. T \subseteq Nat
    OBVIOUS
  <2>1. PICK m \in T : \A y \in T : m <= y
    BY <2>0, LeastNatural
  <2>2. m \in 1 .. n /\ ~\E at : Eq(m, at)
    OBVIOUS
  <2>3. CASE m = 1
    <3>1. Eq(1, [k \in 1 .. 1 |-> c])
      OBVIOUS
    <3> QED BY <2>2, <2>3, <3>1
  <2>4. CASE m # 1
    <3>1. m - 1 \in 1 .. n /\ m - 1 \notin T
      BY <2>1, <2>2, <2>4
    <3>2. PICK at : Eq(m - 1, at)
      BY <3>1
    <3> DEFINE new == [k \in 1 .. m |-> IF k = m THEN Link(f, at[m - 1]) ELSE at[k]]
    <3>3. ASSUME NEW k \in 1 .. m PROVE new[k] = IF k = 1 THEN c ELSE Link(f, new[k - 1])
      <4>1. CASE k = m
        <5>1. new[k - 1] = at[m - 1]
          BY <2>2, <2>4, <4>1
        <5> QED BY <2>2, <2>4, <4>1, <5>1
      <4>2. CASE k # m
        <5>1. k \in 1 .. m - 1 /\ new[k] = at[k]
          BY <2>2, <4>2
        <5>2. at[k] = IF k = 1 THEN c ELSE Link(f, at[k - 1])
          BY <3>2, <5>1
        <5>3. k # 1 => new[k - 1] = at[k - 1]
          BY <2>2, <4>2, <5>1
        <5> QED BY <5>1, <5>2, <5>3
      <4> QED BY <4>1, <4>2
    <3>4. Eq(m, new)
      <4>1. new = [k \in 1 .. m |-> new[k]]
        OBVIOUS
      <4> HIDE DEF new
      <4> QED BY <3>3, <4>1
    <3> QED BY <2>2, <3>4
  <2> QED BY <2>3, <2>4
<1>2. \E at : Eq(n, at)
  <2>1. CASE n = 0
    <3>1. Eq(0, << >>)
      OBVIOUS
    <3> QED BY <2>1, <3>1
  <2>2. CASE n # 0
    <3>1. n \in 1 .. n /\ n \notin T
      BY <1>1, <2>2
    <3> QED BY <3>1
  <2> QED BY <2>1, <2>2
<1>3. ChainIn(f, c, n) = CHOOSE at : Eq(n, at)
  BY DEF ChainIn, Link
<1> HIDE DEF Eq
<1>4. Eq(n, ChainIn(f, c, n))
  BY <1>2, <1>3
<1> QED BY <1>4 DEF Eq

\* Two sequences agree if each value follows from the agreement of the earlier ones.
LEMMA AgreeUpTo ==
  ASSUME NEW n \in Nat, NEW p, NEW q,
         \A k \in 1 .. n : (\A j \in 1 .. (k - 1) : p[j] = q[j]) => p[k] = q[k]
  PROVE  \A k \in 1 .. n : p[k] = q[k]
<1> DEFINE T == {k \in 1 .. n : p[k] # q[k]}
<1> SUFFICES ASSUME T # {} PROVE FALSE
  OBVIOUS
<1>1. T \subseteq Nat
  OBVIOUS
<1>2. PICK k \in T : \A y \in T : k <= y
  BY <1>1, LeastNatural
<1>3. \A j \in 1 .. (k - 1) : j \in 1 .. n /\ j \notin T
  BY <1>2
<1> QED BY <1>3

\* A value of a chain.
LEMMA ChainAt ==
  ASSUME NEW f, NEW c, NEW n \in Nat, NEW k \in 1 .. n
  PROVE  /\ k = 1 => ChainIn(f, c, n)[k] = c
         /\ k # 1 => ChainIn(f, c, n)[k] = Link(f, ChainIn(f, c, n)[k - 1])
<1> DEFINE at == ChainIn(f, c, n)
           rhs == [i \in 1 .. n |-> IF i = 1 THEN c ELSE Link(f, at[i - 1])]
<1>1. at = rhs
  BY ChainDef
<1>2. rhs[k] = IF k = 1 THEN c ELSE Link(f, at[k - 1])
  OBVIOUS
<1> QED BY <1>1, <1>2

\* Its domain.
LEMMA ChainDomain ==
  ASSUME NEW f, NEW c, NEW n \in Nat
  PROVE  DOMAIN ChainIn(f, c, n) = 1 .. n
<1> DEFINE at == ChainIn(f, c, n)
           rhs == [i \in 1 .. n |-> IF i = 1 THEN c ELSE Link(f, at[i - 1])]
<1>1. at = rhs
  BY ChainDef
<1>2. DOMAIN rhs = 1 .. n
  OBVIOUS
<1> QED BY <1>1, <1>2

\* A chain does not depend on the table elsewhere.
LEMMA ChainFrame ==
  ASSUME NEW f, NEW g, NEW c, NEW n \in Nat,
         \A k \in 1 .. (n - 1) : LET x == ChainIn(f, c, n)[k] IN x \in Cluster => g[x] = f[x]
  PROVE  \A k \in 1 .. n : ChainIn(g, c, n)[k] = ChainIn(f, c, n)[k]
<1> DEFINE p == ChainIn(g, c, n)
           q == ChainIn(f, c, n)
<1>1. ASSUME NEW k \in 1 .. n, \A j \in 1 .. (k - 1) : p[j] = q[j] PROVE p[k] = q[k]
  <2>1. CASE k = 1
    BY <2>1, ChainAt
  <2>2. CASE k # 1
    <3>1. k - 1 \in 1 .. (k - 1) /\ k - 1 \in 1 .. (n - 1)
      BY <2>2
    <3>2. p[k - 1] = q[k - 1]
      BY <3>1, <1>1
    <3>3. p[k] = Link(g, q[k - 1]) /\ q[k] = Link(f, q[k - 1])
      BY <2>2, <3>2, ChainAt
    <3>4. q[k - 1] \in Cluster => g[q[k - 1]] = f[q[k - 1]]
      BY <3>1
    <3> QED BY <3>3, <3>4 DEF Link
  <2> QED BY <2>1, <2>2
<1> HIDE DEF p, q
<1> QED BY <1>1, AgreeUpTo DEF p, q

\* A shorter chain is the beginning of a longer one.
LEMMA ChainPrefix ==
  ASSUME NEW f, NEW c, NEW n \in Nat, NEW m \in 0 .. n
  PROVE  \A k \in 1 .. m : ChainIn(f, c, m)[k] = ChainIn(f, c, n)[k]
<1> DEFINE p == ChainIn(f, c, m)
           q == ChainIn(f, c, n)
<1>1. ASSUME NEW k \in 1 .. m, \A j \in 1 .. (k - 1) : p[j] = q[j] PROVE p[k] = q[k]
  <2>0. k \in 1 .. n /\ m \in Nat
    OBVIOUS
  <2>1. /\ k = 1 => p[k] = c /\ q[k] = c
        /\ k # 1 => p[k] = Link(f, p[k - 1]) /\ q[k] = Link(f, q[k - 1])
    BY <2>0, ChainAt
  <2>2. CASE k = 1
    BY <2>1, <2>2
  <2>3. CASE k # 1
    <3>1. p[k - 1] = q[k - 1]
      BY <1>1, <2>3
    <3> QED BY <2>1, <2>3, <3>1
  <2> QED BY <2>2, <2>3
<1> HIDE DEF p, q
<1>2. m \in Nat
  OBVIOUS
<1> QED BY <1>1, <1>2, AgreeUpTo DEF p, q

\* A chain without its first cluster.
LEMMA ChainTail ==
  ASSUME NEW f, NEW c \in Cluster, NEW n \in Nat
  PROVE  \A k \in 1 .. n : ChainIn(f, f[c], n)[k] = ChainIn(f, c, n + 1)[k + 1]
<1> DEFINE p == ChainIn(f, f[c], n)
           q == ChainIn(f, c, n + 1)
           r == [k \in 1 .. n |-> q[k + 1]]
<1>1. ASSUME NEW k \in 1 .. n, \A j \in 1 .. (k - 1) : p[j] = r[j] PROVE p[k] = r[k]
  <2>0. k + 1 \in 1 .. (n + 1) /\ 1 \in 1 .. (n + 1) /\ r[k] = q[k + 1] /\ n + 1 \in Nat /\ k + 1 # 1
    OBVIOUS
  <2>1. q[k + 1] = Link(f, q[k])
    <3>1. (k + 1) - 1 = k
      OBVIOUS
    <3> QED BY <2>0, <3>1, ChainAt
  <2>2. CASE k = 1
    <3>1. q[1] = c
      BY <2>0, ChainAt
    <3>2. p[k] = f[c]
      BY <2>2, ChainAt
    <3> QED BY <2>0, <2>1, <2>2, <3>1, <3>2 DEF Link
  <2>3. CASE k # 1
    <3>0. k - 1 \in 1 .. (k - 1) /\ k - 1 \in 1 .. n /\ (k - 1) + 1 = k
      BY <2>3
    <3>1. p[k - 1] = r[k - 1] /\ r[k - 1] = q[k]
      BY <1>1, <3>0
    <3>2. p[k] = Link(f, p[k - 1])
      BY <2>3, ChainAt
    <3> QED BY <2>0, <2>1, <3>1, <3>2
  <2> QED BY <2>2, <2>3
<1>2. \A k \in 1 .. n : r[k] = q[k + 1]
  OBVIOUS
<1> HIDE DEF p, q, r
<1>3. \A k \in 1 .. n : p[k] = r[k]
  BY <1>1, AgreeUpTo
<1> QED BY <1>2, <1>3 DEF p, q

\* A chain without a repetition is no longer than there are clusters.
LEMMA ChainLength ==
  ASSUME FatAssumption, NEW n \in Nat, NEW p,
         \A k \in 1 .. n : p[k] \in Cluster,
         \A j, k \in 1 .. n : p[j] = p[k] => j = k
  PROVE  n <= MaxCluster /\ (n > 0 => n < MaxCluster)
<1>1. CASE n = 0
  BY <1>1 DEF FatAssumption
<1>2. CASE n # 0
  <2> DEFINE g == [k \in 1 .. n |-> p[k]]
  <2>0. MaxCluster \in Nat /\ 1 \in 1 .. n
    BY <1>2 DEF FatAssumption
  <2>1. g \in Injection(1 .. n, Cluster)
    BY DEF Injection, IsInjective
  <2>2. IsFiniteSet(Cluster) /\ Cardinality(Cluster) = IF 2 > MaxCluster - 1 THEN 0 ELSE (MaxCluster - 1) - 2 + 1
    BY <2>0, FS_Interval DEF Cluster
  <2>3. Cardinality(1 .. n) <= Cardinality(Cluster)
    BY <2>1, <2>2, FS_Injection
  <2>4. Cardinality(1 .. n) = n
    BY <1>2, FS_Interval
  <2> QED BY <2>0, <2>2, <2>3, <2>4
<1> QED BY <1>1, <1>2

-----------------------------------------------------------------------------
(***************************************************************************)
(* The files in the directory                                              *)
(***************************************************************************)
FileChain(s) == ChainIn(fat[1], dir[s].first, dir[s].size)
FileTag(s, k) == [name |-> dir[s].name, version |-> dir[s].version, part |-> k]

\* What is known of a file.
LEMMA FileFacts ==
  ASSUME Types, Reached, FilesWhole, NEW s \in Files
  PROVE  /\ s \in 1 .. Slots /\ dir[s] \in Entry /\ dir[s].state = "file"
         /\ dir[s].size \in Nat \ {0}
         /\ FileChain(s)[1] = dir[s].first /\ dir[s].first \in Cluster
         /\ \A k \in 1 .. dir[s].size : /\ FileChain(s)[k] \in Cluster
                                        /\ data[FileChain(s)[k]] = FileTag(s, k)
                                        /\ FileChain(s)[k] \in Owned
         /\ \A j, k \in 1 .. dir[s].size : FileChain(s)[j] = FileChain(s)[k] => j = k
         /\ fat[1][FileChain(s)[dir[s].size]] = EOC
         /\ Clusters(s) = {FileChain(s)[k] : k \in 1 .. dir[s].size}
         /\ Clusters(s) \subseteq Owned /\ Clusters(s) \subseteq Cluster
<1>1. s \in 1 .. Slots /\ dir[s] \in Entry /\ dir[s].state = "file"
  BY DEF Types, Files
<1>2. dir[s].size \in Nat \ {0}
  BY <1>1 DEF Entry, Reached
<1>3. FileChain(s)[1] = dir[s].first
  BY <1>2, ChainAt DEF FileChain
<1>4. Clusters(s) = {FileChain(s)[k] : k \in DOMAIN FileChain(s)}
  BY DEF Clusters, ChainFrom, FileChain
<1>5. DOMAIN FileChain(s) = 1 .. dir[s].size
  BY <1>2, ChainDomain DEF FileChain
<1>6. /\ \A k \in 1 .. dir[s].size : FileChain(s)[k] \in Cluster /\ data[FileChain(s)[k]] = FileTag(s, k)
      /\ fat[1][FileChain(s)[dir[s].size]] = EOC
  BY DEF FilesWhole, ChainFrom, FileChain, FileTag
<1>7. ASSUME NEW j \in 1 .. dir[s].size, NEW k \in 1 .. dir[s].size, FileChain(s)[j] = FileChain(s)[k]
      PROVE  j = k
  <2>1. FileTag(s, j) = FileTag(s, k)
    BY <1>6, <1>7
  <2> QED BY <2>1 DEF FileTag
<1>8. Clusters(s) \subseteq Owned
  BY DEF Owned
<1>9. dir[s].first \in Cluster
  BY <1>2, <1>3, <1>6
<1> QED BY <1>1, <1>2, <1>3, <1>4, <1>5, <1>6, <1>7, <1>8, <1>9

\* A step that leaves the clusters of the files and the directory alone leaves the files alone.
LEMMA FilesFramed ==
  ASSUME Types, Reached, FilesWhole, NoCrossLink, dir' = dir,
         \A c \in Owned : fat'[1][c] = fat[1][c] /\ data'[c] = data[c]
  PROVE  Files' = Files /\ Owned' = Owned /\ Reached' /\ FilesWhole' /\ NoCrossLink'
<1>1. Files' = Files
  BY DEF Files
<1>2. Reached'
  BY <1>1 DEF Reached
<1>3. ASSUME NEW s \in Files, NEW k \in 1 .. dir[s].size
      PROVE  FileChain(s)'[k] = FileChain(s)[k]
  <2>1. dir[s].size \in Nat /\ \A i \in 1 .. dir[s].size : FileChain(s)[i] \in Owned
    BY FileFacts
  <2>2. \A i \in 1 .. (dir[s].size - 1) : fat'[1][FileChain(s)[i]] = fat[1][FileChain(s)[i]]
    BY <2>1
  <2>3. FileChain(s)' = ChainIn(fat'[1], dir[s].first, dir[s].size)
    BY DEF FileChain
  <2> QED BY <2>1, <2>2, <2>3, ChainFrame DEF FileChain
<1>4. ASSUME NEW s \in Files PROVE Clusters(s)' = Clusters(s)
  <2>1. dir[s].size \in Nat /\ Clusters(s) = {FileChain(s)[k] : k \in 1 .. dir[s].size}
    BY FileFacts
  <2>2. Clusters(s)' = {FileChain(s)'[k] : k \in DOMAIN FileChain(s)'}
    BY DEF Clusters, ChainFrom, FileChain
  <2>3. DOMAIN FileChain(s)' = 1 .. dir[s].size
    BY <2>1, ChainDomain DEF FileChain
  <2> QED BY <1>3, <2>1, <2>2, <2>3
<1>5. Owned' = Owned
  BY <1>1, <1>4 DEF Owned
<1>6. FilesWhole'
  <2>1. ASSUME NEW s \in Files
        PROVE  /\ \A k \in 1 .. dir[s].size : FileChain(s)'[k] \in Cluster /\ data'[FileChain(s)'[k]] = FileTag(s, k)
               /\ fat'[1][FileChain(s)'[dir[s].size]] = EOC
    <3>1. /\ dir[s].size \in 1 .. dir[s].size /\ fat[1][FileChain(s)[dir[s].size]] = EOC
          /\ \A k \in 1 .. dir[s].size : /\ FileChain(s)[k] \in Cluster /\ FileChain(s)[k] \in Owned
                                         /\ data[FileChain(s)[k]] = FileTag(s, k)
      BY FileFacts
    <3> QED BY <1>3, <3>1
  <2> QED BY <1>1, <2>1 DEF FilesWhole, ChainFrom, FileChain, FileTag
<1>7. NoCrossLink'
  BY <1>1, <1>4 DEF NoCrossLink
<1> QED BY <1>1, <1>2, <1>5, <1>6, <1>7

-----------------------------------------------------------------------------
(***************************************************************************)
(* The writes of an entry of the table                                     *)
(***************************************************************************)
\* All of them, before the first.
LEMMA FatTodoAll ==
  ASSUME FatAssumption, NEW c, NEW v
  PROVE  FatWriteEntry(c, v) = FatTodo(c, v, 0) /\ 0 \in Left
<1>1. Copies \in Nat \ {0}
  BY DEF FatAssumption
<1>2. Copies - 0 = Copies /\ 0 \in Left
  BY <1>1 DEF Left
<1>3. \A i \in 1 .. Copies : i + 0 = i
  BY <1>1
<1> QED BY <1>2, <1>3 DEF FatWriteEntry, FatTodo

\* A function on 1 .. n is a sequence.
LEMMA FunctionIsSeq ==
  ASSUME NEW S, NEW n \in Nat, NEW t \in [1 .. n -> S]
  PROVE  t \in Seq(S) /\ Len(t) = n
<1>1. t \in Seq(S)
  BY SeqDef
<1>2. Len(t) \in Nat /\ DOMAIN t = 1 .. Len(t) /\ DOMAIN t = 1 .. n
  BY <1>1, LenProperties
<1>3. Len(t) # 0 => Len(t) \in 1 .. n
  BY <1>2
<1>4. n # 0 => n \in 1 .. Len(t)
  BY <1>2
<1> QED BY <1>1, <1>2, <1>3, <1>4

\* Those that are left are a sequence of writes to the table.
LEMMA FatTodoSeq ==
  ASSUME FatAssumption, NEW c \in Cluster, NEW v \in FatValue, NEW j \in 0 .. Copies
  PROVE  /\ FatTodo(c, v, j) \in Seq(FatWrites) /\ Len(FatTodo(c, v, j)) = Copies - j
         /\ \A i \in 1 .. (Copies - j) :
              FatTodo(c, v, j)[i] = [kind |-> "fat", copy |-> i + j, cluster |-> c, value |-> v]
<1> DEFINE t == FatTodo(c, v, j)
           n == Copies - j
<1>1. n \in Nat /\ Copies \in Nat /\ j \in Nat
  BY DEF FatAssumption
<1>2. \A i \in 1 .. n : t[i] = [kind |-> "fat", copy |-> i + j, cluster |-> c, value |-> v]
  BY DEF FatTodo
<1>3. ASSUME NEW i \in 1 .. n PROVE t[i] \in FatWrites
  <2>1. i + j \in 1 .. Copies
    BY <1>1
  <2>2. [kind |-> "fat", copy |-> i + j, cluster |-> c, value |-> v] \in FatWrites
    BY <2>1 DEF FatWrites
  <2> QED BY <1>2, <2>2
<1>4. t \in [1 .. n -> FatWrites]
  BY <1>3 DEF FatTodo
<1>5. t \in Seq(FatWrites) /\ Len(t) = n
  BY <1>1, <1>4, FunctionIsSeq
<1> QED BY <1>2, <1>5

\* The next one and those after it.
LEMMA FatTodoNext ==
  ASSUME FatAssumption, NEW c \in Cluster, NEW v \in FatValue, NEW j \in Left
  PROVE  /\ FatTodo(c, v, j) # << >>
         /\ Head(FatTodo(c, v, j)) = [kind |-> "fat", copy |-> j + 1, cluster |-> c, value |-> v]
         /\ Tail(FatTodo(c, v, j)) = FatTodo(c, v, j + 1)
         /\ j + 1 \in Left \/ FatTodo(c, v, j + 1) = << >>
         /\ j + 1 \in 1 .. Copies
<1> DEFINE t == FatTodo(c, v, j)
           u == FatTodo(c, v, j + 1)
<1>1. Copies \in Nat \ {0} /\ j \in Nat /\ j < Copies /\ j \in 0 .. Copies /\ j + 1 \in 0 .. Copies
  BY DEF FatAssumption, Left
<1>2. /\ t \in Seq(FatWrites) /\ Len(t) = Copies - j
      /\ \A i \in 1 .. (Copies - j) : t[i] = [kind |-> "fat", copy |-> i + j, cluster |-> c, value |-> v]
  BY <1>1, FatTodoSeq
<1>3. /\ u \in Seq(FatWrites) /\ Len(u) = Copies - (j + 1)
      /\ \A i \in 1 .. (Copies - (j + 1)) : u[i] = [kind |-> "fat", copy |-> i + (j + 1), cluster |-> c, value |-> v]
  BY <1>1, FatTodoSeq
<1> HIDE DEF t, u
<1>4. t # << >> /\ Head(t) = t[1]
  BY <1>1, <1>2
<1>5. t[1] = [kind |-> "fat", copy |-> j + 1, cluster |-> c, value |-> v]
  <2>1. 1 \in 1 .. (Copies - j) /\ 1 + j = j + 1
    BY <1>1
  <2> QED BY <1>2, <2>1
<1>6. Tail(t) = u
  <2>1. Tail(t) \in Seq(FatWrites) /\ Len(Tail(t)) = Copies - (j + 1)
        /\ \A i \in 1 .. Len(Tail(t)) : Tail(t)[i] = t[i + 1]
    BY <1>1, <1>2, <1>4, HeadTailProperties
  <2>2. ASSUME NEW i \in 1 .. (Copies - (j + 1)) PROVE Tail(t)[i] = u[i]
    <3>1. i + 1 \in 1 .. (Copies - j) /\ (i + 1) + j = i + (j + 1) /\ i \in 1 .. Len(Tail(t))
      BY <1>1, <2>1
    <3> QED BY <1>2, <1>3, <2>1, <3>1
  <2> QED BY <1>3, <2>1, <2>2, SeqEqual
<1>7. j + 1 \in Left \/ u = << >>
  <2>1. j + 1 \in Left \/ Len(u) = 0
    BY <1>1, <1>3 DEF Left
  <2> QED BY <1>3, <2>1, EmptySeq
<1>8. j + 1 \in 1 .. Copies
  BY <1>1
<1> QED BY <1>4, <1>5, <1>6, <1>7, <1>8 DEF t, u

-----------------------------------------------------------------------------
(***************************************************************************)
(* Paths                                                                   *)
(***************************************************************************)
\* A cluster on its own.
LEMMA PathOne ==
  ASSUME NEW f, NEW A, NEW c \in A, f[c] = EOC
  PROVE  Path(f, A, c, 1) /\ Span(f, c, 1) = {c} /\ ChainIn(f, c, 1)[1] = c
<1>1. ChainIn(f, c, 1)[1] = c
  BY ChainAt
<1> QED BY <1>1 DEF Path, Span

\* The ends of a path.
LEMMA PathEnds ==
  ASSUME NEW f, NEW A, NEW c, NEW n, Path(f, A, c, n)
  PROVE  /\ n \in Nat \ {0} /\ c \in A /\ ChainIn(f, c, n)[1] = c
         /\ ChainIn(f, c, n)[n] \in A /\ ChainIn(f, c, n)[n] \in Span(f, c, n) /\ c \in Span(f, c, n)
         /\ Span(f, c, n) \subseteq A /\ f[ChainIn(f, c, n)[n]] = EOC
<1>1. n \in Nat \ {0} /\ 1 \in 1 .. n /\ n \in 1 .. n
  BY DEF Path
<1>2. ChainIn(f, c, n)[1] = c
  BY <1>1, ChainAt
<1> QED BY <1>1, <1>2 DEF Path, Span

\* A path has no more clusters than there are.
LEMMA PathLength ==
  ASSUME FatAssumption, NEW f, NEW A \in SUBSET Cluster, NEW c, NEW n, Path(f, A, c, n)
  PROVE  n \in Nat /\ n <= MaxCluster /\ n < MaxCluster
<1> DEFINE p == ChainIn(f, c, n)
<1>1. n \in Nat /\ n > 0 /\ (\A k \in 1 .. n : p[k] \in Cluster) /\ (\A j, k \in 1 .. n : p[j] = p[k] => j = k)
  BY DEF Path
<1> HIDE DEF p
<1> QED BY <1>1, ChainLength

\* A path does not depend on the table elsewhere.
LEMMA PathFrame ==
  ASSUME NEW f, NEW g, NEW A, NEW c, NEW n, Path(f, A, c, n),
         \A x \in Span(f, c, n) : g[x] = f[x]
  PROVE  /\ Path(g, A, c, n) /\ Span(g, c, n) = Span(f, c, n)
         /\ \A k \in 1 .. n : ChainIn(g, c, n)[k] = ChainIn(f, c, n)[k]
<1>1. n \in Nat \ {0} /\ n \in 1 .. n /\ \A k \in 1 .. n : ChainIn(f, c, n)[k] \in Span(f, c, n)
  BY DEF Path, Span
<1>2. \A k \in 1 .. n : g[ChainIn(f, c, n)[k]] = f[ChainIn(f, c, n)[k]]
  BY <1>1
<1>3. \A k \in 1 .. n : ChainIn(g, c, n)[k] = ChainIn(f, c, n)[k]
  BY <1>1, <1>2, ChainFrame
<1>4. Span(g, c, n) = Span(f, c, n)
  BY <1>3 DEF Span
<1>5. g[ChainIn(g, c, n)[n]] = EOC
  BY <1>1, <1>2, <1>3 DEF Path
<1>6. Path(g, A, c, n)
  BY <1>3, <1>5 DEF Path
<1> QED BY <1>3, <1>4, <1>6

\* A cluster of its own appended to a path.
LEMMA PathAppend ==
  ASSUME NEW f, NEW g, NEW A \in SUBSET Cluster, NEW c, NEW n, Path(f, A, c, n),
         NEW x \in A, x \notin Span(f, c, n), f[x] = EOC,
         g[ChainIn(f, c, n)[n]] = x, \A y \in A : y # ChainIn(f, c, n)[n] => g[y] = f[y]
  PROVE  /\ Path(g, A, c, n + 1) /\ Span(g, c, n + 1) = Span(f, c, n) \cup {x}
         /\ ChainIn(g, c, n + 1)[n + 1] = x
<1> DEFINE p == ChainIn(f, c, n)
           q == ChainIn(g, c, n)
           r == ChainIn(g, c, n + 1)
<1>1. n \in Nat \ {0} /\ n \in 1 .. n /\ n + 1 \in Nat /\ n \in 0 .. (n + 1)
  BY DEF Path
<1>2. (\A k \in 1 .. n : p[k] \in A /\ p[k] \in Span(f, c, n)) /\ (\A j, k \in 1 .. n : p[j] = p[k] => j = k)
  BY DEF Path, Span
<1>3. \A k \in 1 .. (n - 1) : g[p[k]] = f[p[k]]
  <2> SUFFICES ASSUME NEW k \in 1 .. (n - 1) PROVE g[p[k]] = f[p[k]]
    OBVIOUS
  <2>1. k \in 1 .. n /\ k # n
    BY <1>1
  <2>2. p[k] \in A /\ p[k] # p[n]
    BY <1>1, <1>2, <2>1
  <2> QED BY <2>2
<1>4. \A k \in 1 .. n : q[k] = p[k]
  BY <1>1, <1>3, ChainFrame
<1>5. \A k \in 1 .. n : r[k] = q[k]
  BY <1>1, ChainPrefix
<1>6. r[n + 1] = x
  <2>1. n + 1 \in 1 .. (n + 1) /\ n + 1 # 1 /\ (n + 1) - 1 = n
    BY <1>1
  <2>2. r[n + 1] = Link(g, r[n])
    BY <1>1, <2>1, ChainAt
  <2>3. r[n] = p[n] /\ p[n] \in Cluster
    BY <1>1, <1>2, <1>4, <1>5
  <2> QED BY <2>2, <2>3 DEF Link
<1> HIDE DEF p, q, r
<1>7. \A k \in 1 .. (n + 1) : (k \in 1 .. n /\ r[k] = p[k]) \/ (k = n + 1 /\ r[k] = x)
  BY <1>1, <1>4, <1>5, <1>6
<1>8. \A k \in 1 .. (n + 1) : r[k] \in A
  BY <1>2, <1>7
<1>9. \A j, k \in 1 .. (n + 1) : r[j] = r[k] => j = k
  BY <1>2, <1>7
<1>10. g[r[n + 1]] = EOC
  <2>1. x # p[n]
    BY <1>1, <1>2
  <2> QED BY <1>6, <2>1 DEF p
<1>11. Path(g, A, c, n + 1)
  BY <1>1, <1>8, <1>9, <1>10 DEF Path, r
<1>12. Span(g, c, n + 1) = {r[k] : k \in 1 .. (n + 1)} /\ Span(f, c, n) = {p[k] : k \in 1 .. n}
  BY DEF Span, r, p
<1>13. \A k \in 1 .. n : k \in 1 .. (n + 1) /\ r[k] = p[k]
  BY <1>1, <1>4, <1>5
<1>14. {r[k] : k \in 1 .. (n + 1)} = {p[k] : k \in 1 .. n} \cup {x}
  <2>1. n + 1 \in 1 .. (n + 1)
    BY <1>1
  <2> QED BY <1>6, <1>7, <1>13, <2>1
<1> QED BY <1>6, <1>11, <1>12, <1>14 DEF r

\* A path without its first cluster: nothing is left, or a shorter path.
ShorterBy(f, A, c, n) ==
  /\ n = 1 => f[c] = EOC /\ Span(f, c, n) = {c}
  /\ n > 1 => /\ Path(f, A, f[c], n - 1) /\ c \notin Span(f, f[c], n - 1)
              /\ Span(f, c, n) = {c} \cup Span(f, f[c], n - 1)
LEMMA PathTail ==
  ASSUME NEW f, NEW A \in SUBSET Cluster, NEW c, NEW n, Path(f, A, c, n)
  PROVE  ShorterBy(f, A, c, n)
<1> DEFINE p == ChainIn(f, c, n)
           q == ChainIn(f, f[c], n - 1)
<1>1. n \in Nat \ {0} /\ 1 \in 1 .. n /\ n \in 1 .. n /\ p[1] = c /\ c \in Cluster /\ f[p[n]] = EOC
  BY PathEnds DEF Path
<1>2. CASE n = 1
  BY <1>1, <1>2 DEF Span, ShorterBy
<1>3. CASE n > 1
  <2>1. n - 1 \in Nat \ {0} /\ (n - 1) + 1 = n /\ n - 1 \in 1 .. (n - 1)
    BY <1>1, <1>3
  <2>2. \A k \in 1 .. (n - 1) : q[k] = p[k + 1]
    BY <1>1, <2>1, ChainTail
  <2>3. (\A k \in 1 .. n : p[k] \in A) /\ (\A j, k \in 1 .. n : p[j] = p[k] => j = k)
    BY DEF Path
  <2> HIDE DEF p, q
  <2>4. \A k \in 1 .. (n - 1) : k + 1 \in 1 .. n /\ k + 1 # 1
    BY <1>1
  <2>5. /\ \A k \in 1 .. (n - 1) : q[k] \in A
        /\ \A j, k \in 1 .. (n - 1) : q[j] = q[k] => j = k
    <3>1. \A k \in 1 .. (n - 1) : q[k] \in A
      BY <2>2, <2>3, <2>4
    <3>2. ASSUME NEW j \in 1 .. (n - 1), NEW k \in 1 .. (n - 1), q[j] = q[k] PROVE j = k
      <4>1. j + 1 = k + 1
        BY <2>2, <2>3, <2>4, <3>2
      <4> QED BY <4>1
    <3> QED BY <3>1, <3>2
  <2>6. f[q[n - 1]] = EOC
    <3>1. q[n - 1] = p[n]
      BY <2>1, <2>2
    <3> QED BY <1>1, <3>1
  <2>7. Path(f, A, f[c], n - 1)
    BY <2>1, <2>5, <2>6 DEF Path, q
  <2>8. \A k \in 1 .. (n - 1) : q[k] # c
    BY <1>1, <2>2, <2>3, <2>4
  <2>9. Span(f, c, n) = {p[k] : k \in 1 .. n} /\ Span(f, f[c], n - 1) = {q[k] : k \in 1 .. (n - 1)}
    BY DEF Span, p, q
  <2>10. \A k \in 1 .. n : k = 1 \/ (k - 1 \in 1 .. (n - 1) /\ p[k] = q[k - 1])
    <3> SUFFICES ASSUME NEW k \in 1 .. n, k # 1 PROVE k - 1 \in 1 .. (n - 1) /\ p[k] = q[k - 1]
      OBVIOUS
    <3>1. k - 1 \in 1 .. (n - 1) /\ (k - 1) + 1 = k
      BY <1>1
    <3> QED BY <2>2, <3>1
  <2>11. {p[k] : k \in 1 .. n} = {c} \cup {q[k] : k \in 1 .. (n - 1)}
    BY <1>1, <2>2, <2>4, <2>10
  <2> QED BY <1>3, <2>7, <2>8, <2>9, <2>11 DEF ShorterBy
<1> QED BY <1>1, <1>2, <1>3

\* A path leads to nothing but its own clusters.
LEMMA PathClosed ==
  ASSUME NEW f, NEW A \in SUBSET Cluster, NEW c, NEW n, Path(f, A, c, n)
  PROVE  Closed(f, Span(f, c, n)) /\ DoomedIn(f, A, c)
<1> DEFINE p == ChainIn(f, c, n)
<1>1. n \in Nat \ {0} /\ f[p[n]] = EOC /\ \A k \in 1 .. n : p[k] \in Cluster
  BY DEF Path
<1>2. ASSUME NEW k \in 1 .. n PROVE f[p[k]] \in Span(f, c, n) \cup {FAT_FREE, EOC}
  <2>1. CASE k = n
    BY <1>1, <2>1
  <2>2. CASE k # n
    <3>1. k + 1 \in 1 .. n /\ k + 1 # 1 /\ (k + 1) - 1 = k
      BY <1>1, <2>2
    <3>2. p[k + 1] = Link(f, p[k])
      BY <1>1, <3>1, ChainAt
    <3>3. p[k + 1] = f[p[k]]
      BY <1>1, <3>2 DEF Link
    <3> QED BY <3>1, <3>3 DEF Span
  <2> QED BY <2>1, <2>2
<1>3. Closed(f, Span(f, c, n))
  BY <1>2 DEF Closed, Span
<1>4. Span(f, c, n) \in SUBSET A /\ c \in Span(f, c, n)
  BY PathEnds
<1> QED BY <1>3, <1>4 DEF DoomedIn

-----------------------------------------------------------------------------
(***************************************************************************)
(* Steps that do not write                                                 *)
(***************************************************************************)
\* The disk and the clusters of the files stay what they are.
LEMMA Quiet ==
  ASSUME Safe, UNCHANGED diskVars
  PROVE  /\ fat' = fat /\ data' = data /\ dir' = dir /\ Files' = Files /\ Owned' = Owned /\ Spare' = Spare
         /\ Reached' /\ FilesWhole' /\ NoCrossLink'
<1>1. fat' = fat /\ data' = data /\ dir' = dir
  BY DEF diskVars
<1>2. Files' = Files /\ Owned' = Owned /\ Reached' /\ FilesWhole' /\ NoCrossLink'
  BY <1>1, FilesFramed DEF Safe
<1>3. Spare' = Spare
  BY <1>2 DEF Spare
<1> QED BY <1>1, <1>2, <1>3

\* The fields of an operation that goes on at another point.
LEMMA GoToFields ==
  ASSUME NEW o \in OpType, NEW p \in PcValue, NEW q \in OpType, q = [o EXCEPT !.pc = p]
  PROVE  /\ q.pc = p /\ q.todo = o.todo /\ q.ok = o.ok /\ q.fail = o.fail
         /\ q.kind = o.kind /\ q.name = o.name /\ q.size = o.size /\ q.version = o.version
         /\ q.first = o.first /\ q.prev = o.prev /\ q.cluster = o.cluster /\ q.count = o.count
         /\ q.freed = o.freed /\ q.slot = o.slot /\ q.clean = o.clean
BY DEF OpType

LEMMA GoToType ==
  ASSUME NEW o \in OpType, NEW p \in PcValue
  PROVE  [o EXCEPT !.pc = p] \in OpType
BY DEF OpType

\* An operation that starts to write.
LEMMA BeginFields ==
  ASSUME NEW o \in OpType, NEW todo \in Seq(Writes), NEW ok \in PcValue, NEW fail \in PcValue,
         NEW q, q = Begin(o, todo, ok, fail)
  PROVE  /\ q \in OpType /\ q.pc = "write" /\ q.todo = todo /\ q.ok = ok /\ q.fail = fail
         /\ q.kind = o.kind /\ q.name = o.name /\ q.size = o.size /\ q.version = o.version
         /\ q.first = o.first /\ q.prev = o.prev /\ q.cluster = o.cluster /\ q.count = o.count
         /\ q.freed = o.freed /\ q.slot = o.slot /\ q.clean = o.clean
<1>1. "write" \in PcValue
  BY DEF PcValue
<1>2. q \in OpType
  BY <1>1 DEF OpType, Begin
<1>3. q.pc = "write" /\ q.todo = todo /\ q.ok = ok /\ q.fail = fail
  BY DEF OpType, Begin
<1>4. /\ q.kind = o.kind /\ q.name = o.name /\ q.size = o.size /\ q.version = o.version
      /\ q.first = o.first /\ q.prev = o.prev /\ q.cluster = o.cluster /\ q.count = o.count
      /\ q.freed = o.freed /\ q.slot = o.slot /\ q.clean = o.clean
  BY DEF OpType, Begin
<1> QED BY <1>2, <1>3, <1>4

\* The writes are done.
LEMMA WrittenStep ==
  ASSUME FatAssumption, Safe, op.pc = "write", op.todo = << >>, op' = [op EXCEPT !.pc = op.ok], UNCHANGED diskVars
  PROVE  op' \in OpType /\ OpInv'
<1>1. op \in OpType /\ OpInv
  BY DEF Safe, Types
<1>2. op.ok \in PcValue /\ op.ok # "write" /\ op.ok # "find"
  BY <1>1 DEF OpType, OpInv
<1>3. op' \in OpType
  BY <1>1, <1>2, GoToType
<1>4. /\ op'.pc = op.ok /\ op'.todo = op.todo /\ op'.ok = op.ok /\ op'.fail = op.fail
      /\ op'.kind = op.kind /\ op'.name = op.name /\ op'.size = op.size /\ op'.version = op.version
      /\ op'.first = op.first /\ op'.prev = op.prev /\ op'.cluster = op.cluster /\ op'.count = op.count
      /\ op'.freed = op.freed /\ op'.slot = op.slot /\ op'.clean = op.clean
  BY <1>1, <1>2, <1>3, GoToFields
<1>5. fat' = fat /\ data' = data /\ Spare' = Spare
  BY Quiet
<1>6. At(op.ok)
  <2>1. Writing
    BY <1>1 DEF OpInv
  <2>2. \A c \in Cluster : \A j \in Left : ~Freeing(c, j) /\ ~Chaining(c, j)
    <3> SUFFICES ASSUME NEW c \in Cluster, NEW j \in Left PROVE ~Freeing(c, j) /\ ~Chaining(c, j)
      OBVIOUS
    <3>1. FAT_FREE \in FatValue /\ op.cluster \in FatValue
      BY <1>1 DEF FatValue, OpType
    <3> QED BY <3>1, FatTodoNext DEF Freeing, Chaining
  <2>3. ASSUME NEW j \in Left PROVE ~Allocating(j)
    <3>1. EOC \in FatValue
      BY DEF FatValue
    <3> QED BY <3>1, FatTodoNext DEF Allocating, Spare
  <2>4. ~Unlinking /\ ~Storing /\ ~Entering
    BY DEF Unlinking, Storing, Entering
  <2> QED BY <2>1, <2>2, <2>3, <2>4 DEF Writing
<1>7. At(op.pc)'
  BY <1>4, <1>5, <1>6 DEF At, Doomed, Collected, Work, WorkChain, WorkSet, Tagged
<1> QED BY <1>1, <1>2, <1>3, <1>4, <1>7 DEF OpInv, Stages

\* The least element there is.
LEMMA LeastIs ==
  ASSUME NEW T, T \subseteq Nat, T # {}
  PROVE  Least(T) \in T /\ \A y \in T : Least(T) <= y
<1>1. \E x \in T : \A y \in T : x <= y
  BY LeastNatural
<1> QED BY <1>1 DEF Least

\* find_file_dir_entry finds a file that has the name, if there is one.
LEMMA FindFileFacts ==
  ASSUME FatAssumption, Reached, NEW name
  PROVE  /\ FindFile(name) # 0 => FindFile(name) \in Files /\ dir[FindFile(name)].name = name
         /\ FindFile(name) = 0 => \A s \in Files : dir[s].name # name
<1> DEFINE found == {s \in UsedSlots : dir[s].state = "file" /\ dir[s].name = name}
<1>1. FindFile(name) = IF found = {} THEN 0 ELSE Least(found)
  BY DEF FindFile
<1>2. found = {s \in Files : dir[s].name = name}
  BY DEF UsedSlots, Files, Reached
<1>3. found \subseteq Nat /\ 0 \notin found
  BY <1>2 DEF Files
<1>4. CASE found = {}
  BY <1>1, <1>2, <1>4
<1>5. CASE found # {}
  <2>1. Least(found) \in found
    BY <1>3, <1>5, LeastIs
  <2> QED BY <1>1, <1>2, <1>3, <1>5, <2>1
<1> QED BY <1>4, <1>5

\* find_free_dir_entry finds the first slot without a file.
LEMMA FindFreeFacts ==
  ASSUME FatAssumption, FindFree # 0
  PROVE  /\ FindFree \in 1 .. Slots /\ dir[FindFree].state # "file"
         /\ \A t \in 1 .. (FindFree - 1) : dir[t].state = "file"
<1> DEFINE free == {s \in 1 .. Slots : dir[s].state # "file"}
<1>1. free # {} /\ FindFree = Least(free)
  BY DEF FindFree
<1>2. free \subseteq Nat
  OBVIOUS
<1>3. FindFree \in free /\ \A y \in free : FindFree <= y
  BY <1>1, <1>2, LeastIs
<1>4. Slots \in Nat
  BY DEF FatAssumption
<1>5. \A t \in 1 .. (FindFree - 1) : t \in 1 .. Slots /\ t \notin free
  BY <1>3, <1>4
<1> QED BY <1>3, <1>5

\* The numbers 0 and max_cluster are no clusters.
LEMMA NoClusters ==
  ASSUME FatAssumption
  PROVE  /\ FAT_FREE \notin Cluster /\ EOC \notin Cluster /\ 0 \notin Cluster /\ FAT_FREE = 0
         /\ Cluster # {} => FAT_FREE # EOC
         /\ FAT_FREE \in FatValue /\ EOC \in FatValue /\ Cluster \subseteq FatValue /\ 0 \in FatValue
         /\ Cluster \subseteq Nat
BY DEF FatAssumption, FAT_FREE, EOC, Cluster, FatValue

\* Nothing in progress.
LEMMA IdleStep ==
  ASSUME FatAssumption, op' = Idle
  PROVE  op' \in OpType /\ OpInv' /\ op'.pc = "idle"
<1>1. op'.pc = "idle" /\ op'.first = 0 /\ op'.prev = 0 /\ op'.count = 0 /\ op'.kind = "none" /\ op'.todo = << >>
  BY DEF Idle
<1>2. op' \in OpType
  <2>1. << >> \in Seq(Writes) /\ 0 \in FatValue /\ 0 \in 0 .. MaxCluster /\ 0 \in 0 .. Slots /\ Config \in 0 .. Config
        /\ Default \in Settings /\ "idle" \in PcValue
    BY DEF FatAssumption, FatValue, FAT_FREE, Config, PcValue
  <2> QED BY <2>1 DEF Idle, OpType
<1> QED BY <1>1, <1>2 DEF OpInv, At, Stages

\* An operation begins.
LEMMA StartStep ==
  ASSUME FatAssumption, NEW kind \in {"config", "restore", "report"}, NEW name \in 0 .. Config,
         NEW size \in Nat, NEW version \in Settings, NEW pc \in {"find", "alloc"},
         Start(kind, name, size, version, pc),
         kind # "restore" => size > 0, kind = "config" => name = Config, kind = "report" => name # Config,
         pc = "alloc" => kind = "report"
  PROVE  /\ op' \in OpType /\ OpInv'
         /\ op'.pc = pc /\ op'.kind = kind /\ op'.name = name /\ op'.size = size /\ op'.version = version
         /\ op'.first = 0 /\ op'.count = 0 /\ op'.clean = TRUE /\ op'.todo = << >>
<1>1. op'.pc = pc /\ op'.kind = kind /\ op'.name = name /\ op'.size = size /\ op'.version = version
      /\ op'.first = 0 /\ op'.prev = 0 /\ op'.count = 0 /\ op'.clean = TRUE /\ op'.todo = << >>
  BY DEF Start, Idle
<1>2. op' \in OpType
  <2>1. << >> \in Seq(Writes) /\ 0 \in FatValue /\ 0 \in 0 .. MaxCluster /\ 0 \in 0 .. Slots /\ pc \in PcValue
        /\ "idle" \in PcValue
    BY DEF FatAssumption, FatValue, FAT_FREE, Config, PcValue
  <2> QED BY <2>1 DEF Start, Idle, OpType
<1>3. At(op.pc)'
  BY <1>1 DEF At, Collected
<1> QED BY <1>1, <1>2, <1>3 DEF OpInv, Stages

\* The deletion ends: a file is written next, or nothing.
LEMMA DeletedStep ==
  ASSUME FatAssumption, op \in OpType, op' \in OpType, op'.pc = IF op.kind = "config" THEN "alloc" ELSE "reboot",
         op'.first = 0, op'.prev = 0, op'.count = 0, op'.kind = op.kind, op'.name = op.name,
         op'.size = op.size, op'.todo = << >>, OpInv
  PROVE  OpInv'
<1>1. At(op.pc)'
  BY DEF At, Collected, OpInv
<1> QED BY <1>1 DEF OpInv, Stages

\* What was chained is released, or nothing was.
LEMMA FailStep ==
  ASSUME FatAssumption, Safe, op.todo = << >>, Doomed(op.first), op' = ToFail(op), UNCHANGED diskVars
  PROVE  /\ op' \in OpType /\ OpInv'
         /\ op'.pc = IF op.first # 0 THEN "free" ELSE "failed"
         /\ op'.cluster = op.first /\ op'.freed = 0 /\ op'.first = op.first /\ op'.clean = FALSE
         /\ op'.todo = << >> /\ op'.name = op.name /\ op'.kind = op.kind /\ op'.version = op.version
<1>1. op \in OpType /\ OpInv
  BY DEF Safe, Types
<1>2. op' = [op EXCEPT !.pc = IF op.first # 0 THEN "free" ELSE "failed", !.cluster = op.first,
                       !.freed = 0, !.clean = FALSE]
  BY DEF ToFail
<1>3. /\ op'.pc = IF op.first # 0 THEN "free" ELSE "failed"
      /\ op'.cluster = op.first /\ op'.freed = 0 /\ op'.clean = FALSE
      /\ op'.first = op.first /\ op'.prev = op.prev /\ op'.count = op.count /\ op'.kind = op.kind
      /\ op'.name = op.name /\ op'.size = op.size /\ op'.todo = op.todo /\ op'.version = op.version
  BY <1>1, <1>2 DEF OpType
<1>4. op' \in OpType
  <2>1. op.first \in FatValue /\ 0 \in 0 .. MaxCluster /\ (IF op.first # 0 THEN "free" ELSE "failed") \in PcValue
    BY <1>1, NoClusters DEF OpType, PcValue, FatAssumption
  <2> QED BY <1>1, <1>2, <2>1 DEF OpType
<1>5. fat' = fat /\ Spare' = Spare
  BY Quiet
<1>6. Doomed(op.cluster)'
  BY <1>3, <1>5 DEF Doomed
<1>7. At(op.pc)'
  BY <1>3, <1>6 DEF At
<1>8. op.kind \in {"config", "report"} => op.size > 0
  BY <1>1 DEF OpInv
<1>9. OpInv'
  BY <1>1, <1>3, <1>7 DEF OpInv, Stages
<1> QED BY <1>3, <1>4, <1>9

\* What an operation has chained leads to no file.
LEMMA WorkDoomed ==
  ASSUME FatAssumption, NEW n, Work(n) \/ op.first = 0
  PROVE  Doomed(op.first)
<1>1. Spare \in SUBSET Cluster
  BY DEF Spare
<1>2. CASE Work(n)
  BY <1>1, <1>2, PathClosed DEF Work, Doomed
<1>3. CASE op.first = 0
  <2>1. {} \in SUBSET Spare /\ 0 \in {} \cup {FAT_FREE, EOC} /\ Closed(fat[1], {})
    BY DEF Closed, FAT_FREE
  <2> QED BY <1>3, <2>1 DEF Doomed, DoomedIn
<1> QED BY <1>2, <1>3

\* find_file_dir_entry, and the entry is to be marked as deleted.
LEMMA FindStep ==
  ASSUME FatAssumption, Safe, Find
  PROVE  op' \in OpType /\ OpInv'
<1> DEFINE s == FindFile(op.name)
<1>1. op \in OpType /\ OpInv /\ op.pc = "find" /\ op.todo = << >> /\ op.first = 0 /\ op.prev = 0 /\ op.count = 0
      /\ Types /\ Reached /\ FilesWhole
  BY DEF Safe, Types, Find, OpInv
<1>2. Files' = Files /\ dir' = dir
  BY Quiet DEF Find
<1>3. AfterDelete \in PcValue
  BY DEF AfterDelete, PcValue
<1>4. CASE op' = [op EXCEPT !.pc = AfterDelete] \/ op' = [op EXCEPT !.pc = AfterDelete, !.clean = FALSE]
  <2>1. op' \in OpType
    <3>1. [op EXCEPT !.pc = AfterDelete] \in OpType
      BY <1>1, <1>3, GoToType
    <3>2. [op EXCEPT !.pc = AfterDelete, !.clean = FALSE] \in OpType
      BY <1>1, <1>3 DEF OpType
    <3> QED BY <1>4, <3>1, <3>2
  <2>2. op'.pc = AfterDelete /\ op'.first = op.first /\ op'.prev = op.prev /\ op'.count = op.count
        /\ op'.kind = op.kind /\ op'.name = op.name /\ op'.size = op.size /\ op'.todo = op.todo
    BY <1>1, <1>4 DEF OpType
  <2> QED BY <1>1, <2>1, <2>2, DeletedStep DEF AfterDelete
<1>5. CASE s # 0 /\ op' = Unlinked(op, s)
  <2> DEFINE o == [op EXCEPT !.cluster = dir[s].first, !.freed = 0]
             w == [kind |-> "dir", slot |-> s, value |-> [dir[s] EXCEPT !.state = "deleted"]]
             todo == <<w>>
  <2>1. s \in Files /\ dir[s].name = op.name
    BY <1>1, <1>5, FindFileFacts
  <2>2. s \in 1 .. Slots /\ dir[s] \in Entry /\ dir[s].first \in Cluster
    BY <1>1, <2>1, FileFacts
  <2>3. o \in OpType /\ o.first = 0 /\ o.prev = 0 /\ o.count = 0 /\ o.cluster = dir[s].first
        /\ o.kind = op.kind /\ o.name = op.name /\ o.size = op.size
    <3>1. dir[s].first \in FatValue /\ 0 \in 0 .. MaxCluster
      BY <2>2, NoClusters DEF FatAssumption
    <3> QED BY <1>1, <3>1 DEF OpType
  <2>4. [dir[s] EXCEPT !.state = "deleted"] \in Entry
    BY <2>2 DEF Entry
  <2>5. w \in Writes
    BY <2>2, <2>4 DEF Writes, DirWrites
  <2>6. todo \in Seq(Writes) /\ "free" \in PcValue
    BY <2>5 DEF PcValue
  <2>7. op' = Begin(o, todo, "free", AfterDelete)
    BY <1>5 DEF Unlinked
  <2> HIDE DEF o, w, s, todo
  <2>8. /\ op' \in OpType /\ op'.pc = "write" /\ op'.todo = todo /\ op'.ok = "free" /\ op'.fail = AfterDelete
        /\ op'.first = 0 /\ op'.prev = 0 /\ op'.count = 0 /\ op'.cluster = dir[s].first
        /\ op'.kind = op.kind /\ op'.name = op.name /\ op'.size = op.size
    BY <1>3, <2>3, <2>6, <2>7, BeginFields
  <2>9. Unlinking'
    BY <1>2, <2>1, <2>8 DEF Unlinking, w, todo
  <2>10. op'.fail = AfterFree'
    BY <2>8 DEF AfterFree, AfterDelete
  <2> QED BY <1>1, <2>8, <2>9, <2>10 DEF OpInv, Writing, Stages
<1> QED BY <1>4, <1>5 DEF Find

\* fat_free_chain: the next cluster is read before the entry of this one is set to free.
LEMMA FreeStep ==
  ASSUME FatAssumption, Safe, Free
  PROVE  op' \in OpType /\ OpInv'
<1>1. op \in OpType /\ OpInv /\ op.pc = "free" /\ op.todo = << >> /\ Doomed(op.cluster)
      /\ fat \in [1 .. Copies -> [Cluster -> FatValue]]
  BY DEF Safe, Types, Free, OpInv, At
<1>2. fat' = fat /\ Spare' = Spare
  BY Quiet DEF Free
<1>3. AfterFree \in PcValue /\ "free" \in PcValue
  BY DEF AfterFree, AfterDelete, PcValue
<1>4. CASE ~MoreToFree(op)
  <2>1. op' = [op EXCEPT !.pc = AfterFree]
    BY <1>4 DEF Free
  <2>2. op' \in OpType
    BY <1>1, <1>3, <2>1, GoToType
  <2>3. op'.pc = AfterFree /\ op'.first = op.first /\ op'.prev = op.prev /\ op'.count = op.count
        /\ op'.kind = op.kind /\ op'.name = op.name /\ op'.size = op.size /\ op'.todo = op.todo
    BY <1>1, <1>3, <2>1, <2>2, GoToFields
  <2>4. CASE op.first = 0
    <3>1. op.prev = 0 /\ op.count = 0
      BY <1>1, <2>4 DEF OpInv
    <3> QED BY <1>1, <2>2, <2>3, <2>4, <3>1, DeletedStep DEF AfterFree, AfterDelete
  <2>5. CASE op.first # 0
    <3>1. op'.pc = "failed"
      BY <2>3, <2>5 DEF AfterFree
    <3>2. At(op.pc)'
      BY <3>1 DEF At
    <3> QED BY <1>1, <2>2, <2>3, <2>5, <3>1, <3>2 DEF OpInv, Stages
  <2> QED BY <2>4, <2>5
<1>5. CASE MoreToFree(op)
  <2>1. op.cluster \in Cluster /\ op.freed + 1 \in 0 .. MaxCluster
    BY <1>1, <1>5 DEF MoreToFree, OpType, FatAssumption
  <2>2. PICK next \in {fat[1][op.cluster], EOC} :
          op' = Begin([op EXCEPT !.cluster = next, !.freed = @ + 1],
                      FatWriteEntry(op.cluster, FAT_FREE), "free", AfterFree)
    BY <1>5 DEF Free
  <2> DEFINE o == [op EXCEPT !.cluster = next, !.freed = @ + 1]
             todo == FatTodo(op.cluster, FAT_FREE, 0)
  <2>3. fat[1][op.cluster] \in FatValue /\ EOC \in FatValue
    BY <1>1, <2>1, NoClusters DEF FatAssumption
  <2>4. o \in OpType /\ o.first = op.first /\ o.prev = op.prev /\ o.count = op.count /\ o.cluster = next
        /\ o.kind = op.kind /\ o.name = op.name /\ o.size = op.size
    BY <1>1, <2>1, <2>3 DEF OpType
  <2>5. FatWriteEntry(op.cluster, FAT_FREE) = todo /\ 0 \in Left
    BY FatTodoAll
  <2>6. todo \in Seq(Writes)
    <3>1. todo \in Seq(FatWrites) /\ FatWrites \subseteq Writes
      BY <2>1, NoClusters, FatTodoSeq DEF FatAssumption, Writes
    <3> QED BY <3>1, SeqMonotonic
  <2> HIDE DEF o, todo
  <2>7. /\ op' \in OpType /\ op'.pc = "write" /\ op'.todo = todo /\ op'.ok = "free" /\ op'.fail = AfterFree
        /\ op'.first = op.first /\ op'.prev = op.prev /\ op'.count = op.count /\ op'.cluster = next
        /\ op'.kind = op.kind /\ op'.name = op.name /\ op'.size = op.size
    <3>1. op' = Begin(o, todo, "free", AfterFree)
      BY <2>2, <2>5 DEF o
    <3> QED BY <1>3, <2>4, <2>6, <3>1, BeginFields
  <2> DEFINE c == op.cluster
  <2>8. PICK D \in SUBSET Spare : c \in D \cup {FAT_FREE, EOC} /\ Closed(fat[1], D)
    BY <1>1 DEF Doomed, DoomedIn
  <2>9. c \in D /\ next \in D \cup {FAT_FREE, EOC}
    BY <2>1, <2>8, NoClusters DEF Closed
  <2>10. op'.ok = "free" /\ op'.todo = FatTodo(c, FAT_FREE, 0) /\ D \in SUBSET Spare'
         /\ op'.cluster \in D \cup {FAT_FREE, EOC} /\ Closed(fat'[1], D)
    BY <1>2, <2>7, <2>8, <2>9 DEF todo
  <2>11. Writing'
    <3>1. \E x \in Cluster : \E j \in Left :
            /\ op'.ok = "free" /\ op'.todo = FatTodo(x, FAT_FREE, j)
            /\ \E E \in SUBSET Spare' : x \in E /\ op'.cluster \in E \cup {FAT_FREE, EOC} /\ Closed(fat'[1], E)
      BY <2>1, <2>5, <2>9, <2>10
    <3> QED BY <3>1 DEF Writing, Freeing
  <2>12. op'.fail = AfterFree'
    BY <2>7 DEF AfterFree, AfterDelete
  <2> QED BY <1>1, <2>7, <2>11, <2>12 DEF OpInv, Stages
<1> QED BY <1>4, <1>5

\* The entries of a path are in use.
LEMMA PathUsed ==
  ASSUME FatAssumption, NEW f, NEW A \in SUBSET Cluster, NEW c, NEW n, Path(f, A, c, n), NEW x \in Span(f, c, n)
  PROVE  f[x] # FAT_FREE
<1> DEFINE p == ChainIn(f, c, n)
<1>1. n \in Nat \ {0} /\ f[p[n]] = EOC /\ \A k \in 1 .. n : p[k] \in Cluster
  BY DEF Path
<1>2. PICK k \in 1 .. n : x = p[k]
  BY DEF Span
<1>3. CASE k = n
  BY <1>1, <1>2, <1>3, NoClusters
<1>4. CASE k # n
  <2>1. k + 1 \in 1 .. n /\ k + 1 # 1 /\ (k + 1) - 1 = k
    BY <1>1, <1>4
  <2>2. p[k + 1] = Link(f, p[k])
    BY <1>1, <2>1, ChainAt
  <2>3. f[p[k]] \in Cluster
    BY <1>1, <2>1, <2>2 DEF Link
  <2> QED BY <1>2, <2>3, NoClusters
<1> QED BY <1>3, <1>4

\* A file is a path.
LEMMA FilePath ==
  ASSUME Types, Reached, FilesWhole, NEW s \in Files
  PROVE  /\ Path(fat[1], Clusters(s), dir[s].first, dir[s].size)
         /\ Clusters(s) = Span(fat[1], dir[s].first, dir[s].size)
         /\ Clusters(s) \in SUBSET Cluster
<1>1. /\ dir[s].size \in Nat \ {0}
      /\ \A j, k \in 1 .. dir[s].size : FileChain(s)[j] = FileChain(s)[k] => j = k
      /\ fat[1][FileChain(s)[dir[s].size]] = EOC
      /\ Clusters(s) = {FileChain(s)[k] : k \in 1 .. dir[s].size}
      /\ Clusters(s) \subseteq Cluster
  BY FileFacts
<1>2. \A k \in 1 .. dir[s].size : FileChain(s)[k] \in Clusters(s)
  BY <1>1
<1> QED BY <1>1, <1>2 DEF Path, Span, FileChain

\* No cluster of a file is free.
LEMMA OwnedUsed ==
  ASSUME FatAssumption, Types, Reached, FilesWhole, NEW c \in Owned
  PROVE  c \in Cluster /\ fat[1][c] # FAT_FREE
<1>1. PICK s \in Files : c \in Clusters(s)
  BY DEF Owned
<1> QED BY <1>1, FilePath, PathUsed

\* No chain, no clusters.
LEMMA SpanNone ==
  ASSUME NEW f, NEW c
  PROVE  Span(f, c, 0) = {}
BY DEF Span

\* fat_alloc_cluster: a free cluster is not in use by a file or by this operation.
LEMMA AllocStep ==
  ASSUME FatAssumption, Safe, Alloc
  PROVE  op' \in OpType /\ OpInv'
<1>1. op \in OpType /\ OpInv /\ op.pc = "alloc" /\ op.todo = << >> /\ Collected(op.count) /\ op.count < op.size
      /\ Types /\ Reached /\ FilesWhole
  BY DEF Safe, Types, Alloc, OpInv, At
<1>2. fat' = fat /\ Spare' = Spare /\ UNCHANGED diskVars
  BY Quiet DEF Alloc
<1>3. CASE op' = ToFail(op)
  <2>1. Doomed(op.first)
    <3>1. op.count \in Nat
      BY <1>1 DEF OpType
    <3>2. Work(op.count) \/ op.first = 0
      BY <1>1, <3>1 DEF Collected
    <3> QED BY <3>2, WorkDoomed
  <2> QED BY <1>1, <1>2, <1>3, <2>1, FailStep
<1>4. ASSUME NEW c \in Cluster, fat[1][c] = FAT_FREE,
             op' = Begin([op EXCEPT !.cluster = c], FatWriteEntry(c, EOC), "chain", "fail")
      PROVE  op' \in OpType /\ OpInv'
  <2> DEFINE o == [op EXCEPT !.cluster = c]
             todo == FatTodo(c, EOC, 0)
  <2>1. o \in OpType /\ o.first = op.first /\ o.prev = op.prev /\ o.count = op.count /\ o.cluster = c
        /\ o.kind = op.kind /\ o.name = op.name /\ o.size = op.size
    <3>1. c \in FatValue
      BY NoClusters
    <3> QED BY <1>1, <3>1 DEF OpType
  <2>2. FatWriteEntry(c, EOC) = todo /\ 0 \in Left
    BY FatTodoAll
  <2>3. todo \in Seq(Writes) /\ "chain" \in PcValue /\ "fail" \in PcValue
    <3>1. todo \in Seq(FatWrites) /\ FatWrites \subseteq Writes
      BY NoClusters, FatTodoSeq DEF FatAssumption, Writes
    <3> QED BY <3>1, SeqMonotonic DEF PcValue
  <2> HIDE DEF o, todo
  <2>4. /\ op' \in OpType /\ op'.pc = "write" /\ op'.todo = todo /\ op'.ok = "chain" /\ op'.fail = "fail"
        /\ op'.first = op.first /\ op'.prev = op.prev /\ op'.count = op.count /\ op'.cluster = c
        /\ op'.kind = op.kind /\ op'.name = op.name /\ op'.size = op.size
    <3>1. op' = Begin(o, todo, "chain", "fail")
      BY <1>4, <2>2 DEF o
    <3> QED BY <2>1, <2>3, <3>1, BeginFields
  <2>5. c \in Spare
    BY <1>1, <1>4, OwnedUsed DEF Spare
  <2>6. c \notin WorkSet(op.count)
    <3>1. CASE op.count = 0
      BY <3>1, SpanNone DEF WorkSet
    <3>2. CASE op.count # 0
      <4>1. op.count \in Nat
        BY <1>1 DEF OpType
      <4>2. Work(op.count) /\ Spare \in SUBSET Cluster
        BY <1>1, <3>2, <4>1 DEF Collected, Spare
      <4> QED BY <1>4, <4>2, PathUsed DEF Work, WorkSet
    <3> QED BY <3>1, <3>2
  <2>7. Collected(op.count)'
    BY <1>1, <1>2, <2>4 DEF Collected, Work, WorkChain
  <2>8. (op.cluster \in Spare /\ op.cluster \notin WorkSet(op.count))'
    BY <1>2, <2>4, <2>5, <2>6 DEF WorkSet
  <2>9. fat'[1][op'.cluster] = FAT_FREE
    BY <1>2, <1>4, <2>4
  <2>10. Allocating(0)'
    BY <1>1, <2>4, <2>7, <2>8, <2>9 DEF Allocating, todo
  <2>11. Writing'
    BY <2>2, <2>10 DEF Writing
  <2> QED BY <1>1, <2>4, <2>11 DEF OpInv, Stages
<1> QED BY <1>3, <1>4 DEF Alloc

\* The cluster is appended to the chain, or it is the first.
LEMMA ChainStep ==
  ASSUME FatAssumption, Safe, Chain
  PROVE  op' \in OpType /\ OpInv'
<1> DEFINE o == [op EXCEPT !.first = IF @ = 0 THEN op.cluster ELSE @, !.prev = op.cluster, !.count = @ + 1]
           next == IF o.count < op.size THEN "alloc" ELSE "data"
<1>1. op \in OpType /\ OpInv /\ op.pc = "chain" /\ op.todo = << >> /\ Collected(op.count) /\ op.count < op.size
      /\ op.cluster \in Spare /\ op.cluster \notin WorkSet(op.count) /\ fat[1][op.cluster] = EOC
  BY DEF Safe, Types, Chain, OpInv, At
<1>2. fat' = fat /\ Spare' = Spare
  BY Quiet DEF Chain
<1>3. op' = Begin(o, IF op.prev = 0 THEN << >> ELSE FatWriteEntry(op.prev, op.cluster), next, "fail")
  BY DEF Chain
<1>4. op.cluster \in Cluster /\ Spare \in SUBSET Cluster /\ op.count \in Nat /\ op.size \in Nat /\ MaxCluster \in Nat
      /\ op.kind \in {"config", "report"}
  BY <1>1 DEF Spare, OpType, FatAssumption, OpInv, Stages
<1>5. op.count + 1 \in 0 .. MaxCluster
  <2>1. CASE op.count = 0
    BY <1>4, <2>1 DEF Cluster
  <2>2. CASE op.count # 0
    <3>1. Work(op.count)
      BY <1>1, <1>4, <2>2 DEF Collected
    <3> QED BY <1>4, <3>1, PathLength DEF Work
  <2> QED BY <2>1, <2>2
<1>6. o \in OpType /\ o.prev = op.cluster /\ o.count = op.count + 1 /\ o.cluster = op.cluster
      /\ o.first = (IF op.first = 0 THEN op.cluster ELSE op.first)
      /\ o.kind = op.kind /\ o.name = op.name /\ o.size = op.size
  BY <1>1, <1>4, <1>5 DEF OpType
<1>7. next = (IF op.count + 1 < op.size THEN "alloc" ELSE "data") /\ next \in PcValue /\ "fail" \in PcValue
  BY <1>6 DEF PcValue
<1> HIDE DEF o, next
<1>8. CASE op.count = 0
  <2>1. op.first = 0 /\ op.prev = 0
    BY <1>1, <1>8 DEF Collected, OpInv
  <2> DEFINE none == << >>
  <2>2. none \in Seq(Writes)
    OBVIOUS
  <2>3. op' = Begin(o, none, next, "fail")
    BY <1>3, <2>1
  <2> HIDE DEF none
  <2>4. /\ op' \in OpType /\ op'.pc = "write" /\ op'.todo = << >> /\ op'.ok = next /\ op'.fail = "fail"
        /\ op'.first = op.cluster /\ op'.prev = op.cluster /\ op'.count = 1 /\ op'.cluster = op.cluster
        /\ op'.kind = op.kind /\ op'.name = op.name /\ op'.size = op.size
    <3>1. op' \in OpType /\ op'.pc = "write" /\ op'.todo = none /\ op'.ok = next /\ op'.fail = "fail"
          /\ op'.first = o.first /\ op'.prev = o.prev /\ op'.count = o.count /\ op'.cluster = o.cluster
          /\ op'.kind = o.kind /\ op'.name = o.name /\ op'.size = o.size
      BY <1>6, <1>7, <2>2, <2>3, BeginFields
    <3> QED BY <1>6, <1>8, <2>1, <3>1 DEF none
  <2>5. Path(fat[1], Spare, op.cluster, 1) /\ ChainIn(fat[1], op.cluster, 1)[1] = op.cluster
    BY <1>1, PathOne
  <2>6. Work(1)' /\ WorkChain(1)'[1] = op.cluster
    BY <1>2, <2>4, <2>5 DEF Work, WorkChain
  <2>7. Collected(1)'
    BY <2>4, <2>6 DEF Collected
  <2>8. At(op.ok)'
    <3>1. CASE 1 < op.size
      <4>1. op'.ok = "alloc"
        BY <1>7, <1>8, <2>4, <3>1
      <4>2. Collected(op.count)'
        BY <2>4, <2>7 DEF Collected, Work, WorkChain
      <4> QED BY <2>4, <3>1, <4>1, <4>2 DEF At
    <3>2. CASE ~(1 < op.size)
      <4>1. op'.ok = "data" /\ op.size = 1
        BY <1>1, <1>4, <1>7, <1>8, <2>4, <3>2
      <4>2. Work(op.size)'
        BY <2>4, <2>6, <4>1 DEF Work
      <4> QED BY <4>1, <4>2 DEF At
    <3> QED BY <3>1, <3>2
  <2>9. Writing'
    BY <2>4, <2>8 DEF Writing
  <2>10. op'.first # 0
    BY <1>4, <2>4, NoClusters
  <2> QED BY <1>1, <1>4, <1>7, <2>4, <2>9, <2>10 DEF OpInv, Stages
<1>9. CASE op.count # 0
  <2>1. Work(op.count) /\ op.prev = WorkChain(op.count)[op.count]
    BY <1>1, <1>4, <1>9 DEF Collected
  <2>2. op.prev \in Cluster /\ op.first \in Cluster /\ op.prev # 0 /\ op.first # 0
    BY <1>4, <2>1, PathEnds, NoClusters DEF Work, WorkChain
  <2> DEFINE todo == FatTodo(op.prev, op.cluster, 0)
  <2>3. FatWriteEntry(op.prev, op.cluster) = todo /\ 0 \in Left
    BY FatTodoAll
  <2>4. todo \in Seq(Writes)
    <3>1. todo \in Seq(FatWrites) /\ FatWrites \subseteq Writes
      <4>1. op.cluster \in FatValue /\ 0 \in 0 .. Copies
        BY <1>4, NoClusters DEF FatAssumption
      <4> QED BY <2>2, <4>1, FatTodoSeq DEF Writes
    <3> QED BY <3>1, SeqMonotonic
  <2>5. op' = Begin(o, todo, next, "fail")
    BY <1>3, <2>2, <2>3
  <2> HIDE DEF todo
  <2>6. /\ op' \in OpType /\ op'.pc = "write" /\ op'.todo = todo /\ op'.ok = next /\ op'.fail = "fail"
        /\ op'.first = op.first /\ op'.prev = op.cluster /\ op'.count = op.count + 1 /\ op'.cluster = op.cluster
        /\ op'.kind = op.kind /\ op'.name = op.name /\ op'.size = op.size
    <3>1. op' \in OpType /\ op'.pc = "write" /\ op'.todo = todo /\ op'.ok = next /\ op'.fail = "fail"
          /\ op'.first = o.first /\ op'.prev = o.prev /\ op'.count = o.count /\ op'.cluster = o.cluster
          /\ op'.kind = o.kind /\ op'.name = o.name /\ op'.size = o.size
      BY <1>6, <1>7, <2>4, <2>5, BeginFields
    <3> QED BY <1>6, <2>2, <3>1
  <2>7. op'.count - 1 = op.count /\ op'.count \in 2 .. op'.size
    <3>1. op.count < op.size /\ op.count >= 1
      BY <1>1, <1>4, <1>9
    <3>2. (op.count + 1) - 1 = op.count /\ op.count + 1 \in 2 .. op.size
      BY <1>4, <3>1
    <3> QED BY <2>6, <3>2
  <2>8. Path(fat'[1], Spare', op'.first, op'.count - 1) /\ op.prev = ChainIn(fat'[1], op'.first, op'.count - 1)[op'.count - 1]
        /\ op'.cluster \in Spare' /\ op'.cluster \notin Span(fat'[1], op'.first, op'.count - 1) /\ fat'[1][op'.cluster] = EOC
    BY <1>1, <1>2, <2>1, <2>6, <2>7 DEF Work, WorkChain, WorkSet
  <2>9. op'.ok = IF op'.count < op'.size THEN "alloc" ELSE "data"
    BY <1>7, <2>6
  <2>10. \E c \in Cluster : \E j \in Left :
           /\ op'.todo = FatTodo(c, op'.cluster, j)
           /\ j = 0 /\ Path(fat'[1], Spare', op'.first, op'.count - 1)
           /\ c = ChainIn(fat'[1], op'.first, op'.count - 1)[op'.count - 1]
    BY <2>2, <2>3, <2>6, <2>8 DEF todo
  <2>11. Writing'
    BY <2>6, <2>7, <2>8, <2>9, <2>10 DEF Writing, Chaining, Work, WorkChain, WorkSet
  <2> QED BY <1>1, <1>4, <1>7, <2>2, <2>6, <2>11 DEF OpInv, Stages
<1> QED BY <1>8, <1>9

\* The data is about to be written.
LEMMA DataStep ==
  ASSUME FatAssumption, Safe, Data
  PROVE  op' \in OpType /\ OpInv'
<1> DEFINE o == [op EXCEPT !.cluster = op.first, !.count = 0]
           none == << >>
<1>1. op \in OpType /\ OpInv /\ op.pc = "data" /\ op.todo = << >> /\ Work(op.size) /\ op.kind \in {"config", "report"}
  BY DEF Safe, Types, Data, OpInv, At, Stages
<1>2. fat' = fat /\ Spare' = Spare /\ data' = data
  BY Quiet DEF Data
<1>3. op' = Begin(o, none, "part", "fail")
  BY DEF Data
<1>4. o \in OpType /\ o.prev = op.prev /\ o.count = 0 /\ o.cluster = op.first /\ o.first = op.first
      /\ o.kind = op.kind /\ o.name = op.name /\ o.size = op.size
  <2>1. op.first \in FatValue /\ 0 \in 0 .. MaxCluster
    BY <1>1, NoClusters DEF OpType, FatAssumption
  <2> QED BY <1>1, <2>1 DEF OpType
<1>5. none \in Seq(Writes) /\ "part" \in PcValue /\ "fail" \in PcValue
  BY DEF PcValue
<1> HIDE DEF o, none
<1>6. /\ op' \in OpType /\ op'.pc = "write" /\ op'.todo = << >> /\ op'.ok = "part" /\ op'.fail = "fail"
      /\ op'.first = op.first /\ op'.prev = op.prev /\ op'.count = 0 /\ op'.cluster = op.first
      /\ op'.kind = op.kind /\ op'.name = op.name /\ op'.size = op.size
  <2>1. /\ op' \in OpType /\ op'.pc = "write" /\ op'.todo = none /\ op'.ok = "part" /\ op'.fail = "fail"
        /\ op'.first = op.first /\ op'.prev = op.prev /\ op'.count = 0 /\ op'.cluster = op.first
        /\ op'.kind = op.kind /\ op'.name = op.name /\ op'.size = op.size
    BY <1>3, <1>4, <1>5, BeginFields
  <2> QED BY <2>1 DEF none
<1>7. op.size \in Nat \ {0} /\ op.first \in Spare /\ WorkChain(op.size)[1] = op.first
  BY <1>1, PathEnds DEF Work, WorkChain
<1>8. op.first # 0
  BY <1>7, NoClusters DEF Spare
<1>9. Work(op.size)' /\ (op.cluster = WorkChain(op.size)[op.count + 1])' /\ (op.count < op.size)'
  BY <1>1, <1>2, <1>6, <1>7 DEF Work, WorkChain
<1>10. Tagged(op.count)'
  BY <1>6 DEF Tagged, HoldsParts
<1>11. At(op.ok)'
  BY <1>6, <1>9, <1>10 DEF At
<1>12. Writing'
  BY <1>6, <1>11 DEF Writing
<1> QED BY <1>1, <1>6, <1>8, <1>12 DEF OpInv, Stages

\* A part of the data is about to be written.
LEMMA PartStep ==
  ASSUME FatAssumption, Safe, Part
  PROVE  op' \in OpType /\ OpInv'
<1> DEFINE o == [op EXCEPT !.count = @ + 1]
           tag == [name |-> op.name, version |-> op.version, part |-> op.count + 1]
           w == [kind |-> "data", cluster |-> op.cluster, value |-> tag]
           todo == <<w>>
<1>1. op \in OpType /\ OpInv /\ op.pc = "part" /\ op.todo = << >> /\ Work(op.size) /\ op.kind \in {"config", "report"}
      /\ op.count < op.size /\ Tagged(op.count) /\ op.cluster = WorkChain(op.size)[op.count + 1]
  BY DEF Safe, Types, Part, OpInv, At, Stages
<1>2. fat' = fat /\ Spare' = Spare /\ data' = data
  BY Quiet DEF Part
<1>3. op' = Begin(o, todo, "next", "fail")
  BY DEF Part
<1>4. op.size \in Nat /\ op.size <= MaxCluster /\ op.count \in Nat /\ MaxCluster \in Nat /\ Spare \in SUBSET Cluster
  BY <1>1, PathLength DEF Work, OpType, FatAssumption, Spare
<1>5. op.cluster \in Spare
  <2>1. op.count + 1 \in 1 .. op.size
    BY <1>1, <1>4
  <2> QED BY <1>1, <2>1 DEF Work, WorkChain, Path
<1>6. o \in OpType /\ o.prev = op.prev /\ o.count = op.count + 1 /\ o.cluster = op.cluster /\ o.first = op.first
      /\ o.kind = op.kind /\ o.name = op.name /\ o.size = op.size /\ o.version = op.version
  <2>1. op.count + 1 \in 0 .. MaxCluster
    BY <1>1, <1>4
  <2> QED BY <1>1, <2>1 DEF OpType
<1>7. todo \in Seq(Writes) /\ "next" \in PcValue /\ "fail" \in PcValue
  <2>1. tag \in Tag
    BY <1>1, <1>4 DEF Tag, OpType
  <2> HIDE DEF tag
  <2>2. w \in Writes
    BY <1>4, <1>5, <2>1 DEF Writes, DataWrites
  <2> QED BY <2>2 DEF PcValue
<1> HIDE DEF o, todo
<1>8. /\ op' \in OpType /\ op'.pc = "write" /\ op'.todo = todo /\ op'.ok = "next" /\ op'.fail = "fail"
      /\ op'.first = op.first /\ op'.prev = op.prev /\ op'.count = op.count + 1 /\ op'.cluster = op.cluster
      /\ op'.kind = op.kind /\ op'.name = op.name /\ op'.size = op.size /\ op'.version = op.version
  BY <1>3, <1>6, <1>7, BeginFields
<1>9. Work(op.size)' /\ (op.cluster = WorkChain(op.size)[op.count])' /\ (op.count \in 1 .. op.size)' /\ op'.count - 1 = op.count
  BY <1>1, <1>2, <1>4, <1>8 DEF Work, WorkChain
<1>10. Tagged(op.count - 1)'
  BY <1>1, <1>2, <1>8, <1>9 DEF Tagged, WorkChain
<1>11. Storing'
  BY <1>8, <1>9, <1>10 DEF Storing, TagOf, todo
<1>12. Writing'
  BY <1>11 DEF Writing
<1>13. op.first # 0
  BY <1>1, <1>4, PathEnds, NoClusters DEF Work
<1> QED BY <1>1, <1>8, <1>12, <1>13 DEF OpInv, Stages

\* The next cluster of the chain is read.
LEMMA NextPartStep ==
  ASSUME FatAssumption, Safe, NextPart
  PROVE  op' \in OpType /\ OpInv'
<1>1. op \in OpType /\ OpInv /\ op.pc = "next" /\ op.todo = << >> /\ Work(op.size) /\ op.kind \in {"config", "report"}
      /\ op.count \in 1 .. op.size /\ Tagged(op.count) /\ op.cluster = WorkChain(op.size)[op.count]
  BY DEF Safe, Types, NextPart, OpInv, At, Stages
<1>2. fat' = fat /\ Spare' = Spare /\ data' = data
  BY Quiet DEF NextPart
<1>3. PICK next \in {fat[1][op.cluster], EOC} : op' = [op EXCEPT !.cluster = next, !.pc = AfterPart(op, next)]
  BY DEF NextPart
<1>4. op.size \in Nat \ {0} /\ op.count \in Nat /\ Spare \in SUBSET Cluster /\ op.first \in Cluster
  BY <1>1, PathEnds DEF Work, OpType, Spare
<1>5. op.cluster \in Cluster
  BY <1>1, <1>4 DEF Work, WorkChain, Path
<1>6. next \in FatValue /\ AfterPart(op, next) \in PcValue
  <2>1. fat[1] \in [Cluster -> FatValue] /\ EOC \in FatValue
    BY NoClusters DEF Safe, Types, FatAssumption
  <2> QED BY <1>5, <2>1 DEF AfterPart, PcValue
<1>7. op' \in OpType
  BY <1>1, <1>3, <1>6 DEF OpType
<1>8. /\ op'.pc = AfterPart(op, next) /\ op'.cluster = next /\ op'.todo = << >>
      /\ op'.first = op.first /\ op'.prev = op.prev /\ op'.count = op.count
      /\ op'.kind = op.kind /\ op'.name = op.name /\ op'.size = op.size /\ op'.version = op.version
  BY <1>1, <1>3 DEF OpType
<1>9. Work(op.size)' /\ Tagged(op.count)' /\ Doomed(op.first)'
  <2>1. Doomed(op.first)
    BY <1>1, WorkDoomed
  <2> QED BY <1>1, <1>2, <1>8, <2>1 DEF Work, Tagged, WorkChain, Doomed
<1>10. CASE op.count = op.size
  <2>1. op'.pc = "entry" /\ op'.count = op'.size
    BY <1>8, <1>10 DEF AfterPart
  <2>2. Tagged(op.size)'
    BY <1>9, <2>1 DEF Tagged
  <2>3. At(op.pc)'
    BY <1>9, <2>1, <2>2 DEF At
  <2> QED BY <1>1, <1>7, <1>8, <2>1, <2>3 DEF OpInv, Stages
<1>11. CASE op.count # op.size /\ next \in Cluster
  <2>1. op'.pc = "part" /\ op'.count < op'.size
    BY <1>1, <1>4, <1>8, <1>11 DEF AfterPart
  <2>2. next = WorkChain(op.size)[op.count + 1]
    <3>1. op.count + 1 \in 1 .. op.size /\ op.count + 1 # 1 /\ (op.count + 1) - 1 = op.count
      BY <1>1, <1>4, <1>11
    <3>2. WorkChain(op.size)[op.count + 1] = Link(fat[1], WorkChain(op.size)[op.count])
      BY <1>4, <3>1, ChainAt DEF WorkChain
    <3>3. next = fat[1][op.cluster]
      BY <1>3, <1>11, NoClusters
    <3> QED BY <1>1, <1>5, <3>2, <3>3 DEF Link
  <2>3. (op.cluster = WorkChain(op.size)[op.count + 1])'
    BY <1>2, <1>8, <2>2 DEF WorkChain
  <2>4. At(op.pc)'
    BY <1>9, <2>1, <2>3 DEF At
  <2> QED BY <1>1, <1>7, <1>8, <2>1, <2>4 DEF OpInv, Stages
<1>12. CASE op.count # op.size /\ next \notin Cluster
  <2>1. op'.pc = "fail"
    BY <1>8, <1>12 DEF AfterPart
  <2>2. At(op.pc)'
    BY <1>9, <2>1 DEF At
  <2> QED BY <1>1, <1>7, <1>8, <2>1, <2>2 DEF OpInv, Stages
<1> QED BY <1>10, <1>11, <1>12

\* The directory entry is about to be written.
LEMMA EntryStepStep ==
  ASSUME FatAssumption, Safe, EntryStep
  PROVE  op' \in OpType /\ OpInv'
<1> DEFINE s == FindFree
<1>1. op \in OpType /\ OpInv /\ op.pc = "entry" /\ op.todo = << >> /\ Work(op.size) /\ op.kind \in {"config", "report"}
      /\ Tagged(op.size)
  BY DEF Safe, Types, EntryStep, OpInv, At, Stages
<1>2. fat' = fat /\ Spare' = Spare /\ data' = data /\ dir' = dir /\ UNCHANGED diskVars
  BY Quiet DEF EntryStep
<1>3. CASE op' = ToFail(op)
  BY <1>1, <1>2, <1>3, WorkDoomed, FailStep
<1>4. ASSUME s # 0, op' = Begin([op EXCEPT !.slot = s], <<[kind |-> "dir", slot |-> s, value |-> NewEntry]>>, "done", "fail")
      PROVE  op' \in OpType /\ OpInv'
  <2> DEFINE o == [op EXCEPT !.slot = s]
             w == [kind |-> "dir", slot |-> s, value |-> NewEntry]
             todo == <<w>>
  <2>1. s \in 1 .. Slots /\ dir[s].state # "file" /\ \A t \in 1 .. (s - 1) : dir[t].state = "file"
    BY <1>4, FindFreeFacts
  <2> HIDE DEF s
  <2>2. o \in OpType /\ o.prev = op.prev /\ o.count = op.count /\ o.cluster = op.cluster /\ o.first = op.first
        /\ o.kind = op.kind /\ o.name = op.name /\ o.size = op.size /\ o.version = op.version /\ o.slot = s
    <3>1. s \in 0 .. Slots
      BY <2>1
    <3> QED BY <1>1, <3>1 DEF OpType
  <2>3. todo \in Seq(Writes) /\ "done" \in PcValue /\ "fail" \in PcValue
    <3>1. NewEntry \in Entry
      BY <1>1 DEF NewEntry, Entry, OpType
    <3>2. w \in Writes
      BY <2>1, <3>1 DEF Writes, DirWrites
    <3> QED BY <3>2 DEF PcValue
  <2>4. op' = Begin(o, todo, "done", "fail")
    BY <1>4
  <2> HIDE DEF o, todo
  <2>5. /\ op' \in OpType /\ op'.pc = "write" /\ op'.todo = todo /\ op'.ok = "done" /\ op'.fail = "fail"
        /\ op'.first = op.first /\ op'.prev = op.prev /\ op'.count = op.count /\ op'.slot = s
        /\ op'.kind = op.kind /\ op'.name = op.name /\ op'.size = op.size /\ op'.version = op.version
    BY <2>2, <2>3, <2>4, BeginFields
  <2>6. Work(op.size)' /\ Tagged(op.size)'
    BY <1>1, <1>2, <2>5 DEF Work, Tagged, WorkChain
  <2>7. NewEntry' = NewEntry
    BY <2>5 DEF NewEntry
  <2>8. op'.todo = <<[kind |-> "dir", slot |-> op'.slot, value |-> NewEntry']>>
    BY <2>5, <2>7 DEF todo
  <2>9. Entering'
    BY <1>2, <2>1, <2>5, <2>6, <2>8 DEF Entering
  <2>10. Writing'
    BY <2>9 DEF Writing
  <2>11. op.first # 0
    BY <1>1, PathEnds, NoClusters DEF Work, Spare
  <2> QED BY <1>1, <2>5, <2>10, <2>11 DEF OpInv, Stages
<1> QED BY <1>3, <1>4 DEF EntryStep, NewEntry

\* The other steps that do not write.
LEMMA OtherSteps ==
  ASSUME FatAssumption, Safe, Fail \/ Done \/ Failed \/ Restart \/ Pull
  PROVE  op' \in OpType /\ OpInv'
<1>1. CASE Fail
  <2>1. op.pc = "fail" /\ op.todo = << >> /\ Doomed(op.first) /\ op' = ToFail(op) /\ UNCHANGED diskVars
    BY <1>1 DEF Fail, Safe, OpInv, At, diskVars
  <2> QED BY <2>1, FailStep
<1>2. CASE Done \/ Failed \/ Restart \/ Pull
  <2>1. op' = Idle
    BY <1>2 DEF Done, Failed, Restart, Pull
  <2> QED BY <2>1, IdleStep
<1> QED BY <1>1, <1>2

\* The callers.
LEMMA CallerSteps ==
  ASSUME FatAssumption, Safe, SaveConfig \/ DeleteConfig \/ SaveReport
  PROVE  op' \in OpType /\ OpInv'
<1>1. settings \in Settings /\ Default \in Settings /\ MaxReport \in Nat /\ ReportSize \in Nat \ {0}
      /\ Config = MaxReport + 1
  BY DEF Safe, Types, FatAssumption, Config
<1>2. CASE SaveConfig
  <2>1. Start("config", Config, 1, settings, "find") /\ Config \in 0 .. Config
    BY <1>1, <1>2 DEF SaveConfig
  <2> DEFINE size == 1
  <2>2. size \in Nat /\ size > 0 /\ Start("config", Config, size, settings, "find")
    BY <2>1
  <2> HIDE DEF size
  <2> QED BY <1>1, <2>1, <2>2, StartStep
<1>3. CASE DeleteConfig
  <2>1. Start("restore", Config, 0, Default, "find") /\ Config \in 0 .. Config
    BY <1>1, <1>3 DEF DeleteConfig
  <2> QED BY <1>1, <2>1, StartStep
<1>4. CASE SaveReport
  <2>1. PICK taken : /\ Report \ taken # {}
                     /\ Start("report", Least(Report \ taken), ReportSize, settings, "alloc")
    BY <1>4 DEF SaveReport
  <2>2. Report \ taken \subseteq Nat
    BY DEF Report
  <2>3. Least(Report \ taken) \in Report
    BY <2>1, <2>2, LeastIs
  <2>4. Least(Report \ taken) \in 0 .. Config /\ Least(Report \ taken) # Config
    BY <1>1, <2>3 DEF Report
  <2> DEFINE name == Least(Report \ taken)
  <2>5. name \in 0 .. Config /\ name # Config /\ Start("report", name, ReportSize, settings, "alloc")
        /\ ReportSize \in Nat /\ ReportSize > 0
    BY <1>1, <2>1, <2>4
  <2> HIDE DEF name
  <2> QED BY <1>1, <2>5, StartStep
<1> QED BY <1>2, <1>3, <1>4

-----------------------------------------------------------------------------
(***************************************************************************)
(* Steps that write a sector                                               *)
(***************************************************************************)
\* A sector is written.
SectorWritten ==
  op.pc = "write" /\ op.todo # << >> /\ WriteSector(Head(op.todo)) /\ op' = [op EXCEPT !.todo = Tail(@)]

\* The operation is where it was, but for the writes that are left.
OpKept ==
  /\ op' \in OpType /\ op'.pc = op.pc /\ op'.ok = op.ok /\ op'.fail = op.fail
  /\ op'.kind = op.kind /\ op'.name = op.name /\ op'.size = op.size /\ op'.version = op.version
  /\ op'.first = op.first /\ op'.prev = op.prev /\ op'.cluster = op.cluster /\ op'.count = op.count
  /\ op'.freed = op.freed /\ op'.slot = op.slot /\ op'.clean = op.clean

LEMMA TodoFields ==
  ASSUME op \in OpType, SectorWritten
  PROVE  OpKept /\ op'.todo = Tail(op.todo)
<1>1. op.todo \in Seq(Writes) /\ op.todo # << >> /\ op' = [op EXCEPT !.todo = Tail(op.todo)]
  BY DEF OpType, SectorWritten
<1>2. Tail(op.todo) \in Seq(Writes)
  BY <1>1, HeadTailProperties
<1> DEFINE rest == Tail(op.todo)
<1>3. op' = [op EXCEPT !.todo = rest] /\ rest \in Seq(Writes)
  BY <1>1, <1>2
<1> HIDE DEF rest
<1>4. op' \in OpType
  BY <1>3 DEF OpType
<1>5. op'.todo = rest /\ op'.pc = op.pc /\ op'.ok = op.ok /\ op'.fail = op.fail
      /\ op'.kind = op.kind /\ op'.name = op.name /\ op'.size = op.size /\ op'.version = op.version
      /\ op'.first = op.first /\ op'.prev = op.prev /\ op'.cluster = op.cluster /\ op'.count = op.count
      /\ op'.freed = op.freed /\ op'.slot = op.slot /\ op'.clean = op.clean
  BY <1>3 DEF OpType
<1> QED BY <1>4, <1>5 DEF rest, OpKept

\* Copy j + 1 of the table has the value v for cluster c; only the first copy is read.
TableSet(c, v, j) ==
  /\ data' = data /\ dir' = dir /\ fat' = [fat EXCEPT ![j + 1][c] = v]
  /\ \A d \in Cluster : d # c => fat'[1][d] = fat[1][d]
  /\ j = 0 => fat'[1][c] = v
  /\ j # 0 => fat'[1] = fat[1]
  /\ op'.todo = FatTodo(c, v, j + 1)
  /\ j + 1 \in Left \/ op'.todo = << >>

LEMMA FatSector ==
  ASSUME FatAssumption, Types, NEW c \in Cluster, NEW v \in FatValue, NEW j \in Left,
         op.todo = FatTodo(c, v, j), SectorWritten
  PROVE  TableSet(c, v, j) /\ fat' \in [1 .. Copies -> [Cluster -> FatValue]]
<1> DEFINE w == Head(op.todo)
<1>1. /\ op.todo # << >> /\ w = [kind |-> "fat", copy |-> j + 1, cluster |-> c, value |-> v]
      /\ Tail(op.todo) = FatTodo(c, v, j + 1) /\ (j + 1 \in Left \/ FatTodo(c, v, j + 1) = << >>)
      /\ j + 1 \in 1 .. Copies
  BY FatTodoNext
<1>2. fat \in [1 .. Copies -> [Cluster -> FatValue]] /\ op \in OpType /\ 1 \in 1 .. Copies
  BY DEF Types, FatAssumption
<1>3. w.kind = "fat" /\ w.copy = j + 1 /\ w.cluster = c /\ w.value = v
  BY <1>1
<1> HIDE DEF w
<1>4. data' = data /\ dir' = dir /\ fat' = [fat EXCEPT ![j + 1][c] = v]
  BY <1>3 DEF SectorWritten, WriteSector, w
<1>5. fat' \in [1 .. Copies -> [Cluster -> FatValue]]
  BY <1>1, <1>2, <1>4
<1>6. j # 0 => fat'[1] = fat[1]
  <2>1. j # 0 => j + 1 # 1
    BY DEF Left
  <2> QED BY <1>1, <1>2, <1>4, <2>1
<1>7. j = 0 => fat'[1] = [fat[1] EXCEPT ![c] = v]
  BY <1>1, <1>2, <1>4
<1>8. /\ \A d \in Cluster : d # c => fat'[1][d] = fat[1][d]
      /\ j = 0 => fat'[1][c] = v
  BY <1>2, <1>6, <1>7
<1>9. op'.todo = Tail(op.todo)
  BY <1>2, TodoFields
<1> QED BY <1>1, <1>4, <1>5, <1>6, <1>8, <1>9 DEF TableSet

\* What a step has to keep of the disk.
SafeDisk == /\ fat \in [1 .. Copies -> [Cluster -> FatValue]] /\ data \in [Cluster -> Tag]
            /\ dir \in [1 .. Slots -> Entry] /\ Reached /\ FilesWhole /\ NoCrossLink

\* A sector of the table outside the files.
LEMMA FatOutside ==
  ASSUME FatAssumption, Safe, NEW c \in Spare, NEW v \in FatValue, NEW j \in Left,
         op.todo = FatTodo(c, v, j), SectorWritten
  PROVE  SafeDisk' /\ Files' = Files /\ Owned' = Owned /\ Spare' = Spare /\ TableSet(c, v, j) /\ OpKept
<1>1. c \in Cluster /\ c \notin Owned /\ Types /\ Reached /\ FilesWhole /\ NoCrossLink /\ op \in OpType
      /\ data \in [Cluster -> Tag] /\ dir \in [1 .. Slots -> Entry]
  BY DEF Spare, Safe, Types
<1>2. TableSet(c, v, j) /\ fat' \in [1 .. Copies -> [Cluster -> FatValue]]
  BY <1>1, FatSector
<1>3. dir' = dir /\ \A d \in Owned : fat'[1][d] = fat[1][d] /\ data'[d] = data[d]
  BY <1>1, <1>2, OwnedUsed DEF TableSet
<1>4. Files' = Files /\ Owned' = Owned /\ Reached' /\ FilesWhole' /\ NoCrossLink'
  BY <1>1, <1>3, FilesFramed
<1>5. Spare' = Spare
  BY <1>4 DEF Spare
<1>6. SafeDisk'
  BY <1>1, <1>2, <1>4 DEF SafeDisk, TableSet
<1>7. OpKept
  BY <1>1, TodoFields
<1> QED BY <1>2, <1>4, <1>5, <1>6, <1>7

\* The rest of OpInv when a write is done.
LEMMA OpInvWritten ==
  ASSUME OpInv, op.pc = "write", Writing', OpKept
  PROVE  OpInv'
<1>1. op'.fail = IF op'.ok = "free" THEN AfterFree' ELSE "fail"
  BY DEF OpInv, AfterFree, AfterDelete, OpKept
<1> QED BY <1>1 DEF OpInv, Stages, OpKept

\* fat_free_chain: the entry is set to free.
LEMMA FreeingStep ==
  ASSUME FatAssumption, Safe, NEW c \in Cluster, NEW j \in Left, Freeing(c, j), SectorWritten
  PROVE  /\ SafeDisk' /\ OpKept /\ OpInv'
         /\ c \in Spare /\ Files' = Files /\ Owned' = Owned /\ TableSet(c, FAT_FREE, j)
         /\ IF j + 1 \in Left THEN Freeing(c, j + 1)' ELSE op'.todo = << >>
<1>1. PICK D \in SUBSET Spare : c \in D /\ op.cluster \in D \cup {FAT_FREE, EOC} /\ Closed(fat[1], D)
  BY DEF Freeing
<1>2. op.todo = FatTodo(c, FAT_FREE, j) /\ op.ok = "free" /\ FAT_FREE \in FatValue /\ c \in Spare /\ OpInv
  BY <1>1, NoClusters DEF Freeing, Safe
<1>3. SafeDisk' /\ Files' = Files /\ Owned' = Owned /\ Spare' = Spare /\ TableSet(c, FAT_FREE, j) /\ OpKept
  BY <1>2, FatOutside
<1>4. Closed(fat'[1], D)
  <2>1. \A d \in D : d \in Cluster /\ (fat'[1][d] = fat[1][d] \/ fat'[1][d] = FAT_FREE)
    BY <1>3 DEF Spare, TableSet
  <2> QED BY <1>1, <2>1 DEF Closed
<1>5. CASE j + 1 \in Left
  <2>1. /\ op'.ok = "free" /\ op'.todo = FatTodo(c, FAT_FREE, j + 1)
        /\ \E E \in SUBSET Spare' : c \in E /\ op'.cluster \in E \cup {FAT_FREE, EOC} /\ Closed(fat'[1], E)
    BY <1>1, <1>2, <1>3, <1>4 DEF TableSet, OpKept
  <2>2. Freeing(c, j + 1)'
    BY <2>1 DEF Freeing
  <2>3. Writing'
    <3>1. \E x \in Cluster : \E i \in Left :
            /\ op'.ok = "free" /\ op'.todo = FatTodo(x, FAT_FREE, i)
            /\ \E E \in SUBSET Spare' : x \in E /\ op'.cluster \in E \cup {FAT_FREE, EOC} /\ Closed(fat'[1], E)
      BY <1>5, <2>1
    <3> QED BY <3>1 DEF Writing, Freeing
  <2>4. OpInv'
    BY <1>2, <1>3, <2>3, OpInvWritten DEF SectorWritten
  <2> QED BY <1>2, <1>3, <1>5, <2>2, <2>4
<1>6. CASE j + 1 \notin Left
  <2>1. op'.todo = << >> /\ op'.cluster = op.cluster /\ op'.ok = "free"
    BY <1>2, <1>3, <1>6 DEF TableSet, OpKept
  <2>2. DoomedIn(fat'[1], Spare', op'.cluster)
    BY <1>1, <1>3, <1>4, <2>1 DEF DoomedIn
  <2>3. At(op.ok)'
    BY <2>1, <2>2 DEF At, Doomed
  <2>4. Writing'
    BY <2>1, <2>3 DEF Writing
  <2>5. OpInv'
    BY <1>2, <1>3, <2>4, OpInvWritten DEF SectorWritten
  <2> QED BY <1>2, <1>3, <1>6, <2>1, <2>5
<1> QED BY <1>5, <1>6

\* fat_alloc_cluster: the free cluster is marked as the end of a chain.
LEMMA AllocatingStep ==
  ASSUME FatAssumption, Safe, NEW j \in Left, Allocating(j), SectorWritten
  PROVE  /\ SafeDisk' /\ OpKept /\ OpInv'
         /\ Files' = Files /\ Owned' = Owned /\ TableSet(op.cluster, EOC, j)
         /\ Span(fat'[1], op.first, op.count) = Span(fat[1], op.first, op.count)
         /\ IF j + 1 \in Left THEN Allocating(j + 1)' ELSE op'.todo = << >>
<1> DEFINE c == op.cluster
<1>1. op.todo = FatTodo(c, EOC, j) /\ op.ok = "chain" /\ EOC \in FatValue /\ c \in Spare /\ OpInv
      /\ Collected(op.count) /\ op.count < op.size /\ c \notin WorkSet(op.count)
      /\ fat[1][c] = (IF j = 0 THEN FAT_FREE ELSE EOC) /\ Spare \in SUBSET Cluster /\ op.count \in Nat
  BY NoClusters DEF Allocating, Safe, Spare, Types, OpType
<1>2. SafeDisk' /\ Files' = Files /\ Owned' = Owned /\ Spare' = Spare /\ TableSet(c, EOC, j) /\ OpKept
  BY <1>1, FatOutside
<1>3. /\ Collected(op.count)' /\ Span(fat'[1], op.first, op.count) = Span(fat[1], op.first, op.count)
  <2>1. CASE op.count = 0
    <3>1. op'.count = 0 /\ op'.first = 0
      BY <1>1, <1>2, <2>1 DEF Collected, OpKept
    <3>2. Span(fat'[1], op.first, 0) = {} /\ Span(fat[1], op.first, 0) = {}
      BY SpanNone
    <3>3. Collected(op.count)'
      BY <3>1 DEF Collected
    <3> QED BY <2>1, <3>2, <3>3
  <2>2. CASE op.count # 0
    <3>1. Path(fat[1], Spare, op.first, op.count) /\ op.prev = ChainIn(fat[1], op.first, op.count)[op.count]
          /\ op.count \in 1 .. op.count
      BY <1>1, <2>2 DEF Collected, Work, WorkChain
    <3>2. \A x \in Span(fat[1], op.first, op.count) : fat'[1][x] = fat[1][x]
      <4>1. Span(fat[1], op.first, op.count) \subseteq Spare /\ c \notin Span(fat[1], op.first, op.count)
        BY <1>1, <3>1, PathEnds DEF WorkSet
      <4> QED BY <1>1, <1>2, <4>1 DEF TableSet
    <3> DEFINE g == fat'[1]
    <3> HIDE DEF g
    <3>3. Path(g, Spare, op.first, op.count) /\ Span(g, op.first, op.count) = Span(fat[1], op.first, op.count)
          /\ ChainIn(g, op.first, op.count)[op.count] = ChainIn(fat[1], op.first, op.count)[op.count]
      <4>1. \A x \in Span(fat[1], op.first, op.count) : g[x] = fat[1][x]
        BY <3>2 DEF g
      <4> DEFINE f == fat[1]
                 n == op.count
                 b == op.first
      <4>2. Path(f, Spare, b, n) /\ \A x \in Span(f, b, n) : g[x] = f[x]
        BY <3>1, <4>1
      <4> HIDE DEF f, n, b
      <4>3. Path(g, Spare, b, n) /\ Span(g, b, n) = Span(f, b, n) /\ \A k \in 1 .. n : ChainIn(g, b, n)[k] = ChainIn(f, b, n)[k]
        <5>1. Path(g, Spare, b, n)
          BY <4>2, PathFrame
        <5>2. Span(g, b, n) = Span(f, b, n)
          BY <4>2, <5>1, PathFrame
        <5>3. \A k \in 1 .. n : ChainIn(g, b, n)[k] = ChainIn(f, b, n)[k]
          BY <4>2, <5>1, PathFrame
        <5> QED BY <5>1, <5>2, <5>3
      <4> QED BY <3>1, <4>3 DEF f, n, b
    <3>4. Collected(op.count)'
      BY <1>2, <2>2, <3>1, <3>3 DEF Collected, Work, WorkChain, OpKept, g
    <3> QED BY <3>3, <3>4 DEF g
  <2> QED BY <2>1, <2>2
<1>4. WorkSet(op.count)' = WorkSet(op.count)
  BY <1>2, <1>3 DEF WorkSet, OpKept
<1>5. fat'[1][op'.cluster] = EOC /\ op'.cluster \in Spare' /\ op'.cluster \notin WorkSet(op.count)'
      /\ op'.ok = "chain" /\ op'.count < op'.size
  BY <1>1, <1>2, <1>4 DEF TableSet, OpKept
<1>6. CASE j + 1 \in Left
  <2>1. j + 1 # 0 /\ op'.todo = FatTodo(op'.cluster, EOC, j + 1)
    BY <1>1, <1>2 DEF Left, TableSet, OpKept
  <2>2. Allocating(j + 1)'
    BY <1>3, <1>5, <2>1 DEF Allocating
  <2>3. Writing'
    <3>1. \E i \in Left : /\ op'.todo = FatTodo(op'.cluster, EOC, i) /\ i # 0
      BY <1>6, <2>1
    <3> QED BY <1>3, <1>5, <3>1 DEF Writing, Allocating
  <2>4. OpInv'
    BY <1>1, <1>2, <2>3, OpInvWritten DEF SectorWritten
  <2> QED BY <1>2, <1>3, <1>6, <2>2, <2>4
<1>7. CASE j + 1 \notin Left
  <2>1. op'.todo = << >>
    BY <1>2, <1>7 DEF TableSet
  <2>2. At(op.ok)'
    BY <1>3, <1>5 DEF At
  <2>3. Writing'
    BY <2>1, <2>2 DEF Writing
  <2>4. OpInv'
    BY <1>1, <1>2, <2>3, OpInvWritten DEF SectorWritten
  <2> QED BY <1>2, <1>3, <1>7, <2>1, <2>4
<1> QED BY <1>6, <1>7

\* The cluster is appended to the one before.
LEMMA ChainingStep ==
  ASSUME FatAssumption, Safe, NEW c \in Cluster, NEW j \in Left, Chaining(c, j), SectorWritten
  PROVE  /\ SafeDisk' /\ OpKept /\ OpInv'
         /\ Files' = Files /\ Owned' = Owned /\ TableSet(c, op.cluster, j)
         /\ j = 0 => WorkSet(op.count)' = WorkSet(op.count - 1) \cup {op.cluster}
         /\ j # 0 => WorkSet(op.count)' = WorkSet(op.count)
         /\ IF j + 1 \in Left THEN Chaining(c, j + 1)' ELSE op'.todo = << >>
<1> DEFINE n == op.count
           f == fat[1]
           g == fat'[1]
           b == op.first
           x == op.cluster
<1>1. op.todo = FatTodo(c, x, j) /\ op.prev = x /\ op.ok = (IF n < op.size THEN "alloc" ELSE "data")
      /\ n \in 2 .. op.size /\ OpInv /\ op.size \in Nat
  BY DEF Chaining, Safe, Types, OpType
<1>2. j = 0 => Path(f, Spare, b, n - 1) /\ c = ChainIn(f, b, n - 1)[n - 1] /\ x \in Spare
               /\ x \notin Span(f, b, n - 1) /\ f[x] = EOC
  BY DEF Chaining, Work, WorkChain, WorkSet
<1>3. j # 0 => Path(f, Spare, b, n) /\ x = ChainIn(f, b, n)[n] /\ c \in Spare
  BY DEF Chaining, Work, WorkChain
<1>4. c \in Spare /\ x \in FatValue /\ Spare \in SUBSET Cluster
  <2>1. CASE j = 0
    <3>1. c \in Spare
      BY <1>2, <2>1, PathEnds
    <3> QED BY <1>2, <2>1, <3>1, NoClusters DEF Spare
  <2>2. CASE j # 0
    <3>1. x \in Spare
      BY <1>3, <2>2, PathEnds
    <3> QED BY <1>3, <2>2, <3>1, NoClusters DEF Spare
  <2> QED BY <2>1, <2>2
<1>5. SafeDisk' /\ Files' = Files /\ Owned' = Owned /\ Spare' = Spare /\ TableSet(c, x, j) /\ OpKept
  BY <1>1, <1>4, FatOutside
<1>6. /\ j = 0 => g[c] = x /\ \A y \in Spare : y # c => g[y] = f[y]
      /\ j # 0 => g = f
  BY <1>4, <1>5 DEF TableSet
<1> HIDE DEF f, g, n, b, x
<1>7. /\ Path(g, Spare, b, n) /\ ChainIn(g, b, n)[n] = x
      /\ j = 0 => Span(g, b, n) = Span(f, b, n - 1) \cup {x}
      /\ j # 0 => Span(g, b, n) = Span(f, b, n)
  <2>1. CASE j = 0
    <3> DEFINE m == n - 1
    <3>1. Path(f, Spare, b, m) /\ c = ChainIn(f, b, m)[m] /\ x \in Spare /\ x \notin Span(f, b, m) /\ f[x] = EOC
          /\ g[c] = x /\ (\A y \in Spare : y # c => g[y] = f[y]) /\ m + 1 = n
      BY <1>1, <1>2, <1>6, <2>1
    <3> HIDE DEF m
    <3>2. Path(g, Spare, b, m + 1) /\ Span(g, b, m + 1) = Span(f, b, m) \cup {x} /\ ChainIn(g, b, m + 1)[m + 1] = x
      <4>1. g[ChainIn(f, b, m)[m]] = x /\ \A y \in Spare : y # ChainIn(f, b, m)[m] => g[y] = f[y]
        BY <3>1
      <4> QED BY <1>4, <3>1, <4>1, PathAppend
    <3> QED BY <2>1, <3>1, <3>2 DEF m
  <2>2. CASE j # 0
    BY <1>3, <1>6, <2>2
  <2> QED BY <2>1, <2>2
<1>8. op'.count = n /\ op'.first = b /\ op'.cluster = x /\ op'.prev = x /\ op'.ok = op.ok /\ op'.size = op.size
      /\ op'.pc = op.pc /\ op.count = n /\ fat'[1] = g
  BY <1>1, <1>5 DEF OpKept, n, b, x, g
<1>9. /\ j = 0 => WorkSet(op.count)' = WorkSet(op.count - 1) \cup {op.cluster}
      /\ j # 0 => WorkSet(op.count)' = WorkSet(op.count)
  <2>1. WorkSet(op.count)' = Span(g, b, n) /\ WorkSet(op.count - 1) = Span(f, b, n - 1) /\ WorkSet(op.count) = Span(f, b, n)
    BY <1>8 DEF WorkSet, f, b, n
  <2> QED BY <1>7, <2>1 DEF x
<1>10. Work(op.count)' /\ op'.cluster = WorkChain(op.count)'[op'.count] /\ c \in Spare' /\ op'.prev = op'.cluster
       /\ op'.ok = (IF op'.count < op'.size THEN "alloc" ELSE "data") /\ op'.count \in 2 .. op'.size
       /\ op'.size \in Nat
  BY <1>1, <1>4, <1>5, <1>7, <1>8 DEF Work, WorkChain
<1>11. CASE j + 1 \in Left
  <2>1. j + 1 # 0 /\ op'.todo = FatTodo(c, op'.cluster, j + 1)
    BY <1>5, <1>8 DEF Left, TableSet, x
  <2>2. Chaining(c, j + 1)'
    BY <1>10, <2>1 DEF Chaining
  <2>3. Writing'
    <3>1. \E y \in Cluster : \E i \in Left : /\ op'.todo = FatTodo(y, op'.cluster, i) /\ i # 0 /\ y \in Spare'
      BY <1>10, <1>11, <2>1
    <3> QED BY <1>10, <3>1 DEF Writing, Chaining
  <2>4. OpInv'
    BY <1>1, <1>5, <2>3, OpInvWritten DEF SectorWritten
  <2> QED BY <1>5, <1>9, <1>11, <2>2, <2>4 DEF x
<1>12. CASE j + 1 \notin Left
  <2>1. op'.todo = << >>
    BY <1>5, <1>12 DEF TableSet
  <2>2. At(op.ok)'
    <3>1. CASE op'.count < op'.size
      <4>1. op'.ok = "alloc" /\ Collected(op.count)'
        BY <1>10, <3>1 DEF Collected
      <4> QED BY <3>1, <4>1 DEF At
    <3>2. CASE ~(op'.count < op'.size)
      <4>1. op'.ok = "data" /\ op'.count = op'.size
        BY <1>10, <3>2
      <4>2. Work(op.size)'
        BY <1>10, <4>1 DEF Work
      <4> QED BY <4>1, <4>2 DEF At
    <3> QED BY <3>1, <3>2
  <2>3. Writing'
    BY <2>1, <2>2 DEF Writing
  <2>4. OpInv'
    BY <1>1, <1>5, <2>3, OpInvWritten DEF SectorWritten
  <2> QED BY <1>5, <1>9, <1>12, <2>1, <2>4 DEF x
<1> QED BY <1>11, <1>12

\* A part of the file is stored, in a cluster no file has.
LEMMA StoringStep ==
  ASSUME FatAssumption, Safe, Storing, SectorWritten
  PROVE  /\ SafeDisk' /\ OpKept /\ OpInv'
         /\ Files' = Files /\ Owned' = Owned /\ fat' = fat /\ dir' = dir /\ op'.todo = << >>
<1> DEFINE w == [kind |-> "data", cluster |-> op.cluster, value |-> TagOf(op.count)]
           ch == WorkChain(op.size)
<1>1. op.ok = "next" /\ Work(op.size) /\ op.count \in 1 .. op.size /\ Tagged(op.count - 1)
      /\ op.cluster = ch[op.count] /\ op.todo = <<w>> /\ op \in OpType /\ OpInv
      /\ op.size \in Nat /\ Types /\ Reached /\ FilesWhole /\ NoCrossLink
  BY DEF Storing, Safe, Types, OpType
<1>2. Head(op.todo) = w /\ Tail(op.todo) = << >>
  BY <1>1
<1>3. w.kind = "data" /\ w.cluster = op.cluster /\ w.value = TagOf(op.count)
  OBVIOUS
<1> HIDE DEF w
<1>4. fat' = fat /\ dir' = dir /\ data' = [data EXCEPT ![op.cluster] = TagOf(op.count)]
  BY <1>2, <1>3 DEF SectorWritten, WriteSector
<1>5. op.cluster \in Spare /\ op.cluster \in Cluster /\ op.cluster \notin Owned
  BY <1>1 DEF Work, WorkChain, Path, Spare
<1>6. TagOf(op.count) \in Tag /\ data \in [Cluster -> Tag] /\ op.count \in Nat
  BY <1>1 DEF TagOf, Tag, Types, OpType
<1> DEFINE tag == TagOf(op.count)
<1>7. data' \in [Cluster -> Tag] /\ data'[op.cluster] = tag /\ \A d \in Cluster : d # op.cluster => data'[d] = data[d]
  BY <1>4, <1>5, <1>6
<1>8. \A d \in Owned : fat'[1][d] = fat[1][d] /\ data'[d] = data[d]
  BY <1>1, <1>4, <1>5, <1>7, OwnedUsed
<1>9. Files' = Files /\ Owned' = Owned /\ Reached' /\ FilesWhole' /\ NoCrossLink'
  BY <1>1, <1>4, <1>8, FilesFramed
<1>10. SafeDisk'
  BY <1>1, <1>4, <1>7, <1>9 DEF SafeDisk, Types
<1>11. OpKept /\ op'.todo = << >>
  BY <1>1, <1>2, TodoFields
<1>12. Tagged(op.count)'
  <2>1. WorkChain(op.size)' = ch
    BY <1>4, <1>11 DEF WorkChain, OpKept
  <2>2. (\A k \in 1 .. op.size : ch[k] \in Cluster) /\ (\A i, k \in 1 .. op.size : ch[i] = ch[k] => i = k)
    BY <1>1 DEF Work, Path, WorkChain, Spare
  <2>3. \A k \in 1 .. (op.count - 1) : data[ch[k]] = TagOf(k)
    BY <1>1 DEF Tagged, HoldsParts, TagOf
  <2> HIDE DEF ch
  <2>4. ASSUME NEW k \in 1 .. op.count PROVE data'[ch[k]] = TagOf(k)
    <3>1. k \in 1 .. op.size /\ op.count \in 1 .. op.size
      BY <1>1, <1>6
    <3>2. CASE k = op.count
      BY <1>1, <1>7, <3>2
    <3>3. CASE k # op.count
      <4>1. k \in 1 .. (op.count - 1) /\ ch[k] # op.cluster /\ ch[k] \in Cluster
        BY <1>1, <1>6, <2>2, <3>1, <3>3
      <4> QED BY <1>7, <2>3, <4>1
    <3> QED BY <3>2, <3>3
  <2>5. \A k \in 1 .. op'.count : data'[WorkChain(op.size)'[k]] = [name |-> op'.name, version |-> op'.version, part |-> k]
    BY <1>11, <2>1, <2>4 DEF TagOf, OpKept
  <2> QED BY <2>5 DEF Tagged, HoldsParts
<1>13. Work(op.size)' /\ (op.count \in 1 .. op.size)' /\ (op.cluster = WorkChain(op.size)[op.count])' /\ op'.ok = "next"
  <2>1. Spare' = Spare
    BY <1>9 DEF Spare
  <2> QED BY <1>1, <1>4, <1>11, <2>1 DEF Work, WorkChain, OpKept
<1>14. Writing'
  BY <1>11, <1>12, <1>13 DEF Writing, At
<1>15. OpInv'
  BY <1>1, <1>11, <1>14, OpInvWritten DEF SectorWritten
<1> QED BY <1>4, <1>9, <1>10, <1>11, <1>15

\* The files whose entries stay what they are.
LEMMA EntriesKept ==
  ASSUME Types, Reached, FilesWhole, fat' = fat, data' = data, NEW t \in Files, dir'[t] = dir[t]
  PROVE  /\ Clusters(t)' = Clusters(t)
         /\ \A k \in 1 .. dir[t].size : ChainFrom(dir[t].first, dir[t].size)'[k] \in Cluster
         /\ \A k \in 1 .. dir[t].size :
              data'[ChainFrom(dir[t].first, dir[t].size)'[k]] =
                [name |-> dir[t].name, version |-> dir[t].version, part |-> k]
         /\ fat'[1][ChainFrom(dir[t].first, dir[t].size)'[dir[t].size]] = EOC
<1>1. FileChain(t) = ChainFrom(dir[t].first, dir[t].size)'
  BY DEF FileChain, ChainFrom
<1>2. /\ \A k \in 1 .. dir[t].size : FileChain(t)[k] \in Cluster /\ data[FileChain(t)[k]] = FileTag(t, k)
      /\ fat[1][FileChain(t)[dir[t].size]] = EOC
  BY FileFacts
<1>3. Clusters(t)' = Clusters(t)
  BY DEF Clusters, ChainFrom
<1> QED BY <1>1, <1>2, <1>3 DEF FileTag

\* The entry is marked as deleted: from now on its clusters are nobody's.
LEMMA UnlinkingStep ==
  ASSUME FatAssumption, Safe, Unlinking, SectorWritten
  PROVE  /\ SafeDisk' /\ OpKept /\ OpInv' /\ op'.todo = << >> /\ fat' = fat
         /\ \E s \in Files : /\ op.cluster = dir[s].first /\ dir[s].name = op.name
                             /\ Files' = Files \ {s} /\ Owned = Owned' \cup Clusters(s)
                             /\ Clusters(s) \cap Owned' = {}
                             /\ \A t \in Files' : dir'[t] = dir[t]
<1>1. op \in OpType /\ OpInv /\ Types /\ Reached /\ FilesWhole /\ NoCrossLink
  BY DEF Safe, Types
<1>2. PICK s \in Files :
        /\ op.todo = <<[kind |-> "dir", slot |-> s, value |-> [dir[s] EXCEPT !.state = "deleted"]]>>
        /\ op.cluster = dir[s].first /\ dir[s].name = op.name
  BY DEF Unlinking
<1> DEFINE w == [kind |-> "dir", slot |-> s, value |-> [dir[s] EXCEPT !.state = "deleted"]]
           gone == [dir[s] EXCEPT !.state = "deleted"]
<1>3. Head(op.todo) = w /\ Tail(op.todo) = << >> /\ w.kind = "dir" /\ w.slot = s /\ w.value = gone
  BY <1>2
<1>4. s \in 1 .. Slots /\ dir[s] \in Entry /\ dir \in [1 .. Slots -> Entry]
  BY <1>1, FileFacts DEF Types
<1>5. gone \in Entry /\ gone.state = "deleted"
  BY <1>4 DEF Entry
<1> HIDE DEF w, gone
<1>6. fat' = fat /\ data' = data /\ dir' = [dir EXCEPT ![s] = gone]
  BY <1>3 DEF SectorWritten, WriteSector
<1>7. dir' \in [1 .. Slots -> Entry] /\ dir'[s] = gone /\ \A t \in 1 .. Slots : t # s => dir'[t] = dir[t]
  BY <1>4, <1>5, <1>6
<1>8. Files' = Files \ {s}
  BY <1>5, <1>7 DEF Files
<1>9. \A t \in Files' : t \in Files /\ t # s /\ t \in 1 .. Slots /\ dir'[t] = dir[t]
  BY <1>7, <1>8 DEF Files
<1>10. \A t \in Files' : Clusters(t)' = Clusters(t)
  BY <1>1, <1>6, <1>9, EntriesKept
<1>11. Owned' = UNION {Clusters(t) : t \in Files'}
  BY <1>10 DEF Owned
<1>12. Owned = Owned' \cup Clusters(s) /\ Clusters(s) \cap Owned' = {}
  <2>1. Owned = Owned' \cup Clusters(s)
    BY <1>8, <1>11 DEF Owned
  <2>2. \A t \in Files' : Clusters(s) \cap Clusters(t) = {}
    BY <1>1, <1>9 DEF NoCrossLink
  <2> QED BY <1>11, <2>1, <2>2
<1>13. FilesWhole'
  BY <1>1, <1>6, <1>9, EntriesKept DEF FilesWhole
<1>14. NoCrossLink'
  BY <1>1, <1>9, <1>10 DEF NoCrossLink
<1>15. Reached'
  <2> SUFFICES ASSUME NEW t \in Files' PROVE dir'[t].size > 0 /\ \A u \in 1 .. t : dir'[u].state # "end"
    BY DEF Reached
  <2>1. dir[t].size > 0 /\ \A u \in 1 .. t : dir[u].state # "end"
    BY <1>1, <1>9 DEF Reached
  <2>2. \A u \in 1 .. t : u \in 1 .. Slots
    BY <1>9 DEF FatAssumption
  <2> QED BY <1>5, <1>7, <1>9, <2>1, <2>2
<1>16. SafeDisk'
  BY <1>1, <1>6, <1>7, <1>13, <1>14, <1>15 DEF SafeDisk, Types
<1>17. OpKept /\ op'.todo = << >>
  BY <1>1, <1>3, TodoFields
<1>18. DoomedIn(fat[1], Spare', dir[s].first)
  <2>1. DoomedIn(fat[1], Clusters(s), dir[s].first) /\ Clusters(s) \in SUBSET Cluster
    BY <1>1, FilePath, PathClosed
  <2>2. Clusters(s) \subseteq Spare'
    BY <1>12, <2>1 DEF Spare
  <2> QED BY <2>1, <2>2 DEF DoomedIn
<1>19. At(op.ok)'
  <2>1. op'.ok = "free" /\ op'.cluster = dir[s].first
    BY <1>2, <1>17 DEF OpKept, Unlinking
  <2> QED BY <1>6, <1>18, <2>1 DEF At, Doomed
<1>20. Writing'
  BY <1>17, <1>19 DEF Writing
<1>21. OpInv'
  BY <1>1, <1>17, <1>20, OpInvWritten DEF SectorWritten
<1> QED BY <1>2, <1>6, <1>8, <1>9, <1>12, <1>16, <1>17, <1>21

\* The entry of the new file is written: its clusters are all there.
LEMMA EnteringStep ==
  ASSUME FatAssumption, Safe, Entering, SectorWritten
  PROVE  /\ SafeDisk' /\ OpKept /\ OpInv' /\ op'.todo = << >> /\ fat' = fat
         /\ Files' = Files \cup {op.slot} /\ op.slot \notin Files /\ dir'[op.slot] = NewEntry
         /\ Owned' = Owned \cup WorkSet(op.size)
         /\ \A t \in Files : dir'[t] = dir[t]
<1>0. PICK s \in 1 .. Slots : s = op.slot
  BY DEF Entering
<1> DEFINE w == [kind |-> "dir", slot |-> s, value |-> NewEntry]
           ch == WorkChain(op.size)
<1>1. op \in OpType /\ OpInv /\ Types /\ Reached /\ FilesWhole /\ NoCrossLink /\ op.ok = "done"
      /\ Work(op.size) /\ Tagged(op.size) /\ s \in 1 .. Slots /\ dir[s].state # "file"
      /\ (\A t \in 1 .. (s - 1) : dir[t].state # "end") /\ op.todo = <<w>> /\ dir \in [1 .. Slots -> Entry]
  BY <1>0 DEF Safe, Types, Entering
<1>2. Head(op.todo) = w /\ Tail(op.todo) = << >> /\ w.kind = "dir" /\ w.slot = s /\ w.value = NewEntry
  BY <1>1
<1>3. NewEntry \in Entry /\ NewEntry.state = "file" /\ NewEntry.first = op.first /\ NewEntry.size = op.size
      /\ NewEntry.name = op.name /\ NewEntry.version = op.version
  BY <1>1 DEF NewEntry, Entry, OpType
<1> HIDE DEF w
<1>4. fat' = fat /\ data' = data /\ dir' = [dir EXCEPT ![s] = NewEntry]
  BY <1>2 DEF SectorWritten, WriteSector
<1>5. dir' \in [1 .. Slots -> Entry] /\ dir'[s] = NewEntry /\ \A t \in 1 .. Slots : t # s => dir'[t] = dir[t]
  BY <1>1, <1>3, <1>4
<1>6. Files' = Files \cup {s} /\ s \notin Files
  BY <1>1, <1>3, <1>5 DEF Files
<1>7. \A t \in Files : t # s /\ t \in 1 .. Slots /\ dir'[t] = dir[t]
  BY <1>5, <1>6 DEF Files
<1>8. \A t \in Files : Clusters(t)' = Clusters(t)
  BY <1>1, <1>4, <1>7, EntriesKept
<1>9. ChainFrom(dir[s].first, dir[s].size)' = ch
  BY <1>3, <1>4, <1>5 DEF ChainFrom, WorkChain
<1>10. op.size \in Nat \ {0} /\ DOMAIN ch = 1 .. op.size
  BY <1>1, ChainDomain DEF Work, Path, WorkChain
<1>11. Clusters(s)' = WorkSet(op.size)
  <2>1. Clusters(s)' = {ch[k] : k \in DOMAIN ch}
    BY <1>9 DEF Clusters
  <2> QED BY <1>10, <2>1 DEF WorkSet, Span, WorkChain
<1>12. Owned' = Owned \cup WorkSet(op.size)
  BY <1>6, <1>8, <1>11 DEF Owned
<1>13. WorkSet(op.size) \cap Owned = {}
  BY <1>1, PathEnds DEF Work, WorkSet, Spare
<1>14. FilesWhole'
  <2>1. \A k \in 1 .. op.size : ch[k] \in Cluster
    BY <1>1 DEF Work, Path, WorkChain, Spare
  <2>2. \A k \in 1 .. op.size : data[ch[k]] = [name |-> op.name, version |-> op.version, part |-> k]
    BY <1>1 DEF Tagged, HoldsParts
  <2>3. fat[1][ch[op.size]] = EOC
    BY <1>1 DEF Work, Path, WorkChain
  <2> HIDE DEF ch
  <2>4. ASSUME NEW t \in Files
        PROVE /\ \A k \in 1 .. dir'[t].size : ChainFrom(dir[t].first, dir[t].size)'[k] \in Cluster
              /\ \A k \in 1 .. dir'[t].size :
                   data'[ChainFrom(dir[t].first, dir[t].size)'[k]] =
                     [name |-> dir'[t].name, version |-> dir'[t].version, part |-> k]
              /\ fat'[1][ChainFrom(dir[t].first, dir[t].size)'[dir'[t].size]] = EOC
    BY <1>1, <1>4, <1>7, EntriesKept
  <2>5. /\ \A k \in 1 .. dir'[s].size : ChainFrom(dir[s].first, dir[s].size)'[k] \in Cluster
        /\ \A k \in 1 .. dir'[s].size :
             data'[ChainFrom(dir[s].first, dir[s].size)'[k]] =
               [name |-> dir'[s].name, version |-> dir'[s].version, part |-> k]
        /\ fat'[1][ChainFrom(dir[s].first, dir[s].size)'[dir'[s].size]] = EOC
    BY <1>3, <1>4, <1>5, <1>9, <2>1, <2>2, <2>3
  <2> QED BY <1>6, <2>4, <2>5 DEF FilesWhole
<1>15. NoCrossLink'
  <2> SUFFICES ASSUME NEW t \in Files', NEW u \in Files', t # u PROVE Clusters(t)' \cap Clusters(u)' = {}
    BY DEF NoCrossLink
  <2>1. CASE t # s /\ u # s
    BY <1>1, <1>6, <1>8, <2>1 DEF NoCrossLink
  <2>2. \A v \in Files : WorkSet(op.size) \cap Clusters(v) = {}
    BY <1>13 DEF Owned
  <2>3. CASE t = s \/ u = s
    BY <1>6, <1>8, <1>11, <2>2, <2>3
  <2> QED BY <2>1, <2>3
<1>16. Reached'
  <2> SUFFICES ASSUME NEW t \in Files' PROVE dir'[t].size > 0 /\ \A u \in 1 .. t : dir'[u].state # "end"
    BY DEF Reached
  <2>1. t \in 1 .. Slots /\ Slots \in Nat
    BY <1>1, <1>6, <1>7 DEF FatAssumption
  <2>2. CASE t = s
    <3>1. \A u \in 1 .. t : u = s \/ (u \in 1 .. (s - 1) /\ u \in 1 .. Slots)
      BY <2>1, <2>2
    <3> QED BY <1>1, <1>3, <1>5, <1>10, <2>2, <3>1
  <2>3. CASE t # s
    <3>1. t \in Files
      BY <1>6, <2>3
    <3>2. dir[t].size > 0 /\ \A u \in 1 .. t : u \in 1 .. Slots /\ dir[u].state # "end"
      BY <1>1, <2>1, <3>1 DEF Reached
    <3> QED BY <1>3, <1>5, <1>7, <3>1, <3>2
  <2> QED BY <2>2, <2>3
<1>17. SafeDisk'
  BY <1>1, <1>4, <1>5, <1>14, <1>15, <1>16 DEF SafeDisk, Types
<1>18. OpKept /\ op'.todo = << >>
  BY <1>1, <1>2, TodoFields
<1>19. Writing'
  <2>1. op'.ok = "done"
    BY <1>1, <1>18 DEF OpKept
  <2> QED BY <1>18, <2>1 DEF Writing, At
<1>20. OpInv'
  BY <1>1, <1>18, <1>19, OpInvWritten DEF SectorWritten
<1> QED BY <1>4, <1>5, <1>6, <1>7, <1>12, <1>17, <1>18, <1>20, <1>0

\* A write fails: nothing is written and the operation gives up.
LEMMA WriteFails ==
  ASSUME FatAssumption, Safe, op.pc = "write", op.todo # << >>, UNCHANGED diskVars,
         op' = [op EXCEPT !.pc = op.fail, !.todo = << >>, !.clean = FALSE]
  PROVE  op' \in OpType /\ OpInv'
<1>1. op \in OpType /\ OpInv /\ Writing /\ op.fail = (IF op.ok = "free" THEN AfterFree ELSE "fail")
  BY DEF Safe, Types, OpInv
<1>2. fat' = fat /\ Spare' = Spare
  BY Quiet
<1> DEFINE none == << >>
<1>3. none \in Seq(Writes) /\ op.fail \in PcValue
  BY <1>1 DEF OpType
<1>4. op' = [op EXCEPT !.pc = op.fail, !.todo = none, !.clean = FALSE]
  OBVIOUS
<1> HIDE DEF none
<1>5. op' \in OpType
  BY <1>1, <1>3, <1>4 DEF OpType
<1>6. op'.pc = op.fail /\ op'.todo = << >> /\ op'.kind = op.kind /\ op'.name = op.name /\ op'.size = op.size
      /\ op'.first = op.first /\ op'.prev = op.prev /\ op'.count = op.count
  <2>1. op'.pc = op.fail /\ op'.todo = none /\ op'.kind = op.kind /\ op'.name = op.name /\ op'.size = op.size
        /\ op'.first = op.first /\ op'.prev = op.prev /\ op'.count = op.count
    BY <1>1, <1>4 DEF OpType
  <2> QED BY <2>1 DEF none
<1>7. CASE op.ok = "free" /\ op.first = 0
  <2>1. op.prev = 0 /\ op.count = 0 /\ op.fail = IF op.kind = "config" THEN "alloc" ELSE "reboot"
    BY <1>1, <1>7 DEF OpInv, AfterFree, AfterDelete
  <2> QED BY <1>1, <1>5, <1>6, <1>7, <2>1, DeletedStep
<1>8. CASE op.ok = "free" /\ op.first # 0
  <2>1. op'.pc = "failed"
    BY <1>1, <1>6, <1>8 DEF AfterFree
  <2>2. At(op.pc)'
    BY <2>1 DEF At
  <2> QED BY <1>1, <1>5, <1>6, <2>1, <2>2 DEF OpInv, Stages
<1>9. CASE op.ok # "free"
  <2>1. op'.pc = "fail"
    BY <1>1, <1>6, <1>9
  <2>2. Doomed(op.first)
    <3>1. op.count \in Nat
      BY <1>1 DEF OpType
    <3>2. ASSUME NEW c \in Cluster, NEW j \in Left, Chaining(c, j) PROVE Doomed(op.first)
      <4>1. Work(op.count) \/ Work(op.count - 1)
        BY <3>2 DEF Chaining
      <4> QED BY <4>1, WorkDoomed
    <3>3. ASSUME NEW j \in Left, Allocating(j) PROVE Doomed(op.first)
      <4>1. Work(op.count) \/ op.first = 0
        BY <3>1, <3>3 DEF Allocating, Collected
      <4> QED BY <4>1, WorkDoomed
    <3>4. CASE Storing \/ Entering
      <4>1. Work(op.size)
        BY <3>4 DEF Storing, Entering
      <4> QED BY <4>1, WorkDoomed
    <3>5. ~Unlinking /\ \A c \in Cluster : \A j \in Left : ~Freeing(c, j)
      BY <1>9 DEF Unlinking, Freeing
    <3> QED BY <1>1, <3>2, <3>3, <3>4, <3>5 DEF Writing
  <2>3. At(op.pc)'
    BY <1>2, <1>6, <2>1, <2>2 DEF At, Doomed
  <2> QED BY <1>1, <1>5, <1>6, <2>1, <2>3 DEF OpInv, Stages
<1> QED BY <1>7, <1>8, <1>9

\* A sector is written, whichever.
LEMMA SectorStep ==
  ASSUME FatAssumption, Safe, SectorWritten
  PROVE  SafeDisk' /\ op' \in OpType /\ OpInv'
<1>1. Writing /\ op.todo # << >>
  BY DEF Safe, OpInv, SectorWritten
<1>2. ASSUME NEW c \in Cluster, NEW j \in Left, Freeing(c, j) \/ Chaining(c, j)
      PROVE  SafeDisk' /\ OpKept /\ OpInv'
  BY <1>2, FreeingStep, ChainingStep
<1>3. ASSUME NEW j \in Left, Allocating(j)
      PROVE  SafeDisk' /\ OpKept /\ OpInv'
  BY <1>3, AllocatingStep
<1>4. CASE Unlinking
  BY <1>4, UnlinkingStep DEF OpKept
<1>5. CASE Storing
  BY <1>5, StoringStep DEF OpKept
<1>6. CASE Entering
  BY <1>6, EnteringStep DEF OpKept
<1> QED BY <1>1, <1>2, <1>3, <1>4, <1>5, <1>6 DEF Writing, OpKept

\* The counter of the transfers that fail stays in its range.
LEMMA FaultType ==
  ASSUME FatAssumption, faults \in 0 .. MaxFaults, NEW n \in Nat, Fault(n)
  PROVE  faults' \in 0 .. MaxFaults
BY DEF Fault, FatAssumption

LEMMA FreeFinite ==
  ASSUME FatAssumption, NEW T \in SUBSET Cluster
  PROVE  IsFiniteSet(T) /\ Cardinality(T) \in Nat
<1>1. IsFiniteSet(Cluster)
  BY FS_Interval DEF Cluster, FatAssumption
<1> QED BY <1>1, FS_Subset, FS_CardinalityType

LEMMA LostFinite ==
  ASSUME FatAssumption, NEW lost \in SUBSET {SectorOf(s) : s \in UsedSlots}
  PROVE  IsFiniteSet(lost) /\ Cardinality(lost) \in Nat
<1>1. IsFiniteSet(1 .. Slots)
  BY FS_Interval DEF FatAssumption
<1>2. IsFiniteSet({SectorOf(s) : s \in 1 .. Slots})
  <2> DEFINE T == {SectorOf(s) : s \in 1 .. Slots}
             g == [s \in 1 .. Slots |-> SectorOf(s)]
  <2>1. g \in Surjection(1 .. Slots, T)
    BY DEF Surjection
  <2> HIDE DEF g, T
  <2>2. IsFiniteSet(T)
    BY <1>1, <2>1, FS_Surjection
  <2> QED BY <2>2 DEF T
<1>3. lost \subseteq {SectorOf(s) : s \in 1 .. Slots}
  BY DEF UsedSlots
<1> QED BY <1>2, <1>3, FS_Subset, FS_CardinalityType

-----------------------------------------------------------------------------
(***************************************************************************)
(* Safety                                                                  *)
(***************************************************************************)
\* The variables beside the disk and the operation.
Rest == settings \in Settings /\ saved \in Settings /\ faults \in 0 .. MaxFaults /\ pulls \in 0 .. MaxPulls

LEMMA SafeParts ==
  ASSUME SafeDisk', Rest', op' \in OpType, OpInv'
  PROVE  Safe'
BY DEF SafeDisk, Rest, Safe, Types

LEMMA QuietDisk ==
  ASSUME Safe, UNCHANGED diskVars
  PROVE  SafeDisk'
BY Quiet DEF SafeDisk, Safe, Types

\* What a step does to the settings and the counters.
LEMMA RestStep ==
  ASSUME FatAssumption, Safe, Next
  PROVE  Rest'
<1>1. Rest /\ op \in OpType /\ op.version \in Settings
  BY DEF Safe, Types, Rest, OpType
<1>2. faults \in 0 .. MaxFaults /\ pulls \in 0 .. MaxPulls /\ MaxFaults \in Nat /\ MaxPulls \in Nat /\ Default \in Settings
  BY <1>1 DEF Rest, FatAssumption
<1>3. Fault(1) => faults' \in 0 .. MaxFaults
  BY <1>2, FaultType
<1>4. CASE SaveConfig \/ DeleteConfig \/ Chain \/ Fail \/ Data \/ Part \/ Failed
  BY <1>1, <1>4 DEF Rest, SaveConfig, DeleteConfig, Chain, Fail, Data, Part, Failed
<1>5. CASE Write
  <2>1. (faults' = faults \/ Fault(1)) /\ UNCHANGED <<settings, pulls, saved>>
    BY <1>5 DEF Write
  <2> QED BY <1>1, <1>3, <2>1 DEF Rest
<1>6. CASE Find
  <2>1. (faults' = faults \/ Fault(1)) /\ UNCHANGED <<settings, pulls, saved>>
    BY <1>6 DEF Find
  <2> QED BY <1>1, <1>3, <2>1 DEF Rest
<1>7. CASE Free
  <2>1. (faults' = faults \/ Fault(1)) /\ UNCHANGED <<settings, pulls, saved>>
    BY <1>7 DEF Free, FatReadEntry
  <2> QED BY <1>1, <1>3, <2>1 DEF Rest
<1>8. CASE NextPart
  <2>1. (faults' = faults \/ Fault(1)) /\ UNCHANGED <<settings, pulls, saved>>
    BY <1>8 DEF NextPart, FatReadEntry
  <2> QED BY <1>1, <1>3, <2>1 DEF Rest
<1>9. CASE EntryStep
  <2>1. (faults' = faults \/ Fault(1) \/ Fault(0)) /\ UNCHANGED <<settings, pulls, saved>>
    BY <1>9 DEF EntryStep
  <2>2. Fault(0) => faults' \in 0 .. MaxFaults
    BY <1>2, FaultType
  <2> QED BY <1>1, <1>3, <2>1, <2>2 DEF Rest
<1>10. CASE Alloc
  <2>1. PICK T \in SUBSET Cluster : Fault(Cardinality(T))
    BY <1>10 DEF Alloc
  <2>2. faults' \in 0 .. MaxFaults
    BY <1>2, <2>1, FreeFinite, FaultType
  <2> QED BY <1>1, <1>10, <2>2 DEF Rest, Alloc
<1>11. CASE SaveReport
  <2>1. PICK lost \in SUBSET {SectorOf(s) : s \in UsedSlots} : Fault(Cardinality(lost))
    BY <1>11 DEF SaveReport
  <2>2. faults' \in 0 .. MaxFaults
    BY <1>2, <2>1, LostFinite, FaultType
  <2> QED BY <1>1, <1>11, <2>2 DEF Rest, SaveReport
<1>12. CASE ChangeSettings
  BY <1>1, <1>12 DEF Rest, ChangeSettings
<1>13. CASE Restart
  <2>1. ReadConfig \in Settings
    <3> DEFINE s == FindFile(Config)
    <3>1. CASE s # 0
      <4>1. s \in Files
        BY <3>1, FindFileFacts DEF Safe
      <4>2. dir[s].first \in Cluster
        BY <4>1, FileFacts DEF Safe
      <4>3. data[dir[s].first].version \in Settings
        BY <4>2 DEF Safe, Types, Tag
      <4> QED BY <1>2, <4>3 DEF ReadConfig
    <3>2. CASE s = 0
      BY <1>2, <3>2 DEF ReadConfig
    <3> QED BY <3>1, <3>2
  <2>2. settings' \in Settings /\ faults' \in 0 .. MaxFaults
    BY <1>2, <1>3, <1>13, <2>1 DEF Restart
  <2> QED BY <1>1, <1>13, <2>2 DEF Rest, Restart
<1>14. CASE Pull
  BY <1>1, <1>2, <1>14 DEF Rest, Pull
<1>15. CASE Done
  BY <1>1, <1>15 DEF Rest, Done
<1>16. CASE (MountStep \/ MountAgain) /\ UNCHANGED <<diskVars, settings, op, pulls, saved>>
  <2>1. faults' = faults \/ Fault(1)
    BY <1>16 DEF MountStep, MountAgain, ReadSector0, ReadGptHeader, ReadGptEntry, ReadGptVbr, ReadMbr,
                 ReadPartition, MountReturns, Fails
  <2> QED BY <1>1, <1>3, <1>16, <2>1 DEF Rest
<1> QED BY <1>4, <1>5, <1>6, <1>7, <1>8, <1>9, <1>10, <1>11, <1>12, <1>13, <1>14, <1>15, <1>16 DEF Next, Operation

\* The operation and the disk stay what they are.
LEMMA OpSame ==
  ASSUME Safe, UNCHANGED diskVars, op' = op
  PROVE  OpInv'
<1>1. OpInv /\ fat' = fat /\ data' = data /\ dir' = dir /\ Files' = Files /\ Spare' = Spare
  BY Quiet DEF Safe
<1>2. op.pc # "write" => At(op.pc)'
  BY <1>1 DEF OpInv, At, Doomed, Collected, Work, WorkChain, WorkSet, Tagged
<1>3. op.pc = "write" => Writing'
  <2> SUFFICES ASSUME Writing PROVE Writing'
    BY <1>1 DEF OpInv
  <2>1. CASE op.todo = << >> /\ At(op.ok)
    BY <1>1, <2>1 DEF Writing, At, Doomed, Collected, Work, WorkChain, WorkSet, Tagged
  <2>2. CASE Unlinking
    BY <1>1, <2>2 DEF Writing, Unlinking
  <2>3. ASSUME NEW c \in Cluster, NEW j \in Left, Freeing(c, j) PROVE Writing'
    BY <1>1, <2>3 DEF Writing, Freeing
  <2>4. ASSUME NEW c \in Cluster, NEW j \in Left, Chaining(c, j) PROVE Writing'
    BY <1>1, <2>4 DEF Writing, Chaining, Work, WorkChain, WorkSet
  <2>5. ASSUME NEW j \in Left, Allocating(j) PROVE Writing'
    BY <1>1, <2>5 DEF Writing, Allocating, Collected, Work, WorkChain, WorkSet
  <2>6. CASE Storing
    BY <1>1, <2>6 DEF Writing, Storing, Work, WorkChain, Tagged, TagOf
  <2>7. CASE Entering
    BY <1>1, <2>7 DEF Writing, Entering, Work, WorkChain, Tagged, NewEntry
  <2> QED BY <2>1, <2>2, <2>3, <2>4, <2>5, <2>6, <2>7 DEF Writing
<1> QED BY <1>1, <1>2, <1>3 DEF OpInv, AfterFree, AfterDelete

\* Every step keeps the files safe.
LEMMA SafeStep ==
  ASSUME FatAssumption, Safe, [Next]_vars
  PROVE  Safe'
<1>1. CASE UNCHANGED vars
  <2>1. UNCHANGED <<diskVars, settings, op, faults, pulls, saved>>
    BY <1>1 DEF vars, diskVars
  <2>2. fat' = fat /\ data' = data /\ Spare' = Spare /\ SafeDisk' /\ Files' = Files /\ Owned' = Owned /\ dir' = dir
    BY <2>1, Quiet, QuietDisk
  <2>3. OpInv'
    BY <2>1, <2>2, OpSame DEF Safe
  <2> QED BY <2>1, <2>2, <2>3, SafeParts DEF Rest, Safe, Types
<1>2. CASE Next
  <2>1. Rest'
    BY <1>2, RestStep
  <2>2. SafeDisk' /\ op' \in OpType /\ OpInv'
    <3>1. CASE Write
      <4>1. CASE op.todo = << >>
        <5>1. op.pc = "write" /\ op' = [op EXCEPT !.pc = op.ok] /\ UNCHANGED diskVars
          BY <3>1, <4>1 DEF Write
        <5> QED BY <4>1, <5>1, WrittenStep, QuietDisk
      <4>2. CASE op.todo # << >> /\ UNCHANGED diskVars
                 /\ op' = [op EXCEPT !.pc = op.fail, !.todo = << >>, !.clean = FALSE]
        <5>1. op.pc = "write"
          BY <3>1 DEF Write
        <5> QED BY <4>2, <5>1, WriteFails, QuietDisk
      <4>3. CASE op.todo # << >> /\ WriteSector(Head(op.todo)) /\ op' = [op EXCEPT !.todo = Tail(@)]
        <5>1. SectorWritten
          BY <3>1, <4>3 DEF Write, SectorWritten
        <5> QED BY <5>1, SectorStep
      <4> QED BY <3>1, <4>1, <4>2, <4>3 DEF Write
    <3>2. CASE Find \/ Free \/ Alloc \/ Chain \/ Data \/ Part \/ NextPart \/ EntryStep
      <4>1. UNCHANGED diskVars
        BY <3>2 DEF Find, Free, Alloc, Chain, Data, Part, NextPart, EntryStep
      <4> QED BY <3>2, <4>1, QuietDisk, FindStep, FreeStep, AllocStep, ChainStep, DataStep, PartStep, NextPartStep,
                 EntryStepStep
    <3>3. CASE Fail \/ Done \/ Failed \/ Restart \/ Pull
      <4>1. UNCHANGED diskVars
        BY <3>3 DEF Fail, Done, Failed, Restart, Pull
      <4> QED BY <3>3, <4>1, QuietDisk, OtherSteps
    <3>4. CASE SaveConfig \/ DeleteConfig \/ SaveReport
      <4>1. UNCHANGED diskVars
        BY <3>4 DEF SaveConfig, DeleteConfig, SaveReport
      <4> QED BY <3>4, <4>1, QuietDisk, CallerSteps
    <3>5. CASE ChangeSettings \/ ((MountStep \/ MountAgain) /\ UNCHANGED <<diskVars, settings, op, pulls, saved>>)
      <4>1. UNCHANGED diskVars /\ op' = op
        BY <3>5 DEF ChangeSettings, diskVars
      <4>2. op' \in OpType
        BY <4>1 DEF Safe, Types
      <4>3. OpInv'
        BY <4>1, OpSame DEF Safe
      <4> QED BY <4>1, <4>2, <4>3, QuietDisk
    <3> QED BY <1>2, <3>1, <3>2, <3>3, <3>4, <3>5 DEF Next, Operation
  <2> QED BY <2>1, <2>2, SafeParts
<1> QED BY <1>1, <1>2

\* A list of n clusters that the table links is a chain.
Linked(f, F, n) == \A i \in 1 .. n : F[i] \in Cluster /\ (i # n => f[F[i]] = F[i + 1])
IsChain(f, F, n) == \A k \in 1 .. n : ChainIn(f, F[1], n)[k] = F[k]
LEMMA ChainIs ==
  ASSUME NEW f, NEW F, NEW n \in Nat \ {0}, Linked(f, F, n)
  PROVE  IsChain(f, F, n)
<1> DEFINE p == ChainIn(f, F[1], n)
<1>1. ASSUME NEW k \in 1 .. n, \A j \in 1 .. (k - 1) : p[j] = F[j] PROVE p[k] = F[k]
  <2>1. CASE k = 1
    BY <2>1, ChainAt
  <2>2. CASE k # 1
    <3>1. k - 1 \in 1 .. n /\ k - 1 # n /\ (k - 1) + 1 = k /\ k - 1 \in 1 .. (k - 1)
      BY <2>2
    <3>2. p[k] = Link(f, p[k - 1])
      BY <2>2, ChainAt
    <3>3. p[k - 1] = F[k - 1] /\ F[k - 1] \in Cluster
      BY <1>1, <3>1 DEF Linked
    <3>4. f[F[k - 1]] = F[k]
      BY <3>1 DEF Linked
    <3> QED BY <3>2, <3>3, <3>4 DEF Link
  <2> QED BY <2>1, <2>2
<1> HIDE DEF p
<1>2. n \in Nat
  OBVIOUS
<1>3. \A k \in 1 .. n : p[k] = F[k]
  BY <1>1, <1>2, AgreeUpTo
<1> QED BY <1>3 DEF p, IsChain

\* The file that was there before.
LEMMA ForeignFile ==
  ASSUME FatAssumption, Init
  PROVE  /\ Foreign \in Seq(Cluster) /\ Len(Foreign) \in Nat \ {0}
         /\ fat \in [1 .. Copies -> [Cluster -> FatValue]] /\ (\A k \in 1 .. Copies : fat[k] = fat[1])
         /\ data \in [Cluster -> Tag] /\ dir \in [1 .. Slots -> Entry]
         /\ \A k \in 1 .. Len(Foreign) : /\ ChainIn(fat[1], Foreign[1], Len(Foreign))[k] = Foreign[k]
                                         /\ data[Foreign[k]] = [name |-> 0, version |-> Default, part |-> k]
         /\ fat[1][Foreign[Len(Foreign)]] = EOC
         /\ \A c \in Cluster : fat[1][c] # FAT_FREE => \E k \in 1 .. Len(Foreign) : c = Foreign[k]
         /\ Files = {1} /\ dir[1] = ForeignEntry
<1> DEFINE len == Len(Foreign)
           table == fat[1]
<1>1. Foreign \in Seq(Cluster) /\ len \in Nat \ {0} /\ (\A i, j \in 1 .. len : Foreign[i] = Foreign[j] => i = j)
      /\ (\A i \in 1 .. len : Foreign[i] \in Cluster) /\ DOMAIN Foreign = 1 .. len
      /\ Slots \in Nat \ {0} /\ Copies \in Nat \ {0} /\ Default \in Settings
  BY DEF FatAssumption, Cluster
<1> DEFINE At0(c) == CHOOSE j \in DOMAIN Foreign : Foreign[j] = c
           Val(c) == IF \E i \in DOMAIN Foreign : Foreign[i] = c
                       THEN IF At0(c) = Len(Foreign) THEN EOC ELSE Foreign[At0(c) + 1]
                       ELSE FAT_FREE
<1>2. fat = [k \in 1 .. Copies |-> [c \in Cluster |-> Val(c)]]
  BY DEF Init
<1>3. data = [c \in Cluster |-> IF \E i \in DOMAIN Foreign : Foreign[i] = c
                                  THEN [name |-> 0, version |-> Default, part |-> At0(c)] ELSE Nobody]
  BY DEF Init
<1>4. ASSUME NEW i \in 1 .. len PROVE At0(Foreign[i]) = i
  <2>1. \E j \in DOMAIN Foreign : Foreign[j] = Foreign[i]
    BY <1>1
  <2>2. At0(Foreign[i]) \in DOMAIN Foreign /\ Foreign[At0(Foreign[i])] = Foreign[i]
    BY <2>1
  <2> QED BY <1>1, <2>2
<1>5. ASSUME NEW c \in Cluster PROVE Val(c) \in FatValue
  <2>1. CASE \E i \in DOMAIN Foreign : Foreign[i] = c
    <3>1. PICK i \in 1 .. len : Foreign[i] = c
      BY <1>1, <2>1
    <3>2. At0(c) = i
      BY <1>4, <3>1
    <3>3. CASE i = len
      <4>1. Val(c) = EOC
        BY <2>1, <3>2, <3>3
      <4> QED BY <4>1 DEF FatValue
    <3>4. CASE i # len
      <4>1. i + 1 \in 1 .. len
        <5>1. len \in Nat /\ i \in 1 .. len /\ i # len
          BY <1>1, <3>4
        <5> HIDE DEF len
        <5> QED BY <5>1
      <4>2. Foreign[i + 1] \in Cluster
        BY <1>1, <4>1
      <4>3. Val(c) = Foreign[i + 1]
        BY <2>1, <3>2, <3>4
      <4> QED BY <4>2, <4>3 DEF FatValue
    <3> QED BY <3>3, <3>4
  <2>2. CASE ~\E i \in DOMAIN Foreign : Foreign[i] = c
    BY <2>2 DEF FatValue
  <2> QED BY <2>1, <2>2
<1>6. ASSUME NEW i \in 1 .. len PROVE Val(Foreign[i]) = IF i = len THEN EOC ELSE Foreign[i + 1]
  <2>1. \E j \in DOMAIN Foreign : Foreign[j] = Foreign[i]
    BY <1>1
  <2> QED BY <1>4, <2>1
<1>7. \A c \in Cluster : Val(c) # FAT_FREE => \E k \in 1 .. len : c = Foreign[k]
  BY <1>1
<1>8. \A i \in 1 .. len : (\E j \in DOMAIN Foreign : Foreign[j] = Foreign[i])
  BY <1>1
<1> HIDE DEF Val, At0
<1>9. fat \in [1 .. Copies -> [Cluster -> FatValue]] /\ (\A k \in 1 .. Copies : fat[k] = fat[1])
      /\ \A c \in Cluster : fat[1][c] = Val(c)
  BY <1>1, <1>2, <1>5
<1>10. \A i \in 1 .. len : table[Foreign[i]] = IF i = len THEN EOC ELSE Foreign[i + 1]
  BY <1>1, <1>6, <1>9
<1>11. \A k \in 1 .. len : data[Foreign[k]] = [name |-> 0, version |-> Default, part |-> k]
  BY <1>1, <1>3, <1>4, <1>8
<1>12. data \in [Cluster -> Tag]
  <2>1. ASSUME NEW c \in Cluster PROVE data[c] \in Tag
    <3>0. 0 \in 0 .. Config /\ Config \in Nat
      BY DEF Config, FatAssumption
    <3>1. CASE \E i \in DOMAIN Foreign : Foreign[i] = c
      <4>1. PICK i \in 1 .. len : Foreign[i] = c
        BY <1>1, <3>1
      <4>2. data[c] = [name |-> 0, version |-> Default, part |-> i] /\ i \in Nat
        BY <1>11, <4>1
      <4> QED BY <1>1, <3>0, <4>2 DEF Tag
    <3>2. CASE ~\E i \in DOMAIN Foreign : Foreign[i] = c
      <4>1. data[c] = Nobody
        BY <1>3, <3>2
      <4> QED BY <1>1, <3>0, <4>1 DEF Tag, Nobody
    <3> QED BY <3>1, <3>2
  <2> QED BY <1>3, <2>1
<1> DEFINE way == ChainIn(table, Foreign[1], len)
<1>13. \A k \in 1 .. len : way[k] = Foreign[k]
  <2>1. PICK g, F, m : g = table /\ F = Foreign /\ m = len
    OBVIOUS
  <2>2. m \in Nat \ {0}
    BY <1>1, <2>1
  <2>3. Linked(g, F, m)
    BY <1>1, <1>10, <2>1 DEF Linked
  <2>4. IsChain(g, F, m)
    BY <2>2, <2>3, ChainIs
  <2> QED BY <2>1, <2>4 DEF IsChain
<1>14. dir = [s \in 1 .. Slots |-> IF s = 1 THEN ForeignEntry ELSE NoEntry]
  BY DEF Init
<1>15. ForeignEntry \in Entry /\ NoEntry \in Entry /\ ForeignEntry.state = "file" /\ NoEntry.state = "end"
  <2>1. 0 \in 0 .. Config /\ Config \in 0 .. Config /\ Foreign[1] \in Cluster
    BY <1>1 DEF Config, FatAssumption
  <2> QED BY <1>1, <2>1 DEF ForeignEntry, NoEntry, Entry
<1>16. dir \in [1 .. Slots -> Entry] /\ Files = {1} /\ dir[1] = ForeignEntry
  BY <1>1, <1>14, <1>15 DEF Files
<1>17. \A c \in Cluster : fat[1][c] # FAT_FREE => \E k \in 1 .. len : c = Foreign[k]
  BY <1>7, <1>9
<1>18. fat[1][Foreign[len]] = EOC
  <2>1. len \in 1 .. len
    BY <1>1
  <2> QED BY <1>10, <2>1
<1> QED BY <1>1, <1>9, <1>11, <1>12, <1>13, <1>16, <1>17, <1>18

LEMMA SafeInit ==
  ASSUME FatAssumption, Init
  PROVE  Safe
<1> DEFINE n == Len(Foreign)
           p == ChainIn(fat[1], Foreign[1], n)
<1>1. op \in OpType /\ OpInv
  <2>1. op = Idle
    BY DEF Init
  <2>2. op.pc = "idle" /\ op.first = 0 /\ op.prev = 0 /\ op.count = 0 /\ op.kind = "none" /\ op.todo = << >>
    BY <2>1 DEF Idle
  <2>3. op \in OpType
    <3>1. << >> \in Seq(Writes) /\ 0 \in FatValue /\ 0 \in 0 .. MaxCluster /\ 0 \in 0 .. Slots /\ Config \in 0 .. Config
          /\ Default \in Settings /\ "idle" \in PcValue
      BY DEF FatAssumption, FatValue, FAT_FREE, Config, PcValue
    <3> QED BY <2>1, <3>1 DEF Idle, OpType
  <2> QED BY <2>2, <2>3 DEF OpInv, At, Stages
<1>2. Foreign \in Seq(Cluster) /\ n \in Nat \ {0} /\ (\A k \in 1 .. n : Foreign[k] \in Cluster /\ p[k] = Foreign[k])
      /\ (\A k \in 1 .. n : data[Foreign[k]] = [name |-> 0, version |-> Default, part |-> k])
      /\ fat[1][Foreign[n]] = EOC /\ Files = {1} /\ dir[1] = ForeignEntry
      /\ fat \in [1 .. Copies -> [Cluster -> FatValue]] /\ data \in [Cluster -> Tag] /\ dir \in [1 .. Slots -> Entry]
  <2>1. Foreign \in Seq(Cluster) /\ n \in Nat \ {0}
    BY ForeignFile
  <2>2. \A k \in 1 .. n : Foreign[k] \in Cluster
    BY <2>1
  <2>3. \A k \in 1 .. n : p[k] = Foreign[k] /\ data[Foreign[k]] = [name |-> 0, version |-> Default, part |-> k]
    BY ForeignFile
  <2> QED BY <2>1, <2>2, <2>3, ForeignFile
<1>3. Types
  <2>1. settings \in Settings /\ saved \in Settings /\ faults \in 0 .. MaxFaults /\ pulls \in 0 .. MaxPulls
    BY DEF Init, FatAssumption
  <2> QED BY <1>1, <1>2, <2>1 DEF Types
<1>4. dir[1].first = Foreign[1] /\ dir[1].size = n /\ dir[1].name = 0 /\ dir[1].version = Default /\ dir[1].state = "file"
  BY <1>2 DEF ForeignEntry
<1>5. Reached
  <2>1. \A t \in 1 .. 1 : t = 1
    OBVIOUS
  <2> QED BY <1>2, <1>4, <2>1 DEF Reached
<1>6. FilesWhole
  <2>1. ChainFrom(dir[1].first, dir[1].size) = p
    BY <1>4 DEF ChainFrom
  <2> HIDE DEF p, n
  <2>2. fat[1][p[n]] = EOC
    BY <1>2
  <2>3. \A k \in 1 .. n : p[k] \in Cluster /\ data[p[k]] = [name |-> 0, version |-> Default, part |-> k]
    BY <1>2
  <2> QED BY <1>2, <1>4, <2>1, <2>2, <2>3 DEF FilesWhole
<1>7. NoCrossLink
  BY <1>2 DEF NoCrossLink
<1> QED BY <1>1, <1>3, <1>5, <1>6, <1>7 DEF Safe

-----------------------------------------------------------------------------
(***************************************************************************)
(* The mount                                                               *)
(***************************************************************************)
LEMMA MountShapeInit ==
  ASSUME MountInit
  PROVE  MountShape
<1>1. DOMAIN mnt = {"pc", "buf", "i", "loaded", "lba", "gpt", "type", "clean"}
  BY DEF MountInit, Unmounted
<1>2. mnt.type = 0 /\ mnt.i = 0
  BY DEF MountInit, Unmounted
<1> QED BY <1>1, <1>2 DEF MountShape

LEMMA MountShapeStep ==
  ASSUME MountShape, MountStep \/ MountAgain
  PROVE  MountShape'
<1> USE DEF MountShape
<1>1. ASSUME NEW s, NEW lba, Mounted(s, lba) PROVE MountShape'
  <2>1. FatType(s) \in {0, 16, 32}
    BY DEF FatType
  <2>2. mnt' = [mnt EXCEPT !.pc = "found", !.type = FatType(s), !.lba = lba]
    BY <1>1 DEF Mounted
  <2> QED BY <2>1, <2>2
<1>2. ASSUME Fails PROVE MountShape'
  BY <1>2 DEF Fails
<1>3. CASE ReadSector0
  <2>1. CASE ~IsFat(SectorAt(0)) /\ \E s, pc : mnt' = [mnt EXCEPT !.buf = s, !.pc = pc]
    BY <2>1
  <2> QED BY <1>1, <1>2, <1>3, <2>1 DEF ReadSector0
<1>4. CASE ReadGptHeader
  <2>1. CASE \E g : mnt' = [mnt EXCEPT !.pc = "entry", !.gpt = g, !.i = 0, !.loaded = None]
    BY <2>1
  <2>2. CASE mnt' = [mnt EXCEPT !.pc = "failed"]
    BY <2>2
  <2> QED BY <1>2, <1>4, <2>1, <2>2 DEF ReadGptHeader
<1>5. CASE ReadGptEntry
  <2>1. CASE \E s, l, a : mnt' = [mnt EXCEPT !.buf = s, !.loaded = l, !.pc = "gpt_vbr", !.lba = a]
    BY <2>1
  <2>2. CASE \E s, l : mnt' = [mnt EXCEPT !.buf = s, !.loaded = l, !.i = @ + 1]
    BY <2>2
  <2>3. CASE mnt' = [mnt EXCEPT !.pc = "failed"]
    BY <2>3
  <2>4. CASE mnt' = [mnt EXCEPT !.i = @ + 1]
    BY <2>4
  <2> DEFINE at == EntryOffset(mnt.i)
             sector == EntrySector(mnt.i)
             look(s) ==
               IF at \in DOMAIN s.entries /\ BasicData(s.entries[at])
               THEN [mnt EXCEPT !.buf = s, !.loaded = sector, !.pc = "gpt_vbr", !.lba = s.entries[at].lba]
               ELSE [mnt EXCEPT !.buf = s, !.loaded = sector, !.i = @ + 1]
  <2>5. ASSUME NEW s, mnt' = look(s) PROVE MountShape'
    <3>1. CASE at \in DOMAIN s.entries /\ BasicData(s.entries[at])
      <4>1. mnt' = [mnt EXCEPT !.buf = s, !.loaded = sector, !.pc = "gpt_vbr", !.lba = s.entries[at].lba]
        BY <2>5, <3>1, Zenon
      <4> QED BY <2>1, <4>1
    <3>2. CASE ~(at \in DOMAIN s.entries /\ BasicData(s.entries[at]))
      <4>1. mnt' = [mnt EXCEPT !.buf = s, !.loaded = sector, !.i = @ + 1]
        BY <2>5, <3>2, Zenon
      <4> QED BY <2>2, <4>1
    <3> QED BY <3>1, <3>2
  <2>6. \/ Fails \/ mnt' = [mnt EXCEPT !.pc = "failed"] \/ mnt' = [mnt EXCEPT !.i = @ + 1]
        \/ \E s : mnt' = look(s)
    BY <1>5, Zenon DEF ReadGptEntry
  <2> HIDE DEF look, MountShape
  <2> QED BY <1>2, <2>3, <2>4, <2>5, <2>6
<1>6. CASE ReadGptVbr
  <2>1. CASE mnt' = [NotLoaded(mnt) EXCEPT !.clean = FALSE]
    BY <2>1 DEF NotLoaded
  <2>2. CASE mnt' = NotLoaded([mnt EXCEPT !.buf = SectorAt(mnt.lba)])
    BY <2>2 DEF NotLoaded
  <2> QED BY <1>1, <1>6, <2>1, <2>2 DEF ReadGptVbr
<1>7. CASE ReadMbr
  <2>1. CASE mnt' = [mnt EXCEPT !.pc = "part", !.buf = SectorAt(0), !.i = 1]
    BY <2>1
  <2> QED BY <1>2, <1>7, <2>1 DEF ReadMbr
<1>8. CASE ReadPartition
  <2>1. CASE mnt' = [mnt EXCEPT !.pc = "failed"]
    BY <2>1
  <2>2. CASE mnt' = [mnt EXCEPT !.i = @ + 1]
    BY <2>2
  <2>3. CASE \E b : mnt' = [mnt EXCEPT !.i = @ + 1, !.buf = b, !.clean = FALSE]
    BY <2>3
  <2>4. CASE \E b : mnt' = [mnt EXCEPT !.i = @ + 1, !.buf = b]
    BY <2>4
  <2> QED BY <1>1, <1>8, <2>1, <2>2, <2>3, <2>4 DEF ReadPartition
<1>9. CASE MountReturns
  <2>1. mnt' = [Unmounted EXCEPT !.pc = "mounted", !.type = mnt.type]
    BY <1>9 DEF MountReturns
  <2>2. DOMAIN mnt' = {"pc", "buf", "i", "loaded", "lba", "gpt", "type", "clean"}
    BY <2>1 DEF Unmounted
  <2>3. mnt'.type = mnt.type /\ mnt'.i = 0
    BY <2>1 DEF Unmounted
  <2> QED BY <2>2, <2>3
<1>10. CASE MountAgain
  <2>1. mnt' = Unmounted
    BY <1>10 DEF MountAgain
  <2>2. DOMAIN mnt' = {"pc", "buf", "i", "loaded", "lba", "gpt", "type", "clean"}
    BY <2>1 DEF Unmounted
  <2>3. mnt'.type = 0 /\ mnt'.i = 0
    BY <2>1 DEF Unmounted
  <2> QED BY <2>2, <2>3
<1> QED BY <1>3, <1>4, <1>5, <1>6, <1>7, <1>8, <1>9, <1>10 DEF MountStep

LEMMA MountShapeNext ==
  ASSUME MountShape, [Next]_vars
  PROVE  MountShape'
<1>1. CASE mnt' = mnt
  BY <1>1 DEF MountShape
<1>2. CASE MountStep \/ MountAgain
  BY <1>2, MountShapeStep
<1> QED BY <1>1, <1>2 DEF Next, vars, mountVars

LEMMA SafeTypes ==
  ASSUME Safe, MountShape
  PROVE  TypeOK
<1>1. \A s \in 1 .. Slots : dir[s] \in Entry
  BY DEF Safe, Types
<1>2. \A s \in 1 .. Slots : dir[s].state \in {"end", "file", "deleted"} /\ dir[s].first \in {0} \cup Cluster
  BY <1>1 DEF Entry
<1>3. op.pc \in PcValue /\ op.count \in 0 .. MaxCluster /\ op.freed \in 0 .. MaxCluster
  BY DEF Safe, Types, OpType
<1>4. DOMAIN data = Cluster
  BY DEF Safe, Types
<1> QED BY <1>2, <1>3, <1>4 DEF Safe, Types, MountShape, TypeOK, PcValue

-----------------------------------------------------------------------------
(***************************************************************************)
(* Nothing is lost without a failure: the parts of Sound that a step which *)
(* writes nothing leaves alone                                             *)
(***************************************************************************)
LEMMA TablesQuiet ==
  ASSUME TablesInv, ~FatPending, fat' = fat, ~FatPending'
  PROVE  TablesInv'
BY DEF TablesInv

\* An entry of the table is to be written next.
LEMMA TablesPending ==
  ASSUME FatAssumption, TablesInv, ~FatPending, fat' = fat, NEW c \in Cluster, NEW v \in FatValue,
         op'.todo = FatTodo(c, v, 0)
  PROVE  TablesInv'
<1>1. \A k \in 1 .. Copies : fat'[k] = fat'[1]
  BY DEF TablesInv
<1>2. 0 \in Left
  BY FatTodoAll
<1>3. \A k \in 1 .. 0 : FALSE
  OBVIOUS
<1>4. \A k \in 1 .. Copies : \A d \in Cluster \ {c} : fat'[k][d] = fat'[1][d]
  BY <1>1
<1>5. \A k \in 1 .. 0 : fat'[k][c] = v
  BY <1>3
<1> QED BY <1>1, <1>2, <1>4, <1>5 DEF TablesInv

LEMMA NamesQuiet ==
  ASSUME NamesInv, dir' = dir, Files' = Files, NameGone' => \A s \in Files : dir[s].name # op'.name
  PROVE  NamesInv'
BY DEF NamesInv

LEMMA KeptQuiet ==
  ASSUME KeptInv, dir' = dir, Files' = Files, KeptVersion' = KeptVersion, Unfailed' => op'.clean
  PROVE  KeptInv'
BY DEF KeptInv

LEMMA UsedQuiet ==
  ASSUME Safe, UNCHANGED diskVars
  PROVE  Used' = Used /\ Owned' = Owned /\ Files' = Files /\ Spare' = Spare /\ fat' = fat /\ data' = data /\ dir' = dir
BY Quiet DEF Used

\* Nothing is in progress any more.
LEMMA IdleSound ==
  ASSUME FatAssumption, Safe, Sound, UNCHANGED diskVars, op' = Idle, saved' = KeptVersion,
         op.pc \in {"idle", "failed", "reboot", "done"}
  PROVE  Sound'
<1>1. op'.pc = "idle"
  BY DEF Idle
<1>2. Used = Owned /\ op.pc # "write"
  BY DEF Sound, UsedInv, UsedAt
<1>3. UsedInv'
  BY <1>1, <1>2, UsedQuiet DEF UsedInv, UsedAt
<1>4. TablesInv'
  BY <1>1, <1>2, UsedQuiet, TablesQuiet DEF Sound, FatPending
<1>5. ~NameGone' /\ ~Unfailed' /\ ~Stored'
  BY <1>1 DEF NameGone, Unfailed, Stored, Stages
<1>6. NamesInv'
  BY <1>5, UsedQuiet, NamesQuiet DEF Sound
<1>7. KeptVersion' = KeptVersion
  BY <1>5 DEF KeptVersion
<1>8. KeptInv'
  BY <1>5, <1>7, UsedQuiet, KeptQuiet DEF Sound
<1> QED BY <1>3, <1>4, <1>6, <1>8 DEF Sound

LEMMA EndSound ==
  ASSUME FatAssumption, Safe, Sound, Done \/ Failed \/ Restart
  PROVE  Sound'
<1>1. UNCHANGED diskVars /\ op' = Idle /\ op.pc \in {"idle", "failed", "reboot", "done"}
  BY DEF Done, Failed, Restart
<1>2. saved' = KeptVersion
  <2>1. CASE Done
    <3>1. op.pc = "done" /\ saved' = IF op.kind = "config" /\ op.clean THEN op.version ELSE saved
      BY <2>1 DEF Done
    <3>2. op.clean
      BY <3>1 DEF Sound, KeptInv, Unfailed, Stages
    <3>3. Stored <=> op.kind = "config"
      BY <3>1 DEF Stored
    <3> QED BY <3>1, <3>2, <3>3 DEF KeptVersion
  <2>2. CASE Failed \/ Restart
    <3>1. saved' = saved /\ op.pc \in {"idle", "failed", "reboot"}
      BY <2>2 DEF Failed, Restart
    <3> QED BY <3>1 DEF KeptVersion, Stored
  <2> QED BY <2>1, <2>2
<1> QED BY <1>1, <1>2, IdleSound

\* The operation and the disk stay what they are.
LEMMA SameSound ==
  ASSUME Safe, Sound, UNCHANGED <<diskVars, op, saved>>
  PROVE  Sound'
<1>1. op' = op /\ saved' = saved /\ UNCHANGED diskVars
  OBVIOUS
<1>2. UsedInv'
  BY <1>1, UsedQuiet DEF Sound, UsedInv, UsedAt, UsedFreeing, UsedChaining, UsedAllocating, Unlinking, Freeing,
     Chaining, Allocating, Storing, Entering, FreeChain, ChainSet, Work, WorkChain, WorkSet, Collected, Tagged,
     TagOf, NewEntry
<1>3. TablesInv'
  BY <1>1, UsedQuiet DEF Sound, TablesInv, FatPending
<1>4. (NameGone' <=> NameGone) /\ (Unfailed' <=> Unfailed) /\ (Stored' <=> Stored)
  BY <1>1 DEF NameGone, Unfailed, Stored, DirPending
<1>5. NamesInv'
  BY <1>1, <1>4, UsedQuiet, NamesQuiet DEF Sound, NamesInv
<1>6. KeptVersion' = KeptVersion
  BY <1>1, <1>4 DEF KeptVersion
<1>7. KeptInv'
  BY <1>1, <1>4, <1>6, UsedQuiet, KeptQuiet DEF Sound, KeptInv
<1> QED BY <1>2, <1>3, <1>5, <1>7 DEF Sound

\* An operation begins.
LEMMA BeginSound ==
  ASSUME FatAssumption, Safe, Sound, UNCHANGED <<diskVars, saved>>, op.pc = "idle",
         op'.pc \in {"find", "alloc"}, op'.count = 0, op'.clean = TRUE,
         op'.pc = "alloc" => \A s \in Files : dir[s].name # op'.name
  PROVE  Sound'
<1>1. Used = Owned
  BY DEF Sound, UsedInv, UsedAt
<1>2. WorkSet(op.count)' = {}
  BY SpanNone DEF WorkSet
<1>3. UsedInv'
  BY <1>1, <1>2, UsedQuiet DEF UsedInv, UsedAt
<1>4. TablesInv'
  BY UsedQuiet, TablesQuiet DEF Sound, FatPending
<1>5. NamesInv'
  BY UsedQuiet, NamesQuiet DEF Sound, NameGone
<1>6. KeptVersion' = KeptVersion
  BY DEF KeptVersion, Stored
<1>7. KeptInv'
  BY <1>6, UsedQuiet, KeptQuiet DEF Sound
<1> QED BY <1>3, <1>4, <1>5, <1>7 DEF Sound

LEMMA StartSound ==
  ASSUME FatAssumption, Safe, Sound, SaveConfig \/ DeleteConfig \/ SaveReport, faults = 0, faults' = 0
  PROVE  Sound'
<1>1. settings \in Settings /\ Default \in Settings /\ MaxReport \in Nat /\ ReportSize \in Nat \ {0}
      /\ Config = MaxReport + 1 /\ Reached
  BY DEF Safe, Types, FatAssumption, Config
<1>2. UNCHANGED <<diskVars, saved>> /\ op.pc = "idle"
  BY DEF SaveConfig, DeleteConfig, SaveReport
<1>3. CASE SaveConfig \/ DeleteConfig
  <2>1. op'.pc = "find" /\ op'.count = 0 /\ op'.clean = TRUE
    BY <1>3 DEF SaveConfig, DeleteConfig, Start, Idle
  <2> QED BY <1>2, <2>1, BeginSound
<1>4. CASE SaveReport
  <2>1. PICK lost \in SUBSET {SectorOf(s) : s \in UsedSlots}, ends \in {~Fat32, TRUE} :
          LET seen == {s \in UsedSlots :
                         IF ends THEN \A k \in 0 .. SectorOf(s) : k \notin lost
                                 ELSE SectorOf(s) \notin lost}
              taken == {dir[s].name : s \in {t \in seen : dir[t].state = "file"}}
              free == Report \ taken
          IN /\ free # {}
             /\ Fault(Cardinality(lost))
             /\ Start("report", Least(free), ReportSize, settings, "alloc")
    BY <1>4 DEF SaveReport
  <2>2. lost = {}
    <3>1. IsFiniteSet(lost) /\ Cardinality(lost) \in Nat
      BY LostFinite
    <3>2. Cardinality(lost) = 0
      BY <2>1, <3>1 DEF Fault
    <3> QED BY <3>1, <3>2, FS_EmptySet
  <2> DEFINE taken == {dir[s].name : s \in {t \in UsedSlots : dir[t].state = "file"}}
  <2>3. Report \ taken # {} /\ Start("report", Least(Report \ taken), ReportSize, settings, "alloc")
    <3>1. {s \in UsedSlots : IF ends THEN \A k \in 0 .. SectorOf(s) : k \notin lost
                                     ELSE SectorOf(s) \notin lost} = UsedSlots
      BY <2>2
    <3> QED BY <2>1, <3>1
  <2>4. Least(Report \ taken) \in Report \ taken
    <3>1. Report \ taken \subseteq Nat
      BY DEF Report
    <3> QED BY <2>3, <3>1, LeastIs
  <2>5. op'.pc = "alloc" /\ op'.count = 0 /\ op'.clean = TRUE /\ op'.name = Least(Report \ taken)
    BY <2>3 DEF Start, Idle
  <2>6. \A s \in Files : s \in UsedSlots /\ dir[s].state = "file"
    BY <1>1 DEF Reached, Files, UsedSlots
  <2>7. \A s \in Files : dir[s].name # op'.name
    BY <2>4, <2>5, <2>6
  <2> QED BY <1>2, <2>5, <2>7, BeginSound
<1> QED BY <1>3, <1>4

\* The writes are done.
LEMMA WrittenSound ==
  ASSUME FatAssumption, Safe, Sound, op.pc = "write", op.todo = << >>, op' = [op EXCEPT !.pc = op.ok],
         UNCHANGED <<diskVars, saved>>
  PROVE  Sound'
<1>1. op \in OpType /\ op.ok \in {"free", "alloc", "chain", "data", "part", "next", "done"}
  BY DEF Safe, Types, OpInv
<1>2. op' \in OpType
  BY <1>1, WrittenStep
<1>3. /\ op'.pc = op.ok /\ op'.todo = << >> /\ op'.kind = op.kind /\ op'.name = op.name /\ op'.size = op.size
      /\ op'.version = op.version /\ op'.first = op.first /\ op'.cluster = op.cluster /\ op'.count = op.count
      /\ op'.freed = op.freed /\ op'.clean = op.clean
  BY <1>1, <1>2, GoToFields DEF OpType
<1>4. UsedAt(op.ok)
  <2>1. ASSUME NEW c \in Cluster, NEW v \in FatValue, NEW j \in Left PROVE op.todo # FatTodo(c, v, j)
    BY FatTodoNext
  <2>2. ~Unlinking /\ ~Storing /\ ~Entering
    BY DEF Unlinking, Storing, Entering
  <2>3. ASSUME NEW c \in Cluster, NEW j \in Left PROVE ~Freeing(c, j) /\ ~Allocating(j) /\ ~Chaining(c, j)
    <3>1. FAT_FREE \in FatValue /\ EOC \in FatValue /\ op.cluster \in FatValue
      BY <1>1, NoClusters DEF OpType
    <3>2. Allocating(j) => op.cluster \in Cluster
      BY DEF Allocating, Spare
    <3> QED BY <2>1, <3>1, <3>2 DEF Freeing, Allocating, Chaining
  <2>4. ASSUME NEW j \in Left PROVE ~Allocating(j)
    <3>1. Allocating(j) => op.cluster \in Cluster
      BY DEF Allocating, Spare
    <3> QED BY <2>3, <3>1
  <2> QED BY <2>2, <2>3, <2>4 DEF Sound, UsedInv
<1>6. UsedInv'
  <2>1. op'.pc # "write" /\ op'.pc = op.ok
    BY <1>1, <1>3
  <2>2. UsedAt(op.pc)'
    BY <1>3, <1>4, <2>1, UsedQuiet DEF UsedAt, WorkSet, FreeChain, ChainSet
  <2> QED BY <2>1, <2>2 DEF UsedInv
<1>7. TablesInv'
  BY <1>1, <1>3, UsedQuiet, TablesQuiet DEF Sound, FatPending
<1>8. NameGone' => NameGone
  BY <1>1, <1>3 DEF NameGone, DirPending
<1>9. NamesInv'
  BY <1>3, <1>8, UsedQuiet, NamesQuiet DEF Sound, NamesInv
<1>10. (Stored' <=> Stored) /\ (Unfailed' => Unfailed)
  BY <1>1, <1>3 DEF Stored, Unfailed, DirPending, Stages
<1>11. KeptVersion' = KeptVersion
  BY <1>3, <1>10 DEF KeptVersion
<1>12. KeptInv'
  BY <1>3, <1>10, <1>11, UsedQuiet, KeptQuiet DEF Sound, KeptInv
<1> QED BY <1>6, <1>7, <1>9, <1>12 DEF Sound

\* find_file_dir_entry, and the entry is to be marked as deleted.
LEMMA FindSound ==
  ASSUME FatAssumption, Safe, Sound, Find, Safe', faults = 0, faults' = 0
  PROVE  Sound'
<1> DEFINE s == FindFile(op.name)
<1>1. op \in OpType /\ op.pc = "find" /\ op.todo = << >> /\ op.first = 0 /\ op.count = 0
      /\ Types /\ Reached /\ FilesWhole /\ op.clean
  BY DEF Safe, Types, Find, OpInv, Sound, KeptInv, Unfailed
<1>2. UNCHANGED diskVars /\ saved' = saved /\ Used = Owned
  BY <1>1 DEF Find, Sound, UsedInv, UsedAt
<1>3. AfterDelete \in {"alloc", "reboot"}
  BY DEF AfterDelete
<1>4. CASE s = 0 /\ op' = [op EXCEPT !.pc = AfterDelete]
  <2>1. /\ op'.pc = AfterDelete /\ op'.name = op.name /\ op'.first = 0 /\ op'.count = 0
        /\ op'.clean = op.clean
    BY <1>1, <1>4 DEF OpType
  <2>2. WorkSet(op.count)' = {}
    BY <2>1, SpanNone DEF WorkSet
  <2>3. UsedInv'
    BY <1>2, <1>3, <2>1, <2>2, UsedQuiet DEF UsedInv, UsedAt
  <2>4. TablesInv'
    BY <1>1, <1>2, <1>3, <2>1, UsedQuiet, TablesQuiet DEF Sound, FatPending
  <2>5. \A t \in Files : dir[t].name # op.name
    BY <1>1, <1>4, FindFileFacts
  <2>6. NamesInv'
    BY <1>2, <2>1, <2>5, UsedQuiet, NamesQuiet DEF Sound
  <2>7. KeptVersion' = KeptVersion
    BY <1>1, <1>2, <1>3, <2>1 DEF KeptVersion, Stored
  <2>8. KeptInv'
    BY <1>1, <1>2, <2>1, <2>7, UsedQuiet, KeptQuiet DEF Sound
  <2> QED BY <2>3, <2>4, <2>6, <2>8 DEF Sound
<1>5. CASE s # 0 /\ op' = Unlinked(op, s)
  <2> DEFINE todo == <<[kind |-> "dir", slot |-> s, value |-> [dir[s] EXCEPT !.state = "deleted"]]>>
  <2>1. /\ op'.pc = "write" /\ op'.ok = "free" /\ op'.todo = todo /\ op'.freed = 0 /\ op'.name = op.name
        /\ op'.first = 0 /\ op'.clean = op.clean /\ op'.cluster = dir[s].first
    BY <1>1, <1>5 DEF Unlinked, Begin, OpType
  <2>2. todo # << >> /\ todo[1].kind = "dir"
    OBVIOUS
  <2>3. s \in Files /\ dir[s].name = op.name
    BY <1>1, <1>5, FindFileFacts
  <2> HIDE DEF s
  <2>4. Unlinking'
    BY <1>2, <2>1, <2>3, UsedQuiet DEF Unlinking
  <2> HIDE DEF todo
  <2>5. UsedInv'
    BY <1>2, <2>1, <2>4, UsedQuiet DEF UsedInv
  <2>6. ~FatPending' /\ DirPending'
    BY <2>1, <2>2 DEF FatPending, DirPending
  <2>7. TablesInv'
    BY <1>1, <1>2, <2>6, UsedQuiet, TablesQuiet DEF Sound, FatPending
  <2>8. ~NameGone' /\ ~Stored' /\ ~Stored
    BY <1>1, <2>1, <2>6 DEF NameGone, Stored
  <2>9. NamesInv'
    BY <1>2, <2>8, UsedQuiet, NamesQuiet DEF Sound
  <2>10. KeptVersion' = KeptVersion
    BY <1>2, <2>8 DEF KeptVersion
  <2>11. KeptInv'
    BY <1>1, <1>2, <2>1, <2>10, UsedQuiet, KeptQuiet DEF Sound
  <2> QED BY <2>5, <2>7, <2>9, <2>11 DEF Sound
<1>6. ~Fault(1)
  BY DEF Fault
<1> QED BY <1>4, <1>5, <1>6 DEF Find

\* Two lists of writes to the table are the same only for the same entry, value and copy.
LEMMA FatTodoSame ==
  ASSUME FatAssumption, NEW c \in Cluster, NEW v \in FatValue, NEW j \in Left,
         NEW d \in Cluster, NEW w \in FatValue, NEW i \in Left, FatTodo(c, v, j) = FatTodo(d, w, i)
  PROVE  c = d /\ v = w /\ j = i
<1> DEFINE t == FatTodo(c, v, j)
           u == FatTodo(d, w, i)
<1>0. /\ t = u /\ Head(t) = [kind |-> "fat", copy |-> j + 1, cluster |-> c, value |-> v]
      /\ Head(u) = [kind |-> "fat", copy |-> i + 1, cluster |-> d, value |-> w]
  <2>1. t = u
    OBVIOUS
  <2>2. Head(t) = [kind |-> "fat", copy |-> j + 1, cluster |-> c, value |-> v]
    BY FatTodoNext
  <2>3. Head(u) = [kind |-> "fat", copy |-> i + 1, cluster |-> d, value |-> w]
    BY FatTodoNext
  <2> QED BY <2>1, <2>2, <2>3
<1> HIDE DEF t, u
<1>1. [kind |-> "fat", copy |-> j + 1, cluster |-> c, value |-> v] =
        [kind |-> "fat", copy |-> i + 1, cluster |-> d, value |-> w]
  BY <1>0
<1>2. c = d /\ v = w /\ j + 1 = i + 1
  BY <1>1
<1>3. j \in Int /\ i \in Int
  BY DEF Left
<1> QED BY <1>2, <1>3

\* fat_free_chain goes on, or has come to the end of the chain.
LEMMA FreeSound ==
  ASSUME FatAssumption, Safe, Sound, Free, Safe', faults = 0, faults' = 0
  PROVE  Sound'
<1>1. op \in OpType /\ op.pc = "free" /\ op.todo = << >> /\ Spare \in SUBSET Cluster
      /\ fat \in [1 .. Copies -> [Cluster -> FatValue]] /\ (op.first = 0 => op.clean /\ op.count = 0)
  BY DEF Safe, Types, Free, OpInv, Spare, Sound, KeptInv, Unfailed
<1>2. UNCHANGED diskVars /\ saved' = saved /\ ~FatPending /\ ~Stored /\ (\A s \in Files : dir[s].name # op.name)
  BY <1>1 DEF Free, FatPending, Stored, Sound, NamesInv, NameGone
<1>3. PICK m \in 0 .. MaxCluster : FreeChain(op.cluster, m) /\ Used = Owned \cup ChainSet(op.cluster, m)
  BY <1>1 DEF Sound, UsedInv, UsedAt
<1>4. m \in Nat /\ op.freed \in 0 .. MaxCluster /\ MaxCluster \in Nat /\ m \in 0 .. (MaxCluster - op.freed)
      /\ (m = 0 => op.cluster \notin Cluster) /\ (m > 0 => Path(fat[1], Spare, op.cluster, m))
  BY <1>1, <1>3 DEF FreeChain, OpType, FatAssumption
<1>5. CASE ~MoreToFree(op)
  <2>1. op' = [op EXCEPT !.pc = AfterFree]
    BY <1>5 DEF Free
  <2>2. /\ op'.pc = AfterFree /\ op'.name = op.name /\ op'.first = op.first /\ op'.count = op.count
        /\ op'.clean = op.clean
    BY <1>1, <2>1 DEF OpType
  <2>3. AfterFree \in {"failed", "alloc", "reboot"} /\ (AfterFree = "alloc" => op.first = 0)
    BY DEF AfterFree, AfterDelete
  <2>4. m = 0
    <3>1. ASSUME m > 0 PROVE op.cluster \in Cluster
      BY <1>1, <1>4, <3>1, PathEnds
    <3> QED BY <1>4, <1>5, <3>1 DEF MoreToFree
  <2>5. Used = Owned
    BY <1>3, <2>4, SpanNone DEF ChainSet
  <2>6. op'.pc = "alloc" => WorkSet(op.count)' = {}
    BY <1>1, <2>2, <2>3, SpanNone DEF WorkSet
  <2>7. UsedInv'
    BY <1>2, <2>2, <2>3, <2>5, <2>6, UsedQuiet DEF UsedInv, UsedAt
  <2>8. TablesInv'
    BY <1>2, <2>2, <2>3, UsedQuiet, TablesQuiet DEF Sound, FatPending
  <2>9. NamesInv'
    BY <1>2, <2>2, UsedQuiet, NamesQuiet DEF Sound
  <2>10. KeptVersion' = KeptVersion
    BY <1>2, <2>2, <2>3 DEF KeptVersion, Stored
  <2>11. Unfailed' => op'.clean
    BY <1>1, <2>2, <2>3 DEF Unfailed, Stages
  <2>12. KeptInv'
    BY <1>2, <2>10, <2>11, UsedQuiet, KeptQuiet DEF Sound
  <2> QED BY <2>7, <2>8, <2>9, <2>12 DEF Sound
<1>6. CASE MoreToFree(op)
  <2>1. PICK c, todo, f : c \in Cluster /\ c = op.cluster /\ todo = FatTodo(c, FAT_FREE, 0) /\ f = fat[1]
    BY <1>6 DEF MoreToFree
  <2>2. op' = Begin([op EXCEPT !.cluster = fat[1][op.cluster], !.freed = @ + 1], todo, "free", AfterFree)
    <3>1. PICK next \in {fat[1][op.cluster], EOC} :
            /\ FatReadEntry(op.cluster, next)
            /\ op' = Begin([op EXCEPT !.cluster = next, !.freed = @ + 1],
                           FatWriteEntry(op.cluster, FAT_FREE), "free", AfterFree)
      BY <1>6 DEF Free
    <3>2. next = fat[1][op.cluster]
      BY <3>1 DEF FatReadEntry, Fault
    <3>3. FatWriteEntry(op.cluster, FAT_FREE) = todo
      BY <2>1, FatTodoAll
    <3> QED BY <3>1, <3>2, <3>3
  <2>3. /\ op'.pc = "write" /\ op'.ok = "free" /\ op'.todo = todo /\ op'.freed = op.freed + 1 /\ op'.name = op.name
        /\ op'.first = op.first /\ op'.clean = op.clean /\ op'.cluster = f[c]
    BY <1>1, <2>1, <2>2 DEF Begin, OpType
  <2>4. m > 0 /\ Path(f, Spare, c, m) /\ Used = Owned \cup Span(f, c, m)
    BY <1>3, <1>4, <2>1 DEF ChainSet
  <2>5. 0 \in Left /\ FAT_FREE \in FatValue /\ EOC \notin Cluster
    BY FatTodoAll, NoClusters
  <2>6. todo # << >> /\ todo[1].kind = "fat"
    <3>1. todo # << >> /\ Head(todo) = [kind |-> "fat", copy |-> 0 + 1, cluster |-> c, value |-> FAT_FREE]
      BY <2>1, <2>5, FatTodoNext
    <3> QED BY <3>1
  <2>7. Freeing(c, 0)'
    <3> DEFINE D == Span(f, c, m)
    <3>1. Closed(f, D) /\ c \in D /\ D \in SUBSET Spare
      BY <1>1, <2>4, PathClosed, PathEnds
    <3>2. f[c] \in D \cup {FAT_FREE, EOC}
      BY <3>1 DEF Closed
    <3> HIDE DEF D
    <3>3. Spare' = Spare /\ fat'[1] = f
      BY <1>2, <2>1, UsedQuiet
    <3> QED BY <2>1, <2>3, <3>1, <3>2, <3>3 DEF Freeing
  <2>8. /\ m = 1 => f[c] = EOC /\ Span(f, c, m) = {c}
        /\ m > 1 => /\ Path(f, Spare, f[c], m - 1) /\ c \notin Span(f, f[c], m - 1)
                    /\ Span(f, c, m) = {c} \cup Span(f, f[c], m - 1)
    <3>1. PICK A : A = Spare
      OBVIOUS
    <3>2. A \in SUBSET Cluster /\ Path(f, A, c, m)
      BY <1>1, <2>4, <3>1
    <3>3. ShorterBy(f, A, c, m)
      BY <3>2, PathTail
    <3> QED BY <3>1, <3>3 DEF ShorterBy
  <2>9. UsedFreeing(c, 0)'
    <3>1. m - 1 \in 0 .. MaxCluster /\ m - 1 \in 0 .. (MaxCluster - op'.freed)
      BY <1>4, <2>3, <2>4
    <3>2. Spare' = Spare /\ fat'[1] = f /\ Used' = Used /\ Owned' = Owned
      BY <1>2, <2>1, UsedQuiet
    <3>3. CASE m = 1
      <4>1. m - 1 = 0 /\ Span(f, f[c], 0) = {}
        BY <3>3, SpanNone
      <4>2. FreeChain(op.cluster, 0)'
        BY <2>3, <2>5, <2>8, <3>1, <3>2, <3>3, <4>1 DEF FreeChain
      <4>3. ChainSet(op.cluster, 0)' = {}
        BY <2>3, <3>2, <4>1 DEF ChainSet
      <4>4. Used' = Owned' \cup {c} /\ 0 \in 0 .. MaxCluster
        BY <2>4, <2>8, <3>1, <3>2, <3>3, <4>1
      <4> QED BY <4>2, <4>3, <4>4 DEF UsedFreeing
    <3>4. CASE m > 1
      <4>1. m - 1 > 0 /\ m - 1 # 0
        BY <1>4, <3>4
      <4>2. PICK n \in 0 .. MaxCluster : n = m - 1
        BY <3>1
      <4>3. FreeChain(op.cluster, n)'
        BY <2>3, <2>8, <3>1, <3>2, <3>4, <4>1, <4>2 DEF FreeChain
      <4>4. ChainSet(op.cluster, n)' = Span(f, f[c], n)
        BY <2>3, <3>2 DEF ChainSet
      <4>5. Used' = Owned' \cup Span(f, f[c], n) \cup {c} /\ c \notin Span(f, f[c], n)
        BY <2>4, <2>8, <3>2, <3>4, <4>2
      <4> QED BY <4>3, <4>4, <4>5 DEF UsedFreeing
    <3> QED BY <1>4, <2>4, <3>3, <3>4
  <2>10. UsedInv'
    BY <2>1, <2>3, <2>5, <2>7, <2>9 DEF UsedInv
  <2>11. TablesInv'
    BY <1>2, <2>1, <2>3, <2>5, UsedQuiet, TablesPending DEF Sound
  <2>12. NamesInv'
    BY <1>2, <2>3, UsedQuiet, NamesQuiet DEF Sound
  <2>13. KeptVersion' = KeptVersion
    BY <1>2, <2>3 DEF KeptVersion, Stored
  <2>14. Unfailed' => op'.clean
    BY <1>1, <2>3 DEF Unfailed, Stages
  <2>15. KeptInv'
    BY <1>2, <2>13, <2>14, UsedQuiet, KeptQuiet DEF Sound
  <2> QED BY <2>10, <2>11, <2>12, <2>15 DEF Sound
<1> QED BY <1>5, <1>6

\* What is written next.
LEMMA PendingIs ==
  ASSUME OpInv', op'.pc = "write", op'.todo # << >>
  PROVE  /\ op'.ok = "chain" => \E j \in Left : Allocating(j)'
         /\ op'.ok \in {"alloc", "data"} => \E c \in Cluster : \E j \in Left : Chaining(c, j)'
         /\ op'.ok = "next" => Storing'
         /\ op'.ok = "done" => Entering'
<1>1. Writing'
  BY DEF OpInv
<1>2. Unlinking' => op'.ok = "free"
  BY DEF Unlinking
<1>3. ASSUME NEW c \in Cluster, NEW j \in Left
      PROVE  (Freeing(c, j)' => op'.ok = "free") /\ (Chaining(c, j)' => op'.ok \in {"alloc", "data"})
  BY DEF Freeing, Chaining
<1>4. ASSUME NEW j \in Left PROVE Allocating(j)' => op'.ok = "chain"
  BY DEF Allocating
<1>5. (Storing' => op'.ok = "next") /\ (Entering' => op'.ok = "done")
  BY DEF Storing, Entering
<1> QED BY <1>1, <1>2, <1>3, <1>4, <1>5 DEF Writing

\* The file cannot be written: what was chained is released.
LEMMA FailSound ==
  ASSUME FatAssumption, Safe, Sound, UNCHANGED <<diskVars, saved>>, op' = ToFail(op), NEW n \in Nat,
         n > 0 => Work(n), n = 0 <=> op.first = 0, Used = Owned \cup WorkSet(n),
         op.pc # "write", NameGone, ~Stored
  PROVE  Sound'
<1>1. op \in OpType
  BY DEF Safe, Types
<1>2. /\ op'.pc = (IF op.first # 0 THEN "free" ELSE "failed") /\ op'.cluster = op.first /\ op'.freed = 0
      /\ op'.first = op.first /\ op'.name = op.name
  BY <1>1 DEF ToFail, OpType
<1>3. Used' = Used /\ Owned' = Owned /\ Spare' = Spare /\ fat' = fat
  BY UsedQuiet
<1>4. UsedInv'
  <2>1. CASE op.first = 0
    <3>1. Used = Owned
      BY <2>1, SpanNone DEF WorkSet
    <3> QED BY <1>2, <1>3, <2>1, <3>1 DEF UsedInv, UsedAt
  <2>2. CASE op.first # 0
    <3>1. n > 0 /\ Path(fat[1], Spare, op.first, n)
      BY <2>2 DEF Work
    <3>2. Spare \in SUBSET Cluster
      BY DEF Spare
    <3>3. n \in 0 .. MaxCluster /\ MaxCluster \in Nat
      BY <3>1, <3>2, PathLength DEF FatAssumption
    <3>4. FreeChain(op.cluster, n)'
      BY <1>2, <1>3, <3>1, <3>3 DEF FreeChain
    <3>5. Used' = Owned' \cup ChainSet(op.cluster, n)'
      BY <1>2, <1>3 DEF ChainSet, WorkSet
    <3> QED BY <1>2, <2>2, <3>3, <3>4, <3>5 DEF UsedInv, UsedAt
  <2> QED BY <2>1, <2>2
<1>5. TablesInv'
  BY <1>2, UsedQuiet, TablesQuiet DEF Sound, FatPending
<1>6. NamesInv'
  BY <1>2, UsedQuiet, NamesQuiet DEF Sound, NamesInv
<1>7. ~Stored' /\ ~Unfailed'
  BY <1>2 DEF Stored, Unfailed, Stages
<1>8. KeptVersion' = KeptVersion
  BY <1>7 DEF KeptVersion
<1>9. KeptInv'
  BY <1>7, <1>8, UsedQuiet, KeptQuiet DEF Sound
<1> QED BY <1>4, <1>5, <1>6, <1>9 DEF Sound

\* fat_alloc_cluster finds a free cluster, or there is none.
LEMMA AllocSound ==
  ASSUME FatAssumption, Safe, Sound, Alloc, Safe'
  PROVE  Sound'
<1>1. op \in OpType /\ OpInv /\ op.pc = "alloc" /\ op.todo = << >> /\ Collected(op.count) /\ op.count < op.size
      /\ op.count \in Nat
  BY DEF Safe, Types, Alloc, OpInv, At, OpType
<1>2. UNCHANGED <<diskVars, saved>> /\ NameGone /\ ~Stored /\ ~FatPending /\ op.clean
      /\ Used = Owned \cup WorkSet(op.count)
  BY <1>1 DEF Alloc, NameGone, Stored, FatPending, Sound, UsedInv, UsedAt, KeptInv, Unfailed, Stages
<1>3. CASE op' = ToFail(op)
  <2>1. (op.count > 0 => Work(op.count)) /\ (op.count = 0 <=> op.first = 0)
    BY <1>1 DEF Collected, OpInv
  <2> QED BY <1>1, <1>2, <1>3, <2>1, FailSound
<1>4. ASSUME NEW c \in Cluster,
             op' = Begin([op EXCEPT !.cluster = c], FatWriteEntry(c, EOC), "chain", "fail")
      PROVE  Sound'
  <2>1. PICK todo : todo = FatTodo(c, EOC, 0)
    OBVIOUS
  <2>2. FatWriteEntry(c, EOC) = todo /\ 0 \in Left /\ EOC \in FatValue
    BY <2>1, FatTodoAll, NoClusters
  <2>3. /\ op'.pc = "write" /\ op'.ok = "chain" /\ op'.todo = todo /\ op'.name = op.name
        /\ op'.first = op.first /\ op'.count = op.count /\ op'.clean = op.clean /\ op'.cluster = c
    BY <1>1, <1>4, <2>2 DEF Begin, OpType
  <2>4. todo # << >>
    BY <2>1, <2>2, FatTodoNext
  <2>5. Allocating(0)'
    <3>1. OpInv'
      BY DEF Safe
    <3>2. PICK j \in Left : Allocating(j)'
      BY <2>3, <2>4, <3>1, PendingIs
    <3>3. FatTodo(c, EOC, 0) = FatTodo(c, EOC, j)
      BY <2>1, <2>3, <3>2 DEF Allocating
    <3>4. j = 0
      BY <2>2, <3>3, FatTodoSame
    <3> QED BY <3>2, <3>4
  <2>6. UsedAllocating(0)'
    BY <1>2, <2>3, UsedQuiet DEF UsedAllocating, WorkSet
  <2>7. UsedInv'
    BY <2>2, <2>3, <2>5, <2>6 DEF UsedInv
  <2>8. TablesInv'
    BY <1>2, <2>1, <2>2, <2>3, UsedQuiet, TablesPending DEF Sound
  <2>9. NamesInv'
    BY <1>2, <2>3, UsedQuiet, NamesQuiet DEF Sound, NamesInv
  <2>10. KeptVersion' = KeptVersion
    BY <1>2, <2>3 DEF KeptVersion, Stored
  <2>11. KeptInv'
    BY <1>2, <2>3, <2>10, UsedQuiet, KeptQuiet DEF Sound
  <2> QED BY <2>7, <2>8, <2>9, <2>11 DEF Sound
<1> QED BY <1>3, <1>4 DEF Alloc

\* A cluster is appended to the chain, or it is the first.
LEMMA ChainSound ==
  ASSUME FatAssumption, Safe, Sound, Chain, Safe'
  PROVE  Sound'
<1> DEFINE o == [op EXCEPT !.first = IF @ = 0 THEN op.cluster ELSE @, !.prev = op.cluster, !.count = @ + 1]
           next == IF o.count < op.size THEN "alloc" ELSE "data"
<1>1. op \in OpType /\ OpInv /\ op.pc = "chain" /\ op.todo = << >> /\ Collected(op.count) /\ op.count < op.size
      /\ op.cluster \in Spare /\ fat[1][op.cluster] = EOC /\ OpInv'
  BY DEF Safe, Types, Chain, OpInv, At
<1>2. UNCHANGED <<diskVars, saved>> /\ NameGone /\ ~Stored /\ ~FatPending /\ op.clean
      /\ Used = Owned \cup WorkSet(op.count) \cup {op.cluster}
  BY <1>1 DEF Chain, NameGone, Stored, FatPending, Sound, UsedInv, UsedAt, KeptInv, Unfailed, Stages
<1>3. op' = Begin(o, IF op.prev = 0 THEN << >> ELSE FatWriteEntry(op.prev, op.cluster), next, "fail")
  BY DEF Chain
<1>4. op.cluster \in Cluster /\ Spare \in SUBSET Cluster /\ op.count \in Nat /\ op.size \in Nat
  BY <1>1 DEF Spare, OpType
<1>5. /\ op'.pc = "write" /\ op'.ok = next
      /\ op'.todo = IF op.prev = 0 THEN << >> ELSE FatWriteEntry(op.prev, op.cluster)
      /\ op'.first = (IF op.first = 0 THEN op.cluster ELSE op.first) /\ op'.count = op.count + 1
      /\ op'.cluster = op.cluster /\ op'.size = op.size /\ op'.name = op.name /\ op'.clean = op.clean
      /\ op'.kind = op.kind
  BY <1>1, <1>3 DEF Begin, OpType
<1>6. next = (IF op.count + 1 < op.size THEN "alloc" ELSE "data")
  BY <1>1 DEF OpType
<1> HIDE DEF o, next
<1>7. NamesInv'
  BY <1>2, <1>5, UsedQuiet, NamesQuiet DEF Sound, NamesInv
<1>8. KeptVersion' = KeptVersion
  BY <1>2, <1>5, <1>6 DEF KeptVersion, Stored
<1>9. KeptInv'
  BY <1>2, <1>5, <1>8, UsedQuiet, KeptQuiet DEF Sound
<1>10. CASE op.count = 0
  <2>1. op.first = 0 /\ op.prev = 0
    BY <1>1, <1>10 DEF Collected, OpInv
  <2>2. op'.todo = << >> /\ op'.first = op.cluster /\ op'.count = 1
    BY <1>5, <1>10, <2>1
  <2>3. Span(fat[1], op.cluster, 1) = {op.cluster} /\ Span(fat[1], op.first, 0) = {}
    BY <1>1, PathOne, SpanNone
  <2>4. Used' = Owned' \cup Span(fat'[1], op'.first, 1)
    BY <1>2, <1>10, <2>2, <2>3, UsedQuiet DEF WorkSet
  <2>5. UsedAt(op.ok)'
    <3>1. CASE 1 < op.size
      <4>1. op'.ok = "alloc"
        BY <1>5, <1>6, <1>10, <3>1
      <4> QED BY <2>2, <2>4, <4>1 DEF UsedAt, WorkSet
    <3>2. CASE ~(1 < op.size)
      <4>1. op'.ok = "data" /\ op'.size = 1
        BY <1>1, <1>4, <1>5, <1>6, <1>10, <3>2
      <4> QED BY <2>4, <4>1 DEF UsedAt, WorkSet
    <3> QED BY <3>1, <3>2
  <2>6. UsedInv'
    BY <1>5, <2>2, <2>5 DEF UsedInv
  <2>7. TablesInv'
    BY <1>2, <2>2, UsedQuiet, TablesQuiet DEF Sound, FatPending
  <2> QED BY <1>7, <1>9, <2>6, <2>7 DEF Sound
<1>11. CASE op.count # 0
  <2>1. Work(op.count) /\ op.prev = WorkChain(op.count)[op.count]
    BY <1>1, <1>4, <1>11 DEF Collected
  <2>2. op.prev \in Cluster /\ op.first \in Cluster /\ op.prev # 0 /\ op.first # 0
    BY <1>4, <2>1, PathEnds, NoClusters DEF Work, WorkChain
  <2>3. PICK p, c, todo : p = op.prev /\ c = op.cluster /\ todo = FatTodo(p, c, 0)
    OBVIOUS
  <2>4. op'.todo = todo /\ 0 \in Left /\ p \in Cluster /\ c \in Cluster /\ c \in FatValue
    BY <1>4, <1>5, <2>2, <2>3, FatTodoAll, NoClusters
  <2>5. todo # << >>
    BY <2>3, <2>4, FatTodoNext
  <2>6. op'.first = op.first /\ (op.count + 1) - 1 = op.count
    BY <1>4, <1>5, <2>2
  <2>7. Chaining(p, 0)'
    <3>1. op'.ok \in {"alloc", "data"}
      BY <1>5, <1>6
    <3>2. PICK d \in Cluster : \E j \in Left : Chaining(d, j)'
      BY <1>1, <1>5, <2>4, <2>5, <3>1, PendingIs
    <3>3. PICK j \in Left : Chaining(d, j)'
      BY <3>2
    <3>4. FatTodo(p, c, 0) = FatTodo(d, c, j)
      BY <1>5, <2>3, <2>4, <3>3 DEF Chaining
    <3>5. j = 0 /\ p = d
      BY <2>4, <3>4, FatTodoSame
    <3> QED BY <3>3, <3>5
  <2>8. UsedChaining(0)'
    BY <1>2, <1>5, <2>6, UsedQuiet DEF UsedChaining, WorkSet
  <2>9. UsedInv'
    BY <1>5, <2>4, <2>7, <2>8 DEF UsedInv
  <2>10. TablesInv'
    BY <1>2, <2>3, <2>4, UsedQuiet, TablesPending DEF Sound
  <2> QED BY <1>7, <1>9, <2>9, <2>10 DEF Sound
<1> QED BY <1>10, <1>11

\* The stages in which the data and the entry are written.
LEMMA StageSound ==
  ASSUME FatAssumption, Safe, Sound, UNCHANGED <<diskVars, saved>>,
         op.pc \in {"data", "part", "next", "entry"},
         op'.size = op.size, op'.first = op.first, op'.name = op.name, op'.clean = op.clean,
         \/ op'.pc \in {"part", "entry"}
         \/ op'.pc = "write" /\ op'.ok = "part" /\ op'.todo = << >>
         \/ op'.pc = "write" /\ op'.ok \in {"next", "done"} /\ ~FatPending' /\ (Storing' \/ Entering')
            /\ (op'.ok = "done" => DirPending')
  PROVE  Sound'
<1>1. Used = Owned \cup WorkSet(op.size) /\ NameGone /\ ~Stored /\ ~FatPending /\ op.clean
  BY DEF NameGone, Stored, FatPending, Sound, UsedInv, UsedAt, KeptInv, Unfailed, Stages
<1>2. Used' = Owned' \cup WorkSet(op.size)'
  BY <1>1, UsedQuiet DEF WorkSet
<1>3. UsedInv'
  BY <1>2 DEF UsedInv, UsedAt
<1>4. ~FatPending' /\ ~Stored'
  BY DEF FatPending, Stored
<1>5. TablesInv'
  BY <1>1, <1>4, UsedQuiet, TablesQuiet DEF Sound
<1>6. NamesInv'
  BY <1>1, UsedQuiet, NamesQuiet DEF Sound, NamesInv
<1>7. KeptVersion' = KeptVersion
  BY <1>1, <1>4 DEF KeptVersion
<1>8. KeptInv'
  BY <1>1, <1>7, UsedQuiet, KeptQuiet DEF Sound
<1> QED BY <1>3, <1>5, <1>6, <1>8 DEF Sound

LEMMA DataSound ==
  ASSUME FatAssumption, Safe, Sound, Data \/ Part \/ NextPart, Safe', faults = 0, faults' = 0
  PROVE  Sound'
<1>1. op \in OpType /\ UNCHANGED <<diskVars, saved>> /\ OpInv /\ OpInv'
  BY DEF Safe, Types, Data, Part, NextPart
<1>2. CASE Data
  <2>1. op.pc = "data" /\ op' = Begin([op EXCEPT !.cluster = op.first, !.count = 0], << >>, "part", "fail")
    BY <1>2 DEF Data
  <2>2. /\ op'.size = op.size /\ op'.first = op.first /\ op'.name = op.name /\ op'.clean = op.clean
        /\ op'.pc = "write" /\ op'.ok = "part" /\ op'.todo = << >>
    BY <1>1, <2>1 DEF Begin, OpType
  <2> QED BY <1>1, <2>1, <2>2, StageSound
<1>3. CASE Part
  <2> DEFINE w == [kind |-> "data", cluster |-> op.cluster,
                   value |-> [name |-> op.name, version |-> op.version, part |-> op.count + 1]]
             todo == <<w>>
  <2>1. op.pc = "part" /\ op' = Begin([op EXCEPT !.count = @ + 1], todo, "next", "fail")
    BY <1>3 DEF Part
  <2>2. todo # << >> /\ todo[1].kind = "data"
    OBVIOUS
  <2> HIDE DEF todo
  <2>3. /\ op'.size = op.size /\ op'.first = op.first /\ op'.name = op.name /\ op'.clean = op.clean
        /\ op'.pc = "write" /\ op'.ok = "next" /\ op'.todo = todo
    BY <1>1, <2>1 DEF Begin, OpType
  <2>4. Storing' /\ ~FatPending'
    BY <1>1, <2>2, <2>3, PendingIs DEF FatPending
  <2> QED BY <1>1, <2>1, <2>3, <2>4, StageSound
<1>4. CASE NextPart
  <2>1. op.pc = "next" /\ Work(op.size) /\ op.count \in 1 .. op.size /\ op.cluster = WorkChain(op.size)[op.count]
        /\ op.size \in Nat /\ Spare \in SUBSET Cluster
    BY <1>1, <1>4 DEF NextPart, OpInv, At, OpType, Spare
  <2>2. PICK next : next = fat[1][op.cluster] /\ op' = [op EXCEPT !.cluster = next, !.pc = AfterPart(op, next)]
    <3>1. PICK next \in {fat[1][op.cluster], EOC} :
            FatReadEntry(op.cluster, next) /\ op' = [op EXCEPT !.cluster = next, !.pc = AfterPart(op, next)]
      BY <1>4 DEF NextPart
    <3>2. next = fat[1][op.cluster]
      BY <3>1 DEF FatReadEntry, Fault
    <3> QED BY <3>1, <3>2
  <2>3. /\ op'.size = op.size /\ op'.first = op.first /\ op'.name = op.name /\ op'.clean = op.clean
        /\ op'.pc = AfterPart(op, next)
    BY <1>1, <2>2 DEF OpType
  <2>4. op.count # op.size => next \in Cluster
    <3> SUFFICES ASSUME op.count # op.size PROVE next \in Cluster
      OBVIOUS
    <3>1. op.count + 1 \in 1 .. op.size /\ op.count + 1 # 1 /\ (op.count + 1) - 1 = op.count
      BY <2>1
    <3>2. WorkChain(op.size)[op.count + 1] = Link(fat[1], WorkChain(op.size)[op.count])
      BY <2>1, <3>1, ChainAt DEF WorkChain
    <3>3. WorkChain(op.size)[op.count + 1] \in Cluster /\ WorkChain(op.size)[op.count] \in Cluster
      BY <2>1, <3>1 DEF Work, WorkChain, Path
    <3> QED BY <2>1, <2>2, <3>2, <3>3 DEF Link
  <2>5. op'.pc \in {"part", "entry"}
    BY <2>3, <2>4 DEF AfterPart
  <2> QED BY <1>1, <2>1, <2>3, <2>5, StageSound
<1> QED BY <1>2, <1>3, <1>4

\* The entry is to be written, or there is no place for it.
LEMMA EntrySound ==
  ASSUME FatAssumption, Safe, Sound, EntryStep, Safe', faults = 0, faults' = 0
  PROVE  Sound'
<1> DEFINE s == FindFree
<1>1. op \in OpType /\ UNCHANGED <<diskVars, saved>> /\ OpInv /\ OpInv' /\ op.pc = "entry" /\ Work(op.size)
      /\ op.size \in Nat \ {0} /\ Spare \in SUBSET Cluster
  <2>1. op \in OpType /\ UNCHANGED <<diskVars, saved>> /\ OpInv /\ OpInv' /\ op.pc = "entry" /\ Work(op.size)
    BY DEF Safe, Types, EntryStep, OpInv, At
  <2> QED BY <2>1 DEF Work, Path, Spare
<1>2. CASE op' = ToFail(op)
  <2>1. op.first # 0
    BY <1>1, PathEnds, NoClusters DEF Work
  <2>2. Used = Owned \cup WorkSet(op.size) /\ NameGone /\ ~Stored
    BY <1>1 DEF NameGone, Stored, Sound, UsedInv, UsedAt
  <2>3. PICK n \in Nat : n = op.size /\ n # 0
    BY <1>1
  <2>4. (n > 0 => Work(n)) /\ (n = 0 <=> op.first = 0) /\ Used = Owned \cup WorkSet(n)
    BY <1>1, <2>1, <2>2, <2>3
  <2> QED BY <1>1, <1>2, <2>2, <2>4, FailSound
<1>3. CASE \E w : w.kind = "dir" /\ op' = Begin([op EXCEPT !.slot = s], <<w>>, "done", "fail")
  <2>1. PICK w : w.kind = "dir" /\ op' = Begin([op EXCEPT !.slot = s], <<w>>, "done", "fail")
    BY <1>3
  <2> DEFINE todo == <<w>>
  <2>2. todo # << >> /\ todo[1].kind = "dir" /\ op' = Begin([op EXCEPT !.slot = s], todo, "done", "fail")
    BY <2>1
  <2> HIDE DEF todo, s
  <2>3. /\ op'.size = op.size /\ op'.first = op.first /\ op'.name = op.name /\ op'.clean = op.clean
        /\ op'.pc = "write" /\ op'.ok = "done" /\ op'.todo = todo
    BY <1>1, <2>2 DEF Begin, OpType
  <2>4. Entering' /\ ~FatPending' /\ DirPending'
    BY <1>1, <2>2, <2>3, PendingIs DEF FatPending, DirPending
  <2> QED BY <1>1, <2>3, <2>4, StageSound
<1>4. op' = ToFail(op) \/ \E w : w.kind = "dir" /\ op' = Begin([op EXCEPT !.slot = s], <<w>>, "done", "fail")
  <2> DEFINE w == [kind |-> "dir", slot |-> s,
                   value |-> [state |-> "file", name |-> op.name, first |-> op.first,
                              size |-> op.size, version |-> op.version]]
  <2>1. w.kind = "dir"
    OBVIOUS
  <2>2. op' = ToFail(op) \/ op' = Begin([op EXCEPT !.slot = s], <<w>>, "done", "fail")
    BY DEF EntryStep
  <2> HIDE DEF w
  <2> QED BY <2>1, <2>2
<1> QED BY <1>2, <1>3, <1>4

-----------------------------------------------------------------------------
(***************************************************************************)
(* Nothing is lost without a failure: the steps that write a sector        *)
(***************************************************************************)
\* Copy by copy the table gets a new value for an entry; the directory stays what it is.
LEMMA TableSound ==
  ASSUME FatAssumption, Types, TablesInv, NamesInv, KeptInv, op.pc = "write", saved' = saved,
         NEW c \in Cluster, NEW v \in FatValue, NEW j \in Left, op.todo = FatTodo(c, v, j),
         TableSet(c, v, j), OpKept, Files' = Files
  PROVE  TablesInv' /\ NamesInv' /\ KeptInv'
<1>1. op.todo # << >> /\ op.todo[1].kind = "fat"
  <2>1. op.todo # << >> /\ Head(op.todo) = [kind |-> "fat", copy |-> j + 1, cluster |-> c, value |-> v]
    BY FatTodoNext
  <2> QED BY <2>1
<1>2. FatPending /\ ~DirPending
  BY <1>1 DEF FatPending, DirPending
<1>3. /\ \A k \in 1 .. Copies : \A d \in Cluster \ {c} : fat[k][d] = fat[1][d]
      /\ \A k \in 1 .. j : fat[k][c] = v
  <2>1. PICK d \in Cluster : \E w \in FatValue, i \in Left :
         /\ op.todo = FatTodo(d, w, i)
         /\ \A k \in 1 .. Copies : \A e \in Cluster \ {d} : fat[k][e] = fat[1][e]
         /\ \A k \in 1 .. i : fat[k][d] = w
    BY <1>2 DEF TablesInv
  <2>2. PICK w \in FatValue, i \in Left :
         /\ op.todo = FatTodo(d, w, i)
         /\ \A k \in 1 .. Copies : \A e \in Cluster \ {d} : fat[k][e] = fat[1][e]
         /\ \A k \in 1 .. i : fat[k][d] = w
    BY <2>1
  <2>3. FatTodo(c, v, j) = FatTodo(d, w, i)
    BY <2>2
  <2>4. c = d /\ v = w /\ j = i
    BY <2>3, FatTodoSame
  <2> QED BY <2>2, <2>4
<1>4. fat \in [1 .. Copies -> [Cluster -> FatValue]] /\ fat' = [fat EXCEPT ![j + 1][c] = v]
      /\ j \in Nat /\ j + 1 \in 1 .. Copies /\ 1 \in 1 .. Copies /\ Copies \in Nat
  BY DEF Types, TableSet, Left, FatAssumption
<1>5. \A k \in 1 .. Copies : \A d \in Cluster \ {c} : fat'[k][d] = fat[k][d]
  BY <1>4
<1>6. \A k \in 1 .. Copies : \A d \in Cluster \ {c} : fat'[k][d] = fat'[1][d]
  BY <1>3, <1>4, <1>5
<1>7. \A k \in 1 .. (j + 1) : fat'[k][c] = v
  <2> SUFFICES ASSUME NEW k \in 1 .. (j + 1) PROVE fat'[k][c] = v
    OBVIOUS
  <2>1. CASE k = j + 1
    BY <1>4, <2>1
  <2>2. CASE k # j + 1
    <3>1. k \in 1 .. j /\ k \in 1 .. Copies
      BY <1>4, <2>2
    <3>2. fat'[k] = fat[k]
      BY <1>4, <2>2, <3>1
    <3> QED BY <1>3, <3>1, <3>2
  <2> QED BY <2>1, <2>2
<1>8. op'.todo = FatTodo(c, v, j + 1) /\ (j + 1 \in Left \/ op'.todo = << >>)
  BY DEF TableSet
<1>9. ~DirPending' /\ TablesInv'
  <2>1. CASE j + 1 \in Left
    <3>3. PICK i \in Left : i = j + 1
      BY <2>1
    <3>1. op'.todo # << >> /\ op'.todo[1].kind = "fat"
      <4>1. op'.todo = FatTodo(c, v, i)
        BY <1>8, <3>3
      <4>2. op'.todo # << >> /\ Head(op'.todo) = [kind |-> "fat", copy |-> i + 1, cluster |-> c, value |-> v]
        BY <4>1, FatTodoNext
      <4> QED BY <4>2
    <3>2. FatPending' /\ ~DirPending'
      BY <3>1 DEF FatPending, DirPending, OpKept
    <3> QED BY <1>6, <1>7, <1>8, <3>2, <3>3 DEF TablesInv
  <2>2. CASE j + 1 \notin Left
    <3>1. ~FatPending' /\ ~DirPending'
      BY <1>8, <2>2 DEF FatPending, DirPending
    <3>2. j + 1 = Copies
      BY <1>4, <2>2 DEF Left
    <3>3. ASSUME NEW k \in 1 .. Copies PROVE fat'[k] = fat'[1]
      <4>1. \A d \in Cluster : fat'[k][d] = fat'[1][d]
        BY <1>4, <1>6, <1>7, <3>2
      <4>2. fat'[k] \in [Cluster -> FatValue] /\ fat'[1] \in [Cluster -> FatValue]
        BY <1>4
      <4> QED BY <4>1, <4>2
    <3> QED BY <3>1, <3>3 DEF TablesInv
  <2> QED BY <2>1, <2>2
<1>10. (NameGone' <=> NameGone) /\ (Stored' <=> Stored) /\ (Unfailed' <=> Unfailed)
  BY <1>2, <1>9 DEF NameGone, Stored, Unfailed, OpKept
<1>11. dir' = dir /\ op'.name = op.name /\ op'.version = op.version /\ op'.clean = op.clean
  BY DEF TableSet, OpKept
<1>12. NamesInv'
  BY <1>10, <1>11, NamesQuiet DEF NamesInv
<1>13. KeptVersion' = KeptVersion
  BY <1>10, <1>11 DEF KeptVersion
<1>14. KeptInv'
  BY <1>10, <1>11, <1>13, KeptQuiet DEF KeptInv
<1> QED BY <1>9, <1>12, <1>14

\* The clusters in use after an entry of the first copy was set.
LEMMA UsedSet ==
  ASSUME FatAssumption, Types, NEW c \in Cluster, NEW v \in FatValue, NEW j \in Left, TableSet(c, v, j)
  PROVE  /\ j = 0 /\ v = FAT_FREE => Used' = Used \ {c}
         /\ j = 0 /\ v # FAT_FREE => Used' = Used \cup {c}
         /\ j # 0 => Used' = Used /\ fat'[1] = fat[1]
BY DEF TableSet, Used

\* fat_free_chain: the entry is set to free.
LEMMA FreeingSound ==
  ASSUME FatAssumption, Safe, Sound, NEW c \in Cluster, NEW j \in Left, Freeing(c, j), UsedFreeing(c, j),
         SectorWritten, saved' = saved
  PROVE  Sound'
<1>1. /\ OpKept /\ c \in Spare /\ Files' = Files /\ Owned' = Owned /\ TableSet(c, FAT_FREE, j)
      /\ (j + 1 \in Left => Freeing(c, j + 1)') /\ (j + 1 \notin Left => op'.todo = << >>)
  BY FreeingStep
<1>2. op.pc = "write" /\ op.todo = FatTodo(c, FAT_FREE, j) /\ op.ok = "free" /\ FAT_FREE \in FatValue /\ Types
      /\ c \notin Owned /\ j \in Nat
  BY <1>1, NoClusters DEF SectorWritten, Freeing, Safe, Spare, Left
<1>3. TablesInv' /\ NamesInv' /\ KeptInv'
  BY <1>1, <1>2, TableSound DEF Sound
<1>4. PICK m \in 0 .. MaxCluster :
        /\ FreeChain(op.cluster, m) /\ c \notin ChainSet(op.cluster, m)
        /\ Used = Owned \cup ChainSet(op.cluster, m) \cup (IF j = 0 THEN {c} ELSE {})
  BY DEF UsedFreeing
<1>5. PICK f, g, a, A : f = fat[1] /\ g = fat'[1] /\ a = op.cluster /\ A = Spare
  OBVIOUS
<1>6. \A d \in Cluster : d # c => g[d] = f[d]
  BY <1>1, <1>5 DEF TableSet
<1>7. Span(g, a, m) = Span(f, a, m) /\ (m > 0 => Path(g, A, a, m))
  <2>1. CASE m = 0
    <3>1. Span(g, a, 0) = {} /\ Span(f, a, 0) = {}
      BY SpanNone
    <3>2. Span(g, a, m) = Span(f, a, m)
      BY <2>1, <3>1, Zenon
    <3>3. ~ (m > 0)
      BY <2>1
    <3> QED BY <3>2, <3>3
  <2>2. CASE m > 0
    <3>1. Path(f, A, a, m) /\ A \subseteq Cluster
      BY <1>4, <1>5, <2>2 DEF FreeChain, Spare
    <3>2. Span(f, a, m) \subseteq A
      BY <3>1, PathEnds
    <3>3. \A x \in Span(f, a, m) : g[x] = f[x]
      BY <1>4, <1>5, <1>6, <3>1, <3>2 DEF ChainSet
    <3>4. Path(g, A, a, m)
      BY <3>1, <3>3, PathFrame
    <3>5. Span(g, a, m) = Span(f, a, m)
      BY <3>1, <3>3, <3>4, PathFrame
    <3> QED BY <3>4, <3>5
  <2>3. m \in Nat
    BY DEF FatAssumption
  <2> QED BY <2>1, <2>2, <2>3
<1>8. Spare' = Spare /\ op'.cluster = op.cluster /\ op'.freed = op.freed /\ op'.ok = op.ok /\ op'.pc = op.pc
  BY <1>1 DEF Spare, OpKept
<1>9. FreeChain(op.cluster, m)' /\ ChainSet(op.cluster, m)' = ChainSet(op.cluster, m)
  <2>1. ChainSet(op.cluster, m)' = ChainSet(op.cluster, m)
    BY <1>5, <1>7, <1>8 DEF ChainSet
  <2>2. m > 0 => Path(fat'[1], Spare', op'.cluster, m)
    BY <1>5, <1>7, <1>8
  <2>3. m \in 0 .. (MaxCluster - op'.freed) /\ (m = 0 => op'.cluster \notin Cluster)
    BY <1>4, <1>8 DEF FreeChain
  <2> QED BY <2>1, <2>2, <2>3 DEF FreeChain
<1>10. Used' = Owned' \cup ChainSet(op.cluster, m)'
  <2>1. Used' = Owned \cup ChainSet(op.cluster, m)
    <3>1. CASE j = 0
      <4>1. Used' = Used \ {c}
        BY <1>1, <1>2, <3>1, UsedSet
      <4> QED BY <1>2, <1>4, <3>1, <4>1
    <3>2. CASE j # 0
      <4>1. Used' = Used
        BY <1>1, <1>2, <3>2, UsedSet
      <4> QED BY <1>4, <3>2, <4>1
    <3> QED BY <3>1, <3>2
  <2> QED BY <1>1, <1>9, <2>1
<1>11. UsedInv'
  <2>1. CASE j + 1 \in Left
    <3>1. PICK i \in Left : i = j + 1 /\ i # 0
      BY <1>2, <2>1
    <3>2. Freeing(c, i)'
      BY <1>1, <2>1, <3>1
    <3>3. c \notin ChainSet(op.cluster, m)'
      BY <1>4, <1>9
    <3>4. UsedFreeing(c, i)'
      BY <1>9, <1>10, <3>1, <3>3 DEF UsedFreeing
    <3> QED BY <1>2, <1>8, <3>2, <3>4 DEF UsedInv
  <2>2. CASE j + 1 \notin Left
    <3>1. UsedAt(op.ok)'
      BY <1>2, <1>8, <1>9, <1>10 DEF UsedAt
    <3> QED BY <1>1, <1>2, <1>8, <2>2, <3>1 DEF UsedInv
  <2> QED BY <2>1, <2>2
<1> QED BY <1>3, <1>11 DEF Sound

\* fat_alloc_cluster: the free cluster is marked as the end of a chain.
LEMMA AllocatingSound ==
  ASSUME FatAssumption, Safe, Sound, NEW j \in Left, Allocating(j), UsedAllocating(j), SectorWritten, saved' = saved
  PROVE  Sound'
<1>1. /\ OpKept /\ Files' = Files /\ Owned' = Owned /\ TableSet(op.cluster, EOC, j)
      /\ Span(fat'[1], op.first, op.count) = Span(fat[1], op.first, op.count)
      /\ (j + 1 \in Left => Allocating(j + 1)') /\ (j + 1 \notin Left => op'.todo = << >>)
  BY AllocatingStep
<1>2. PICK c : c = op.cluster
  OBVIOUS
<1>3. op.pc = "write" /\ op.todo = FatTodo(c, EOC, j) /\ op.ok = "chain" /\ EOC \in FatValue /\ Types
      /\ c \in Cluster /\ j \in Nat /\ EOC # FAT_FREE
  BY <1>2, NoClusters DEF SectorWritten, Allocating, Safe, Spare, Left
<1>4. TableSet(c, EOC, j)
  BY <1>1, <1>2
<1>5. TablesInv' /\ NamesInv' /\ KeptInv'
  BY <1>1, <1>3, <1>4, TableSound DEF Sound
<1>6. op'.cluster = c /\ op'.ok = op.ok /\ op'.pc = op.pc /\ WorkSet(op.count)' = WorkSet(op.count)
  BY <1>1, <1>2 DEF OpKept, WorkSet
<1>7. Used' = Owned' \cup WorkSet(op.count)' \cup {op'.cluster}
  <2>1. Used' = Owned \cup WorkSet(op.count) \cup {c}
    <3>1. CASE j = 0
      <4>1. Used' = Used \cup {c}
        BY <1>3, <1>4, <3>1, UsedSet
      <4> QED BY <3>1, <4>1 DEF UsedAllocating
    <3>2. CASE j # 0
      <4>1. Used' = Used
        BY <1>3, <1>4, <3>2, UsedSet
      <4> QED BY <1>2, <3>2, <4>1 DEF UsedAllocating
    <3> QED BY <3>1, <3>2
  <2> QED BY <1>1, <1>6, <2>1
<1>8. UsedInv'
  <2>1. CASE j + 1 \in Left
    <3>1. PICK i \in Left : i = j + 1 /\ i # 0
      BY <1>3, <2>1
    <3>2. Allocating(i)'
      BY <1>1, <2>1, <3>1
    <3>3. UsedAllocating(i)'
      BY <1>7, <3>1 DEF UsedAllocating
    <3> QED BY <1>3, <1>6, <3>2, <3>3 DEF UsedInv
  <2>2. CASE j + 1 \notin Left
    <3>1. UsedAt(op.ok)'
      BY <1>3, <1>6, <1>7 DEF UsedAt
    <3> QED BY <1>1, <1>3, <1>6, <2>2, <3>1 DEF UsedInv
  <2> QED BY <2>1, <2>2
<1> QED BY <1>5, <1>8 DEF Sound

\* The cluster is appended to the one before.
LEMMA ChainingSound ==
  ASSUME FatAssumption, Safe, Sound, NEW c \in Cluster, NEW j \in Left, Chaining(c, j), UsedChaining(j),
         SectorWritten, saved' = saved
  PROVE  Sound'
<1>1. /\ OpKept /\ Files' = Files /\ Owned' = Owned /\ TableSet(c, op.cluster, j)
      /\ (j = 0 => WorkSet(op.count)' = WorkSet(op.count - 1) \cup {op.cluster})
      /\ (j # 0 => WorkSet(op.count)' = WorkSet(op.count))
      /\ (j + 1 \in Left => Chaining(c, j + 1)') /\ (j + 1 \notin Left => op'.todo = << >>)
  BY ChainingStep
<1>2. PICK v : v = op.cluster
  OBVIOUS
<1>3. op.pc = "write" /\ op.todo = FatTodo(c, v, j) /\ Types /\ j \in Nat /\ op \in OpType
      /\ op.ok = (IF op.count < op.size THEN "alloc" ELSE "data") /\ op.count \in 2 .. op.size /\ op.size \in Nat
  <2>1. Types /\ op \in OpType
    BY DEF Safe, Types
  <2>2. op.size \in Nat /\ j \in Nat
    BY <2>1 DEF OpType, Left
  <2> QED BY <1>2, <2>1, <2>2 DEF SectorWritten, Chaining
<1>4. v \in FatValue /\ v # FAT_FREE /\ Spare \in SUBSET Cluster
  <2>1. v \in Spare
    <3>1. CASE j = 0
      BY <1>2, <3>1 DEF Chaining
    <3>2. CASE j # 0
      <4>1. Work(op.count) /\ op.cluster = WorkChain(op.count)[op.count]
        BY <3>2 DEF Chaining
      <4> QED BY <1>2, <4>1, PathEnds DEF Work, WorkChain
    <3> QED BY <3>1, <3>2
  <2> QED BY <2>1, NoClusters DEF Spare
<1>5. TableSet(c, v, j)
  BY <1>1, <1>2
<1>6. TablesInv' /\ NamesInv' /\ KeptInv'
  BY <1>1, <1>3, <1>4, <1>5, TableSound DEF Sound
<1>7. op'.cluster = op.cluster /\ op'.ok = op.ok /\ op'.pc = op.pc /\ op'.count = op.count /\ op'.size = op.size
  BY <1>1 DEF OpKept
<1>8. Used' = Owned' \cup WorkSet(op.count)'
  <2>1. CASE j = 0
    <3>1. Used' = Used \cup {c}
      BY <1>3, <1>4, <1>5, <2>1, UsedSet
    <3>2. c \in Used
      <4>1. Work(op.count - 1) /\ c = WorkChain(op.count - 1)[op.count - 1]
        BY <2>1 DEF Chaining
      <4>2. fat[1][c] = EOC
        BY <4>1, PathEnds DEF Work, WorkChain
      <4> QED BY <4>2, NoClusters DEF Used
    <3>3. Used = Owned \cup (WorkSet(op.count - 1) \cup {op.cluster})
      BY <2>1 DEF UsedChaining
    <3> QED BY <1>1, <2>1, <3>1, <3>2, <3>3
  <2>2. CASE j # 0
    <3>1. Used' = Used
      BY <1>3, <1>4, <1>5, <2>2, UsedSet
    <3>2. Used = Owned \cup WorkSet(op.count)
      BY <2>2 DEF UsedChaining
    <3> QED BY <1>1, <2>2, <3>1, <3>2
  <2> QED BY <2>1, <2>2
<1>9. UsedInv'
  <2>1. CASE j + 1 \in Left
    <3>1. PICK i \in Left : i = j + 1 /\ i # 0
      BY <1>3, <2>1
    <3>2. Chaining(c, i)'
      BY <1>1, <2>1, <3>1
    <3>3. UsedChaining(i)'
      BY <1>8, <3>1 DEF UsedChaining
    <3> QED BY <1>3, <1>7, <3>2, <3>3 DEF UsedInv
  <2>2. CASE j + 1 \notin Left
    <3>1. UsedAt(op.ok)'
      <4>1. CASE op.count < op.size
        <5>1. op'.ok = "alloc"
          BY <1>3, <1>7, <4>1
        <5> QED BY <1>8, <5>1 DEF UsedAt
      <4>2. CASE ~ (op.count < op.size)
        <5>1. op'.ok = "data" /\ op'.count = op'.size
          BY <1>3, <1>7, <4>2
        <5> QED BY <1>8, <5>1 DEF UsedAt, WorkSet
      <4> QED BY <4>1, <4>2
    <3> QED BY <1>1, <1>3, <1>7, <2>2, <3>1 DEF UsedInv
  <2> QED BY <2>1, <2>2
<1> QED BY <1>6, <1>9 DEF Sound

\* A part of the file is stored.
LEMMA StoringSound ==
  ASSUME FatAssumption, Safe, Sound, Storing, Used = Owned \cup WorkSet(op.size), SectorWritten, saved' = saved
  PROVE  Sound'
<1>1. OpKept /\ Files' = Files /\ Owned' = Owned /\ fat' = fat /\ dir' = dir /\ op'.todo = << >>
  BY StoringStep
<1>2. op.pc = "write" /\ op.ok = "next" /\ op.todo[1].kind = "data" /\ op.todo # << >>
  <2>1. op.pc = "write" /\ op.ok = "next"
        /\ op.todo = <<[kind |-> "data", cluster |-> op.cluster, value |-> TagOf(op.count)]>>
    BY DEF SectorWritten, Storing
  <2> QED BY <2>1
<1>3. /\ op'.pc = "write" /\ op'.ok = "next" /\ op'.first = op.first /\ op'.size = op.size /\ op'.name = op.name
      /\ op'.clean = op.clean
  BY <1>1, <1>2 DEF OpKept
<1>4. Used' = Owned' \cup WorkSet(op.size)'
  BY <1>1, <1>3 DEF Used, WorkSet
<1>5. UsedAt(op.ok)'
  BY <1>3, <1>4 DEF UsedAt
<1>6. UsedInv'
  BY <1>1, <1>3, <1>5 DEF UsedInv
<1>7. TablesInv'
  BY <1>1, <1>2, TablesQuiet DEF Sound, FatPending
<1>8. NamesInv'
  BY <1>1, <1>2, <1>3, NamesQuiet DEF Sound, NamesInv, NameGone
<1>9. KeptVersion' = KeptVersion
  BY <1>2, <1>3 DEF KeptVersion, Stored
<1>10. KeptInv'
  BY <1>1, <1>2, <1>3, <1>9, KeptQuiet DEF Sound, KeptInv, Unfailed, Stages
<1> QED BY <1>6, <1>7, <1>8, <1>10 DEF Sound

\* A path in a set is a path in a larger one.
LEMMA PathLarger ==
  ASSUME NEW f, NEW A, NEW B, NEW c, NEW n, Path(f, A, c, n), A \subseteq B
  PROVE  Path(f, B, c, n)
BY DEF Path

\* The entry is marked as deleted: its clusters are to be freed.
LEMMA UnlinkingSound ==
  ASSUME FatAssumption, Safe, Sound, Unlinking, op.freed = 0, Used = Owned, SectorWritten, saved' = saved
  PROVE  Sound'
<1>1. /\ OpKept /\ op'.todo = << >> /\ fat' = fat
      /\ \E s \in Files : /\ op.cluster = dir[s].first /\ dir[s].name = op.name
                          /\ Files' = Files \ {s} /\ Owned = Owned' \cup Clusters(s)
                          /\ Clusters(s) \cap Owned' = {}
                          /\ \A t \in Files' : dir'[t] = dir[t]
  BY UnlinkingStep
<1>2. PICK s \in Files : /\ op.cluster = dir[s].first /\ dir[s].name = op.name
                         /\ Files' = Files \ {s} /\ Owned = Owned' \cup Clusters(s)
                         /\ Clusters(s) \cap Owned' = {}
                         /\ \A t \in Files' : dir'[t] = dir[t]
  BY <1>1
<1>3. op.pc = "write" /\ op.ok = "free" /\ op.first = 0 /\ op.todo # << >> /\ op.todo[1].kind = "dir"
  <2>1. op.pc = "write" /\ op.ok = "free" /\ op.first = 0 /\ op.todo # << >>
    BY DEF SectorWritten, Unlinking
  <2>2. PICK t : op.todo = <<[kind |-> "dir", slot |-> t, value |-> [dir[t] EXCEPT !.state = "deleted"]]>>
    BY DEF Unlinking
  <2> QED BY <2>1, <2>2
<1>4. /\ op'.pc = "write" /\ op'.ok = "free" /\ op'.first = 0 /\ op'.name = op.name /\ op'.cluster = op.cluster
      /\ op'.clean = op.clean /\ op'.freed = 0
  BY <1>1, <1>3 DEF OpKept
<1>5. PICK f, a, m, A : f = fat[1] /\ a = dir[s].first /\ m = dir[s].size /\ A = Clusters(s)
  OBVIOUS
<1>6. Path(f, A, a, m) /\ A = Span(f, a, m) /\ A \in SUBSET Cluster
  BY <1>5, FilePath DEF Safe
<1>7. m \in 0 .. MaxCluster /\ m # 0 /\ m > 0 /\ MaxCluster \in Nat
  <2>1. m \in Nat \ {0}
    BY <1>6 DEF Path
  <2>2. m <= MaxCluster /\ MaxCluster \in Nat
    BY <1>6, PathLength DEF FatAssumption
  <2> QED BY <2>1, <2>2
<1>8. A \subseteq Spare'
  BY <1>2, <1>5, <1>6 DEF Spare
<1>9. Path(f, Spare', a, m)
  BY <1>6, <1>8, PathLarger
<1>10. FreeChain(op.cluster, m)'
  BY <1>1, <1>2, <1>4, <1>5, <1>7, <1>9 DEF FreeChain
<1>11. Used' = Owned' \cup ChainSet(op.cluster, m)'
  <2>1. Used' = Owned' \cup A
    BY <1>1, <1>2, <1>5 DEF Used
  <2>2. ChainSet(op.cluster, m)' = A
    BY <1>1, <1>2, <1>4, <1>5, <1>6 DEF ChainSet
  <2> QED BY <2>1, <2>2
<1>12. UsedAt(op.ok)'
  BY <1>4, <1>7, <1>10, <1>11 DEF UsedAt
<1>13. UsedInv'
  BY <1>1, <1>4, <1>12 DEF UsedInv
<1>14. TablesInv'
  BY <1>1, <1>3, TablesQuiet DEF Sound, FatPending
<1>15. NamesInv'
  BY <1>2, <1>4 DEF Sound, NamesInv
<1>16. KeptVersion' = KeptVersion
  BY <1>3, <1>4 DEF KeptVersion, Stored
<1>17. KeptInv'
  BY <1>2, <1>3, <1>4, <1>16 DEF Sound, KeptInv, Unfailed, Stages
<1> QED BY <1>13, <1>14, <1>15, <1>17 DEF Sound

\* The entry of the new file is written: its clusters are all there.
LEMMA EnteringSound ==
  ASSUME FatAssumption, Safe, Sound, Entering, Used = Owned \cup WorkSet(op.size), SectorWritten, saved' = saved
  PROVE  Sound'
<1>1. /\ OpKept /\ op'.todo = << >> /\ fat' = fat
      /\ Files' = Files \cup {op.slot} /\ op.slot \notin Files /\ dir'[op.slot] = NewEntry
      /\ Owned' = Owned \cup WorkSet(op.size)
      /\ \A t \in Files : dir'[t] = dir[t]
  BY EnteringStep
<1>2. op.pc = "write" /\ op.ok = "done" /\ op.todo # << >> /\ op.todo[1].kind = "dir"
  <2>1. op.pc = "write" /\ op.ok = "done" /\ op.todo # << >>
        /\ op.todo = <<[kind |-> "dir", slot |-> op.slot, value |-> NewEntry]>>
    BY DEF SectorWritten, Entering
  <2> QED BY <2>1
<1>3. /\ op'.pc = "write" /\ op'.ok = "done" /\ op'.name = op.name /\ op'.clean = op.clean /\ op'.kind = op.kind
      /\ op'.version = op.version /\ op'.slot = op.slot
  BY <1>1, <1>2 DEF OpKept
<1>4. Used' = Owned'
  BY <1>1 DEF Used
<1>5. UsedAt(op.ok)'
  BY <1>3, <1>4 DEF UsedAt
<1>6. UsedInv'
  BY <1>1, <1>3, <1>5 DEF UsedInv
<1>7. TablesInv'
  BY <1>1, <1>2, TablesQuiet DEF Sound, FatPending
<1>8. \A t \in Files : dir[t].name # op.name
  BY <1>2 DEF Sound, NamesInv, NameGone, DirPending
<1>9. PICK s : s = op.slot
  OBVIOUS
<1>10. dir'[s].name = op.name /\ dir'[s].version = op.version /\ Files' = Files \cup {s}
       /\ (\A t \in Files : dir'[t] = dir[t])
  BY <1>1, <1>9 DEF NewEntry
<1>11. ~NameGone' /\ (Stored' <=> op.kind = "config") /\ ~Stored
  BY <1>1, <1>2, <1>3 DEF NameGone, Stored, DirPending
<1>12. NamesInv'
  <2>1. ASSUME NEW t \in Files', NEW u \in Files', dir'[t].name = dir'[u].name PROVE t = u
    BY <1>8, <1>10, <2>1 DEF Sound, NamesInv
  <2> QED BY <1>11, <2>1 DEF NamesInv
<1>13. op.kind \in {"config", "report"} /\ (op.kind = "config" => op.name = Config)
       /\ (op.kind = "report" => op.name # Config)
  BY <1>2 DEF Safe, OpInv, Stages
<1>14. \A t \in Files' : dir'[t].name = Config => dir'[t].version = KeptVersion'
  <2>1. CASE op.kind = "config"
    <3>1. KeptVersion' = op.version
      BY <1>3, <1>11, <2>1 DEF KeptVersion
    <3> QED BY <1>8, <1>10, <1>13, <2>1, <3>1
  <2>2. CASE op.kind = "report"
    <3>1. KeptVersion' = saved /\ KeptVersion = saved
      BY <1>11, <2>2 DEF KeptVersion
    <3> QED BY <1>10, <1>13, <2>2, <3>1 DEF Sound, KeptInv
  <2> QED BY <1>13, <2>1, <2>2
<1>15. KeptInv'
  <2>1. op.clean
    BY <1>2 DEF Sound, KeptInv, Unfailed, Stages
  <2> QED BY <1>3, <1>14, <2>1 DEF KeptInv
<1> QED BY <1>6, <1>7, <1>12, <1>15 DEF Sound

\* A sector is written, whichever.
LEMMA SectorSound ==
  ASSUME FatAssumption, Safe, Sound, SectorWritten, saved' = saved
  PROVE  Sound'
<1>1. \/ Unlinking /\ op.freed = 0 /\ Used = Owned
      \/ \E c \in Cluster : \E j \in Left : \/ Freeing(c, j) /\ UsedFreeing(c, j)
                                            \/ Chaining(c, j) /\ UsedChaining(j)
      \/ \E j \in Left : Allocating(j) /\ UsedAllocating(j)
      \/ (Storing \/ Entering) /\ Used = Owned \cup WorkSet(op.size)
  BY DEF Sound, UsedInv, SectorWritten
<1> QED BY <1>1, UnlinkingSound, FreeingSound, ChainingSound, AllocatingSound, StoringSound, EnteringSound

-----------------------------------------------------------------------------
(* Every step *)

\* Without a failure nothing is lost.
LEMMA NoLossStep ==
  ASSUME FatAssumption, Safe, NoLoss, Safe', [Next]_vars
  PROVE  NoLoss'
<1> SUFFICES ASSUME faults' = 0, pulls' = 0 PROVE Sound'
  BY DEF NoLoss
<1>1. faults \in Nat /\ pulls \in Nat
  BY DEF Safe, Types, FatAssumption
<1>2. ASSUME NEW n \in Nat, Fault(n) PROVE faults = 0
  BY <1>1, <1>2 DEF Fault
<1>3. CASE UNCHANGED vars
  <2>1. Sound
    BY <1>3 DEF NoLoss, vars
  <2> QED BY <1>3, <2>1, SameSound DEF vars, diskVars
<1>4. CASE Next
  <2>1. faults = 0 /\ pulls = 0
    <3>1. CASE (MountStep \/ MountAgain) /\ UNCHANGED <<diskVars, settings, op, pulls, saved>>
      <4>1. faults' = faults \/ Fault(1)
        BY <3>1 DEF MountStep, MountAgain, ReadSector0, ReadGptHeader, ReadGptEntry, ReadGptVbr, ReadMbr,
           ReadPartition, MountReturns, Fails
      <4> QED BY <1>2, <3>1, <4>1
    <3>2. CASE SaveReport
      <4>1. PICK lost \in SUBSET {SectorOf(s) : s \in UsedSlots} : Fault(Cardinality(lost))
        BY <3>2 DEF SaveReport
      <4> QED BY <1>2, <3>2, <4>1, LostFinite DEF SaveReport
    <3>3. CASE Alloc
      <4>1. PICK T \in SUBSET Cluster : Fault(Cardinality(T))
        <5> DEFINE free == {c \in Cluster : fat[1][c] = FAT_FREE}
        <5>1. free \in SUBSET Cluster /\ \A c \in free : {d \in free : d < c} \in SUBSET Cluster
          OBVIOUS
        <5>2. Fault(Cardinality(free)) \/ \E c \in free : Fault(Cardinality({d \in free : d < c}))
          BY <3>3 DEF Alloc
        <5> HIDE DEF free
        <5> QED BY <5>1, <5>2
      <4> QED BY <1>2, <3>3, <4>1, FreeFinite DEF Alloc
    <3>4. CASE EntryStep
      <4>1. faults' = faults \/ Fault(0) \/ Fault(1)
        BY <3>4 DEF EntryStep
      <4> QED BY <1>2, <3>4, <4>1 DEF EntryStep
    <3>5. CASE Pull
      BY <1>1, <3>5 DEF Pull
    <3>6. CASE Write
      BY <1>2, <3>6 DEF Write
    <3>7. CASE Find
      BY <1>2, <3>7 DEF Find
    <3>8. CASE Free \/ NextPart
      BY <1>2, <3>8 DEF Free, NextPart, FatReadEntry
    <3>9. CASE Restart
      BY <1>2, <3>9 DEF Restart
    <3>10. CASE SaveConfig \/ DeleteConfig \/ ChangeSettings \/ Chain \/ Fail \/ Data \/ Part \/ Done \/ Failed
      BY <3>10 DEF SaveConfig, DeleteConfig, ChangeSettings, Chain, Fail, Data, Part, Done, Failed
    <3> QED BY <1>4, <3>1, <3>2, <3>3, <3>4, <3>5, <3>6, <3>7, <3>8, <3>9, <3>10 DEF Next, Operation
  <2>2. Sound
    BY <2>1 DEF NoLoss
  <2>3. CASE (MountStep \/ MountAgain) /\ UNCHANGED <<diskVars, settings, op, pulls, saved>>
    BY <2>2, <2>3, SameSound DEF diskVars
  <2>4. CASE SaveConfig \/ DeleteConfig \/ SaveReport
    BY <2>1, <2>2, <2>4, StartSound
  <2>5. CASE ChangeSettings
    BY <2>2, <2>5, SameSound DEF ChangeSettings, diskVars
  <2>6. CASE Restart \/ Done \/ Failed
    BY <2>2, <2>6, EndSound
  <2>7. CASE Pull
    BY <1>1, <2>7 DEF Pull
  <2>8. CASE Write
    <3>1. op.pc = "write" /\ saved' = saved
      BY <2>8 DEF Write
    <3>2. CASE op.todo = << >>
      <4>1. op' = [op EXCEPT !.pc = op.ok] /\ UNCHANGED diskVars
        BY <2>8, <3>2 DEF Write
      <4> QED BY <2>2, <3>1, <3>2, <4>1, WrittenSound
    <3>3. CASE op.todo # << >>
      <4>1. ~Fault(1)
        BY <2>1 DEF Fault
      <4>2. SectorWritten
        BY <2>8, <3>3, <4>1 DEF Write, SectorWritten
      <4> QED BY <2>2, <3>1, <4>2, SectorSound
    <3> QED BY <3>2, <3>3
  <2>9. CASE Find
    BY <2>1, <2>2, <2>9, FindSound
  <2>10. CASE Free
    BY <2>1, <2>2, <2>10, FreeSound
  <2>11. CASE Alloc
    BY <2>2, <2>11, AllocSound
  <2>12. CASE Chain
    BY <2>2, <2>12, ChainSound
  <2>13. CASE Fail
    BY <2>2, <2>13 DEF Fail, Sound, UsedInv, UsedAt
  <2>14. CASE Data \/ Part \/ NextPart
    BY <2>1, <2>2, <2>14, DataSound
  <2>15. CASE EntryStep
    BY <2>1, <2>2, <2>15, EntrySound
  <2> QED BY <1>4, <2>3, <2>4, <2>5, <2>6, <2>7, <2>8, <2>9, <2>10, <2>11, <2>12, <2>13, <2>14, <2>15
             DEF Next, Operation
<1> QED BY <1>3, <1>4

\* At the start the clusters in use are those of the file that was there before.
LEMMA NoLossInit ==
  ASSUME FatAssumption, Init, Safe
  PROVE  NoLoss
<1>1. op = Idle /\ saved = Default
  BY DEF Init
<1>2. op.pc = "idle"
  BY <1>1 DEF Idle
<1>3. PICK F, n, f : F = Foreign /\ n = Len(Foreign) /\ f = fat[1]
  OBVIOUS
<1>4. /\ n \in Nat \ {0} /\ Files = {1} /\ dir[1] = ForeignEntry /\ (\A k \in 1 .. Copies : fat[k] = fat[1])
      /\ (\A k \in 1 .. n : ChainIn(f, F[1], n)[k] = F[k])
      /\ (\A c \in Cluster : f[c] # FAT_FREE => \E k \in 1 .. n : c = F[k])
  BY <1>3, ForeignFile
<1>5. dir[1].first = F[1] /\ dir[1].size = n /\ dir[1].name = 0 /\ dir[1].version = Default
  BY <1>3, <1>4 DEF ForeignEntry
<1>6. Clusters(1) = Span(f, F[1], n) /\ Owned = Clusters(1)
  <2>1. Clusters(1) = Span(fat[1], dir[1].first, dir[1].size)
    BY <1>4, FilePath DEF Safe
  <2>2. Clusters(1) = Span(f, F[1], n)
    BY <1>3, <1>5, <2>1
  <2>3. Owned = Clusters(1)
    BY <1>4 DEF Owned
  <2> QED BY <2>2, <2>3
<1>7. Used \subseteq Owned
  <2>1. ASSUME NEW c \in Cluster, fat[1][c] # FAT_FREE PROVE c \in Span(f, F[1], n)
    BY <1>3, <1>4, <2>1 DEF Span
  <2> QED BY <1>6, <2>1 DEF Used
<1>8. Owned \subseteq Used
  <2>1. ASSUME NEW c \in Owned PROVE c \in Cluster /\ fat[1][c] # FAT_FREE
    BY OwnedUsed DEF Safe
  <2> QED BY <2>1 DEF Used
<1>9. UsedInv
  BY <1>2, <1>7, <1>8 DEF UsedInv, UsedAt
<1>10. TablesInv
  BY <1>2, <1>4 DEF TablesInv, FatPending
<1>11. NamesInv
  BY <1>2, <1>4 DEF NamesInv, NameGone
<1>12. KeptInv
  BY <1>1, <1>2, <1>4, <1>5 DEF KeptInv, KeptVersion, Stored, Unfailed, Stages
<1> QED BY <1>9, <1>10, <1>11, <1>12 DEF NoLoss, Sound

LEMMA IntactFollows ==
  ASSUME FatAssumption, Safe, MountShape, NoLoss
  PROVE  FilesIntact
<1>1. TypeOK /\ FilesWhole /\ NoCrossLink
  BY SafeTypes DEF Safe
<1>2. NothingLeaked
  <2> SUFFICES ASSUME op.pc = "idle", faults = 0, pulls = 0
               PROVE  /\ Used = Owned
                      /\ \A k \in 1 .. Copies : fat[k] = fat[1]
                      /\ \A s, t \in Files : dir[s].name = dir[t].name => s = t
    BY DEF NothingLeaked, Used, Owned
  <2> QED BY DEF NoLoss, Sound, UsedInv, UsedAt, TablesInv, FatPending, NamesInv
<1>3. SettingsKept
  <2> SUFFICES ASSUME op.pc = "idle", faults = 0, pulls = 0, FindFile(Config) # 0
               PROVE  dir[FindFile(Config)].version = saved
    BY DEF SettingsKept
  <2>1. FindFile(Config) \in Files /\ dir[FindFile(Config)].name = Config
    BY FindFileFacts DEF Safe
  <2>2. KeptVersion = saved
    BY DEF KeptVersion, Stored
  <2> QED BY <2>1, <2>2 DEF NoLoss, Sound, KeptInv
<1> QED BY <1>1, <1>2, <1>3 DEF FilesIntact

\* Whichever transfers fail and whenever the drive is pulled, the files in the directory stay
\* whole, the one that was there before included, and no two share a cluster; as long as no
\* transfer failed and the drive was not pulled no cluster is lost, the copies of the table
\* agree, and a start finds the settings that were saved last (the order in which
\* fat32_write_file and fat32_delete_file write their sectors, and what they release).
THEOREM FilesStayIntact ==
  ASSUME FatAssumption
  PROVE  SafeSpec => []FilesIntact
<1>1. Init => IInv
  BY SafeInit, MountShapeInit, NoLossInit DEF Init, IInv
<1>2. IInv /\ [Next]_vars => IInv'
  <2> SUFFICES ASSUME IInv, [Next]_vars PROVE IInv'
    OBVIOUS
  <2>0. Safe /\ MountShape /\ NoLoss
    BY DEF IInv
  <2>1. Safe'
    BY <2>0, SafeStep
  <2>2. MountShape'
    BY <2>0, MountShapeNext
  <2>3. NoLoss'
    BY <2>0, <2>1, NoLossStep
  <2> QED BY <2>1, <2>2, <2>3 DEF IInv
<1>3. IInv => FilesIntact
  BY IntactFollows DEF IInv
<1> QED BY <1>1, <1>2, <1>3, PTL DEF SafeSpec

-----------------------------------------------------------------------------
(***************************************************************************)
(* fat32_mount finds the volume there is                                   *)
(***************************************************************************)
Fields == {"pc", "buf", "i", "loaded", "lba", "gpt", "type", "clean"}

\* A sector that is not there is no volume.
LEMMA NoSectorNoFat ==
  ~IsFat(NoSector)
BY DEF IsFat, NoSector

\* What is read at a place of the drive is a volume only if the place is there.
LEMMA FatSectorIn ==
  ASSUME NEW d, NEW a, IsFat(SectorIn(d, a))
  PROVE  IsVolume(d, a) /\ SectorIn(d, a) = d[a]
<1>1. a \in DOMAIN d
  BY NoSectorNoFat DEF SectorIn
<1> QED BY <1>1 DEF SectorIn, IsVolume

\* ... and the other way round.
LEMMA VolumeIn ==
  ASSUME NEW d, NEW a, IsVolume(d, a)
  PROVE  IsFat(SectorIn(d, a))
BY DEF SectorIn, IsVolume

LEMMA HeldFails ==
  ASSUME NEW d \in Drives, NEW m, DOMAIN m = Fields
  PROVE  Held(d, [m EXCEPT !.pc = "failed", !.clean = FALSE])
<1> DEFINE n == [m EXCEPT !.pc = "failed", !.clean = FALSE]
<1>1. n.pc = "failed" /\ n.clean = FALSE
  BY DEF Fields
<1> HIDE DEF n
<1> QED BY <1>1 DEF Held, OnGpt, OnMbr

LEMMA HeldFailed ==
  ASSUME NEW d \in Drives, NEW m, DOMAIN m = Fields, m.clean => FailedRight(d)
  PROVE  Held(d, [m EXCEPT !.pc = "failed"])
<1> DEFINE n == [m EXCEPT !.pc = "failed"]
<1>1. n.pc = "failed" /\ n.clean = m.clean
  BY DEF Fields
<1> HIDE DEF n
<1> QED BY <1>1 DEF Held, OnGpt, OnMbr

LEMMA HeldFound ==
  ASSUME NEW d \in Drives, NEW m, DOMAIN m = Fields, NEW a \in Volumes(d)
  PROVE  Held(d, [m EXCEPT !.pc = "found", !.type = FatType(d[a]), !.lba = a])
<1> DEFINE n == [m EXCEPT !.pc = "found", !.type = FatType(d[a]), !.lba = a]
<1>1. n.pc = "found" /\ n.type = FatType(d[a]) /\ n.lba = a
  BY DEF Fields
<1> HIDE DEF n
<1> QED BY <1>1 DEF Held, OnGpt, OnMbr, FoundRight

\* Sector 0.
LEMMA HeldSector0 ==
  ASSUME MountAssumption, NEW d \in Drives, NEW m, NEW n, DOMAIN m = Fields,
         NEW s, s = d[0], ~IsFat(s), NEW pc,
         pc = (IF ~s.sig THEN "failed"
               ELSE IF \E i \in DOMAIN s.parts : s.parts[i].type = "gpt" THEN "gpt" ELSE "mbr"),
         n = [m EXCEPT !.buf = s, !.pc = pc]
  PROVE  Held(d, n)
<1>1. n.pc = pc
  BY DEF Fields
<1>2. CASE ~s.sig
  <2>1. pc = "failed"
    BY <1>2
  <2>2. Listed(d) = {}
    BY <1>2 DEF Listed
  <2>3. FailedRight(d)
    BY <2>2 DEF FailedRight, Volumes
  <2> QED BY <1>1, <2>1, <2>3 DEF Held, OnGpt, OnMbr
<1>3. CASE s.sig
  <2>1. pc = IF HasGpt(d) THEN "gpt" ELSE "mbr"
    BY <1>3 DEF HasGpt
  <2> QED BY <1>1, <1>3, <2>1 DEF Held, OnGpt, OnMbr
<1> QED BY <1>2, <1>3

\* An entry the drive's GPT has is one that can be read.
LEMMA GptEntryThere ==
  ASSUME MountAssumption, NEW d \in Drives, 1 \in DOMAIN d, d[1].gpt # << >>,
         NEW e \in GptEntries(d)
  PROVE  \E i \in 0 .. d[1].gpt.count - 1 : EntryThere(d, d[1].gpt, i) /\ e = EntryIn(d, d[1].gpt, i)
<1> DEFINE g == d[1].gpt
           at(i) == [sector |-> g.lba + (i * g.size) \div BlockSize, off |-> (i * g.size) % BlockSize]
           there(i) == /\ at(i).off + EntryPart <= BlockSize
                       /\ at(i).sector \in DOMAIN d /\ at(i).off \in DOMAIN d[at(i).sector].entries
<1>1. PICK i \in {j \in 0 .. g.count - 1 : there(j)} : e = d[at(i).sector].entries[at(i).off]
  BY Zenon DEF GptEntries
<1>2. at(i).sector = PlaceSector(g, i) /\ at(i).off = PlaceOffset(g, i)
  BY DEF PlaceSector, PlaceOffset
<1>3. i \in 0 .. g.count - 1 /\ there(i)
  BY <1>1
<1>4. SectorIn(d, PlaceSector(g, i)) = d[at(i).sector]
  BY <1>2, <1>3 DEF SectorIn
<1> HIDE DEF at
<1> QED BY <1>1, <1>2, <1>3, <1>4 DEF EntryThere, EntryIn

\* ... and the other way round: an entry that is read is one of the drive's GPT.
LEMMA EntryThereGpt ==
  ASSUME NEW d, NEW i \in 0 .. d[1].gpt.count - 1, EntryThere(d, d[1].gpt, i)
  PROVE  EntryIn(d, d[1].gpt, i) \in GptEntries(d)
<1> DEFINE g == d[1].gpt
           at(j) == [sector |-> g.lba + (j * g.size) \div BlockSize, off |-> (j * g.size) % BlockSize]
           there(j) == /\ at(j).off + EntryPart <= BlockSize
                       /\ at(j).sector \in DOMAIN d /\ at(j).off \in DOMAIN d[at(j).sector].entries
<1>2. at(i).sector = PlaceSector(g, i) /\ at(i).off = PlaceOffset(g, i)
  BY DEF PlaceSector, PlaceOffset
<1>3. PlaceSector(g, i) \in DOMAIN d
  <2> SUFFICES ASSUME PlaceSector(g, i) \notin DOMAIN d PROVE FALSE
    OBVIOUS
  <2>1. SectorIn(d, PlaceSector(g, i)).entries = << >>
    BY DEF SectorIn, NoSector
  <2> QED BY <2>1 DEF EntryThere
<1>4. SectorIn(d, PlaceSector(g, i)) = d[PlaceSector(g, i)]
  BY <1>3 DEF SectorIn
<1>5. there(i)
  BY <1>2, <1>3, <1>4 DEF EntryThere
<1>6. EntryIn(d, g, i) = d[at(i).sector].entries[at(i).off]
  BY <1>2, <1>4 DEF EntryIn
<1> HIDE DEF at
<1> QED BY <1>5, <1>6 DEF GptEntries, at

\* A GPT none of whose entries leads to a volume.
LEMMA GptFailed ==
  ASSUME MountAssumption, NEW d \in Drives, d[0].sig, ~IsFat(d[0]), HasGpt(d),
         1 \in DOMAIN d /\ d[1].gpt # << >> /\ d[1].gpt.size >= MinEntry
            => \A j \in 0 .. d[1].gpt.count - 1 : NoVolumeAt(d, d[1].gpt, j)
  PROVE  FailedRight(d)
<1> SUFFICES ASSUME NEW a \in Volumes(d) PROVE FALSE
  BY DEF FailedRight
<1>1. a \in Listed(d) /\ IsVolume(d, a)
  BY DEF Volumes, IsVolume
<1>2. 1 \in DOMAIN d /\ d[1].gpt # << >> /\ d[1].gpt.size >= MinEntry
  BY <1>1 DEF Listed
<1>3. PICK e \in GptEntries(d) : e.guid = "basic" /\ a = e.lba
  <2>1. Listed(d) = {f.lba : f \in {e \in GptEntries(d) : e.guid = "basic"}}
    BY <1>2 DEF Listed
  <2> QED BY <1>1, <2>1
<1>4. PICK i \in 0 .. d[1].gpt.count - 1 : EntryThere(d, d[1].gpt, i) /\ e = EntryIn(d, d[1].gpt, i)
  BY <1>2, GptEntryThere
<1>5. NoVolumeAt(d, d[1].gpt, i)
  BY <1>2, <1>4
<1> QED BY <1>1, <1>3, <1>4, <1>5 DEF NoVolumeAt

\* The GPT header.
LEMMA HeldGptHeader ==
  ASSUME MountAssumption, NEW d \in Drives, NEW m, DOMAIN m = Fields, Held(d, m), m.pc = "gpt",
         NEW s, s = SectorIn(d, 1), NEW n,
         n = IF s.gpt # << >> /\ s.gpt.size >= MinEntry /\ s.gpt.count # 0
             THEN [m EXCEPT !.pc = "entry", !.gpt = s.gpt, !.i = 0, !.loaded = None]
             ELSE [m EXCEPT !.pc = "failed"]
  PROVE  Held(d, n)
<1>1. d[0].sig /\ ~IsFat(d[0]) /\ HasGpt(d)
  BY DEF Held, OnGpt
<1>2. CASE s.gpt # << >> /\ s.gpt.size >= MinEntry /\ s.gpt.count # 0
  <2>1. n = [m EXCEPT !.pc = "entry", !.gpt = s.gpt, !.i = 0, !.loaded = None]
    BY <1>2
  <2>2. n.pc = "entry" /\ n.gpt = s.gpt /\ n.i = 0 /\ n.loaded = None
    BY <2>1 DEF Fields
  <2>3. 1 \in DOMAIN d /\ s = d[1]
    BY <1>2 DEF SectorIn, NoSector
  <2>4. GptHeld(d, n)
    BY <1>2, <2>2, <2>3 DEF GptHeld
  <2> QED BY <1>1, <2>2, <2>4 DEF Held, OnGpt, OnMbr
<1>3. CASE ~(s.gpt # << >> /\ s.gpt.size >= MinEntry /\ s.gpt.count # 0)
  <2>1. ASSUME 1 \in DOMAIN d, d[1].gpt # << >>, d[1].gpt.size >= MinEntry
        PROVE  \A j \in 0 .. d[1].gpt.count - 1 : NoVolumeAt(d, d[1].gpt, j)
    <3>1. s = d[1]
      BY <2>1 DEF SectorIn
    <3>2. d[1].gpt.count = 0
      BY <1>3, <2>1, <3>1
    <3> QED BY <3>2
  <2>2. FailedRight(d)
    BY <1>1, <2>1, GptFailed
  <2>3. n = [m EXCEPT !.pc = "failed"]
    BY <1>3
  <2> QED BY <2>2, <2>3, HeldFailed
<1> QED BY <1>2, <1>3

\* The place of an entry is a number of a sector, not None, and an offset in it.
LEMMA PlaceIsSector ==
  ASSUME MountAssumption, NEW d \in Drives, 1 \in DOMAIN d, NEW g, g = d[1].gpt, g # << >>,
         NEW i \in Nat
  PROVE  PlaceSector(g, i) # None /\ PlaceOffset(g, i) \in Nat
<1>1. g.lba \in Nat /\ g.size \in Nat /\ BlockSize \in Nat /\ BlockSize > 0
  BY DEF MountAssumption
<1> DEFINE x == i * g.size
<1>2. x \in Nat
  BY <1>1
<1> HIDE DEF x
<1>3. x \div BlockSize \in Nat
  BY <1>1, <1>2
<1>4. x % BlockSize \in Nat
  BY <1>1, <1>2
<1> QED BY <1>1, <1>3, <1>4 DEF PlaceSector, PlaceOffset, None, x

\* One entry more is passed over.
LEMMA HeldNextEntry ==
  ASSUME NEW d, NEW m, DOMAIN m = Fields, m.i \in Nat, GptHeld(d, m),
         NEW n, n.gpt = m.gpt, n.i = m.i + 1, n.clean => m.clean,
         n.loaded # None => n.buf = SectorIn(d, n.loaded),
         n.clean => NoVolumeAt(d, m.gpt, m.i)
  PROVE  GptHeld(d, n)
<1>1. n.clean => \A j \in 0 .. n.i - 1 : NoVolumeAt(d, n.gpt, j)
  BY DEF GptHeld
<1> QED BY <1>1 DEF GptHeld

\* An entry of the GPT, or the end of the entries.
LEMMA HeldGptEntry ==
  ASSUME MountAssumption, NEW d \in Drives, NEW m, DOMAIN m = Fields, m.i \in Nat, Held(d, m),
         m.pc = "entry", NEW n,
         \/ m.i >= m.gpt.count /\ n = [m EXCEPT !.pc = "failed"]
         \/ /\ m.i < m.gpt.count /\ PlaceOffset(m.gpt, m.i) + EntryPart > BlockSize
            /\ n = [m EXCEPT !.i = @ + 1]
  PROVE  Held(d, n)
<1>1. d[0].sig /\ ~IsFat(d[0]) /\ HasGpt(d) /\ GptHeld(d, m)
  BY DEF Held, OnGpt
<1>2. 1 \in DOMAIN d /\ m.gpt = d[1].gpt /\ m.gpt # << >> /\ m.gpt.size >= MinEntry
  BY <1>1 DEF GptHeld
<1>3. CASE m.i >= m.gpt.count /\ n = [m EXCEPT !.pc = "failed"]
  <2>1. m.gpt.count \in Nat
    BY <1>2 DEF MountAssumption
  <2>2. ASSUME m.clean PROVE FailedRight(d)
    <3>1. \A j \in 0 .. d[1].gpt.count - 1 : NoVolumeAt(d, d[1].gpt, j)
      BY <1>1, <1>2, <1>3, <2>1, <2>2 DEF GptHeld
    <3> QED BY <1>1, <3>1, GptFailed
  <2> QED BY <1>3, <2>2, HeldFailed
<1>4. CASE /\ PlaceOffset(m.gpt, m.i) + EntryPart > BlockSize
           /\ n = [m EXCEPT !.i = @ + 1]
  <2>1. /\ n.pc = "entry" /\ n.i = m.i + 1 /\ n.gpt = m.gpt /\ n.clean = m.clean
        /\ n.loaded = m.loaded /\ n.buf = m.buf
    BY <1>4 DEF Fields
  <2>2. NoVolumeAt(d, m.gpt, m.i)
    <3>1. PlaceOffset(m.gpt, m.i) \in Nat /\ EntryPart \in Nat /\ BlockSize \in Nat
      BY <1>2, PlaceIsSector DEF MountAssumption
    <3> QED BY <1>4, <3>1 DEF NoVolumeAt, EntryThere
  <2>3. n.loaded # None => n.buf = SectorIn(d, n.loaded)
    BY <1>1, <2>1 DEF GptHeld
  <2>4. GptHeld(d, n)
    BY <1>1, <2>1, <2>2, <2>3, HeldNextEntry
  <2> QED BY <1>1, <2>1, <2>4 DEF Held, OnGpt, OnMbr
<1> QED BY <1>3, <1>4

\* The entry that is looked at: its partition is tried, or it is passed over.
LEMMA HeldLook ==
  ASSUME MountAssumption, NEW d \in Drives, NEW m, DOMAIN m = Fields, m.i \in Nat, Held(d, m),
         m.pc = "entry", m.i < m.gpt.count,
         NEW at, at = PlaceOffset(m.gpt, m.i), at + EntryPart <= BlockSize,
         NEW sector, sector = PlaceSector(m.gpt, m.i),
         NEW s, s = (IF m.loaded = sector THEN m.buf ELSE SectorIn(d, sector)), NEW n,
         n = IF at \in DOMAIN s.entries /\ BasicData(s.entries[at])
             THEN [m EXCEPT !.buf = s, !.loaded = sector, !.pc = "gpt_vbr", !.lba = s.entries[at].lba]
             ELSE [m EXCEPT !.buf = s, !.loaded = sector, !.i = @ + 1]
  PROVE  Held(d, n)
<1>1. d[0].sig /\ ~IsFat(d[0]) /\ HasGpt(d) /\ GptHeld(d, m)
  BY DEF Held, OnGpt
<1>2. 1 \in DOMAIN d /\ m.gpt = d[1].gpt /\ m.gpt # << >> /\ m.gpt.size >= MinEntry
  BY <1>1 DEF GptHeld
<1>3. sector # None
  BY <1>2, PlaceIsSector
<1>4. s = SectorIn(d, sector)
  BY <1>1, <1>3 DEF GptHeld
<1>5. CASE at \in DOMAIN s.entries /\ BasicData(s.entries[at])
  <2>1. n = [m EXCEPT !.buf = s, !.loaded = sector, !.pc = "gpt_vbr", !.lba = s.entries[at].lba]
    BY <1>5
  <2>2. /\ n.pc = "gpt_vbr" /\ n.i = m.i /\ n.gpt = m.gpt /\ n.clean = m.clean
        /\ n.loaded = sector /\ n.buf = s /\ n.lba = s.entries[at].lba
    BY <2>1 DEF Fields
  <2>3. EntryThere(d, m.gpt, m.i) /\ EntryIn(d, m.gpt, m.i) = s.entries[at]
    BY <1>4, <1>5 DEF EntryThere, EntryIn
  <2>4. EntryHeld(d, n)
    BY <1>5, <2>2, <2>3 DEF EntryHeld, BasicData
  <2>5. GptHeld(d, n)
    BY <1>1, <1>4, <2>2 DEF GptHeld
  <2> QED BY <1>1, <2>2, <2>4, <2>5 DEF Held, OnGpt, OnMbr
<1>6. CASE ~(at \in DOMAIN s.entries /\ BasicData(s.entries[at]))
  <2>1. n = [m EXCEPT !.buf = s, !.loaded = sector, !.i = @ + 1]
    BY <1>6
  <2>2. /\ n.pc = "entry" /\ n.i = m.i + 1 /\ n.gpt = m.gpt /\ n.clean = m.clean
        /\ n.loaded = sector /\ n.buf = s
    BY <2>1 DEF Fields
  <2>3. NoVolumeAt(d, m.gpt, m.i)
    <3> SUFFICES ASSUME EntryThere(d, m.gpt, m.i), EntryIn(d, m.gpt, m.i).guid = "basic"
                 PROVE  ~IsVolume(d, EntryIn(d, m.gpt, m.i).lba)
      BY DEF NoVolumeAt
    <3>1. at \in DOMAIN s.entries /\ s.entries[at] = EntryIn(d, m.gpt, m.i)
      BY <1>4 DEF EntryThere, EntryIn
    <3>2. EntryIn(d, m.gpt, m.i).lba = 0
      BY <1>6, <3>1 DEF BasicData
    <3> QED BY <1>1, <3>2 DEF IsVolume
  <2>4. GptHeld(d, n)
    BY <1>1, <1>4, <2>2, <2>3, HeldNextEntry
  <2> QED BY <1>1, <2>2, <2>4 DEF Held, OnGpt, OnMbr
<1> QED BY <1>5, <1>6

\* The boot sector of a partition of the GPT: the partition is a volume, or the next entry
\* is looked at.
LEMMA HeldGptVbr ==
  ASSUME MountAssumption, NEW d \in Drives, NEW m, DOMAIN m = Fields, m.i \in Nat, Held(d, m),
         m.pc = "gpt_vbr", NEW n, n.pc = "entry", n.i = m.i + 1, n.gpt = m.gpt, n.loaded = None,
         n.clean => m.clean /\ ~IsFat(SectorIn(d, m.lba))
  PROVE  Held(d, n)
<1>1. d[0].sig /\ ~IsFat(d[0]) /\ HasGpt(d) /\ GptHeld(d, m) /\ EntryHeld(d, m)
  BY DEF Held, OnGpt
<1>2. n.clean => NoVolumeAt(d, m.gpt, m.i)
  BY <1>1, VolumeIn DEF NoVolumeAt, EntryHeld
<1>3. GptHeld(d, n)
  BY <1>1, <1>2, HeldNextEntry
<1> QED BY <1>1, <1>3 DEF Held, OnGpt, OnMbr

LEMMA GptVolume ==
  ASSUME MountAssumption, NEW d \in Drives, NEW m, m.i \in Nat, Held(d, m), m.pc = "gpt_vbr",
         IsFat(SectorIn(d, m.lba))
  PROVE  m.lba \in Volumes(d) /\ SectorIn(d, m.lba) = d[m.lba]
<1>1. d[0].sig /\ ~IsFat(d[0]) /\ HasGpt(d) /\ GptHeld(d, m) /\ EntryHeld(d, m)
  BY DEF Held, OnGpt
<1>2. IsVolume(d, m.lba) /\ SectorIn(d, m.lba) = d[m.lba]
  BY FatSectorIn
<1>3. 1 \in DOMAIN d /\ m.gpt = d[1].gpt /\ m.gpt # << >> /\ m.gpt.size >= MinEntry
  BY <1>1 DEF GptHeld
<1>4. m.i \in 0 .. d[1].gpt.count - 1
  BY <1>1, <1>3 DEF EntryHeld, MountAssumption
<1>5. EntryIn(d, m.gpt, m.i) \in GptEntries(d)
  BY <1>1, <1>3, <1>4, EntryThereGpt DEF EntryHeld
<1>6. Listed(d) = {e.lba : e \in {f \in GptEntries(d) : f.guid = "basic"}}
  BY <1>1, <1>3 DEF Listed
<1>7. m.lba \in Listed(d)
  BY <1>1, <1>5, <1>6 DEF EntryHeld
<1> QED BY <1>2, <1>7 DEF Volumes, IsVolume

\* Sector 0 is in the buffer again.
LEMMA HeldMbr ==
  ASSUME MountAssumption, NEW d \in Drives, NEW m, DOMAIN m = Fields, Held(d, m), m.pc = "mbr"
  PROVE  Held(d, [m EXCEPT !.pc = "part", !.buf = d[0], !.i = 1])
<1> DEFINE n == [m EXCEPT !.pc = "part", !.buf = d[0], !.i = 1]
<1>1. n.pc = "part" /\ n.buf = d[0] /\ n.i = 1
  BY DEF Fields
<1> HIDE DEF n
<1>2. d[0].sig /\ ~IsFat(d[0]) /\ ~HasGpt(d)
  BY DEF Held, OnMbr
<1>3. \A j \in FatParts(d) : j >= 1
  BY DEF FatParts, MountAssumption
<1>4. PartHeld(d, n)
  BY <1>1, <1>3 DEF PartHeld, TableHeld
<1> QED BY <1>1, <1>2, <1>4 DEF Held, OnGpt, OnMbr

\* The end of the table of the MBR.
LEMMA HeldMbrEnd ==
  ASSUME MountAssumption, NEW d \in Drives, NEW m, DOMAIN m = Fields, m.i \in Nat, Held(d, m),
         m.pc = "part", m.i > 4
  PROVE  Held(d, [m EXCEPT !.pc = "failed"])
<1>1. d[0].sig /\ ~IsFat(d[0]) /\ ~HasGpt(d) /\ PartHeld(d, m)
  BY DEF Held, OnMbr
<1>2. Listed(d) = {d[0].parts[i].lba : i \in FatParts(d)}
  BY <1>1 DEF Listed
<1>3. FatParts(d) \subseteq 1 .. 4
  BY DEF FatParts, MountAssumption
<1>4. ASSUME m.clean PROVE FailedRight(d)
  <2>1. CASE TableHeld(d, m)
    <3>1. FatParts(d) = {}
      BY <1>3, <1>4, <2>1 DEF TableHeld
    <3> QED BY <1>2, <3>1 DEF FailedRight, Volumes
  <2>2. CASE TableLost(d, m)
    <3>1. PICK k \in FatParts(d) : /\ ~IsVolume(d, d[0].parts[k].lba)
                                   /\ \A j \in FatParts(d) : k <= j
      BY <1>4, <2>2 DEF TableLost
    <3>2. ASSUME NEW a \in Volumes(d) PROVE FailedRight(d)
      <4>1. a \in Listed(d) /\ IsVolume(d, a)
        BY <3>2 DEF Volumes, IsVolume
      <4>2. PICK j \in FatParts(d) : a = d[0].parts[j].lba
        BY <1>2, <4>1
      <4>3. k < j
        BY <1>3, <3>1, <4>1, <4>2
      <4>4. d[0].parts[k].lba \notin Volumes(d)
        BY <3>1 DEF Volumes, IsVolume
      <4> QED BY <1>1, <3>2, <4>2, <4>3, <4>4 DEF FailedRight
    <3> QED BY <3>2 DEF FailedRight
  <2> QED BY <1>1, <2>1, <2>2 DEF PartHeld
<1> QED BY <1>4, HeldFailed

\* An entry that is no FAT partition.
LEMMA HeldMbrSkip ==
  ASSUME MountAssumption, NEW d \in Drives, NEW m, DOMAIN m = Fields, m.i \in Nat, Held(d, m),
         m.pc = "part",
         \/ m.i \notin DOMAIN m.buf.parts
         \/ m.buf.parts[m.i].type \notin FatTypes
         \/ m.buf.parts[m.i].lba = 0
  PROVE  Held(d, [m EXCEPT !.i = @ + 1])
<1> DEFINE n == [m EXCEPT !.i = @ + 1]
<1>1. n.pc = "part" /\ n.buf = m.buf /\ n.i = m.i + 1 /\ n.clean = m.clean
  BY DEF Fields
<1> SUFFICES Held(d, n)
  OBVIOUS
<1> HIDE DEF n
<1>2. d[0].sig /\ ~IsFat(d[0]) /\ ~HasGpt(d) /\ PartHeld(d, m)
  BY DEF Held, OnMbr
<1>3. CASE TableHeld(d, m)
  <2>1. m.i \notin FatParts(d)
    BY <1>3 DEF TableHeld, FatParts
  <2>2. FatParts(d) \subseteq Nat
    BY DEF FatParts, MountAssumption
  <2>3. TableHeld(d, n)
    BY <1>1, <1>3, <2>1, <2>2 DEF TableHeld
  <2> QED BY <1>1, <1>2, <2>3 DEF Held, OnGpt, OnMbr, PartHeld
<1>4. CASE TableLost(d, m)
  <2>1. TableLost(d, n)
    BY <1>1, <1>4 DEF TableLost
  <2> QED BY <1>1, <1>2, <2>1 DEF Held, OnGpt, OnMbr, PartHeld
<1> QED BY <1>2, <1>3, <1>4 DEF PartHeld

\* A FAT partition is read from the drive's own table.
LEMMA MbrEntry ==
  ASSUME NEW d \in Drives, NEW m, Held(d, m), m.pc = "part",
         m.i \in DOMAIN m.buf.parts, m.buf.parts[m.i].type \in FatTypes, m.buf.parts[m.i].lba # 0
  PROVE  /\ TableHeld(d, m) /\ m.i \in FatParts(d) /\ m.buf.parts[m.i] = d[0].parts[m.i]
         /\ d[0].sig /\ ~IsFat(d[0]) /\ ~HasGpt(d)
<1>1. d[0].sig /\ ~IsFat(d[0]) /\ ~HasGpt(d) /\ PartHeld(d, m)
  BY DEF Held, OnMbr
<1>2. ~TableLost(d, m)
  BY DEF TableLost
<1>3. TableHeld(d, m)
  BY <1>1, <1>2 DEF PartHeld
<1> QED BY <1>1, <1>3 DEF TableHeld, FatParts

LEMMA MbrVolume ==
  ASSUME NEW d \in Drives, NEW m, Held(d, m), m.pc = "part",
         m.i \in DOMAIN m.buf.parts, m.buf.parts[m.i].type \in FatTypes, m.buf.parts[m.i].lba # 0,
         IsFat(SectorIn(d, m.buf.parts[m.i].lba))
  PROVE  /\ m.buf.parts[m.i].lba \in Volumes(d)
         /\ SectorIn(d, m.buf.parts[m.i].lba) = d[m.buf.parts[m.i].lba]
<1> DEFINE a == m.buf.parts[m.i].lba
<1>1. IsVolume(d, a) /\ SectorIn(d, a) = d[a]
  BY FatSectorIn
<1>2. a = d[0].parts[m.i].lba /\ m.i \in FatParts(d) /\ d[0].sig /\ ~IsFat(d[0]) /\ ~HasGpt(d)
  BY MbrEntry
<1>3. Listed(d) = {d[0].parts[i].lba : i \in FatParts(d)}
  BY <1>2 DEF Listed
<1> HIDE DEF a
<1>4. a \in Listed(d)
  BY <1>2, <1>3
<1>5. a \in Volumes(d)
  BY <1>1, <1>4 DEF Volumes, IsVolume
<1> QED BY <1>1, <1>5 DEF a

\* A FAT partition without a FAT16 or FAT32 file system, or one that could not be read.
LEMMA HeldMbrVbr ==
  ASSUME MountAssumption, NoStrayEntries, NEW d \in Drives, NEW m, DOMAIN m = Fields, m.i \in Nat,
         Held(d, m), m.pc = "part",
         m.i \in DOMAIN m.buf.parts, m.buf.parts[m.i].type \in FatTypes, m.buf.parts[m.i].lba # 0,
         NEW n, n.pc = "part", n.i = m.i + 1, n.clean => m.clean,
         \/ n.buf = m.buf /\ n.clean = FALSE
         \/ /\ n.buf = SectorIn(d, m.buf.parts[m.i].lba)
            /\ n.clean => ~IsFat(SectorIn(d, m.buf.parts[m.i].lba))
  PROVE  Held(d, n)
<1> DEFINE a == d[0].parts[m.i].lba
<1>1. /\ TableHeld(d, m) /\ m.i \in FatParts(d) /\ m.buf.parts[m.i].lba = a
      /\ d[0].sig /\ ~IsFat(d[0]) /\ ~HasGpt(d)
  BY MbrEntry
<1>2. CASE n.buf = m.buf /\ n.clean = FALSE
  <2>1. TableHeld(d, n)
    BY <1>1, <1>2 DEF TableHeld
  <2> QED BY <1>1, <2>1 DEF Held, OnGpt, OnMbr, PartHeld
<1>3. CASE n.buf = SectorIn(d, a) /\ (n.clean => ~IsFat(SectorIn(d, a)))
  <2>1. \A j \in DOMAIN n.buf.parts : n.buf.parts[j].type \notin FatTypes \/ n.buf.parts[j].lba = 0
    <3>1. CASE a \in DOMAIN d
      <4>1. n.buf = d[a]
        BY <1>3, <3>1 DEF SectorIn
      <4> QED BY <1>1, <3>1, <4>1 DEF NoStrayEntries
    <3>2. CASE a \notin DOMAIN d
      <4>1. n.buf.parts = << >>
        BY <1>3, <3>2 DEF SectorIn, NoSector
      <4> QED BY <4>1
    <3> QED BY <3>1, <3>2
  <2>2. n.clean => ~IsVolume(d, a)
    BY <1>3, VolumeIn
  <2>3. n.clean => \A j \in FatParts(d) : m.i <= j
    BY <1>1 DEF TableHeld, FatParts, MountAssumption
  <2>4. TableLost(d, n)
    BY <1>1, <2>1, <2>2, <2>3 DEF TableLost
  <2> QED BY <1>1, <2>4 DEF Held, OnGpt, OnMbr, PartHeld
<1> QED BY <1>1, <1>2, <1>3

\* One step of fat32_mount on a drive.
LEMMA MountStepHeld ==
  ASSUME MountAssumption, NoStrayEntries, MountShape, MountInv, MountStep
  PROVE  MountInv'
<1>1. DOMAIN mnt = Fields /\ mnt.i \in Nat
  BY DEF MountShape, Fields
<1>2. mnt.pc \in {"start", "gpt", "entry", "gpt_vbr", "mbr", "part", "found"}
  BY DEF MountStep, ReadSector0, ReadGptHeader, ReadGptEntry, ReadGptVbr, ReadMbr, ReadPartition,
         MountReturns
<1>3. drive \in Drives /\ Held(drive, mnt)
  BY <1>2 DEF MountInv, Held
<1>4. \A a : SectorAt(a) = SectorIn(drive, a)
  BY DEF SectorAt, SectorIn
<1>5. SectorIn(drive, 0) = drive[0]
  BY <1>3 DEF SectorIn, MountAssumption
<1>6. ASSUME drive' = drive, Held(drive, mnt') PROVE MountInv'
  BY <1>6 DEF MountInv
<1>7. ASSUME Fails PROVE MountInv'
  BY <1>1, <1>3, <1>6, <1>7, HeldFails DEF Fails
<1>8. ASSUME NEW a \in Volumes(drive), Mounted(drive[a], a) PROVE MountInv'
  BY <1>1, <1>3, <1>6, <1>8, HeldFound DEF Mounted
<1>a. CASE ReadSector0
  <2>1. CASE IsFat(SectorAt(0)) /\ Mounted(SectorAt(0), 0)
    <3>1. 0 \in Volumes(drive)
      BY <1>3, <1>4, <1>5, <2>1 DEF Volumes, Listed, MountAssumption
    <3> QED BY <1>4, <1>5, <1>8, <2>1, <3>1
  <2>2. CASE ~IsFat(SectorAt(0)) /\ ~Fails
    <3> DEFINE s == SectorAt(0)
               pc == IF ~s.sig THEN "failed"
                     ELSE IF \E i \in DOMAIN s.parts : s.parts[i].type = "gpt" THEN "gpt" ELSE "mbr"
    <3>1. mnt' = [mnt EXCEPT !.buf = s, !.pc = pc] /\ drive' = drive
      BY <1>a, <2>2, Zenon DEF ReadSector0
    <3>2. s = drive[0] /\ ~IsFat(s)
      BY <1>4, <1>5, <2>2
    <3>3. pc = IF ~s.sig THEN "failed"
               ELSE IF \E i \in DOMAIN s.parts : s.parts[i].type = "gpt" THEN "gpt" ELSE "mbr"
      OBVIOUS
    <3> HIDE DEF s, pc
    <3> QED BY <1>1, <1>3, <1>6, <3>1, <3>2, <3>3, HeldSector0
  <2> QED BY <1>7, <1>a, <2>1, <2>2 DEF ReadSector0
<1>b. CASE ReadGptHeader
  <2>1. CASE ~Fails
    <3> DEFINE s == SectorAt(1)
    <3>1. mnt' = IF s.gpt # << >> /\ s.gpt.size >= MinEntry /\ s.gpt.count # 0
                 THEN [mnt EXCEPT !.pc = "entry", !.gpt = s.gpt, !.i = 0, !.loaded = None]
                 ELSE [mnt EXCEPT !.pc = "failed"]
      BY <1>b, <2>1, Zenon DEF ReadGptHeader
    <3>2. s = SectorIn(drive, 1) /\ mnt.pc = "gpt" /\ drive' = drive
      BY <1>4, <1>b, <2>1 DEF ReadGptHeader
    <3> HIDE DEF s
    <3> QED BY <1>1, <1>3, <1>6, <3>1, <3>2, HeldGptHeader
  <2> QED BY <1>7, <2>1
<1>c. CASE ReadGptEntry
  <2> DEFINE at == EntryOffset(mnt.i)
             sector == EntrySector(mnt.i)
             look(s) ==
               IF at \in DOMAIN s.entries /\ BasicData(s.entries[at])
               THEN [mnt EXCEPT !.buf = s, !.loaded = sector, !.pc = "gpt_vbr", !.lba = s.entries[at].lba]
               ELSE [mnt EXCEPT !.buf = s, !.loaded = sector, !.i = @ + 1]
  <2>1. at = PlaceOffset(mnt.gpt, mnt.i) /\ sector = PlaceSector(mnt.gpt, mnt.i)
    BY DEF EntryOffset, EntrySector, PlaceOffset, PlaceSector
  <2>2. \/ mnt.i >= mnt.gpt.count /\ mnt' = [mnt EXCEPT !.pc = "failed"] /\ drive' = drive
        \/ /\ mnt.i < mnt.gpt.count /\ at + EntryPart > BlockSize
           /\ mnt' = [mnt EXCEPT !.i = @ + 1] /\ drive' = drive
        \/ /\ mnt.i < mnt.gpt.count /\ at + EntryPart <= BlockSize
           /\ mnt' = look(IF mnt.loaded = sector THEN mnt.buf ELSE SectorAt(sector)) /\ drive' = drive
        \/ Fails
    BY <1>c, Zenon DEF ReadGptEntry
  <2>3. mnt.pc = "entry"
    BY <1>c DEF ReadGptEntry
  <2>4. CASE /\ mnt.i < mnt.gpt.count /\ at + EntryPart <= BlockSize
             /\ mnt' = look(IF mnt.loaded = sector THEN mnt.buf ELSE SectorAt(sector)) /\ drive' = drive
    <3> DEFINE s == IF mnt.loaded = sector THEN mnt.buf ELSE SectorIn(drive, sector)
    <3>1. mnt' = look(s)
      BY <1>4, <2>4, Zenon
    <3>2. s = IF mnt.loaded = sector THEN mnt.buf ELSE SectorIn(drive, sector)
      OBVIOUS
    <3>3. mnt' = IF at \in DOMAIN s.entries /\ BasicData(s.entries[at])
                 THEN [mnt EXCEPT !.buf = s, !.loaded = sector, !.pc = "gpt_vbr", !.lba = s.entries[at].lba]
                 ELSE [mnt EXCEPT !.buf = s, !.loaded = sector, !.i = @ + 1]
      BY <3>1, Zenon
    <3> HIDE DEF s, at, sector, look
    <3>4. at + EntryPart <= BlockSize /\ mnt.i < mnt.gpt.count
      BY <2>4
    <3>5. Held(drive, mnt')
      BY <1>1, <1>3, <2>1, <2>3, <3>2, <3>3, <3>4, HeldLook
    <3> QED BY <1>6, <2>4, <3>5
  <2> HIDE DEF at, sector, look
  <2>5. CASE \/ mnt.i >= mnt.gpt.count /\ mnt' = [mnt EXCEPT !.pc = "failed"] /\ drive' = drive
             \/ /\ mnt.i < mnt.gpt.count /\ at + EntryPart > BlockSize
                /\ mnt' = [mnt EXCEPT !.i = @ + 1] /\ drive' = drive
    <3>1. Held(drive, mnt')
      BY <1>1, <1>3, <2>1, <2>3, <2>5, HeldGptEntry
    <3> QED BY <1>6, <2>5, <3>1
  <2> QED BY <1>7, <2>2, <2>4, <2>5
<1>d. CASE ReadGptVbr
  <2>1. mnt.pc = "gpt_vbr"
    BY <1>d DEF ReadGptVbr
  <2>2. CASE IsFat(SectorAt(mnt.lba)) /\ Mounted(SectorAt(mnt.lba), mnt.lba)
    <3>1. mnt.lba \in Volumes(drive) /\ SectorIn(drive, mnt.lba) = drive[mnt.lba]
      BY <1>1, <1>3, <1>4, <2>1, <2>2, GptVolume
    <3> QED BY <1>4, <1>8, <2>2, <3>1
  <2>3. CASE mnt' = [NotLoaded(mnt) EXCEPT !.clean = FALSE] /\ drive' = drive
    <3>1. /\ mnt'.pc = "entry" /\ mnt'.i = mnt.i + 1 /\ mnt'.gpt = mnt.gpt /\ mnt'.loaded = None
          /\ mnt'.clean = FALSE
      BY <1>1, <2>3 DEF NotLoaded, Fields
    <3>2. Held(drive, mnt')
      BY <1>1, <1>3, <2>1, <3>1, HeldGptVbr
    <3> QED BY <1>6, <2>3, <3>2
  <2>4. CASE /\ ~IsFat(SectorAt(mnt.lba)) /\ drive' = drive
             /\ mnt' = NotLoaded([mnt EXCEPT !.buf = SectorAt(mnt.lba)])
    <3>1. /\ mnt'.pc = "entry" /\ mnt'.i = mnt.i + 1 /\ mnt'.gpt = mnt.gpt /\ mnt'.loaded = None
          /\ mnt'.clean = mnt.clean
      BY <1>1, <2>4 DEF NotLoaded, Fields
    <3>2. Held(drive, mnt')
      BY <1>1, <1>3, <1>4, <2>1, <2>4, <3>1, HeldGptVbr
    <3> QED BY <1>6, <2>4, <3>2
  <2> QED BY <1>d, <2>2, <2>3, <2>4 DEF ReadGptVbr
<1>e. CASE ReadMbr
  <2>1. CASE mnt' = [mnt EXCEPT !.pc = "part", !.buf = SectorAt(0), !.i = 1] /\ drive' = drive
    <3>1. mnt' = [mnt EXCEPT !.pc = "part", !.buf = drive[0], !.i = 1]
      BY <1>4, <1>5, <2>1
    <3>2. Held(drive, mnt')
      BY <1>1, <1>3, <1>e, <3>1, HeldMbr DEF ReadMbr
    <3> QED BY <1>6, <2>1, <3>2
  <2> QED BY <1>7, <1>e, <2>1 DEF ReadMbr
<1>f. CASE ReadPartition
  <2> DEFINE e == mnt.buf.parts[mnt.i]
             s == SectorAt(e.lba)
  <2>1. mnt.pc = "part"
    BY <1>f DEF ReadPartition
  <2>2. s = SectorIn(drive, e.lba)
    BY <1>4
  <2>3. CASE mnt.i > 4
    <3>1. mnt' = [mnt EXCEPT !.pc = "failed"] /\ drive' = drive
      BY <1>f, <2>3, Zenon DEF ReadPartition
    <3>2. Held(drive, mnt')
      BY <1>1, <1>3, <2>1, <2>3, <3>1, HeldMbrEnd
    <3> QED BY <1>6, <3>1, <3>2
  <2>4. CASE ~(mnt.i > 4) /\ (mnt.i \notin DOMAIN mnt.buf.parts \/ e.type \notin FatTypes \/ e.lba = 0)
    <3>1. mnt' = [mnt EXCEPT !.i = @ + 1] /\ drive' = drive
      BY <1>f, <2>4, Zenon DEF ReadPartition
    <3>2. Held(drive, mnt')
      BY <1>1, <1>3, <2>1, <2>4, <3>1, HeldMbrSkip
    <3> QED BY <1>6, <3>1, <3>2
  <2>5. CASE ~(mnt.i > 4) /\ mnt.i \in DOMAIN mnt.buf.parts /\ e.type \in FatTypes /\ e.lba # 0
    <3>1. \/ /\ drive' = drive
             /\ \E b \in {mnt.buf, s} : mnt' = [mnt EXCEPT !.i = @ + 1, !.buf = b, !.clean = FALSE]
          \/ IsFat(s) /\ Mounted(s, e.lba)
          \/ ~IsFat(s) /\ mnt' = [mnt EXCEPT !.i = @ + 1, !.buf = s] /\ drive' = drive
      BY <1>f, <2>5, Zenon DEF ReadPartition
    <3>2. CASE IsFat(s) /\ Mounted(s, e.lba)
      <4>1. e.lba \in Volumes(drive) /\ SectorIn(drive, e.lba) = drive[e.lba]
        BY <1>3, <2>1, <2>2, <2>5, <3>2, MbrVolume
      <4> QED BY <1>8, <2>2, <3>2, <4>1
    <3>3. CASE /\ drive' = drive
               /\ \E b \in {mnt.buf, s} : mnt' = [mnt EXCEPT !.i = @ + 1, !.buf = b, !.clean = FALSE]
      <4>1. /\ mnt'.pc = "part" /\ mnt'.i = mnt.i + 1 /\ mnt'.clean = FALSE
            /\ mnt'.buf = mnt.buf \/ mnt'.buf = s
        BY <1>1, <2>1, <3>3 DEF Fields
      <4>2. Held(drive, mnt')
        BY <1>1, <1>3, <2>1, <2>2, <2>5, <4>1, HeldMbrVbr
      <4> QED BY <1>6, <3>3, <4>2
    <3>4. CASE ~IsFat(s) /\ mnt' = [mnt EXCEPT !.i = @ + 1, !.buf = s] /\ drive' = drive
      <4>1. /\ mnt'.pc = "part" /\ mnt'.i = mnt.i + 1 /\ mnt'.clean = mnt.clean
            /\ mnt'.buf = s
        BY <1>1, <2>1, <3>4 DEF Fields
      <4>2. Held(drive, mnt')
        BY <1>1, <1>3, <2>1, <2>2, <2>5, <3>4, <4>1, HeldMbrVbr
      <4> QED BY <1>6, <3>4, <4>2
    <3> QED BY <3>1, <3>2, <3>3, <3>4
  <2> QED BY <2>3, <2>4, <2>5
<1>g. CASE MountReturns
  <2>1. mnt'.pc = "mounted"
    BY <1>g DEF MountReturns, Unmounted
  <2> QED BY <2>1 DEF MountInv, Held, OnGpt, OnMbr
<1> QED BY <1>a, <1>b, <1>c, <1>d, <1>e, <1>f, <1>g DEF MountStep

LEMMA MountInvNext ==
  ASSUME MountAssumption, NoStrayEntries, MountShape, MountInv, [Next]_vars
  PROVE  MountInv'
<1>1. CASE UNCHANGED mountVars
  BY <1>1 DEF MountInv, mountVars
<1>2. CASE MountStep
  BY <1>2, MountStepHeld
<1>3. CASE MountAgain
  <2>1. mnt'.pc = "start" /\ drive' = drive /\ mnt.pc = "failed"
    BY <1>3 DEF MountAgain, Unmounted
  <2> QED BY <2>1 DEF MountInv, Held, OnGpt, OnMbr
<1>4. UNCHANGED vars => UNCHANGED mountVars
  BY DEF vars, mountVars
<1> QED BY <1>1, <1>2, <1>3, <1>4 DEF Next

\* fat32_mount takes only a volume the drive's own tables name for a volume, with the type its
\* boot sector says and never the EFI System Partition; and it fails only on a drive without a
\* volume or for a transfer that failed, or behind a FAT partition without a file system: for
\* any drive whose boot sectors do not look like partition tables, whatever transfers fail.
THEOREM MountFindsVolume ==
  ASSUME MountAssumption, NoStrayEntries
  PROVE  SafeSpec => []MountRight
<1>1. Init => MountShape /\ MountInv
  <2> SUFFICES ASSUME Init PROVE MountShape /\ MountInv
    OBVIOUS
  <2>1. MountInit
    BY DEF Init
  <2>2. MountShape
    BY <2>1, MountShapeInit
  <2>3. mnt.pc = "start" /\ drive \in Drives
    BY <2>1 DEF MountInit, Unmounted
  <2>4. MountInv
    BY <2>3 DEF MountInv, Held, OnGpt, OnMbr
  <2> QED BY <2>2, <2>4
<1>2. MountShape /\ MountInv /\ [Next]_vars => (MountShape /\ MountInv)'
  BY MountShapeNext, MountInvNext
<1>3. MountInv => MountRight
  BY DEF MountInv, Held, MountRight, RightVolume, VolumeFound, FoundRight, FailedRight
<1> QED BY <1>1, <1>2, <1>3, PTL DEF SafeSpec
=============================================================================
