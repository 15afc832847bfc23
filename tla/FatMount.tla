------------------------------ MODULE FatMount ------------------------------
(***************************************************************************)
(* fat32_mount and parse_fat_bpb (system/fat32.c): the file system on a    *)
(* drive is looked for at sector 0, in the partitions of a GPT, or in the  *)
(* four partitions of an MBR.  A step is one sector read, which may fail.  *)
(*                                                                         *)
(* There is one buffer: a boot sector read into it takes the place of the  *)
(* partition table it was found in.                                        *)
(*                                                                         *)
(* A sector is a record of what can be read in it: the signature at its    *)
(* end, the fields of a BPB, four partition entries, a GPT header, GPT     *)
(* entries by their offset.                                                *)
(***************************************************************************)
EXTENDS Integers, Sequences, FiniteSets

CONSTANTS
  Drives,          \* the drives: functions from addresses to sectors
  BlockSize,       \* of the drive, as msd_init has read it
  DirEntrySize,
  MinFat16,        \* a volume with fewer clusters is FAT12 (4085)
  MinFat32,        \* a volume with fewer clusters is FAT16 (65525)
  MinEntry,        \* the least size of a GPT entry (128)
  EntryPart,       \* what is read of a GPT entry (40)
  MaxFaults        \* bound on the transfers that fail

\* A drive has a sector 0 with room for four partition entries, and a GPT header holds numbers.
ASSUME MountAssumption ==
  /\ BlockSize \in Nat \ {0} /\ EntryPart \in Nat
  /\ \A d \in Drives :
       /\ 0 \in DOMAIN d /\ DOMAIN d \subseteq Nat
       /\ DOMAIN d[0].parts \subseteq 1 .. 4
       /\ \A a \in DOMAIN d :
            d[a].gpt # << >> => {d[a].gpt.lba, d[a].gpt.count, d[a].gpt.size} \subseteq Nat

VARIABLES
  drive,     \* the drive; forgotten when it is mounted
  mnt,       \* fat32_mount, then the volume
  faults     \* transfers that have failed

mountVars == <<drive, mnt>>

Fault(n) ==
  /\ faults + n <= MaxFaults
  /\ faults' = faults + n

NoSector ==
  [sig |-> FALSE, bpb |-> << >>, parts |-> << >>, gpt |-> << >>, entries |-> << >>]

None == -1    \* no sector of GPT entries is in the buffer

Unmounted == [pc |-> "start", buf |-> NoSector, i |-> 0, loaded |-> None, lba |-> 0,
              gpt |-> << >>, type |-> 0, clean |-> TRUE]

NoDrive == << >>

MountInit == drive \in Drives /\ mnt = Unmounted

-----------------------------------------------------------------------------
(* parse_fat_bpb *)

FirstDataSector(b) ==
  b.reserved + b.fats * b.spf + (b.roots * DirEntrySize + BlockSize - 1) \div BlockSize

CountClusters(b) == (b.total - FirstDataSector(b)) \div b.spc

\* FAT32 has its root directory in a chain of clusters, FAT16 in front of the data.
IsFat(s) ==
  /\ s.sig /\ s.bpb # << >>
  /\ s.bpb.bps = BlockSize /\ s.bpb.spc # 0 /\ s.bpb.spf # 0
  /\ s.bpb.total > FirstDataSector(s.bpb)
  /\ CountClusters(s.bpb) >= MinFat16
  /\ (CountClusters(s.bpb) >= MinFat32) = (s.bpb.roots = 0)

FatType(s) == IF CountClusters(s.bpb) < MinFat32 THEN 16 ELSE 32

-----------------------------------------------------------------------------
(* fat32_mount *)

FatTypes == {"fat16_small", "fat16", "fat16_lba", "fat32", "fat32_lba"}

SectorAt(a) == IF a \in DOMAIN drive THEN drive[a] ELSE NoSector

Fails == Fault(1) /\ UNCHANGED drive /\ mnt' = [mnt EXCEPT !.pc = "failed", !.clean = FALSE]

Mounted(s, lba) ==
  /\ mnt' = [mnt EXCEPT !.pc = "found", !.type = FatType(s), !.lba = lba]
  /\ UNCHANGED drive

\* Sector 0 is a boot sector, or it has a partition table.
ReadSector0 ==
  LET s == SectorAt(0)
      gpt == \E i \in DOMAIN s.parts : s.parts[i].type = "gpt"
  IN /\ mnt.pc = "start"
     /\ \/ Fails
        \/ IsFat(s) /\ Mounted(s, 0) /\ UNCHANGED faults
        \/ /\ ~IsFat(s)
           /\ mnt' = [mnt EXCEPT !.buf = s, !.pc = IF ~s.sig THEN "failed" ELSE IF gpt THEN "gpt" ELSE "mbr"]
           /\ UNCHANGED <<drive, faults>>

\* The GPT header is at sector 1.
ReadGptHeader ==
  LET s == SectorAt(1)
      good == s.gpt # << >> /\ s.gpt.size >= MinEntry /\ s.gpt.count # 0
  IN /\ mnt.pc = "gpt"
     /\ \/ Fails
        \/ /\ mnt' = IF good THEN [mnt EXCEPT !.pc = "entry", !.gpt = s.gpt, !.i = 0, !.loaded = None]
                             ELSE [mnt EXCEPT !.pc = "failed"]
           /\ UNCHANGED <<drive, faults>>

EntryOffset(i) == (i * mnt.gpt.size) % BlockSize
EntrySector(i) == mnt.gpt.lba + (i * mnt.gpt.size) \div BlockSize

\* The EFI System Partition is never used.
BasicData(e) == e.guid = "basic" /\ e.lba # 0

\* A GPT entry: its sector is read unless it is the one in the buffer; an entry that
\* does not lie in one sector is passed over.
ReadGptEntry ==
  LET at == EntryOffset(mnt.i)
      sector == EntrySector(mnt.i)
      look(s) ==
        IF at \in DOMAIN s.entries /\ BasicData(s.entries[at])
        THEN [mnt EXCEPT !.buf = s, !.loaded = sector, !.pc = "gpt_vbr", !.lba = s.entries[at].lba]
        ELSE [mnt EXCEPT !.buf = s, !.loaded = sector, !.i = @ + 1]
  IN /\ mnt.pc = "entry"
     /\ \/ /\ mnt.i >= mnt.gpt.count
           /\ mnt' = [mnt EXCEPT !.pc = "failed"] /\ UNCHANGED <<drive, faults>>
        \/ /\ mnt.i < mnt.gpt.count /\ at + EntryPart > BlockSize
           /\ mnt' = [mnt EXCEPT !.i = @ + 1] /\ UNCHANGED <<drive, faults>>
        \/ /\ mnt.i < mnt.gpt.count /\ at + EntryPart <= BlockSize
           /\ \/ mnt' = look(IF mnt.loaded = sector THEN mnt.buf ELSE SectorAt(sector))
                 /\ UNCHANGED <<drive, faults>>
              \/ mnt.loaded # sector /\ Fails

StillLoaded(m) == [m EXCEPT !.pc = "entry", !.i = @ + 1]

\* The entries in the buffer are gone: their sector has to be read again.
NotLoaded(m) == [m EXCEPT !.pc = "entry", !.i = @ + 1, !.loaded = None]

\* The boot sector of the partition; if it cannot be read the next one is tried.
ReadGptVbr ==
  LET s == SectorAt(mnt.lba)
  IN /\ mnt.pc = "gpt_vbr"
     /\ \/ Fault(1) /\ UNCHANGED drive /\ mnt' = [NotLoaded(mnt) EXCEPT !.clean = FALSE]
        \/ IsFat(s) /\ Mounted(s, mnt.lba) /\ UNCHANGED faults
        \/ /\ ~IsFat(s) /\ mnt' = NotLoaded([mnt EXCEPT !.buf = s]) /\ UNCHANGED <<drive, faults>>

\* Sector 0 is read again for the MBR.
ReadMbr ==
  /\ mnt.pc = "mbr"
  /\ \/ Fails
     \/ mnt' = [mnt EXCEPT !.pc = "part", !.buf = SectorAt(0), !.i = 1] /\ UNCHANGED <<drive, faults>>

\* The entry is read from whatever is in the buffer: after a partition that is no FAT16 or
\* FAT32 volume that is this partition's boot sector, or a part of it if it could not be read.
ReadPartition ==
  LET here == mnt.i \in DOMAIN mnt.buf.parts
      e == mnt.buf.parts[mnt.i]
      s == SectorAt(e.lba)
  IN /\ mnt.pc = "part"
     /\ IF mnt.i > 4
        THEN mnt' = [mnt EXCEPT !.pc = "failed"] /\ UNCHANGED <<drive, faults>>
        ELSE IF ~here \/ e.type \notin FatTypes \/ e.lba = 0
        THEN mnt' = [mnt EXCEPT !.i = @ + 1] /\ UNCHANGED <<drive, faults>>
        ELSE \/ /\ Fault(1) /\ UNCHANGED drive
                /\ \E b \in {mnt.buf, s} :
                     mnt' = [mnt EXCEPT !.i = @ + 1, !.buf = b, !.clean = FALSE]
             \/ IsFat(s) /\ Mounted(s, e.lba) /\ UNCHANGED faults
             \/ ~IsFat(s) /\ mnt' = [mnt EXCEPT !.i = @ + 1, !.buf = s] /\ UNCHANGED <<drive, faults>>

\* fat32_mount returns: the volume is used from now on, and what else is on the drive is
\* not looked at again.
MountReturns ==
  /\ mnt.pc = "found"
  /\ mnt' = [Unmounted EXCEPT !.pc = "mounted", !.type = mnt.type]
  /\ drive' = NoDrive /\ UNCHANGED faults

\* The user asks again.
MountAgain == mnt.pc = "failed" /\ mnt' = Unmounted /\ UNCHANGED <<drive, faults>>

MountStep ==
  ReadSector0 \/ ReadGptHeader \/ ReadGptEntry \/ ReadGptVbr \/ ReadMbr \/ ReadPartition \/ MountReturns

-----------------------------------------------------------------------------
(* What is on a drive, read from its tables as they are *)

GptEntries(d) ==
  LET g == d[1].gpt
      at(i) == [sector |-> g.lba + (i * g.size) \div BlockSize, off |-> (i * g.size) % BlockSize]
      there(i) == /\ at(i).off + EntryPart <= BlockSize
                  /\ at(i).sector \in DOMAIN d /\ at(i).off \in DOMAIN d[at(i).sector].entries
  IN {d[at(i).sector].entries[at(i).off] : i \in {j \in 0 .. g.count - 1 : there(j)}}

HasGpt(d) == \E i \in DOMAIN d[0].parts : d[0].parts[i].type = "gpt"

FatParts(d) == {i \in DOMAIN d[0].parts : d[0].parts[i].type \in FatTypes /\ d[0].parts[i].lba # 0}

\* No boot sector of a FAT partition has, where a partition table has its entries, bytes that
\* would pass for a FAT partition: fat32_mount reads the next entry there after a partition
\* that is no FAT16 or FAT32 volume.
NoStrayEntries ==
  \A d \in Drives : \A i \in FatParts(d) :
    LET a == d[0].parts[i].lba IN
    a \in DOMAIN d =>
      \A j \in DOMAIN d[a].parts : d[a].parts[j].type \notin FatTypes \/ d[a].parts[j].lba = 0

\* Where a volume may be: the drive as a whole, a basic data partition, a FAT partition.
Listed(d) ==
  IF IsFat(d[0]) THEN {0}
  ELSE IF ~d[0].sig THEN {}
  ELSE IF HasGpt(d)
    THEN IF 1 \in DOMAIN d /\ d[1].gpt # << >> /\ d[1].gpt.size >= MinEntry
         THEN {e.lba : e \in {f \in GptEntries(d) : f.guid = "basic"}} ELSE {}
  ELSE {d[0].parts[i].lba : i \in FatParts(d)}

Volumes(d) == {a \in Listed(d) \cap DOMAIN d : IsFat(d[a])}

\* The volume that is mounted is one the drive's own tables name, a FAT16 or FAT32 volume of
\* the type its boot sector says, and never the EFI System Partition ("writing to the ESP
\* risks breaking the boot setup"), whatever the buffer held on the way.
RightVolume ==
  mnt.pc = "found" => mnt.lba \in Volumes(drive) /\ mnt.type = FatType(drive[mnt.lba])

\* If every transfer went through, fat32_mount fails only on a drive without a volume; in an
\* MBR only as long as no FAT partition in front of the volume is without a FAT16 or FAT32
\* file system, as the table is lost from the buffer there.
VolumeFound ==
  mnt.pc = "failed" /\ mnt.clean =>
    \/ Volumes(drive) = {}
    \/ /\ ~HasGpt(drive)
       /\ \E i, j \in FatParts(drive) : /\ i < j /\ drive[0].parts[j].lba \in Volumes(drive)
                                        /\ drive[0].parts[i].lba \notin Volumes(drive)

\* fat32_mount finds the volume there is, and never takes another place of the drive for one.
MountRight == VolumeFound /\ RightVolume

=============================================================================
