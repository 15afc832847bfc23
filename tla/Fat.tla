-------------------------------- MODULE Fat --------------------------------
(***************************************************************************)
(* The files memtest86+ keeps on a USB drive (system/fat32.c, the callers  *)
(* save_results_to_usb, save_app_config, delete_app_config and             *)
(* initial_config).  A step is one sector written, so that the drive can   *)
(* be pulled, or a transfer fail, between any two of them.                 *)
(*                                                                         *)
(* The volume has copies of the allocation table, of which only the first  *)
(* is read, and a root directory of slots.  The bytes of a file are        *)
(* abstracted to who wrote them: the content of a file is a name and a     *)
(* version, its size a number of clusters.                                 *)
(***************************************************************************)
EXTENDS FatMount

CONSTANTS
  MaxCluster,   \* max_cluster: one above the highest cluster
  Copies,       \* num_fats
  Slots,        \* entries of the root directory
  SlotsPerSector,
  MaxReport,    \* 99 in the code
  ReportSize,   \* in clusters
  Settings,     \* values of what CONFIG.BIN holds
  Default,      \* what config_init sets
  Foreign,      \* the clusters of a file that was there before
  MaxPulls      \* bound on how often the drive is pulled

ASSUME FatAssumption ==
  /\ MaxCluster \in Nat /\ Copies \in Nat \ {0} /\ Slots \in Nat \ {0}
  /\ SlotsPerSector \in Nat \ {0}
  /\ MaxReport \in Nat /\ ReportSize \in Nat \ {0}
  /\ Default \in Settings /\ Foreign \in Seq(2 .. (MaxCluster - 1)) /\ Foreign # << >>
  /\ \A i, j \in DOMAIN Foreign : Foreign[i] = Foreign[j] => i = j
  /\ MaxFaults \in Nat /\ MaxPulls \in Nat

Fat32 == mnt.type = 32    \* the root directory is a chain of clusters, one sector each

Cluster == 2 .. (MaxCluster - 1)
FAT_FREE == 0
EOC == MaxCluster    \* every value is_valid_cluster refuses

Config == MaxReport + 1
Report == 1 .. MaxReport

VARIABLES
  fat,       \* fat[copy][cluster]
  data,      \* who wrote the cluster
  dir,       \* the directory
  settings,  \* max_pass_num, test_list[].enabled and the others
  op,        \* the operation in progress
  pulls,     \* how often the drive was pulled
  saved      \* history: the settings of the last save that went through

vars == <<fat, data, dir, settings, op, faults, pulls, saved, mountVars>>
diskVars == <<fat, data, dir>>

NoEntry == [state |-> "end", name |-> Config, first |-> 0, size |-> 0, version |-> Default]
Nobody == [name |-> 0, version |-> Default, part |-> 0]

Idle == [pc |-> "idle", kind |-> "none", name |-> Config, size |-> 0, version |-> Default,
         first |-> 0, prev |-> 0, cluster |-> 0, count |-> 0, freed |-> 0, slot |-> 0,
         todo |-> << >>, ok |-> "idle", fail |-> "idle", clean |-> TRUE]

ForeignEntry ==
  [state |-> "file", name |-> 0, first |-> Foreign[1], size |-> Len(Foreign), version |-> Default]

Init ==
  /\ fat = [k \in 1 .. Copies |-> [c \in Cluster |->
       IF \E i \in DOMAIN Foreign : Foreign[i] = c
         THEN LET i == CHOOSE j \in DOMAIN Foreign : Foreign[j] = c
              IN IF i = Len(Foreign) THEN EOC ELSE Foreign[i + 1]
         ELSE FAT_FREE]]
  /\ data = [c \in Cluster |->
       IF \E i \in DOMAIN Foreign : Foreign[i] = c
         THEN [name |-> 0, version |-> Default, part |-> CHOOSE j \in DOMAIN Foreign : Foreign[j] = c]
         ELSE Nobody]
  /\ dir = [s \in 1 .. Slots |-> IF s = 1 THEN ForeignEntry ELSE NoEntry]
  /\ settings = Default
  /\ op = Idle
  /\ faults = 0 /\ pulls = 0
  /\ saved = Default
  /\ MountInit

-----------------------------------------------------------------------------
(* Sectors.  A transfer that fails has no effect on the disk. *)

\* fat_write_entry: the entry of a cluster in every copy of the table.
FatWriteEntry(c, v) ==
  [k \in 1 .. Copies |-> [kind |-> "fat", copy |-> k, cluster |-> c, value |-> v]]

WriteSector(w) ==
  /\ fat' = IF w.kind = "fat" THEN [fat EXCEPT ![w.copy][w.cluster] = w.value] ELSE fat
  /\ data' = IF w.kind = "data" THEN [data EXCEPT ![w.cluster] = w.value] ELSE data
  /\ dir' = IF w.kind = "dir" THEN [dir EXCEPT ![w.slot] = w.value] ELSE dir

Write ==
  /\ op.pc = "write"
  /\ IF op.todo = << >>
       THEN op' = [op EXCEPT !.pc = op.ok] /\ UNCHANGED <<diskVars, faults>>
       ELSE \/ /\ WriteSector(Head(op.todo))
               /\ op' = [op EXCEPT !.todo = Tail(@)]
               /\ UNCHANGED faults
            \/ /\ Fault(1)
               /\ op' = [op EXCEPT !.pc = op.fail, !.todo = << >>, !.clean = FALSE]
               /\ UNCHANGED diskVars
  /\ UNCHANGED <<settings, pulls, saved>>

\* The step to the writes: todo, then pc ok.
Begin(o, todo, ok, fail) == [o EXCEPT !.pc = "write", !.todo = todo, !.ok = ok, !.fail = fail]

\* fat_read_entry: a read that fails looks like the end of the chain.
FatReadEntry(c, v) ==
  \/ v = fat[1][c] /\ UNCHANGED faults
  \/ v = EOC /\ Fault(1)

-----------------------------------------------------------------------------
(* The directory *)

\* The slots in front of the first one that was never used.
UsedSlots == {s \in 1 .. Slots : \A t \in 1 .. s : dir[t].state # "end"}

Least(S) == CHOOSE s \in S : \A t \in S : s <= t

SectorOf(s) == (s - 1) \div SlotsPerSector

\* find_file_dir_entry: the first slot with the name, or 0.
FindFile(name) ==
  LET found == {s \in UsedSlots : dir[s].state = "file" /\ dir[s].name = name}
  IN IF found = {} THEN 0 ELSE Least(found)

\* find_free_dir_entry: a slot never used or deleted, or 0.
FindFree ==
  LET free == {s \in 1 .. Slots : dir[s].state # "file"}
  IN IF free = {} THEN 0 ELSE Least(free)

-----------------------------------------------------------------------------
(* The callers *)

Start(kind, name, size, version, pc) ==
  op' = [Idle EXCEPT !.kind = kind, !.name = name, !.size = size,
                     !.version = version, !.pc = pc]

\* save_app_config: "Overwrite: delete first, then write"
SaveConfig ==
  /\ op.pc = "idle"
  /\ Start("config", Config, 1, settings, "find")
  /\ UNCHANGED <<diskVars, settings, faults, pulls, saved>>

\* delete_app_config
DeleteConfig ==
  /\ op.pc = "idle"
  /\ Start("restore", Config, 0, Default, "find")
  /\ UNCHANGED <<diskVars, settings, faults, pulls, saved>>

\* save_results_to_usb, fat32_next_filename: the first number no report has.  On
\* FAT32 a sector that cannot be read is passed over; a link of the directory's
\* chain that cannot be read, or a sector of a fixed directory, ends the search.
SaveReport ==
  /\ op.pc = "idle"
  /\ \E lost \in SUBSET {SectorOf(s) : s \in UsedSlots}, ends \in {~Fat32, TRUE} :
       LET seen == {s \in UsedSlots :
                      IF ends THEN \A k \in 0 .. SectorOf(s) : k \notin lost
                              ELSE SectorOf(s) \notin lost}
           taken == {dir[s].name : s \in {t \in seen : dir[t].state = "file"}}
           free == Report \ taken
       IN /\ free # {}
          /\ Fault(Cardinality(lost))
          /\ Start("report", Least(free), ReportSize, settings, "alloc")
  /\ UNCHANGED <<diskVars, settings, pulls, saved>>

ChangeSettings ==
  /\ op.pc = "idle"
  /\ settings' \in Settings \ {settings}
  /\ UNCHANGED <<diskVars, op, faults, pulls, saved>>

\* fat32_read_file: what the first cluster of CONFIG.BIN holds; data that does
\* not begin with APP_CONFIG_MAGIC is not taken.
ReadConfig ==
  LET s == FindFile(Config)
  IN IF s # 0 /\ data[dir[s].first].name = Config THEN data[dir[s].first].version ELSE Default

\* Start of the program: config_init, then initial_config with the drive.
Restart ==
  /\ op.pc \in {"idle", "reboot"}
  /\ \/ settings' = ReadConfig /\ UNCHANGED faults
     \/ settings' = Default /\ Fault(1)
  /\ op' = Idle
  /\ UNCHANGED <<diskVars, pulls, saved>>

\* The drive is pulled; it is found again later.
Pull ==
  /\ op.pc # "idle" /\ pulls < MaxPulls
  /\ pulls' = pulls + 1
  /\ op' = Idle
  /\ UNCHANGED <<diskVars, settings, faults, saved>>

-----------------------------------------------------------------------------
(* fat32_delete_file *)

AfterDelete == IF op.kind = "config" THEN "alloc" ELSE "reboot"

Unlinked(o, s) ==
  Begin([o EXCEPT !.cluster = dir[s].first, !.freed = 0],
        <<[kind |-> "dir", slot |-> s, value |-> [dir[s] EXCEPT !.state = "deleted"]]>>,
        "free", AfterDelete)

Find ==
  LET s == FindFile(op.name)
  IN /\ op.pc = "find"
     /\ \/ /\ op' = IF s = 0 THEN [op EXCEPT !.pc = AfterDelete] ELSE Unlinked(op, s)
           /\ UNCHANGED faults
        \/ /\ Fault(1)
           /\ op' = [op EXCEPT !.pc = AfterDelete, !.clean = FALSE]
     /\ UNCHANGED <<diskVars, settings, pulls, saved>>

\* The chain goes on; the count bounds the walk on a table with a cycle.
MoreToFree(o) == o.cluster \in Cluster /\ o.freed < MaxCluster

\* fat_free_chain: ends at the first cluster that is not valid, or when a write
\* fails.  It ends a deletion, or a file that could not be written.
AfterFree == IF op.first # 0 THEN "failed" ELSE AfterDelete

Free ==
  /\ op.pc = "free"
  /\ IF MoreToFree(op)
       THEN \E next \in {fat[1][op.cluster], EOC} :
              /\ FatReadEntry(op.cluster, next)
              /\ op' = Begin([op EXCEPT !.cluster = next, !.freed = @ + 1],
                             FatWriteEntry(op.cluster, FAT_FREE), "free", AfterFree)
       ELSE op' = [op EXCEPT !.pc = AfterFree] /\ UNCHANGED faults
  /\ UNCHANGED <<diskVars, settings, pulls, saved>>

-----------------------------------------------------------------------------
(* fat32_write_file *)

ToFailRetries(o) == [o EXCEPT !.pc = "alloc", !.clean = FALSE]

\* Release what was chained so far.
ToFail(o) ==
  [o EXCEPT !.pc = IF o.first # 0 THEN "free" ELSE "failed",
            !.cluster = o.first, !.freed = 0, !.clean = FALSE]

\* fat_alloc_cluster: the first free entry, or a later one if reads fail.
Alloc ==
  LET free == {c \in Cluster : fat[1][c] = FAT_FREE}
  IN /\ op.pc = "alloc"
     /\ \/ \E c \in free :
             /\ Fault(Cardinality({d \in free : d < c}))
             /\ op' = Begin([op EXCEPT !.cluster = c], FatWriteEntry(c, EOC), "chain", "fail")
        \/ /\ Fault(Cardinality(free))
           /\ op' = ToFail(op)
     /\ UNCHANGED <<diskVars, settings, pulls, saved>>

\* The cluster is appended to the chain, after the first is known.
Chain ==
  LET o == [op EXCEPT !.first = IF @ = 0 THEN op.cluster ELSE @,
                      !.prev = op.cluster, !.count = @ + 1]
      next == IF o.count < op.size THEN "alloc" ELSE "data"
  IN /\ op.pc = "chain"
     /\ op' = Begin(o, IF op.prev = 0 THEN << >> ELSE FatWriteEntry(op.prev, op.cluster),
                    next, "fail")
     /\ UNCHANGED <<diskVars, settings, faults, pulls, saved>>

Fail ==
  /\ op.pc = "fail"
  /\ op' = ToFail(op)
  /\ UNCHANGED <<diskVars, settings, faults, pulls, saved>>

\* The data goes to the clusters in the order of the chain, read back.
Data ==
  /\ op.pc = "data"
  /\ op' = Begin([op EXCEPT !.cluster = op.first, !.count = 0], << >>, "part", "fail")
  /\ UNCHANGED <<diskVars, settings, faults, pulls, saved>>

Part ==
  /\ op.pc = "part"
  /\ op' = Begin([op EXCEPT !.count = @ + 1],
                 <<[kind |-> "data", cluster |-> op.cluster,
                    value |-> [name |-> op.name, version |-> op.version,
                               part |-> op.count + 1]]>>, "next", "fail")
  /\ UNCHANGED <<diskVars, settings, faults, pulls, saved>>

ShortIsFine(o, next) == IF o.count < o.size /\ next \in Cluster THEN "part" ELSE "entry"

\* A chain that ends before the data does is a failure.
AfterPart(o, next) ==
  IF o.count = o.size THEN "entry" ELSE IF next \in Cluster THEN "part" ELSE "fail"

NextPart ==
  /\ op.pc = "next"
  /\ \E next \in {fat[1][op.cluster], EOC} :
       /\ FatReadEntry(op.cluster, next)
       /\ op' = [op EXCEPT !.cluster = next, !.pc = AfterPart(op, next)]
  /\ UNCHANGED <<diskVars, settings, pulls, saved>>

\* The directory entry comes last.
EntryStep ==
  LET s == FindFree
  IN /\ op.pc = "entry"
     /\ \/ /\ s # 0
           /\ op' = Begin([op EXCEPT !.slot = s],
                <<[kind |-> "dir", slot |-> s,
                   value |-> [state |-> "file", name |-> op.name, first |-> op.first,
                              size |-> op.size, version |-> op.version]]>>, "done", "fail")
           /\ UNCHANGED faults
        \/ /\ Fault(IF s = 0 THEN 0 ELSE 1)
           /\ op' = ToFail(op)
     /\ UNCHANGED <<diskVars, settings, pulls, saved>>

\* fat32_write_file returns.
Done ==
  /\ op.pc = "done"
  /\ op' = Idle
  /\ saved' = IF op.kind = "config" /\ op.clean THEN op.version ELSE saved
  /\ UNCHANGED <<diskVars, settings, faults, pulls>>

Failed ==
  /\ op.pc = "failed"
  /\ op' = Idle
  /\ UNCHANGED <<diskVars, settings, faults, pulls, saved>>

-----------------------------------------------------------------------------

Operation ==
  Write \/ Find \/ Free \/ Alloc \/ Chain \/ Fail \/ Data \/ Part \/ NextPart
        \/ EntryStep \/ Done \/ Failed

\* The drive is mounted before each operation; what the operations change does not matter
\* to the mount, so once is enough.
Next ==
  \/ /\ mnt.pc = "mounted" /\ UNCHANGED mountVars
     /\ \/ SaveConfig \/ DeleteConfig \/ SaveReport \/ ChangeSettings \/ Restart \/ Pull
        \/ Operation
  \/ /\ MountStep \/ MountAgain
     /\ UNCHANGED <<diskVars, settings, op, pulls, saved>>

\* An operation in progress goes on: the program is in a loop of its own.
SafeSpec == Init /\ [][Next]_vars

Spec ==
  /\ SafeSpec
  /\ WF_vars(Operation /\ UNCHANGED mountVars)
  /\ WF_vars(MountStep /\ UNCHANGED <<diskVars, settings, op, pulls, saved>>)

-----------------------------------------------------------------------------
(* Properties *)

FatValue == {FAT_FREE, EOC} \cup Cluster

\* The types of the variables.
TypeOK ==
  /\ fat \in [1 .. Copies -> [Cluster -> FatValue]]
  /\ DOMAIN data = Cluster
  /\ \A s \in 1 .. Slots : /\ dir[s].state \in {"end", "file", "deleted"}
                           /\ dir[s].first \in {0} \cup Cluster
  /\ settings \in Settings /\ saved \in Settings
  /\ op.pc \in {"idle", "write", "find", "free", "alloc", "chain", "fail", "data", "part",
                "next", "entry", "done", "failed", "reboot"}
  /\ op.count \in 0 .. MaxCluster /\ op.freed \in 0 .. MaxCluster
  /\ mnt.type \in {0, 16, 32} /\ mnt.i \in Nat
  /\ faults \in 0 .. MaxFaults /\ pulls \in 0 .. MaxPulls

Files == {s \in 1 .. Slots : dir[s].state = "file"}

\* The first n clusters of a chain in the table, as far as it goes.
ChainIn(table, c, n) ==
  LET at[k \in 1 .. n] == IF k = 1 THEN c
                          ELSE IF at[k - 1] \in Cluster THEN table[at[k - 1]] ELSE EOC
  IN at

ChainFrom(c, n) == ChainIn(fat[1], c, n)

Clusters(s) == LET ch == ChainFrom(dir[s].first, dir[s].size) IN {ch[k] : k \in DOMAIN ch}

\* Whatever transfer fails and whenever the drive is pulled, a file that is in
\* the directory is whole: its chain has the length of the file and ends there,
\* and every cluster holds that file's own data (fat32_write_file writes the
\* entry last, fat32_delete_file removes it first; the file that was there
\* before is included).
FilesWhole ==
  \A s \in Files :
    LET ch == ChainFrom(dir[s].first, dir[s].size)
    IN /\ \A k \in 1 .. dir[s].size :
            /\ ch[k] \in Cluster
            /\ data[ch[k]] = [name |-> dir[s].name, version |-> dir[s].version, part |-> k]
       /\ fat[1][ch[dir[s].size]] = EOC

\* No cluster belongs to two files.
NoCrossLink ==
  \A s, t \in Files : s # t => Clusters(s) \cap Clusters(t) = {}

\* Without a failed transfer the drive stays consistent: between operations the
\* clusters in use are those of the files in the directory, both copies of the
\* table agree, and no two files have one name ("Release any clusters allocated
\* for this file so they aren't leaked").
NothingLeaked ==
  op.pc = "idle" /\ faults = 0 /\ pulls = 0 =>
    /\ {c \in Cluster : fat[1][c] # FAT_FREE} = UNION {Clusters(s) : s \in Files}
    /\ \A k \in 1 .. Copies : fat[k] = fat[1]
    /\ \A s, t \in Files : dir[s].name = dir[t].name => s = t

\* The settings survive: if every save so far went through, the next start finds
\* the ones that were saved last (save_app_config, initial_config).
SettingsKept ==
  op.pc = "idle" /\ faults = 0 /\ pulls = 0 /\ FindFile(Config) # 0 =>
    dir[FindFile(Config)].version = saved

\* Every operation ends, also on a drive that fails (the loops over chains are
\* bounded by the number of clusters), and so does the mount.
OperationsEnd == []<>(op.pc \in {"idle", "reboot"} /\ mnt.pc \in {"failed", "mounted"})

\* Files in the directory are whole and no two share a cluster, whichever transfer fails and
\* whenever the drive is pulled; without a failure nothing is leaked and the settings come back
\* (fat32_write_file, fat32_delete_file).
FilesIntact == TypeOK /\ FilesWhole /\ NoCrossLink /\ NothingLeaked /\ SettingsKept

=============================================================================
