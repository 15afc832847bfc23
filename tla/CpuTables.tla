----------------------------- MODULE CpuTables -----------------------------
(***************************************************************************)
(* The processors and the NUMA nodes of the machine, as smp_init           *)
(* (system/smp.c) reads them from the firmware's tables: the ACPI MADT, or *)
(* else the MP configuration table, then the ACPI SRAT; and how            *)
(* system/acpi.c finds the ACPI tables.                                    *)
(*                                                                         *)
(* A table is a sequence of entries.  A found table is a record of what    *)
(* the code keeps: the APIC id of each CPU number, and how many there are. *)
(***************************************************************************)
EXTENDS Integers, Sequences, SequencesExt

CONSTANTS
  MaxCpus,      \* MAX_CPUS
  MaxDomains,   \* MAX_PROXIMITY_DOMAINS
  MaxRanges     \* memory_affinity_ranges

ASSUME CpuAssumption ==
  MaxCpus \in Nat \ {0, 1} /\ MaxDomains \in Nat \ {0} /\ MaxRanges \in Nat

CpuNum == 0 .. (MaxCpus - 1)

\* What smp_init starts from; there is always the boot processor.
NoCpus == [ids |-> [i \in CpuNum |-> 0], num |-> 1, found |-> 0, ok |-> TRUE, apic |-> FALSE]

-----------------------------------------------------------------------------
(***************************************************************************)
(* The ACPI tables: the root pointer is taken from the EFI system table,   *)
(* or else searched for in the memory of the BIOS; it leads to the RSDT or *)
(* the XSDT, which lists the tables.                                       *)
(*                                                                         *)
(* A root pointer is [rev, sum, xsum, rsdt, xsdt], a root table [sig, sum, *)
(* list], a table [sig, sum, entries]; sum and xsum tell whether the       *)
(* checksum is right.                                                      *)
(***************************************************************************)
MadtEntries == [type : {"lapic", "x2apic", "addr", "malformed"}, id : Nat, state : STRING]
SratEntries == [type : STRING, domain : Nat, start : Nat, end : Nat, id : Nat, on : BOOLEAN]
AcpiTables ==
  [sig : {"APIC"}, sum : BOOLEAN, entries : Seq(MadtEntries)]
    \cup [sig : {"SRAT"}, sum : BOOLEAN, entries : Seq(SratEntries)]
    \cup [sig : STRING \ {"APIC", "SRAT"}, sum : BOOLEAN, entries : {<< >>}]
RootTables == [sig : STRING, sum : BOOLEAN, list : Seq(AcpiTables)]
Rsdps == [rev : Nat, sum : BOOLEAN, xsum : BOOLEAN, rsdt : RootTables, xsdt : RootTables]

\* What the firmware provides; mp is the MP configuration table, to which fp leads.
MachineType ==
  [acpi : [efi : Seq([guid : STRING, rsdp : Rsdps]), ebda : Seq(Rsdps), bios : Seq(Rsdps)],
   fp : {"none", "default", "table"},
   mp : Seq([type : STRING, id : Nat, boot : BOOLEAN, old : BOOLEAN]),
   x2apic : BOOLEAN, mappable : BOOLEAN, bsp : Nat]

NoTable == [sig |-> "none", sum |-> FALSE, entries |-> << >>]

\* find_rsdp_in_efi64_system_table: the first of ACPI 2, or else the last of ACPI 1.  It is
\* taken as it is.
FindRsdpInEfi(tables) ==
  LET two == SelectInSeq(tables, LAMBDA t : t.guid = "acpi2")
      one == SelectLastInSeq(tables, LAMBDA t : t.guid = "acpi1")
  IN IF two # 0 THEN <<tables[two].rsdp>> ELSE IF one # 0 THEN <<tables[one].rsdp>> ELSE << >>

\* scan_for_rsdp: the first with the right checksums; the second is new in revision 2.
ScanForRsdp(area) ==
  LET good == SelectInSeq(area, LAMBDA r : r.sum /\ (r.rev < 2 \/ r.xsum))
  IN IF good = 0 THEN << >> ELSE <<area[good]>>

\* find_rsdp: the EFI system table, the extended BIOS data area, the BIOS.
FindRsdp(a) ==
  LET efi == FindRsdpInEfi(a.efi)
      ebda == ScanForRsdp(a.ebda)
  IN IF efi # << >> THEN efi ELSE IF ebda # << >> THEN ebda ELSE ScanForRsdp(a.bios)

\* find_acpi_table: the first table with the signature.  From revision 2 on only the XSDT is
\* looked at, also if it is damaged and the RSDT is not.
FindAcpiTable(rsdp, sig) ==
  LET root == IF rsdp.rev >= 2 THEN rsdp.xsdt ELSE rsdp.rsdt
      at == SelectInSeq(root.list, LAMBDA t : t.sig = sig)
  IN IF root.sig # (IF rsdp.rev >= 2 THEN "XSDT" ELSE "RSDT") \/ ~root.sum \/ at = 0 THEN NoTable
     ELSE root.list[at]

\* acpi_init: a table that is not found is NoTable.
AcpiInit(a) ==
  LET rsdp == FindRsdp(a)
  IN IF rsdp = << >> THEN [madt |-> NoTable, srat |-> NoTable]
     ELSE [madt |-> FindAcpiTable(rsdp[1], "APIC"), srat |-> FindAcpiTable(rsdp[1], "SRAT")]

\* The entries of a table; one with a wrong checksum is not used.
Entries(t) == IF t.sum THEN t.entries ELSE << >>

Madt(m) == Entries(AcpiInit(m.acpi).madt)
Srat(m) == Entries(AcpiInit(m.acpi).srat)

-----------------------------------------------------------------------------
(* find_cpus_in_madt *)

\* apic_id_already_listed
AlreadyListed(t, id) == \E i \in CpuNum : i < t.found /\ t.ids[i] = id

\* A local APIC counts when it is enabled or can be, an x2APIC when it is enabled.
Counts(e) ==
  \/ e.type = "lapic" /\ e.state \in {"enabled", "capable"}
  \/ e.type = "x2apic" /\ e.state = "enabled"

Room(t) == t.num < MaxCpus

MadtEntry(t, e) ==
  IF ~t.ok THEN t
  ELSE IF e.type = "malformed" THEN [t EXCEPT !.ok = FALSE]
  ELSE IF Counts(e) /\ ~AlreadyListed(t, e.id)
    THEN [t EXCEPT !.ids = IF Room(t) THEN [@ EXCEPT ![t.found] = e.id] ELSE @,
                   !.num = IF Room(t) /\ t.found > 0 THEN @ + 1 ELSE @,
                   !.found = @ + 1]
  ELSE t

\* What is found after the first k entries of a MADT.
MadtRead(s) ==
  LET at[k \in 0 .. Len(s)] == IF k = 0 THEN NoCpus ELSE MadtEntry(at[k - 1], s[k])
  IN at

\* A bad entry ends the search with what was counted so far; without room to map
\* the local APIC the count starts again.
FindCpusInMadt(m) ==
  LET t == MadtRead(Madt(m))[Len(Madt(m))]
  IN IF Madt(m) = << >> THEN [NoCpus EXCEPT !.ok = FALSE]
     ELSE IF t.ok /\ ~m.x2apic /\ ~m.mappable THEN [t EXCEPT !.num = 1, !.ok = FALSE]
     ELSE [t EXCEPT !.apic = t.ok /\ ~m.x2apic]

-----------------------------------------------------------------------------
(* read_mp_config_table, find_cpus_in_floating_mp_struct *)

MpProcessor(t, e) ==
  IF e.boot THEN [t EXCEPT !.ids[0] = e.id]
  ELSE IF Room(t) THEN [t EXCEPT !.ids[t.num] = e.id, !.num = @ + 1]
  ELSE t

\* An unknown entry, or a processor without an integrated APIC, resets the count.
MpEntry(t, e) ==
  LET next == IF e.type = "cpu" THEN MpProcessor(t, e) ELSE t
  IN IF ~t.ok THEN t
     ELSE IF e.type = "unknown" \/ (e.type = "cpu" /\ e.old)
       THEN [next EXCEPT !.num = 1, !.ok = FALSE]
       ELSE next

\* What is found after the first k entries of an MP table; before is what the search of the
\* MADT has left behind.
MpRead(s, before) ==
  LET at[k \in 0 .. Len(s)] ==
        IF k = 0 THEN [before EXCEPT !.ok = TRUE, !.apic = TRUE] ELSE MpEntry(at[k - 1], s[k])
  IN at

ReadMpConfigTable(m, before) ==
  IF ~m.mappable THEN [before EXCEPT !.ok = FALSE]
  ELSE MpRead(m.mp, before)[Len(m.mp)]

FindCpusInFloatingMpStruct(m, before) ==
  IF m.x2apic \/ m.fp = "none" THEN [before EXCEPT !.ok = FALSE]
  ELSE IF m.fp = "default"
    THEN IF m.mappable
           THEN [before EXCEPT !.ids = [@ EXCEPT ![0] = 0, ![1] = 1], !.num = 2,
                               !.ok = TRUE, !.apic = TRUE]
           ELSE [before EXCEPT !.ok = FALSE]
  ELSE ReadMpConfigTable(m, before)

\* An MP table that is used is right: it lists no processor twice and marks the boot processor, if
\* it lists it, and no other; and no other cores are left from a MADT that was found to be damaged.
MpTableRight(m) ==
  m.fp = "table" /\ ~FindCpusInMadt(m).ok =>
    LET processors == {i \in DOMAIN m.mp : m.mp[i].type = "cpu"}
    IN /\ FindCpusInMadt(m).num = 1
       /\ \A i, j \in processors : m.mp[i].id = m.mp[j].id => i = j
       /\ \A i \in processors : m.mp[i].boot <=> m.mp[i].id = m.bsp

-----------------------------------------------------------------------------

\* verify_bsp_is_cpu0: the boot processor changes places with CPU 0.
VerifyBspIsCpu0(t, bsp) ==
  LET at == {i \in 1 .. (t.num - 1) : t.ids[i] = bsp}
      first == CHOOSE i \in at : \A j \in at : i <= j
  IN IF t.ids[0] = bsp THEN t
     ELSE IF at = {} THEN [t EXCEPT !.ids[0] = bsp]
     ELSE [t EXCEPT !.ids = [@ EXCEPT ![first] = t.ids[0], ![0] = bsp]]

\* The processors smp_init finds.
FindCpus(m, smp) ==
  LET madt == FindCpusInMadt(m)
      t == IF madt.ok THEN madt ELSE FindCpusInFloatingMpStruct(m, madt)
  IN IF ~smp THEN NoCpus
     ELSE IF t.apic \/ m.x2apic THEN VerifyBspIsCpu0(t, m.bsp) ELSE t

-----------------------------------------------------------------------------
(* find_numa_nodes_in_srat: two passes, memory first.  An error leaves what *)
(* was read before it.                                                      *)

NoNodes ==
  [domains |-> << >>, ranges |-> << >>, of |-> [i \in CpuNum |-> 0], ok |-> TRUE]

\* proximity_domains is searched, and extended by a domain that is new.
WithDomain(domains, d) ==
  IF d \in {domains[i] : i \in DOMAIN domains} THEN domains ELSE Append(domains, d)

IndexOf(domains, d) == (CHOOSE i \in DOMAIN domains : domains[i] = d) - 1

RangesLeft(n) == Len(n.ranges) < MaxRanges

MemoryAffinity(n, e) ==
  LET domains == WithDomain(n.domains, e.domain)
  IN IF ~n.ok \/ (e.type \in {"memory", "apic"} /\ ~e.on) THEN n
     ELSE IF e.type = "apic" THEN n
     ELSE IF e.type # "memory" \/ e.start > e.end \/ Len(domains) > MaxDomains
       THEN [n EXCEPT !.ok = FALSE]
     ELSE IF ~RangesLeft(n)
       THEN [n EXCEPT !.ok = FALSE, !.domains = domains]
     ELSE [n EXCEPT !.domains = domains,
             !.ranges = Append(@, [start |-> e.start, end |-> e.end,
                                   domain |-> IndexOf(domains, e.domain)])]

ProcessorAffinity(t, n, e) ==
  LET cpus == {i \in CpuNum : i < t.num /\ t.ids[i] = e.id}
  IN IF ~n.ok \/ e.type # "apic" \/ ~e.on THEN n
     ELSE IF cpus = {} \/ e.domain \notin {n.domains[i] : i \in DOMAIN n.domains}
       THEN [n EXCEPT !.ok = FALSE]
     ELSE [n EXCEPT !.of = [@ EXCEPT ![CHOOSE i \in cpus : \A j \in cpus : i <= j] =
                                        IndexOf(n.domains, e.domain)]]

\* The two passes, after k entries.
MemoryRead(s) ==
  LET at[k \in 0 .. Len(s)] == IF k = 0 THEN NoNodes ELSE MemoryAffinity(at[k - 1], s[k])
  IN at

ProcessorRead(t, s) ==
  LET at[k \in 0 .. Len(s)] ==
        IF k = 0 THEN MemoryRead(s)[Len(s)] ELSE ProcessorAffinity(t, at[k - 1], s[k])
  IN at

FindNumaNodes(m, t, smp) ==
  IF ~smp \/ Srat(m) = << >> THEN NoNodes ELSE ProcessorRead(t, Srat(m))[Len(Srat(m))]
=============================================================================
