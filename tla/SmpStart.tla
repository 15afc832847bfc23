------------------------------ MODULE SmpStart ------------------------------
(***************************************************************************)
(* The start of the application processors: smp_init reads the tables, the *)
(* boot processor wakes one core after the other with INIT and two STARTUP *)
(* messages (start_cpu), waits until every core has reported (smp_start)   *)
(* or gives up, and lets the cores into the main loop (main).              *)
(*                                                                         *)
(* A core is named by its APIC id; a CPU number is a slot of the table.    *)
(* A core may be dead: it accepts messages and never runs.                 *)
(***************************************************************************)
EXTENDS Config

CONSTANT Cores      \* APIC ids of the cores of the machine

ASSUME SetupAssumption ==
  \A s \in Setups : s.machine \in MachineType /\ s.machine.bsp \in Cores

VARIABLES
  dead,         \* cores that will never answer
  efficient,    \* E-cores
  chunk_index,
  num_enabled_cpus,
  init_state,
  pc,           \* the boot processor
  target,       \* the CPU number it is starting
  core          \* what each core is doing

vars == <<machine, session, configVars, dead, efficient, cpus, nodes, cpu_state, chunk_index,
          num_enabled_cpus, init_state, pc, target, core>>

startVars == <<dead, efficient, chunk_index, num_enabled_cpus, init_state, target, core>>
machineVars == <<machine, session, configVars, dead, efficient>>
tableVars == <<cpus, nodes, chunk_index, num_enabled_cpus>>

Init ==
  /\ Start
  /\ dead = {} /\ efficient = {}
  /\ chunk_index = [i \in CpuNum |-> 0]
  /\ num_enabled_cpus = 0
  /\ init_state = 0
  /\ pc = "config"
  /\ target = 0
  /\ core = [c \in Cores |-> IF c = machine.bsp THEN "boot" ELSE "waiting"]

-----------------------------------------------------------------------------
(* global_init: the settings, the CPUs the user has selected, their shares *)

\* The user in initial_config.
Configure ==
  /\ pc = "config"
  /\ ConfigNext
  /\ pc' = CASE menu' = "left" -> "select" [] menu' = "reboot" -> "reboot" [] OTHER -> pc
  /\ UNCHANGED startVars

\* Without a pause there is nothing to configure.
NoPause ==
  /\ pc = "config" /\ menu = "left"
  /\ pc' = "select"
  /\ UNCHANGED <<machine, session, configVars, cpus, nodes, cpu_state, startVars>>

\* enable_numa is ignored when no domain was found.
Numa == "numa" \in config.on /\ nodes.domains # << >>

BeforeInDomain(i, enabled) == {j \in enabled : j < i /\ nodes.of[j] = nodes.of[i]}

\* CPUs that get their share before CPU i: of its domain, or all of them.
Before(i, enabled) ==
  {j \in enabled : j < i /\ (Numa => nodes.of[j] = nodes.of[i])}

\* Without smp_enabled there is only the boot processor.
Select ==
  LET num == IF "smp" \in config.on THEN cpus.num ELSE 1
      enabled == {i \in CpuNum : i < num /\ cpu_state[i] = "enabled"}
  IN /\ pc = "select"
     /\ cpus' = [cpus EXCEPT !.num = num]
     /\ num_enabled_cpus' = Cardinality(enabled)
     /\ chunk_index' = [i \in CpuNum |-> Cardinality(Before(i, enabled))]
     /\ menu' = "done"
     /\ pc' = "smp_start"
     /\ UNCHANGED <<machine, session, config, typed, file, dead, efficient, nodes, cpu_state,
                    init_state, target, core>>

-----------------------------------------------------------------------------
(* smp_start and start_cpu, on the boot processor *)

\* Which cores will answer, and of what type they are, shows only from here on.
SmpStart ==
  /\ pc = "smp_start"
  /\ dead' \in SUBSET (Cores \ {machine.bsp})
  /\ efficient' \in SUBSET (Cores \ {machine.bsp})
  /\ init_state' = 1
  /\ cpu_state' = [cpu_state EXCEPT ![0] = "running"]
  /\ target' = 1
  /\ pc' = "next_cpu"
  /\ UNCHANGED <<machine, session, configVars, tableVars, core>>

NextCpu ==
  /\ pc = "next_cpu"
  /\ IF target >= cpus.num
       THEN pc' = "poll" /\ UNCHANGED target
       ELSE IF cpu_state[target] = "enabled"
         THEN pc' = "init" /\ UNCHANGED target
         ELSE pc' = pc /\ target' = target + 1
  /\ UNCHANGED <<machineVars, tableVars, cpu_state, init_state, core>>

TargetCore == cpus.ids[target]

\* A message goes to a core through the local APIC, if the search of the tables got to it.
Receives(c) == c \in Cores /\ (cpus.apic \/ machine.x2apic)

\* INIT resets the core whatever it does; a message that is never delivered ends
\* the start with a failure.
SendInit ==
  /\ pc = "init"
  /\ \/ /\ pc' = "sipi1"
        /\ core' = IF Receives(TargetCore)
                     THEN [core EXCEPT ![TargetCore] = "reset"] ELSE core
     \/ /\ pc' = "failed"
        /\ UNCHANGED core
  /\ UNCHANGED <<machineVars, tableVars, cpu_state, init_state, target>>

\* STARTUP wakes a core that was reset; the second one finds it running.
SendStartup(from, to) ==
  /\ pc = from
  /\ \/ /\ pc' = to
        /\ core' = IF Receives(TargetCore) /\ core[TargetCore] = "reset"
                     THEN [core EXCEPT ![TargetCore] = "startup"] ELSE core
     \/ /\ pc' = "failed"
        /\ UNCHANGED core
  /\ UNCHANGED <<machineVars, tableVars, cpu_state, init_state, target>>

Started ==
  /\ pc = "started"
  /\ target' = target + 1
  /\ pc' = "next_cpu"
  /\ UNCHANGED <<machineVars, tableVars, cpu_state, init_state, core>>

\* The poll looks for a CPU that is still only enabled.
AllAnswered == \A i \in Available \ {0} : cpu_state[i] # "enabled"

Poll ==
  /\ pc = "poll"
  /\ AllAnswered
  /\ pc' = "main"
  /\ init_state' = 2
  /\ UNCHANGED <<machineVars, tableVars, cpu_state, target, core>>

GiveUpNever == FALSE

\* Ten seconds are over.
GiveUp == ~AllAnswered

PollTimeout ==
  /\ pc = "poll"
  /\ GiveUp
  /\ pc' = "failed"
  /\ UNCHANGED <<machineVars, tableVars, cpu_state, init_state, target, core>>

\* A key is awaited and the machine reboots.
Failed ==
  /\ pc = "failed"
  /\ pc' = "reboot"
  /\ UNCHANGED <<machineVars, tableVars, cpu_state, init_state, target, core>>

-----------------------------------------------------------------------------
(* A core that was woken: the start of main *)

\* smp_my_cpu_num: the first slot with the core's APIC id, or 0.
MyCpuNum(c) ==
  LET slots == {i \in Available : cpus.ids[i] = c}
  IN IF cpus.num <= 1 \/ slots = {} THEN 0
     ELSE CHOOSE i \in slots : \A j \in slots : i <= j

ApStarted(c) ==
  /\ core[c] = "startup"
  /\ c \notin dead
  /\ core' = [core EXCEPT ![c] = "enumerate"]
  /\ cpu_state' = [cpu_state EXCEPT ![MyCpuNum(c)] = "running"]
  /\ UNCHANGED <<machineVars, tableVars, init_state, pc, target>>

\* ap_enumerate: an E-core that is not wanted is marked, and goes on.
ApEnumerate(c) ==
  /\ core[c] = "enumerate"
  /\ core' = [core EXCEPT ![c] = "hold"]
  /\ cpu_state' = IF c \in efficient /\ "exclude" \in config.on
                    THEN [cpu_state EXCEPT ![MyCpuNum(c)] = "disabled"] ELSE cpu_state
  /\ UNCHANGED <<machineVars, tableVars, init_state, pc, target>>

\* The boot processor has seen all cores.
LetIn == init_state = 2

ApRelease(c) ==
  /\ core[c] = "hold"
  /\ LetIn
  /\ core' = [core EXCEPT ![c] = "main"]
  /\ UNCHANGED <<machineVars, tableVars, cpu_state, init_state, pc, target>>

-----------------------------------------------------------------------------

Boot ==
  \/ Configure \/ NoPause \/ Select \/ SmpStart \/ NextCpu
  \/ SendInit \/ SendStartup("sipi1", "sipi2") \/ SendStartup("sipi2", "started")
  \/ Started \/ Poll \/ PollTimeout \/ Failed

Ap(c) == ApStarted(c) \/ ApEnumerate(c) \/ ApRelease(c)

Next == Boot \/ \E c \in Cores : Ap(c)

\* Each core executes its own code; the clock that ends the poll goes on, and the user who
\* has opened a menu closes it.
Fairness == WF_vars(Boot) /\ \A c \in Cores : WF_vars(Ap(c))

SafeSpec == Init /\ [][Next]_vars
Spec == SafeSpec /\ Fairness

-----------------------------------------------------------------------------
(* Properties *)

\* The types of the variables; every table fits its array.
TypeOK ==
  /\ dead \subseteq Cores
  /\ cpus.num \in 1 .. MaxCpus
  /\ cpus.ids \in [CpuNum -> Nat]
  /\ Len(nodes.domains) <= MaxDomains /\ Len(nodes.ranges) <= MaxRanges
  /\ \A i \in CpuNum : nodes.of[i] < MaxDomains
  /\ cpu_state \in [CpuNum -> {"enabled", "disabled", "running"}]
  /\ num_enabled_cpus \in 0 .. MaxCpus
  /\ init_state \in 0 .. 2
  /\ pc \in {"config", "select", "smp_start", "next_cpu", "init", "sipi1", "sipi2",
             "started", "poll", "main", "failed", "reboot"}
  /\ target \in 0 .. MaxCpus
  /\ core \in [Cores -> {"boot", "waiting", "reset", "startup", "enumerate", "hold", "main"}]

\* The MP tables that are used are right.  The code takes their word for it.
MpTablesRight == \A s \in Setups : MpTableRight(s.machine)

\* No core has two CPU numbers, although the firmware may list it twice
\* (apic_id_already_listed, verify_bsp_is_cpu0).
OneNumberPerCore ==
  \A i, j \in Available : cpus.ids[i] = cpus.ids[j] => i = j

\* The pointers the firmware means: of ACPI 2 in the EFI tables, or else of ACPI 1, or else
\* those in the memory of the BIOS whose checksums are right.
Pointers(a) ==
  LET efi(guid) == {a.efi[i].rsdp : i \in {j \in DOMAIN a.efi : a.efi[j].guid = guid}}
      found == {r \in {a.ebda[i] : i \in DOMAIN a.ebda} \cup {a.bios[i] : i \in DOMAIN a.bios} :
                  r.sum /\ (r.rev >= 2 => r.xsum)}
  IN IF efi("acpi2") # {} THEN efi("acpi2") ELSE IF efi("acpi1") # {} THEN efi("acpi1") ELSE found

\* Every core that is started without the help of an MP table is one that the firmware means:
\* a pointer it prefers, through a root table and a MADT with right checksums, names it
\* (find_rsdp, find_acpi_table, find_cpus_in_madt).
CoresFromRightTables ==
  machine.fp = "none" =>
    \A i \in Available \ {0} :
      \E r \in Pointers(machine.acpi) : \E root \in {r.rsdt, r.xsdt} :
        /\ root.sum
        /\ \E k \in DOMAIN root.list :
             /\ root.list[k].sig = "APIC" /\ root.list[k].sum
             /\ \E e \in DOMAIN root.list[k].entries :
                  root.list[k].entries[e].id = cpus.ids[i]

\* The boot processor is CPU 0 and is never sent a message that resets it
\* (verify_bsp_is_cpu0: "smp_start() would send INIT-SIPI to the BSP itself").
BootProcessorRuns == core[machine.bsp] = "boot"

Executing == {c \in Cores : core[c] \in {"enumerate", "hold", "main"}}

\* When the boot processor enters the main loop, the cores that will come to the
\* barrier are exactly the ones it counted when it set the barrier up: as many
\* as num_enabled_cpus, each under a number of its own and each with a number
\* the user had left enabled (smp_start, ap_enumerate, barrier_reset in main).
BarrierCountRight ==
  pc = "main" =>
    /\ Cardinality(Executing) + 1 = num_enabled_cpus
    /\ \A c, d \in Executing : MyCpuNum(c) = MyCpuNum(d) => c = d
    /\ \A c \in Executing : MyCpuNum(c) # 0

\* The shares of a parallel test are distinct: two enabled CPUs that share the
\* memory (of a domain, in NUMA mode) have different chunk numbers, and the
\* numbers leave no gap (global_init, smp_alloc_cpu_in_proximity_domain).
SharesDistinct ==
  menu = "done" =>
    \A i \in Available :
      LET peers == {j \in Available : /\ cpu_state[j] # "disabled"
                                      /\ Numa => nodes.of[j] = nodes.of[i]}
      IN cpu_state[i] = "enabled" =>
           /\ \A j \in peers : i # j => chunk_index[i] # chunk_index[j]
           /\ chunk_index[i] < num_enabled_cpus

\* A core that answers late does no harm: no core is in the main loop unless the
\* boot processor has let them in, and after a failure it never does (smp_start,
\* main).
LateCoreHeld ==
  \A c \in Cores : core[c] = "main" => init_state = 2 /\ pc = "main"

\* The start ends: the boot processor reaches the main loop or reports a core
\* that did not start, and once it is in the main loop all cores that executed
\* follow it.
StartEnds ==
  /\ <>(pc \in {"main", "reboot"})
  /\ \A c \in Cores : (pc = "main" /\ c \in Executing) ~> core[c] = "main"

\* Whatever the firmware lists, doubled, damaged or out of order: every core has one number, the
\* boot processor is CPU 0, only cores of good tables are started, and their shares of the memory
\* are distinct (smp_init, global_init).  The cores in the main loop are the ones its barrier
\* counts, and a core that answers after the timeout is not among them (smp_start,
\* ap_enumerate, main).
CpusRight ==
  /\ TypeOK /\ OneNumberPerCore /\ CoresFromRightTables /\ BootProcessorRuns /\ SharesDistinct
  /\ BarrierCountRight /\ LateCoreHeld

=============================================================================
