------------------------------- MODULE Startup -------------------------------
(***************************************************************************)
(* The program moves itself while it tests: run_at (app/main.c) copies it  *)
(* to its other load address and every core jumps to the entry point of    *)
(* the copy (startup in boot/x86/startup64.S and startup32.S), which runs  *)
(* under startup_mutex, relocates the pointers of the image (reloc in      *)
(* system/reloc64.c and reloc32.c) and calls main again.  The same entry   *)
(* is used at boot, by relocate_to before the other cores are started, and *)
(* by those cores when they are.                                           *)
(*                                                                         *)
(* Everything the program remembers is in the image and is copied with it, *)
(* the waiting flags of the barriers too (they are at the end of the       *)
(* stacks); only the count of start_barrier is elsewhere, on the heap.     *)
(* A copy that is not in use is overwritten by the tests.                  *)
(***************************************************************************)
EXTENDS Integers, FiniteSets

CONSTANTS
  Num,          \* number of enabled cores; core 0 is the boot processor
  Leader,       \* master_cpu
  Low, High,    \* low_load_addr, high_load_addr
  BootAddrs,    \* where the boot loader may have put the program
  Unusable,     \* those of them from where it reaches beyond usable memory
  Size,         \* program_size
  Pointers,     \* the words of the image that have a dynamic relocation
  Movable,      \* those that the program assigns to later
  Addend,       \* the link-time address each of them is initialised with
  TableOffset,  \* the link-time address of the relocation table
  Rela,         \* whether addends are in the table (64 bit) or in place (32 bit)
  MaxMoves      \* bound: windows chosen

Procs == 0 .. Num - 1
LoadAddrs == {Low, High} \cup BootAddrs

Overlap(a, b) == a < b + Size /\ b < a + Size

ASSUME ProcAssumption == Num \in Nat \ {0} /\ Leader \in Procs
ASSUME AddrAssumption == /\ LoadAddrs \subseteq Nat \ {0} /\ Low # High
                         /\ Unusable \subseteq BootAddrs \ {Low, High}
                         /\ Size \in Nat /\ TableOffset \in Nat
                         /\ Movable \subseteq Pointers /\ Addend \in [Pointers -> Nat]
                         /\ Rela \in BOOLEAN /\ MaxMoves \in Nat

VARIABLES
  copy,         \* what the memory at each load address holds of the program
  flags,        \* the waiting flags of start_barrier in each copy
  count,        \* start_barrier->count
  place,        \* where each core is
  stage,        \* how far it is with the wait there
  img,          \* the copy it executes
  tables,       \* the copy its page tables are in (CR3)
  offs,         \* load_offs
  todo,         \* relocations it has still to do
  next,         \* CPU number whose locals are copied next
  meant,        \* (history) the link-time address each pointer stands for
  chosen        \* (history) the value last given to window_num
                \*           and how often

startupVars == <<copy, flags, count, place, stage, img, tables, offs, todo, next, meant, chosen>>

\* place: "off"     not started           "loader"  at the boot entry point
\*        "entry"   wants startup_mutex   "stack"   on the startup stack
\*        "reloc", "fix"  in reloc        "unlock"  behind it
\*        "init"    (core 0) global_init and smp_start
\*        "copy", "locals"  (core 0) in run_at
\*        "top", "go", "jump"  a wait on start_barrier: at the top of main's loop,
\*                  before the window is set up, and in run_at
Waits == {"top", "go", "jump"}
InStartup == {"stack", "reloc", "fix", "unlock"}
InMain == {"init", "copy", "locals"} \cup Waits
Places == {"off", "loader", "entry"} \cup InStartup \cup InMain

\* What the boot loader has put into memory, nothing of it relocated and the BSS
\* not zeroed.
Loaded(a) ==
  [intact |-> TRUE, startup_mutex |-> FALSE, first_boot |-> TRUE, last_load_addr |-> a,
   table |-> TableOffset, slot |-> [p \in Pointers |-> IF Rela THEN 0 ELSE Addend[p]],
   boot_params |-> FALSE, init_complete |-> TRUE, init_state |-> 2, window_num |-> 1]

\* Memory that has been tested, or never held the program: the worst it can hold.
Junk(a) == [Loaded(a) EXCEPT !.intact = FALSE, !.startup_mutex = TRUE, !.table = 0]

StartupInit ==
  /\ \E a \in BootAddrs :
       /\ copy = [b \in LoadAddrs |-> IF b = a THEN Loaded(b) ELSE Junk(b)]
       /\ img = [c \in Procs |-> a] /\ tables = [c \in Procs |-> a]
  /\ flags = [a \in LoadAddrs |-> [c \in Procs |-> TRUE]]
  /\ count = Num
  /\ place = [c \in Procs |-> IF c = 0 THEN "loader" ELSE "off"]
  /\ stage = [c \in Procs |-> "run"]
  /\ offs = [c \in Procs |-> 0] /\ todo = [c \in Procs |-> {}]
  /\ next = 0
  /\ meant = Addend
  /\ chosen = [window |-> 0, moves |-> 0]

Here(c) == copy[img[c]]
Goto(c, p) == place' = [place EXCEPT ![c] = p] /\ UNCHANGED stage
WaitAt(c, p) == place' = [place EXCEPT ![c] = p] /\ stage' = [stage EXCEPT ![c] = "arrive"]

-----------------------------------------------------------------------------
(***************************************************************************)
(* startup64.S, startup32.S                                                *)
(***************************************************************************)
\* The entry points of the boot loaders: the boot parameters are saved, before the
\* BSS is zeroed.
BootEntry ==
  /\ place[0] = "loader"
  /\ copy' = [copy EXCEPT ![img[0]].boot_params = TRUE]
  /\ Goto(0, "entry")
  /\ UNCHANGED <<flags, count, img, tables, offs, todo, next, meant, chosen>>

\* lock btsl $0, startup_mutex; then the startup stack is used.
Enter(c) ==
  /\ place[c] = "entry"
  /\ ~Here(c).startup_mutex
  /\ copy' = [copy EXCEPT ![img[c]].startup_mutex = TRUE]
  /\ Goto(c, "stack")
  /\ UNCHANGED <<flags, count, img, tables, offs, todo, next, meant, chosen>>

\* What is kept in the BSS.
ZeroBss(p) == [p EXCEPT !.first_boot = FALSE, !.last_load_addr = 0,
                        !.init_complete = FALSE, !.init_state = 0, !.window_num = 0]

\* The core's own stack, page tables, GDT and IDT; the BSS is zeroed once.
Prepare(c) ==
  /\ place[c] = "stack"
  /\ tables' = [tables EXCEPT ![c] = img[c]]
  /\ copy' = IF Here(c).first_boot THEN [copy EXCEPT ![img[c]] = ZeroBss(@)] ELSE copy
  /\ Goto(c, "reloc")
  /\ UNCHANGED <<flags, count, img, offs, todo, next, meant, chosen>>

\* Mutant: the lock is left to the core that has relocated the image.
UnlockByFirst(c) ==
  /\ place[c] = "unlock"
  /\ copy' = [copy EXCEPT ![img[c]].startup_mutex = offs[c] = 0]
  /\ IF Here(c).init_state = 0 THEN Goto(c, "init") ELSE WaitAt(c, "top")
  /\ UNCHANGED <<flags, count, img, tables, offs, todo, next, meant, chosen>>

\* The mutex is released and main called, which initialises the program or goes on.
Unlock(c) ==
  /\ place[c] = "unlock"
  /\ copy' = [copy EXCEPT ![img[c]].startup_mutex = FALSE]
  /\ IF Here(c).init_state = 0 THEN Goto(c, "init") ELSE WaitAt(c, "top")
  /\ UNCHANGED <<flags, count, img, tables, offs, todo, next, meant, chosen>>

-----------------------------------------------------------------------------
(***************************************************************************)
(* reloc64.c, reloc32.c                                                    *)
(***************************************************************************)
\* get_dynamic_info: the address of the table is relocated first.
GetDynamicInfo(p, load_offs) == [p EXCEPT !.table = @ + load_offs]

\* Mutant: the address is not remembered.
RelocUnsaved(c) ==
  /\ place[c] = "reloc"
  /\ IF Here(c).last_load_addr = img[c]
     THEN Goto(c, "unlock") /\ UNCHANGED <<copy, offs, todo>>
     ELSE /\ offs' = [offs EXCEPT ![c] = img[c] - Here(c).last_load_addr]
          /\ todo' = [todo EXCEPT ![c] = Pointers]
          /\ copy' = [copy EXCEPT ![img[c]] = GetDynamicInfo(@, offs'[c])]
          /\ Goto(c, "fix")
  /\ UNCHANGED <<flags, count, img, tables, next, meant, chosen>>

\* The first core to come here does the work for all.
Reloc(c) ==
  /\ place[c] = "reloc"
  /\ IF Here(c).last_load_addr = img[c]
     THEN Goto(c, "unlock") /\ UNCHANGED <<copy, offs, todo>>
     ELSE /\ offs' = [offs EXCEPT ![c] = img[c] - Here(c).last_load_addr]
          /\ todo' = [todo EXCEPT ![c] = Pointers]
          /\ copy' = [copy EXCEPT ![img[c]] =
                        GetDynamicInfo([@ EXCEPT !.last_load_addr = img[c]], offs'[c])]
          /\ Goto(c, "fix")
  /\ UNCHANGED <<flags, count, img, tables, next, meant, chosen>>

\* do_relocation, with addends in the table: used when the image is relocated for
\* the first time ...
Relocated64(a, load_offs, p, old) == IF load_offs = a THEN a + Addend[p] ELSE old + load_offs

\* ... or in place.
Relocated32(load_offs, old) == old + load_offs

\* One step of do_relocations, with the table of this copy.
Fix(c) ==
  /\ place[c] = "fix"
  /\ \E p \in todo[c] :
       /\ copy' = [copy EXCEPT ![img[c]].slot[p] =
                     IF Rela THEN Relocated64(img[c], offs[c], p, @) ELSE Relocated32(offs[c], @)]
       /\ todo' = [todo EXCEPT ![c] = @ \ {p}]
  /\ UNCHANGED <<flags, count, place, stage, img, tables, offs, next, meant, chosen>>

Fixed(c) ==
  /\ place[c] = "fix" /\ todo[c] = {}
  /\ Goto(c, "unlock")
  /\ UNCHANGED <<copy, flags, count, img, tables, offs, todo, next, meant, chosen>>

-----------------------------------------------------------------------------
(***************************************************************************)
(* main.c: the start, and the moves                                        *)
(***************************************************************************)
\* The end of global_init when the program has to move before the other cores start:
\* relocate_to, to the low address unless that overlaps the running program.
RelocateTo ==
  /\ place[0] = "init"
  /\ ~Here(0).init_complete /\ img[0] \in Unusable
  /\ LET to == IF Overlap(Low, img[0]) THEN High ELSE Low
     IN /\ copy' = [copy EXCEPT ![to] = [Here(0) EXCEPT !.init_complete = TRUE]]
        /\ flags' = [flags EXCEPT ![to] = [c \in Procs |-> FALSE]]
        /\ img' = [img EXCEPT ![0] = to]
  /\ Goto(0, "entry")
  /\ UNCHANGED <<count, tables, offs, todo, next, meant, chosen>>

\* barrier_reset, and smp_start: ap_startup_addr is the entry point of the copy that
\* runs now, and the trampoline uses its page tables.
StartOthers ==
  /\ place[0] = "init"
  /\ Here(0).init_complete \/ img[0] \notin Unusable
  /\ copy' = [copy EXCEPT ![img[0]].init_complete = TRUE, ![img[0]].init_state = 2]
  /\ flags' = [flags EXCEPT ![img[0]] = [c \in Procs |-> FALSE]]
  /\ img' = [c \in Procs |-> img[0]]
  /\ tables' = [c \in Procs |-> IF c = 0 THEN tables[c] ELSE img[0]]
  /\ place' = [c \in Procs |-> IF c = 0 THEN "top" ELSE "entry"]
  /\ stage' = [stage EXCEPT ![0] = "arrive"]
  /\ UNCHANGED <<count, offs, todo, next, meant, chosen>>

\* barrier_spin_wait(start_barrier)
SetFlag(c) ==
  /\ stage[c] = "arrive"
  /\ flags' = [flags EXCEPT ![img[c]][c] = TRUE]
  /\ stage' = [stage EXCEPT ![c] = "count"]
  /\ UNCHANGED <<copy, count, place, img, tables, offs, todo, next, meant, chosen>>

CountDown(c) ==
  /\ stage[c] = "count"
  /\ IF count > 1
     THEN /\ count' = count - 1
          /\ stage' = [stage EXCEPT ![c] = "wait"]
          /\ UNCHANGED flags
     ELSE /\ count' = Num
          /\ stage' = [stage EXCEPT ![c] = "run"]
          /\ flags' = [flags EXCEPT ![img[c]] = [d \in Procs |-> FALSE]]
  /\ UNCHANGED <<copy, place, img, tables, offs, todo, next, meant, chosen>>

Resume(c) ==
  /\ stage[c] = "wait" /\ ~flags[img[c]][c]
  /\ stage' = [stage EXCEPT ![c] = "run"]
  /\ UNCHANGED <<copy, flags, count, place, img, tables, offs, todo, next, meant, chosen>>

Behind(c, p) == place[c] = p /\ stage[c] = "run"

\* The master starts a test or goes on to the next window; meanwhile the program may
\* have let a pointer point to something else in the image.
Top(c) ==
  /\ Behind(c, "top")
  /\ IF c = Leader
     THEN \E w \in {0, 1}, p \in Movable, q \in Pointers :
            /\ chosen.moves < MaxMoves
            /\ chosen' = [window |-> w, moves |-> chosen.moves + 1]
            /\ meant' = [meant EXCEPT ![p] = Addend[q]]
            /\ copy' = [copy EXCEPT ![img[c]].window_num = w,
                                    ![img[c]].slot[p] = img[c] + Addend[q]]
     ELSE UNCHANGED <<copy, meant, chosen>>
  /\ WaitAt(c, "go")
  /\ UNCHANGED <<flags, count, img, tables, offs, todo, next>>

\* Where the program has to be for the window.
Dest(c) == IF Here(c).window_num > 0 THEN Low ELSE High

\* In place: the window is tested, with whatever else is at the other addresses.
TestWindow(c) ==
  /\ Behind(c, "go")
  /\ img[c] = Dest(c)
  /\ copy' = [a \in LoadAddrs |-> IF a = img[c] THEN copy[a] ELSE Junk(a)]
  /\ flags' = [a \in LoadAddrs |-> IF a = img[c] THEN flags[a] ELSE [d \in Procs |-> TRUE]]
  /\ WaitAt(c, "top")
  /\ UNCHANGED <<count, img, tables, offs, todo, next, meant, chosen>>

\* run_at: core 0 makes the copy, the others wait for it.
RunAt(c) ==
  /\ Behind(c, "go")
  /\ img[c] # Dest(c)
  /\ IF c = 0 THEN Goto(c, "copy") ELSE WaitAt(c, "jump")
  /\ UNCHANGED <<copy, flags, count, img, tables, offs, todo, next, meant, chosen>>

CopyProgram ==
  /\ place[0] = "copy"
  /\ copy' = [copy EXCEPT ![Dest(0)] = Here(0)]
  /\ next' = 0
  /\ Goto(0, "locals")
  /\ UNCHANGED <<flags, count, img, tables, offs, todo, meant, chosen>>

\* The locals of one core after the other, while those cores are at the barrier.
CopyLocals ==
  /\ place[0] = "locals"
  /\ flags' = [flags EXCEPT ![Dest(0)][next] = flags[img[0]][next]]
  /\ next' = next + 1
  /\ IF next + 1 < Num THEN UNCHANGED <<place, stage>> ELSE WaitAt(0, "jump")
  /\ UNCHANGED <<copy, count, img, tables, offs, todo, meant, chosen>>

Jump(c) ==
  /\ Behind(c, "jump")
  /\ img' = [img EXCEPT ![c] = Dest(c)]
  /\ Goto(c, "entry")
  /\ UNCHANGED <<copy, flags, count, tables, offs, todo, next, meant, chosen>>

-----------------------------------------------------------------------------
CoreStep(c) ==
  \/ Enter(c) \/ Prepare(c) \/ Reloc(c) \/ Fix(c) \/ Fixed(c) \/ Unlock(c)
  \/ SetFlag(c) \/ CountDown(c) \/ Resume(c) \/ Top(c) \/ TestWindow(c) \/ RunAt(c) \/ Jump(c)

BootStep == BootEntry \/ RelocateTo \/ StartOthers \/ CopyProgram \/ CopyLocals

StartupNext == BootStep \/ \E c \in Procs : CoreStep(c)

\* Every core keeps executing.
StartupFairness ==
  WF_startupVars(BootStep) /\ \A c \in Procs : WF_startupVars(CoreStep(c))

SafeStartup == StartupInit /\ [][StartupNext]_startupVars

StartupSpec == SafeStartup /\ StartupFairness

-----------------------------------------------------------------------------
(***************************************************************************)
(* Properties                                                              *)
(***************************************************************************)
\* What the memory at a load address can hold.
Contents == [intact : BOOLEAN, startup_mutex : BOOLEAN, first_boot : BOOLEAN,
             last_load_addr : Nat, table : Int, slot : [Pointers -> Int],
             boot_params : BOOLEAN, init_complete : BOOLEAN,
             init_state : {0, 2}, window_num : {0, 1}]

\* Every variable has its type.
StartupTypeOK ==
  /\ copy \in [LoadAddrs -> Contents]
  /\ flags \in [LoadAddrs -> [Procs -> BOOLEAN]]
  /\ count \in 1 .. Num
  /\ place \in [Procs -> Places]
  /\ stage \in [Procs -> {"run", "arrive", "count", "wait"}]
  /\ img \in [Procs -> LoadAddrs] /\ tables \in [Procs -> LoadAddrs]
  /\ offs \in [Procs -> Int] /\ todo \in [Procs -> SUBSET Pointers]
  /\ next \in 0 .. Num
  /\ meant \in [Pointers -> Nat]
  /\ chosen \in [window : {0, 1}, moves : Nat]

\* One core at a time is in the startup code of a copy: it has only one startup stack.
OneInStartup ==
  \A c, d \in Procs : place[c] \in InStartup /\ place[d] \in InStartup /\ img[c] = img[d] => c = d

\* A core that executes main finds every pointer of its copy pointing into that copy, at
\* what it is meant to, and never at what is left of another one: whoever relocated it.
PointersRight ==
  \A c \in Procs : place[c] \in InMain =>
    /\ Here(c).table = img[c] + TableOffset
    /\ \A p \in Pointers : Here(c).slot[p] = img[c] + meant[p]

\* ... and everything the program has written since it was booted: the BSS is zeroed once,
\* before anything is kept there, and nothing is written behind the copying.
StateKept ==
  \A c \in Procs : place[c] \in InMain =>
    /\ Here(c).boot_params /\ Here(c).window_num = chosen.window
    /\ place[c] # "init" => Here(c).init_state = 2

\* No test overwrites a copy as long as a core executes it or has its page tables in it.
NothingPulledAway ==
  \A c \in Procs : place[c] # "off" => Here(c).intact /\ copy[tables[c]].intact

Blocked(c) == stage[c] = "wait" /\ flags[img[c]][c]
BlockedSet == {c \in Procs : Blocked(c)}

Counted == count = Num - Cardinality(BlockedSet)

\* The count of start_barrier, which stays where it is, and the flags, which move with the
\* program, always agree: cores that wait for each other wait at one place in one copy.
WaitTogether ==
  /\ \A c, d \in Procs : Blocked(c) /\ Blocked(d) => place[c] = place[d] /\ img[c] = img[d]
  /\ Counted

\* What has to hold at every restart, for whichever core is first or last in the new copy.
RestartRight ==
  /\ StartupTypeOK /\ OneInStartup /\ PointersRight /\ StateKept
  /\ NothingPulledAway /\ WaitTogether

\* Every core that jumps into a copy comes back to main: none is left at a lock that was
\* copied while it was taken, or at a flag that was copied while it was set.
CoresRestart ==
  \A c \in Procs : /\ place[c] = "entry" ~> place[c] \in InMain
                   /\ stage[c] = "wait" ~> stage[c] = "run" \/ chosen.moves = MaxMoves
-----------------------------------------------------------------------------
(***************************************************************************)
(* The inductive invariant behind RestartRight (StartupProofs)             *)
(***************************************************************************)
\* The address the pointers of a copy are relocated for; 0 when they are as linked.
Base(a) == IF copy[a].first_boot THEN 0 ELSE copy[a].last_load_addr

PointersAt(a, b) ==
  /\ copy[a].table = b + TableOffset
  /\ IF b = 0 THEN meant = Addend /\ (Rela \/ copy[a].slot = Addend)
     ELSE \A p \in Pointers : copy[a].slot[p] = b + meant[p]

\* While core c relocates copy a, those it has not come to are still as they were.
HalfDone(c, a) ==
  /\ copy[a].last_load_addr = a /\ copy[a].table = a + TableOffset
  /\ \A p \in Pointers \ todo[c] : copy[a].slot[p] = a + meant[p]
  /\ IF offs[c] = a THEN meant = Addend /\ \A p \in todo[c] : Rela \/ copy[a].slot[p] = Addend[p]
     ELSE \A p \in todo[c] : copy[a].slot[p] = a - offs[c] + meant[p]

Stands(c, a, P) == img[c] = a /\ place[c] \in P

\* Beyond the zeroing of the BSS, and beyond the relocation.
Zeroed == {"reloc", "fix", "unlock"} \cup InMain
Through == {"unlock"} \cup InMain

\* The lock of a copy is held by the one core in its startup code.
LockRight(a) ==
  /\ copy[a].startup_mutex <=> \E c \in Procs : Stands(c, a, InStartup)
  /\ \A c, d \in Procs : Stands(c, a, InStartup) /\ Stands(d, a, InStartup) => c = d

\* The pointers are relocated or being relocated; they are for the cores that come
\* from there.
RelocRight(a) ==
  /\ \A c \in Procs : Stands(c, a, {"fix"}) => HalfDone(c, a)
  /\ (\A c \in Procs : ~Stands(c, a, {"fix"})) => PointersAt(a, Base(a))
  /\ \A c \in Procs : Stands(c, a, Zeroed) => ~copy[a].first_boot
  /\ \A c \in Procs : Stands(c, a, Through) =>
       copy[a].last_load_addr = a /\ \A d \in Procs : ~Stands(d, a, {"fix"})

\* The window is the one chosen, once the BSS holds it.
WindowKept(a) ==
  IF copy[a].first_boot THEN chosen.window = 0 ELSE copy[a].window_num = chosen.window

\* A copy that cores are starting in.
Sound(a) == copy[a].intact /\ LockRight(a) /\ RelocRight(a) /\ WindowKept(a)

\* A copy that all cores have started in.
Settled(a) ==
  /\ copy[a].intact /\ copy[a].boot_params /\ copy[a].init_state = 2
  /\ ~copy[a].startup_mutex /\ ~copy[a].first_boot
  /\ copy[a].last_load_addr = a /\ PointersAt(a, a)
  /\ copy[a].window_num = chosen.window

\* Where the program goes from a copy.
Target(a) == IF copy[a].window_num > 0 THEN Low ELSE High

\* Core c has been let go by a wait, or has not been yet.
Released(c, a, w) ==
  /\ img[c] = a /\ tables[c] = a /\ place[c] = w
  /\ stage[c] = "run" \/ (stage[c] = "wait" /\ ~flags[a][c])

Gathering(c, a, w) ==
  /\ img[c] = a /\ tables[c] = a /\ place[c] = w
  /\ stage[c] = "arrive" \/ (stage[c] \in {"count", "wait"} /\ flags[a][c])

\* Core 0 alone starts the program.
Booting(a) ==
  /\ img[0] = a /\ stage[0] = "run"
  /\ place[0] \in {"loader", "entry", "init"} \cup InStartup
  /\ place[0] \in {"reloc", "fix", "unlock", "init"} => tables[0] = a
  /\ copy[tables[0]].intact
  /\ \A c \in Procs \ {0} : place[c] = "off" /\ stage[c] = "run"
  /\ Sound(a)
  /\ IF place[0] = "loader" THEN copy[a].first_boot ELSE copy[a].boot_params
  /\ copy[a].first_boot \/ copy[a].init_state = 0

\* The cores leave copy i, start in copy j and gather at the top of main's loop.
Starting(i, j) ==
  /\ \A c \in Procs :
       \/ Released(c, i, "jump") /\ i # j /\ Target(i) = j /\ Settled(i)
       \/ Stands(c, j, {"entry", "stack"}) /\ stage[c] = "run" /\ tables[c] \in {i, j}
       \/ Stands(c, j, {"reloc", "fix", "unlock"}) /\ stage[c] = "run" /\ tables[c] = j
       \/ Gathering(c, j, "top")
  /\ copy[i].intact
  /\ Sound(j) /\ ~copy[j].first_boot /\ copy[j].boot_params /\ copy[j].init_state = 2

\* ... leave it ...
Choosing(j) ==
  /\ Settled(j)
  /\ \A c \in Procs : Released(c, j, "top") \/ Gathering(c, j, "go")

\* ... and test a window in place, or go on to another copy once core 0 has made it.
Acting(j) ==
  /\ Settled(j)
  /\ \A c \in Procs :
       \/ Released(c, j, "go")
       \/ Target(j) = j /\ Gathering(c, j, "top")
       \/ Target(j) # j /\ Gathering(c, j, "jump")
       \/ /\ Target(j) # j /\ c = 0 /\ img[c] = j /\ tables[c] = j
          /\ stage[c] = "run" /\ place[c] \in {"copy", "locals"}
  /\ place[0] \in {"locals", "jump"} => copy[Target(j)] = copy[j]
  /\ place[0] = "locals" => next < Num

Phase == \E i, j \in LoadAddrs : Booting(j) \/ Starting(i, j) \/ Choosing(j) \/ Acting(j)

StartupInv == StartupTypeOK /\ Counted /\ Phase
=============================================================================
