------------------------------ MODULE EfiSetup ------------------------------
(***************************************************************************)
(* The start under UEFI (boot/efisetup.c): the options of the command      *)
(* line, the choice of a screen mode, the firmware's memory map, the end   *)
(* of the boot services, and the e820 map made from the memory map.        *)
(*                                                                         *)
(* The firmware runs on while the program asks it: its memory map changes  *)
(* with every allocation, the program's or its own, and the boot services  *)
(* can only be ended with the key of the current map.                      *)
(***************************************************************************)
EXTENDS PhysMem, FiniteSetsExt

CONSTANTS
  FirstTry,       \* descriptors in the first buffer (32)
  Headroom,       \* MAP_BUFFER_HEADROOM
  MinH, MinV,     \* MIN_H_RESOLUTION, MIN_V_RESOLUTION
  MaxChanges      \* bound: the firmware's own allocations

VARIABLES
  firmware,       \* the machine: [gops, options]; never changes
  efi,            \* what efi_setup is doing; "off" on a machine with a BIOS
  memory,         \* the type of each page, as the firmware sees it
  fresh,          \* the memory has not changed since the last map: its key is the current one
  changes,        \* what is left of MaxChanges
  buffer,         \* the buffer of get_memory_map: [page, size], size in descriptors
  got,            \* the last map read
  screen          \* boot_params.screen_info: [video, h, v]

efiVars == <<firmware, efi, memory, fresh, changes, buffer, got, screen>>

LoaderTypes == {"loader", "boot", "free"}     \* usable when the boot services have ended

FreePages == {p \in DOMAIN memory : memory[p] = "free"}

-----------------------------------------------------------------------------
(* The command line and the screen *)

\* parse_option; an option that is not understood changes nothing.
ParseOption(p, o) ==
  CASE o.kind = "rotate" -> [p EXCEPT !.rotate = TRUE]
    [] o.kind = "mode"   -> [p EXCEPT !.mode = [h |-> o.h, v |-> o.v]]
    [] OTHER -> p

\* parse_cmd_line: a mode of 0 x 0 is the current one ("bios"), -1 any.
ParseCmdLine(options) ==
  FoldLeft(ParseOption, [rotate |-> FALSE, mode |-> [h |-> -1, v |-> -1]], options)

\* find_gop: the first device that the console uses, or else the first one; those without
\* a frame buffer are passed over.
FindGop(gops) ==
  LET usable  == {i \in DOMAIN gops : ~gops[i].blt_only}
      console == {i \in usable : gops[i].con_out}
  IN IF usable = {} THEN 0 ELSE Min(IF console # {} THEN console ELSE usable)

LargeEnough(m, rotate) ==
  IF rotate THEN m.v >= MinH /\ m.h >= MinV ELSE m.h >= MinH /\ m.v >= MinV

\* The first mode of the size asked for; or else the narrowest that is large enough.
BestMode(gop, p) ==
  LET exact == {i \in DOMAIN gop.modes : gop.modes[i] = p.mode}
      fits  == {i \in DOMAIN gop.modes : LargeEnough(gop.modes[i], p.rotate)}
      width(i) == IF p.rotate THEN gop.modes[i].v ELSE gop.modes[i].h
      least == {i \in fits : \A j \in fits : width(i) <= width(j)}
  IN IF p.mode = [h |-> 0, v |-> 0] THEN gop.current
     ELSE IF exact # {} THEN Min(exact)
     ELSE IF fits = {} THEN 0 ELSE Min(least)

NoScreen == [video |-> FALSE, h |-> 0, v |-> 0]

\* set_screen_info: without a device or a mode the program goes on, for a serial console.
\* The pool for the handles is given back before it returns.
SetScreenInfo ==
  LET p == ParseCmdLine(firmware.options)
      g == FindGop(firmware.gops)
      m == IF g = 0 THEN 0 ELSE BestMode(firmware.gops[g], p)
      mode == firmware.gops[g].modes[m]
  IN /\ efi = "screen"
     /\ \/ firmware.gops # << >> /\ FreePages = {}           \* no memory for the handles
             /\ efi' = "halted" /\ UNCHANGED screen
        \/ (firmware.gops = << >> \/ FreePages # {}) /\ m = 0 /\ screen' = NoScreen /\ efi' = "alloc"
        \/ /\ FreePages # {} /\ m # 0 /\ screen' = [video |-> TRUE, h |-> mode.h, v |-> mode.v]
           /\ efi' \in {"alloc"} \cup (IF p.mode = [h |-> 0, v |-> 0] THEN {} ELSE {"no_mode"})   \* set_mode
     /\ UNCHANGED <<firmware, memory, fresh, changes, buffer, got>>

-----------------------------------------------------------------------------
(* The firmware's memory *)

\* An allocation takes the highest free page.
Taken(type) == [memory EXCEPT ![Max(FreePages)] = type]

\* The descriptors: runs of pages of the same type.
Descs(m) ==
  LET begins(p) == m[p] # "none" /\ (p = 0 \/ m[p - 1] # m[p])
      starts == SelectSeq([i \in 1 .. Cardinality(DOMAIN m) |-> i - 1], begins)
      length(p) == Min({n \in 1 .. Cardinality(DOMAIN m) :
                          p + n \notin DOMAIN m \/ m[p + n] # m[p]})
  IN [i \in DOMAIN starts |->
        [start |-> starts[i], pages |-> length(starts[i]), type |-> m[starts[i]]]]

\* A driver of the firmware allocates memory, for itself or for the runtime services, or
\* frees some, until the boot services begin to end.
FirmwareChange ==
  /\ efi \in {"params", "screen", "alloc", "get", "exit"} /\ changes > 0
  /\ \/ FreePages # {} /\ \E t \in {"boot", "runtime"} : memory' = Taken(t)
     \/ \E p \in DOMAIN memory : memory[p] = "boot" /\ memory' = [memory EXCEPT ![p] = "free"]
  /\ fresh' = FALSE
  /\ changes' = changes - 1
  /\ UNCHANGED <<firmware, efi, buffer, got, screen>>

\* The memory for the boot parameters and the command line, unless the loader has passed them.
AllocParams ==
  /\ efi = "params"
  /\ IF FreePages = {} THEN efi' = "halted" /\ UNCHANGED <<memory, fresh>>
     ELSE efi' = "screen" /\ memory' = Taken("loader") /\ fresh' = FALSE
  /\ UNCHANGED <<firmware, changes, buffer, got, screen>>

-----------------------------------------------------------------------------
(* get_memory_map and the end of the boot services *)

AllocMap ==
  /\ efi = "alloc"
  /\ IF FreePages = {} THEN efi' = "halted" /\ UNCHANGED <<memory, fresh, buffer>>
     ELSE /\ efi' = "get" /\ memory' = Taken("loader") /\ fresh' = FALSE
          /\ buffer' = [buffer EXCEPT !.page = Max(FreePages)]
  /\ UNCHANGED <<firmware, changes, got, screen>>

\* Mutant: the next buffer is as large.
SameSize(n) == buffer.size

MapHasHeadroom(n) == buffer.size >= n /\ buffer.size - n >= Headroom
NextSize(n) == n + Headroom

\* The map, or another buffer, which is larger by the headroom.
GetMap ==
  LET n == Len(Descs(memory)) IN
  /\ efi = "get"
  /\ IF MapHasHeadroom(n)
     THEN /\ got' = Descs(memory)
          /\ fresh' = TRUE
          /\ efi' = "exit"
          /\ UNCHANGED <<memory, buffer>>
     ELSE /\ memory' = [memory EXCEPT ![buffer.page] = "free"]
          /\ fresh' = FALSE
          /\ buffer' = [buffer EXCEPT !.size = NextSize(n)]
          /\ efi' = "alloc"
          /\ UNCHANGED got
  /\ UNCHANGED <<firmware, changes, screen>>

\* Mutant: the map is used although the key is old.
ExitAnyway == efi = "exit" /\ efi' = "e820" /\ UNCHANGED <<firmware, memory, fresh, changes, buffer, got, screen>>

\* exit_boot_services: with an old key it fails, and only get_memory_map may be called
\* before the second attempt, which succeeds: the firmware is quiet from then on.
ExitBootServices ==
  /\ efi = "exit"
  /\ efi' = IF fresh THEN "e820" ELSE "again"
  /\ UNCHANGED <<firmware, memory, fresh, changes, buffer, got, screen>>

GetMapAgain ==
  /\ efi = "again"
  /\ IF Len(Descs(memory)) > buffer.size THEN efi' = "halted" /\ UNCHANGED <<got, fresh>>
     ELSE got' = Descs(memory) /\ fresh' = TRUE /\ efi' = "e820"
  /\ UNCHANGED <<firmware, memory, changes, buffer, screen>>

\* set_e820_map: what is not usable is left out, neighbours of one type are joined.
E820Type(t) == IF t = "acpi" THEN E820_ACPI ELSE IF t \in LoaderTypes THEN E820_RAM ELSE E820_NONE

AddDesc(map, d) ==
  LET type == E820Type(d.type)
      n == Len(map)
      joins == n > 0 /\ map[n].type = type /\ map[n].addr + map[n].size = d.start * PageSize
  IN IF n >= MapSize \/ type = E820_NONE THEN map
     ELSE IF joins THEN [map EXCEPT ![n].size = @ + d.pages * PageSize]
     ELSE Append(map, [addr |-> d.start * PageSize, size |-> d.pages * PageSize, type |-> type])

SetE820Map(descs) == FoldLeft(AddDesc, <<>>, descs)

-----------------------------------------------------------------------------
EfiInit(machine) ==
  /\ firmware = [gops |-> machine.gops, options |-> machine.options]
  /\ efi = CASE ~machine.efi -> "off" [] machine.handover -> "screen" [] OTHER -> "params"
  /\ memory = machine.memory
  /\ fresh = FALSE /\ changes = IF machine.efi THEN MaxChanges ELSE 0
  /\ buffer = [page |-> 0, size |-> FirstTry]
  /\ got = << >>
  /\ screen = NoScreen

\* efi_setup up to the end of the boot services.
EfiStep == AllocParams \/ SetScreenInfo \/ AllocMap \/ GetMap \/ ExitBootServices \/ GetMapAgain

-----------------------------------------------------------------------------
EfiTypeOK ==
  /\ efi \in {"off", "params", "screen", "alloc", "get", "exit", "again", "e820", "done", "no_mode", "halted"}
  /\ \A p \in DOMAIN memory : memory[p] \in LoaderTypes \cup {"acpi", "runtime", "none"}
  /\ fresh \in BOOLEAN /\ changes \in Nat /\ buffer.size \in Nat

\* The screen is large enough for the display, in the orientation it is used in, unless the
\* user has asked for a size.
ScreenFits ==
  LET p == ParseCmdLine(firmware.options) IN
  screen.video /\ p.mode = [h |-> -1, v |-> -1] =>
    /\ (IF p.rotate THEN screen.v ELSE screen.h) >= MinH
    /\ (IF p.rotate THEN screen.h ELSE screen.v) >= MinV

\* The start does not fail because the map changes while it is read: only if there is no
\* memory, or the map has grown by more than the headroom.
BootSurvivesChanges ==
  efi = "halted" => \/ FreePages = {}
                    \/ Len(Descs(memory)) > Len(got) + Headroom
=============================================================================
