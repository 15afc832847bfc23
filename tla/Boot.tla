-------------------------------- MODULE Boot --------------------------------
(***************************************************************************)
(* From the firmware to the windows under test: on a machine with a BIOS   *)
(* the memory map is the one of E820Maps; under UEFI efi_setup (EfiSetup)  *)
(* makes it from the firmware's own map, while the firmware still runs,    *)
(* and hands it over to pmem_init (WindowMap).                             *)
(***************************************************************************)
EXTENDS WindowMap, EfiSetup

CONSTANT Firmwares    \* machines with UEFI: [efi, handover, memory, gops, options]

Bios == [efi |-> FALSE, handover |-> FALSE, memory |-> << >>, gops |-> << >>, options |-> << >>]

bootVars == <<vars, efiVars>>

BootInit ==
  \/ Init /\ EfiInit(Bios)
  \/ \E m \in Firmwares : /\ EfiInit(m) /\ Start(<< >>, "efi")
                           /\ cpu_mode = "lm" /\ affinity = << >>

\* efi_setup returns with the e820 map, and pmem_init reads it.
HandOver ==
  /\ efi = "e820" /\ efi' = "done"
  /\ \E map \in {SetE820Map(got)} : \E segments \in {PmemInit(map)} :
       /\ e820' = map
       /\ pm_map' = segments
       /\ pm_limit' = [pm_limit EXCEPT !.upper = IF segments = << >> THEN 0 ELSE Last(segments).end]
  /\ phase' = "init"
  /\ got' = << >> /\ fresh' = FALSE /\ changes' = 0
  /\ buffer' = [page |-> 0, size |-> FirstTry]
  /\ UNCHANGED <<firmware, memory, screen, affinity, cpu_mode, heaps, heap_ready, blocks, marks, loadVars, stages, windowVars>>

\* The program has given up: it waits in a loop.
Halted == efi \in {"halted", "no_mode"} /\ UNCHANGED bootVars

BootNext ==
  \/ phase # "efi" /\ Next /\ UNCHANGED efiVars
  \/ (EfiStep \/ FirmwareChange) /\ UNCHANGED vars
  \/ HandOver \/ Halted

BootSpec == BootInit /\ [][BootNext]_bootVars /\ WF_bootVars(EfiStep /\ UNCHANGED vars)

-----------------------------------------------------------------------------
\* The types of the variables of both parts.
BootTypeOK == TypeOK /\ EfiTypeOK

\* What is tested later is what the firmware has given up when the boot services ended, to
\* the last page, although its map changed while efi_setup read it; and nothing of it is
\* lost on the way, unless the e820 map is full.
FirmwareMemoryKept ==
  efi = "done" /\ ~heap_ready =>
    \A p \in DOMAIN memory :
      /\ p \in MappedPages => memory[p] \in LoaderTypes \cup {"acpi"}
      /\ memory[p] \in LoaderTypes \cup {"acpi"} /\ ~Reserved(p) /\ Len(e820) < MapSize => p \in MappedPages

\* efi_setup ends: there is a memory map to start with, or it reports that it cannot.
EfiEnds == efi # "off" ~> efi \in {"e820", "done", "halted", "no_mode"}

\* What efi_setup leaves behind: all memory the firmware has given up and no other, a screen
\* that is large enough, and no failure only because the firmware's map changed meanwhile.
EfiSetupRight == BootTypeOK /\ FirmwareMemoryKept /\ ScreenFits /\ BootSurvivesChanges

=============================================================================
