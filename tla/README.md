# A TLA+ verification of Memtest86+ (the tyh894 fork)

Memtest86+ is a stand-alone memory tester. It runs without an operating system:
every CPU core executes the same `main`, the cores share all variables, they
synchronise by counting barriers and spinlocks, and the program moves itself in
memory so that the memory it occupies can be tested too. It brings its own
drivers: it asks the firmware for the memory and the processors, looks for USB
keyboards and drives, reads the memory modules' EEPROMs, and this fork also
writes reports and settings to a FAT volume on a USB drive. This directory holds
TLA+ specifications of these parts, TLC configurations that check them on small
instances, and TLAPS proofs for instances of every size. Paths below are
relative to the root of the repository.

## Inventory

| Part | Source | State | Operations | Interacts with | Module |
|---|---|---|---|---|---|
| Barriers | `lib/barrier.c`, `app/x86/interrupt.c` | `num_threads`, `count`, a flag per core, pending NMIs | init, reset, spin wait, halt wait, NMI handler | main loop, `do_tick` | `Barrier`, `AbstractBarrier` |
| Spinlocks | `lib/spinlock.h` | one word | lock, unlock | `common_err` | `ErrorLog` |
| Main loop | `app/main.c` | run/pass/test/stage/window position, `start_*` flags, `bail`, `restart`, `master_cpu`, load address of each core | a round of `main`, `test_all_windows`, `run_at`, `select_next_master` | everything | `TestLoop` |
| Test dispatch, ticks, bail-outs | `tests/tests.c`, `tests/test_helper.[ch]`, `app/display.c` | `bail`, `run_barrier` | `run_test`, `do_tick`, `check_input`, `flush_caches`, `BAILOUT` | error reporting, keyboard | `RunTest` |
| Memory tests | `tests/*.c` | the memory, pattern generators, chunk indices | fill, check, move, hammer | `calculate_chunk`, `do_tick` | `Patterns`, `Chunks`, `RowHammer` |
| Error reporting, verdict | `app/error.c` | counters, `testpass`, `continue_on_error` | `common_err`, `ecc_error`, `error_update`, `error_init` | tests, main loop, BadRAM | `ErrorLog` |
| Serial log, report | `app/reports.c` | `slog_buf`, pass and status counters, report buffer | the `serial_log_*` calls, `format_results` | error reporting, main loop, files | `SerialLog` |
| Moves of the program | `app/main.c` (`run_at`), `boot/x86/startup*.S`, `system/reloc*.c` | two copies of the image: pointers, `first_boot`, `startup_mutex`, `last_load_addr`, waiting flags | copy, jump, start-up code, `reloc`, `smp_start` | main loop, barriers | `Startup` |
| BadRAM table | `app/badram.c` | `patterns`, `num_patterns` | `badram_init`, `badram_insert` | error reporting | `BadRam` |
| Configuration | `app/config.c` | selected tests, order, CPUs, limits, switches | command line, menus | main loop, CPU start, files | `Config`, `TestLoop` |
| Physical memory map | `system/pmem.c` | `pm_map` | `pmem_init` | heap, windows | `PhysMem` |
| Heap | `system/heap.c` | two segments of `pm_map` | `heap_init`, `heap_alloc`, `heap_mark`, `heap_rewind` | drivers, windows | `Heap` |
| Windows | `app/main.c`, `system/x86/vmem.c` | `vm_map`, mapped window, load addresses | `set_load_addr`, `setup_vm_map`, `map_window`, `page_of` | memory map, heap, tests | `WindowMap` |
| Memory benchmark | `system/x86/membw.c` | none | `membw_init` | memory map, heap | `MemBench` |
| Start under UEFI | `boot/efisetup.c` | the firmware's map and its key | `efi_setup` | `pmem_init` | `EfiSetup`, `Boot` |
| ACPI tables | `system/acpi.c` | root pointer | search, checksums | CPU tables | `CpuTables` |
| CPUs and NUMA nodes | `system/smp.c` | APIC ids, domains | MADT, MP, SRAT | start of the cores, chunks | `CpuTables` |
| Start of the cores | `system/smp.c`, `app/main.c` | `cpu_state`, `init_state`, `start_barrier` | INIT/STARTUP, `smp_start`, `ap_enumerate` | main loop | `SmpStart` |
| Volume on a drive | `system/fat32.c` | buffer, geometry | `fat32_mount` | mass storage | `FatMount` |
| Files | `system/fat32.c`, `app/reports.c`, `app/config.c` | table, directory | write, delete, read a file | reports, settings | `Fat` |
| USB probes and scans | `system/usbhcd.c`, `system/{uhci,ohci,ehci,xhci}.c` | controllers, addresses, slots, port owners | probe, hub scan, rescan | heap, keyboards, drive | `UsbScan` |
| Transfers on older controllers | `system/{uhci,ohci,ehci}.c`, `system/usbhcd.c` | descriptors, done lists, status bits, toggles | requests, bulk transfers, `poll_keyboards` | scans, drive, keyboard | `HcdQueues` |
| USB transfers (xHCI) | `system/xhci.c`, `system/usbmsd.c` | rings, endpoints, BOT state | commands, transfers, reset recovery | files, keyboard | `UsbIo` |
| Console | `system/keyboard.c`, `system/serial.c`, `lib/read.c` | escape sequence, receiver, field | `get_key`, `read_value`, `serial_poll_rx` | menus, `do_tick` | `Console` |
| Memory modules | `system/smbios.c`, `system/x86/i2c.c`, `system/spd.c` | DMI devices, selected page, decoded modules | table parsing, SPD reads, display | error report, temperatures | `Dimms`, `Spd` |
| CPU and chipset identification, memory controllers, temperatures, screen, fonts, printing, MBR and processor modes, other architectures, dongle | rest of `system`, `boot`, `lib` | registers, tables | | | not modelled |

What is hard to get right here, and hard to test:

* all waits of `main`, `test_all_windows` and `run_at` share one barrier that
  cannot tell where its callers are, so the cores have to take exactly the same
  number of waits in every combination of skips, restarts, relocations,
  inactive cores and windows; the same holds for the number of ticks in a test
  whose chunks differ in size;
* a barrier is entered again by a released core while the last one to arrive is
  still releasing the others, and a wake-up NMI may come before the `hlt`;
* `bail` is read by each core on its own, at different places of a test;
* the position in the loops lives in global variables which are copied with the
  program during a relocation, and a relocation starts `main` again, on every core,
  through start-up code that only one of them may execute at a time and that has to
  relocate the pointers just once, although the lock and the flags that say so are
  copied too;
* errors are reported concurrently, the decision to ignore them is taken
  outside the mutex, and the loops that stop the test never end;
* tables of fixed size fill up (BadRAM entries, CPUs, keyboards, controllers,
  slots, e820 entries) and must not lose what matters;
* the heap takes its pages from the memory that is tested, while a window may be set up
  from the same map;
* firmware is wrong, or changes its mind: overlapping memory ranges, cores
  listed twice, damaged tables, a memory map that changes between the read and the
  end of the boot services;
* hardware answers late or never: a core that starts after the timeout, a drive
  that answers a command that was given up, a page switch of an EEPROM that is
  lost, a drive that is pulled between two sectors.

The hazards with their lines are listed in `PROJECT.json`.

## Modules

Components, with what they extend:

    AbstractBarrier <- (implements) Barrier          RunTest     ErrorLog     BadRam     TestLoop
    Startup         SerialLog -> ErrorLog
    Patterns  -> Chunks, RowHammer
    Boot      -> WindowMap -> MemBench -> PhysMem, Heap      Boot -> EfiSetup -> PhysMem
    SmpStart  -> Config -> CpuTables
    Fat       -> FatMount
    Dimms     -> Spd
    Console   -> UsbIo, HcdQueues
    UsbScan

`BarrierProofs`, `TestLoopProofs`, `ErrorLogProofs`, `RunTestProofs` (with those about
`Chunks` and `Startup`), `BadRamProofs`, `WindowMapProofs` (with those about `Heap`), `SmpStartProofs` (with those about
`CpuTables`) and `FatProofs` (with those about `FatMount`) hold the theorems,
`MC*.cfg` the instances for TLC, and the modules `MC*` what these need beside
values (`MCBarrier.cfg` and `MCErrorLog.cfg` need nothing: they are for `Barrier` and
`SerialLog`).
`TestLoop` and `RunTest` take their barriers as `AbstractBarrier` describes them:
one step `Open` releases all cores when all wait. That this is sound is what
`Barrier` shows. Where a definition has a sibling whose comment begins with
"Mutant", the sibling is the same operation with a plausible slip in it; it is used to
see that a property notices the slip, and by nothing else.

### Barrier

`threads`, `count` and `flag` are the fields of `barrier_t` and the local
flags. Each core's `pc` names the next access. `Enter`, `Decrement`,
`SpinExit`, `ResetCount` and `ClearFlag` are the steps of `barrier_spin_wait`;
`Enter`, `Decrement`, `Halt`, `ResetCount`, `ClearOwn`, `TestFlag`, `SendNmi`
and `WakeExit` those of `barrier_halt_wait`. `TakeNmi` is the NMI branch of the
interrupt handler, which steps over a `hlt` not yet executed. `Reset` happens
while nobody is inside, as at its call in `test_all_windows`. A barrier for
fewer than two threads lets everybody through without a step, so `Enter` needs
two. `gather` and `gkind` are history: who has called since the last release,
and with which of the two functions; the latter is the same for one round
because it is chosen from `power_save`, which does not change after start-up.

### TestLoop

`at` says at which wait a core is (or which code it executes behind it):
`"top"`, `"ready"`, `"done"` are the waits of `main`, `"win"`, `"adj"`, `"map"`
those of `test_all_windows`, `"to_low"` and `"to_high"` the one of `run_at`.
Everything a core does from one wait to the next is one action: `Top`, `Ready`,
`Win`, `Adj`, `Jump`, `Skip`, `Unmapped`, `RunTest`, `Back` for any core; `Done` for
CPU 0, with the outcomes `Restart`, `Rerun`, `NextTest`, `NextPass` and `Stop`;
`Stopped` for the endless loop of the verdict. This granularity is exact
because between two waits no core reads what another one writes (the only
exceptions, the polls of the keyboard inside a test, are the subject of
`RunTest`). The keyboard is `Keys`: any key at any poll, with the
effects of `config_menu` on the variables of the loop, including the rejected
test order (`MistypeKey`) that still sets `start_pass`. Reading `test_sequence`
behind its end is undefined; `Behind` lists what may lie there.

Abstracted: addresses (a window is a number, memory is the set of populated
windows, a load address is "low", "high" or where the boot loader put the
program; `WindowMap` has the addresses), what tests find (the flag `errors`),
tick counts, display and logging. The errors that stop a test at once are left
to `ErrorLog`.

`Enabled` are the cores that have come to `main`, the ones that `num_enabled_cpus` counts.
`MasterCores` are those of them whose `cpu_state` is not "disabled": on a hybrid processor the
efficient cores are excluded after the count (main.c:456). They are no masters and take no part
in the tests one core after the other, but they do run the parallel tests. In the run no core
is excluded; the theorems hold for any.

### Startup

What is one step in `TestLoop`, a relocation, in detail. `copy[a]` is the image at load
address `a`: whether it is `intact`, its `startup_mutex`, `first_boot`,
`last_load_addr`, the pointers that `reloc` adjusts (`slot`, `table`), and what `main`
keeps (`boot_params`, `init_state`, `window_num`). `img[c]` is the copy a core executes,
`tables[c]` the one its page tables are in, `flags[a]` are the waiting flags of the
barrier, which lie on the stacks of a copy, and `count` is the one field of it that does
not move. `place` and `stage` say where a core is, inside and outside of a wait.
`BootEntry`, `Enter`, `Prepare`, `Reloc`, `Fix`, `Fixed` and `Unlock` are the start-up code
under its lock; `RelocateTo` and `StartOthers` the boot by core 0; `SetFlag`, `CountDown`
and `Resume` a wait; `Top` the choice of a window, `TestWindow` a test, which
overwrites the copy that is not in use, and `RunAt`, `CopyProgram`, `CopyLocals` and `Jump`
the four parts of `run_at`. `reloc` has both forms, with addends in the relocation table
(64 bits) and with addends in the pointers themselves (32 bits): `Rela`. `meant` is history:
what a pointer that the program writes points at.

### RunTest

A test is a sequence of points at which its cores synchronise or look at
`bail`: waits on `run_barrier`, blocks of work, the poll of `do_tick`, its
update, and `BAILOUT`. The loops are unrolled: `Program` is the sequence, the
same for all cores; that the cores do come to the same number of ticks is
`NobodyStranded` of `Patterns`. `DoTick`, `FlushCaches`, `Block` and `TestRound`
are its parts as `app/display.c`, `tests/test_helper.c` and the tests compose
them. `Pollers` and `EccInput` say who polls the keyboard outside `do_tick`.

### ErrorLog

The steps of `common_err` are `Check` (before the mutex), `Lock`, `Count`,
`Show` (until the unlock) and `After` (the stop by the master). `ErrorUpdate` is
`error_update`, called in `Tick` by `do_tick`, in `EccUpdate` by `ecc_error` and
in `NextTest` by `main`. `StartRun` resets exactly what the code resets: not
`testpass`, not `error_count_cecc` and not the per-test counts. `found` and
`dropped` are history variables.

### SerialLog

The texts come first: their lengths, the clamps that keep them in their buffers, the result
a report states, and the date from the CMOS clock (in
BCD or binary, with 12 or 24 hours). Then the lines of the log are joined to the steps of
`ErrorLog`. `slog_buf` and `buf_end` belong to no one, and `serial_log_tick` after an ECC
error (error.c:413) fills them without `error_mutex`. So a line made while other cores
execute takes two steps: `CountLogged` and `EccUpdateLogged` begin it (`SlogBegin`), `SendLine` has
sent it, and a core that begins while another one is at work spoils both lines. `writers` and
`spoiled` are the cores at work and those whose line is spoiled. Only where all other cores
wait is a line one step with what it reports. Formatting a report is one step, too: a core
other than the master that saves one from `badram_display` (badram.c:313) sets `buf_end` as well,
while the master may be sending the tick of an ECC error; this is not modelled. The message
that a stopped master sends over and over (error.c:454) cuts no line, as nobody is at work then
(the last part of `LinesWhole`).

### BadRam

An address is the set of its one bits, so that a mask is a set of bits, too;
`Val` gives the number for comparisons. Costs wrap as the unsigned differences
of the code do, and the number of addresses of an empty mask is zero as it is
in 64 bits. `Insert` is the whole of `badram_insert`.

### Patterns, Chunks, RowHammer

`Chunks` holds `calculate_chunk` and the way a test walks over its chunk in
blocks, with a tick behind each block. `Patterns` runs the tests of `test_list`
on a memory of `Width`-bit words: `Sweeps` gives the sweeps a test makes over all
segments (fill, check and refill upwards, downwards, block moves, random or
modulo-n patterns, walking addresses, own addresses, bus turns, fading); a step
of a core (`CoreStep`) is one block of one sweep, and cores are held by the ticks and
by the flushes between sweeps. `mem` is external: a cell may have a stuck bit,
two address lines may be shorted, or a bit may be weak and lose its value when a
neighbouring row is activated `limit` times. `RowHammer` has the layout of that
test: sites, the discovered row distance, the patterns with frequency, phase and
amplitude, and the victims.

### PhysMem, Heap, WindowMap, EfiSetup, Boot

`PhysMem` is `sanitize_e820_map`, `init_pm_map` and `sort_pm_map` as operators.
`MemBench` is the benchmark at start-up: its choice of memory (taken from the map
without the heap), what it copies and how often. `Heap` has `HeapInit`, `HeapMark`, `HeapAlloc`, `HeapRewind` and `HeapKeep` (a
caller that does not rewind); `blocks` is history. `WindowMap` composes them: `set_load_addr`,
`setup_vm_map` with its NUMA domains, `map_window` on the three
kinds of processors, the start of the first window that `run_test` moves to the lower limit
(`SelectLower`; `InFront` are the pages that this adds), and the sequence of windows of one
test; `tested` is history. The loops of `setup_vm_map` are recursive functions of how many segments (`MapSteps`),
and how many ranges of a NUMA table (`SplitSteps`), have been dealt with. The limit of 128 entries
of `vm_map` (main.c:506) is left out: `pm_map` has no more segments, but ranges of a NUMA table
could split them into more, and the rest of a segment would then not be tested. `EfiSetup` is `efi_setup`: options, graphics mode, the buffer for the
memory map and its growth, `ExitBootServices` with a key that may be stale, and
`set_e820_map`; `FirmwareChange` is an allocation the firmware makes for itself at
any time. `Boot` joins the two by `HandOver`.

### CpuTables, Config, SmpStart

`CpuTables` has the parsers, the search for the ACPI tables included, as operators over sequences of
entries, damaged and doubled ones included. A loop over the entries of a table is a recursive
function of how many have been read (`MadtRead`, `MpRead`, `MemoryRead`, `ProcessorRead`).
`Config` takes the settings from
the command line, from `CONFIG.BIN` (`LoadAppConfig`, the last part of `Start`, which wins over the
command line, as in `initial_config`) and from the menus, which also save the settings
(`SaveAppConfig`) and delete them; a session is a file saved before, the keys pressed, what is
typed into the fields, and what the user means by them, which
`WishesGranted` compares with the result. The file is one that the program has saved, in the present
or the older layout, so that its size and its magic number are right; drives and transfers
that fail are in `Fat`. `SmpStart` is the start: the tables and
the settings (`Configure`, `Select`, with `chunk_index`), INIT and STARTUP to one core
after the other (`SendInit`, `SendStartup`), `Poll` and `PollTimeout`, the cores that
answer late or never (`ApStarted`), `ApEnumerate`, and the entry into the main loop
(`ApRelease`). A damaged MADT can leave CPUs counted although the local APIC was never mapped:
then `verify_bsp_is_cpu0` is passed over (smp.c:1190) and a message reaches no core
(`Receives`), so that the start fails. If an MP table is used instead, its processors are
added to those of the MADT, which are not taken back; this is why the theorem
about the tables has the hypothesis `MpTablesRight`.

### FatMount, Fat

`FatMount` takes one step per sector read; the partition table and the boot
sectors share a buffer, as in the code. `Fat` takes one step per sector written:
allocation of a chain in all copies of the table, data, directory entry, and
the reverse for deletion and for a write that failed; the callers are saving a
report, saving and deleting the settings, and reading them at start. Between any
two steps a transfer may fail (`Fault`) or the drive may be pulled (`Pull`).

### UsbScan

One driver thread against hardware that fails and users who plug. `stack` holds
the nested port loops of the hub scans; `owner` and `enabled` are the port registers that an
EHCI controller shares with its companion. The actions follow the probes of the
four kinds of controllers, the enumeration of one device (reset, address,
descriptors, configuration), the choice of keyboard and drive interfaces, and
the later rescan for a drive, with the heap marks and slots they take and give back.

### UsbIo, HcdQueues, Console

`UsbIo` has the rings as data (positions with a cycle, a Link at the end), the driver
(`Driver`: the commands of a session, the three phases of
a BOT command, the waits with their limits, stall recovery and
`msd_reset_recovery`), the hardware (`Hardware`: the controller and the drive),
and the keyboard that sends reports whenever it likes. `Console` adds `get_key`,
with the serial line and its escape sequences, the legacy keyboard, the poll that
empties the receiver, and `read_value`. `HcdQueues` has requests, bulk transfers and
keyboards on EHCI, OHCI and UHCI, where driver and controller share the descriptors and
each kind tells in its own way that one is done; `BoardSpec` of `Console` joins it.

### Spd, Dimms

`Spd` decodes the bytes of the EEPROMs of SDR to DDR5 and RDRAM modules; times are
exact in picoseconds. `Dimms` is the start-up: the SMBIOS table, the search
over SMBus controllers, the reads with their page switches, the double check of the
checksum, the lines shown, and the line of a temperature. A transaction on the bus is one
step that ends, with or without an answer: the waits for the controller inside it (i2c.c:1350)
are not modelled, so that `StartupEnds` is about the searches and the repeated readings.

## Runs

All runs pass. Numbers are distinct states. An invariant or property that is named for a
group is the conjunction of the named parts that stand before it in its module.

* `MCBarrier` (9,856): three cores, every subset as participants, both wait
  functions. Three cores are needed for a core to re-enter while a second one is
  not yet released by a third. `Inv` is the invariant of the proofs;
  `ImplementsBarrier` includes liveness: whoever has been released leaves, and
  when all have arrived the barrier opens.
* `MCErrorLog` (331,944): three cores, at most three bad words in a run with
  counters that saturate at two, corrected errors counted one or two at a time up
  to a limit of four, both values of `continue_on_error` but no change of it,
  restarts by the user. `EveryErrorCounted`: the count is exact; `NoFalsePass`: no PASS
  after an error; `LogTruthful`: one error of a test is logged, not more, every line comes
  whole although ticks and errors fill one buffer, the status of a pass
  and the result of a report are right, with every date and all lengths around the ends of
  the buffers; `StopsOnError`: by default an error stops the test.
* `MCTestLoop` (1,084,642): cores 0 and 2 of three (a gap for
  `select_next_master`), two tests (one of two stages for a single core, one for
  all cores), five windows with a hole and one beyond the mapping limit, two passes
  behind the dummy ones, five configurations, two keys of any kind at any poll,
  three initial load addresses, every outcome of the read behind `test_sequence`.
  Two keys are the least for a skip during a restart or a change after a rejected
  order. `CoresMeet`: all cores are at the same wait and `run_barrier` counts the
  ones that run; `ProgramOutsideWindow`; `TestingInOrder`: nothing is written between
  copy and jump, no window is tested twice or left out; `KeysTakeEffect`: skips and
  changes are not lost; `RunEnds`.
* `MCRunTest` (151,933): three cores, two rounds of a test with two blocks to check in
  each, a skip at any tick. `LeaveTogether`: all leave at the same bail-out;
  `TestFinishes`: tests end, and sooner when skipped. Between tests, three cores and two
  moves of the program, booted at either load address, between them, or where it
  cannot stay: every order in which the cores pass the start-up code. Two moves are needed
  for a copy that is used again. `RestartRight` is the conjunction of lock, pointers, memory,
  copies in use and waits; `CoresRestart`: each core comes through.
* `MCBadRam` (130,991): all sequences of up to six different addresses of four
  bits, repeated reports included, with three entries, in both kinds of mode. Six
  addresses force three merges. `AllCaptured`: no fault is lost; `TableTight`: while
  the faults fit nothing else is covered, and regions stay sorted.
* `MCPatterns` (54,357): every test on segments that divide unevenly, that are
  too small to share, or that belong to two NUMA domains, with one to three
  cores, and a sound memory, stuck bits inside and at the edges of chunks, every pair of
  shorted address lines, and weak bits with two distances and limits.
  `ErrorsReal` (no false alarm, the faulty word is blamed), `FaultsFound` (stuck bits, aliases, weak bits, by the
  tests that are meant for them), and `NobodyStranded`: all cores come to the same number of
  waits.
* `MCMemory` (1,351,639): 64 pages of two bytes, so that ranges can end within
  a page. Twenty e820 maps with overlaps and with entries at the ends of the address
  space, three NUMA tables, three kinds of processors, three settings
  of the limits (one with the lower limit inside the first window, where its first pages may be
  the heap's),
  two allocations; UEFI machines with few and many descriptors, on which the
  firmware allocates twice at any time. `UsableMemoryOnly`, `BlocksApart`, `WindowsRight`
  (the program is never tested, an error's address is that of its page, everything
  is tested, the benchmark stays in free memory), `WindowsApart` (nothing twice, nothing that a driver
  has and nothing outside the map, but for what `run_test` puts in front of the first window), `EfiSetupRight`
  (all and only what the firmware gives up, a screen that is large enough, no failure
  because the map changes), `EfiEnds`.
* `MCSmp` (286,318): four cores for a table of three, tables that are good,
  doubled, out of order, damaged or missing, found through each of the
  pointers; NUMA nodes; dead and late cores; command lines; files of saved
  settings in both layouts, no file, no drive; and key sequences
  through every menu, refused entries, saving and deleting included. `SettingsRight` (what is set is what the user
  means), `CpusRight` (one number per core, the boot processor is CPU 0 and is never
  reset, shares are distinct, the barrier counts those that come, a late core is held),
  `StartEnds`.
* `MCStorage` (2,109,167): ten drives for the mount; a volume of five clusters with
  a file of somebody else, two copies of the table, four directory slots, reports
  of two clusters, so that the volume and the directory fill up; one failed transfer
  and one pulled drive at any step. `FilesIntact` (files whole, no cluster with two
  owners, nothing leaked, settings kept), `MountRight`, `OperationsEnd`.
* `MCUsbScan` (240,239): EHCI with a companion, with firmware that does not let
  go, xHCI with USB 2 and USB 3 ports, more controllers than the list holds;
  hubs, composite keyboards, drives with several configurations and alternate
  settings; two failing requests and three plugs. `DevicesRight` (keyboards found,
  addresses and routes unique, endpoints that belong together), `FoundDevicesKept`,
  `ScansDone` (drives found, scans end).
* `MCSpd` (14,466): modules of seven kinds, several controllers, EEPROMs left on
  any page, SMBIOS tables that are right, wrong or missing; two failing
  transactions. `ModulesShown`: what is shown for a slot is what is on the label of the
  module in it; `StartupEnds`.
* `MCUsbIo` (295,203): small, large and old drives, up to two faults (late
  answers, transfer errors, refused commands), keys pressed at any time, rings of
  four and six entries so that every ring wraps; a terminal with all
  forms of escape sequences and a poll in the middle; a field edited with four keys; two
  keyboards, requests and a drive on each of the older controllers, with one or two
  errors.
  `DriveRight`: what is reported as done was done; `KeysRight`: no key is lost, doubled or
  misread, on any of the three keyboards; `IoProgress`: sessions end and keys are taken.

Every action and every disjunct of the next-state relations is taken in one of
these runs.

`CHECK_DEADLOCK FALSE` is set for `ErrorLog`, `TestLoop`, `SmpStart`, `UsbScan`,
`Dimms` and `Console`, where what is modelled ends: the master is in a loop that
only polls the keyboard, a start has succeeded or failed, all plugs and
sessions of the bounds are used up.

### Fairness

Weak fairness of the steps of every core: the cores are real processors that
keep executing. The same for the single thread of the drivers, of `efi_setup`
and of the files, and for the hardware whose answer is modelled as a step of
its own (the controller completes a transfer or the driver's wait reaches its
limit; characters arrive; a report is sent). No fairness is assumed
for keys, plugs, faults, firmware changes, finding errors, or for being the one to get
`error_mutex` (only that a core whose step stays enabled takes one). Tests are
assumed to end (`Tick`, `StartRun`, `NextTest`, `Verdict`), as their loops are
bounded. A barrier opens (`Open`) by what `Barrier` shows under the fairness
of the cores.

## Proofs

All for every value of the constants, under the named assumptions of the
modules only.

* `BarrierProofs`: `InvHolds` establishes `Inv`, the conjunction of the counter
  property, "an NMI finds a waiter", that all waiters of a round use the same
  function, that only one core can be releasing, and which flags are still set
  while it does so (`HeldInv`: exactly those of released cores that the loop has
  still to come to). The latter is what makes it inductive: a core that re-enters
  must not have its new flag cleared by the old loop, and it cannot, because the
  new round cannot complete, and the flags it has passed are not touched. From
  it follow `CounterCorrect`, `NmiCorrect`, `TypeCorrect`, and `SafeRefinement`:
  each step is a step of `AbstractBarrier` or a stutter, where the mapping is
  the operator `st`.
* `ErrorLogProofs`: `MutexCorrect` and `CountCorrect`. `CountInv` is the
  strengthening: what is ignored or in flight has been found. `VerdictCorrect`: a PASS is
  right, if `MenuValues` does not let the user switch `continue_on_error` off (the
  first entry of the next section is why). `VerdictInv` adds that errors are only ignored
  once the master has stopped, and that after a PASS no core tests. `LogIsTruthful`: under
  the same hypothesis the log and the reports tell the truth (`LogTruthful`), in the
  specification that adds the lines to the steps of `ErrorLog`. `LogInv` adds to that
  promise what the code's flag `log_error_seen` stands for while the log runs (the error line of this test
  is out), and that errors are ignored, and the test stopped, only in a run that has counted
  one, so that neither can turn a report into a PASS. `LoggedVerdictCorrect` carries
  count and verdict over to that specification, which is the one the run checks. That lines
  come whole needs `WriterInv`: who is at work holds the mutex, or is the master after an ECC
  error, and then an error line was begun before. The tick that takes no lock follows the
  `common_err` of the same ECC error, which has set `log_error_seen` under the mutex and so
  keeps every other core from a line of its own until all cores wait. (`common_err` returns
  before that, error.c:164, only when a test has failed and `continue_on_error` was switched off
  afterwards: the same hypothesis.)
* `TestLoopProofs`: `CoresStayTogether`, `ProgramNeverTested`, `TestsComplete` and the
  action property `SkipEnds`, for any set of cores, whichever are excluded, tests with any number of stages,
  any windows, configurations and keys, and any number of passes. The barrier cannot tell
  where its callers are, so none of this is inductive by itself. `LoopInv` says that
  between two openings all cores are in one phase, named by the wait they have left: each has
  still to act, or waits already at the one place where that phase leads (`Together`,
  `Onward`). Whether a core gets there depends on what it has decided about itself
  (`Roles`), on the window (`Windows`), on which copy it executes (`Images`) and on what keys
  and CPU 0 may have changed at which wait (`Decisions`, `Masters`); a flag that could be set in
  another phase would send two cores to two waits. Completeness needs `FirstWindow` (the
  first window is passed over only if it is not to be tested) and `Progress`: what has been
  tested is exactly what is due, by core, stage and window. One hypothesis:
  `OnlyLastUnmapped`, no window with memory but the last one is impossible to map; without it the
  theorems are false (main.c:660, below).
* `RunTestProofs`, moves of the program: `RestartCorrect`, with no hypothesis beside the assumptions on the
  constants (at least one core, load addresses that are different and not zero). `StartupInv` has four phases:
  core 0 boots (`Booting`); cores leave one copy and start in another (`Starting`); all have
  arrived there and leave the first wait (`Choosing`); they test in place, or core 0 copies
  and all jump (`Acting`). A copy in which cores are starting is `Sound`: its lock is held by
  the one core in the start-up code, and its pointers are those of the address it was last
  relocated for, or half of them are, while a core is at it (`HalfDone`: those it has not
  come to are still as they were, so that adding the offset is right for them). A
  copy that all have started in is `Settled`, which is what may be copied: its lock is free and it
  says where it is relocated for. `Counted` ties the count of the barrier, which is not
  copied, to the flags, which are.
* `SmpStartProofs`: `CpusAreRight`, for any number of CPUs and cores, any firmware, memory map,
  command line and keys. The assumptions on the constants are the types of what the firmware
  provides, room for two CPUs (`MAX_CPUS` is at least that) and that the boot processor is one
  of the cores. The hypothesis `MpTablesRight` is what the code takes from an MP table without a check:
  no processor twice, the boot processor's entry and no other marked so, and
  nothing left from a damaged MADT; it holds for the tables of the run, which TLC
  evaluates. Without it two numbers can name one core. First the tables: `Recursion` and `UpTo`,
  from the least-number principle of the library, turn each recursive function over the entries into
  facts about the entries read so far. In a MADT each slot holds the id of another entry
  (`MadtHeld`), in an MP table likewise (`MpHeld`), the
  exchange with CPU 0 keeps this, and a pointer the search returns is one the firmware
  means. Then the start. `IInv` is needed because the property only speaks of the end:
  it keeps what the tables gave (`TablesHeld`), that nothing has been started before the CPUs are counted
  (`NotStarted`), where the boot processor is (`Program`), and that each core that was
  sent a message has a number no greater than the one being started (`CoresHeld`). The set of CPUs
  that were enabled when they were counted is lost once the states become "running"; `Counted` says
  it exists. At `pc = "main"` the numbers of that set other than 0
  and the cores that execute are in bijection, which is the count of the barrier.
* `RunTestProofs`: `NoneLeftBehind`, for every program in which the poll of
  the keyboard stands between two waits, assuming no other polls. The
  invariant says that the cores still in the test are between the same two
  waits, that once `bail` is set nobody has a `BAILOUT` behind him in this
  interval, and that when somebody has left the others come to no wait before
  they leave too.
* `BadRamProofs`: `CaptureCorrect` and `TypeCorrect`: no address is lost in
  insertion, combination in place, or forced merge, in either mode, whatever the
  order of the table. `TightCorrect`: while the faults fit, nothing else is covered, and
  regions stay sorted. `TightInv` adds that there is at most one entry per fault, so that no
  merge is forced before the faults are more than the entries, and for regions that they are
  intervals with different starts: a region may grow down to another one and
  overlap it, so it is the order of the starts, not disjointness, that is kept. The heart is
  arithmetic: a combination that costs one address covers one more (`OneMoreExact`),
  since only the first two powers of two differ by one and a region can only grow at an end.
* `WindowMapProofs`, heap: `HeapKeepsBlocksApart`: an allocation shares no page with
  another live one and none with the memory map, whatever is marked,
  allocated, kept and rewound. `HeapInv` adds to it that the segments stay apart
  (`MapInv`), that a heap names a segment and its original end (`HeapsInv`), that
  every block lies between the present and the original end of its segment
  (`BlocksInv`), and that the blocks allocated since a mark lie below the mark
  (`MarksInv`): a rewind gives back only pages whose blocks it ends. It assumes
  that no request exceeds the end of its segment (`~Oversized`): the subtraction
  of `heap_alloc` is unsigned.
* `WindowMapProofs`, windows: `WindowsAreRight` and `WindowsStayApart`, for any memory maps, NUMA
  tables, limits, load addresses and sizes of windows, on the three kinds of processors, while the
  drivers allocate and rewind between any two windows. First what `setup_vm_map` computes. A
  segment is split without a loss (`SplitRight`): the entries up to the page that is reached are
  the segment up to there (`SplitOpen`), and with each piece a border of the table is passed, of which there are
  two for a range, so that the loop ends. The entries of a window are the pages of the segments inside it
  and the limits, and the first one, which decides whether the window can be mapped, has the least
  (`SetupRight`). Then the state. `Memory` is what the segments hold and what a
  rewind can give back to them; a step of the heaps never adds to it (`HeapNextMemory`), which is needed
  because a page that is allocated while its window passes and freed afterwards is not tested, and
  need not be: there are no marks when a window is set up. `WindowInv` says that a window lies in one part of the address
  space (`VmRight`, from where a window begins: `Position`), and that each page of `Memory` below `window_end` is
  tested or left out for a reason (`Swept`); when a window cannot be mapped, none above it
  can (`CanMapBelow`). Two hypotheses. `MapsRight`: `pmem_init` leaves the segments in order,
  and no segment that begins below the low load limit begins so close to it that the program
  placed there would reach over it, which `set_load_addr` does not check; TLC
  evaluates it for the maps of the run. Of the pages in front of
  the first segment `WindowsStayApart` says only that they are not tested twice, because `run_test`
  takes them without asking the map or the heaps (`PutInFront`: they end where the segment begins).
  It also needs `TablesCover`: where there is a NUMA table,
  its ranges cover the memory; otherwise the whole segment may be entered a second time (main.c:526).
* `FatProofs`, files: `FilesStayIntact`, for any number of clusters, copies of the table,
  slots, sizes of a report, failed transfers and moments at which the drive is pulled.
  `IInv` has three parts. `Safe`: each file's entry leads along a chain of clusters of its own to an
  end mark, with the data of that file in it; and an operation works on clusters that
  no file has (`Spare`): writing, it has a chain of so many of them (`Work`), of which so many have
  data (`Tagged`), and the entry is written last; deleting, the entry goes first, and what
  remains to be freed is closed under the table (`Doomed`), so that freeing can
  never reach a file whatever is in the table. A sector that is still to be written is
  safe by itself and leads to a state where the next is (`OpInv`), since after any of them
  the drive may be gone. `NoLoss`, before any failure: the clusters in use are those of
  the files and those the operation holds, as counted (`UsedInv`); the copies of the table differ by
  the sectors still to be written (`TablesInv`); no two files have a name (`NamesInv`);
  and what a start would read is what was saved, on the drive or in the
  operation (`KeptInv`). `MountShape` is the record of the mount. The assumption on
  the constants is that the file of somebody else that is there from the beginning is a chain without
  repetition.
* `FatProofs`, mount: `MountFindsVolume`, for any drives and failed transfers. `MountInv` says
  what the one buffer holds at each step (for a GPT the sector of entries that is noted as
  loaded, until a boot sector replaces it; for an MBR the table, or a boot sector) and that the
  entries already passed lead to no volume, or that a transfer failed. For an MBR the code
  reads the next entry from the buffer even when a boot sector has replaced the table there. So
  there is the hypothesis `NoStrayEntries`: in no boot sector of a FAT partition
  do these bytes pass for a FAT partition. It holds for the drives of
  the run. Both theorems are about `SafeSpec`, which is `Spec` without fairness.
* `RunTestProofs`, chunks: for every segment, number of cores and alignment the chunks
  are disjoint and inside the segment (`ChunksApart`), consecutive ones leave no gap
  (`NoGap`), and what no core gets is the end of the segment, shorter than one
  alignment unit per core (`TailShort`). The argument is arithmetic: the rounded size
  times the number of cores is between the length less that amount and the length
  (`ShareBounds`).

Only model-checked:

* all liveness (`ImplementsBarrier` with fairness, `StopsOnError`, the second half of
  `KeysTakeEffect`, `RunEnds`, `TestFinishes`, `CoresRestart`, `EfiEnds`, `StartEnds`,
  `OperationsEnd`, `ScansDone`, `StartupEnds`, `IoProgress`), which is outside the prover's
  reach;
* `ErrorsReal`, `FaultsFound` and `NobodyStranded`: `Patterns` computes with bitwise
  operators, and what a sweep leaves in memory is an induction over its words;
* `UsableMemoryOnly`, `EfiSetupRight`, `SettingsRight`, `ModulesShown`: what parsers, sorting,
  formatting and menus compute by folds over sequences (where a loop is a recursive function, as
  in `WindowMap` and `CpuTables`, the proof goes through the function's domain by its least
  counterexample; the folds of the library cannot be opened in this way);
* `DevicesRight`, `FoundDevicesKept`, `DriveRight`, `KeysRight`: the routes, the descriptors and
  the rings are sequences that are filtered, flattened and folded at every step, so that
  already the types of these machines are inductions over data.

Only proved, since the theorems hold for every instance: `MutualExclusion` and the types of
the error log, `RunTest`'s `Inv`, the types of the BadRAM table, and the inductive
invariants `LoopInv`, `StartupInv`, `TightInv`, `LogInv`, `WindowInv`, the `IInv` of `SmpStartProofs` and the
two of `FatProofs`.

## Where the code and its documentation disagree

Seen while modelling. The properties above are stated so that they hold for what
the code does, and their comments name the exceptions.

* With `continue_on_error` a run fails without stopping. If the user then
  switches the option off and changes the configuration, `testpass` is still 2, and
  every error of the new run is ignored: the verdict may be PASS (`NoFalsePass`
  fails when `MenuValues` contains `FALSE`).
* A test for one core leaves the loop over the windows when `map_window` fails while
  the other cores go through it once more, if two windows or more lie beyond what can be mapped
  (main.c:660; `BarrierAgreement` is checked with one such window, and fails with two).
* A change of the configuration in the endless loops that stop the test has no
  effect, against README.md.
* A rejected test order in sequential mode restarts the pass with the master of
  the interrupted one; `TestComplete` leaves out behaviours with such a key.
* After a smaller selection the pass runs on with what lies behind `test_sequence`.
* A skip while an error is shown in address mode is polled outside `do_tick` and may
  leave some cores waiting for ever (`LeaveTogether` fails when `Pollers` or
  `EccInput` say so).
* The BadRAM table is not sorted in BadRAM mode, as two comments assume.
  `AllCaptured` holds nevertheless: the order only influences which pair is merged.
* Errors are still counted by a core that was past the check when the test
  stopped (`error.c:164`); `error_count_cecc` and `test_list[].errors` are not reset
  by a new run although README.md:369 says the statistics are; `badram_display`
  polls the keyboard on any core although error.c:294 reserves this to the
  master; the address tests have the mode `ONE`, so that in parallel mode they are
  not run by each core as README.md:643 says; testing ends after `max_pass_num`
  passes although README.md:310 says it continues indefinitely.
* The modulo-n test checks fewer words near the end of a chunk than it writes:
  the stuck bits it promises to find exclude its last words.
* A drive that is exchanged on a port that was in use is not scanned again
  (`DriveFound` leaves such ports out).
* A page switch of an EEPROM that is lost makes both checks of the checksum read
  the wrong page, so that a good module is flagged (spd.c:1143;
  `GoodModuleNotFlagged` excludes it).
* `msd_reset_recovery` may fail unnoticed, after which a late status wrapper may be
  taken for that of the next command (`SuccessMeansDone` excludes it).
* In an MBR with a FAT partition that is not a FAT16 or FAT32 volume the later
  partitions are not found, because the boot sector has replaced the table in the buffer
  (`VolumeFound`).
* A second suffix in a number field turns the first one into a digit
  (`FieldRight`).
* The emptying of the serial receiver every ten seconds loses keys of a
  terminal, although no dongle is required (`LineKeysRight`).
* A damaged MADT does not take back the CPUs it has counted, whereas a bad MP table does ("reset to
  initial value", smp.c:490): the processors of an MP table that is then used get further
  numbers, and a core may have two (`MpTablesRight` excludes it).
* The option `nobench` has no effect: `membw_init` (main.c:319) runs before `config_init`
  reads the command line (config.c:351).
* A report saved in the second dummy pass says PASS before anything was tested.
* `run_test` begins the first window at the lower limit (tests.c:148), also when
  `setup_vm_map` has left out the memory there, because a driver has it or because it is
  reserved. The tests then write to it, whereas "drivers require some memory to be reserved
  for their private use, which means that memory can't then be covered by the memory tests"
  (README.md:265). It takes a lower limit in the first window, below the first segment of the map
  there (`InFront`, the exception of `WindowsApart`).
* "The initial test configuration is modified such that only the specified tests in the list are
  active" (README.md:246), but a `CONFIG.BIN` that is found replaces the list
  (config.c:1411). The tests in it are taken as they are: with none, no test is selected, which the
  menu would refuse (`TestsRun` names both exceptions).
* The number of cores that is shown leaves out the excluded efficient cores (display.c:245), which
  run the parallel tests nevertheless.
* `amd_spd_read_byte` reads the type of the memory through `dmi_memory_device` (i2c.c:1437), which is
  null without a usable SMBIOS table; `AmdSwitches` takes what lies there not to be DDR5.
* OHCI and UHCI requests have no limit of their own ("Rely on the controller to timeout"):
  with a device that refuses for ever they do not end. A keyboard on EHCI is dead after an error,
  because the halted queue head is not restarted; on UHCI each error costs a key, because the
  toggle is changed although nothing was sent (`HcdKeysInOrder`, `HcdSettled`).

## Plan

Done: barriers, error log and serial log, main loop, moves of the program, active cores,
BadRAM table; chunks and tests; memory map, heap, benchmark, windows and the start under UEFI;
tables, settings and start of the cores; drives, files, USB scans and transfers on all
controllers; console; memory modules; proofs for barriers, error log, main loop, moves of
the program, active cores, BadRAM table, heap, windows, chunks, serial log, files, the mount, tables
and start of the cores.

Left:

1. inductive invariants for `KeysRight` and `DriveRight` (one entry of a ring, one owner);
2. the refinement of `TestLoop`'s relocation step by `Startup`, now shown apart;
3. `map_region`, which hands out pages for device registers and never takes
   them back; the fields of the FADT.

## Not modelled

* The dongle: the build has `REQUIRE_DONGLE 0`, and `dongle_is_authorized`
  returns at once. What is left of it, the emptying of the receiver, is in
  `Console`.
* Identification of CPUs, caches, chipsets and memory controllers, temperatures:
  tables and register fields that are read once and shown; a model would
  repeat the table. ECC errors found by polling are an input of `ErrorLog`.
* Screen, fonts, printing, strings and the statistics of `update_error_info`:
  output that nothing reads back.
* The MBR, the switches of the processor modes and the paging tables themselves. The entry
  point and the relocation of the image are in `Startup`.
* The other architectures: the models follow the x86 build. The SIMD forms of the
  generators compute the same lanes as the scalar ones.
