------------------------------- MODULE Config -------------------------------
(***************************************************************************)
(* The settings of app/config.c: what config_init takes from the command   *)
(* line, what initial_config then takes from CONFIG.BIN on a USB drive, and*)
(* the menus that it opens before the tests start.                         *)
(*                                                                         *)
(* CONFIG.BIN is a record: its kind ("file", or "legacy" without the       *)
(* language, or "none", or "no drive" to look on), and the settings it     *)
(* holds.  It is one that the program has saved, on a drive that does not  *)
(* fail: see modules Fat and FatMount for those that do.                   *)
(*                                                                         *)
(* Switches are members of config.on.  An option is [name, arg, nums], nums*)
(* being the numbers it lists; a key press is [key, nums], nums being what *)
(* the user types into the fields that the key opens (read_value is in     *)
(* module Console).  What the menus show is left out, and so are restart   *)
(* and bail, which they set and which are cleared before the first test.   *)
(* The same menus can be opened during a test: see TestLoop.               *)
(***************************************************************************)
EXTENDS CpuTables, FiniteSets, FiniteSetsExt

CONSTANTS
  PmMap,      \* pm_map: the memory, as page ranges
  NumTests,   \* NUM_TEST_PATTERNS
  Setups      \* [machine, session]: the hardware, and what the user does

VARIABLES
  machine,      \* the tables, the boot processor, what is mappable
  session,      \* the command line, the keys, and what the user means by them
  cpus,         \* what smp_init found
  nodes,
  cpu_state,
  config,
  menu,         \* the menu on the screen
  typed,        \* the key presses to come
  file          \* CONFIG.BIN

configVars == <<config, menu, typed, file>>

Test == 0 .. (NumTests - 1)
PmEnd == PmMap[Len(PmMap)].end

Available == {i \in CpuNum : i < cpus.num}

-----------------------------------------------------------------------------
(* The memory range *)

\* One round of update_num_pages_to_test.
PagesWithin(seg, lower, upper) ==
  IF seg.start >= lower /\ seg.end <= upper THEN seg.end - seg.start
  ELSE IF seg.start < lower
    THEN IF seg.end < lower THEN 0
         ELSE IF seg.end > upper THEN upper - lower
         ELSE seg.end - lower
  ELSE IF seg.end > upper /\ seg.start <= upper THEN upper - seg.start
  ELSE 0

\* update_num_pages_to_test
WithPages(c) ==
  [c EXCEPT !.pages = FoldLeft(LAMBDA n, seg : n + PagesWithin(seg, c.lower, c.upper), 0, PmMap)]

-----------------------------------------------------------------------------
(* config_init and the command line *)

Defaults ==
  [on |-> {"smp", "exclude", "big_status", "temp_cpu", "temp_ram", "sm", "spd_crc", "bench",
           "mch", "ecc", "pause", "dark", "tty", "cn"},
   cpu_mode |-> 0, error_mode |-> 2, power_save |-> "high", max_passes |-> 0,
   port |-> 0, baud |-> 115200, keyboard |-> "both", usb |-> {},
   tests |-> Test, order |-> [i \in Test |-> i], passes |-> 1,
   lower |-> 0, upper |-> PmEnd, pages |-> 0]

\* The baud rate is told from its first digits.
Baud(c, d) ==
  CASE d[1] = 1 -> IF d[2] = 9 THEN 19200 ELSE 115200
    [] d[1] = 2 -> 230400
    [] d[1] = 3 -> 38400
    [] d[1] = 5 -> 57600
    [] d[1] = 7 -> 76800
    [] d[1] = 9 -> 9600
    [] OTHER -> c.baud

\* parse_serial_params: a UART in memory needs an address above the I/O ports; a serial
\* port is one of four, and may be followed by the rate.
ParseSerialParams(c, o) ==
  IF o.arg \in {"mmio", "ttyAMA"}
    THEN IF o.nums[1] > 65535 THEN [c EXCEPT !.on = @ \cup {"tty"}, !.port = o.nums[1]]
         ELSE [c EXCEPT !.on = @ \ {"tty"}]
  ELSE IF o.nums = << >> \/ o.nums[1] \notin 0 .. 3 THEN [c EXCEPT !.on = @ \cup {"tty"}]
  ELSE [c EXCEPT !.on = @ \cup {"tty"}, !.port = o.nums[1],
                 !.baud = IF Len(o.nums) = 3 THEN Baud(c, Tail(o.nums)) ELSE @]

\* parse_test_list: the numbers up to one that is not a test.  What is no number at all
\* (NotANumber) is read as 0, and ends the list.
NotANumber == -1

ParseTestList(nums) ==
  LET Good(n) == \A k \in 1 .. n : nums[k] \in Test
  IN {nums[i] : i \in {j \in DOMAIN nums : Good(j)}}
       \cup {0 : i \in {j \in DOMAIN nums : Good(j - 1) /\ nums[j] = NotANumber}}

CpuModes == [par |-> 0, seq |-> 1, rr |-> 2, one |-> 2]
ErrorModes == [none |-> 0, summary |-> 1, address |-> 2, badram |-> 3, memmap |-> 4, pages |-> 5]
SwitchOn == [newline |-> "newline", ecc |-> "ecc", dark |-> "dark", numa |-> "numa", trace |-> "trace"]
SwitchOff == [nobench |-> "bench", nobigstatus |-> "big_status", nomch |-> "mch", nopause |-> "pause",
              nosm |-> "sm", nosmp |-> "smp", nospdcrc |-> "spd_crc", nonuma |-> "numa"]
UsbOptions == {"noehci", "usbdebug", "usbinit"}

\* parse_option: an unknown option or argument is passed over.
ParseOption(c, o) ==
  CASE o.name = "console" -> ParseSerialParams(c, o)
    [] o.name = "log" ->
         LET s == ParseSerialParams(c, o)
         IN [s EXCEPT !.on = IF "tty" \in @ THEN @ \cup {"log"} ELSE @ \ {"log"}]
    [] o.name = "maxpasses" -> [c EXCEPT !.max_passes = o.nums[1]]
    [] o.name = "cpuseqmode" /\ o.arg \in DOMAIN CpuModes ->
         [c EXCEPT !.cpu_mode = CpuModes[o.arg]]
    [] o.name = "reportmode" /\ o.arg \in DOMAIN ErrorModes ->
         [c EXCEPT !.error_mode = ErrorModes[o.arg]]
    [] o.name = "keyboard" /\ o.arg \in {"legacy", "usb", "both"} -> [c EXCEPT !.keyboard = o.arg]
    [] o.name = "powersave" /\ o.arg \in {"off", "low", "high"} -> [c EXCEPT !.power_save = o.arg]
    [] o.name = "testlist" -> [c EXCEPT !.tests = ParseTestList(o.nums)]
    [] o.name \in UsbOptions -> [c EXCEPT !.usb = @ \cup {<<o.name, o.arg>>}]
    [] o.name \in DOMAIN SwitchOn -> [c EXCEPT !.on = @ \cup {SwitchOn[o.name]}]
    [] o.name \in DOMAIN SwitchOff -> [c EXCEPT !.on = @ \ {SwitchOff[o.name]}]
    [] OTHER -> c

\* config_init: the options are read in order; the log then takes the serial line.
ConfigInit(options) ==
  LET c == FoldLeft(ParseOption, WithPages(Defaults), options)
  IN IF "log" \in c.on THEN [c EXCEPT !.on = @ \ {"tty"}] ELSE c

-----------------------------------------------------------------------------
(* The saved settings *)

SavedSwitches == {"go_on", "cn"}

\* The loading part of initial_config: what was saved replaces what config_init has set,
\* the tests of the command line too.
LoadAppConfig(c, f) ==
  IF f.kind \notin {"file", "legacy"} THEN c
  ELSE LET loaded == IF f.kind = "file" THEN SavedSwitches ELSE SavedSwitches \ {"cn"}
       IN [c EXCEPT !.tests = f.tests, !.order = f.order, !.passes = f.passes,
                    !.on = (@ \ loaded) \cup (f.on \cap loaded)]

\* save_app_config: the old file is replaced, if there is a drive.
SaveAppConfig ==
  IF file.kind = "no drive" THEN file
  ELSE [kind |-> "file", tests |-> config.tests, order |-> config.order, passes |-> config.passes,
        on |-> config.on \cap SavedSwitches]

\* delete_app_config
DeleteAppConfig == IF file.kind = "no drive" THEN file ELSE [kind |-> "none"]

\* One processor leaves nothing to switch.
Start ==
  \E s \in Setups :
    LET c == ConfigInit(s.session.options)
    IN /\ machine = s.machine
       /\ session = s.session
       /\ cpus = FindCpus(s.machine, "smp" \in c.on)
       /\ nodes = FindNumaNodes(s.machine, cpus, "smp" \in c.on)
       /\ cpu_state = [i \in CpuNum |-> "enabled"]
       /\ config = LoadAppConfig([c EXCEPT !.on = IF cpus.num < 2 THEN @ \ {"smp"} ELSE @],
                                 s.session.saved)
       /\ file = s.session.saved
       /\ menu = IF "pause" \in c.on THEN "pause" ELSE "left"
       /\ typed = s.session.keys

-----------------------------------------------------------------------------
(* The menus.  Each takes the settings and a key press to the settings. *)

Toggle(c, x) == [c EXCEPT !.on = IF x \in @ THEN @ \ {x} ELSE @ \cup {x}]

\* set_all_sequence ends at the first number that is no test or was given before.
IsOrder(nums) ==
  /\ Len(nums) = NumTests
  /\ \A i \in DOMAIN nums : nums[i] \in Test /\ \A j \in DOMAIN nums : nums[i] = nums[j] => i = j

\* Mutant: the last number is left out.
RangeOfOpen(n, S) == IF n[1] \in S /\ n[2] \in S /\ n[1] <= n[2] THEN n[1] .. (n[2] - 1) ELSE {}

\* A range of numbers from n[1] to n[2], if both are in S and in order (add_test_range,
\* add_cpu_range).
RangeOf(n, S) == IF n[1] \in S /\ n[2] \in S /\ n[1] <= n[2] THEN n[1] .. n[2] ELSE {}

\* test_selection_menu: a wrong number changes nothing.
TestsMenu(c, k) ==
  CASE k.key = "1" -> [c EXCEPT !.tests = {}]
    [] k.key = "2" /\ k.nums[1] \in Test -> [c EXCEPT !.tests = @ \ {k.nums[1]}]
    [] k.key = "3" /\ k.nums[1] \in Test -> [c EXCEPT !.tests = @ \cup {k.nums[1]}]
    [] k.key = "4" /\ RangeOf(k.nums, Test) # {} ->
         [c EXCEPT !.tests = @ \cup RangeOf(k.nums, Test)]
    [] k.key = "5" -> [c EXCEPT !.tests = Test]
    [] k.key = "6" /\ IsOrder(k.nums) -> [c EXCEPT !.order = [i \in Test |-> k.nums[i + 1]]]
    [] k.key = "7" /\ k.nums[1] > 0 -> [c EXCEPT !.passes = k.nums[1]]
    [] k.key = "8" -> Toggle(c, "go_on")
    [] OTHER -> c

\* address_range_menu
RangeMenu(c, k) ==
  CASE k.key = "1" /\ k.nums[1] < c.upper -> WithPages([c EXCEPT !.lower = k.nums[1]])
    [] k.key = "2" /\ k.nums[1] > c.lower -> WithPages([c EXCEPT !.upper = k.nums[1]])
    [] k.key = "3" -> WithPages([c EXCEPT !.lower = 0, !.upper = PmEnd])
    [] OTHER -> c

\* cpu_mode_menu and error_mode_menu: a number, or up and down.
ListMenu(now, k, size) ==
  LET number == SelectInSeq(<<"1", "2", "3", "4", "5", "6">>, LAMBDA x : x = k.key)
  IN CASE k.key = "u" /\ now > 0 -> now - 1
       [] k.key = "d" /\ now < size - 1 -> now + 1
       [] number \in 1 .. size -> number - 1
       [] OTHER -> now

BootMenu(c, k) ==
  CASE k.key = "1" -> Toggle(c, "trace")
    [] k.key = "2" -> Toggle(c, "ecc")
    [] OTHER -> c

\* The CPUs a key of cpu_selection_menu names, and what they become.  CPU 0 cannot be named.
Named(k) ==
  LET others == Available \ {0}
  IN CASE k.key \in {"1", "5"} -> others
       [] k.key \in {"2", "3"} -> {k.nums[1]} \cap others
       [] k.key = "4" -> RangeOf(k.nums, others)
       [] OTHER -> {}

Becomes(k) == IF k.key \in {"1", "2"} THEN "disabled" ELSE "enabled"

\* An entry of the first menu opens another one.  CPUs are chosen only with smp_enabled.
Opens(k) ==
  CASE k.key = "1" -> "tests"
    [] k.key = "2" -> "range"
    [] k.key = "3" -> "mode"
    [] k.key = "4" -> "errors"
    [] k.key = "5" /\ "smp" \in config.on -> "cpus"
    [] k.key = "8" -> "boot"
    [] OTHER -> "main"

MainMenu(c, k) ==
  CASE k.key = "6" -> Toggle(c, "temp_cpu")
    [] k.key = "7" -> Toggle(c, "temp_ram")
    [] k.key = "9" -> Toggle(c, "cn")
    [] OTHER -> c

-----------------------------------------------------------------------------

NextKey == typed' = Tail(typed) /\ UNCHANGED <<machine, session, cpus, nodes>>

At(m) == menu = m /\ typed # << >>
Typed == typed[1]

\* initial_config waits three seconds for a key; the wait is over when there is none.
PauseKey ==
  /\ At("pause")
  /\ menu' = CASE Typed.key = "esc" -> "reboot"
               [] Typed.key = "1" -> "main"
               [] Typed.key = "enter" -> "left"
               [] OTHER -> "pause"
  /\ config' = IF Typed.key = "2" THEN Toggle(config, "smp") ELSE config
  /\ NextKey /\ UNCHANGED <<cpu_state, file>>

PauseOver ==
  /\ menu = "pause" /\ typed = << >>
  /\ menu' = "left"
  /\ UNCHANGED <<machine, session, cpus, nodes, cpu_state, config, typed, file>>

\* config_menu(true): "s" saves the settings; "d" deletes the saved ones and reboots.
MainMenuKey ==
  /\ At("main")
  /\ menu' = CASE Typed.key = "0" -> "left" [] Typed.key = "d" -> "reboot" [] OTHER -> Opens(Typed)
  /\ config' = MainMenu(config, Typed)
  /\ file' = CASE Typed.key = "s" -> SaveAppConfig [] Typed.key = "d" -> DeleteAppConfig [] OTHER -> file
  /\ NextKey /\ UNCHANGED cpu_state

\* A menu is left with "0"; the one of the tests only if a test is selected.
Leaves(m) == Typed.key = "0" /\ (m = "tests" => config.tests # {})

SubMenuKey(m, next) ==
  /\ At(m)
  /\ menu' = IF Leaves(m) THEN "main" ELSE m
  /\ config' = next
  /\ NextKey /\ UNCHANGED <<cpu_state, file>>

CpusMenuKey ==
  /\ At("cpus")
  /\ menu' = IF Leaves("cpus") THEN "main" ELSE "cpus"
  /\ cpu_state' = [i \in CpuNum |-> IF i \in Named(Typed) THEN Becomes(Typed) ELSE cpu_state[i]]
  /\ config' = IF Typed.key = "6" THEN Toggle(config, "exclude") ELSE config
  /\ NextKey /\ UNCHANGED file

ConfigNext ==
  \/ PauseKey \/ PauseOver \/ MainMenuKey \/ CpusMenuKey
  \/ SubMenuKey("tests", TestsMenu(config, Typed))
  \/ SubMenuKey("range", RangeMenu(config, Typed))
  \/ SubMenuKey("mode", [config EXCEPT !.cpu_mode = ListMenu(@, Typed, 3)])
  \/ SubMenuKey("errors", [config EXCEPT !.error_mode = ListMenu(@, Typed, 6)])
  \/ SubMenuKey("boot", BootMenu(config, Typed))

-----------------------------------------------------------------------------
(* Properties *)

ConfigTypeOK ==
  /\ config.lower \in Nat /\ config.upper \in Nat /\ config.pages \in Nat
  /\ config.cpu_mode \in 0 .. 2 /\ config.error_mode \in 0 .. 5
  /\ config.tests \subseteq Test /\ config.order \in [Test -> Test]
  /\ menu \in {"pause", "main", "tests", "range", "mode", "errors", "cpus", "boot", "left", "reboot",
             "done"}

\* The number of pages that is shown and tested is the number of pages of the memory map
\* between the limits, and the limits stay in order, whatever numbers the user enters and in
\* whatever order (update_num_pages_to_test, address_range_menu).
PagesRight ==
  /\ config.lower < config.upper
  /\ config.pages =
       Cardinality({p \in config.lower .. (config.upper - 1) :
                      \E i \in DOMAIN PmMap : PmMap[i].start <= p /\ p < PmMap[i].end})

\* The tests the saved settings bring, if there are any.
SavedTests == IF session.saved.kind \in {"file", "legacy"} THEN session.saved.tests ELSE Test
NoTestList == \A i \in DOMAIN session.options : session.options[i].name # "testlist"

\* No entry of the test order can make a selected test disappear: every selected test has a
\* place in the order (set_all_sequence), and the menus cannot be left without a test
\* (test_selection_menu), unless the command line or the saved settings select none and the
\* user does not change that.
TestsRun ==
  /\ \A t \in config.tests : \E i \in Test : config.order[i] = t
  /\ menu = "left" /\ SavedTests # {} /\ NoTestList => config.tests # {}

\* The serial line has one user: the log or the console (config_init).
LineHasOneUser == ~({"log", "tty"} \subseteq config.on)

\* When the menus are left, the settings are what the user means: entries that are refused
\* have changed nothing, the others all took effect, and the CPUs selected are the ones the
\* user wants (parse_command_line, initial_config, config_menu and the menus it opens).  Settings
\* saved before win over the command line, although a list of tests there is said to be the tests
\* that are active (README.md), and the menus win over both; what is saved now is what the
\* settings are then (save_app_config).
WishesGranted ==
  /\ menu = "left" =>
       /\ \A f \in DOMAIN session.wants : config[f] = session.wants[f]
       /\ session.off \cap Available = {i \in Available : cpu_state[i] = "disabled"}
  /\ menu \in {"left", "reboot"} =>
       \A f \in DOMAIN session.keeps : file[f] = session.keeps[f]

\* What the program uses is what the user means, after any command line, any saved settings
\* and any sequence of keys: pages, tests, CPUs, serial line, and all switches (config_init,
\* initial_config, the menus).
SettingsRight == ConfigTypeOK /\ PagesRight /\ TestsRun /\ LineHasOneUser /\ WishesGranted

=============================================================================
