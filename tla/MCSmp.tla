------------------------------- MODULE MCSmp -------------------------------
EXTENDS SmpStart

Lapic(id, s) == [type |-> "lapic", id |-> id, state |-> s]
X2apic(id, s) == [type |-> "x2apic", id |-> id, state |-> s]
Malformed == [type |-> "malformed", id |-> 0, state |-> "off"]
LapicAddr == [type |-> "addr", id |-> 0, state |-> "off"]

MpCpu(id, boot, old) == [type |-> "cpu", id |-> id, boot |-> boot, old |-> old]
MpOther(type) == [type |-> type, id |-> 0, boot |-> FALSE, old |-> FALSE]

Memory(d, a, b) == [type |-> "memory", domain |-> d, start |-> a, end |-> b, id |-> 0, on |-> TRUE]
Node(d, id) == [type |-> "apic", domain |-> d, start |-> 0, end |-> 0, id |-> id, on |-> TRUE]
NodeOff(d, id) == [Node(d, id) EXCEPT !.on = FALSE]

\* Cores listed twice, in both forms, in any order, disabled, too many.
Madts ==
  {<<Lapic(0, "enabled"), Lapic(1, "capable"), LapicAddr, Lapic(2, "off")>>,
   <<Lapic(1, "enabled"), X2apic(1, "enabled"), X2apic(0, "enabled"), X2apic(2, "capable")>>,
   <<Lapic(2, "enabled"), Lapic(0, "enabled"), Lapic(1, "enabled"), Lapic(3, "enabled")>>,
   <<Lapic(1, "enabled"), Lapic(2, "enabled")>>}

\* A good table after one that is not usable, or after none.
Mps ==
  {<<MpCpu(0, TRUE, FALSE), MpOther("bus"), MpCpu(2, FALSE, FALSE)>>,
   <<MpCpu(1, FALSE, FALSE), MpCpu(0, TRUE, FALSE), MpOther("unknown")>>,
   <<MpCpu(0, TRUE, FALSE), MpCpu(1, FALSE, TRUE)>>}

Srats ==
  {<< >>,
   <<Memory(7, 0, 4), Node(7, 0), Memory(9, 4, 8), Node(9, 1)>>,
   <<Memory(7, 0, 4), Node(7, 0), NodeOff(8, 1), Memory(7, 4, 6), Memory(7, 8, 10)>>,
   <<Memory(7, 4, 0), Node(7, 0)>>}

\* The firmware's tables: none is listed where there are no entries.
Table(sig, entries) == [sig |-> sig, sum |-> TRUE, entries |-> entries]
Root(sig, madt, srat) ==
  [sig |-> sig, sum |-> TRUE,
   list |-> SelectSeq(<<Table("FACP", << >>), Table("APIC", madt), Table("SRAT", srat)>>,
                      LAMBDA t : t.sig = "FACP" \/ t.entries # << >>)]
Rsdp(rev, rsdt, xsdt) == [rev |-> rev, sum |-> TRUE, xsum |-> TRUE, rsdt |-> rsdt, xsdt |-> xsdt]
Rsdp2(madt, srat) == Rsdp(2, Root("RSDT", << >>, << >>), Root("XSDT", madt, srat))
Rsdp1(madt, srat) == Rsdp(0, Root("RSDT", madt, srat), Root("none", << >>, << >>))
Efi(guid, rsdp) == [guid |-> guid, rsdp |-> rsdp]
NoAcpi == [efi |-> << >>, ebda |-> << >>, bios |-> << >>]

Machine(madt, fp, mp, srat, x2) ==
  [acpi |-> [NoAcpi EXCEPT !.efi = <<Efi("smbios", Rsdp1(<< >>, << >>)),
                                     Efi("acpi2", Rsdp2(madt, srat))>>],
   fp |-> fp, mp |-> mp, x2apic |-> x2,
   mappable |-> TRUE, bsp |-> 0]

\* Pointers that disagree: the good one names cores 0 and 1, the others core 2.
New == <<Lapic(0, "enabled"), Lapic(1, "enabled")>>
Old == <<Lapic(0, "enabled"), Lapic(2, "enabled")>>

Firmwares ==
  {[NoAcpi EXCEPT !.efi = <<Efi("acpi1", Rsdp1(Old, << >>)), Efi("acpi2", Rsdp2(New, << >>)),
                            Efi("acpi1", Rsdp1(Old, << >>))>>,
                  !.bios = <<Rsdp1(Old, << >>)>>],
   [NoAcpi EXCEPT !.ebda = <<[Rsdp2(Old, << >>) EXCEPT !.xsum = FALSE]>>,
                  !.bios = <<[Rsdp1(Old, << >>) EXCEPT !.sum = FALSE], Rsdp1(New, << >>)>>],
   [NoAcpi EXCEPT !.efi = <<Efi("acpi1", Rsdp1(New, << >>))>>,
                  !.ebda = <<Rsdp2(Old, << >>)>>],
   [NoAcpi EXCEPT !.bios = <<[Rsdp2(Old, << >>) EXCEPT !.xsdt.sum = FALSE]>>],
   [NoAcpi EXCEPT !.ebda = <<[Rsdp2(Old, << >>) EXCEPT !.xsdt.list[2].sum = FALSE]>>]}

Machines ==
  {[Machine(<< >>, "none", << >>, << >>, FALSE) EXCEPT !.acpi = a] : a \in Firmwares}
  \cup {Machine(m, "none", << >>, s, x) : m \in Madts, s \in Srats, x \in BOOLEAN}
  \cup {Machine(<< >>, "table", m, s, FALSE) : m \in Mps, s \in Srats}
  \cup {Machine(<< >>, "default", << >>, << >>, FALSE),
        Machine(<<Lapic(1, "enabled"), Lapic(0, "enabled"), Malformed>>, "none", << >>, << >>, FALSE),
        Machine(<<Lapic(0, "enabled"), Malformed>>, "table",
                <<MpCpu(0, TRUE, FALSE), MpCpu(1, FALSE, FALSE)>>, << >>, FALSE),
        [Machine(CHOOSE m \in Madts : TRUE, "none", << >>, << >>, FALSE)
           EXCEPT !.mappable = FALSE]}

\* Three cores, two of them on the second node.
Three == <<Lapic(0, "enabled"), Lapic(1, "enabled"), Lapic(2, "enabled")>>
Plain == Machine(Three, "none", << >>, << >>, FALSE)
Nodes == Machine(Three, "none", << >>,
                 <<Memory(7, 0, 4), Node(7, 0), Memory(9, 4, 8), Node(9, 1), Node(9, 2)>>, FALSE)

\* Five pages, a hole, three more.
MCPmMap == <<[start |-> 0, end |-> 5], [start |-> 7, end |-> 10]>>

Option(name, arg, nums) == [name |-> name, arg |-> arg, nums |-> nums]
Press(key) == [key |-> key, nums |-> << >>]
Enter(key, nums) == [key |-> key, nums |-> nums]
Menu(keys) == <<Press("1")>> \o keys \o <<Press("0")>>
Nothing == [x \in {} |-> 0]
Session(options, keys, wants, off) ==
  [options |-> options, keys |-> keys, wants |-> wants, off |-> off,
   saved |-> [kind |-> "no drive"], keeps |-> Nothing]

\* The CPUs alone, with and without the nodes.
Deselect(off) ==
  Menu(<<Press("5")>> \o [i \in 1 .. Cardinality(off) |-> Enter("2", <<SetToSeq(off)[i]>>)]
       \o <<Press("0")>>)
CpuSessions ==
  {Session(<<Option("numa", "", << >>)>>, Deselect(off), Nothing, off) : off \in SUBSET {1, 2}}

\* Wrong numbers, ranges the wrong way round, the boot processor, all and none.
CpuMenuSession ==
  Session(<< >>,
          Menu(<<Press("5"), Press("1"), Enter("3", <<0>>), Enter("3", <<3>>), Enter("4", <<2, 1>>),
                 Enter("4", <<1, 3>>), Enter("4", <<1, 2>>), Enter("2", <<0>>), Enter("2", <<1>>),
                 Press("u"), Press("6"), Press("0")>>),
          Nothing, {1})

\* Test 1 last and test 0 left out, twice each, after entries that are refused.
TestMenuSession ==
  Session(<<Option("testlist", "", <<2, NotANumber, 1>>)>>,
          Menu(<<Press("1"), Press("1"), Press("0"), Enter("3", <<3>>), Enter("4", <<1, 2>>),
                 Enter("4", <<2, 1>>), Enter("6", <<2, 0, 1>>), Enter("6", <<2, 2, 1>>),
                 Enter("6", <<2, 3, 1>>), Press("5"), Enter("2", <<0>>), Enter("7", <<5>>),
                 Enter("7", <<0>>), Press("8"), Press("0")>>),
          [tests |-> {1, 2}, order |-> [i \in Test |-> <<2, 0, 1>>[i + 1]], passes |-> 5], {})

\* Limits in the hole, inside one segment, beyond the memory, and the wrong way round.
RangeSession(keys, lower, upper) ==
  Session(<< >>, Menu(<<Press("2")>> \o keys \o <<Press("0")>>), [lower |-> lower, upper |-> upper], {})
RangeSessions ==
  {RangeSession(<<Enter("1", <<2>>), Enter("2", <<1>>), Enter("2", <<4>>), Enter("1", <<4>>)>>, 2, 4),
   RangeSession(<<Enter("1", <<6>>), Enter("2", <<7>>)>>, 6, 7),
   RangeSession(<<Enter("2", <<20>>), Enter("1", <<8>>), Enter("1", <<20>>)>>, 8, 20),
   RangeSession(<<Enter("2", <<8>>), Enter("1", <<5>>), Press("3"), Enter("1", <<9>>)>>, 9, 10)}

\* The other menus, and the switches.
ModeSession ==
  Session(<<Option("cpuseqmode", "rr", << >>), Option("reportmode", "pages", << >>),
            Option("reportmode", "all", << >>), Option("keyboard", "usb", << >>),
            Option("powersave", "low", << >>), Option("usbinit", "2", << >>), Option("xyz", "", << >>)>>,
          <<Press("2"), Press(" "), Press("2")>>
            \o Menu(<<Press("3"), Press("d"), Press("u"), Press("4"), Press("0"),
                      Press("4"), Press("d"), Press("1"), Press("u"), Press("d"), Press("0"),
                      Press("8"), Press("1"), Press("2"), Press("2"), Press("0"),
                      Press("6"), Press("7"), Press("7"), Press("9"), Press("x")>>),
          [cpu_mode |-> 1, error_mode |-> 1, keyboard |-> "usb", power_save |-> "low",
           on |-> (Defaults.on \cup {"trace"}) \ {"temp_cpu", "cn"}], {})

\* The serial line, in all the ways it is named.
LineSession(options, port, baud, on) ==
  Session(options, <<Press("enter")>>,
          [port |-> port, baud |-> baud, on |-> (Defaults.on \ {"tty"}) \cup on], {})
LineSessions ==
  {LineSession(<<Option("console", "", << >>)>>, 0, 115200, {"tty"}),
   LineSession(<<Option("console", "ttyS", <<2, 9, 6>>)>>, 2, 9600, {"tty"}),
   LineSession(<<Option("log", "ttyS", <<1, 1, 9>>), Option("maxpasses", "", <<3>>)>>, 1, 19200, {"log"}),
   LineSession(<<Option("log", "ttyS", <<7>>), Option("console", "ttyS", <<3, 4, 8>>)>>, 3, 115200, {"log"}),
   LineSession(<<Option("console", "mmio", <<70000>>)>>, 70000, 115200, {"tty"}),
   LineSession(<<Option("log", "mmio", <<0>>)>>, 0, 115200, {})}

\* No pause, one processor; the way out.
Others ==
  {Session(<<Option("nosmp", "", << >>), Option("nopause", "", << >>)>>, << >>, Nothing, {}),
   Session(<< >>, <<Press("2")>>, Nothing, {}),
   Session(<< >>, <<Press("esc")>>, Nothing, {}),
   Session(<< >>, <<Press("1"), Press("d")>>, Nothing, {})}

\* Settings of an earlier session on a drive, in both layouts and with no test at all, with
\* and without a list of tests on the command line.
SavedFile(kind, tests) ==
  [kind |-> kind, tests |-> tests, order |-> [i \in Test |-> 2 - i], passes |-> 4, on |-> {"go_on"}]
TestList == <<Option("testlist", "", <<1>>)>>
FileSession(options, keys, kind, tests, on) ==
  [Session(options, keys, [tests |-> tests, passes |-> 4, order |-> [i \in Test |-> 2 - i], on |-> on], {})
     EXCEPT !.saved = SavedFile(kind, tests), !.keeps = SavedFile(kind, tests)]
FileSessions ==
  {FileSession(<< >>, << >>, "file", {0, 2}, (Defaults.on \ {"cn"}) \cup {"go_on"}),
   FileSession(<< >>, <<Press("enter")>>, "file", {}, (Defaults.on \ {"cn"}) \cup {"go_on"}),
   FileSession(<< >>, << >>, "legacy", {0, 2}, Defaults.on \cup {"go_on"}),
   FileSession(TestList, Menu(<<Press("9")>>), "file", {0, 2}, Defaults.on \cup {"go_on"}),
   [Session(TestList, << >>, [tests |-> {1}], {}) EXCEPT !.saved = [kind |-> "none"],
                                                        !.keeps = [kind |-> "none"]]}

\* Over saved settings the menus have the last word, and "s" and "d" change the file; there
\* may be no drive.
SavingSession(saved) ==
  [Session(<< >>,
           Menu(<<Press("1"), Enter("2", <<0>>), Enter("7", <<5>>), Press("8"), Press("0"),
                  Press("s"), Press("9")>>),
           [tests |-> saved.tests \ {0}, passes |-> 5], {})
     EXCEPT !.saved = saved,
            !.keeps = [SavedFile("file", saved.tests \ {0}) EXCEPT !.passes = 5, !.on = {"cn"}]]
SavingSessions ==
  {SavingSession([SavedFile("file", {0, 2}) EXCEPT !.on = {"go_on", "cn"}]),
   SavingSession(SavedFile("legacy", {0, 1})),
   [Session(<< >>, Menu(<<Press("s")>>), Nothing, {}) EXCEPT !.keeps = [kind |-> "no drive"]],
   [Session(<< >>, <<Press("1"), Press("d")>>, Nothing, {})
      EXCEPT !.saved = SavedFile("file", {1}), !.keeps = [kind |-> "none"]]}

Setup(m, s) == [machine |-> m, session |-> s]

MCSetups ==
  {Setup(m, s) : m \in Machines, s \in CpuSessions}
  \cup {Setup(Nodes, s) : s \in CpuSessions \cup {CpuMenuSession}}
  \cup {Setup(Plain, s) : s \in {CpuMenuSession, TestMenuSession, ModeSession} \cup RangeSessions
                                \cup LineSessions \cup Others \cup FileSessions
                                \cup SavingSessions}

\* The hypothesis of the theorem holds for these machines.
ASSUME MpTablesOfMachines == MpTablesRight
=============================================================================
