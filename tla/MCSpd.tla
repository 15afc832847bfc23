------------------------------- MODULE MCSpd -------------------------------
(***************************************************************************)
(* Machines for Dimms: one module of each generation, as its maker         *)
(* programs it (JEDEC), with the label it carries, on the controllers of   *)
(* each vendor.                                                            *)
(***************************************************************************)
EXTENDS Dimms

\* The pages of an EEPROM whose bytes are listed as <<address, byte>>.
Image(n, bytes) ==
    [p \in {e[1] \div n : e \in bytes} |->
       LET here == {e \in bytes : e[1] \div n = p}
       IN  [o \in {e[1] % n : e \in here} |-> (CHOOSE e \in here : e[1] % n = o)[2]]]

Mod(n, paged, bytes, label) == [paged |-> paged, pages |-> Image(n, bytes), good |-> TRUE, label |-> label]

\* 16 GB, two 32-bit channels of x8 16 Gb chips, DDR5-4800 CL40-40-40-77.
M5(sku) == Mod(128, TRUE,
    {<<0, 48>>, <<2, 18>>, <<4, 4>>, <<6, 32>>, <<20, 160>>, <<21, 1>>, <<30, 0>>, <<31, 65>>,
     <<32, 0>>, <<33, 65>>, <<34, 0>>, <<35, 65>>, <<36, 0>>, <<37, 125>>, <<235, 34>>,
     <<512, 5>>, <<513, 64>>, <<516, 39>>, <<521, sku>>},
    [NoInfo EXCEPT !.valid = TRUE, !.type = "DDR5", !.size = 16384, !.freq = 4800, !.tCL = 40,
        !.tRCD = 40, !.tRP = 40, !.tRAS = 77, !.jedec = 1344, !.sku = sku, !.temp = TRUE, !.week = 27])

\* The same with one XMP profile, DDR5-6000 CL30-36-36-76, and two ranks.
M5Xmp == Mod(128, TRUE,
    {<<0, 48>>, <<2, 18>>, <<4, 4>>, <<6, 32>>, <<20, 160>>, <<21, 1>>, <<31, 65>>, <<33, 65>>,
     <<35, 65>>, <<37, 125>>, <<234, 8>>, <<235, 34>>, <<640, 12>>, <<641, 74>>,
     <<709, 77>>, <<710, 1>>, <<717, 6>>, <<718, 39>>, <<719, 212>>, <<720, 46>>, <<721, 212>>,
     <<722, 46>>, <<723, 234>>, <<724, 98>>, <<512, 5>>, <<513, 64>>, <<521, 66>>},
    [NoInfo EXCEPT !.valid = TRUE, !.type = "DDR5", !.size = 32768, !.freq = 6000, !.xmp = 3, !.tCL = 30,
        !.tRCD = 36, !.tRP = 36, !.tRAS = 76, !.jedec = 1344, !.sku = 66, !.temp = TRUE])

\* 8 GB, 64 bits of x8 8 Gb chips, DDR4-2666 CL19-19-19-43.
M4(sku) == Mod(256, TRUE,
    {<<0, 35>>, <<2, 12>>, <<4, 5>>, <<12, 1>>, <<13, 3>>, <<18, 6>>, <<24, 110>>, <<25, 110>>,
     <<26, 110>>, <<27, 17>>, <<28, 0>>, <<320, 1>>, <<321, 44>>, <<324, 32>>, <<329, sku>>},
    [NoInfo EXCEPT !.valid = TRUE, !.type = "DDR4", !.size = 8192, !.freq = 2666, !.tCL = 19,
        !.tRCD = 19, !.tRP = 19, !.tRAS = 43, !.jedec = 300, !.sku = sku, !.week = 20])

\* 4 GB, two ranks of x8 2 Gb chips, ECC, DDR3-1333 CL9.
M3 == Mod(256, FALSE,
    {<<0, 146>>, <<2, 11>>, <<4, 3>>, <<7, 9>>, <<8, 11>>, <<12, 12>>, <<16, 105>>, <<18, 105>>,
     <<20, 105>>, <<21, 1>>, <<22, 32>>, <<117, 0>>, <<118, 44>>, <<128, 77>>},
    [NoInfo EXCEPT !.valid = TRUE, !.type = "DDR3", !.size = 4096, !.ecc = TRUE, !.freq = 1333,
        !.tCL = 9, !.tRCD = 9, !.tRP = 9, !.tRAS = 24, !.jedec = 44, !.sku = 77])

\* 2 GB, two ranks of 1 GB, DDR2-800 CL5.
M2 == Mod(256, FALSE,
    {<<0, 128>>, <<2, 8>>, <<5, 1>>, <<9, 37>>, <<18, 32>>, <<27, 50>>, <<29, 50>>, <<30, 45>>,
     <<31, 1>>, <<64, 127>>, <<65, 152>>, <<73, 80>>},
    [NoInfo EXCEPT !.valid = TRUE, !.type = "DDR2", !.size = 2048, !.freq = 800, !.tCL = 5,
        !.tRCD = 5, !.tRP = 5, !.tRAS = 18, !.jedec = 280, !.sku = 80])

\* 512 MB, two banks of 256 MB, DDR-400 CL3, ECC.
M1 == Mod(256, FALSE,
    {<<0, 128>>, <<2, 7>>, <<5, 2>>, <<9, 80>>, <<11, 2>>, <<18, 16>>, <<27, 60>>, <<29, 60>>,
     <<30, 40>>, <<31, 64>>, <<64, 44>>, <<73, 81>>},
    [NoInfo EXCEPT !.valid = TRUE, !.type = "DDR", !.size = 512, !.ecc = TRUE, !.freq = 400, !.tCL = 3,
        !.tRCD = 3, !.tRP = 3, !.tRAS = 8, !.jedec = 44, !.sku = 81])

\* 128 MB PC133 SDRAM CL3.
M0 == Mod(256, FALSE,
    {<<0, 128>>, <<2, 4>>, <<3, 12>>, <<4, 10>>, <<5, 1>>, <<9, 117>>, <<17, 4>>, <<18, 4>>,
     <<27, 20>>, <<29, 20>>, <<30, 45>>, <<64, 44>>, <<73, 82>>},
    [NoInfo EXCEPT !.valid = TRUE, !.type = "SDRAM", !.size = 128, !.freq = 133, !.tCL = 3,
        !.tRCD = 3, !.tRP = 3, !.tRAS = 6, !.jedec = 44, !.sku = 82])

\* 128 MB RDRAM PC800.
MR == Mod(256, FALSE,
    {<<0, 128>>, <<1, 8>>, <<2, 1>>, <<4, 150>>, <<5, 197>>, <<10, 8>>, <<11, 20>>, <<12, 7>>,
     <<14, 8>>, <<15, 19>>, <<64, 44>>, <<73, 83>>, <<99, 8>>},
    [NoInfo EXCEPT !.valid = TRUE, !.type = "RDRAM", !.size = 128, !.freq = 800, !.tCL = 8,
        !.tRCD = 7, !.tRP = 8, !.tRAS = 20, !.jedec = 44, !.sku = 83])

-----------------------------------------------------------------------------
Fn(vid, did, base, modules) ==
    [vid |-> vid, did |-> did, class |-> FALSE, bar |-> base, io |-> TRUE, pm |-> base, on |-> TRUE,
     mmio |-> 0, late |-> FALSE, rev |-> 0, base |-> base, modules |-> modules]
Ich(m) == Fn("INTEL", "ICH", 1024, m)
Vga    == [Fn("INTEL", "VGA", 0, <<>>) EXCEPT !.io = FALSE]
None   == [s \in {} |-> M0]

\* An SMBIOS device: size in MB, 0 where it is empty; at: the slot of its module, or -1.
Dev(type, size, at) ==
    [kind |-> 17, short |-> FALSE, map |-> 0,
     dev |-> [handle |-> at + 2, type |-> type, size |-> size, mode |-> "mb", speed |-> 3000, sku |-> 0,
              at |-> at, named |-> TRUE]]
Map(a, b, handle) == [Dev("none", 0, -1) EXCEPT !.kind = 20, !.map = [start |-> a, end |-> b, handle |-> handle]]
End == [Dev("none", 0, -1) EXCEPT !.kind = 127]
Table(entry, structs) == [entry |-> entry, structs |-> structs, count |-> 10, cut |-> FALSE]
NoTable == Table("none", <<>>)

Machine(t, fs, crc) == [table |-> t, functions |-> fs, crc |-> crc]

MCMachines == {
    \* DDR4 behind a PCI function that is no controller, an empty slot between the modules
    Machine(Table("v2", <<Dev("DDR4", 8192, 0), Dev("DDR4", 0, -1), Dev("DDR4", 8192, 2),
                          Map(0, 1, 4), Map(2, 4, 2), Map(5, 5, 9), End>>),
            <<Vga, Ich(0 :> M4(65) @@ 2 :> M4(65))>>, TRUE),
    \* DDR5, one module with XMP, one with a wrong checksum
    Machine(Table("v3", <<Dev("DDR5", 16384, 0), Dev("DDR5", 32768, 1)>>),
            <<Ich(0 :> [M5(65) EXCEPT !.good = FALSE] @@ 1 :> M5Xmp)>>, TRUE),
    \* DDR5 on an AMD machine, the second module without a name that differs, a third device
    \* that is populated and does not answer
    Machine(Table("v2", <<Dev("DDR5", 16384, 1), Dev("DDR5", 16384, 2), Dev("DDR5", 0, -1), End, Dev("DDR5", 1, 0)>>),
            <<Fn("AMD", "ZEN", 2816, 1 :> M5(65) @@ 2 :> M5(67))>>, FALSE),
    \* two controllers, the first one without modules
    Machine(Table("v2", <<Dev("DDR5", 16384, 0)>>), <<Ich(None), [Ich(0 :> M5(65)) EXCEPT !.class = TRUE]>>, FALSE),
    Machine(Table("v2", <<Dev("DDR4", 8192, 0)>>), <<Ich(None), Ich(0 :> M4(65))>>, FALSE),
    \* controllers without a module: the AMD one is the fallback
    Machine(Table("v2", <<Dev("DDR5", 16384, 0), Dev("DDR5", 16384, 1)>>),
            <<Ich(None), [Fn("AMD", "FCH", 2816, None) EXCEPT !.rev = 66, !.pm = Dead, !.late = TRUE, !.mmio = 2816],
              Fn("VIA", "x", 1024, None)>>, FALSE),
    \* older machines
    Machine(NoTable, <<Fn("NVIDIA", "MCP", 1280, 1 :> M2)>>, TRUE),
    Machine(NoTable, <<Fn("ALI", "x", 1280, 0 :> M1 @@ 1 :> M0)>>, TRUE),
    Machine(NoTable, <<[Fn("ATI", "SB600", 2816, 0 :> M3) EXCEPT !.rev = 61, !.pm = 0]>>, FALSE),
    Machine(Table("v2", <<Dev("DDR3", 4096, 0)>>), <<Fn("ATI", "SB400", 2816, 0 :> M3)>>, TRUE),
    Machine(NoTable, <<Fn("VIA", "x", 1280, 2 :> MR)>>, TRUE),
    \* no controller; no controller and no table; a table that is cut short
    Machine(Table("v2", <<Dev("DDR4", 8192, 0)>>), <<Vga>>, FALSE),
    Machine(NoTable, <<Vga>>, FALSE),
    Machine([Table("v2", <<Dev("DDR5", 16384, 0), Dev("DDR5", 16384, 1)>>) EXCEPT !.cut = TRUE],
            <<Ich(0 :> M5(65) @@ 1 :> M5(65))>>, FALSE),
    Machine([Table("v2", <<Dev("DDR3", 4096, 0), Map(0, 1, 2), Dev("DDR3", 4096, 1)>>) EXCEPT !.count = 1],
            <<Ich(0 :> M3)>>, FALSE),
    \* more devices than lines, one of them hidden
    Machine(Table("v2", <<[Dev("DDR3", 0, -1) EXCEPT !.short = TRUE], Dev("DDR3", 0, -1), Dev("DDR3", 0, -1),
                          Dev("DDR3", 4096, 0), Dev("DDR3", 4096, 1)>>),
            <<Ich(0 :> M3 @@ 1 :> M3)>>, FALSE),
    Machine(Table("v2", <<Dev("DDR3", 4096, 0), [Dev("DDR3", 0, 1) EXCEPT !.dev.sku = 77], Map(0, 2, 3),
                          [Dev("none", 0, -1) EXCEPT !.kind = 1], Map(1, 2, 2)>>),
            <<Ich(0 :> M3 @@ 1 :> M3)>>, FALSE)}
=============================================================================
