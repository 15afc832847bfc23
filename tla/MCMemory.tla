------------------------------ MODULE MCMemory ------------------------------
(* A machine of 64 pages of 2 bytes: the reserved range is pages 4 and 5, the *)
(* low load limit page 8, a window 16 pages, two windows are pinned.          *)
EXTENDS Boot

Ram(a, b) == [addr |-> a, size |-> b - a, type |-> E820_RAM]
Hidden(a, b) == [addr |-> a, size |-> b - a, type |-> 2]
Acpi(a, b) == [addr |-> a, size |-> b - a, type |-> E820_ACPI]

\* Low memory, extended memory in one piece or around a hole, or memory through
\* the reserved range.
Bases == {<<Ram(0, 7), Hidden(7, 12), Ram(12, 90)>>,
          <<Ram(72, 104), Ram(0, 10), Ram(12, 66)>>,
          <<Ram(0, 104)>>}

\* What else the firmware reports, overlapping or not.
Extras == <<Hidden(21, 25), Acpi(89, 93), Ram(111, 112), Ram(9, 12)>>

MCE820Maps ==
  {b \o SelectSeq(Extras, LAMBDA e : e \in S) :
     b \in Bases,
     S \in {{}, {Extras[i] : i \in DOMAIN Extras}} \cup {{Extras[i]} : i \in DOMAIN Extras}}
  \cup {<<Ram(0, 7), Ram(12, 90), Hidden(120, 140)>>, <<Ram(12, 16)>>}

MCMaps == {PmemInit(m) : m \in MCE820Maps}

\* No NUMA; two domains in order; interleaved ranges, the table not sorted.
Range0(a, b) == [start |-> a, end |-> b, domain |-> 0]
Range1(a, b) == [start |-> a, end |-> b, domain |-> 1]
MCAffinityTables ==
  {<< >>, <<Range0(0, 30), Range1(30, 64)>>,
   <<Range1(40, 64), Range0(0, 4), Range0(6, 40)>>}

\* From the start, from a page a heap may have taken, and above the first window.
MCLimits == {[lower |-> 0, upper |-> 64], [lower |-> 2, upper |-> 37], [lower |-> 9, upper |-> 37]}
\* UEFI: a large memory with holes, and one with a single free page left.
Runs(s) == FlattenSeq([i \in DOMAIN s |-> [k \in 1 .. s[i][1] |-> s[i][2]]])
Memory(s) == [p \in 0 .. Len(Runs(s)) - 1 |-> Runs(s)[p + 1]]
Large == Memory(<<<<3, "free">>, <<1, "boot">>, <<2, "none">>, <<1, "loader">>, <<9, "free">>, <<1, "acpi">>,
                  <<1, "runtime">>, <<1, "boot">>, <<8, "free">>, <<1, "none">>, <<6, "free">>>>)
Full == Memory(<<<<1, "boot">>, <<3, "loader">>, <<2, "none">>, <<1, "loader">>, <<2, "free">>, <<1, "boot">>>>)

Mode(h, v) == [h |-> h, v |-> v]
Gop(blt, con, modes) == [blt_only |-> blt, con_out |-> con, modes |-> modes, current |-> 1]
Wide == <<Mode(6, 3), Mode(9, 6), Mode(7, 4), Mode(4, 6)>>
Gops == {<< >>, <<Gop(TRUE, TRUE, Wide), Gop(FALSE, FALSE, <<Mode(2, 2)>>), Gop(FALSE, TRUE, Wide)>>,
         <<Gop(FALSE, FALSE, <<Mode(2, 2)>>)>>}
Options == {<< >>, <<[kind |-> "rotate", h |-> 0, v |-> 0]>>,
            <<[kind |-> "mode", h |-> 9, v |-> 6], [kind |-> "other", h |-> 0, v |-> 0]>>,
            <<[kind |-> "mode", h |-> 0, v |-> 0]>>}

MCFirmwares ==
  {[efi |-> TRUE, handover |-> FALSE, memory |-> Full, gops |-> g, options |-> o] : g \in Gops, o \in Options}
  \cup {[efi |-> TRUE, handover |-> TRUE, memory |-> Large, gops |-> << >>, options |-> << >>]}
\* Processors with and without caches; the RAM buffers of the last do not fit anywhere.
Caches(l1, l2, l3) == [l1 |-> l1, l2 |-> l2, l3 |-> l3]
MCCacheSizes == {Caches(0, 0, 0), Caches(8, 0, 0), Caches(6, 11, 0), Caches(8, 24, 0), Caches(6, 12, 30)}
MCProgram == [start |-> 6, end |-> 7]

\* The hypothesis of the theorem holds for these maps.
ASSUME MapsOfMachines == MapsRight
=============================================================================
