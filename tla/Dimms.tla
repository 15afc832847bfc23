------------------------------- MODULE Dimms -------------------------------
(***************************************************************************)
(* How the memory modules are found and shown at start-up: the SMBIOS      *)
(* table (system/smbios.c), the search for the SMBus controller and the    *)
(* reads of the SPD EEPROMs with their page switches (system/x86/i2c.c),   *)
(* what is decoded from them (module Spd), and how print_spd_startup_info  *)
(* brings the modules and the SMBIOS slots together.                       *)
(*                                                                         *)
(* A transaction on the bus may fail.  The driver remembers in static      *)
(* variables which page it selected last; the page an EEPROM really is on  *)
(* is a state of the hardware.  The reads of one page that follow each     *)
(* other are one step: they all succeed or all give 0xFF.                  *)
(***************************************************************************)
EXTENDS Spd, FiniteSets

CONSTANTS
    Machines,       \* the machines: [table, functions, crc]
    MaxSpdSlot,     \* MAX_SPD_SLOT
    MaxDmiDevs,     \* MAX_DMI_MEM_DEVS
    MaxAddr,        \* bound: the addresses, in kilobytes
    MaxFails        \* bound: transactions that fail

VARIABLES
    machine,        \* the machine
    dmi,            \* what parse_dmi keeps: [devices, type, maps, known]
    smb,            \* [id, base]: the PCI function last looked at, and smbusbase
    fallback,       \* a controller without a module that answered, or 0
    cached,         \* the static variables spd_page and last_adr
    page,           \* function -> slot -> the page the EEPROM is on
    slot,           \* the slot being read
    todo,           \* the pages still to read
    got,            \* what was read from the slot: [size, pages]
    info,           \* what was decoded from it
    verify,         \* [turn, same]: the turn of the checksum, and whether it fits so far
    physical_spds,  \* the modules found: [slot, info]
    rows,           \* the lines shown
    ram, ram_slot_info,
    pc, fails, lost \* lost: a page switch failed, or was taken for done on another bus

bus  == <<smb, fallback, cached, page>>
spd  == <<slot, todo, got, info, verify, physical_spds>>
screen == <<rows, ram, ram_slot_info>>
vars == <<machine, dmi, bus, spd, screen, pc, fails, lost>>

Slots     == 0 .. MaxSpdSlot - 1
Functions == DOMAIN machine.functions
Fault  == fails < MaxFails /\ fails' = fails + 1
Normal == fails' = fails

-----------------------------------------------------------------------------
(* The SMBIOS table: structs [kind, short, dev, map] in their order.        *)

NoDmi == [devices |-> <<>>, type |-> "none", maps |-> <<>>, known |-> FALSE, left |-> FALSE]

\* One struct of parse_dmi; kind 127 ends the table.
DmiStruct(s, x) ==
    IF s.left \/ x.kind = 127 THEN [s EXCEPT !.left = TRUE]
    ELSE IF x.kind = 17 /\ ~x.short
    THEN [s EXCEPT !.devices = IF Len(@) < MaxDmiDevs THEN Append(@, x.dev) ELSE @,
                   !.known = TRUE,
                   !.type = IF @ = "none" THEN x.dev.type ELSE @]
    ELSE IF x.kind = 20 /\ ~x.short THEN [s EXCEPT !.maps = Append(@, x.map)]
    ELSE s

\* parse_dmi: a table that is cut short, or has more structs than it says, is given
\* up, but the lists of the memory devices and of their addresses stay.
ParseDmi(t) ==
    LET s == FoldLeft(DmiStruct, NoDmi, SubSeq(t.structs, 1, Min({t.count + 1, Len(t.structs)})))
        before == SelectInSeq(t.structs, LAMBDA x : x.kind = 127)
        count  == IF before = 0 THEN Len(t.structs) ELSE before - 1
    IN  IF (t.cut /\ before = 0) \/ count > t.count THEN [s EXCEPT !.known = FALSE, !.type = "none"] ELSE s

\* smbios_init: the entry point of version 2, else the one of version 3, which does
\* not say how many structs there are.
SmbiosInit(t) ==
    CASE t.entry = "v2" -> ParseDmi(t)
      [] t.entry = "v3" -> ParseDmi([t EXCEPT !.count = 65535])
      [] OTHER -> NoDmi

\* smbios_get_dimm_by_address, of an address in halves of a kilobyte: the device of the
\* first range that holds it, or 0.
DimmByAddress(d, a) ==
    LET dev(r) == SelectInSeq(d.devices, LAMBDA x : x.handle = r.handle)
        m == SelectInSeq(d.maps, LAMBDA r : 2 * r.start <= a /\ a <= 2 * r.end /\ dev(r) # 0)
    IN  IF m = 0 \/ ~d.devices[dev(d.maps[m])].named THEN 0 ELSE dev(d.maps[m])

-----------------------------------------------------------------------------
(* The SMBus controllers.  A PCI function is [vid, did, class, bar, io, pm,  *)
(* on, mmio, late, rev, base, modules]: its registers, the I/O base it       *)
(* really answers at, and the modules on its bus (slot -> module).           *)

Dead == 255     \* what an index register that does not exist reads as

Piix4GetSmb(f) == IF f.io THEN f.bar ELSE 0
Ich5GetSmb(f)  == IF f.io THEN f.bar ELSE 0
NvMcpGetSmb(f) == f.bar
AliGetSmb(f)   == f.bar

\* fch_zen_get_smb.
FchZenGetSmb(f) ==
    IF f.late /\ f.pm = Dead THEN f.mmio
    ELSE IF ~f.on /\ f.pm # Dead THEN 0
    ELSE IF f.pm # 0 THEN f.pm ELSE Piix4GetSmb(f)

\* amd_sb_get_smb.
AmdSbGetSmb(f) ==
    IF f.did = "SB600" /\ f.rev <= 61 THEN Piix4GetSmb(f)
    ELSE IF f.did = "FCH" /\ f.rev = 66 THEN FchZenGetSmb(f)
    ELSE IF f.pm \notin {0, Dead} THEN f.pm ELSE Piix4GetSmb(f)

\* find_smb_controller: the I/O base, or 0 where the function is not a known controller.
FindSmbController(f) ==
    CASE f.vid = "INTEL" /\ (f.did = "ICH" \/ f.class) -> Ich5GetSmb(f)
      [] f.vid = "AMD" /\ f.did = "FCH" -> AmdSbGetSmb(f)
      [] f.vid = "AMD" /\ f.did = "ZEN" -> FchZenGetSmb(f)
      [] f.vid = "ATI" /\ f.did = "SB400" -> Piix4GetSmb(f)
      [] f.vid = "ATI" /\ f.did = "SB600" -> AmdSbGetSmb(f)
      [] f.vid = "NVIDIA" /\ f.did = "MCP" -> NvMcpGetSmb(f)
      [] f.vid = "VIA" -> Piix4GetSmb(f)
      [] f.vid = "ALI" -> AliGetSmb(f)
      [] OTHER -> 0

-----------------------------------------------------------------------------
(* One read of an SPD EEPROM.                                               *)

F == machine.functions[smb.id]

\* The module that answers, if the base is that of a controller.
Answers(s) == smb.id # 0 /\ smb.base # 0 /\ smb.base = F.base /\ s \in DOMAIN F.modules

\* get_spd: which read function is used.
ReadBy == CASE smb.id = 0 -> "ich5"
            [] F.vid = "AMD" -> "amd"
            [] F.vid \in {"NVIDIA", "ALI"} -> "plain"
            [] OTHER -> "ich5"

\* ich5_read_spd_byte: whether the page has to be switched.  On DDR4 all modules are
\* switched together, on DDR5 each one alone.
Ich5Switches(s, p) ==
    \/ dmi.type = "DDR4" /\ cached.page # p
    \/ dmi.type = "DDR5" /\ (cached.page # p \/ cached.adr # s)

\* amd_spd_read_byte switches for every byte, on DDR5 only.  Without a usable table it reads
\* the type through a null pointer: a byte of the real-mode interrupt table (the segment of
\* vector 4), which is taken not to be the number of DDR5.
AmdSwitches(s, p) == dmi.type = "DDR5"

Switches(s, p) ==
    CASE ReadBy = "ich5" -> Ich5Switches(s, p)
      [] ReadBy = "amd"  -> AmdSwitches(s, p)
      [] OTHER -> FALSE

Selected(s, p) ==
    IF smb.id = 0 \/ smb.base # F.base THEN page
    ELSE [page EXCEPT ![smb.id] = [t \in Slots |-> IF t = s \/ dmi.type = "DDR4" THEN p ELSE @[t]]]

Cache(s, p) ==
    IF ReadBy # "ich5" \/ ~Switches(s, p) THEN cached ELSE [page |-> p, adr |-> s]

PageSize == IF dmi.type = "DDR5" THEN 128 ELSE 256

Content(s, now) ==
    IF ~Answers(s) THEN Unread
    ELSE LET m == F.modules[s]
             n == IF m.paged THEN now[smb.id][s] ELSE 0
         IN  IF n \in DOMAIN m.pages THEN m.pages[n] ELSE [o \in {} |-> 0]

PageAfter(s, p) == IF Switches(s, p) THEN Selected(s, p) ELSE page

\* The reads of one page, with the page switch before them: done, with the switch
\* lost on the bus, or without an answer in five attempts; b is what is read.
ReadPage(s, p, b) ==
    /\ cached' = Cache(s, p)
    /\ \/ /\ Normal
          /\ b = Content(s, PageAfter(s, p))
          /\ page' = PageAfter(s, p)
          /\ UNCHANGED lost
       \/ /\ Switches(s, p) /\ Answers(s) /\ Fault
          /\ b = Content(s, page)
          /\ lost' = TRUE
          /\ UNCHANGED page
       \/ /\ Answers(s) /\ Fault
          /\ b = Unread
          /\ page' = PageAfter(s, p)
          /\ UNCHANGED lost

\* What may be read.
Readable(s, p) == {Content(s, page), Content(s, PageAfter(s, p)), Unread}

-----------------------------------------------------------------------------
(* setup_smb_controller.                                                    *)

\* The table is read, the reads of the PCI functions begin.
Start ==
    /\ pc = "start"
    /\ dmi' = SmbiosInit(machine.table)
    /\ pc' = "probe"
    /\ Normal
    /\ UNCHANGED <<machine, bus, spd, screen, lost>>

IsAmdFamily(f) == f # 0 /\ machine.functions[f].vid \in {"AMD", "ATI"}

\* The next PCI function: not a controller; a controller without a module that
\* answers, kept as the fallback; or the one that is used.
NotAController ==
    /\ FindSmbController(machine.functions[smb.id + 1]) = 0
    /\ smb' = [smb EXCEPT !.id = @ + 1]
    /\ UNCHANGED <<fallback, cached, page, slot, pc, lost, fails>>

KeptFallback(f) ==
    IF fallback = 0 \/ (IsAmdFamily(f) /\ ~IsAmdFamily(fallback)) THEN f ELSE fallback

\* find_smb_controller of a controller, which leads to the look at byte 0 of each slot.
AController ==
    /\ FindSmbController(machine.functions[smb.id + 1]) # 0
    /\ smb' = [id |-> smb.id + 1, base |-> FindSmbController(machine.functions[smb.id + 1])]
    /\ slot' = 0
    /\ pc' = "any"
    /\ UNCHANGED <<fallback, cached, page, lost, fails>>

ProbeFunction ==
    /\ pc = "probe" /\ smb.id < Len(machine.functions)
    /\ NotAController \/ AController
    /\ UNCHANGED <<machine, dmi, todo, got, info, verify, physical_spds, screen>>

NextSlot(s) == IF s + 1 < MaxSpdSlot THEN s + 1 ELSE 0

\* Is there a module in this slot?  The page that was selected on another bus counts.
AnySpd ==
    /\ pc = "any"
    /\ \E b \in Readable(slot, 0) :
         /\ ReadPage(slot, 0, b)
         /\ IF b # Unread
            THEN slot' = 0 /\ pc' = "slot" /\ fallback' = 0
            ELSE /\ slot' = NextSlot(slot)
                 /\ pc' = IF slot' = 0 THEN "probe" ELSE "any"
                 /\ fallback' = IF slot' = 0 THEN KeptFallback(smb.id) ELSE fallback
    /\ UNCHANGED <<machine, dmi, smb, todo, got, info, verify, physical_spds, screen>>

\* No function is left: the fallback is used, if there is one.  Without a controller and
\* without SMBIOS devices nothing is shown; with devices the slots are read all the same.
SetupDone ==
    /\ pc = "probe" /\ smb.id = Len(machine.functions)
    /\ smb' = IF fallback = 0 THEN [smb EXCEPT !.id = 0]
              ELSE [id |-> fallback, base |-> FindSmbController(machine.functions[fallback])]
    /\ pc' = IF (fallback = 0 \/ smb'.base = 0) /\ dmi.devices = <<>> THEN "done" ELSE "slot"
    /\ slot' = 0
    /\ Normal
    /\ UNCHANGED <<machine, dmi, fallback, cached, page, todo, got, info, verify, physical_spds, screen,
                   lost>>

-----------------------------------------------------------------------------
(* parse_spd for each slot.                                                 *)

StartSlot ==
    /\ pc = "slot"
    /\ got' = [size |-> PageSize, pages |-> [p \in {} |-> Unread]]
    /\ todo' = <<0>>
    /\ info' = NoInfo
    /\ pc' = "read"
    /\ Normal
    /\ UNCHANGED <<machine, dmi, bus, slot, verify, physical_spds, screen, lost>>

\* Read the next page; byte 0 and byte 2 of the first one say which others there are.
ReadSpd ==
    /\ pc = "read" /\ todo # <<>>
    /\ \E b \in Readable(slot, todo[1]) :
         LET g == [got EXCEPT !.pages = (todo[1] :> b) @@ @] IN
         /\ ReadPage(slot, todo[1], b)
         /\ got' = g
         /\ todo' = IF got.pages # [p \in {} |-> Unread] \/ Byte(g, 0) = 255 THEN Tail(todo)
                    ELSE PagesRead(g)
    /\ UNCHANGED <<machine, dmi, smb, fallback, slot, info, verify, physical_spds, screen, pc>>

NextOrShow == pc' = IF slot' = 0 THEN "show" ELSE "slot"

\* The module is decoded; one with a checksum is checked if that is asked for.
Decode ==
    /\ pc = "read" /\ todo = <<>>
    /\ info' = ParseSpd(got)
    /\ todo' = PagesChecked(got)
    /\ verify' = [turn |-> 1, same |-> TRUE]
    /\ IF machine.crc /\ info'.valid /\ todo' # <<>>
       THEN pc' = "crc" /\ UNCHANGED slot
       ELSE pc' = "keep" /\ UNCHANGED slot
    /\ Normal
    /\ UNCHANGED <<machine, dmi, bus, got, physical_spds, screen, lost>>

\* spd_checksum_ok: a page that is not what was programmed does not fit.
Checksum ==
    /\ pc = "crc" /\ todo # <<>>
    /\ \E b \in Readable(slot, todo[1]) :
         /\ ReadPage(slot, todo[1], b)
         /\ verify' = [verify EXCEPT !.same = @ /\ Answers(slot) /\ F.modules[slot].good
                                             /\ b = (IF todo[1] \in DOMAIN F.modules[slot].pages
                                                     THEN F.modules[slot].pages[todo[1]]
                                                     ELSE [o \in {} |-> 0])]
         /\ todo' = Tail(todo)
    /\ UNCHANGED <<machine, dmi, smb, fallback, slot, got, info, physical_spds, screen, pc>>

\* Mutant: a checksum that does not fit is believed at once.
OnceChecked == verify.same \/ verify.turn = 1

\* Mutant: the check is repeated until it fits.
CheckedUntilGood == verify.same

\* "Verify twice on mismatch."
Checked == verify.same \/ verify.turn = 2

CheckDone ==
    /\ pc = "crc" /\ todo = <<>>
    /\ IF Checked
       THEN /\ info' = [info EXCEPT !.bad_crc = ~verify.same]
            /\ pc' = "keep"
            /\ UNCHANGED <<todo, verify>>
       ELSE /\ todo' = PagesChecked(got)
            /\ verify' = [turn |-> 2, same |-> TRUE]
            /\ UNCHANGED <<info, pc>>
    /\ Normal
    /\ UNCHANGED <<machine, dmi, bus, slot, got, physical_spds, screen, lost>>

\* The loop of print_spd_startup_info over the slots.
Keep ==
    /\ pc = "keep"
    /\ physical_spds' = IF info.valid THEN Append(physical_spds, [slot |-> slot, info |-> info])
                        ELSE physical_spds
    /\ slot' = NextSlot(slot)
    /\ NextOrShow
    /\ Normal
    /\ UNCHANGED <<machine, dmi, bus, todo, got, info, verify, screen, lost>>

-----------------------------------------------------------------------------
(* What is shown.  A line is [dev, name, slot, size, type, freq, tCL, sku,   *)
(* temp, diff]; dev is the SMBIOS device or 0.  A device has its size in     *)
(* MB, 0 for an empty one, or the size "ext" or "unknown".                   *)

Line(dev, s, i) ==
    [dev |-> dev, slot |-> s, size |-> i.size, type |-> i.type, freq |-> i.freq, tCL |-> i.tCL,
     sku |-> i.sku, temp |-> i.temp, diff |-> FALSE]

Populated(d) == d.mode # "unknown" /\ d.size # 0

Upto(n, q) == SubSeq(q, 1, IF Len(q) < n THEN Len(q) ELSE n)
All == [i \in DOMAIN dmi.devices |-> i]
PopDmi == Upto(MaxSpdSlot, SelectSeq(All, LAMBDA i : Populated(dmi.devices[i])))

\* The devices that get a line: all, or the populated ones first where there are too many.
DisplayIndexes ==
    LET rest == SelectSeq(All, LAMBDA i : i \notin ToSet(PopDmi)) IN
    IF Len(dmi.devices) <= MaxSpdSlot THEN All
    ELSE SetToSortSeq(ToSet(Upto(MaxSpdSlot, PopDmi \o rest)), <)

\* The rank of a device among the populated ones, or 0.
Rank(i) == SelectInSeq(PopDmi, LAMBDA j : j = i)

\* The line of a device without a module: what SMBIOS says of it.  A device without a
\* size that has a part number is taken for a populated one.
FromDmi(i) ==
    LET d == dmi.devices[i]
        r == Rank(i)
        size == IF d.mode = "unknown" THEN 0 ELSE d.size
        hidden == size = 0 /\ d.sku # 0
    IN  [dev |-> i, slot |-> IF r = 0 THEN i - 1 ELSE r - 1,
         size |-> IF hidden THEN 16384 ELSE size,
         type |-> IF hidden THEN "DDR4" ELSE IF size = 0 THEN "none" ELSE d.type,
         freq |-> IF hidden THEN 2667 ELSE IF size = 0 THEN 0 ELSE d.speed, tCL |-> 0,
         sku |-> d.sku, temp |-> size # 0 /\ d.type = "DDR5", diff |-> FALSE]

\* The module read for it, or SMBIOS.
LineOf(i) ==
    LET r == Rank(i) IN
    IF r \in 1 .. Len(physical_spds)
    THEN Line(i, physical_spds[r].slot, physical_spds[r].info)
    ELSE FromDmi(i)

\* The part number most lines have, the first one where several are as frequent.
Majority(q) ==
    LET count(k) == Cardinality({m \in DOMAIN q : q[m].size > 0 /\ q[m].sku = q[k].sku})
        full == {k \in DOMAIN q : q[k].size > 0 /\ q[k].sku # 0}
    IN  IF full = {} THEN 0
        ELSE q[CHOOSE k \in full : \A m \in full : count(k) > count(m) \/ (count(k) = count(m) /\ k <= m)].sku

Marked(q) ==
    [k \in DOMAIN q |-> [q[k] EXCEPT !.diff = q[k].size > 0 /\ Majority(q) # 0 /\ q[k].sku # Majority(q)]]

\* Without SMBIOS devices: one line for each slot up to the last module, in steps.
SlotLines ==
    LET top == IF physical_spds = <<>> THEN -1 ELSE physical_spds[Len(physical_spds)].slot
        n == IF top < 0 THEN 0 ELSE IF top < 2 THEN 2 ELSE IF top < 4 THEN 4 ELSE 8
        at(s) == SelectInSeq(physical_spds, LAMBDA x : x.slot = s)
    IN  [k \in 1 .. IF n < MaxSpdSlot THEN n ELSE MaxSpdSlot |->
           IF at(k - 1) = 0 THEN Line(0, k - 1, NoInfo)
           ELSE Line(0, k - 1, physical_spds[at(k - 1)].info)]

\* print_spdi, what it keeps of a line in "ram".
RamOf(r, l) ==
    IF l.size = 0 THEN r
    ELSE [freq |-> IF r.freq = 0 \/ r.freq > l.freq THEN l.freq ELSE r.freq,
          tCL  |-> IF r.tCL < l.tCL THEN l.tCL ELSE r.tCL]

\* The table of the temperature display: slot -> the line and whether it has a sensor.
SlotInfo(q) ==
    FoldLeft(LAMBDA t, k :
               IF (q[k].size > 0 \/ (q[k].dev = 0 /\ q[k].type # "none")) /\ q[k].slot < MaxSpdSlot
               THEN [t EXCEPT ![q[k].slot] = [row |-> k, temp |-> q[k].temp]] ELSE t,
             [s \in Slots |-> [row |-> 0, temp |-> FALSE]], [k \in DOMAIN q |-> k])

Show ==
    /\ pc = "show"
    /\ rows' = IF dmi.devices = <<>> THEN SlotLines
               ELSE Marked([k \in DOMAIN DisplayIndexes |-> LineOf(DisplayIndexes[k])])
    /\ ram' = FoldLeft(RamOf, ram, rows')
    /\ ram_slot_info' = SlotInfo(rows')
    /\ pc' = "done"
    /\ Normal
    /\ UNCHANGED <<machine, dmi, bus, spd, lost>>

\* get_ram_temp: the line on which the temperature of a slot is shown, or 0.
TempRow(s) == IF dmi.type = "DDR5" /\ ram_slot_info[s].temp THEN ram_slot_info[s].row ELSE 0

Init ==
    /\ machine \in Machines
    /\ dmi = NoDmi
    /\ smb = [id |-> 0, base |-> 0] /\ fallback = 0
    /\ cached = [page |-> 255, adr |-> 255]
    /\ page \in [Functions -> [Slots -> {0, 1}]]
    /\ \A f \in Functions : \A s \in Slots : page[f][s] = page[f][0]
    /\ slot = 0 /\ todo = <<>> /\ got = [size |-> 256, pages |-> [p \in {} |-> Unread]] /\ info = NoInfo
    /\ verify = [turn |-> 1, same |-> TRUE]
    /\ physical_spds = <<>>
    /\ rows = <<>> /\ ram = [freq |-> 0, tCL |-> 0]
    /\ ram_slot_info = [s \in Slots |-> [row |-> 0, temp |-> FALSE]]
    /\ pc = "start" /\ fails = 0 /\ lost = FALSE

Next ==
    \/ Start \/ ProbeFunction \/ AnySpd \/ SetupDone
    \/ StartSlot \/ ReadSpd \/ Decode \/ Checksum \/ CheckDone \/ Keep \/ Show

Spec == Init /\ [][Next]_vars /\ WF_vars(Next)


-----------------------------------------------------------------------------
(* Properties.  A module also says what its label is, and a device at which *)
(* slot its module really is.                                               *)

\* The types of the variables.
TypeOK ==
    /\ machine \in Machines
    /\ smb.id \in 0 .. Len(machine.functions) /\ fallback \in 0 .. Len(machine.functions)
    /\ cached.page \in 0 .. 7 \cup {255} /\ cached.adr \in Slots \cup {255}
    /\ page \in [Functions -> [Slots -> 0 .. 7]]
    /\ slot \in Slots
    /\ verify \in [turn : {1, 2}, same : BOOLEAN]
    /\ Len(physical_spds) <= MaxSpdSlot /\ Len(rows) <= MaxSpdSlot
    /\ pc \in {"start", "probe", "any", "slot", "read", "crc", "keep", "show", "done"}
    /\ fails \in 0 .. MaxFails /\ lost \in BOOLEAN

\* The controllers that were looked at before the one in use.
EarlierBuses == {f \in 1 .. smb.id - 1 : FindSmbController(machine.functions[f]) # 0}

\* The page scheme is chosen by the first SMBIOS device: it fits the modules.  On DDR4
\* the AMD read function switches no pages, and the cached page may be that of another
\* controller's modules.
SchemeFits ==
    /\ smb.id # 0
    /\ \A s \in DOMAIN F.modules :
         LET t == F.modules[s].label.type IN
         IF t \in {"DDR4", "DDR5"} THEN dmi.type = t ELSE dmi.type \notin {"DDR4", "DDR5"}
    /\ dmi.type = "DDR4" => ReadBy = "ich5" /\ EarlierBuses = {}

Labels == {[slot |-> s, info |-> [F.modules[s].label EXCEPT !.bad_crc = machine.crc /\ ~F.modules[s].good]] :
             s \in DOMAIN F.modules}

\* What print_spd_startup_info collects is what is in the slots: each module of the
\* controller in use is found once, and its size, speed and timings, its maker and its
\* part number are those of its label, whichever page each EEPROM was left on by the
\* firmware and by the reads of the other slots.
ModulesRead ==
    pc \in {"show", "done"} /\ fails = 0 /\ SchemeFits => ToSet(physical_spds) = Labels

\* The SMBIOS devices are those of the controller in use, in the order of the slots.
Truthful ==
    LET pop == SelectSeq(All, LAMBDA i : dmi.devices[i].at # -1) IN
    /\ smb.id # 0 /\ dmi.devices # <<>>
    /\ \A d \in ToSet(dmi.devices) : Populated(d) = (d.at # -1) /\ (d.at = -1 => d.sku = 0)
    /\ {dmi.devices[i].at : i \in ToSet(pop)} = DOMAIN F.modules
    /\ \A k \in 1 .. Len(pop) - 1 : dmi.devices[pop[k]].at < dmi.devices[pop[k + 1]].at

\* The line of a device shows the module of its own slot, with the maker and timings the
\* module has, and a device without a module shows none; this is so when every module
\* could be read.
RowsMatch ==
    pc = "done" /\ fails = 0 /\ SchemeFits /\ Truthful
    => \A k \in DOMAIN rows :
         LET at == dmi.devices[rows[k].dev].at IN
         IF at = -1 THEN rows[k].size = 0
         ELSE rows[k] = [Line(rows[k].dev, at, F.modules[at].label) EXCEPT !.diff = rows[k].diff]

\* The temperature of a slot appears on the line of the device in that slot: where all
\* modules could be read, and also where none could and the slots are guessed, if the
\* modules are in the first slots.
TemperatureRow ==
    LET n == Len(physical_spds) IN
    /\ pc = "done" /\ dmi.type = "DDR5" /\ Truthful
    /\ n = Cardinality(DOMAIN F.modules) \/ (n = 0 /\ DOMAIN F.modules = 0 .. Cardinality(DOMAIN F.modules) - 1)
    => \A k \in DOMAIN rows :
         LET at == dmi.devices[rows[k].dev].at IN at # -1 => TempRow(at) = k

\* A module whose checksum is right is not flagged because of one transaction that
\* failed, unless this was the switch of a page (parse_spd checks twice).
GoodModuleNotFlagged ==
    fails <= 1 /\ ~lost /\ SchemeFits
    => \A k \in DOMAIN physical_spds : F.modules[physical_spds[k].slot].good => ~physical_spds[k].info.bad_crc

\* The controller that is used has modules that answer, where there is one: a controller
\* without modules that comes first on the PCI bus does not hide it.  Where no module
\* answers, an AMD controller is preferred to others.
ControllerFound ==
    LET usable == {f \in Functions : FindSmbController(machine.functions[f]) # 0}
        live   == {f \in usable : /\ machine.functions[f].base = FindSmbController(machine.functions[f])
                                  /\ DOMAIN machine.functions[f].modules \cap Slots # {}}
    IN  /\ pc \in {"slot", "show", "done"} /\ fails = 0
        => IF live # {} THEN smb.id \in live
           ELSE IF usable = {} THEN smb.id = 0
           ELSE (\E f \in usable : IsAmdFamily(f)) => IsAmdFamily(smb.id)

\* An error at an address of a device is reported for that device, and an address of no
\* device for none.  (The last kilobyte of a range is not taken into account but for its
\* first byte: the end of a range is the number of its last kilobyte.)
AddressNamed ==
    \A a \in 0 .. 2 * MaxAddr :
      LET holds == {m \in DOMAIN dmi.maps : dmi.maps[m].start <= a \div 2 /\ a \div 2 <= dmi.maps[m].end}
          dev   == DimmByAddress(dmi, a)
      IN  /\ dev # 0 => \E m \in holds : dmi.maps[m].handle = dmi.devices[dev].handle
          /\ \A m \in holds : a <= 2 * dmi.maps[m].end /\ holds = {m}
               => \A i \in DOMAIN dmi.devices :
                    dmi.devices[i].handle = dmi.maps[m].handle /\ dmi.devices[i].named => dev = i

\* The start-up comes to an end on every machine, whatever fails on the bus: the searches for a
\* controller and the second reading of a module whose checksum is wrong are not repeated for
\* ever.  A transaction is one step, whose own wait (i2c.c:1350) is not modelled.
StartupEnds == <>(pc = "done")

\* What is shown of a slot is what is in it: the controller with the modules is used, what is
\* read from each is its label, a sound module is not flagged, and the lines, the temperatures and
\* the reported addresses name the right module.
ModulesShown ==
    /\ TypeOK
    /\ ControllerFound /\ ModulesRead /\ GoodModuleNotFlagged
    /\ RowsMatch /\ TemperatureRow /\ AddressNamed

=============================================================================
