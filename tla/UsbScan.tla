------------------------------ MODULE UsbScan ------------------------------
(***************************************************************************)
(* How the USB drivers look for keyboards and for a drive: the probes of   *)
(* the host controllers at start-up (system/usbhcd.c find_usb_keyboards    *)
(* and system/{uhci,ohci,ehci,xhci}.c *_probe), and the scan for a drive   *)
(* that was plugged in later (usb_scan_for_msd, run when a report or the   *)
(* settings are saved).                                                    *)
(*                                                                         *)
(* The drivers are one thread; what is uncertain is the hardware: every    *)
(* request may fail, and devices come and go between two scans.  A hub is  *)
(* scanned by a recursive call, kept here as a stack of frames.  A device  *)
(* is named by its path: a socket of the machine, then the ports of the    *)
(* hubs below it.  An EHCI controller shares its sockets with a companion  *)
(* (UHCI or OHCI), and "owner" says which of the two a socket is wired to. *)
(***************************************************************************)
EXTENDS Integers, Sequences, FiniteSets, SequencesExt

CONSTANTS
    Buses,          \* the machines: controllers, their sockets, what is plugged in
    Empty,          \* the device record of an empty socket
    LatePlugs,      \* the devices that may be plugged in later
    MaxKeyboards,   \* MAX_KEYBOARDS, per controller
    MaxHci, MaxHcd, \* MAX_HCI, MAX_HCD
    BufferLength,   \* how many descriptors fit in the data transfer buffer
    MaxRoutePort,   \* the largest port number a route can hold (15)
    MaxAddress,     \* USB_MAX_ADDRESS
    MaxSlots,       \* the device slots of an xHCI controller
    HeapSize,       \* how many allocations the heap has room for
    MaxFails,       \* bound: requests that fail
    MaxPlugs        \* bound: devices plugged in or unplugged while the tests run

VARIABLES
    bus,            \* the machine: [pci, type, space, smm, ports, companion, caps,
                    \* usb3, unknown, ignore]
    plugged,        \* socket -> the device in it
    owner,          \* socket -> the controller it is wired to
    enabled,        \* socket -> the controller that enabled the port, or 0
    addressed,      \* the devices that have an address: [ctl, path, id]
    hcd_list,       \* the registered controllers
    num_devices,    \* controller -> the addresses it has handed out
    keyboards,      \* controller -> the keyboard info table
    in_use,         \* controller -> the sockets marked in use
    slots,          \* controller -> the enabled slots: slot -> [path, route, parent]
    heap,           \* the allocations, oldest first: [ctl, use, id]
    mark,           \* controller -> ws->initial_heap_mark
    msd,            \* the drive found: {} or one record
    half_done,      \* paths whose second keyboard interface failed to be set up
    todo,           \* the controllers still to probe or to rescan
    scan_mark,      \* the heap mark of the probe or rescan under way
    scanning,       \* "none", "boot" or "rescan"
    stack,          \* the port loops under way: [ctl, path, port, id, found, quirk,
                    \* speed, level, route, parent]
    job,            \* the device being set up: [path, id, left, found]
    pc,             \* the next step
    fails, plugs    \* counted against the bounds

machine == <<bus, plugged, owner, plugs>>
tables  == <<hcd_list, num_devices, keyboards, in_use, msd, half_done>>
memory  == <<slots, heap, mark>>
ports   == <<enabled, addressed>>
control == <<todo, scan_mark, scanning, stack>>
vars == <<machine, tables, memory, ports, control, job, pc, fails>>

Controllers == DOMAIN bus.type
Sockets     == DOMAIN plugged

-----------------------------------------------------------------------------
(* Descriptors: interfaces [t |-> "ifc", cls, num, alt] and endpoints       *)
(* [t |-> "ep", cls, num, in], in the order the device sends them.          *)

\* get_keyboard_info_from_descriptors: the boot keyboards, at most room of them.
KeyboardsIn(descs, room) ==
    LET Read(s, d) ==
          IF Len(s.got) >= room THEN s
          ELSE IF d.t = "ifc" THEN [s EXCEPT !.kbd = IF d.cls = "kbd" THEN {d.num} ELSE {}]
          ELSE IF s.kbd # {} /\ d.in /\ d.cls = "int"
          THEN [got |-> Append(s.got, [ifc |-> CHOOSE n \in s.kbd : TRUE, ep |-> d.num]), kbd |-> {}]
          ELSE s
    IN  FoldLeft(Read, [got |-> <<>>, kbd |-> {}], descs).got

\* get_msd_info_from_descriptors with its result flags: the first BOT interface
\* that has a bulk endpoint in each direction.
MsdRead(s, d) ==
    IF s.in # {} /\ s.out # {} THEN s
    ELSE IF d.t = "ifc"
    THEN IF d.cls = "bot" THEN [ifc |-> {d.num}, alt |-> d.alt, in |-> {}, out |-> {}]
         ELSE [s EXCEPT !.ifc = {}]
    ELSE IF s.ifc # {} /\ d.cls = "bulk"
    THEN IF d.in THEN [s EXCEPT !.in = {d.num}] ELSE [s EXCEPT !.out = {d.num}]
    ELSE s

MsdIn(descs) == FoldLeft(MsdRead, [ifc |-> {}, alt |-> 0, in |-> {}, out |-> {}], descs)

HasBot(info) == info.ifc # {} /\ info.in # {} /\ info.out # {}

\* get_configuration_descriptors: what fits in the buffer.
GetConfigurationDescriptors(d, k) ==
    SubSeq(d.configs[k], 1, IF Len(d.configs[k]) < BufferLength THEN Len(d.configs[k]) ELSE BufferLength)

-----------------------------------------------------------------------------
(* The bus.                                                                 *)

\* The device at the end of a path.
At(path) ==
    FoldLeft(LAMBDA d, p : IF p \in DOMAIN d.kids THEN d.kids[p] ELSE Empty,
             plugged[path[1]], Tail(path))

IsXhci(c) == bus.type[c] = "XHCI"

\* The drivers that have configure_bulk_ep and scan_for_msd.
Rescans(c) == bus.type[c] \in {"EHCI", "XHCI"}

Fault  == fails < MaxFails /\ fails' = fails + 1
Normal == fails' = fails

Top  == stack[Len(stack)]
C    == Top.ctl
Root == Top.path = <<>>
NumPorts == IF Root THEN Len(bus.ports[C]) ELSE Len(At(Top.path).kids)
PortPath == IF Root THEN <<bus.ports[C][Top.port]>> ELSE Append(Top.path, Top.port)
Moved    == [stack EXCEPT ![Len(stack)].port = @ + 1]

\* What is left of the keyboard info table; a rescan passes max_keyboards = 0.
Room == IF scanning = "rescan" THEN 0 ELSE MaxKeyboards - Len(keyboards[C])

\* Mutant: a full keyboard table ends every scan.
EnoughKeyboards == scanning # "rescan" /\ Room <= 0

\* The early exit of a port loop; a rescan of the root ports has none.
Enough ==
    IF Root /\ scanning = "rescan" THEN FALSE
    ELSE IF Root /\ ~Rescans(C) THEN Room <= 0
    ELSE Room <= 0 /\ msd # {}

Disabled(path) ==
    /\ enabled' = IF Len(path) = 1 THEN [enabled EXCEPT ![path[1]] = 0] ELSE enabled
    /\ addressed' = {a \in addressed : ~(a.ctl = C /\ IsPrefix(path, a.path))}

\* heap_rewind
Rewound(h, m) == IF m < Len(h) THEN SubSeq(h, 1, m) ELSE h

-----------------------------------------------------------------------------
(* Start of the probes and of a rescan.                                     *)

\* Mutant: the controllers are probed in the order of the PCI bus.
ProbeInPciOrder(usable) == SelectSeq(usable, LAMBDA c : ~(bus.type[c] = "EHCI" /\ bus.ignore))

\* find_usb_keyboards: the EHCI controllers before all others.
ProbeOrder(usable) ==
    SelectSeq(usable, LAMBDA c : bus.type[c] = "EHCI" /\ ~bus.ignore)
    \o SelectSeq(usable, LAMBDA c : bus.type[c] # "EHCI")

\* find_usb_controllers: the functions of a PCI device, function 0 alone where it is
\* absent or says that it is the only one; at most MaxHci controllers.  A function
\* is the number of a controller, 0 (something else) or -1 (absent).
FunctionsOf(slot) ==
    IF slot.functions[1] = -1 THEN <<>>
    ELSE IF slot.multi THEN slot.functions ELSE <<slot.functions[1]>>

FindUsbControllers ==
    LET all == SelectSeq(FlattenSeq([i \in DOMAIN bus.pci |-> FunctionsOf(bus.pci[i])]),
                         LAMBDA f : f > 0)
    IN  SubSeq(all, 1, IF Len(all) < MaxHci THEN Len(all) ELSE MaxHci)

\* reset_usb_controller up to the reset: registers in the space the driver expects.
Mapped(c) == (bus.type[c] = "UHCI") = (bus.space[c] = "io")

\* The hand-over by the firmware, which *_reset waits for with a limit; UHCI has none.
UhciReset(c) == TRUE
OhciReset(c) == bus.smm[c] # "keeps"
EhciReset(c) == bus.smm[c] # "keeps"
XhciReset(c) == bus.smm[c] # "keeps"

ResetUsbController(c) ==
    /\ Mapped(c)
    /\ CASE bus.type[c] = "UHCI" -> UhciReset(c)
         [] bus.type[c] = "OHCI" -> OhciReset(c)
         [] bus.type[c] = "EHCI" -> EhciReset(c)
         [] OTHER -> XhciReset(c)

\* find_usb_keyboards up to the probes: every controller is reset, and one whose
\* reset fails is marked as unusable.
FindUsbKeyboards ==
    /\ pc = "reset"
    /\ \E bad \in SUBSET Controllers :
         /\ fails + Cardinality(bad) <= MaxFails
         /\ fails' = fails + Cardinality(bad)
         /\ todo' = ProbeOrder(SelectSeq(FindUsbControllers,
                                         LAMBDA c : c \notin bad /\ ResetUsbController(c)))
    /\ scanning' = "boot"
    /\ pc' = "controller"
    /\ UNCHANGED <<machine, tables, memory, ports, scan_mark, stack, job>>

\* usb_scan_for_msd, asked for while the tests run.
UsbScanForMsd ==
    /\ pc = "idle"
    /\ msd = {}
    /\ \A c \in Controllers : num_devices[c] <= MaxAddress   \* bound: rescans
    /\ scanning' = "rescan"
    /\ todo' = SelectSeq(hcd_list, Rescans)
    /\ pc' = "controller"
    /\ Normal
    /\ UNCHANGED <<machine, tables, memory, ports, scan_mark, stack, job>>

\* No controller left, the list of controllers full, or the drive found.
ScanDone ==
    /\ pc = "controller"
    /\ \/ todo = <<>>
       \/ scanning = "boot" /\ Len(hcd_list) >= MaxHcd
       \/ scanning = "rescan" /\ msd # {}
    /\ scanning' = "none"
    /\ todo' = <<>>
    /\ pc' = "idle"
    /\ Normal
    /\ UNCHANGED <<machine, tables, memory, ports, scan_mark, stack, job>>

\* The frame of a root hub.
RootFrame(c) ==
    [ctl |-> c, path |-> <<>>, port |-> 1, id |-> 0, found |-> FALSE, quirk |-> FALSE,
     speed |-> "root", level |-> 0, route |-> <<0>>, parent |-> <<0, 0>>]

\* A *_probe up to its port loop: allocate n blocks, start the controller.
Start(c, n, routed) ==
    /\ Len(heap) + n <= HeapSize
    /\ heap' = heap \o [i \in 1 .. n |-> [ctl |-> c, use |-> "ctl", id |-> 0]]
    /\ owner' = routed
    /\ stack' = <<RootFrame(c)>>
    /\ pc' = "port"

\* uhci_probe: the frame list and the workspace.
UhciStart(c) == bus.type[c] = "UHCI" /\ Start(c, 2, owner)

\* ohci_probe: the workspace.
OhciStart(c) == bus.type[c] = "OHCI" /\ Start(c, 1, owner)

\* ehci_probe: the periodic frame list and the workspace.  Once it runs, the configure
\* flag routes all its ports to it.
EhciStart(c) ==
    /\ bus.type[c] = "EHCI"
    /\ Start(c, 2, [s \in Sockets |-> IF s \in ToSet(bus.ports[c]) THEN c ELSE owner[s]])

\* xhci_probe: the workspace and the input context (the scratchpad and the device
\* context index are on the other heap).
XhciStart(c) == bus.type[c] = "XHCI" /\ Start(c, 2, owner)

Allocates(c) == IF bus.type[c] = "OHCI" THEN 1 ELSE 2

\* probe_usb_controller: a probe that fails gives its memory back.
ProbeUsbController ==
    /\ pc = "controller" /\ scanning = "boot" /\ todo # <<>> /\ Len(hcd_list) < MaxHcd
    /\ scan_mark' = Len(heap)
    /\ LET c == todo[1] IN
       \/ /\ UhciStart(c) \/ OhciStart(c) \/ EhciStart(c) \/ XhciStart(c)
          /\ Normal
          /\ UNCHANGED todo
       \/ /\ (Len(heap) + Allocates(c) > HeapSize /\ Normal) \/ Fault
          /\ todo' = Tail(todo)
          /\ UNCHANGED <<heap, owner, stack, pc>>
    /\ UNCHANGED <<bus, plugged, plugs, tables, slots, mark, ports, scanning, job>>

\* scan_for_msd up to its port loop.
RescanController ==
    /\ pc = "controller" /\ scanning = "rescan" /\ todo # <<>> /\ msd = {}
    /\ scan_mark' = Len(heap)
    /\ stack' = <<RootFrame(todo[1])>>
    /\ pc' = "port"
    /\ Normal
    /\ UNCHANGED <<machine, tables, memory, ports, todo, scanning, job>>

-----------------------------------------------------------------------------
(* One port.                                                                *)

Connected(path) == At(path) # Empty /\ (Root => owner[path[1]] = C)

NextPort ==
    /\ stack' = Moved
    /\ UNCHANGED <<pc, job, num_devices>>

\* A root port that is passed over, or that cannot be reset or enabled.
Pass == NextPort /\ UNCHANGED <<owner, enabled>>

\* The port is reset and enabled: the device is counted and gets its number.
UsePort(path) ==
    /\ num_devices' = [num_devices EXCEPT ![C] = IF IsXhci(C) THEN @ ELSE @ + 1]
    /\ job' = [path |-> path, id |-> num_devices'[C], left |-> <<>>, found |-> FALSE]
    /\ pc' = IF IsXhci(C) THEN "slot" ELSE "address"
    /\ UNCHANGED stack

UseRootPort(s) ==
    /\ enabled' = [enabled EXCEPT ![s] = C]
    /\ UsePort(<<s>>)
    /\ UNCHANGED owner

\* The port loops of uhci_probe and ohci_probe.
UhciPort(s) ==
    \/ ~Connected(<<s>>) /\ Normal /\ Pass
    \/ Connected(<<s>>) /\ Normal /\ UseRootPort(s)
    \/ Connected(<<s>>) /\ Fault /\ Pass

OhciPort(s) ==
    \/ ~Connected(<<s>>) /\ Normal /\ Pass
    \/ Connected(<<s>>) /\ Normal /\ UseRootPort(s)
    \/ Connected(<<s>>) /\ Fault /\ Pass

\* The port loop of ehci_probe: low and full speed devices are handed to the companion,
\* where there is one.
Slow(s) == plugged[s].speed \in {"low", "full"}

ReleaseEhciPort(s) ==
    /\ owner' = IF bus.companion[s] = 0 THEN owner ELSE [owner EXCEPT ![s] = bus.companion[s]]
    /\ NextPort
    /\ UNCHANGED enabled

EhciPort(s) ==
    \/ ~Connected(<<s>>) /\ Normal /\ Pass
    \/ Connected(<<s>>) /\ Slow(s) /\ Normal /\ ReleaseEhciPort(s)
    \/ Connected(<<s>>) /\ ~Slow(s) /\ Normal /\ UseRootPort(s)
    \/ Connected(<<s>>) /\ Fault /\ Pass

\* xhci_probe: the supported protocol capabilities in their order; the last one that
\* covers a port says what it is.
PortType(c, i) ==
    FoldLeft(LAMBDA t, p : IF i \in p.offset .. p.offset + p.count - 1 THEN p.major ELSE t,
             0, bus.caps[c])

\* The port loop of xhci_probe; USB 3 ports are looked at for drives only.
XhciPort(s) ==
    LET type == PortType(C, Top.port)
        skip == type \notin {2, 3} \/ (type = 3 /\ msd # {}) \/ ~Connected(<<s>>)
    IN  \/ skip /\ Normal /\ Pass
        \/ ~skip /\ Normal /\ UseRootPort(s)
        \/ ~skip /\ Fault /\ Pass

ProbeRootPort ==
    /\ pc = "port" /\ stack # <<>> /\ Root /\ Top.port <= NumPorts /\ ~Enough
    /\ scanning = "boot"
    /\ LET s == PortPath[1] IN
       \/ bus.type[C] = "UHCI" /\ UhciPort(s)
       \/ bus.type[C] = "OHCI" /\ OhciPort(s)
       \/ bus.type[C] = "EHCI" /\ EhciPort(s)
       \/ bus.type[C] = "XHCI" /\ XhciPort(s)
    /\ UNCHANGED <<bus, plugged, plugs, hcd_list, keyboards, in_use, msd, half_done, memory,
                   addressed, todo, scan_mark, scanning>>

\* The port loop of ehci.c scan_for_msd.  A port in use is left alone as long as its
\* device is connected and enabled.
EhciRescanPort(s) ==
    LET busy == s \in in_use[C] /\ Connected(<<s>>) /\ enabled[s] = C IN
    /\ in_use' = IF busy THEN in_use ELSE [in_use EXCEPT ![C] = @ \ {s}]
    /\ \/ (busy \/ ~Connected(<<s>>)) /\ Normal /\ Pass
       \/ ~busy /\ Connected(<<s>>) /\ Slow(s) /\ Normal /\ ReleaseEhciPort(s)
       \/ ~busy /\ Connected(<<s>>) /\ ~Slow(s) /\ Normal /\ UseRootPort(s)
       \/ ~busy /\ Connected(<<s>>) /\ Fault /\ Pass

\* The port loop of xhci.c scan_for_msd.  A port in use is left alone as long as
\* something is connected.
XhciRescanPort(s) ==
    LET used == PortType(C, Top.port) \in {2, 3}
        busy == s \in in_use[C] /\ Connected(<<s>>)
        look == used /\ ~busy /\ Connected(<<s>>)
    IN  /\ in_use' = IF busy \/ ~used THEN in_use ELSE [in_use EXCEPT ![C] = @ \ {s}]
        /\ \/ ~look /\ Normal /\ Pass
           \/ look /\ Normal /\ UseRootPort(s)
           \/ look /\ Fault /\ Pass

RescanRootPort ==
    /\ pc = "port" /\ stack # <<>> /\ Root /\ Top.port <= NumPorts /\ msd = {}
    /\ scanning = "rescan"
    /\ LET s == PortPath[1] IN
       \/ bus.type[C] = "EHCI" /\ EhciRescanPort(s)
       \/ bus.type[C] = "XHCI" /\ XhciRescanPort(s)
    /\ UNCHANGED <<bus, plugged, plugs, hcd_list, keyboards, msd, half_done, memory, addressed,
                   todo, scan_mark, scanning>>

\* The body of scan_hub_ports up to find_attached_usb_keyboards.  When the status
\* cannot be read, port_status is what was on the stack: the port may be taken
\* for one with a device or for one without.
LookAtHubPort ==
    /\ pc = "port" /\ stack # <<>> /\ ~Root /\ Top.port <= NumPorts /\ ~Enough
    /\ \/ /\ ~Connected(PortPath) /\ Normal
          /\ NextPort
       \/ /\ Connected(PortPath) /\ Normal
          /\ UsePort(PortPath)
       \/ /\ Fault
          /\ NextPort \/ UsePort(PortPath)
    /\ UNCHANGED <<machine, hcd_list, keyboards, in_use, msd, half_done, memory, ports,
                   todo, scan_mark, scanning>>

\* allocate_slot (xHCI): no memory or no slot ends the port loop.
AllocateSlot ==
    /\ pc = "slot"
    /\ mark' = [mark EXCEPT ![C] = Len(heap)]
    /\ LET free == 1 .. MaxSlots \ DOMAIN slots[C]
           id   == CHOOSE i \in free : \A j \in free : i <= j
       IN  \/ /\ Len(heap) < HeapSize /\ free # {} /\ Normal
              /\ heap' = Append(heap, [ctl |-> C, use |-> "slot", id |-> id])
              /\ slots' = [slots EXCEPT ![C] =
                     (id :> [path |-> job.path, route |-> <<>>, parent |-> <<0, 0>>]) @@ @]
              /\ job' = [job EXCEPT !.id = id]
              /\ pc' = "address"
              /\ UNCHANGED stack
           \/ /\ ((Len(heap) >= HeapSize \/ free = {}) /\ Normal) \/ Fault
              /\ stack' = [stack EXCEPT ![Len(stack)].port = NumPorts + 1]
              /\ pc' = "port"
              /\ UNCHANGED <<heap, slots, job>>
    /\ UNCHANGED <<machine, tables, ports, todo, scan_mark, scanning>>

-----------------------------------------------------------------------------
(* find_attached_usb_keyboards.                                             *)

Verdict(found) == job' = [job EXCEPT !.found = found] /\ pc' = "verdict"

\* usb_route: the port of the root hub, then one digit for each hub below it.  The
\* fields are kept apart here; a port number that is too large is cut to the largest.
Port == IF Root THEN Top.port ELSE job.path[Len(job.path)]
UsbRoute(hub, port) ==
    IF hub.level = 0 THEN <<port>>
    ELSE Append(hub.route, IF hub.level > 5 THEN 0 ELSE IF port > MaxRoutePort THEN MaxRoutePort ELSE port)

\* usb_hs_parent: the high speed hub that talks to a slower device, and its port.
UsbHsParent(hub, port, speed) ==
    IF speed \in {"low", "full"} /\ hub.level > 0
    THEN IF hub.speed \in {"low", "full"} THEN hub.parent ELSE <<hub.id, port>>
    ELSE <<0, 0>>

\* The first configuration is read; keyboards are looked for in it.
Identified ==
    LET d == At(job.path) IN
    /\ pc' = IF d.hub THEN "hub" ELSE "keyboard"
    /\ job' = [job EXCEPT !.left = KeyboardsIn(GetConfigurationDescriptors(d, 1), Room)]

\* assign_usb_address (UHCI, OHCI, EHCI), then the descriptors.  When a request
\* fails, the device may have its address already.
AssignUsbAddress ==
    /\ pc = "address" /\ ~IsXhci(C)
    /\ LET has == [ctl |-> C, path |-> job.path, id |-> job.id] IN
       \/ /\ At(job.path) # Empty /\ job.id <= MaxAddress /\ Normal
          /\ addressed' = addressed \cup {has}
          /\ Identified
       \/ /\ At(job.path) = Empty \/ job.id > MaxAddress
          /\ Normal /\ Verdict(FALSE)
          /\ UNCHANGED addressed
       \/ /\ At(job.path) # Empty /\ job.id <= MaxAddress /\ Fault
          /\ Verdict(FALSE)
          /\ addressed' \in {addressed, addressed \cup {has}}
    /\ UNCHANGED <<machine, tables, memory, enabled, control>>

\* assign_address of xhci.c: the slot context says where the device is; the controller
\* chooses the address.
AssignXhciAddress ==
    /\ pc = "address" /\ IsXhci(C)
    /\ slots' = [slots EXCEPT ![C][job.id].route  = UsbRoute(Top, Port),
                              ![C][job.id].parent = UsbHsParent(Top, Port, At(job.path).speed)]
    /\ \/ /\ At(job.path) # Empty /\ Normal
          /\ addressed' = addressed \cup {[ctl |-> C, path |-> job.path, id |-> job.id]}
          /\ Identified
       \/ At(job.path) = Empty /\ Normal /\ Verdict(FALSE) /\ UNCHANGED addressed
       \/ At(job.path) # Empty /\ Fault /\ Verdict(FALSE) /\ UNCHANGED addressed
    /\ UNCHANGED <<machine, tables, heap, mark, enabled, control>>

\* find_hub_endpoint_descriptor, in what fitted in the buffer.
HasHubEndpoint(d) ==
    \E e \in ToSet(GetConfigurationDescriptors(d, 1)) : e.t = "ep" /\ e.in /\ e.cls = "int"

\* build_hub_info and add_hub_quirks: the hub, as the frame of its port loop.
BuildHubInfo ==
    LET d == At(job.path) IN
    [ctl |-> C, path |-> job.path, port |-> 1, id |-> job.id, found |-> FALSE, quirk |-> d.quirk,
     speed |-> d.speed, level |-> Top.level + 1, route |-> UsbRoute(Top, Port),
     parent |-> UsbHsParent(Top, Port, d.speed)]

\* The hub branch of find_attached_usb_keyboards: build_hub_info, configure_device,
\* configure_hub_ep and the power-up of the ports in scan_hub_ports; then the
\* recursive scan.
SetUpHub ==
    /\ pc = "hub"
    /\ \/ /\ HasHubEndpoint(At(job.path)) /\ Normal
          /\ stack' = Append(stack, BuildHubInfo)
          /\ pc' = "port"
          /\ UNCHANGED job
       \/ ~HasHubEndpoint(At(job.path)) /\ Normal /\ Verdict(FALSE) /\ UNCHANGED stack
       \/ HasHubEndpoint(At(job.path)) /\ Fault /\ Verdict(FALSE) /\ UNCHANGED stack
    /\ UNCHANGED <<machine, tables, memory, ports, todo, scan_mark, scanning>>

\* configure_device for a device with keyboard interfaces, or the search for a
\* drive where there are none.
StartKeyboard ==
    /\ pc = "keyboard"
    /\ \/ job.left = <<>> /\ pc' = "drive" /\ Normal /\ UNCHANGED job
       \/ job.left # <<>> /\ pc' = "interface" /\ Normal /\ UNCHANGED job
       \/ job.left # <<>> /\ Fault /\ Verdict(FALSE)
    /\ UNCHANGED <<machine, tables, memory, ports, control>>

\* One turn of the loop over the new entries of the keyboard info table.
ConfigureInterface ==
    /\ pc = "interface"
    /\ \/ /\ job.left = <<>> /\ Normal
          /\ pc' = "verdict"
          /\ UNCHANGED <<job, keyboards, half_done>>
       \/ /\ job.left # <<>> /\ Normal
          /\ keyboards' = [keyboards EXCEPT ![C] =
                             Append(@, [path |-> job.path, id |-> job.id,
                                        ifc |-> job.left[1].ifc, ep |-> job.left[1].ep])]
          /\ job' = [job EXCEPT !.left = Tail(@), !.found = TRUE]
          /\ UNCHANGED <<pc, half_done>>
       \* configure_keyboard fails: break.
       \/ /\ job.left # <<>> /\ Fault
          /\ pc' = "verdict"
          /\ UNCHANGED <<job, keyboards, half_done>>
       \* configure_kbd_ep fails (xHCI): return false, whatever was found before.
       \/ /\ job.left # <<>> /\ IsXhci(C) /\ Fault
          /\ Verdict(FALSE)
          /\ half_done' = IF job.found THEN half_done \cup {job.path} ELSE half_done
          /\ UNCHANGED keyboards
    /\ UNCHANGED <<machine, hcd_list, num_devices, in_use, msd, memory, ports, control>>

\* check_for_usb_msd.  A configuration other than the first may fail to be read,
\* and is then passed over.
BotConfigs(d) == {k \in DOMAIN d.configs : HasBot(MsdIn(GetConfigurationDescriptors(d, k)))}

CheckForUsbMsd ==
    /\ pc = "drive"
    /\ LET d    == At(job.path)
           bots == BotConfigs(d)
           grow == [ctl |-> C, use |-> "ring", id |-> job.id]
       IN  \/ /\ msd # {} \/ ~Rescans(C) \/ bots = {}
              /\ Normal /\ Verdict(FALSE)
              /\ UNCHANGED <<heap, msd>>
           \/ /\ msd = {} /\ Rescans(C) /\ Len(heap) + 2 <= HeapSize
              /\ \E k \in bots :
                   /\ \A j \in bots : k <= j
                   /\ msd' = {[ctl |-> C, path |-> job.path, id |-> job.id, config |-> k,
                               info |-> MsdIn(GetConfigurationDescriptors(d, k))]}
              /\ heap' = heap \o <<grow, grow>>
              /\ Normal /\ Verdict(TRUE)
           \* A request fails, or the memory for the second endpoint is missing.
           \/ /\ msd = {} /\ Rescans(C) /\ bots # {}
              /\ (Len(heap) + 2 > HeapSize /\ Normal) \/ Fault
              /\ heap' \in {heap} \cup (IF Len(heap) < HeapSize THEN {Append(heap, grow)} ELSE {})
              /\ Verdict(FALSE)
              /\ UNCHANGED msd
    /\ UNCHANGED <<machine, hcd_list, num_devices, keyboards, in_use, half_done, slots, mark,
                   ports, control>>

-----------------------------------------------------------------------------
(* What the port loop makes of the answer.                                  *)

\* Mutant: the memory of the whole scan is given back with one slot.
ReleaseScan ==
    \/ ~IsXhci(C) /\ Normal /\ UNCHANGED <<slots, heap>>
    \/ /\ IsXhci(C) /\ Normal
       /\ slots' = [slots EXCEPT ![C] = [i \in DOMAIN @ \ {job.id} |-> @[i]]]
       /\ heap' = Rewound(heap, scan_mark)
    \/ IsXhci(C) /\ Fault /\ UNCHANGED <<slots, heap>>

\* release_slot (xHCI): a slot that cannot be disabled keeps its memory.
ReleaseSlot ==
    \/ ~IsXhci(C) /\ Normal /\ UNCHANGED <<slots, heap>>
    \/ /\ IsXhci(C) /\ Normal
       /\ slots' = [slots EXCEPT ![C] = [i \in DOMAIN @ \ {job.id} |-> @[i]]]
       /\ heap' = Rewound(heap, mark[C])
    \/ IsXhci(C) /\ Fault /\ UNCHANGED <<slots, heap>>

PortVerdict ==
    /\ pc = "verdict"
    /\ pc' = "port"
    /\ \/ /\ job.found /\ Normal
          /\ in_use' = IF Root /\ Rescans(C) THEN [in_use EXCEPT ![C] = @ \cup {job.path[1]}] ELSE in_use
          /\ stack' = [Moved EXCEPT ![Len(stack)].found = TRUE]
          /\ UNCHANGED <<slots, heap, ports>>
       \/ /\ ~job.found /\ Top.quirk /\ Normal
          /\ stack' = Moved
          /\ UNCHANGED <<in_use, slots, heap, ports>>
       \/ /\ ~job.found /\ ~Top.quirk
          /\ Disabled(job.path)
          /\ ReleaseSlot
          /\ stack' = Moved
          /\ UNCHANGED in_use
    /\ UNCHANGED <<machine, hcd_list, num_devices, keyboards, msd, half_done, mark,
                   todo, scan_mark, scanning, job>>

LoopOver == Top.port > NumPorts \/ Enough \/ (Root /\ scanning = "rescan" /\ msd # {})

\* The end of scan_hub_ports: its answer is that of the hub's own port.
HubDone ==
    /\ pc = "port" /\ stack # <<>> /\ ~Root /\ LoopOver
    /\ stack' = SubSeq(stack, 1, Len(stack) - 1)
    /\ job' = [path |-> Top.path, id |-> Top.id, left |-> <<>>, found |-> Top.found]
    /\ pc' = "verdict"
    /\ Normal
    /\ UNCHANGED <<machine, tables, memory, ports, todo, scan_mark, scanning>>

\* The ends of the probes.  UHCI and OHCI without a keyboard are stopped and forgotten;
\* the others poll the keyboards they found, and stay registered without one.
Forgotten  == heap' = Rewound(heap, scan_mark) /\ UNCHANGED hcd_list
Registered == hcd_list' = Append(hcd_list, C) /\ UNCHANGED heap

UhciDone == bus.type[C] = "UHCI" /\ IF keyboards[C] = <<>> THEN Forgotten ELSE Registered
OhciDone == bus.type[C] = "OHCI" /\ IF keyboards[C] = <<>> THEN Forgotten ELSE Registered
EhciDone == bus.type[C] = "EHCI" /\ Registered
XhciDone == bus.type[C] = "XHCI" /\ Registered

ProbeDone ==
    /\ pc = "port" /\ stack # <<>> /\ Root /\ LoopOver /\ scanning = "boot"
    /\ UhciDone \/ OhciDone \/ EhciDone \/ XhciDone
    /\ todo' = Tail(todo)
    /\ stack' = <<>>
    /\ pc' = "controller"
    /\ Normal
    /\ UNCHANGED <<machine, num_devices, keyboards, in_use, msd, half_done, slots, mark, ports,
                   scan_mark, scanning, job>>

\* The end of scan_for_msd: without a drive the heap goes back to where it was.
RescanDone ==
    /\ pc = "port" /\ stack # <<>> /\ Root /\ LoopOver /\ scanning = "rescan"
    /\ heap' = IF msd = {} THEN Rewound(heap, scan_mark) ELSE heap
    /\ todo' = Tail(todo)
    /\ stack' = <<>>
    /\ pc' = "controller"
    /\ Normal
    /\ UNCHANGED <<machine, tables, slots, mark, ports, scan_mark, scanning, job>>

-----------------------------------------------------------------------------
(* The user.  The hardware clears the enable bit of a port that loses its   *)
(* device, and gives a socket back to an EHCI controller that is running.   *)

Unplug ==
    /\ pc = "idle" /\ plugs < MaxPlugs
    /\ \E s \in Sockets :
         /\ plugged[s] # Empty
         /\ plugged' = [plugged EXCEPT ![s] = Empty]
         /\ enabled' = [enabled EXCEPT ![s] = 0]
         /\ addressed' = {a \in addressed : a.path[1] # s}
         /\ owner' = [owner EXCEPT ![s] =
                         IF \E c \in ToSet(hcd_list) : bus.type[c] = "EHCI" /\ s \in ToSet(bus.ports[c])
                         THEN CHOOSE c \in ToSet(hcd_list) : bus.type[c] = "EHCI" /\ s \in ToSet(bus.ports[c])
                         ELSE @]
    /\ plugs' = plugs + 1
    /\ UNCHANGED <<bus, tables, memory, control, job, pc, fails>>

Plug ==
    /\ pc = "idle" /\ plugs < MaxPlugs
    /\ \E s \in Sockets, d \in LatePlugs :
         /\ plugged[s] = Empty
         /\ (s \in bus.usb3) = (d.speed = "super")      \* the plugs that fit
         /\ plugged' = [plugged EXCEPT ![s] = d]
    /\ plugs' = plugs + 1
    /\ UNCHANGED <<bus, owner, ports, tables, memory, control, job, pc, fails>>

Init ==
    /\ \E m \in Buses : bus = m.bus /\ plugged = m.plugged
    /\ owner = [s \in Sockets |-> CHOOSE c \in Controllers :
                                    /\ s \in ToSet(bus.ports[c])
                                    /\ bus.companion[s] # 0 => c = bus.companion[s]]
    /\ enabled = [s \in Sockets |-> 0]
    /\ addressed = {}
    /\ hcd_list = <<>>
    /\ num_devices = [c \in Controllers |-> 0]
    /\ keyboards = [c \in Controllers |-> <<>>]
    /\ in_use = [c \in Controllers |-> {}]
    /\ slots = [c \in Controllers |-> <<>>]
    /\ heap = <<>>
    /\ mark = [c \in Controllers |-> 0]
    /\ msd = {}
    /\ half_done = {}
    /\ todo = <<>> /\ scan_mark = 0 /\ scanning = "none"
    /\ stack = <<>>
    /\ job = [path |-> <<>>, id |-> 0, left |-> <<>>, found |-> FALSE]
    /\ pc = "reset"
    /\ fails = 0 /\ plugs = 0

Driver ==
    \/ FindUsbKeyboards \/ ScanDone \/ ProbeUsbController \/ RescanController
    \/ ProbeRootPort \/ RescanRootPort \/ LookAtHubPort \/ AllocateSlot
    \/ AssignUsbAddress \/ AssignXhciAddress
    \/ SetUpHub \/ StartKeyboard \/ ConfigureInterface \/ CheckForUsbMsd
    \/ PortVerdict \/ HubDone \/ ProbeDone \/ RescanDone

Next == Driver \/ UsbScanForMsd \/ Unplug \/ Plug

Spec == Init /\ [][Next]_vars /\ WF_vars(Driver)

-----------------------------------------------------------------------------
(* Properties.                                                              *)

Devices(c) == {[path |-> k.path, id |-> k.id] : k \in ToSet(keyboards[c])}
              \cup {[path |-> m.path, id |-> m.id] : m \in {x \in msd : x.ctl = c}}

\* The types of the variables; the tables never hold more than they have room for.
TypeOK ==
    /\ pc \in {"reset", "idle", "controller", "port", "slot", "address", "hub", "keyboard",
               "interface", "drive", "verdict"}
    /\ \A s \in Sockets : owner[s] \in Controllers /\ enabled[s] \in Controllers \cup {0}
    /\ \A c \in Controllers :
         /\ Len(keyboards[c]) <= MaxKeyboards
         /\ DOMAIN slots[c] \subseteq 1 .. MaxSlots
         /\ in_use[c] \subseteq Sockets
    /\ Len(heap) <= HeapSize
    /\ Len(hcd_list) <= MaxHcd
    /\ Cardinality(msd) <= 1

\* A device the drivers can talk to: wired to its controller, on an enabled port,
\* at its own address, and on xHCI with its slot and the memory of the slot.
Live(c, d) ==
    /\ owner[d.path[1]] = c /\ enabled[d.path[1]] = c
    /\ [ctl |-> c, path |-> d.path, id |-> d.id] \in addressed
    /\ IsXhci(c) => /\ d.id \in DOMAIN slots[c] /\ slots[c][d.id].path = d.path
                    /\ [ctl |-> c, use |-> "slot", id |-> d.id] \in ToSet(heap)

\* A keyboard or a drive that was found stays usable until the user unplugs it: no
\* later step of a probe or of a rescan (another port of the same hub, another
\* controller, a heap_rewind) takes its wire, its port, its slot or its memory.
\* The keyboards of a device whose second interface could not be set up are not
\* covered: find_attached_usb_keyboards gives such a device up.
FoundDevicesKept ==
    [][plugged' = plugged =>
         \A c \in Controllers :
           \A d \in (Devices(c))' :
             (d.path \notin half_done' /\ (d \notin Devices(c) \/ Live(c, d))) => (Live(c, d))']_vars

\* No two devices behind one controller answer at the same address, over any
\* number of rescans: the count of addresses outlives the probe.
AddressesUnique ==
    \A a, b \in addressed : a.ctl = b.ctl /\ a.id = b.id => a = b

\* The places where a device can be, hubs two levels deep.
Paths == UNION {{<<s>>} \cup {<<s, i>> : i \in DOMAIN plugged[s].kids}
                \cup UNION {{<<s, i, j>> : j \in DOMAIN plugged[s].kids[i].kids}
                              : i \in DOMAIN plugged[s].kids} : s \in Sockets}

KeyboardsAt(c) ==
    FoldSet(LAMBDA p, n : n + Len(KeyboardsIn(GetConfigurationDescriptors(At(p), 1), MaxKeyboards)), 0,
            {p \in Paths : /\ owner[p[1]] = c /\ At(p) # Empty /\ ~At(p).hub
                           /\ IsXhci(c) => p[1] # bus.unknown})

\* Where nothing fails, a probe finds every keyboard that can reach it, up to the
\* size of its table: also the low and full speed ones, which have to be handed
\* to the companion before the companion is probed.
KeyboardsFound ==
    (pc = "idle" /\ fails = 0 /\ plugs = 0 /\ ~bus.ignore) =>
      \A c \in {x \in ToSet(FindUsbControllers) : ResetUsbController(x)} :
        LET n == KeyboardsAt(c) IN
        IF c \in ToSet(hcd_list)
        THEN Len(keyboards[c]) = IF n < MaxKeyboards THEN n ELSE MaxKeyboards
        ELSE Len(hcd_list) = MaxHcd \/ n = 0

\* A drive that the scan of c had to find.
DriveMissed(c, p) ==
    /\ At(p) # Empty /\ ~At(p).hub /\ BotConfigs(At(p)) # {}
    /\ KeyboardsIn(At(p).configs[1], MaxKeyboards) = <<>>
    /\ owner[p[1]] = c /\ p[1] \in ToSet(bus.ports[c]) /\ Rescans(c)
    /\ p[1] \notin in_use[c]
    /\ num_devices[c] < MaxAddress
    /\ p[1] # bus.unknown

\* Where nothing fails, a scan that ends without a drive has looked at every
\* drive there is: on a port of a controller that can do bulk transfers, not
\* hidden behind a port in use.
DriveFound ==
    [][(pc = "controller" /\ pc' = "idle" /\ fails = 0 /\ msd = {}) =>
         \A c \in ToSet(hcd_list), p \in Paths : ~DriveMissed(c, p)]_vars

EndpointsOf(descs, i) ==
    {j \in i + 1 .. Len(descs) : \A k \in i + 1 .. j : descs[k].t = "ep"}

\* The two endpoints the drive is used through belong to one BOT interface of the
\* configuration that was selected, whatever other interfaces the device lists.
DriveEndpointsPair ==
    \A m \in msd :
      LET descs == At(m.path).configs[m.config] IN
      Live(m.ctl, m) =>
        \E i \in DOMAIN descs :
          /\ descs[i].t = "ifc" /\ descs[i].cls = "bot" /\ {descs[i].num} = m.info.ifc
          /\ \E j \in EndpointsOf(descs, i) : descs[j].in /\ {descs[j].num} = m.info.in
          /\ \E j \in EndpointsOf(descs, i) : ~descs[j].in /\ {descs[j].num} = m.info.out

HubsAbove(p) == {i \in 1 .. Len(p) - 1 : At(SubSeq(p, 1, i)).speed = "high"}

\* A device behind hubs is addressed by the way to it: no two devices of a controller
\* have the same route, and a low or full speed device names the nearest high speed
\* hub above it, with the port of that hub its branch hangs on.
RoutesRight ==
    \A c \in Controllers : \A i, j \in DOMAIN slots[c] :
      LET s == slots[c][i]
          above == HubsAbove(s.path)
          hub == CHOOSE k \in above : \A m \in above : m <= k
      IN  ([ctl |-> c, path |-> s.path, id |-> i] \in addressed) =>
            /\ (/\ s.route = slots[c][j].route /\ slots[c][j].path[1] = s.path[1]
                /\ [ctl |-> c, path |-> slots[c][j].path, id |-> j] \in addressed) => i = j
            /\ s.parent = IF At(s.path).speed \in {"low", "full"} /\ above # {}
                          THEN <<CHOOSE k \in DOMAIN slots[c] :
                                   [ctl |-> c, path |-> SubSeq(s.path, 1, hub), id |-> k] \in addressed,
                                 s.path[hub + 1]>>
                          ELSE <<0, 0>>

\* Every probe and every rescan ends, whatever fails.
ScanEnds == (pc # "idle") ~> (pc = "idle")

\* What a probe leaves: the keyboards that can be reached are found, every device has an
\* address and a route of its own, and a drive is used through endpoints that belong together.
DevicesRight == TypeOK /\ KeyboardsFound /\ AddressesUnique /\ RoutesRight /\ DriveEndpointsPair

\* A scan ends whatever fails, and if nothing fails it has found the drive there is.
ScansDone == DriveFound /\ ScanEnds

=============================================================================
