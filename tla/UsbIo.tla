------------------------------- MODULE UsbIo -------------------------------
(***************************************************************************)
(* The traffic on an xHCI controller after start-up (system/xhci.c,        *)
(* system/usbmsd.c and the key buffer of system/usbhcd.c): a keyboard,     *)
(* which sends reports at any time, and a drive, which is spoken to with   *)
(* the Bulk-Only Transport, share one event ring.                          *)
(*                                                                         *)
(* The driver waits for its events with a limit, so that an answer may     *)
(* come after the driver has given up.  The commands and transfers it left *)
(* in the rings are still there, and their buffers are those of the later  *)
(* commands: the stack frames and the sector buffer are the same.          *)
(***************************************************************************)
EXTENDS Integers, FiniteSets, Sequences, SequencesExt

CONSTANTS
    RingSize,       \* EP_TR_SIZE and WS_CR_SIZE
    ErSize,         \* WS_ER_SIZE
    KcSize,         \* HCD_KC_BUFFER_SIZE
    Retries,        \* attempts at TEST UNIT READY
    Keys,           \* the key codes
    Values,         \* contents of a sector
    Setups          \* the drives [big, old], old: READ CAPACITY (10) is rejected, each with its
                    \* bounds [sessions, ops, keys, faults]: what the user does, and how many late
                    \* answers, transfer errors and refused commands there are

-----------------------------------------------------------------------------
(***************************************************************************)
(* The rings shared with the controller: a command or transfer ring, which *)
(* the driver fills (enqueue_trb) and the controller follows, and the      *)
(* event ring, which the controller fills and the driver reads             *)
(* (get_xhci_event).                                                       *)
(*                                                                         *)
(* A ring is [slot, enq, deq].  Both positions are cycle * size + index,   *)
(* as in the driver's enqueue_state and er_dequeue_state; an entry is      *)
(* valid where its cycle is that of the reader.                            *)
(***************************************************************************)
EmptyRing(size) ==
    [slot |-> [i \in 0 .. size - 1 |-> [cycle |-> 0, what |-> [kind |-> "none"]]], enq |-> size, deq |-> size]

At(size, cycle, index) == cycle * size + index

\* enqueue_trb: the last entry becomes a Link, after which the cycle changes.
EnqueueTrb(size, r, t) ==
    LET cycle == r.enq \div size
        index == r.enq % size
        wraps == index = size - 1
        c == IF wraps THEN 1 - cycle ELSE cycle
        i == IF wraps THEN 0 ELSE index
        linked == IF wraps THEN [r.slot EXCEPT ![index] = [cycle |-> cycle, what |-> [kind |-> "link"]]] ELSE r.slot
    IN  [r EXCEPT !.slot = [linked EXCEPT ![i] = [cycle |-> c, what |-> t]], !.enq = At(size, c, i + 1)]

\* Where the controller reads next: it follows a valid Link.
Followed(size, r) ==
    LET s == r.slot[r.deq % size] IN
    IF s.cycle = r.deq \div size /\ s.what.kind = "link" THEN At(size, 1 - r.deq \div size, 0) ELSE r.deq

HasTrb(size, r) ==
    LET p == Followed(size, r)
        s == r.slot[p % size]
    IN  s.cycle = p \div size /\ s.what.kind # "link"

NextTrb(size, r) == r.slot[Followed(size, r) % size].what
TakeTrb(size, r) == [r EXCEPT !.deq = Followed(size, r) + 1]

\* The controller writes an event: the ring has no Link, it just starts again.
Advanced(size, p) == IF p % size = size - 1 THEN At(size, 1 - p \div size, 0) ELSE p + 1

PostEvent(size, r, e) ==
    [r EXCEPT !.slot[r.enq % size] = [cycle |-> r.enq \div size, what |-> e], !.enq = Advanced(size, r.enq)]

\* The register erdp holds the event read last, so the controller keeps one more entry free.
Outstanding(size, r) == (r.enq - r.deq) % size
RoomFor(size, r, n)  == Outstanding(size, r) + n <= size - 2

\* get_xhci_event.
HasEvent(size, r)   == r.slot[r.deq % size].cycle = r.deq \div size
NextEvent(size, r)  == r.slot[r.deq % size].what
EventTaken(size, r) == [r EXCEPT !.deq = Advanced(size, @)]

-----------------------------------------------------------------------------
VARIABLES
    pc,             \* [at, ep, why, again]: what msd_bot_command is doing
    waiting,        \* the driver waits for an event
    cmd,            \* the command: [op, lba, val, form, tag, data_ok]
    msd,            \* [tag, use_16, retry]
    last,           \* the last result: [op, lba, val, ok]
    unclean,        \* (for the properties) a step of msd_reset_recovery has failed
    buf,            \* the buffers: [data, csw, kbd]
    ring,           \* the rings of the endpoints ep0, in, out and kbd, and of the commands
    er,             \* the event ring
    state,          \* the controller's state of each endpoint
    drive,          \* [big, old, phase, cmd, status, halt]
    disk,           \* the contents of the drive
    held, sent,     \* the keys held down, and in the last report
    kbd,            \* [rearm_needed, prev, kc, in, out]: the driver's side
    typed, taken,   \* the keys the keyboard reported, and the ones taken, in their order
    used            \* what is left of each bound

driver   == <<pc, waiting, cmd, msd, last, unclean>>
keyboard == <<held, sent, kbd, typed, taken>>
vars == <<driver, buf, ring, er, state, drive, disk, keyboard, used>>

Eps  == {"ep0", "in", "out", "kbd"}
Lbas == {0, 1}      \* a sector below and one above 2^32

Spend(b) == used[b] > 0 /\ used' = [used EXCEPT ![b] = @ - 1]

Push(r, t)   == ring' = [ring EXCEPT ![r] = EnqueueTrb(RingSize, @, t)]
Ready(r)     == HasTrb(RingSize, ring[r])
First(r)     == NextTrb(RingSize, ring[r])
Room(n)      == RoomFor(ErSize, er, n)
Xfer(ep, cc) == [type |-> "xfer", ep |-> ep, cc |-> cc]
Done(cc)     == [type |-> "cmd", ep |-> "none", cc |-> cc]

\* A doorbell starts an endpoint unless it is halted.
Rung(ep) == [state EXCEPT ![ep] = IF @ = "halted" THEN @ ELSE "running"]

-----------------------------------------------------------------------------
(* Keyboard reports.                                                        *)

\* process_usb_keyboard_report of a set of keys: the new ones go into the buffer, as
\* long as there is room.
Pressed(k, key) ==
    IF (k.in + 1) % KcSize = k.out THEN k
    ELSE [k EXCEPT !.kc[k.in] = key, !.in = (@ + 1) % KcSize]

ProcessReport(k, report) ==
    [FoldLeft(Pressed, k, SetToSeq(report \ k.prev)) EXCEPT !.prev = report]

\* Mutant: the report is dropped without a note.
NoteNothing(k, e) == k

\* note_discarded_event.
NoteDiscarded(k, e) == [k EXCEPT !.rearm_needed = @ \/ (e.type = "xfer" /\ e.ep = "kbd")]

Events(r) ==
    [i \in 1 .. Outstanding(ErSize, r) |-> r.slot[(r.deq + i - 1) % ErSize].what]
Drained(r) == [r EXCEPT !.deq = r.enq]

\* poll_keyboards, and the key get_usb_keycode takes.  A report that came with an error
\* is dropped and not asked for again.
PollKeyboards ==
    LET good == SelectSeq(Events(er), LAMBDA e : e.type = "xfer" /\ e.ep = "kbd" /\ e.cc = "ok")
        k == IF good = <<>> THEN kbd ELSE ProcessReport(kbd, buf.kbd)
    IN  /\ pc.at = "idle"
        /\ Events(er) # <<>> \/ kbd.in # kbd.out
        /\ er' = Drained(er)
        /\ IF good = <<>> THEN UNCHANGED <<ring, state>> ELSE Push("kbd", [kind |-> "report"]) /\ state' = Rung("kbd")
        /\ kbd' = IF k.in = k.out THEN k ELSE [k EXCEPT !.out = (@ + 1) % KcSize]
        /\ taken' = IF k.in = k.out THEN taken ELSE Append(taken, k.kc[k.out])
        /\ UNCHANGED <<driver, buf, drive, disk, held, sent, typed, used>>

\* rearm_keyboards, at the end of a session with the drive.
RearmKeyboards ==
    LET k == FoldLeft(NoteDiscarded, kbd, Events(er)) IN
    /\ pc.at = "rearm"
    /\ er' = Drained(er)
    /\ IF k.rearm_needed
       THEN /\ kbd' = [ProcessReport(k, buf.kbd) EXCEPT !.rearm_needed = FALSE]
            /\ Push("kbd", [kind |-> "report"])
            /\ state' = Rung("kbd")
       ELSE kbd' = k /\ UNCHANGED <<ring, state>>
    /\ pc' = [pc EXCEPT !.at = "idle"]
    /\ UNCHANGED <<waiting, cmd, msd, last, unclean, buf, drive, disk, held, sent, typed, taken, used>>

\* The user presses or releases a key.
ChangeKey ==
    /\ Spend("keys")
    /\ \E k \in Keys : held' = IF k \in held THEN held \ {k} ELSE held \cup {k}
    /\ UNCHANGED <<driver, buf, ring, er, state, drive, disk, sent, kbd, typed, taken>>

\* The keyboard answers the transfer with a report, or the transfer fails.
SendReport ==
    /\ Ready("kbd") /\ state["kbd"] = "running" /\ Room(1) /\ held # sent
    /\ ring' = [ring EXCEPT !["kbd"] = TakeTrb(RingSize, @)]
    /\ \/ /\ er' = PostEvent(ErSize, er, Xfer("kbd", "ok"))
          /\ buf' = [buf EXCEPT !.kbd = held]
          /\ sent' = held
          /\ typed' = typed \o SetToSeq(held \ sent)
          /\ UNCHANGED <<state, used>>
       \/ /\ Spend("faults")
          /\ er' = PostEvent(ErSize, er, Xfer("kbd", "error"))
          /\ state' = [state EXCEPT !["kbd"] = "halted"]
          /\ UNCHANGED <<buf, sent, typed>>
    /\ UNCHANGED <<driver, drive, disk, held, kbd, taken>>

-----------------------------------------------------------------------------
(* The driver: msd_bot_command as what it does after each transfer.         *)

Go(at, ep, why) == [at |-> at, ep |-> ep, why |-> why, again |-> FALSE]

DataEp(c) == IF c.op = "write" THEN "out" ELSE "in"
HasData(c) == c.op # "tur"

\* msd_reset_recovery begins with the class request.
Recovery == Go("bot", "ep0", "rec")

\* What follows when a clear of the endpoint is done, with or without success.
Cleared(p, ok) ==
    CASE p.why = "data" -> Go("csw", "in", "none")
      [] p.why = "csw"  -> IF ok THEN [Go("csw", "in", "none") EXCEPT !.again = TRUE] ELSE Recovery
      [] p.why = "rec" /\ p.ep = "in" -> Go("clear", "out", "rec")
      [] OTHER -> Go("failed", "none", "none")

\* After the transfer of p, which was successful or not.
After(p, ok) ==
    CASE p.at = "cbw"   -> IF ~ok THEN Recovery ELSE IF HasData(cmd) THEN Go("data", DataEp(cmd), "none")
                           ELSE Go("csw", "in", "none")
      [] p.at = "data"  -> IF ok THEN Go("csw", "in", "none") ELSE Go("clear", p.ep, "data")
      [] p.at = "csw"   -> IF ok THEN Go("check", "none", "none")
                           ELSE IF p.again THEN Recovery ELSE Go("clear", "in", "csw")
      [] p.at = "bot"   -> IF ok THEN Go("clear", "in", "rec") ELSE Go("failed", "none", "none")
      [] p.at = "clear" -> IF ok THEN Go("stop", p.ep, p.why) ELSE Cleared(p, FALSE)
      [] p.at = "stop"  -> Go("reset", p.ep, p.why)
      [] p.at = "reset" -> Go("dequeue", p.ep, p.why)
      [] p.at = "dequeue" -> Cleared(p, ok)

IsCommand(p) == p.at \in {"stop", "reset", "dequeue"}
IsControl(p) == p.at \in {"bot", "clear"}
IsBulk(p)    == p.at \in {"cbw", "data", "csw"}

\* setup_request, bulk_transfer and the commands of reset_bulk_ep, up to the doorbell.
Issue ==
    /\ ~waiting
    /\ \/ IsBulk(pc) /\ LET ep == IF pc.at = "cbw" THEN "out" ELSE pc.ep IN
            /\ Push(ep, IF pc.at = "cbw" THEN [kind |-> "cbw", cmd |-> cmd]
                        ELSE [kind |-> pc.at, cmd |-> [cmd EXCEPT !.op = "none"]])
            /\ state' = Rung(ep)
       \/ IsControl(pc) /\ Push("ep0", [kind |-> pc.at, ep |-> pc.ep]) /\ state' = Rung("ep0")
       \/ /\ IsCommand(pc)
          /\ Push("cr", [kind |-> pc.at, ep |-> pc.ep, to |-> ring[pc.ep].enq])
          /\ UNCHANGED state
    /\ waiting' = TRUE
    /\ UNCHANGED <<pc, cmd, msd, last, unclean, buf, er, drive, disk, keyboard, used>>

\* Is this the event wait_for_xhci_event or wait_for_ep_transfer_event waits for?
Wanted(e) ==
    IF IsCommand(pc) THEN e.type = "cmd"
    ELSE e.type = "xfer" /\ e.ep = (IF IsControl(pc) THEN "ep0" ELSE IF pc.at = "cbw" THEN "out" ELSE pc.ep)

Finish(ok) ==
    /\ pc' = After(pc, ok)
    /\ waiting' = FALSE
    /\ cmd' = IF pc.at = "data" /\ ~ok THEN [cmd EXCEPT !.data_ok = FALSE] ELSE cmd
    /\ unclean' = (unclean \/ (~ok /\ pc.why = "rec" /\ pc.at \in {"bot", "clear", "dequeue"}))

\* The next event: the one waited for, or another, which is noted and dropped.
TakeEvent ==
    /\ waiting /\ HasEvent(ErSize, er)
    /\ LET e == NextEvent(ErSize, er) IN
       IF Wanted(e)
       THEN Finish(e.cc = "ok") /\ UNCHANGED kbd
       ELSE kbd' = NoteDiscarded(kbd, e) /\ UNCHANGED <<pc, waiting, cmd, unclean>>
    /\ er' = EventTaken(ErSize, er)
    /\ UNCHANGED <<msd, last, buf, ring, state, drive, disk, held, sent, typed, taken, used>>

\* Mutant: the tag of the wrapper is not compared.
CswOfAny == buf.csw.status # "phase"

CswValid == buf.csw.tag = cmd.tag /\ buf.csw.status # "phase"

\* The status wrapper: whether it is that of this command.
CheckCsw ==
    /\ pc.at = "check"
    /\ pc' = IF ~CswValid THEN Recovery
             ELSE IF cmd.data_ok /\ buf.csw.status = "passed" THEN Go("passed", "none", "none")
             ELSE Go("failed", "none", "none")
    /\ UNCHANGED <<waiting, cmd, msd, last, unclean, buf, ring, er, state, drive, disk, keyboard, used>>

-----------------------------------------------------------------------------
(* The users of the drive: msd_init, then reads and writes.                 *)

Begin(op, lba, val, m) ==
    /\ cmd' = [op |-> op, lba |-> lba, val |-> val, tag |-> m.tag, data_ok |-> TRUE,
               form |-> IF op = "cap16" \/ m.use_16 \/ lba = 1 THEN 16 ELSE 10]
    /\ msd' = [m EXCEPT !.tag = @ + 1]
    /\ pc' = Go("cbw", "out", "none")

\* find_usb_mass_storage copies what the scan kept, its tag too; msd_init begins.
StartSession ==
    /\ pc.at = "idle" /\ Spend("sessions")
    /\ Begin("tur", 0, 0, [tag |-> 1, use_16 |-> FALSE, retry |-> 1])
    /\ UNCHANGED <<waiting, last, unclean, buf, ring, er, state, drive, disk, keyboard>>

\* READ CAPACITY (10) is enough unless the last address does not fit into 32 bits.
EnoughCap10(ok) == ok /\ buf.data.val = 0

\* msd_init after each of its commands; msd_read_sectors and msd_write_sectors return.
Return ==
    LET ok == pc.at = "passed"
        to(at) == pc' = Go(at, "none", "none") /\ UNCHANGED <<cmd, msd>>
    IN  /\ pc.at \in {"passed", "failed"}
        /\ CASE cmd.op = "tur" ->
                  IF ok THEN Begin("cap10", 0, 0, msd)
                  ELSE IF msd.retry < Retries THEN Begin("tur", 0, 0, [msd EXCEPT !.retry = @ + 1])
                  ELSE to("rearm")
             [] cmd.op = "cap10" ->
                  IF EnoughCap10(ok) THEN to("ready") ELSE Begin("cap16", 0, 0, msd)
             [] cmd.op = "cap16" ->
                  IF ok THEN pc' = Go("ready", "none", "none") /\ msd' = [msd EXCEPT !.use_16 = TRUE] /\ UNCHANGED cmd
                  ELSE to("rearm")
             [] OTHER -> to("ready")
        /\ last' = [op |-> cmd.op, lba |-> cmd.lba, val |-> cmd.val, ok |-> ok]
        /\ UNCHANGED <<waiting, unclean, buf, ring, er, state, drive, disk, keyboard, used>>

NextOp ==
    /\ pc.at = "ready" /\ Spend("ops")
    /\ \E lba \in IF drive.big THEN Lbas ELSE {0} :
         \/ Begin("read", lba, 0, msd)
         \/ \E v \in Values : Begin("write", lba, v, msd)
    /\ UNCHANGED <<waiting, last, unclean, buf, ring, er, state, drive, disk, keyboard>>

EndSession ==
    /\ pc.at = "ready"
    /\ pc' = Go("rearm", "none", "none")
    /\ UNCHANGED <<waiting, cmd, msd, last, unclean, buf, ring, er, state, drive, disk, keyboard, used>>

-----------------------------------------------------------------------------
(* The controller and the drive.                                            *)

\* A command of reset_bulk_ep.  Where it does not fit the state of the endpoint it ends
\* with a context state error; a stop also reports the transfer it interrupts.
RunCommand ==
    LET t == First("cr")
        fits == state[t.ep] = (CASE t.kind = "stop" -> "running" [] t.kind = "reset" -> "halted" [] OTHER -> "stopped")
        open == t.kind = "stop" /\ fits /\ Ready(t.ep)
        told == IF open THEN PostEvent(ErSize, er, Xfer(t.ep, "stopped")) ELSE er
    IN  /\ Ready("cr") /\ Room(2)
        /\ er' = PostEvent(ErSize, told, Done(IF fits THEN "ok" ELSE "error"))
        /\ state' = IF fits THEN [state EXCEPT ![t.ep] = "stopped"] ELSE state
        /\ ring' = [x \in DOMAIN ring |->
                      IF x = "cr" THEN TakeTrb(RingSize, ring.cr)
                      ELSE IF x = t.ep /\ t.kind = "dequeue" /\ fits THEN [ring[x] EXCEPT !.deq = t.to]
                      ELSE ring[x]]
        /\ UNCHANGED <<driver, buf, drive, disk, keyboard, used>>

Running(ep) == Ready(ep) /\ state[ep] = "running"

\* The event of a transfer; with an error the endpoint halts, the TRB stays.
Complete(ep, cc) ==
    /\ er' = PostEvent(ErSize, er, Xfer(ep, cc))
    /\ IF cc = "ok" THEN ring' = [ring EXCEPT ![ep] = TakeTrb(RingSize, @)] /\ UNCHANGED state
       ELSE state' = [state EXCEPT ![ep] = "halted"] /\ UNCHANGED ring

\* A control request: CLEAR_FEATURE(ENDPOINT_HALT) or the reset of the drive.
ControlTransfer ==
    LET t == First("ep0") IN
    /\ Running("ep0") /\ Room(1)
    /\ \/ /\ Complete("ep0", "ok")
          /\ drive' = IF t.kind = "bot" THEN [drive EXCEPT !.phase = "idle"] ELSE [drive EXCEPT !.halt = @ \ {t.ep}]
          /\ UNCHANGED used
       \/ Complete("ep0", "error") /\ Spend("faults") /\ UNCHANGED drive
    /\ UNCHANGED <<driver, buf, disk, keyboard>>

\* The drive takes a command, or refuses it: it halts the endpoint of the data, if there is
\* any, and reports the failure afterwards.
Accepted(c) ==
    [drive EXCEPT !.cmd = c, !.status = "passed",
                  !.phase = IF ~HasData(c) THEN "status" ELSE IF DataEp(c) = "out" THEN "dataout" ELSE "datain"]
Refused(c, st) ==
    [drive EXCEPT !.cmd = c, !.status = st, !.phase = "status",
                  !.halt = IF HasData(c) THEN @ \cup {DataEp(c)} ELSE @]

Sector(c) == IF c.form = 10 THEN 0 ELSE c.lba

OutMoves ==
    Running("out") /\ ("out" \in drive.halt \/ drive.phase = "idle"
                       \/ (drive.phase = "dataout" /\ First("out").kind = "data"))

DriveOut ==
    LET t == First("out") IN
    /\ OutMoves /\ Room(1)
    /\ \/ /\ "out" \in drive.halt \/ (drive.phase = "idle" /\ t.kind # "cbw")
          /\ Complete("out", "error")
          /\ drive' = IF "out" \in drive.halt THEN drive ELSE [drive EXCEPT !.halt = {"in", "out"}]
          /\ UNCHANGED <<disk, used>>
       \/ /\ "out" \notin drive.halt /\ drive.phase = "idle" /\ t.kind = "cbw"
          /\ Complete("out", "ok")
          /\ IF t.cmd.op = "cap10" /\ drive.old
             THEN drive' = Refused(t.cmd, "failed") /\ UNCHANGED used
             ELSE \/ drive' = Accepted(t.cmd) /\ UNCHANGED used
                  \/ /\ Spend("faults")
                     /\ \E st \in {"failed", "phase"} : drive' = Refused(t.cmd, st)
          /\ UNCHANGED disk
       \/ /\ "out" \notin drive.halt /\ drive.phase = "dataout"
          /\ Complete("out", "ok")
          /\ disk' = [disk EXCEPT ![Sector(drive.cmd)] = t.cmd.val]
          /\ drive' = [drive EXCEPT !.phase = "status"]
          /\ UNCHANGED used
       \/ /\ "out" \notin drive.halt /\ Spend("faults")
          /\ Complete("out", "error")
          /\ UNCHANGED <<drive, disk>>
    /\ UNCHANGED <<driver, buf, keyboard>>

Content(c) ==
    CASE c.op = "read"  -> [kind |-> "sector", val |-> disk[Sector(c)]]
      [] c.op = "cap10" -> [kind |-> "cap", val |-> IF drive.big THEN 1 ELSE 0]
      [] OTHER -> [kind |-> "cap", val |-> 2]

InMoves == Running("in") /\ ("in" \in drive.halt \/ drive.phase \in {"datain", "status"})

\* The drive sends its data or its status into the first buffer of the ring; a sector
\* does not fit into the buffer of a status, the other way round it is a short packet.
DriveIn ==
    LET t == First("in") IN
    /\ InMoves /\ Room(1)
    /\ \/ /\ "in" \in drive.halt
          /\ Complete("in", "error")
          /\ UNCHANGED <<drive, buf, used>>
       \/ /\ "in" \notin drive.halt /\ drive.phase = "datain"
          /\ drive' = [drive EXCEPT !.phase = "status"]
          /\ IF t.kind = "data" THEN Complete("in", "ok") /\ buf' = [buf EXCEPT !.data = Content(drive.cmd)]
             ELSE Complete("in", "error") /\ UNCHANGED buf
          /\ UNCHANGED used
       \/ /\ "in" \notin drive.halt /\ drive.phase = "status"
          /\ drive' = [drive EXCEPT !.phase = "idle"]
          /\ Complete("in", "ok")
          /\ buf' = IF t.kind = "csw" THEN [buf EXCEPT !.csw = [tag |-> drive.cmd.tag, status |-> drive.status]]
                    ELSE [buf EXCEPT !.data = [kind |-> "status", val |-> 0]]
          /\ UNCHANGED used
       \/ /\ "in" \notin drive.halt /\ Spend("faults")
          /\ Complete("in", "error")
          /\ UNCHANGED <<drive, buf>>
    /\ UNCHANGED <<driver, disk, keyboard>>

\* The driver gives up: nothing will come, or (bounded) the answer is late.
Timeout ==
    /\ waiting /\ ~HasEvent(ErSize, er)
    /\ IF Ready("cr") \/ Running("ep0") \/ OutMoves \/ InMoves THEN Spend("faults") ELSE UNCHANGED used
    /\ Finish(FALSE)
    /\ UNCHANGED <<msd, last, buf, ring, er, state, drive, disk, keyboard>>

-----------------------------------------------------------------------------
NoCmd == [op |-> "none", lba |-> 0, val |-> 0, form |-> 10, tag |-> 0, data_ok |-> TRUE]

\* After the scan: the keyboard's transfer is issued, the drive is configured.
Start(d) ==
    /\ pc = Go("idle", "none", "none") /\ waiting = FALSE /\ cmd = NoCmd
    /\ msd = [tag |-> 1, use_16 |-> FALSE, retry |-> 1]
    /\ last = [op |-> "none", lba |-> 0, val |-> 0, ok |-> FALSE] /\ unclean = FALSE
    /\ buf = [data |-> [kind |-> "none", val |-> 0], csw |-> [tag |-> 0, status |-> "none"], kbd |-> {}]
    /\ ring = [r \in Eps \cup {"cr"} |->
                 IF r = "kbd" THEN EnqueueTrb(RingSize, EmptyRing(RingSize), [kind |-> "report"]) ELSE EmptyRing(RingSize)]
    /\ er = EmptyRing(ErSize)
    /\ state = [e \in Eps |-> "running"]
    /\ drive = [big |-> d.big, old |-> d.old, phase |-> "idle", cmd |-> NoCmd, status |-> "passed", halt |-> {}]
    /\ used = d.used
    /\ disk = [l \in Lbas |-> 0]
    /\ held = {} /\ sent = {} /\ typed = <<>> /\ taken = <<>>
    /\ kbd = [rearm_needed |-> FALSE, prev |-> {}, kc |-> [i \in 0 .. KcSize - 1 |-> 0], in |-> 0, out |-> 0]

Init == \E d \in Setups : Start(d)

Driver   == Issue \/ TakeEvent \/ Timeout \/ CheckCsw \/ Return \/ RearmKeyboards
Hardware == RunCommand \/ ControlTransfer \/ DriveOut \/ DriveIn

Next ==
    \/ Driver \/ Hardware
    \/ StartSession \/ NextOp \/ EndSession \/ PollKeyboards
    \/ ChangeKey \/ SendReport

Spec == /\ Init /\ [][Next]_vars
        /\ WF_vars(Driver) /\ WF_vars(Hardware) /\ WF_vars(NextOp \/ EndSession) /\ WF_vars(PollKeyboards)
        /\ WF_vars(SendReport)

-----------------------------------------------------------------------------
TypeOK ==
    /\ pc.at \in {"idle", "cbw", "data", "csw", "check", "bot", "clear", "stop", "reset", "dequeue", "passed",
                  "failed", "ready", "rearm"}
    /\ waiting \in BOOLEAN /\ unclean \in BOOLEAN
    /\ state \in [Eps -> {"running", "halted", "stopped"}]
    /\ kbd.in \in 0 .. KcSize - 1 /\ kbd.out \in 0 .. KcSize - 1
    /\ Outstanding(ErSize, er) <= ErSize - 2
    /\ drive.phase \in {"idle", "datain", "dataout", "status"} /\ drive.halt \subseteq {"in", "out"}
    /\ \A b \in DOMAIN used : used[b] >= 0

\* A command that msd_bot_command reports as passed was executed: what is in the buffer
\* is the answer to this command, and what was to be written is on the drive, although
\* answers of commands that were given up may arrive in the meantime.  The result of
\* msd_reset_recovery is not looked at: after one that failed the wrapper of the command
\* that was given up may still be in the ring, and the property does not hold.
SuccessMeansDone ==
    pc.at = "passed" /\ ~unclean =>
      CASE cmd.op = "write" -> disk[cmd.lba] = cmd.val
        [] cmd.op = "read"  -> buf.data = [kind |-> "sector", val |-> disk[cmd.lba]]
        [] cmd.op = "tur"   -> TRUE
        [] OTHER -> buf.data = Content(cmd)

\* A drive of 2 TiB or more is used with the 16-byte commands.
BigDriveAddressed == pc.at = "ready" /\ drive.big => msd.use_16

\* The transfer of the keyboard exists exactly once: it is issued, or its event is in the
\* ring, or the event was dropped in a wait and noted.  This ends only with an error of
\* the transfer.
KeyboardArmed ==
    LET events == Cardinality({i \in DOMAIN Events(er) : Events(er)[i].type = "xfer" /\ Events(er)[i].ep = "kbd"})
        noted  == IF kbd.rearm_needed THEN 1 ELSE 0
        issued == IF Ready("kbd") THEN 1 ELSE 0
    IN  state["kbd"] # "halted" => events + noted + issued = 1

\* No key is lost and none comes twice, if the buffer has room: the keys taken and the
\* ones in the buffer are those reported, but for the report not yet processed.
KeysInOrder ==
    LET n == (kbd.in - kbd.out) % KcSize
        have == taken \o [i \in 1 .. n |-> kbd.kc[(kbd.out + i - 1) % KcSize]]
        open == kbd.rearm_needed \/ Events(er) # <<>>
    IN  Len(typed) < KcSize => IF open THEN IsPrefix(have, typed) ELSE have = typed

\* The session with the drive ends, whatever the drive does, and the program listens to the
\* keyboard again.
SessionEnds == pc.at # "idle" ~> pc.at = "idle"

\* A key that is reported is taken in the end, or the keyboard's transfer has failed.
KeysTaken == \A n \in 1 .. KcSize - 1 : Len(typed) >= n ~> (Len(taken) >= n \/ state["kbd"] = "halted")

\* The drive does what it is reported to have done, at the sector that was meant, although it
\* answers late, stalls or refuses (msd_bot_command, msd_init).
DriveRight == SuccessMeansDone /\ BigDriveAddressed
=============================================================================
