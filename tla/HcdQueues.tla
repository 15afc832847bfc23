----------------------------- MODULE HcdQueues -----------------------------
(***************************************************************************)
(* The transfer queues of the older USB controllers (system/ehci.c,        *)
(* ohci.c, uhci.c): requests on the control endpoint, bulk transfers of an *)
(* EHCI drive and the keyboards' interrupt transfers.  Driver and          *)
(* controller share the descriptors: the controller retires them while the *)
(* driver polls, and tells it in another way on each of the three:         *)
(*   EHCI  the status of each descriptor;                                  *)
(*   OHCI  a list of retired descriptors, written to memory when a frame   *)
(*         ends and the driver has acknowledged the list before;           *)
(*   UHCI  two bits of a status register, set when a frame ends.           *)
(* On OHCI and UHCI requests are over before keyboards are polled (probe); *)
(* on EHCI the drive is used while they are.                               *)
(***************************************************************************)
EXTENDS Integers, Sequences, FiniteSets

CONSTANT Kbds       \* the keyboards of the controller, 1 .. n

VARIABLES
    board,          \* [kind, presses, requests, bulks, faults]: the kind of the controller, "none" if
                    \* the machine has no such controller, and what may still happen
    rq,             \* the request or bulk transfer: [at, n, pos, bad, seen, live, mute, how]; the
                    \* controller has retired the first pos of n descriptors, or failed in bad, and
                    \* may go on while live; the device answers the first mute descriptors; the
                    \* driver has seen the first seen as done
    answer,         \* what the last request returned, and whether it was served: [ok, served]
    bulk,           \* the toggles of a drive's pipe: of the driver, of the queue head, of the device
    armed,          \* the keyboards' transfers are scheduled
    ktd,            \* the keyboards' descriptors: [active, err, rpt, dt]
    dead,           \* the keyboards with a halted queue head (EHCI)
    hc,             \* [retired, due, head, sts]: descriptors not yet listed, what the frame's end
                    \* will set, the list in memory, the status register
    poll,           \* [at, next, list]: poll_keyboards
    kdev,           \* the keyboards: [toggle, report, errs], report 0 if there is none to send, and
                    \* (for the properties) their errors
    prev,           \* the reports processed last
    pressed,        \* (for the properties) the keys pressed on each keyboard: 1 .. pressed[k]
    handled         \* (for the properties) the keys that went to the buffer

hcdVars == <<board, rq, answer, bulk, armed, ktd, dead, hc, poll, kdev, prev, pressed, handled>>

Kind(x) == board.kind = x
SpendHcd(b) == board[b] > 0 /\ board' = [board EXCEPT ![b] = @ - 1]

Quiet == [at |-> "idle", n |-> 0, pos |-> 0, bad |-> 0, seen |-> 0, live |-> FALSE, mute |-> 0, how |-> "control"]
NoPoll == [at |-> "idle", next |-> 0, list |-> << >>]

keyboards == <<armed, ktd, dead, poll, kdev, prev, pressed, handled>>

-----------------------------------------------------------------------------
(* Requests *)

\* The descriptors are built and linked: SETUP, perhaps data, and the status stage.
Built(n, mute, how) ==
    [at |-> "wait", n |-> n, pos |-> 0, bad |-> 0, seen |-> 0, live |-> TRUE, mute |-> mute, how |-> how]

MayRequest == rq.at = "idle" /\ poll.at = "idle" /\ (armed => Kind("ehci"))

\* setup_request and get_data_request, with one of these numbers of descriptors.  The device
\* may stop answering after the SETUP stage, which it cannot refuse.
Request(sizes) ==
    /\ MayRequest /\ SpendHcd("requests")
    /\ \E n \in sizes : \E mute \in 1 .. n : rq' = Built(n, mute, "control")
    /\ UNCHANGED <<answer, bulk, hc, keyboards>>

EhciRequest == Kind("ehci") /\ Request({2, 3})
OhciRequest == Kind("ohci") /\ Request({2, 3})
\* The data are as many descriptors as packets.
UhciRequest == Kind("uhci") /\ Request({2, 3, 4})

\* bulk_transfer: the queue head starts with the driver's toggle.
BulkTransfer ==
    /\ MayRequest /\ Kind("ehci") /\ ~bulk.due /\ SpendHcd("bulks")
    /\ rq' = Built(1, 1, "bulk")
    /\ bulk' = [bulk EXCEPT !.qh = bulk.sw]
    /\ UNCHANGED <<answer, hc, keyboards>>

\* The request returns.  After a bulk transfer the driver reads the toggle of the queue head
\* (the controller's), unless it failed: the command is then over, and recovered.
RequestReturns(ok) ==
    /\ answer' = [ok |-> ok, served |-> rq.pos = rq.n]
    /\ bulk' = CASE rq.how # "bulk" -> bulk
                 [] ok -> [bulk EXCEPT !.sw = bulk.qh]
                 [] OTHER -> [bulk EXCEPT !.due = TRUE]

\* reset_bulk_ep, once the device's halt is cleared, which resets its toggle.
ResetBulkEp == bulk' = [bulk EXCEPT !.sw = 0, !.dev = 0, !.due = FALSE]

RecoverBulk ==
    /\ MayRequest /\ bulk.due /\ ResetBulkEp
    /\ UNCHANGED <<board, rq, answer, hc, keyboards>>

\* do_async_transfer: the descriptors one after the other, then the schedule is stopped.
AsyncTransfer ==
    /\ Kind("ehci") /\ rq.at = "wait"
    /\ \/ /\ rq.bad = rq.seen + 1
          /\ rq' = [rq EXCEPT !.at = "failed"]
       \/ /\ rq.pos > rq.seen
          /\ rq' = [rq EXCEPT !.seen = @ + 1, !.at = IF rq.seen + 1 = rq.n THEN "done" ELSE @]
    /\ UNCHANGED <<board, answer, bulk, hc, keyboards>>

\* The five seconds are over: the device does not answer, or is very slow.
AsyncTimeout ==
    /\ Kind("ehci") /\ rq.at = "wait" /\ rq.pos = rq.seen /\ rq.bad = 0
    /\ rq' = [rq EXCEPT !.at = "failed"]
    /\ IF rq.pos = rq.mute THEN UNCHANGED board ELSE SpendHcd("faults")
    /\ UNCHANGED <<answer, bulk, hc, keyboards>>

\* disable_async_schedule: the controller is idle when it returns.
AsyncStopped ==
    /\ rq.at \in {"done", "failed"}
    /\ RequestReturns(rq.at = "done")
    /\ rq' = [rq EXCEPT !.at = "idle", !.live = FALSE]
    /\ UNCHANGED <<board, hc, keyboards>>

\* get_ohci_done_head: there is a list in memory; the driver reads it, then acknowledges it.
DoneHead == "wdh" \in hc.sts

\* wait_for_ohci_done: counts what is retired, and gives up at the first error.
OhciDone ==
    /\ Kind("ohci") /\ rq.at = "wait" /\ DoneHead
    /\ hc' = [hc EXCEPT !.sts = {}]
    /\ LET seen == rq.seen + Len(hc.head)
           bad  == rq.bad \in {hc.head[i] : i \in DOMAIN hc.head}
       IN  IF bad \/ seen = rq.n
           THEN /\ RequestReturns(~bad) /\ rq' = [rq EXCEPT !.at = "idle", !.seen = seen]
           ELSE /\ rq' = [rq EXCEPT !.seen = seen] /\ UNCHANGED <<answer, bulk>>
    /\ UNCHANGED <<board, keyboards>>

\* wait_for_uhci_done: with an error, or descriptors left, the queue is cut.
UhciDone ==
    /\ Kind("uhci") /\ rq.at = "wait" /\ hc.sts # {}
    /\ RequestReturns("err" \notin hc.sts /\ ~rq.live)
    /\ rq' = [rq EXCEPT !.at = "idle", !.live = FALSE]
    /\ hc' = [hc EXCEPT !.sts = {}]
    /\ UNCHANGED <<board, keyboards>>

-----------------------------------------------------------------------------
(* The controller *)

\* What the end of the frame will tell of a retired descriptor.
Told(err) ==
    CASE Kind("ohci") -> {"wdh"}
      [] Kind("uhci") -> IF err THEN {"err"} ELSE {"int"}
      [] OTHER -> {}

Retire(td, tell) == hc' = [hc EXCEPT !.retired = IF Kind("ohci") THEN <<td>> \o @ ELSE @, !.due = @ \cup tell]

Flip(t) == 1 - t

\* The device serves the next descriptor of the request.
RequestStep ==
    LET td == rq.pos + 1 IN
    /\ rq.live /\ rq.bad = 0 /\ rq.pos < rq.mute
    /\ rq' = [rq EXCEPT !.pos = td, !.live = td # rq.n \/ Kind("ehci")]
    /\ Retire(td, IF td = rq.n THEN Told(FALSE) ELSE {})
    /\ bulk' \in IF rq.how = "bulk" THEN {bulk, [bulk EXCEPT !.qh = Flip(@), !.dev = Flip(@)]} ELSE {bulk}
    /\ UNCHANGED <<board, answer, keyboards>>

\* The device refuses it; a bulk transfer may have moved a packet before.  A UHCI queue also
\* stops at a packet that is too short, and tells it as done.
RequestFault ==
    LET td == rq.pos + 1 IN
    /\ rq.live /\ rq.bad = 0 /\ rq.pos < rq.mute /\ SpendHcd("faults")
    /\ rq' = [rq EXCEPT !.bad = td, !.live = Kind("uhci")]
    /\ \/ Retire(td, Told(TRUE))
       \/ Kind("uhci") /\ td > 1 /\ td < rq.n - 1 /\ Retire(td, Told(FALSE))
    /\ bulk' \in IF rq.how = "bulk" THEN {bulk, [bulk EXCEPT !.dev = Flip(@)]} ELSE {bulk}
    /\ UNCHANGED <<answer, keyboards>>

Scheduled(k) == armed /\ ktd[k].active /\ k \notin dead

\* The controller's toggle moves on by itself on EHCI (the queue head's) and OHCI (the
\* descriptor's).
Completed(d, rpt) == [d EXCEPT !.active = FALSE, !.rpt = rpt, !.dt = IF Kind("uhci") THEN @ ELSE Flip(@)]

\* A keyboard sends a report.  If its acknowledgement is lost (a fault), it sends the report
\* again.  One with the other toggle counts as sent before and is dropped.
KeyboardSends(k) ==
    LET new == ktd[k].dt = kdev[k].toggle IN
    /\ Scheduled(k) /\ kdev[k].report # 0
    /\ \/ kdev' = [kdev EXCEPT ![k] = [@ EXCEPT !.toggle = Flip(@), !.report = 0]] /\ UNCHANGED board
       \/ new /\ SpendHcd("faults") /\ UNCHANGED kdev
    /\ IF new THEN ktd' = [ktd EXCEPT ![k] = Completed(@, kdev[k].report)] /\ Retire(k, Told(FALSE))
              ELSE UNCHANGED <<ktd, hc>>
    /\ UNCHANGED <<rq, answer, bulk, armed, dead, poll, prev, pressed, handled>>

KeyboardFault(k) ==
    /\ Scheduled(k) /\ SpendHcd("faults")
    /\ ktd' = [ktd EXCEPT ![k].active = FALSE, ![k].err = TRUE]
    /\ dead' = IF Kind("ehci") THEN dead \cup {k} ELSE dead
    /\ Retire(k, Told(TRUE))
    /\ kdev' = [kdev EXCEPT ![k].errs = @ + 1]
    /\ UNCHANGED <<rq, answer, bulk, armed, poll, prev, pressed, handled>>

\* A list may also be written before it is due.
FrameEnds ==
    /\ hc.due # {} \/ hc.retired # << >>
    /\ \/ Kind("ohci") /\ hc.sts = {} /\ hc' = [retired |-> << >>, due |-> {}, head |-> hc.retired, sts |-> {"wdh"}]
       \/ Kind("uhci") /\ hc' = [hc EXCEPT !.due = {}, !.sts = @ \cup hc.due]
    /\ UNCHANGED <<board, rq, answer, bulk, keyboards>>

-----------------------------------------------------------------------------
(* Keyboards *)

\* The probe is over: the keyboards' transfers are scheduled.
ArmKeyboards ==
    /\ board.kind # "none" /\ ~armed /\ rq.at = "idle" /\ armed' = TRUE
    /\ UNCHANGED <<board, rq, answer, bulk, ktd, dead, hc, poll, kdev, prev, pressed, handled>>

PressHcdKey(k) ==
    /\ armed /\ kdev[k].report = 0 /\ SpendHcd("presses")
    /\ pressed' = [pressed EXCEPT ![k] = @ + 1]
    /\ kdev' = [kdev EXCEPT ![k].report = pressed[k] + 1]
    /\ UNCHANGED <<rq, answer, bulk, armed, ktd, dead, hc, poll, prev, handled>>

\* process_usb_keyboard_report takes the keys that were not down in the report before.
Process(k) ==
    /\ handled' = [handled EXCEPT ![k] = IF ktd[k].rpt # prev[k] THEN Append(@, ktd[k].rpt) ELSE @]
    /\ prev' = [prev EXCEPT ![k] = ktd[k].rpt]

NoProcess == UNCHANGED <<handled, prev>>

\* get_usb_keycode calls poll_keyboards.
MayPoll == armed /\ rq.at = "idle" /\ poll.at = "idle"

EhciPoll ==
    /\ MayPoll /\ Kind("ehci")
    /\ poll' = [NoPoll EXCEPT !.at = "loop", !.next = 1]
    /\ UNCHANGED hc

OhciPoll ==
    /\ MayPoll /\ Kind("ohci") /\ DoneHead
    /\ poll' = [NoPoll EXCEPT !.at = "ack", !.list = hc.head]
    /\ UNCHANGED hc

OhciAck ==
    /\ poll.at = "ack"
    /\ poll' = [poll EXCEPT !.at = "loop"]
    /\ hc' = [hc EXCEPT !.sts = {}]

\* The status is cleared before the descriptors are looked at.
UhciPoll ==
    /\ MayPoll /\ Kind("uhci") /\ hc.sts # {}
    /\ poll' = [NoPoll EXCEPT !.at = "loop", !.next = 1]
    /\ hc' = [hc EXCEPT !.sts = {}]

PollHcd ==
    /\ EhciPoll \/ OhciPoll \/ OhciAck \/ UhciPoll
    /\ UNCHANGED <<board, rq, answer, bulk, armed, ktd, dead, kdev, prev, pressed, handled>>

Rearmed(d) == [d EXCEPT !.active = TRUE, !.err = FALSE]

\* One keyboard of the loop.  The error bits are never all set, so the report in memory is
\* processed after an error as well.
EhciPollKbd(k) ==
    IF ktd[k].active THEN NoProcess /\ UNCHANGED ktd
    ELSE Process(k) /\ ktd' = [ktd EXCEPT ![k] = Rearmed(@)]

\* The driver changes the toggle, also after an error.
UhciPollKbd(k) ==
    IF ktd[k].active THEN NoProcess /\ UNCHANGED ktd
    ELSE Process(k) /\ ktd' = [ktd EXCEPT ![k] = [Rearmed(@) EXCEPT !.dt = Flip(@)]]

\* The descriptors of the list; the endpoint is built again, which ends its halt.
OhciPollTd(k) ==
    /\ IF ktd[k].err THEN NoProcess ELSE Process(k)
    /\ ktd' = [ktd EXCEPT ![k] = Rearmed(@)]

PollLoop ==
    /\ poll.at = "loop"
    /\ IF Kind("ohci")
       THEN /\ OhciPollTd(Head(poll.list))
            /\ poll' = IF Len(poll.list) = 1 THEN NoPoll ELSE [poll EXCEPT !.list = Tail(@)]
       ELSE /\ IF Kind("ehci") THEN EhciPollKbd(poll.next) ELSE UhciPollKbd(poll.next)
            /\ poll' = IF poll.next = Cardinality(Kbds) THEN NoPoll ELSE [poll EXCEPT !.next = @ + 1]
    /\ UNCHANGED <<board, rq, answer, bulk, armed, dead, hc, kdev, pressed>>

-----------------------------------------------------------------------------
\* configure_bulk_ep
NewBulkEp == [sw |-> 0, qh |-> 0, dev |-> 0, due |-> FALSE]

\* The keyboards' descriptors, with DATA0 as the devices' first toggle.
NewTd == [active |-> TRUE, err |-> FALSE, rpt |-> 0, dt |-> 0]

HcdStart(b) ==
    /\ board = b /\ rq = Quiet /\ answer = [ok |-> TRUE, served |-> TRUE]
    /\ bulk = NewBulkEp
    /\ armed = FALSE /\ dead = {} /\ poll = NoPoll
    /\ ktd = [k \in Kbds |-> NewTd]
    /\ hc = [retired |-> << >>, due |-> {}, head |-> << >>, sts |-> {}]
    /\ kdev = [k \in Kbds |-> [toggle |-> 0, report |-> 0, errs |-> 0]]
    /\ prev = [k \in Kbds |-> 0] /\ pressed = [k \in Kbds |-> 0] /\ handled = [k \in Kbds |-> << >>]

RequestDriver  == AsyncTransfer \/ AsyncTimeout \/ AsyncStopped \/ OhciDone \/ UhciDone
KeyboardDriver == PollHcd \/ PollLoop

\* What a request's driver, the controller and the devices do without being asked; none of it
\* can go on for ever.
HcdProgress == RequestDriver \/ RequestStep \/ FrameEnds \/ ArmKeyboards \/ \E k \in Kbds : KeyboardSends(k)

HcdNext ==
    \/ EhciRequest \/ OhciRequest \/ UhciRequest \/ BulkTransfer \/ RecoverBulk \/ HcdProgress \/ KeyboardDriver \/ RequestFault
    \/ \E k \in Kbds : KeyboardFault(k) \/ PressHcdKey(k)

-----------------------------------------------------------------------------
\* A request reports success exactly when the device served all of its descriptors, unless the
\* time was over first, and the controller has nothing left of it when it returns.
RequestsRight ==
    /\ answer.ok => answer.served
    /\ answer.served /\ ~Kind("ehci") => answer.ok
    /\ rq.at = "idle" => ~rq.live
    /\ rq.at = "idle" /\ ~bulk.due => bulk.sw = bulk.dev

\* A keyboard's descriptor that is done will be found: it is in a list the driver will walk,
\* or the status that makes it look is set or about to be.
DoneIsNoticed ==
    \A k \in Kbds : armed /\ ~ktd[k].active =>
      LET listed(s) == \E i \in DOMAIN s : s[i] = k IN
      \/ Kind("ehci")
      \/ Kind("ohci") /\ (listed(hc.retired) \/ (listed(hc.head) /\ hc.sts # {}) \/ listed(poll.list))
      \/ Kind("uhci") /\ (hc.sts \cup hc.due # {} \/ (poll.at = "loop" /\ poll.next <= k))

\* The keys of a keyboard arrive in their order, each once, whatever is lost on the bus.  None
\* is lost on EHCI and OHCI; on UHCI each error costs one at most, as the driver changes the
\* toggle although nothing was sent.
HcdKeysInOrder ==
    \A k \in Kbds :
      LET h == handled[k]
          lost == (1 .. pressed[k]) \ ({h[i] : i \in DOMAIN h} \cup {kdev[k].report, ktd[k].rpt})
      IN  /\ \A i, j \in DOMAIN h : i < j => h[i] < h[j]
          /\ Cardinality(lost) <= IF Kind("uhci") THEN kdev[k].errs ELSE 0

\* Nothing is left to do.  Requests end, except on OHCI and UHCI with a device that refuses for
\* ever: these drivers have no time limit of their own.  Every keyboard is served, until an
\* error on EHCI.
HcdSettled ==
    /\ rq.at = "idle" \/ (~Kind("ehci") /\ rq.mute < rq.n)
    /\ \A k \in Kbds : (kdev[k].report = 0 /\ ktd[k].active) \/ k \in dead
=============================================================================
