------------------------------ MODULE SerialLog ------------------------------
(***************************************************************************)
(* The log on the serial line (app/reports.c), written by whoever finds an *)
(* error, calls error_update or moves main's loop on: joined to the steps  *)
(* of module ErrorLog.  Its lines are for a program that watches the test, *)
(* so what matters is which lines come and what they claim.  Also the      *)
(* report that is saved on a USB drive.  Of a text only the length counts, *)
(* and what it says of the result; the clock is that of the CMOS RAM.      *)
(*                                                                         *)
(* NextTest of ErrorLog stands for the rest of main's loop: here it is the *)
(* next stage of the same test, the next test, or the next pass.           *)
(*                                                                         *)
(* slog_buf, buf_end and the line belong to no one: a core that makes a    *)
(* line uses them from slog_begin to the last byte of tty_send_string,     *)
(* while the others execute.  What two cores do to each other's lines at   *)
(* one time is anything, so both are taken as spoiled.  Only where all     *)
(* cores wait is a line one step with what it is about.                    *)
(***************************************************************************)
EXTENDS ErrorLog, Sequences

CONSTANTS
  LogModes,         \* the values of enable_tty_log
  LogMaxPasses,     \* log_max_passes, 0 for no limit
  MaxPasses,        \* bound: passes in one run
  TicksPerTest,     \* ticks_per_test
  TicksPerPass,     \* ticks_per_pass
  ReportSize,       \* RESULTS_BUF_SIZE
  SlogSize,         \* the size of slog_buf
  HeadLengths,      \* lengths the lines on the machine (CPU, board, SPD) may have together
  TestLength,       \* length of the line of a test
  EndLength,        \* length of the lines after them
  StatusLength      \* length of the last line

ASSUME LogAssumption == /\ LogModes \subseteq BOOLEAN
                        /\ {LogMaxPasses, MaxPasses, TicksPerTest, TicksPerPass} \subseteq Nat

ASSUME ReportAssumption ==
  /\ {ReportSize, SlogSize} \subseteq Nat \ {0, 1, 2}
  /\ HeadLengths \subseteq Nat /\ {TestLength, EndLength, StatusLength} \subseteq Nat

VARIABLES
  enable_tty_log,
  log_running, log_error_seen,
  log_test_ticks, log_pass_ticks,
  pass_num,
  reboots,          \* the program has restarted the machine
  writers,          \* the cores between slog_begin and the end of slog_end
  spoiled,          \* those of them whose line another core has interfered with
  lines,            \* what the last step has sent
  in_test,          \* (history) whether an error was counted since the test was started
  error_lines       \* (history) error lines sent since then

logVars == <<enable_tty_log, log_running, log_error_seen, log_test_ticks, log_pass_ticks,
             pass_num, reboots, writers, spoiled, lines, in_test, error_lines>>
logState == <<enable_tty_log, log_running, reboots>>
testLog == <<log_error_seen, in_test, error_lines>>
wire == <<writers, spoiled>>

-----------------------------------------------------------------------------
(* The clock: rtc_get_datetime *)

BcdToBin(bcd) == (bcd \div 16) * 10 + (bcd % 16)

\* A register, in the mode the RTC is in.
RtcValue(reg, binary) == IF binary THEN reg ELSE BcdToBin(reg)

\* The hour: bit 7 is PM, which counts in 12-hour mode only.
RtcHour(reg, binary, h24) ==
  LET hour == RtcValue(reg % 128, binary)
  IN IF h24 THEN hour ELSE (hour % 12) + (IF reg >= 128 THEN 12 ELSE 0)

RtcYear(cent, year, binary) ==
  (IF RtcValue(cent, binary) = 0 THEN 2000 ELSE RtcValue(cent, binary) * 100) + RtcValue(year, binary)

\* The registers of an RTC at a time of day (external).
Encoded(n, binary) == IF binary THEN n ELSE (n \div 10) * 16 + (n % 10)
HourRegister(hour, binary, h24) ==
  IF h24 THEN Encoded(hour, binary)
  ELSE LET h12 == IF hour % 12 = 0 THEN 12 ELSE hour % 12
       IN Encoded(h12, binary) + (IF hour >= 12 THEN 128 ELSE 0)

-----------------------------------------------------------------------------
(* The buffers *)

Bounded(n, limit) == IF n < limit THEN n ELSE limit

\* buf_append_char, buf_append_str, buf_append_uint, buf_vprintf: pos moves on, but nothing
\* is stored at buf_end or behind it.  The place of the last byte stored for a text from
\* pos to pos + len (pos if none).
Stored(pos, len, buf_end) == IF pos < buf_end THEN Bounded(pos + len, buf_end) ELSE pos

\* slog_begin, slog, slog_end: CR, LF and NUL behind the text, or behind what is left of it.
SlogEnd == SlogSize - 3
SlogText(len) == Stored(0, len, SlogEnd)
SlogBytes(len) == Bounded(len, SlogEnd) + 3

\* format_results: the head, a line for each test that is enabled, the end, the result.
StatusAt(head, tests) == head + tests * TestLength + EndLength
ReportEnd == ReportSize - 1
ReportLength(head, tests) == Bounded(StatusAt(head, tests) + StatusLength, ReportEnd)

\* The last line of a report.
Result(passes, errors) ==
  IF passes = 0 THEN "progress" ELSE IF errors = 0 THEN "pass" ELSE "fail"

\* A report as it is saved: the result, unless the line was cut off.
SavedResult(head, tests, passes, errors) ==
  IF StatusAt(head, tests) + StatusLength <= ReportEnd THEN Result(passes, errors) ELSE "cut"

-----------------------------------------------------------------------------
(* The log *)

\* A line: the event, the percentages of a tick, the verdict at the end of a pass.
Line(ev) == [ev |-> ev, test_pct |-> 0, pass_pct |-> 0, status |-> "none"]

\* slog, where all other cores wait: lines are sent in the order they are made.
Slog(ls) == IF log_running THEN ls ELSE << >>

\* slog_begin, where they do not: a core has begun to fill slog_buf.
SlogBegin(c) ==
  /\ writers' = writers \cup {c}
  /\ spoiled' = IF writers = {} THEN spoiled ELSE spoiled \cup writers \cup {c}

\* slog_pct
SlogPct(n, total) == LET pct == (100 * n) \div total
                     IN IF total = 0 THEN 0 ELSE Least(pct, 100)

\* serial_log_start, serial_log_run_start: the first run has begun.
LogInit ==
  /\ Init
  /\ enable_tty_log \in LogModes
  /\ log_running = enable_tty_log
  /\ log_error_seen = FALSE
  /\ log_test_ticks = 0 /\ log_pass_ticks = 0
  /\ pass_num = 0 /\ reboots = FALSE
  /\ writers = {} /\ spoiled = {}
  /\ lines = << >> /\ in_test = FALSE /\ error_lines = 0

-----------------------------------------------------------------------------
\* Mutant: only uncorrected errors are logged.
LogErrorUncorrected(c) ==
  /\ lines' = << >>
  /\ IF type[c] = "cecc" THEN UNCHANGED <<wire, log_error_seen, in_test>>
     ELSE /\ log_error_seen' = (log_error_seen \/ log_running)
          /\ IF log_running /\ ~log_error_seen THEN SlogBegin(c) ELSE UNCHANGED wire
          /\ in_test' = TRUE
  /\ UNCHANGED <<logState, error_lines, log_test_ticks, log_pass_ticks, pass_num>>

\* serial_log_error in common_err, while the mutex is held: a line is begun for the first
\* error of a test.
LogError(c) ==
  /\ log_error_seen' = (log_error_seen \/ log_running)
  /\ IF log_running /\ ~log_error_seen THEN SlogBegin(c) ELSE UNCHANGED wire
  /\ in_test' = TRUE
  /\ lines' = << >>
  /\ UNCHANGED <<logState, error_lines, log_test_ticks, log_pass_ticks, pass_num>>

\* The counters of serial_log_tick, up to where the percentage has reached its limit.
Ticked(n, total) == IF log_running /\ n < total THEN n + 1 ELSE n

\* The line of serial_log_tick.
TickLine(test_ticks, pass_ticks) ==
  [Line("tick") EXCEPT !.test_pct = SlogPct(test_ticks, TicksPerTest),
                       !.pass_pct = SlogPct(pass_ticks, TicksPerPass)]

\* serial_log_tick at the end of error_update, where all other cores wait: a line if the
\* last one is long enough ago.
TickLines == {<< >>, Slog(<<TickLine(Ticked(log_test_ticks, TicksPerTest),
                                     Ticked(log_pass_ticks, TicksPerPass))>>)}

NoLog == /\ lines' = << >>
         /\ UNCHANGED <<logState, testLog, wire, log_test_ticks, log_pass_ticks, pass_num>>

\* serial_log_tick counts.
CountTick == /\ log_test_ticks' = Ticked(log_test_ticks, TicksPerTest)
             /\ log_pass_ticks' = Ticked(log_pass_ticks, TicksPerPass)

\* What error_update logs: serial_log_tick is not reached if it stops the test.
LogUpdate ==
  \/ halted' /\ NoLog
  \/ /\ ~halted' /\ CountTick
     /\ lines' \in TickLines
     /\ UNCHANGED <<logState, testLog, wire, pass_num>>

\* The same in ecc_error, without the mutex and while the other cores test: a line is begun.
LogEccUpdate ==
  \/ halted' /\ NoLog
  \/ /\ ~halted' /\ CountTick
     /\ (log_running /\ SlogBegin(Master)) \/ UNCHANGED wire
     /\ lines' = << >>
     /\ UNCHANGED <<logState, testLog, pass_num>>

\* SLOG_TEST_START
LogTestStart(running) ==
  /\ log_error_seen' = (log_error_seen /\ ~running)
  /\ log_test_ticks' = IF running THEN 0 ELSE log_test_ticks
  /\ in_test' = FALSE /\ error_lines' = 0

\* SLOG_TEST_END, SLOG_PASS_END: what they say of the run.
Status == IF error_count = 0 THEN "pass" ELSE "fail"
LastPass == log_running /\ LogMaxPasses > 0 /\ pass_num + 1 >= LogMaxPasses
PassEndLines ==
  Slog(<<Line("test_end"), [Line("pass_end") EXCEPT !.status = Status]>>
       \o IF LastPass THEN <<[Line("done") EXCEPT !.status = Status]>> ELSE << >>)

-----------------------------------------------------------------------------
(***************************************************************************)
(* The steps of ErrorLog with what they log                                *)
(***************************************************************************)
\* A core that makes a line does nothing else before the line is sent.
CountLogged(c) == Count(c) /\ LogError(c)
EccUpdateLogged == EccUpdate /\ LogEccUpdate
TickLogged == Tick /\ LogUpdate
Unlogged(c) == /\ c \notin writers
               /\ Check(c) \/ Lock(c) \/ Show(c) \/ After(c) \/ Arrive(c)
               /\ NoLog
FindUnlogged(c) == c \notin writers /\ (\E t \in {"data", "cecc"} : Find(c, t)) /\ NoLog

\* slog_end: the line of a core is on the wire, an error's while it still holds the mutex.
SendLine(c) ==
  /\ c \in writers
  /\ writers' = writers \ {c} /\ spoiled' = spoiled \ {c}
  /\ lines' = <<IF c \in spoiled THEN Line("garbled")
                ELSE IF pc[c] = "show" THEN Line("error")
                ELSE TickLine(log_test_ticks, log_pass_ticks)>>
  /\ error_lines' = IF pc[c] = "show" /\ c \notin spoiled THEN error_lines + 1 ELSE error_lines
  /\ UNCHANGED <<vars, logState, log_error_seen, in_test, log_test_ticks, log_pass_ticks, pass_num>>
HaltLoopUnlogged == HaltLoop /\ NoLog

\* serial_log_run_start, then the first pass and the first test of the new run.
StartRunLogged ==
  /\ StartRun
  /\ \/ halted' /\ NoLog
     \/ /\ ~halted'
        /\ log_running' = (log_running \/ enable_tty_log)
        /\ pass_num' = 0
        /\ log_pass_ticks' = IF log_running' THEN 0 ELSE log_pass_ticks
        /\ LogTestStart(log_running')
        /\ lines' = IF log_running' THEN <<Line("info"), Line("pass_start"), Line("test_start")>>
                    ELSE << >>
        /\ UNCHANGED <<enable_tty_log, reboots, wire>>

\* The same test goes on with its next stage or master.
SameTest == NextTest /\ LogUpdate

\* The next test of the pass.
OtherTest ==
  /\ NextTest
  /\ \/ halted' /\ NoLog
     \/ /\ ~halted'
        /\ LogTestStart(log_running)
        /\ log_pass_ticks' = Ticked(log_pass_ticks, TicksPerPass)
        /\ \E tick \in TickLines : lines' = tick \o Slog(<<Line("test_end"), Line("test_start")>>)
        /\ UNCHANGED <<logState, wire, pass_num>>

\* The pass is over and another one begins: only if there was no error.
OtherPass ==
  /\ NextTest
  /\ ~halted' /\ error_count = 0
  /\ pass_num < MaxPasses
  /\ ~LastPass
  /\ pass_num' = pass_num + 1
  /\ log_pass_ticks' = IF log_running THEN 0 ELSE log_pass_ticks
  /\ LogTestStart(log_running)
  /\ \E tick \in TickLines :
       lines' = tick \o PassEndLines \o Slog(<<Line("pass_start"), Line("test_start")>>)
  /\ UNCHANGED <<logState, wire>>

\* error_update at the end of a test stops it, before the end of the pass is reached.
Stops == error_count > 0 /\ testpass # 2 /\ ~continue_on_error'

\* The pass is over and it was the last one wanted in the log: reboot().
LastPassLogged ==
  /\ AllAt("end") /\ ~restart
  /\ LastPass
  /\ Input /\ restart' = FALSE
  /\ ~Stops
  /\ reboots' = TRUE
  /\ CountTick
  /\ testpass' = IF error_count > 0 THEN 2 ELSE testpass
  /\ \E tick \in TickLines : lines' = tick \o PassEndLines
  /\ UNCHANGED <<lock, pc, type, counters, halted, history, enable_tty_log, log_running,
                 testLog, wire, pass_num>>

\* The pass is over and main gives its verdict.
VerdictLogged ==
  /\ Verdict
  /\ IF Stops THEN NoLog
     ELSE /\ ~LastPass
          /\ CountTick
          /\ \E tick \in TickLines : lines' = tick \o PassEndLines
          /\ pass_num' = pass_num + 1
          /\ UNCHANGED <<logState, testLog, wire>>

LogStep(c) == CountLogged(c) \/ SendLine(c) \/ Unlogged(c)

LoopLogged == \/ StartRunLogged \/ SameTest \/ OtherTest \/ OtherPass
              \/ LastPassLogged \/ VerdictLogged

LogNext ==
  /\ ~reboots
  /\ \/ \E c \in CPU : LogStep(c) \/ FindUnlogged(c)
     \/ EccUpdateLogged \/ TickLogged \/ LoopLogged \/ HaltLoopUnlogged

allVars == <<vars, logVars>>

\* As in ErrorLog: cores execute, and tests come to an end.
LogFairness == /\ \A c \in CPU : WF_allVars(~reboots /\ LogStep(c))
               /\ WF_allVars(~reboots /\ EccUpdateLogged)
               /\ WF_allVars(~reboots /\ TickLogged)
               /\ WF_allVars(~reboots /\ LoopLogged)

SafeLogSpec == LogInit /\ [][LogNext]_allVars

LogSpec == SafeLogSpec /\ LogFairness

-----------------------------------------------------------------------------
\* The core whose line for an error is not complete.
ErrorWriters == {c \in writers : pc[c] = "show"}

\* In a test with errors, whichever core finds them, one of them is logged, and only one
\* (reports.h: "at most one per test"): its line is on its way or has come whole.
ErrorLogged == log_running =>
                 error_lines = (IF in_test /\ ErrorWriters = {} THEN 1 ELSE 0)

\* No line is mixed with another one, although the tick of an ECC error is sent without
\* the mutex: that error was logged under the mutex before, so that no other core has
\* anything to log until all wait.  Nor does the FAIL message of the stopped master get
\* into a line.
LinesWhole == /\ \A i \in DOMAIN lines : lines[i].ev # "garbled"
              /\ \A c, d \in writers : c = d
              /\ writers # {} => ~halted

\* The status at the end of a pass, and of the last one before the machine is restarted, is
\* "pass" just if no bad word was found in the run.
StatusRight == \A i \in DOMAIN lines :
                 lines[i].ev \in {"pass_end", "done"} => (lines[i].status = "pass" <=> found = 0)

\* A report says PASS, whenever it is saved, only if no bad word was counted.
ReportRight ==
  \A head \in HeadLengths, tests \in 0 .. 2 :
    SavedResult(head, tests, pass_num, error_count) = "pass" /\ InFlight = {} => found = 0

\* The date of a report is right in whichever of the four modes the RTC is, at noon and at
\* midnight too (rtc_get_datetime).
ClockRight ==
  \A binary, h24 \in BOOLEAN :
    /\ \A hour \in 0 .. 23 : RtcHour(HourRegister(hour, binary, h24), binary, h24) = hour
    /\ \A n \in 0 .. 99 : RtcValue(Encoded(n, binary), binary) = n
    /\ \A n \in 0 .. 99 : /\ RtcYear(Encoded(20, binary), Encoded(n, binary), binary) = 2000 + n
                          /\ RtcYear(0, Encoded(n, binary), binary) = 2000 + n

\* Nothing is written behind a buffer, however long the names of the machine's parts are; a
\* line of the log that is cut off still ends as a line does.
BuffersRight ==
  /\ \A len \in 0 .. 2 * SlogSize : SlogBytes(len) <= SlogSize /\ SlogText(len) <= SlogBytes(len) - 3
  /\ \A head \in HeadLengths, tests \in 0 .. 2 : ReportLength(head, tests) + 1 <= ReportSize

\* Who makes a line: the holder of the mutex for an error, or the master for a tick after
\* an ECC error, and then an error was logged.  As long as none was, the master has not
\* reported one in this test, and if it has stopped all others wait.
WriterInv ==
  /\ writers \subseteq CPU /\ spoiled = {}
  /\ writers # {} => log_running /\ log_error_seen
  /\ \A c \in writers : (pc[c] = "show" /\ lock = c) \/ (c = Master /\ pc[c] = "run")
  /\ \A c \in writers \ {Master} : pc[Master] \notin {"show", "after", "update"}
  /\ log_running /\ ~log_error_seen =>
       /\ pc[Master] \notin {"show", "after", "update"}
       /\ halted => \A c \in CPU \ {Master} : pc[c] \in {"tick", "end"}

\* The inductive invariant behind LogTruthful: while the log runs, log_error_seen is what it
\* stands for; an error is ignored only in a run that has counted one, because the test is
\* only stopped in such a run.
LogInv ==
  /\ enable_tty_log \in BOOLEAN /\ log_running \in BOOLEAN
  /\ log_error_seen \in BOOLEAN /\ in_test \in BOOLEAN
  /\ error_lines \in Nat /\ pass_num \in Nat
  /\ log_running => (log_error_seen <=> in_test)
  /\ ErrorLogged /\ StatusRight /\ LinesWhole /\ WriterInv
  /\ halted /\ testpass = 2 => error_count > 0
  /\ dropped > 0 => error_count > 0

\* What a program at the other end of the serial line, or the reader of a report, concludes
\* is right: errors, results and dates; and each line comes whole, and no text runs out of
\* its buffer.
LogTruthful == ErrorLogged /\ LinesWhole /\ StatusRight /\ ReportRight /\ ClockRight /\ BuffersRight
=============================================================================
