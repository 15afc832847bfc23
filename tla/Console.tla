------------------------------ MODULE Console ------------------------------
(***************************************************************************)
(* What the user types (system/keyboard.c, lib/read.c and the receiving    *)
(* side of system/serial.c): get_key looks at the serial line, then at the *)
(* USB keyboards (UsbIo), then at the legacy keyboard.  A key of a         *)
(* terminal is one character or an escape sequence, the characters of      *)
(* which arrive one after the other; get_key waits a little for the rest.  *)
(*                                                                         *)
(* Every ten seconds do_tick empties the line's receiver for the dongle    *)
(* (serial_poll_rx), whether there is one or not: what has arrived by then *)
(* is lost.                                                                *)
(***************************************************************************)
EXTENDS UsbIo, HcdQueues     \* a setup also has a terminal and a board

CONSTANTS
    Scans,          \* what the legacy keyboard sends: [codes, key]
    FieldWidth      \* of read_value

VARIABLES
    terminal,       \* [keys, n, drains]: what it sends for each key, [chars, key], key "none" if the
                    \* key has no meaning, and bounds on the keys and on the polls; never changes
    wire,           \* the characters on their way, and in the receiver, each with the
    fifo,           \* number of the stroke it belongs to
    seq,            \* the escape sequence get_key is reading
    hit,            \* (for the properties) the strokes that were cut, by a delay or a poll, or
                    \* that followed ESC so soon that the two look like a sequence
    strokes,        \* (for the properties) the strokes so far
    got,            \* (for the properties) the keys read from the line, with their stroke
    port,           \* the codes in the legacy controller: [mouse, code]
    escaped,        \* the static variable of get_key
    scanned,        \* (for the properties) the legacy keys pressed, and the ones read
    field,          \* the field of read_value, if a menu is reading one
    drains          \* the polls that are left

lineVars == <<terminal, wire, fifo, seq, hit, strokes, got, drains>>
consoleVars == <<vars, lineVars, port, escaped, scanned, field>>

-----------------------------------------------------------------------------
(* Escape sequences *)

Vt52 == [A |-> "u", B |-> "d", C |-> "r", D |-> "l"]
Pf == [P |-> "1", Q |-> "2", R |-> "3", S |-> "4", T |-> "5", U |-> "6", V |-> "7", W |-> "8", X |-> "9", Y |-> "0"]

\* Mutant: the codes of the function keys have no gap.
FKeyNoGap(d, e) ==
    CASE d = "1" /\ e \in {"1", "2", "3", "4", "5", "6", "7", "8", "9"} -> e
      [] d = "2" /\ e = "0" -> "0"
      [] OTHER -> "none"

\* The function keys of a VT220, by their two digits.
FKey(d, e) ==
    CASE d = "1" /\ e \in {"1", "2", "3", "4", "5"} -> e
      [] d = "1" /\ e = "7" -> "6" [] d = "1" /\ e = "8" -> "7" [] d = "1" /\ e = "9" -> "8"
      [] d = "2" /\ e = "0" -> "9" [] d = "2" /\ e = "1" -> "0"
      [] OTHER -> "none"

More == [more |-> TRUE, key |-> "none"]
Key(k) == [more |-> FALSE, key |-> k]

\* get_vt220_sequence2: ESC [ and what follows.
Sequence2(s, c) ==
    CASE Len(s) = 2 /\ c \in DOMAIN Vt52 -> Key(Vt52[c])
      [] Len(s) = 2 -> IF c \in {"1", "2", "3", "4", "5", "6"} THEN More ELSE Key("none")
      [] Len(s) = 3 -> IF c = "~" THEN Key("none") ELSE More
      [] OTHER -> Key(IF c = "~" THEN FKey(s[3], s[4]) ELSE "none")

\* The next character after s, "late" if it does not come in time.
Decode(s, c) ==
    CASE Len(s) = 1 -> (CASE c \in DOMAIN Vt52 -> Key(Vt52[c]) [] c \in {"O", "["} -> More
                          [] c = "late" -> Key("esc") [] OTHER -> Key("none"))
      [] s[2] = "O" -> Key(IF c \in DOMAIN Pf THEN Pf[c] ELSE "none")
      [] OTHER -> Sequence2(s, c)

-----------------------------------------------------------------------------
(* read_value *)

Decimal == {"0", "1", "2", "3", "4", "5", "6", "7", "8", "9"}
HexOnly == {"a", "b", "c", "d", "e", "f"}
SuffixKeys == {"k", "p", "m", "g", "t"}

EmptyField == [text |-> << >>, suffix |-> FALSE, done |-> FALSE, suffixes |-> 0]

IsHex(t) == Len(t) >= 2 /\ t[1] = "0" /\ t[2] = "x"

\* The field takes the character.
Fits(f, k) ==
    LET n == Len(f.text) IN
    /\ n < FieldWidth
    /\ \/ k \in Decimal /\ ~f.suffix
       \/ k \in HexOnly /\ IsHex(f.text) /\ ~f.suffix
       \/ k \in SuffixKeys /\ n > 0 /\ f.text[n] # "x"
       \/ k = "x" /\ n = 1 /\ f.text[1] = "0"

FieldKey(f, k) ==
    CASE k = "nl" -> [f EXCEPT !.done = f.text # << >>]
      [] k = "bs" /\ f.text # << >> -> [f EXCEPT !.text = Front(@), !.suffix = FALSE]
      [] Fits(f, k) -> [f EXCEPT !.text = Append(@, k), !.suffix = @ \/ k \in SuffixKeys,
                                 !.suffixes = @ + (IF k \in SuffixKeys THEN 1 ELSE 0)]
      [] OTHER -> f

Digit(c) ==
    CASE c \in Decimal -> (CHOOSE i \in 0 .. 9 : ToString(i) = c)
      [] OTHER -> CHOOSE i \in 10 .. 15 : <<"a", "b", "c", "d", "e", "f">>[i - 9] = c

Shift == [k |-> 10, p |-> 12, m |-> 20, g |-> 30, t |-> 40]

\* What read_value returns: the value is value * 2^shift.
FieldValue(f) ==
    LET hex == IsHex(f.text)
        body == IF f.suffix THEN Front(f.text) ELSE f.text
        digits == SubSeq(body, IF hex THEN 3 ELSE 1, Len(body))
    IN  [value |-> FoldLeft(LAMBDA v, c : v * (IF hex THEN 16 ELSE 10) + Digit(c), 0, digits),
         shift |-> IF f.suffix THEN Shift[Last(f.text)] ELSE 0]

-----------------------------------------------------------------------------
(* The serial line *)

\* get_key returns k, a key of the stroke s, to a menu's field or to check_input.
Returns(k, s) ==
    /\ got' = IF k = "none" THEN got ELSE Append(got, [key |-> k, stroke |-> s])
    /\ field' = IF field.done \/ k = "none" THEN field ELSE FieldKey(field, k)

\* The user presses a key of the terminal.
TypeStroke ==
    /\ Len(strokes) < terminal.n
    /\ \E s \in terminal.keys :
         /\ strokes' = Append(strokes, s)
         /\ wire' = wire \o [i \in DOMAIN s.chars |-> [ch |-> s.chars[i], stroke |-> Len(strokes) + 1]]
    /\ UNCHANGED <<vars, terminal, fifo, seq, hit, got, drains, port, escaped, scanned, field>>

Arrive ==
    /\ wire # << >>
    /\ fifo' = Append(fifo, Head(wire)) /\ wire' = Tail(wire)
    /\ UNCHANGED <<vars, terminal, seq, hit, strokes, got, drains, port, escaped, scanned, field>>

\* tty_get_char, at the beginning of get_key or within a sequence.
ReadLine ==
    LET c == Head(fifo).ch
        s == Head(fifo).stroke
        r == IF seq.read = << >> THEN IF c = "esc" THEN More ELSE Key(IF c = "cr" THEN "nl" ELSE c)
             ELSE Decode(seq.read, c)
    IN  /\ fifo # << >> /\ pc.at = "idle"
        /\ fifo' = Tail(fifo)
        /\ seq' = IF r.more THEN [read |-> Append(seq.read, c), stroke |-> IF seq.read = << >> THEN s ELSE seq.stroke]
                            ELSE [read |-> << >>, stroke |-> 0]
        /\ hit' = hit \cup (IF seq.read # << >> /\ s # seq.stroke /\ strokes[seq.stroke].chars = <<"esc">>
                            THEN {s, seq.stroke} ELSE {})
        /\ IF r.more THEN UNCHANGED <<got, field>>
                     ELSE Returns(r.key, IF seq.read = << >> THEN s ELSE seq.stroke)
        /\ UNCHANGED <<vars, terminal, wire, strokes, drains, port, escaped, scanned>>

\* The rest of the sequence is not there in time, because the line is slow or because the
\* sequence is over.
LineLate ==
    LET r == Decode(seq.read, "late")
        cut == {wire[i].stroke : i \in DOMAIN wire} \cap {seq.stroke}
    IN  /\ seq.read # << >> /\ fifo = << >>
        /\ hit' = hit \cup cut
        /\ seq' = IF r.more THEN [seq EXCEPT !.read = Append(@, "late")] ELSE [read |-> << >>, stroke |-> 0]
        /\ IF r.more THEN UNCHANGED <<got, field>> ELSE Returns(r.key, seq.stroke)
        /\ UNCHANGED <<vars, terminal, wire, fifo, strokes, drains, port, escaped, scanned>>

\* do_tick polls the receiver for the dongle: what it holds is thrown away.
SerialPollRx ==
    /\ seq.read = << >> /\ fifo # << >> /\ drains > 0 /\ pc.at = "idle"
    /\ drains' = drains - 1
    /\ hit' = hit \cup {fifo[i].stroke : i \in DOMAIN fifo}
    /\ fifo' = << >>
    /\ UNCHANGED <<vars, terminal, wire, seq, strokes, got, port, escaped, scanned, field>>

-----------------------------------------------------------------------------
(* The legacy keyboard *)

\* The user presses and releases a key; the codes come between those of the mouse.
PressLegacy ==
    /\ Spend("scans")
    /\ \E s \in Scans, mouse \in BOOLEAN :
         LET codes == [i \in DOMAIN s.codes |-> [mouse |-> FALSE, code |-> s.codes[i]]]
             move == <<[mouse |-> TRUE, code |-> "e0"]>>
         IN  /\ port' = port \o (IF mouse THEN <<codes[1]>> \o move \o Tail(codes) ELSE codes)
             /\ scanned' = [scanned EXCEPT !.pressed = IF s.key = "none" THEN @ ELSE Append(@, s.key)]
    /\ UNCHANGED <<driver, buf, ring, er, state, drive, disk, keyboard, lineVars, escaped, field>>

LegacyKeymap == [x01 |-> "esc", x02 |-> "1", x1e |-> "a", x1c |-> "nl", x48 |-> "u"]
Extended == [x48 |-> "u", x4b |-> "l", x4d |-> "r", x50 |-> "d"]

EscapedAfter(c) == IF c.mouse THEN escaped ELSE ~escaped /\ c.code = "e0"

\* The last part of get_key: nothing was on the line and no USB key in the buffer.
ReadLegacy ==
    LET c == Head(port)
        k == CASE c.mouse -> "none"
               [] escaped -> (IF c.code \in DOMAIN Extended THEN Extended[c.code] ELSE "none")
               [] OTHER -> IF c.code \in DOMAIN LegacyKeymap THEN LegacyKeymap[c.code] ELSE "none"
    IN  /\ port # << >> /\ seq.read = << >> /\ fifo = << >> /\ pc.at = "idle"
        /\ kbd.in = kbd.out /\ Events(er) = <<>>
        /\ port' = Tail(port)
        /\ escaped' = EscapedAfter(c)
        /\ scanned' = [scanned EXCEPT !.read = IF k = "none" THEN @ ELSE Append(@, k)]
        /\ field' = IF field.done \/ k = "none" THEN field ELSE FieldKey(field, k)
        /\ UNCHANGED <<vars, lineVars>>

-----------------------------------------------------------------------------
ConsoleInit ==
    /\ \E d \in Setups : Start(d) /\ terminal = d.terminal /\ HcdStart(d.board)
    /\ wire = << >> /\ fifo = << >> /\ seq = [read |-> << >>, stroke |-> 0]
    /\ hit = {} /\ strokes = << >> /\ got = << >> /\ drains = terminal.drains
    /\ port = << >> /\ escaped = FALSE /\ scanned = [pressed |-> << >>, read |-> << >>]
    /\ field = EmptyField

UsbHidKeymap(code) == CASE code = 4 -> "a" [] code = 5 -> "b" [] code = 6 -> "c" [] OTHER -> "none"

\* get_key looks at the USB keyboards when there is nothing on the line.
ReadUsb ==
    /\ fifo = << >> /\ seq.read = << >> /\ PollKeyboards
    /\ field' = IF field.done \/ taken' = taken THEN field ELSE FieldKey(field, UsbHidKeymap(Last(taken')))
    /\ UNCHANGED <<lineVars, port, escaped, scanned>>

UsbNext ==
    /\ \/ Driver \/ Hardware \/ NextOp \/ EndSession \/ ChangeKey \/ SendReport
       \/ seq.read = << >> /\ StartSession
    /\ UNCHANGED <<lineVars, port, escaped, scanned, field>>

GetKey == ReadLine \/ LineLate \/ ReadLegacy

ConsoleNext == UsbNext \/ ReadUsb \/ TypeStroke \/ Arrive \/ GetKey \/ SerialPollRx \/ PressLegacy

rest == <<lineVars, port, escaped, scanned, field>>

allVars == <<consoleVars, hcdVars>>
ConsoleStep(A) == A /\ UNCHANGED hcdVars
HcdStep(A) == A /\ UNCHANGED consoleVars

BoardNext == ConsoleStep(ConsoleNext) \/ HcdStep(HcdNext)

\* The program polls its inputs for ever, the line moves on, drivers go on and controllers serve
\* what is scheduled.  A machine has an xHCI controller or an older one, so that a condition
\* on either of two steps, one of each, is a condition on each.
BoardSpec ==
    /\ ConsoleInit /\ [][BoardNext]_allVars
    /\ WF_allVars(ConsoleStep(GetKey \/ Arrive))
    /\ WF_allVars(ConsoleStep(Driver /\ UNCHANGED rest) \/ HcdStep(HcdProgress))
    /\ WF_allVars(ConsoleStep(Hardware /\ UNCHANGED rest))
    /\ WF_allVars(ConsoleStep((NextOp \/ EndSession) /\ UNCHANGED rest))
    /\ WF_allVars(ConsoleStep(ReadUsb) \/ HcdStep(KeyboardDriver))
    /\ WF_allVars(ConsoleStep(SendReport /\ UNCHANGED rest))

-----------------------------------------------------------------------------
\* The types of the variables of the console.
ConsoleTypeOK ==
    /\ TypeOK
    /\ Len(seq.read) <= 4 /\ escaped \in BOOLEAN /\ drains \in Nat
    /\ hit \subseteq DOMAIN strokes /\ Len(field.text) <= FieldWidth

KeysOf(s) == LET mine == SelectSeq(got, LAMBDA g : g.stroke = s) IN [i \in DOMAIN mine |-> mine[i].key]

Pending(s) == \/ \E i \in DOMAIN wire : wire[i].stroke = s
              \/ \E i \in DOMAIN fifo : fifo[i].stroke = s
              \/ seq.read # << >> /\ seq.stroke = s

\* A key of the terminal means what the user pressed, once, and a key without a meaning does
\* nothing.  A delay or a poll in the middle of a sequence spoils this one key only: ESC
\* alone, which reboots, and the digits of a function key are never read from another one.
LineKeysRight ==
    \A s \in DOMAIN strokes \ hit :
      ~Pending(s) => KeysOf(s) = IF strokes[s].key = "none" THEN << >> ELSE <<strokes[s].key>>

\* The legacy keyboard's keys are read in their order, each one once and its release not at
\* all, with the mouse's bytes anywhere between.
LegacyKeysRight ==
    /\ IsPrefix(scanned.read, scanned.pressed)
    /\ port = << >> => scanned.read = scanned.pressed

\* A number, decimal or 0x and hexadecimal, and perhaps one suffix.
Number(t) ==
    LET n == Len(t)
        from == IF IsHex(t) THEN 3 ELSE 1
        allowed == IF IsHex(t) THEN Decimal \cup HexOnly ELSE Decimal
    IN  \A i \in from .. n : t[i] \in allowed \/ (i = n /\ i > from /\ t[i] \in SuffixKeys)

Meaning(t) ==
    LET suffixed == Last(t) \in SuffixKeys
        hex == IsHex(t)
        n == IF suffixed THEN Len(t) - 1 ELSE Len(t)
        from == IF hex THEN 3 ELSE 1
        weight(i) == (IF hex THEN 16 ELSE 10) ^ (n - i)
    IN  [value |-> FoldLeft(LAMBDA v, i : v + Digit(t[i]) * weight(i), 0, [j \in 1 .. n - from + 1 |-> from + j - 1]),
         shift |-> IF suffixed THEN Shift[Last(t)] ELSE 0]

\* However the field is edited, what is in it is a number, and read_value returns this
\* number, as long as the user has typed one suffix at most: a second one is taken as well,
\* and the first is then read as a digit.
FieldRight ==
    field.suffixes <= 1 =>
      /\ Number(field.text)
      /\ field.done => FieldValue(field) = Meaning(field.text)

\* Every key of the terminal is read in the end, and the older controllers' work is done.
LineRead == []<>(wire = << >> /\ fifo = << >> /\ seq.read = << >> /\ HcdSettled)

\* Keys of all three keyboards arrive in their order, once, and mean what was pressed; the
\* keyboard's transfer is never lost to a wait for the drive, nor to a frame that ends while the
\* driver of an older controller polls; a field holds the number that was
\* typed (get_key, process_usb_keyboard_report, read_value).
KeysRight ==
    /\ ConsoleTypeOK
    /\ RequestsRight /\ DoneIsNoticed /\ HcdKeysInOrder
    /\ KeyboardArmed /\ KeysInOrder
    /\ LineKeysRight /\ LegacyKeysRight /\ FieldRight

\* The session with the drive ends, requests of the older controllers end, and every key that
\* arrived is read in the end, whatever the drive does meanwhile.
IoProgress == SessionEnds /\ KeysTaken /\ LineRead

=============================================================================
