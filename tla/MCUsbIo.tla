------------------------------ MODULE MCUsbIo ------------------------------
(***************************************************************************)
(* A drive and a keyboard on one controller: a small drive, one of more    *)
(* than 2 TiB, and one that refuses READ CAPACITY (10); or a terminal, a   *)
(* legacy keyboard and a USB keyboard; or two keyboards on one of the      *)
(* older controllers.                                                      *)
(***************************************************************************)
EXTENDS Console

Used(sessions, keys, faults, scans) ==
    [sessions |-> sessions, ops |-> 1, keys |-> keys, faults |-> faults, scans |-> scans]

Plain(c) == [chars |-> <<c>>, key |-> c]
Enter == [chars |-> <<"cr">>, key |-> "nl"]

NoTerminal == [keys |-> {}, n |-> 0, drains |-> 0]
\* ESC, arrows and function keys in their several forms, and keys without a meaning.
Vt220 == [keys |-> {Plain("a"), [chars |-> <<"esc">>, key |-> "esc"],
                    [chars |-> <<"esc", "A">>, key |-> "u"], [chars |-> <<"esc", "[", "D">>, key |-> "l"],
                    [chars |-> <<"esc", "O", "P">>, key |-> "1"], [chars |-> <<"esc", "[", "1", "7", "~">>, key |-> "6"],
                    [chars |-> <<"esc", "[", "1", "~">>, key |-> "none"],
                    [chars |-> <<"esc", "[", "2", "3", "~">>, key |-> "none"]}, n |-> 2, drains |-> 1]
\* One key beside those of the other keyboards.
OneKey == [keys |-> {Plain("a"), [chars |-> <<"esc", "[", "D">>, key |-> "l"]}, n |-> 1, drains |-> 1]
\* The keys of a field.
Editing == [keys |-> {Plain(c) : c \in {"1", "0", "x", "k", "bs"}} \cup {Enter}, n |-> 4, drains |-> 0]

Board(kind, presses, requests, bulks, faults) ==
    [kind |-> kind, presses |-> presses, requests |-> requests, bulks |-> bulks, faults |-> faults]
NoBoard == Board("none", 0, 0, 0, 0)
\* Keys of both keyboards, faults, and requests before them or, with EHCI, between them.
Boards == {Board("ehci", 2, 0, 1, 2), Board("ehci", 1, 1, 1, 1), Board("ehci", 0, 1, 2, 2)}
    \cup {Board(kind, 3, 0, 0, 1) : kind \in {"ohci", "uhci"}} \cup {Board(kind, 2, 0, 0, 2) : kind \in {"ohci", "uhci"}}
    \cup {Board(kind, 1, 2, 0, 1) : kind \in {"ohci", "uhci"}}

\* One fault while a key is pressed, or two without; more keys than the buffer holds; keys
\* of every keyboard.
MCSetups ==
    {[big |-> FALSE, old |-> FALSE, used |-> u, terminal |-> NoTerminal, board |-> NoBoard] :
        u \in {Used(1, 1, 1, 0), Used(1, 0, 2, 0), Used(1, 2, 0, 0), Used(0, 3, 0, 0)}}
    \cup {[big |-> TRUE, old |-> o, used |-> Used(1, 0, 1, 0), terminal |-> NoTerminal, board |-> NoBoard] : o \in BOOLEAN}
    \cup {[big |-> FALSE, old |-> FALSE, used |-> Used(0, 0, 0, 0), terminal |-> t, board |-> NoBoard] : t \in {Vt220, Editing}}
    \cup {[big |-> FALSE, old |-> FALSE, used |-> Used(0, 1, 0, 1), terminal |-> OneKey, board |-> NoBoard],
          [big |-> FALSE, old |-> FALSE, used |-> Used(0, 0, 0, 2), terminal |-> NoTerminal, board |-> NoBoard]}
    \cup {[big |-> FALSE, old |-> FALSE, used |-> Used(0, 0, 0, 0), terminal |-> NoTerminal, board |-> b] : b \in Boards}
MCKeys == {4, 5, 6}
MCValues == {1}

\* A letter, an arrow, the same with the shift that Num Lock adds, Home, and Pause.
MCScans ==
    {[codes |-> <<"x1e", "x9e">>, key |-> "a"], [codes |-> <<"e0", "x4b", "e0", "xcb">>, key |-> "l"],
     [codes |-> <<"e0", "x2a", "e0", "x48", "e0", "xc8", "e0", "xaa">>, key |-> "u"],
     [codes |-> <<"e0", "x47", "e0", "xc7">>, key |-> "none"]}
=============================================================================
