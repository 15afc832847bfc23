----------------------------- MODULE MCUsbScan -----------------------------
(***************************************************************************)
(* Instances of UsbScan: a machine with an EHCI controller and its UHCI    *)
(* companion, one with an xHCI controller that has a USB 3 port, and one   *)
(* with more controllers than the list has room for.                       *)
(***************************************************************************)
EXTENDS UsbScan

ifc(cls, num, alt) == [t |-> "ifc", cls |-> cls, num |-> num, alt |-> alt, in |-> FALSE]
ep(cls, num, in)   == [t |-> "ep", cls |-> cls, num |-> num, alt |-> 0, in |-> in]

dev(speed, configs) ==
    [speed |-> speed, hub |-> FALSE, quirk |-> FALSE, kids |-> <<>>, configs |-> configs]
hub(speed, quirk, kids) ==
    [speed |-> speed, hub |-> TRUE, quirk |-> quirk, kids |-> kids,
     configs |-> << <<ifc("hub", 0, 0), ep("int", 1, TRUE)>> >>]

\* A hub that lists its endpoint behind more descriptors than the buffer holds.
LongHub(kids) ==
    [hub("high", FALSE, kids) EXCEPT
        !.configs = << [i \in 1 .. BufferLength |-> ifc("other", i, 0)] \o <<ep("int", 1, TRUE)>> >>]

MCEmpty == dev("none", << <<>> >>)

\* A keyboard, and one whose two keyboard interfaces surround another interface.
Keyboard(speed) == dev(speed, << <<ifc("kbd", 0, 0), ep("int", 1, TRUE)>> >>)
Combo(speed) ==
    dev(speed, << <<ifc("kbd", 0, 0), ep("int", 1, TRUE), ifc("other", 1, 0), ep("int", 2, TRUE),
                    ifc("kbd", 2, 0), ep("int", 3, TRUE)>> >>)
Mouse == dev("low", << <<ifc("other", 0, 0), ep("int", 1, TRUE)>> >>)

\* A drive; one with BOT in its second configuration behind half an interface; and
\* one with UAS first and BOT as an alternate setting.
Drive(speed) == dev(speed, << <<ifc("bot", 0, 0), ep("bulk", 1, TRUE), ep("bulk", 2, FALSE)>> >>)
OddDrive ==
    dev("high", << <<ifc("uas", 0, 0), ep("bulk", 1, TRUE), ep("bulk", 2, FALSE)>>,
                   <<ifc("bot", 0, 0), ep("bulk", 1, TRUE),
                     ifc("bot", 1, 1), ep("bulk", 4, FALSE), ep("bulk", 3, TRUE)>> >>)

\* The machines.  On the first one controllers 1 (UHCI) and 2 (EHCI) share the sockets,
\* and the EHCI function comes last, as on most chipsets.
Ehci == [pci |-> <<[multi |-> FALSE, functions |-> <<0, 0>>],
                   [multi |-> TRUE, functions |-> <<1, -1, 2>>]>>,
         type |-> <<"UHCI", "EHCI">>, space |-> <<"io", "mem">>, smm |-> <<"none", "gives">>,
         ports |-> << <<1, 2>>, <<1, 2>> >>, companion |-> <<1, 1>>, usb3 |-> {}, unknown |-> 0,
         caps |-> << <<>>, <<>> >>, ignore |-> FALSE]
EhciKept == [Ehci EXCEPT !.smm = <<"none", "keeps">>]
EhciAlone == [Ehci EXCEPT !.pci = <<[multi |-> FALSE, functions |-> <<1>>]>>, !.type = <<"EHCI">>,
                          !.space = <<"mem">>, !.smm = <<"none">>, !.ports = << <<1, 2>> >>,
                          !.companion = <<0, 0>>, !.caps = << <<>> >>]
NoEhci == [Ehci EXCEPT !.ignore = TRUE]
\* The ports of the xHCI controller in the order of its registers: two of USB 2, one
\* of no known protocol, one of USB 3.
Xhci == [EhciAlone EXCEPT !.type = <<"XHCI">>, !.ports = << <<1, 2, 4, 3>> >>,
                          !.companion = <<0, 0, 0, 0>>, !.usb3 = {3}, !.unknown = 4,
                          !.caps = << <<[major |-> 2, offset |-> 1, count |-> 2],
                                        [major |-> 3, offset |-> 4, count |-> 1]>> >>]
Three == [Ehci EXCEPT !.pci = <<[multi |-> TRUE, functions |-> <<1, 2, 3>>]>>,
                      !.type = <<"OHCI", "EHCI", "XHCI">>, !.space = <<"mem", "mem", "mem">>,
                      !.smm = <<"gives", "gives", "gives">>, !.ports = << <<1>>, <<1>>, <<2>> >>,
                      !.companion = <<1, 0>>,
                      !.caps = << <<>>, <<>>, <<[major |-> 2, offset |-> 1, count |-> 1]>> >>]

on(b, p) == [bus |-> b, plugged |-> p]

MCBuses ==
    {on(Ehci, <<Keyboard("low"), hub("high", FALSE, <<Keyboard("low"), OddDrive>>)>>),
     on(Ehci, <<hub("full", FALSE, <<Mouse, Combo("low")>>), MCEmpty>>),
     on(Ehci, <<Drive("high"), Combo("full")>>),
     on(EhciKept, <<Keyboard("low"), Drive("high")>>),
     on(NoEhci, <<Keyboard("full"), Drive("high")>>),
     on(EhciAlone, <<hub("high", FALSE, <<MCEmpty, hub("high", FALSE, <<Drive("high")>>)>>), MCEmpty>>),
     on(Xhci, <<hub("high", FALSE, <<Mouse, Keyboard("low"), OddDrive>>), Mouse, MCEmpty, MCEmpty>>),
     on(Xhci, <<hub("high", FALSE, <<hub("full", FALSE, <<Keyboard("low")>>), Mouse>>),
                MCEmpty, MCEmpty, Keyboard("low")>>),
     on(Xhci, <<Keyboard("low"), hub("high", TRUE, <<Mouse>>), MCEmpty, MCEmpty>>),
     on(EhciAlone, <<LongHub(<<Mouse>>), Keyboard("high")>>),
     on(Xhci, <<Combo("full"), Mouse, Drive("super"), MCEmpty>>),
     on(Three, <<Keyboard("low"), Keyboard("low")>>)}

MCLatePlugs == {Drive("high"), Drive("super"), Mouse}
=============================================================================
