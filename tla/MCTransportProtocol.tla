------------------------ MODULE MCTransportProtocol ------------------------
\* Two nodes a and b; messages of 2 and 3 packets, of one PGN in both
\* directions and of another one, a broadcast one and one that fits a frame;
\* long ones of 4 and 5 packets (longer than 21 bytes) and fast ones of 2 and 3 frames.
EXTENDS NetworkTransports

MCFrom == [m \in Messages |-> IF m \in {"back", "longback"} THEN "b" ELSE "a"]
MCTo == [m \in Messages |-> CASE m \in {"all2", "fast2", "fast3"} -> Global
                              [] m \in {"back", "longback"} -> "a"
                              [] OTHER -> "b"]
MCPgn == [m \in Messages |-> IF m \in {"other", "long"} THEN 2 ELSE 1]
MCSize == [m \in Messages |-> CASE m = "three" -> 21
                                [] m = "short" -> 8
                                [] m = "long" -> 29
                                [] m \in {"long2", "longback"} -> 22
                                [] m = "fast3" -> 14
                                [] OTHER -> 9]

NoSends == [t \in Interface!Writers |-> <<>>]
Hardware(calls, arrive) ==
    [calls |-> calls, sends |-> NoSends, arrive |-> arrive, breaks |-> 0, refuses |-> 0]

Scenario(messages) ==
    [messages |-> messages, thread |-> MCFrom, threaded |-> FALSE,
     lost |-> 0, repeated |-> 0, refused |-> 0, address |-> 0, hardware |-> Hardware(<<>>, <<>>)]

\* No messages, but frames: the stack answers what arrives; an application thread
\* sends while the interface is stopped and started, and the driver may fail; or both.
Frames(hardware) == [Scenario({}) EXCEPT !.hardware = hardware]
Passing == [Hardware(<<"start">>, <<1, 2, 3, 4>>) EXCEPT !.sends["update"] = <<5, 6, 7>>, !.refuses = 1]
Stopped == [Hardware(<<"start", "stop", "assign", "start">>, <<1, 2>>) EXCEPT !.sends["app"] = <<3, 4, 5>>]
Failing == [Hardware(<<"stop", "assign", "start", "stop", "start", "stop", "assign", "unassign", "assign", "start">>, <<1, 2>>)
                EXCEPT !.sends["app"] = <<3, 4>>, !.breaks = 1]
Both == [Hardware(<<"start">>, <<1>>) EXCEPT !.sends["update"] = <<2>>, !.sends["app"] = <<3>>]
MCFrames == {Frames(Passing), Frames(Stopped), Frames(Failing), Frames(Both)}

\* Many lost frames and a lost address; a repeated and a refused frame with
\* traffic in both directions; a caller's thread and a lost frame.  Long
\* messages of two PGNs and of both directions with the same faults; fast
\* messages of one PGN with a caller's thread and a lost frame, or with refused
\* frames and a lost address.
MCScenarios ==
    {[Scenario({"two", "three", "other", "short"}) EXCEPT !.lost = 3, !.address = 1],
     [Scenario({"three", "back"}) EXCEPT !.repeated = 1, !.refused = 1],
     [Scenario({"two", "all2"}) EXCEPT !.threaded = TRUE, !.lost = 1],
     [Scenario({"long", "long2"}) EXCEPT !.lost = 2, !.refused = 1, !.address = 1],
     [Scenario({"long2", "longback"}) EXCEPT !.repeated = 1],
     [Scenario({"fast2", "fast3"}) EXCEPT !.threaded = TRUE, !.lost = 1],
     [Scenario({"fast3"}) EXCEPT !.refused = 2, !.address = 1]} \union MCFrames

\* Every message is sent by a thread of its own.
MCThreads ==
    {[Scenario({"two", "three"}) EXCEPT !.threaded = TRUE,
                                        !.thread = [m \in Messages |-> m]]}
=============================================================================
