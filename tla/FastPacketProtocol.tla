------------------------ MODULE FastPacketProtocol ------------------------
(***************************************************************************)
(* nmea2000_fast_packet_protocol.cpp: messages of 9 to 223 bytes, six in   *)
(* the first frame and seven in each of the others, with no handshake.     *)
(* Every node has registered a callback for every PGN in use.              *)
(*                                                                         *)
(* A frame says its place in the message; the receiver looks only whether  *)
(* that is zero, and never compares the sequence number, which is left out *)
(* here.  The network thread receives frames and updates the sessions; the *)
(* threads that call send_multipacket_message take the lock twice, to look *)
(* for a session and to insert one.  The bus, addresses and faults are     *)
(* those of TransportProtocol.                                             *)
(***************************************************************************)
EXTENDS Integers, Sequences, FiniteSets, SequencesExt

CONSTANTS Nodes, Messages, Global, From, To, Pgn, Size

VARIABLES
    sessions,   \* activeSessions of each node
    inbox,      \* frames on their way to each node
    calls,      \* the messages of the calls that found no session and have
                \* not inserted one yet
    outcome,    \* what the transmit-complete callback said of each message
    delivered,  \* what the registered callbacks were given, per node
    twice,      \* history: the messages whose failure was reported again
    valid, faults, scenario

vars == <<sessions, inbox, calls, outcome, delivered, twice, valid, faults, scenario>>

CAN_DATA_LENGTH == 8
MAX_PROTOCOL_MESSAGE_LENGTH == 223
PROTOCOL_BYTES_PER_FRAME == 7

Smaller(x, y) == IF x < y THEN x ELSE y

UpDiv(x, y) == (x + y - 1) \div y

calculate_number_of_frames(messageLength) ==
    IF messageLength > 6
    THEN 1 + UpDiv(messageLength - 6, PROTOCOL_BYTES_PER_FRAME)
    ELSE UpDiv(messageLength, PROTOCOL_BYTES_PER_FRAME)

NewSession(dir, src, dst, pgn, size, msg) ==
    [dir |-> dir, src |-> src, dst |-> dst, pgn |-> pgn, size |-> size,
     bytes |-> 0, data |-> <<>>, msg |-> msg]

get_last_packet_number(s) == calculate_number_of_frames(s.bytes)

get_number_of_remaining_packets(s) ==
    calculate_number_of_frames(s.size) - get_last_packet_number(s)

get_session(ss, pgn, src, dst) ==
    SelectInSeq(ss, LAMBDA s : s.pgn = pgn /\ s.src = src /\ s.dst = dst)

has_session(ss, pgn, src, dst) == get_session(ss, pgn, src, dst) # 0

--------------------------------------------------------------------------------
\* Reception

\* A frame kept by session s: at most the bytes that are still missing.
Stored(s, f) ==
    [s EXCEPT !.data = Append(@, f.payload),
              !.bytes = @ + Smaller(s.size - @,
                                    IF f.counter = 0 THEN 6 ELSE 7)]

\* The first frame of a message opens a session.
Opened(ss, f) ==
    IF f.size \in (CAN_DATA_LENGTH + 1)..MAX_PROTOCOL_MESSAGE_LENGTH
    THEN Append(ss, Stored(NewSession("rx", f.src, f.dst, f.pgn, f.size, "none"), f))
    ELSE ss

\* Mutant: the first frame of another message is added to an open session.
Restarted_Added(ss, i, f) == [ss EXCEPT ![i] = Stored(@, f)]

\* ... and closes the one it finds; the new message is not kept either.
Restarted(ss, i, f) == RemoveAt(ss, i)

\* The session list after a frame, and the message it completed, if any.
process_message(ss, f) ==
    LET i == get_session(ss, f.pgn, f.src, f.dst)
        s == Stored(ss[i], f)
        message == [src |-> s.src, pgn |-> s.pgn, size |-> s.size,
                    data |-> s.data]
    IN  IF i = 0 THEN [ss |-> IF f.counter = 0 THEN Opened(ss, f) ELSE ss,
                       rcv |-> <<>>]
        ELSE IF f.counter = 0 THEN [ss |-> Restarted(ss, i, f), rcv |-> <<>>]
        ELSE IF s.bytes >= s.size THEN [ss |-> RemoveAt(ss, i), rcv |-> <<message>>]
        ELSE [ss |-> [ss EXCEPT ![i] = s], rcv |-> <<>>]

--------------------------------------------------------------------------------
\* Actions

Init ==
    /\ sessions = [n \in Nodes |-> <<>>]
    /\ inbox = [n \in Nodes |-> <<>>]
    /\ calls = {}
    /\ outcome = [m \in Messages |-> "idle"]
    /\ delivered = [n \in Nodes |-> <<>>]
    /\ twice = {}

Receive(n) ==
    /\ inbox[n] # <<>>
    /\ inbox' = [inbox EXCEPT ![n] = Tail(@)]
    /\ \E r \in {process_message(sessions[n], Head(inbox[n]))} :
          /\ sessions' = [sessions EXCEPT ![n] = r.ss]
          /\ delivered' = [delivered EXCEPT ![n] = @ \o r.rcv]
    /\ UNCHANGED <<calls, outcome, twice, valid, faults, scenario>>

\* The loop compares its count with what is left after each frame, so one
\* update sends half of the frames.
FramesThisUpdate(s) == UpDiv(get_number_of_remaining_packets(s), 2)

\* The j-th frame from here.
DataFrame(s, j) ==
    LET counter == get_last_packet_number(s) + j - 1
    IN  [src |-> s.src, dst |-> s.dst, pgn |-> s.pgn, counter |-> counter,
         size |-> s.size, payload |-> <<s.msg, counter + 1>>]

\* The next k frames of s are on their way to every node they are meant for.
Sent(box, s, k) ==
    [n \in Nodes |-> IF s.dst = n \/ (s.dst = Global /\ s.src # n)
                     THEN box[n] \o [j \in 1..k |-> DataFrame(s, j)]
                     ELSE box[n]]

\* What k more frames make of the number of bytes transferred.
BytesAfter(s, k) == IF k = 0 THEN s.bytes
                    ELSE 7 * (get_last_packet_number(s) + k) - 1

AddressesValid(s) == s.src \in valid /\ (s.dst = Global \/ s.dst \in valid)

\* close_session at node n.
Close(n, i, success) ==
    /\ sessions' = [sessions EXCEPT ![n] = RemoveAt(@, i)]
    /\ outcome' = IF sessions[n][i].dir = "rx" THEN outcome
                  ELSE [outcome EXCEPT ![sessions[n][i].msg] =
                          IF success THEN "success" ELSE "failed"]

\* The update goes on after the session was closed.  Its next frame is refused,
\* since an address is not valid; a message that has sent no frame yet, or none
\* for 750 ms, is then taken for timed out too and reported as failed again.
UpdateInvalid(n, i) ==
    LET s == sessions[n][i]
    IN  /\ ~AddressesValid(s)
        /\ Close(n, i, FALSE)
        /\ \/ twice' = twice
           \/ s.dir = "tx" /\ twice' = twice \union {s.msg}
        /\ UNCHANGED <<inbox, calls, delivered, valid, faults, scenario>>

UpdateSend(n, i) ==
    LET s == sessions[n][i]
    IN  /\ s.dir = "tx" /\ AddressesValid(s)
        /\ \E r \in {[s EXCEPT !.bytes = BytesAfter(s, FramesThisUpdate(s))]} :
              IF get_number_of_remaining_packets(r) = 0 THEN Close(n, i, TRUE)
              ELSE /\ sessions' = [sessions EXCEPT ![n][i] = r]
                   /\ UNCHANGED outcome
        /\ inbox' = Sent(inbox, s, FramesThisUpdate(s))
        /\ UNCHANGED <<calls, delivered, twice, valid, faults, scenario>>

\* The driver refuses a frame after k others.  The session's time stamp is
\* zero until its first frame is sent, so a refused first frame is taken for
\* a timeout; a later one is one when the driver refuses for 750 ms.
UpdateRefused(n, i) ==
    LET s == sessions[n][i]
    IN  /\ s.dir = "tx" /\ AddressesValid(s)
        /\ faults.refused < scenario.refused
        /\ faults' = [faults EXCEPT !.refused = @ + 1]
        /\ \E k \in 0..(FramesThisUpdate(s) - 1) :
              /\ inbox' = Sent(inbox, s, k)
              /\ \/ /\ k = 0
                    /\ Close(n, i, FALSE)
                 \/ /\ k > 0 \/ s.bytes > 0
                    /\ sessions' = [sessions EXCEPT ![n][i].bytes = BytesAfter(s, k)]
                    /\ UNCHANGED outcome
        /\ UNCHANGED <<calls, delivered, twice, valid, scenario>>

\* 750 ms without a frame: none is on its way and nobody is about to send.  (The
\* update of a reception that was just closed may close it again, to no effect.)
UpdateTimeout(n, i) ==
    /\ sessions[n][i].dir = "rx" /\ AddressesValid(sessions[n][i])
    /\ calls = {}
    /\ \A k \in Nodes : /\ inbox[k] = <<>>
                        /\ \A j \in DOMAIN sessions[k] : sessions[k][j].dir = "rx"
    /\ Close(n, i, FALSE)
    /\ UNCHANGED <<inbox, calls, delivered, twice, valid, faults, scenario>>

Update(n, i) == UpdateInvalid(n, i) \/ UpdateSend(n, i)
                \/ UpdateRefused(n, i) \/ UpdateTimeout(n, i)

Fits(size) == size > CAN_DATA_LENGTH /\ size <= MAX_PROTOCOL_MESSAGE_LENGTH

TxSession(m) == NewSession("tx", From[m], To[m], Pgn[m], Size[m], m)

\* send_multipacket_message.  A refused call changes nothing.  has_session takes
\* the lock and gives it back ...
SendCheck(m) ==
    /\ m \in scenario.messages /\ outcome[m] = "idle"
    /\ \A c \in calls : scenario.thread[c] # scenario.thread[m]
    /\ Fits(Size[m])
    /\ AddressesValid(TxSession(m))
    /\ ~has_session(sessions[From[m]], Pgn[m], From[m], To[m])
    /\ calls' = calls \union {m}
    /\ UNCHANGED <<sessions, inbox, outcome, delivered, twice, valid, faults, scenario>>

\* ... and the insertion takes it again, whatever happened in between.
SendInsert(m) ==
    /\ m \in calls
    /\ calls' = calls \ {m}
    /\ sessions' = [sessions EXCEPT ![From[m]] = Append(@, TxSession(m))]
    /\ outcome' = [outcome EXCEPT ![m] = "pending"]
    /\ UNCHANGED <<inbox, delivered, twice, valid, faults, scenario>>

Lose(n) ==
    /\ inbox[n] # <<>> /\ faults.lost < scenario.lost
    /\ inbox' = [inbox EXCEPT ![n] = Tail(@)]
    /\ faults' = [faults EXCEPT !.lost = @ + 1]
    /\ UNCHANGED <<sessions, calls, outcome, delivered, twice, valid, scenario>>

\* Without threads a call runs to its end before the node does anything else.
MayRun(n) == scenario.threaded \/ \A m \in calls : From[m] # n

Network(n) == MayRun(n) /\ (Receive(n) \/ \E i \in DOMAIN sessions[n] : Update(n, i))

Work == (\E n \in Nodes : Network(n)) \/ (\E m \in Messages : SendInsert(m))

Next ==
    \/ Work
    \/ \E n \in Nodes : Lose(n)
    \/ \E m \in Messages : MayRun(From[m]) /\ SendCheck(m)

--------------------------------------------------------------------------------
\* Properties

Whole(m) ==
    [src |-> From[m], pgn |-> Pgn[m], size |-> Size[m],
     data |-> [k \in 1..calculate_number_of_frames(Size[m]) |-> <<m, k>>]]

\* The protocol implements MessageTransfer, where "success" means no more
\* than "sent" (as for a broadcast): complete messages, each handed over at
\* most once.
Transfer == INSTANCE MessageTransfer WITH
    To <- [m \in Messages |-> Global],
    received <- [n \in Nodes |-> [i \in DOMAIN delivered[n] |->
        IF \E m \in Messages : delivered[n][i] = Whole(m)
        THEN CHOOSE m \in Messages : delivered[n][i] = Whole(m)
        ELSE "garbled"]]

\* A second report says what the first one said, and is only made of a message
\* that lost the address of one of its ends.
ToldAgain ==
    \A m \in twice : outcome[m] = "failed" /\ ~AddressesValid(TxSession(m))

\* No session stays and no submitted message is left without an answer.
Ended == calls = {} /\ (\A n \in Nodes : sessions[n] = <<>>)
         /\ (\A m \in Messages : outcome[m] # "pending")
=============================================================================
