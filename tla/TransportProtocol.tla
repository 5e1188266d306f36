------------------------- MODULE TransportProtocol -------------------------
(***************************************************************************)
(* can_transport_protocol.cpp: messages of 9 to 1785 bytes, cut in packets *)
(* of 7, to one destination (RTS, CTS, data, EOMA) or to all (BAM, data).  *)
(* Every node runs this code.  Its network thread receives frames and      *)
(* updates the sessions; application threads call                          *)
(* protocol_transmit_message, which looks for a session, inserts one and   *)
(* serves it once, with the lock taken for each access only.               *)
(*                                                                         *)
(* The bus (external) delivers the frames between two nodes in order.  It  *)
(* may lose or repeat one, and a driver may refuse one.  A timeout fires   *)
(* when no frame is on its way and no call is in progress (those take      *)
(* milliseconds, the timeouts are 750 and 1250 ms).                        *)
(*                                                                         *)
(* A scenario says which messages are sent, by which threads, whether the  *)
(* library was built with threads (CAN_STACK_DISABLE_THREADS) and how many *)
(* frames are lost, repeated and refused and addresses lost at most.       *)
(***************************************************************************)
EXTENDS Integers, Sequences, FiniteSets, SequencesExt

CONSTANTS
    Nodes, Global,                  \* control functions; the global address
    Messages, Threads,
    From, To, Pgn, Size,            \* of each message: ends, PGN, bytes
    MaxSessions, PacketsPerCts, FramesPerUpdate,    \* CANNetworkConfiguration
    MAX_PROTOCOL_DATA_LENGTH,       \* 1785; less in the runs
    Scenarios

ASSUME MessagesAssumption ==
    /\ Global \notin Nodes /\ "none" \notin Messages
    /\ \A m \in Messages :
          /\ From[m] \in Nodes /\ To[m] \in (Nodes \ {From[m]}) \cup {Global}
          /\ Size[m] \in Nat /\ Size[m] <= 65535
ASSUME ScenariosAssumption ==
    \A c \in Scenarios :
        /\ c.thread \in [Messages -> Threads] /\ c.messages \subseteq Messages
        /\ c.threaded \in BOOLEAN
        /\ {c.lost, c.repeated, c.refused, c.address} \subseteq Nat
ASSUME ConfigurationAssumption ==
    /\ MaxSessions \in Nat /\ PacketsPerCts \in 1..255
    /\ FramesPerUpdate \in 1..255
    /\ MAX_PROTOCOL_DATA_LENGTH \in 9..1785

VARIABLES
    sessions,   \* activeSessions of each node's manager
    inbox,      \* frames on their way to each node
    app,        \* the application threads inside protocol_transmit_message
    outcome,    \* what sessionCompleteCallback said of each message
    delivered,  \* what canMessageReceivedCallback was given, per node
    valid,      \* nodes with a valid address
    faults,     \* frames lost, repeated and refused so far; addresses lost
    scenario

vars == <<sessions, inbox, app, outcome, delivered, valid, faults, scenario>>

CAN_DATA_LENGTH == 8
PROTOCOL_BYTES_PER_FRAME == 7

UInt8(x) == x % 256

Smaller(x, y) == IF x < y THEN x ELSE y

--------------------------------------------------------------------------------
\* Sessions

NewSession(dir, src, dst, pgn, size, limit, state, msg) ==
    [dir |-> dir, src |-> src, dst |-> dst, pgn |-> pgn, size |-> size,
     limit |-> limit, state |-> state, last |-> 0, ack |-> 0, cts |-> 0,
     data |-> <<>>, msg |-> msg]

get_total_number_of_packets(size) ==
    UInt8(size \div PROTOCOL_BYTES_PER_FRAME
          + (IF size % PROTOCOL_BYTES_PER_FRAME > 0 THEN 1 ELSE 0))

get_number_of_remaining_packets(s) ==
    UInt8(get_total_number_of_packets(s.size) - s.last)

get_cts_number_of_packets_remaining(s) ==
    UInt8(s.cts - UInt8(s.last - s.ack))

is_broadcast(s) == s.dst = Global

\* The position of the first session between two nodes; 0 when there is none.
get_session(ss, src, dst) ==
    SelectInSeq(ss, LAMBDA s : s.src = src /\ s.dst = dst)

\* Mutant: the sender does not look for a session.
has_session_Never(ss, src, dst) == FALSE

has_session(ss, src, dst) == get_session(ss, src, dst) # 0

\* The effect of a handler: the session list, the frames it tries to send,
\* the transmissions it completed and the message it handed over, if any.
Effect(ss) == [ss |-> ss, out |-> <<>>, done |-> {}, rcv |-> <<>>]

--------------------------------------------------------------------------------
\* Frames

Frame(kind, src, dst, pgn, size, count, number, msg) ==
    [kind |-> kind, src |-> src, dst |-> dst, pgn |-> pgn, size |-> size,
     count |-> count, number |-> number, msg |-> msg]

AbortFrame(src, dst, pgn) == Frame("ABORT", src, dst, pgn, 0, 0, 0, "none")

RtsFrame(s) == Frame("RTS", s.src, s.dst, s.pgn, s.size, s.limit,
                     get_total_number_of_packets(s.size), "none")

BamFrame(s) == Frame("BAM", s.src, Global, s.pgn, s.size, 255,
                     get_total_number_of_packets(s.size), "none")

EomaFrame(s) == Frame("EOMA", s.dst, s.src, s.pgn, s.size, 0, 0, "none")

\* Mutant: the window is not cut at the end of the message.
PacketsThisSegment_Whole(s) == s.limit

\* Packets granted by the next CTS.
PacketsThisSegment(s) ==
    LET left == get_number_of_remaining_packets(s)
    IN  IF left > s.limit THEN s.limit ELSE Smaller(left, 16)

CtsFrame(s) == Frame("CTS", s.dst, s.src, s.pgn, 0, PacketsThisSegment(s),
                     UInt8(s.last + 1), "none")

\* The data packet after the last one sent; its payload is the piece of the
\* message at that place (padding, when the place is past the end).
DataFrame(s, number) ==
    Frame("DATA", s.src, s.dst, 0, 0, 0, UInt8(number), s.msg)

\* send_clear_to_send: the window is opened only if the frame was sent.
CtsSent(s, ok) ==
    IF ok THEN [s EXCEPT !.cts = PacketsThisSegment(s), !.ack = s.last] ELSE s

close_session(r, i, success) ==
    [r EXCEPT !.ss = RemoveAt(@, i),
              !.done = IF r.ss[i].dir = "tx"
                       THEN @ \cup {<<r.ss[i].msg, success>>} ELSE @]

\* The other end is told, unless the session is a broadcast one.
abort_session(r, i) ==
    LET s == r.ss[i]
        abort == IF s.dir = "tx" THEN AbortFrame(s.src, s.dst, s.pgn)
                                 ELSE AbortFrame(s.dst, s.src, s.pgn)
    IN  close_session(IF is_broadcast(s) THEN r
                      ELSE [r EXCEPT !.out = Append(@, abort)], i, FALSE)

--------------------------------------------------------------------------------
\* Reception.  ok says whether the driver takes the frame the handler sends.

process_broadcast_announce_message(n, f) ==
    LET r == Effect(sessions[n])
        old == get_session(r.ss, f.src, Global)
        c == IF old = 0 THEN r ELSE close_session(r, old, FALSE)
        new == NewSession("rx", f.src, Global, f.pgn, f.size, 255,
                          "WaitForDataTransferPacket", "none")
    IN  IF Len(r.ss) >= MaxSessions \/ f.size > MAX_PROTOCOL_DATA_LENGTH THEN r
        ELSE IF f.number # get_total_number_of_packets(f.size) THEN c
        ELSE [c EXCEPT !.ss = Append(@, new)]

process_request_to_send(n, f, ok) ==
    LET r == Effect(sessions[n])
        old == get_session(r.ss, f.src, n)
        c == IF old = 0 THEN r
             ELSE IF r.ss[old].pgn # f.pgn THEN abort_session(r, old)
             ELSE close_session(r, old, FALSE)
        new == NewSession("rx", f.src, n, f.pgn, f.size,
                          Smaller(f.count, PacketsPerCts),
                          IF ok THEN "WaitForDataTransferPacket"
                                ELSE "SendClearToSend", "none")
    IN  IF Len(r.ss) >= MaxSessions
          THEN [r EXCEPT !.out = <<AbortFrame(n, f.src, f.pgn)>>]
        ELSE IF f.number # get_total_number_of_packets(f.size)
          THEN [c EXCEPT !.out = Append(@, AbortFrame(n, f.src, f.pgn))]
        ELSE [c EXCEPT !.ss = Append(@, CtsSent(new, ok)),
                       !.out = Append(@, CtsFrame(new))]

process_clear_to_send(n, f) ==
    LET r == Effect(sessions[n])
        i == get_session(r.ss, n, f.src)
        s == r.ss[i]
    IN  IF i = 0 THEN r
        ELSE IF s.pgn # f.pgn
          THEN LET a == abort_session(r, i)
               IN  [a EXCEPT !.out = Append(@, AbortFrame(n, f.src, f.pgn))]
        ELSE IF \/ f.number > get_total_number_of_packets(s.size)
                \/ s.state # "WaitForClearToSend"
          THEN abort_session(r, i)
        ELSE [r EXCEPT !.ss[i] =
                [s EXCEPT !.ack = UInt8(f.number - 1), !.cts = f.count,
                          !.state = IF f.count = 0 THEN @
                                    ELSE "SendDataTransferPackets"]]

process_end_of_session_acknowledgement(n, f) ==
    LET r == Effect(sessions[n])
        i == get_session(r.ss, n, f.src)
    IN  IF i # 0 /\ r.ss[i].state = "WaitForEndOfMessageAcknowledge"
        THEN close_session(r, i, TRUE) ELSE r

\* Sessions of both directions are closed when they carry this PGN.
process_abort(n, f) ==
    LET Closed(r, src, dst) ==
            LET i == get_session(r.ss, src, dst)
            IN  IF i # 0 /\ r.ss[i].pgn = f.pgn
                THEN close_session(r, i, FALSE) ELSE r
    IN  Closed(Closed(Effect(sessions[n]), f.src, n), n, f.src)

\* Mutant: a gap in the sequence numbers goes unnoticed.
PacketExpected_AnyLater(s, f) ==
    s.state = "WaitForDataTransferPacket" /\ f.number > s.last

\* A packet is kept only if it is the next one.
PacketExpected(s, f) ==
    /\ s.state = "WaitForDataTransferPacket"
    /\ f.number = s.last + 1
    /\ PROTOCOL_BYTES_PER_FRAME * s.last < s.size

process_data_transfer_message(n, f, ok) ==
    LET r == Effect(sessions[n])
        i == get_session(r.ss, f.src, f.dst)
        old == r.ss[i]
        s == [old EXCEPT !.last = f.number,
                         !.data = Append(@, <<f.msg, f.number>>)]
        got == [r EXCEPT !.ss[i] = s]
        message == [src |-> s.src, pgn |-> s.pgn, size |-> s.size,
                    data |-> s.data]
    IN  IF i = 0 THEN r
        ELSE IF ~PacketExpected(old, f) THEN abort_session(r, i)
        ELSE IF get_number_of_remaining_packets(s) = 0
          THEN close_session(
                 [got EXCEPT !.rcv = <<message>>,
                             !.out = IF is_broadcast(s) THEN <<>>
                                     ELSE <<EomaFrame(s)>>], i, TRUE)
        ELSE IF get_cts_number_of_packets_remaining(s) = 0
          THEN [got EXCEPT !.ss[i] = CtsSent(s, ok), !.out = <<CtsFrame(s)>>]
        ELSE got

process_message(n, f, ok) ==
    IF n \notin valid THEN Effect(sessions[n])      \* no longer our address
    ELSE CASE
         f.kind = "BAM"   -> process_broadcast_announce_message(n, f)
      [] f.kind = "RTS"   -> process_request_to_send(n, f, ok)
      [] f.kind = "CTS"   -> process_clear_to_send(n, f)
      [] f.kind = "EOMA"  -> process_end_of_session_acknowledgement(n, f)
      [] f.kind = "ABORT" -> process_abort(n, f)
      [] f.kind = "DATA"  -> process_data_transfer_message(n, f, ok)

--------------------------------------------------------------------------------
\* The update of one session

SendStates == {"SendBroadcastAnnounce", "SendRequestToSend", "SendClearToSend"}

\* Mutant: one of the waits has no timeout.
WaitStates_NoEoma == {"WaitForClearToSend", "WaitForDataTransferPacket"}

WaitStates == {"WaitForClearToSend", "WaitForDataTransferPacket",
               "WaitForEndOfMessageAcknowledge"}

Announcement(s) ==
    CASE s.state = "SendBroadcastAnnounce" -> BamFrame(s)
      [] s.state = "SendRequestToSend"     -> RtsFrame(s)
      [] s.state = "SendClearToSend"       -> CtsFrame(s)

Announced(s) ==
    CASE s.state = "SendBroadcastAnnounce" ->
            [s EXCEPT !.state = "SendDataTransferPackets"]
      [] s.state = "SendRequestToSend" ->
            [s EXCEPT !.state = "WaitForClearToSend"]
      [] s.state = "SendClearToSend" ->
            [CtsSent(s, TRUE) EXCEPT !.state = "WaitForDataTransferPacket"]

FramesToSend(s) ==
    IF is_broadcast(s) THEN 1
    ELSE Smaller(get_cts_number_of_packets_remaining(s), FramesPerUpdate)

\* k packets are taken by the driver.
send_data_transfer_packets(n, i, k) ==
    LET old == sessions[n][i]
        s == [old EXCEPT !.last = UInt8(@ + k)]
        r == [Effect([sessions[n] EXCEPT ![i] = s])
                EXCEPT !.out = [j \in 1..k |-> DataFrame(old, old.last + j)]]
    IN  IF get_number_of_remaining_packets(s) = 0
          THEN IF is_broadcast(s) THEN close_session(r, i, TRUE)
               ELSE [r EXCEPT !.ss[i].state = "WaitForEndOfMessageAcknowledge"]
        ELSE IF get_cts_number_of_packets_remaining(s) = 0 /\ ~is_broadcast(s)
          THEN [r EXCEPT !.ss[i].state = "WaitForClearToSend"]
        ELSE r

\* A wait that lasted too long.  A sender that never got a CTS, and the
\* receiver of a broadcast, close without an abort.
TimedOut(n, i) ==
    LET r == Effect(sessions[n])
        s == r.ss[i]
    IN  IF \/ s.state = "WaitForClearToSend" /\ s.cts = 0
           \/ s.state = "WaitForDataTransferPacket" /\ is_broadcast(s)
        THEN close_session(r, i, FALSE) ELSE abort_session(r, i)

--------------------------------------------------------------------------------
\* Actions

Init ==
    /\ sessions = [n \in Nodes |-> <<>>]
    /\ inbox = [n \in Nodes |-> <<>>]
    /\ app = [t \in Threads |-> [pc |-> "idle", msg |-> "none"]]
    /\ outcome = [m \in Messages |-> "idle"]
    /\ delivered = [n \in Nodes |-> <<>>]
    /\ valid = Nodes
    /\ faults = [lost |-> 0, repeated |-> 0, refused |-> 0, address |-> 0]
    /\ scenario \in Scenarios

Reaches(f, k) == f.dst = k \/ (f.dst = Global /\ f.src # k)

\* The frames of one handler have one destination; they reach the inbox of
\* every node it stands for.
Sent(box, frames) ==
    [k \in Nodes |-> IF frames # <<>> /\ Reaches(Head(frames), k)
                     THEN box[k] \o frames ELSE box[k]]

\* The effect r of node n's handler on what it holds and on the bus; box is
\* the bus once the handler has taken the frame it handles, if any.
Perform(n, effect, box, ok) ==
    \E r \in {effect} :
        /\ ok \/ (r.out # <<>> /\ faults.refused < scenario.refused)
        /\ sessions' = [sessions EXCEPT ![n] = r.ss]
        /\ inbox' = IF ok THEN Sent(box, r.out) ELSE box
        /\ outcome' = [m \in Messages |->
                         IF <<m, TRUE>> \in r.done THEN "success"
                         ELSE IF <<m, FALSE>> \in r.done THEN "failed"
                         ELSE outcome[m]]
        /\ delivered' = [delivered EXCEPT ![n] = @ \o r.rcv]
        /\ faults' = IF ok THEN faults ELSE [faults EXCEPT !.refused = @ + 1]

Receive(n) ==
    /\ inbox[n] # <<>>
    /\ \E ok \in BOOLEAN :
          Perform(n, process_message(n, Head(inbox[n]), ok),
                  [inbox EXCEPT ![n] = Tail(@)], ok)
    /\ UNCHANGED <<app, valid>>

AddressesValid(s) == s.src \in valid /\ (is_broadcast(s) \/ s.dst \in valid)

UpdateInvalid(n, i) ==
    /\ ~AddressesValid(sessions[n][i])
    /\ Perform(n, close_session(Effect(sessions[n]), i, FALSE), inbox, TRUE)
    /\ UNCHANGED <<app, valid>>

\* Tried again at the next update when the driver refuses the frame.
UpdateAnnounce(n, i) ==
    LET s == sessions[n][i]
    IN  /\ s.state \in SendStates
        /\ AddressesValid(s)
        /\ \E ok \in BOOLEAN :
              Perform(n, [Effect(IF ok THEN [sessions[n] EXCEPT ![i] = Announced(s)]
                                       ELSE sessions[n])
                            EXCEPT !.out = <<Announcement(s)>>], inbox, ok)
        /\ UNCHANGED <<app, valid>>

\* The packets the driver takes; a refused one ends the loop.
SendData(n, i) ==
    \E k \in 0..FramesToSend(sessions[n][i]) :
      \E r \in {send_data_transfer_packets(n, i, k)} :
        LET refused == k < FramesToSend(sessions[n][i])
        IN  /\ refused => faults.refused < scenario.refused
            /\ sessions' = [sessions EXCEPT ![n] = r.ss]
            /\ inbox' = Sent(inbox, r.out)
            /\ outcome' = [m \in Messages |-> IF <<m, TRUE>> \in r.done
                                              THEN "success" ELSE outcome[m]]
            /\ faults' = [faults EXCEPT !.refused = IF refused THEN @ + 1 ELSE @]
            /\ UNCHANGED <<delivered, valid>>

UpdateData(n, i) ==
    /\ sessions[n][i].state = "SendDataTransferPackets"
    /\ AddressesValid(sessions[n][i])
    /\ SendData(n, i)
    /\ UNCHANGED app

\* Nothing is under way that takes milliseconds.
Quiet == (\A n \in Nodes : inbox[n] = <<>>) /\ (\A t \in Threads : app[t].pc = "idle")

UpdateTimeout(n, i) ==
    /\ sessions[n][i].state \in WaitStates
    /\ AddressesValid(sessions[n][i])
    /\ Quiet
    /\ \E ok \in BOOLEAN : Perform(n, TimedOut(n, i), inbox, ok)
    /\ UNCHANGED <<app, valid>>

Update(n, i) == UpdateInvalid(n, i) \/ UpdateAnnounce(n, i)
                \/ UpdateData(n, i) \/ UpdateTimeout(n, i)

\* Mutant: a message that fits one frame is taken.
Fits_OffByOne(size) == size >= CAN_DATA_LENGTH /\ size <= MAX_PROTOCOL_DATA_LENGTH

Fits(size) == size > CAN_DATA_LENGTH /\ size <= MAX_PROTOCOL_DATA_LENGTH

\* protocol_transmit_message.  A refused call changes nothing.
TransmitCheck(m) ==
    /\ m \in scenario.messages
    /\ app[scenario.thread[m]].pc = "idle" /\ outcome[m] = "idle"
    /\ Fits(Size[m])
    /\ From[m] \in valid
    /\ ~has_session(sessions[From[m]], From[m], To[m])
    /\ app' = [app EXCEPT ![scenario.thread[m]] = [pc |-> "checked", msg |-> m]]
    /\ UNCHANGED <<sessions, inbox, outcome, delivered, valid, faults>>

TxSession(m) ==
    NewSession("tx", From[m], To[m], Pgn[m], Size[m], PacketsPerCts,
               IF To[m] = Global THEN "SendBroadcastAnnounce"
                                 ELSE "SendRequestToSend", m)

TransmitInsert(t) ==
    LET m == app[t].msg
    IN  /\ app[t].pc = "checked"
        /\ sessions' = [sessions EXCEPT ![From[m]] = Append(@, TxSession(m))]
        /\ outcome' = [outcome EXCEPT ![m] = "pending"]
        /\ app' = [app EXCEPT ![t].pc = "inserted"]
        /\ UNCHANGED <<inbox, delivered, valid, faults>>

\* The caller's own session, while the manager still holds it.
Mine(t) == SelectInSeq(sessions[From[app[t].msg]],
                       LAMBDA s : s.msg = app[t].msg)

\* The caller serves its session once: update_state_machine reads the state ...
TransmitServe(t) ==
    LET n == From[app[t].msg]
        i == Mine(t)
        state == IF i = 0 THEN "closed" ELSE sessions[n][i].state
    IN  /\ app[t].pc = "inserted"
        /\ \/ /\ state \in {"SendBroadcastAnnounce", "SendRequestToSend"}
              /\ app' = [app EXCEPT ![t].pc = "sending"]
              /\ UNCHANGED <<sessions, inbox, outcome, delivered, valid, faults>>
           \/ /\ state = "SendDataTransferPackets"
              /\ SendData(n, i)
              /\ app' = [app EXCEPT ![t].pc = "idle"]
           \/ /\ \/ state \in WaitStates \cup {"closed"}
                 \/ state = "SendDataTransferPackets"   \* too soon after the BAM
                    /\ is_broadcast(sessions[n][i])
              /\ app' = [app EXCEPT ![t].pc = "idle"]
              /\ UNCHANGED <<sessions, inbox, outcome, delivered, valid, faults>>

\* ... sends the announcement ...
TransmitSend(t) ==
    LET s == TxSession(app[t].msg)
        first == IF is_broadcast(s) THEN BamFrame(s) ELSE RtsFrame(s)
    IN  /\ app[t].pc = "sending"
        /\ \E ok \in BOOLEAN :
              /\ Perform(s.src, [Effect(sessions[s.src]) EXCEPT !.out = <<first>>],
                         inbox, ok)
              /\ app' = [app EXCEPT ![t].pc = IF ok THEN "sent" ELSE "idle"]
        /\ UNCHANGED valid

\* ... and sets the state, whatever the network thread did in between.
TransmitSetState(t) ==
    LET n == From[app[t].msg]
        i == Mine(t)
        next == IF To[app[t].msg] = Global THEN "SendDataTransferPackets"
                                           ELSE "WaitForClearToSend"
    IN  /\ app[t].pc = "sent"
        /\ sessions' = IF i = 0 THEN sessions
                       ELSE [sessions EXCEPT ![n][i].state = next]
        /\ app' = [app EXCEPT ![t].pc = "idle"]
        /\ UNCHANGED <<inbox, outcome, delivered, valid, faults>>

\* The bus.
Lose(n) ==
    /\ inbox[n] # <<>> /\ faults.lost < scenario.lost
    /\ inbox' = [inbox EXCEPT ![n] = Tail(@)]
    /\ faults' = [faults EXCEPT !.lost = @ + 1]
    /\ UNCHANGED <<sessions, app, outcome, delivered, valid>>

Repeat(n) ==
    /\ inbox[n] # <<>> /\ faults.repeated < scenario.repeated
    /\ inbox' = [inbox EXCEPT ![n] = <<Head(@)>> \o @]
    /\ faults' = [faults EXCEPT !.repeated = @ + 1]
    /\ UNCHANGED <<sessions, app, outcome, delivered, valid>>

\* The address-claim code (can_internal_control_function.cpp) gives it up.
LoseAddress(n) ==
    /\ n \in valid /\ faults.address < scenario.address
    /\ valid' = valid \ {n}
    /\ faults' = [faults EXCEPT !.address = @ + 1]
    /\ UNCHANGED <<sessions, inbox, app, outcome, delivered>>

Transmit(t) == TransmitInsert(t) \/ TransmitServe(t) \/ TransmitSend(t)
               \/ TransmitSetState(t)

\* Without threads a call runs to its end before the node does anything else.
MayRun(n) == scenario.threaded \/ \A t \in Threads : app[t].pc # "idle" => From[app[t].msg] # n

Network(n) == MayRun(n) /\ (Receive(n) \/ \E i \in DOMAIN sessions[n] : Update(n, i))

Work == (\E n \in Nodes : Network(n)) \/ (\E t \in Threads : Transmit(t))

Bus(n) == Lose(n) \/ Repeat(n) \/ LoseAddress(n)

Next ==
    /\ \/ Work
       \/ \E n \in Nodes : Bus(n)
       \/ \E m \in Messages : MayRun(From[m]) /\ TransmitCheck(m)
    /\ UNCHANGED scenario

Spec == Init /\ [][Next]_vars

--------------------------------------------------------------------------------
\* Properties

Counter == 0..255

Packets == (Messages \cup {"none"}) \X Counter

\* Types: the 8-bit counters of sessions and frames, a message length the
\* protocol may carry (protocol_transmit_message refuses the others), a session
\* held by an end of its transfer only, and no more packets kept than counted.
TypeOK ==
    /\ \A n \in Nodes : \A i \in DOMAIN sessions[n] :
          LET s == sessions[n][i]
          IN  /\ s.dir \in {"tx", "rx"}
              /\ IF s.dir = "tx" THEN s.src = n ELSE s.dst \in {n, Global}
              /\ s.state \in SendStates \cup WaitStates
                              \cup {"SendDataTransferPackets"}
              /\ {s.last, s.ack, s.cts, s.limit} \subseteq Counter
              /\ s.size \in 9..MAX_PROTOCOL_DATA_LENGTH
              /\ s.data \in Seq(Packets) /\ Len(s.data) <= s.last
    /\ \A n \in Nodes : \A i \in DOMAIN inbox[n] :
          /\ inbox[n][i].dst \in {n, Global} /\ inbox[n][i].src # n
          /\ {inbox[n][i].count, inbox[n][i].number} \subseteq Counter
    /\ outcome \in [Messages -> {"idle", "pending", "success", "failed"}]
    /\ valid \subseteq Nodes
    /\ \A t \in Threads : app[t].pc \in {"idle", "checked", "inserted",
                                         "sending", "sent"}

\* What the receiver of m is to be handed.
Whole(m) == [src |-> From[m], pgn |-> Pgn[m], size |-> Size[m],
             data |-> [k \in 1..get_total_number_of_packets(Size[m]) |-> <<m, k>>]]

\* canMessageReceivedCallback is only called with a complete message, as it
\* was submitted: never with packets of two messages or with a part of one.
DeliveredComplete ==
    \A n \in Nodes : \A i \in DOMAIN delivered[n] :
        \E m \in Messages : To[m] \in {n, Global} /\ delivered[n][i] = Whole(m)

\* The protocol implements MessageTransfer: complete messages, each handed
\* over at most once, and "success" only after the hand-over.  (With several
\* broadcasts and a caller's thread it does not when a frame is lost: a message
\* announced by both threads leaves a reception open, and the packets of the next
\* one, whose announcement is lost, are taken for it.)
Transfer == INSTANCE MessageTransfer WITH
    received <- [n \in Nodes |-> [i \in DOMAIN delivered[n] |->
        IF \E m \in Messages : delivered[n][i] = Whole(m)
        THEN CHOOSE m \in Messages : delivered[n][i] = Whole(m)
        ELSE "garbled"]]

TransferSpec == Transfer!Spec

\* The unsigned differences the window is computed with do not wrap: a sender
\* is not ahead of its window or of its message, so it sends no packet nobody
\* asked for and does not miss the end of the message.
NoCounterWraps ==
    \A n \in Nodes : \A i \in DOMAIN sessions[n] :
        LET s == sessions[n][i]
        IN  /\ s.last <= get_total_number_of_packets(s.size)
            /\ ~is_broadcast(s) => s.ack <= s.last /\ s.last - s.ack <= s.cts

\* The manager holds one session per pair of nodes (has_session, the
\* overwriting of old sessions), and no more receptions than configured.
OneSessionPerPair ==
    \A n \in Nodes :
        /\ \A i, j \in DOMAIN sessions[n] :
              sessions[n][i].src = sessions[n][j].src
              /\ sessions[n][i].dst = sessions[n][j].dst => i = j
        /\ Cardinality({i \in DOMAIN sessions[n] : sessions[n][i].dir = "rx"})
              <= MaxSessions
=============================================================================
