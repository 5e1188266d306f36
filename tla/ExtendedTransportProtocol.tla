--------------------- MODULE ExtendedTransportProtocol ---------------------
(***************************************************************************)
(* can_extended_transport_protocol.cpp: messages longer than 1785 bytes,   *)
(* cut in packets of 7, to one destination.  The receiver opens a window   *)
(* (CTS), the sender says where it starts (DPO) and numbers the packets of *)
(* the window from 1.                                                      *)
(*                                                                         *)
(* The manager has no lock: this is the build without threads, or one in   *)
(* which messages are submitted from the network thread.  The bus, the     *)
(* addresses and the faults are those of TransportProtocol, whose manager  *)
(* runs beside this one; the two share no state.  MinLength is 1785 in the *)
(* code, less in the runs.  A difference of 32-bit numbers that would wrap *)
(* is a negative number here.                                              *)
(***************************************************************************)
EXTENDS Integers, Sequences, FiniteSets, SequencesExt

CONSTANTS
    Nodes, Messages, Global, From, To, Pgn, Size,
    MaxSessions, PacketsPerDpo, FramesPerUpdate,    \* CANNetworkConfiguration
    MinLength

VARIABLES
    sessions,   \* activeSessions of each node's manager
    inbox,      \* frames on their way to each node
    outcome,    \* what sessionCompleteCallback said of each message
    delivered,  \* what canMessageReceivedCallback was given, per node
    valid,      \* nodes with a valid address
    faults,     \* frames lost, repeated and refused so far
    scenario    \* the messages sent and the faults allowed

vars == <<sessions, inbox, outcome, delivered, valid, faults, scenario>>

PROTOCOL_BYTES_PER_FRAME == 7

UInt8(x) == x % 256

Smaller(x, y) == IF x < y THEN x ELSE y

--------------------------------------------------------------------------------
\* Sessions

NewSession(dir, src, dst, pgn, size, limit, state, msg) ==
    [dir |-> dir, src |-> src, dst |-> dst, pgn |-> pgn, size |-> size,
     state |-> state, seq |-> 0, offset |-> 0, ack |-> 0, dpo |-> 0,
     limit |-> limit, data |-> <<>>, msg |-> msg]

get_last_packet_number(s) == s.offset + s.seq

get_total_number_of_packets(s) ==
    (s.size + PROTOCOL_BYTES_PER_FRAME - 1) \div PROTOCOL_BYTES_PER_FRAME

get_number_of_remaining_packets(s) ==
    get_total_number_of_packets(s) - get_last_packet_number(s)

get_dpo_number_of_packets_remaining(s) ==
    UInt8(s.dpo - UInt8(get_last_packet_number(s) - s.ack))

\* The position of the session between two nodes; 0 when there is none.
get_session(ss, src, dst) ==
    SelectInSeq(ss, LAMBDA s : s.src = src /\ s.dst = dst)

has_session(ss, src, dst) == get_session(ss, src, dst) # 0

\* The effect of a handler: the session list, the frames it tries to send,
\* the transmissions it completed and the message it handed over, if any.
Effect(ss) == [ss |-> ss, out |-> <<>>, done |-> {}, rcv |-> <<>>]

--------------------------------------------------------------------------------
\* Frames

Frame(kind, src, dst, pgn, count, number, payload) ==
    [kind |-> kind, src |-> src, dst |-> dst, pgn |-> pgn, count |-> count,
     number |-> number, payload |-> payload]

NoPayload == <<"none", 0>>

AbortFrame(src, dst, pgn) == Frame("ABORT", src, dst, pgn, 0, 0, NoPayload)

RtsFrame(s) == Frame("RTS", s.src, s.dst, s.pgn, s.size, 0, NoPayload)

EomaFrame(s) == Frame("EOMA", s.dst, s.src, s.pgn, s.size, 0, NoPayload)

\* Mutant: the window is not cut at the end of the message.
CutAtEnd_Never(s, limit) == limit

\* A limit is cut at the end of the message, unless the remainder wrapped.
CutAtEnd(s, limit) ==
    LET left == get_number_of_remaining_packets(s)
    IN  IF left \in 0..limit THEN left ELSE limit

CtsFrame(s) == Frame("CTS", s.dst, s.src, s.pgn, CutAtEnd(s, s.limit),
                     get_last_packet_number(s) + 1, NoPayload)

DpoPackets(s) ==
    Smaller(Smaller(CutAtEnd(s, 255), s.limit), PacketsPerDpo)

DpoFrame(s) == Frame("DPO", s.src, s.dst, s.pgn, DpoPackets(s),
                     get_last_packet_number(s), NoPayload)

\* The k-th packet after the last one sent.
DataFrame(s, k) == Frame("DATA", s.src, s.dst, 0, 0, UInt8(s.seq + k),
                         <<s.msg, get_last_packet_number(s) + k>>)

close_session(r, i, success) ==
    [r EXCEPT !.ss = RemoveAt(@, i),
              !.done = IF r.ss[i].dir = "tx"
                       THEN @ \cup {<<r.ss[i].msg, success>>} ELSE @]

abort_session(r, i) ==
    LET s == r.ss[i]
        abort == IF s.dir = "tx" THEN AbortFrame(s.src, s.dst, s.pgn)
                                 ELSE AbortFrame(s.dst, s.src, s.pgn)
    IN  close_session([r EXCEPT !.out = Append(@, abort)], i, FALSE)

\* A session of another message is aborted, and so is the new one.
abort_both(r, i, f) ==
    LET a == abort_session(r, i)
    IN  [a EXCEPT !.out = Append(@, AbortFrame(f.dst, f.src, f.pgn))]

\* A CTS that was sent opens the window at the last packet received.
CtsSent(s, ok) ==
    IF ok THEN [s EXCEPT !.ack = get_last_packet_number(s),
                         !.state = "WaitForDataPacketOffset"]
    ELSE [s EXCEPT !.state = "SendClearToSend"]

--------------------------------------------------------------------------------
\* Reception.  ok says whether the driver takes the frame the handler sends.

process_request_to_send(n, f, ok) ==
    LET r == Effect(sessions[n])
        old == get_session(r.ss, f.src, n)
        c == IF old = 0 THEN r
             ELSE IF r.ss[old].pgn # f.pgn THEN abort_session(r, old)
             ELSE close_session(r, old, FALSE)
        new == NewSession("rx", f.src, n, f.pgn, f.count, PacketsPerDpo,
                          "SendClearToSend", "none")
    IN  IF Len(r.ss) >= MaxSessions
          THEN [r EXCEPT !.out = <<AbortFrame(n, f.src, f.pgn)>>]
        ELSE [c EXCEPT !.ss = Append(@, CtsSent(new, ok)),
                       !.out = Append(@, CtsFrame(new))]

process_clear_to_send(n, f) ==
    LET r == Effect(sessions[n])
        i == get_session(r.ss, n, f.src)
        s == r.ss[i]
    IN  IF i = 0 THEN r
        ELSE IF s.pgn # f.pgn THEN abort_both(r, i, f)
        ELSE IF \/ f.number > get_total_number_of_packets(s)
                \/ s.state # "WaitForClearToSend"
          THEN abort_session(r, i)
        ELSE [r EXCEPT !.ss[i] =
                [s EXCEPT !.ack = f.number - 1, !.limit = f.count,
                          !.state = IF f.count = 0 THEN @
                                    ELSE "SendDataPacketOffset"]]

WindowExpected(s, f) ==
    /\ s.state = "WaitForDataPacketOffset"
    /\ f.count <= s.limit
    /\ f.number = s.ack

process_data_packet_offset(n, f) ==
    LET r == Effect(sessions[n])
        i == get_session(r.ss, f.src, n)
        s == r.ss[i]
    IN  IF i = 0 THEN r
        ELSE IF s.pgn # f.pgn THEN abort_both(r, i, f)
        ELSE IF ~WindowExpected(s, f) THEN abort_session(r, i)
        ELSE [r EXCEPT !.ss[i] =
                [s EXCEPT !.dpo = f.count, !.offset = f.number, !.seq = 0,
                          !.state = IF f.count = 0 THEN @
                                    ELSE "WaitForDataTransferPacket"]]

process_end_of_session_acknowledgement(n, f) ==
    LET r == Effect(sessions[n])
        i == get_session(r.ss, n, f.src)
    IN  IF i # 0 /\ r.ss[i].state = "WaitForEndOfMessageAcknowledge"
        THEN close_session(r, i, f.count = r.ss[i].size) ELSE r

\* Sessions of both directions are closed when they carry this PGN.
process_abort(n, f) ==
    LET Closed(r, src, dst) ==
            LET i == get_session(r.ss, src, dst)
            IN  IF i # 0 /\ r.ss[i].pgn = f.pgn
                THEN close_session(r, i, FALSE) ELSE r
    IN  Closed(Closed(Effect(sessions[n]), f.src, n), n, f.src)

\* Mutant: a gap in the sequence numbers goes unnoticed.
PacketExpected_AnyLater(s, f) ==
    s.state = "WaitForDataTransferPacket" /\ f.number > s.seq

PacketExpected(s, f) ==
    /\ s.state = "WaitForDataTransferPacket"
    /\ f.number = s.seq + 1
    /\ PROTOCOL_BYTES_PER_FRAME * get_last_packet_number(s) < s.size

process_data_transfer_message(n, f, ok) ==
    LET r == Effect(sessions[n])
        i == get_session(r.ss, f.src, n)
        s == [r.ss[i] EXCEPT !.seq = f.number, !.data = Append(@, f.payload)]
        message == [src |-> s.src, pgn |-> s.pgn, size |-> s.size,
                    data |-> s.data]
    IN  IF i = 0 THEN r
        ELSE IF ~PacketExpected(r.ss[i], f) THEN abort_session(r, i)
        ELSE IF get_number_of_remaining_packets(s) = 0
          THEN close_session([r EXCEPT !.rcv = <<message>>,
                                       !.out = <<EomaFrame(s)>>], i, TRUE)
        ELSE IF get_dpo_number_of_packets_remaining(s) = 0
          THEN [r EXCEPT !.ss[i] = CtsSent(s, ok), !.out = <<CtsFrame(s)>>]
        ELSE [r EXCEPT !.ss[i] = s]

process_message(n, f, ok) ==
    IF n \notin valid THEN Effect(sessions[n])      \* no longer our address
    ELSE CASE
         f.kind = "RTS"   -> process_request_to_send(n, f, ok)
      [] f.kind = "CTS"   -> process_clear_to_send(n, f)
      [] f.kind = "DPO"   -> process_data_packet_offset(n, f)
      [] f.kind = "EOMA"  -> process_end_of_session_acknowledgement(n, f)
      [] f.kind = "ABORT" -> process_abort(n, f)
      [] f.kind = "DATA"  -> process_data_transfer_message(n, f, ok)

--------------------------------------------------------------------------------
\* The update of one session

SendStates == {"SendRequestToSend", "SendClearToSend", "SendDataPacketOffset"}

WaitStates == {"WaitForClearToSend", "WaitForDataPacketOffset",
               "WaitForDataTransferPacket", "WaitForEndOfMessageAcknowledge"}

Announcement(s) ==
    CASE s.state = "SendRequestToSend"    -> RtsFrame(s)
      [] s.state = "SendClearToSend"      -> CtsFrame(s)
      [] s.state = "SendDataPacketOffset" -> DpoFrame(s)

Announced(s) ==
    CASE s.state = "SendRequestToSend" ->
            [s EXCEPT !.state = "WaitForClearToSend"]
      [] s.state = "SendClearToSend" -> CtsSent(s, TRUE)
      [] s.state = "SendDataPacketOffset" ->
            [s EXCEPT !.dpo = DpoPackets(s), !.seq = 0,
                      !.offset = get_last_packet_number(s),
                      !.state = "SendDataTransferPackets"]

FramesToSend(s) ==
    Smaller(get_dpo_number_of_packets_remaining(s), FramesPerUpdate)

\* k packets are taken by the driver.
send_data_transfer_packets(n, i, k) ==
    LET old == sessions[n][i]
        s == [old EXCEPT !.seq = UInt8(@ + k)]
        next == IF get_number_of_remaining_packets(s) = 0
                  THEN "WaitForEndOfMessageAcknowledge"
                ELSE IF get_dpo_number_of_packets_remaining(s) = 0
                  THEN "WaitForClearToSend"
                ELSE s.state
    IN  [Effect([sessions[n] EXCEPT ![i] = [s EXCEPT !.state = next]])
            EXCEPT !.out = [j \in 1..k |-> DataFrame(old, j)]]

\* A wait that lasted too long.  The limit of a sender that never got a CTS
\* starts at 255, so only a CTS that asked to wait closes without an abort.
TimedOut(n, i) ==
    LET r == Effect(sessions[n])
        s == r.ss[i]
    IN  IF s.state = "WaitForClearToSend" /\ s.limit = 0
        THEN close_session(r, i, FALSE) ELSE abort_session(r, i)

--------------------------------------------------------------------------------
\* Actions

Init ==
    /\ sessions = [n \in Nodes |-> <<>>]
    /\ inbox = [n \in Nodes |-> <<>>]
    /\ outcome = [m \in Messages |-> "idle"]
    /\ delivered = [n \in Nodes |-> <<>>]

Sent(box, frames) ==
    [k \in Nodes |-> box[k] \o SelectSeq(frames, LAMBDA f : f.dst = k)]

\* The effect of node n's handler, whose frames the driver takes (ok) or not.
Perform(n, effect, box, ok) ==
    \E r \in {effect} :
        /\ ok \/ (r.out # <<>> /\ faults.refused < scenario.refused)
        /\ sessions' = [sessions EXCEPT ![n] = r.ss]
        /\ inbox' = IF ok THEN Sent(box, r.out) ELSE box
        /\ outcome' = [m \in Messages |->
                         IF <<m, TRUE>> \in r.done THEN "success"
                         ELSE IF <<m, FALSE>> \in r.done THEN "failed"
                         ELSE outcome[m]]
        /\ delivered' = [delivered EXCEPT ![n] = @ \o r.rcv]
        /\ faults' = IF ok THEN faults ELSE [faults EXCEPT !.refused = @ + 1]
        /\ UNCHANGED <<valid, scenario>>

Receive(n) ==
    /\ inbox[n] # <<>>
    /\ \E ok \in BOOLEAN :
          Perform(n, process_message(n, Head(inbox[n]), ok),
                  [inbox EXCEPT ![n] = Tail(@)], ok)

AddressesValid(s) == {s.src, s.dst} \subseteq valid

UpdateInvalid(n, i) ==
    /\ ~AddressesValid(sessions[n][i])
    /\ Perform(n, close_session(Effect(sessions[n]), i, FALSE), inbox, TRUE)

UpdateAnnounce(n, i) ==
    LET s == sessions[n][i]
    IN  /\ s.state \in SendStates
        /\ AddressesValid(s)
        /\ \E ok \in BOOLEAN :
              Perform(n, [Effect(IF ok THEN [sessions[n] EXCEPT ![i] = Announced(s)]
                                       ELSE sessions[n])
                            EXCEPT !.out = <<Announcement(s)>>], inbox, ok)

\* The packets the driver takes; a refused one ends the loop.
UpdateData(n, i) ==
    /\ sessions[n][i].state = "SendDataTransferPackets"
    /\ AddressesValid(sessions[n][i])
    /\ \E k \in 0..FramesToSend(sessions[n][i]) :
       \E r \in {send_data_transfer_packets(n, i, k)} :
          LET refused == k < FramesToSend(sessions[n][i])
          IN  /\ refused => faults.refused < scenario.refused
              /\ sessions' = [sessions EXCEPT ![n] = r.ss]
              /\ inbox' = Sent(inbox, r.out)
              /\ faults' = [faults EXCEPT !.refused = IF refused THEN @ + 1 ELSE @]
    /\ UNCHANGED <<outcome, delivered, valid, scenario>>

\* A timeout of 750 or 1250 ms: no frame is on its way any more.
UpdateTimeout(n, i) ==
    /\ sessions[n][i].state \in WaitStates
    /\ AddressesValid(sessions[n][i])
    /\ \A k \in Nodes : inbox[k] = <<>>
    /\ \E ok \in BOOLEAN : Perform(n, TimedOut(n, i), inbox, ok)

Update(n, i) == UpdateInvalid(n, i) \/ UpdateAnnounce(n, i)
                \/ UpdateData(n, i) \/ UpdateTimeout(n, i)

Fits(size) == size > MinLength

\* protocol_transmit_message: the session is inserted and served once.
Transmit(m) ==
    LET n == From[m]
        new == NewSession("tx", n, To[m], Pgn[m], Size[m], 255,
                          "SendRequestToSend", m)
    IN  /\ m \in scenario.messages /\ outcome[m] = "idle"
        /\ Fits(Size[m])
        /\ To[m] # Global /\ AddressesValid(new)
        /\ ~has_session(sessions[n], n, To[m])
        /\ \E ok \in BOOLEAN :
              /\ ok \/ faults.refused < scenario.refused
              /\ sessions' = [sessions EXCEPT ![n] =
                                Append(@, IF ok THEN Announced(new) ELSE new)]
              /\ inbox' = IF ok THEN Sent(inbox, <<RtsFrame(new)>>) ELSE inbox
              /\ faults' = IF ok THEN faults ELSE [faults EXCEPT !.refused = @ + 1]
        /\ outcome' = [outcome EXCEPT ![m] = "pending"]
        /\ UNCHANGED <<delivered, valid, scenario>>

Lose(n) ==
    /\ inbox[n] # <<>> /\ faults.lost < scenario.lost
    /\ inbox' = [inbox EXCEPT ![n] = Tail(@)]
    /\ faults' = [faults EXCEPT !.lost = @ + 1]
    /\ UNCHANGED <<sessions, outcome, delivered, valid, scenario>>

Repeat(n) ==
    /\ inbox[n] # <<>> /\ faults.repeated < scenario.repeated
    /\ inbox' = [inbox EXCEPT ![n] = <<Head(@)>> \o @]
    /\ faults' = [faults EXCEPT !.repeated = @ + 1]
    /\ UNCHANGED <<sessions, outcome, delivered, valid, scenario>>

Work == \E n \in Nodes : Receive(n) \/ \E i \in DOMAIN sessions[n] : Update(n, i)

Next ==
    \/ Work
    \/ \E n \in Nodes : Lose(n) \/ Repeat(n)
    \/ \E m \in Messages : Transmit(m)

--------------------------------------------------------------------------------
\* Properties

\* What the receiver of m is to be handed.
Whole(m) ==
    [src |-> From[m], pgn |-> Pgn[m], size |-> Size[m],
     data |-> [k \in 1..get_total_number_of_packets([size |-> Size[m]]) |-> <<m, k>>]]

\* The protocol implements MessageTransfer: complete messages, each handed
\* over at most once, and "success" only after the hand-over.
Transfer == INSTANCE MessageTransfer WITH
    received <- [n \in Nodes |-> [i \in DOMAIN delivered[n] |->
        IF \E m \in Messages : delivered[n][i] = Whole(m)
        THEN CHOOSE m \in Messages : delivered[n][i] = Whole(m)
        ELSE "garbled"]]

\* As long as no frame was repeated, the window of a session (dpo packets
\* from ack on) is never overrun: the unsigned differences never wrap, so a
\* sender sends no packet nobody asked for and never misses the end of the
\* message.  (A CTS repeated after its window was sent does make them wrap.)
WindowKept ==
    faults.repeated = 0 => \A n \in Nodes : \A i \in DOMAIN sessions[n] :
        LET s == sessions[n][i]
        IN  /\ get_number_of_remaining_packets(s) >= 0
            /\ s.state \in {"SendDataTransferPackets", "WaitForDataTransferPacket"}
                 => get_last_packet_number(s) - s.ack \in 0..s.dpo

\* No session stays and no submitted message is left without an answer.
Ended == (\A n \in Nodes : sessions[n] = <<>>)
         /\ (\A m \in Messages : outcome[m] # "pending")
=============================================================================
