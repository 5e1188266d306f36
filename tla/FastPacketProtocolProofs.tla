----------------------- MODULE FastPacketProtocolProofs -----------------------
(***************************************************************************)
(* Proofs about nmea2000_fast_packet_protocol.cpp beside the other         *)
(* managers: it implements MessageTransfer.  The receiver never compares   *)
(* the number in a frame with the one it expects, it only counts; so what  *)
(* keeps two messages of one PGN apart is the order of the frames alone.   *)
(*                                                                         *)
(* The argument: the frames on their way to a node, and behind them the    *)
(* next frame of the session that sends, form streams, one for each PGN    *)
(* and pair of ends.  In a stream every frame but the first one of a       *)
(* message comes after the frame it continues, with none of the stream in  *)
(* between; and what a reception keeps is what the first frame left        *)
(* continues, or it starts a message, which ends the reception.  A frame   *)
(* can only be lost at the front: then the reception is short for good and *)
(* the next message ends it, as long as no second interruption takes that  *)
(* message's first frame away.                                             *)
(***************************************************************************)
EXTENDS TransportProtocolProofs, SequenceTheorems

--------------------------------------------------------------------------------
\* The parts of the invariant, of the sessions S, the frames B and the messages
\* handed over D of all nodes, and of the outcomes O

\* The fast messages of the scenario that are accepted, and their frames.
Sendable == {m \in FastMessages \cap scenario.messages : Fp!Fits(Size[m])}
Parts(m) == Fp!calculate_number_of_frames(Size[m])

\* Messages of one PGN between the same ends: a receiver tells their frames apart
\* only by the order they come in.
SameStream(m, m2) == From[m] = From[m2] /\ To[m] = To[m2] /\ Pgn[m] = Pgn[m2]
Gets(n, m) == To[m] = n \/ (To[m] = Global /\ From[m] # n)

\* The frame of a message with a number, and the bytes of so many frames.
Part(m, c) ==
    [src |-> From[m], dst |-> To[m], pgn |-> Pgn[m], counter |-> c,
     size |-> Size[m], payload |-> <<m, c + 1>>]
BytesIn(c) == IF c = 0 THEN 0 ELSE 7 * c - 1

\* The session that has sent c frames of m, and the one that keeps d of its frames.
Outgoing(m, c) ==
    [dir |-> "tx", src |-> From[m], dst |-> To[m], pgn |-> Pgn[m], size |-> Size[m],
     bytes |-> BytesIn(c), data |-> <<>>, msg |-> m]
Incoming(m, d) ==
    [dir |-> "rx", src |-> From[m], dst |-> To[m], pgn |-> Pgn[m], size |-> Size[m],
     bytes |-> BytesIn(Len(d)), data |-> d, msg |-> "none"]

\* What a reception of m may keep: its first frame and others, not all of them.
Payloads == FastMessages \X Nat
Start(m, c) == [i \in 1..c |-> <<m, i>>]
Keepable(m, d) == d \in Seq(Payloads) /\ Len(d) \in 1..(Parts(m) - 1) /\ d[1] = <<m, 1>>

FastSession ==
    [dir : {"tx", "rx"}, src : Nodes, dst : Ends, pgn : Pgns, size : Nat, bytes : Nat,
     data : Seq(Payloads), msg : FastMessages \cup {"none"}]
FastFrame ==
    [src : Nodes, dst : Ends, pgn : Pgns, counter : Nat, size : Nat, payload : Payloads]
FastHanded == [src : Nodes, pgn : Pgns, size : Nat, data : Seq(Payloads)]

\* A session of node n sends a message of its own or keeps frames meant for it.
Sending(n, s) ==
    \E m \in Sendable, c \in Nat : From[m] = n /\ c < Parts(m) /\ s = Outgoing(m, c)
Keeping(n, s) ==
    \E m \in Sendable, d \in Seq(Payloads) :
        Gets(n, m) /\ Keepable(m, d) /\ s = Incoming(m, d)

\* One session per stream, each as it should be.
OfStream(s, m) == s.src = From[m] /\ s.dst = To[m] /\ s.pgn = Pgn[m]
FastSessionsOK(n, ss) ==
    /\ ss \in Seq(FastSession)
    /\ \A i \in DOMAIN ss : Sending(n, ss[i]) \/ Keeping(n, ss[i])
    /\ \A i, j \in DOMAIN ss :
          ss[i].src = ss[j].src /\ ss[i].dst = ss[j].dst /\ ss[i].pgn = ss[j].pgn => i = j
FastBoxOK(n, box) ==
    /\ box \in Seq(FastFrame)
    /\ \A i \in DOMAIN box :
          \E m \in Sendable, c \in Nat : Gets(n, m) /\ c < Parts(m) /\ box[i] = Part(m, c)
FastHandedOK(given) ==
    /\ given \in Seq(FastHanded)
    /\ \A i \in DOMAIN given : \E m \in Sendable : given[i] = Fp!Whole(m)

FastTypes(S, B, D, O) ==
    /\ DOMAIN S = Nodes /\ \A n \in Nodes : FastSessionsOK(n, S[n])
    /\ DOMAIN B = Nodes /\ \A n \in Nodes : FastBoxOK(n, B[n])
    /\ DOMAIN D = Nodes /\ \A n \in Nodes : FastHandedOK(D[n])
    /\ O \in [FastMessages -> {"idle", "pending", "success", "failed"}]

\* Frame c of m is the j-th one node n gets: it is on its way, or, behind all that
\* are, the next one of the session that sends m.
Sends(S, m, c) == \E i \in DOMAIN S[From[m]] : S[From[m]][i] = Outgoing(m, c)
Due(S, B, n, m, c, j) ==
    \/ j \in DOMAIN B[n] /\ B[n][j] = Part(m, c)
    \/ j = Len(B[n]) + 1 /\ Gets(n, m) /\ Sends(S, m, c)
Keeps(S, n, m, d) == \E i \in DOMAIN S[n] : S[n][i] = Incoming(m, d) /\ Keepable(m, d)
Given(D, n, m) == \E i \in DOMAIN D[n] : D[n][i] = Fp!Whole(m)

\* Between a frame other than the first one and any frame of its stream before it
\* comes the frame it continues.
Chained(S, B, n) ==
    \A m, m2 \in Sendable : \A c, c2, i, j \in Nat :
        /\ Due(S, B, n, m, c, j) /\ c > 0
        /\ Due(S, B, n, m2, c2, i) /\ i < j /\ SameStream(m, m2)
        => \E p \in i..(j - 1) : Due(S, B, n, m, c - 1, p)

\* ... and where no frame of the stream comes before it, what is kept is what it
\* continues, or less: then the message will not be complete.
Continued(S, B, n) ==
    \A m, m2 \in Sendable : \A c, j \in Nat, d \in Seq(Payloads) :
        /\ Due(S, B, n, m, c, j) /\ c > 0
        /\ Keeps(S, n, m2, d) /\ SameStream(m, m2)
        => \/ \E p \in 1..(j - 1) : Due(S, B, n, m, c - 1, p)
           \/ m2 = m /\ (Len(d) < c \/ d = Start(m, c))

\* The frames of a message are due once, in order, behind those that are kept.
Increasing(S, B, n) ==
    \A m \in Sendable : \A c, c2, i, j \in Nat :
        Due(S, B, n, m, c, j) /\ Due(S, B, n, m, c2, i) /\ i < j => c2 < c
Ahead(S, B, n) ==
    \A m \in Sendable : \A c, j \in Nat, d \in Seq(Payloads) :
        Keeps(S, n, m, d) /\ Due(S, B, n, m, c, j) => Len(d) <= c

\* Nothing of a message is left once it was handed over, or there before it was sent.
Nothing(S, B, n, m) ==
    /\ \A c, j \in Nat : ~Due(S, B, n, m, c, j)
    /\ \A d \in Seq(Payloads) : ~Keeps(S, n, m, d)
HandedOnce(S, B, D, n) == \A m \in Sendable : Given(D, n, m) => Nothing(S, B, n, m)
NotYet(S, B, D, O, n) ==
    \A m \in Sendable : O[m] = "idle" => Nothing(S, B, n, m) /\ ~Given(D, n, m)

\* While nothing interrupts a message, all its frames come.
Intact(lost) == lost = 0 /\ scenario.refused = 0 /\ scenario.address = 0
Completed(S, B, n) ==
    /\ \A m \in Sendable : \A c, j \in Nat :
          Due(S, B, n, m, c, j) /\ j <= Len(B[n]) /\ c + 1 < Parts(m)
          => \E p \in Nat : p > j /\ Due(S, B, n, m, c + 1, p)
    /\ \A m \in Sendable, d \in Seq(Payloads) :
          Keeps(S, n, m, d) => \E p \in Nat : Due(S, B, n, m, Len(d), p)

StreamOK(S, B, D, O, lost, n) ==
    /\ Chained(S, B, n) /\ Continued(S, B, n) /\ Increasing(S, B, n) /\ Ahead(S, B, n)
    /\ HandedOnce(S, B, D, n) /\ NotYet(S, B, D, O, n)
    /\ Intact(lost) => Completed(S, B, n)

SentPending(S, O) == \A m \in Sendable, c \in Nat : Sends(S, m, c) => O[m] = "pending"

FastStateOK(S, B, D, O, lost) ==
    /\ FastTypes(S, B, D, O) /\ SentPending(S, O)
    /\ \A n \in Nodes : StreamOK(S, B, D, O, lost, n)

\* The faults so far are counted; no address is lost unless the scenario says so.
FaultsCounted ==
    /\ faults \in [lost : Nat, repeated : Nat, refused : Nat, address : Nat]
    /\ scenario \in Scenarios
    /\ scenario.address = 0 => valid = Nodes

FastInv ==
    /\ FaultsCounted
    /\ FastStateOK(fpSessions, fpInbox, fpDelivered, fpOutcome, faults.lost)

\* A call that has found no session finds none when it inserts its own: of a node
\* only its sending thread opens sessions of the node's streams.
FastCallsOK ==
    /\ fpCalls \subseteq Sendable
    /\ \A m \in fpCalls :
          /\ fpOutcome[m] = "idle"
          /\ \A i \in DOMAIN fpSessions[From[m]] : ~OfStream(fpSessions[From[m]][i], m)
    /\ \A m, m2 \in fpCalls : From[m] = From[m2] => m = m2

AnswersOK == fpTwice \subseteq FastMessages /\ Fp!ToldAgain

\* What is assumed of the bus: where fast messages are sent, no frame is lost, or
\* only one and no other fault interrupts a message.
FewLosses ==
    \A c \in Scenarios :
        c.messages \cap FastMessages # {} =>
            c.lost = 0 \/ (c.lost = 1 /\ c.refused = 0 /\ c.address = 0)

--------------------------------------------------------------------------------
\* Numbers, frames and sessions

\* What a sendable message is.
LEMMA SendableFacts ==
    ASSUME NEW m \in Sendable
    PROVE  /\ m \in FastMessages /\ m \in Messages /\ m # "none" /\ m \in scenario.messages
           /\ From[m] \in Nodes /\ To[m] \in Ends /\ To[m] # From[m] /\ Pgn[m] \in Pgns
           /\ Size[m] \in Nat /\ Size[m] > 8
           /\ ~Gets(From[m], m)
<1>1. m \in FastMessages /\ m \in Messages /\ m \in scenario.messages /\ Fp!Fits(Size[m])
  BY FastAssumption DEF Sendable
<1>2. /\ m # "none" /\ From[m] \in Nodes /\ To[m] \in (Nodes \ {From[m]}) \cup {Global}
      /\ Size[m] \in Nat /\ Global \notin Nodes
  BY <1>1, MessagesAssumption
<1>3. Size[m] > 8
  BY <1>1, <1>2 DEF Fp!Fits, Fp!CAN_DATA_LENGTH
<1> QED
  BY <1>1, <1>2, <1>3 DEF Ends, Pgns, Gets

\* calculate_number_of_frames: the frames before the last one do not hold the whole
\* message, and all do.
LEMMA PartsFacts ==
    ASSUME NEW m \in Sendable
    PROVE  /\ Parts(m) \in Nat /\ Parts(m) >= 2
           /\ 7 * Parts(m) - 1 >= Size[m]
           /\ 7 * (Parts(m) - 1) - 1 < Size[m]
<1>1. Size[m] \in Nat /\ Size[m] > 8
  BY SendableFacts
<1>2. Parts(m) = 1 + ((Size[m] - 6 + 7 - 1) \div 7)
  BY <1>1 DEF Parts, Fp!calculate_number_of_frames, Fp!UpDiv, Fp!PROTOCOL_BYTES_PER_FRAME
<1> QED
  BY <1>1, <1>2

\* get_last_packet_number: the bytes of c frames are those of c frames.
LEMMA LastPacket ==
    ASSUME NEW c \in Nat
    PROVE  Fp!calculate_number_of_frames(BytesIn(c)) = c /\ BytesIn(c) \in Nat
<1>1. CASE c = 0
  BY <1>1 DEF BytesIn, Fp!calculate_number_of_frames, Fp!UpDiv, Fp!PROTOCOL_BYTES_PER_FRAME
<1>2. CASE c = 1
  BY <1>2 DEF BytesIn, Fp!calculate_number_of_frames, Fp!UpDiv, Fp!PROTOCOL_BYTES_PER_FRAME
<1>3. CASE c > 1
  <2>1. BytesIn(c) = 7 * c - 1 /\ BytesIn(c) > 6
    BY <1>3 DEF BytesIn
  <2>2. Fp!calculate_number_of_frames(BytesIn(c)) = 1 + ((7 * c - 1 - 6 + 7 - 1) \div 7)
    BY <1>3, <2>1 DEF Fp!calculate_number_of_frames, Fp!UpDiv, Fp!PROTOCOL_BYTES_PER_FRAME
  <2> QED
    BY <1>3, <2>1, <2>2
<1> QED
  BY <1>1, <1>2, <1>3

\* A frame says which message it is of and which number it has.
LEMMA PartNames ==
    ASSUME NEW m, NEW m2, NEW c \in Nat, NEW c2 \in Nat, Part(m, c) = Part(m2, c2)
    PROVE  m = m2 /\ c = c2
BY DEF Part

\* So does a session.
LEMMA OutgoingNames ==
    ASSUME NEW m, NEW m2, NEW c \in Nat, NEW c2 \in Nat, Outgoing(m, c) = Outgoing(m2, c2)
    PROVE  m = m2 /\ c = c2
BY DEF Outgoing, BytesIn

LEMMA IncomingNames ==
    ASSUME NEW m, NEW m2, NEW d, NEW d2, Incoming(m, d) = Incoming(m2, d2)
    PROVE  d = d2 /\ (Keepable(m, d) /\ Keepable(m2, d2) => m = m2)
BY DEF Incoming, Keepable

LEMMA WholeNames ==
    ASSUME NEW m \in Sendable, NEW m2 \in Sendable, Fp!Whole(m) = Fp!Whole(m2)
    PROVE  m = m2
<1>1. Parts(m) >= 2 /\ Parts(m) \in Nat
  BY PartsFacts
<1>2. Fp!Whole(m).data = [k \in 1..Parts(m) |-> <<m, k>>] /\ Fp!Whole(m2).data = [k \in 1..Parts(m2) |-> <<m2, k>>]
  BY DEF Fp!Whole, Parts
<1>3. 1 \in 1..Parts(m) /\ 1 \in 1..Parts(m2)
  BY <1>1, PartsFacts
<1> QED
  BY <1>2, <1>3

\* What sends is of its own stream and node.
LEMMA Streams ==
    ASSUME NEW m \in Sendable, NEW c \in Nat, NEW d \in Seq(Payloads)
    PROVE  /\ OfStream(Outgoing(m, c), m) /\ Outgoing(m, c).dir = "tx"
           /\ OfStream(Incoming(m, d), m) /\ Incoming(m, d).dir = "rx"
           /\ Part(m, c).src = From[m] /\ Part(m, c).dst = To[m] /\ Part(m, c).pgn = Pgn[m]
           /\ Part(m, c).counter = c
           /\ Outgoing(m, c) \in FastSession /\ Incoming(m, d) \in FastSession
           /\ Part(m, c) \in FastFrame
<1>1. /\ m \in FastMessages /\ From[m] \in Nodes /\ To[m] \in Ends /\ Pgn[m] \in Pgns
      /\ Size[m] \in Nat
  BY SendableFacts
<1>2. BytesIn(c) \in Nat /\ Len(d) \in Nat /\ BytesIn(Len(d)) \in Nat
  BY DEF BytesIn
<1>3. <<>> \in Seq(Payloads)
  OBVIOUS
<1>4. Outgoing(m, c) \in FastSession
  BY <1>1, <1>2, <1>3 DEF Outgoing, FastSession
<1>5. Incoming(m, d) \in FastSession
  BY <1>1, <1>2 DEF Incoming, FastSession
<1>6. Part(m, c) \in FastFrame
  BY <1>1 DEF Part, FastFrame, Payloads
<1> QED
  BY <1>4, <1>5, <1>6 DEF OfStream, Outgoing, Incoming, Part

\* get_session: the position of the one session of a stream, or 0.
LEMMA FastGetSession ==
    ASSUME NEW n, NEW ss, FastSessionsOK(n, ss), NEW pgn, NEW src, NEW dst
    PROVE  LET i == Fp!get_session(ss, pgn, src, dst)
               of(s) == s.pgn = pgn /\ s.src = src /\ s.dst = dst
           IN  \/ i = 0 /\ \A j \in DOMAIN ss : ~of(ss[j])
               \/ i \in DOMAIN ss /\ i # 0 /\ of(ss[i])
<1> DEFINE of(s) == s.pgn = pgn /\ s.src = src /\ s.dst = dst
           found == {i \in 1..Len(ss) : of(ss[i])}
           i == Fp!get_session(ss, pgn, src, dst)
<1>0. ss \in Seq(FastSession)
  BY DEF FastSessionsOK
<1>1. i = IF found # {} THEN Min(found) ELSE 0
  BY DEF Fp!get_session, Fp!SelectInSeq, Fp!Min, Min
<1>2. CASE found = {}
  BY <1>0, <1>1, <1>2
<1>3. CASE found # {}
  <2>1. PICK j \in found : TRUE
    BY <1>3
  <2>2. \A k \in found : k = j
    BY <1>0, <2>1 DEF FastSessionsOK
  <2>3. Min(found) = j
    BY <1>0, <2>1, <2>2 DEF Min
  <2> QED
    BY <1>0, <1>1, <1>3, <2>1, <2>3
<1> QED
  BY <1>2, <1>3

--------------------------------------------------------------------------------
\* Reception

\* A list of sessions keeps d of m, and one that sends m.
KeepsIn(ss, m, d) == \E i \in DOMAIN ss : ss[i] = Incoming(m, d) /\ Keepable(m, d)
SendsIn(ss, m, c) == \E i \in DOMAIN ss : ss[i] = Outgoing(m, c)

\* A session of a stream node n gets is a reception.
LEMMA StreamKept ==
    ASSUME NEW n \in Nodes, NEW ss, FastSessionsOK(n, ss), NEW i \in DOMAIN ss,
           NEW m \in Sendable, Gets(n, m), OfStream(ss[i], m)
    PROVE  \E m2 \in Sendable, d \in Seq(Payloads) :
              SameStream(m, m2) /\ Keepable(m2, d) /\ ss[i] = Incoming(m2, d)
<1>1. Sending(n, ss[i]) \/ Keeping(n, ss[i])
  BY DEF FastSessionsOK
<1>2. From[m] # n
  BY SendableFacts DEF Gets
<1>3. ~Sending(n, ss[i])
  <2>1. SUFFICES ASSUME NEW m2 \in Sendable, NEW c \in Nat, From[m2] = n, ss[i] = Outgoing(m2, c)
                 PROVE  FALSE
    BY DEF Sending
  <2> QED
    BY <1>2, <2>1 DEF Outgoing, OfStream
<1>4. PICK m2 \in Sendable, d \in Seq(Payloads) : Keepable(m2, d) /\ ss[i] = Incoming(m2, d)
  BY <1>1, <1>3 DEF Keeping
<1> QED
  BY <1>4, Streams DEF OfStream, SameStream

\* The bytes a session has after one frame more.
LEMMA StoredBytes ==
    ASSUME NEW m \in Sendable, NEW k \in Nat, k >= 1, k < Parts(m)
    PROVE  LET b == BytesIn(k) + Fp!Smaller(Size[m] - BytesIn(k), 7)
           IN  /\ k + 1 < Parts(m) => b = BytesIn(k + 1) /\ b < Size[m]
               /\ k + 1 = Parts(m) => b >= Size[m]
<1>1. /\ Parts(m) \in Nat /\ 7 * Parts(m) - 1 >= Size[m] /\ 7 * (Parts(m) - 1) - 1 < Size[m]
      /\ Size[m] \in Nat
  BY PartsFacts, SendableFacts
<1>2. BytesIn(k) = 7 * k - 1 /\ BytesIn(k + 1) = 7 * k + 6
  BY DEF BytesIn
<1> QED
  BY <1>1, <1>2 DEF Fp!Smaller

\* What Append makes of a list.
LEMMA Appended ==
    ASSUME NEW X, NEW s \in Seq(X), NEW e
    PROVE  Append(s, e) = [i \in 1..(Len(s) + 1) |-> IF i = Len(s) + 1 THEN e ELSE s[i]]
<1> DEFINE Y == X \cup {e}
           t == Append(s, e)
<1>1. s \in Seq(Y) /\ e \in Y
  OBVIOUS
<1> HIDE DEF Y
<1>2. t \in Seq(Y) /\ Len(t) = Len(s) + 1 /\ DOMAIN t = 1..(Len(s) + 1)
  BY <1>1
<1>3. t = [i \in 1..(Len(s) + 1) |-> t[i]]
  <2> HIDE DEF t
  <2>1. PICK k \in Nat : t \in [1..k -> Y]
    <3>1. t \in UNION {[1..k -> Y] : k \in Nat}
      BY ONLY <1>2, SeqDef, Zenon
    <3> QED
      BY ONLY <3>1
  <2>2. t = [i \in DOMAIN t |-> t[i]]
    BY ONLY <2>1
  <2> QED
    BY ONLY <1>2, <2>2
<1>4. \A i \in 1..(Len(s) + 1) : t[i] = IF i = Len(s) + 1 THEN e ELSE s[i]
  BY <1>1
<1> HIDE DEF t
<1>5. t = [i \in 1..(Len(s) + 1) |-> IF i = Len(s) + 1 THEN e ELSE s[i]]
  BY <1>3, <1>4
<1> QED
  BY <1>5 DEF t

\* A frame more of what is kept in order is kept in order.
LEMMA StartMore ==
    ASSUME NEW m \in Sendable, NEW k \in Nat
    PROVE  /\ Start(m, k) \in Seq(Payloads) /\ Len(Start(m, k)) = k
           /\ Append(Start(m, k), <<m, k + 1>>) = Start(m, k + 1)
<1>1. \A i \in 1..k : <<m, i>> \in Payloads
  BY SendableFacts DEF Payloads
<1>2. Start(m, k) \in Seq(Payloads) /\ Len(Start(m, k)) = k
  BY <1>1 DEF Start
<1>3. Append(Start(m, k), <<m, k + 1>>) =
        [i \in 1..(k + 1) |-> IF i = k + 1 THEN <<m, k + 1>> ELSE Start(m, k)[i]]
  BY <1>2, Appended
<1>4. \A i \in 1..(k + 1) : i # k + 1 => i \in 1..k
  OBVIOUS
<1>5. Append(Start(m, k), <<m, k + 1>>) = Start(m, k + 1)
  BY <1>3, <1>4 DEF Start
<1> QED
  BY <1>2, <1>5

\* What process_message does with a frame that is the next one of what is kept of
\* its stream, a later one of the same message, or the first one of its message.
Handled(ss, m, c, r) ==
    \/ /\ c > 0 /\ r = [ss |-> ss, rcv |-> <<>>]
       /\ \A i \in DOMAIN ss : ~OfStream(ss[i], m)
    \/ /\ c = 0 /\ r = [ss |-> Append(ss, Incoming(m, Start(m, 1))), rcv |-> <<>>]
       /\ \A i \in DOMAIN ss : ~OfStream(ss[i], m)
    \/ \E i \in DOMAIN ss :
          c = 0 /\ OfStream(ss[i], m) /\ r = [ss |-> RemoveAt(ss, i), rcv |-> <<>>]
    \/ \E i \in DOMAIN ss, d \in Seq(Payloads) :
          /\ c > 0 /\ ss[i] = Incoming(m, d) /\ Keepable(m, d) /\ (Len(d) < c \/ d = Start(m, c))
          /\ \/ /\ Len(d) + 1 < Parts(m)
                /\ r = [ss |-> [ss EXCEPT ![i] = Incoming(m, Append(d, <<m, c + 1>>))], rcv |-> <<>>]
             \/ /\ c + 1 = Parts(m) /\ d = Start(m, c)
                /\ r = [ss |-> RemoveAt(ss, i), rcv |-> <<Fp!Whole(m)>>]

LEMMA ProcessFrame ==
    ASSUME NEW n \in Nodes, NEW ss, FastSessionsOK(n, ss),
           NEW m \in Sendable, NEW c \in Nat, c < Parts(m), Gets(n, m),
           \A m2 \in Sendable, d \in Seq(Payloads) :
              c > 0 /\ KeepsIn(ss, m2, d) /\ SameStream(m, m2)
              => m2 = m /\ (Len(d) < c \/ d = Start(m, c))
    PROVE  Handled(ss, m, c, Fp!process_message(ss, Part(m, c)))
<1> DEFINE f == Part(m, c)
           i == Fp!get_session(ss, f.pgn, f.src, f.dst)
           s == Fp!Stored(ss[i], f)
           r == Fp!process_message(ss, f)
<1>1. f.src = From[m] /\ f.dst = To[m] /\ f.pgn = Pgn[m] /\ f.counter = c /\ f.size = Size[m]
      /\ f.payload = <<m, c + 1>>
  BY DEF Part
<1>2. \/ i = 0 /\ \A j \in DOMAIN ss : ~OfStream(ss[j], m)
      \/ i \in DOMAIN ss /\ i # 0 /\ OfStream(ss[i], m)
  <2>1. LET k == Fp!get_session(ss, Pgn[m], From[m], To[m])
            of(t) == t.pgn = Pgn[m] /\ t.src = From[m] /\ t.dst = To[m]
        IN  \/ k = 0 /\ \A j \in DOMAIN ss : ~of(ss[j])
            \/ k \in DOMAIN ss /\ k # 0 /\ of(ss[k])
    BY FastGetSession
  <2> QED
    BY <1>1, <2>1 DEF OfStream
<1>3. r = IF i = 0 THEN [ss |-> IF c = 0 THEN Fp!Opened(ss, f) ELSE ss, rcv |-> <<>>]
          ELSE IF c = 0 THEN [ss |-> RemoveAt(ss, i), rcv |-> <<>>]
          ELSE IF s.bytes >= s.size
               THEN [ss |-> RemoveAt(ss, i),
                     rcv |-> <<[src |-> s.src, pgn |-> s.pgn, size |-> s.size, data |-> s.data]>>]
               ELSE [ss |-> [ss EXCEPT ![i] = s], rcv |-> <<>>]
  BY <1>1, Zenon DEF Fp!process_message, Fp!Restarted, Fp!RemoveAt, RemoveAt
<1> HIDE DEF f, i, r
<1>4. CASE i = 0 /\ c > 0
  <2>1. r = [ss |-> ss, rcv |-> <<>>]
    BY <1>3, <1>4
  <2> QED
    BY <1>2, <1>4, <2>1 DEF Handled, f, r
<1>5. CASE i = 0 /\ c = 0
  <2>1. Fp!Opened(ss, f) = Append(ss, Fp!Stored(Fp!NewSession("rx", f.src, f.dst, f.pgn, f.size, "none"), f))
    <3>1. f.size \in (Fp!CAN_DATA_LENGTH + 1)..Fp!MAX_PROTOCOL_MESSAGE_LENGTH
      <4>1. Fp!Fits(Size[m])
        BY DEF Sendable
      <4>2. Size[m] \in Nat
        BY SendableFacts
      <4>3. Size[m] \in (Fp!CAN_DATA_LENGTH + 1)..Fp!MAX_PROTOCOL_MESSAGE_LENGTH
        <5> DEFINE low == Fp!CAN_DATA_LENGTH + 1
                   high == Fp!MAX_PROTOCOL_MESSAGE_LENGTH
        <5>1. low \in Int /\ high \in Int /\ low <= Size[m] /\ Size[m] <= high
          BY <4>1, <4>2 DEF Fp!Fits, Fp!CAN_DATA_LENGTH, Fp!MAX_PROTOCOL_MESSAGE_LENGTH
        <5> HIDE DEF low, high
        <5>2. Size[m] \in low..high
          BY <4>2, <5>1
        <5> QED
          BY <5>2 DEF low, high
      <4> QED
        BY <1>1, <4>3, Zenon
    <3> QED
      BY <3>1 DEF Fp!Opened
  <2>2. Fp!Stored(Fp!NewSession("rx", f.src, f.dst, f.pgn, f.size, "none"), f) = Incoming(m, Start(m, 1))
    <3>1. Start(m, 1) = Append(<<>>, <<m, 1>>)
      BY StartMore DEF Start
    <3>2. 0 + Fp!Smaller(Size[m] - 0, 6) = 6 /\ Len(Start(m, 1)) = 1
      <4>1. Size[m] \in Nat /\ Size[m] > 8
        BY SendableFacts
      <4>2. 0 + Fp!Smaller(Size[m] - 0, 6) = 6
        BY <4>1 DEF Fp!Smaller
      <4> QED
        BY <4>2, StartMore
    <3>3. BytesIn(1) = 6 /\ f.payload = <<m, 1>> /\ f.counter = 0
      BY <1>1, <1>5 DEF BytesIn
    <3> DEFINE t == Fp!NewSession("rx", f.src, f.dst, f.pgn, f.size, "none")
    <3>4. t = [dir |-> "rx", src |-> From[m], dst |-> To[m], pgn |-> Pgn[m], size |-> Size[m],
               bytes |-> 0, data |-> <<>>, msg |-> "none"]
      BY <1>1 DEF Fp!NewSession
    <3>5. Fp!Stored(t, f) = [t EXCEPT !.data = Append(t.data, f.payload),
                                      !.bytes = t.bytes + Fp!Smaller(t.size - t.bytes, 6)]
      BY <3>3, Zenon DEF Fp!Stored
    <3>6. /\ t.data = <<>> /\ t.bytes = 0 /\ t.size = Size[m]
      BY <3>4
    <3>7. Fp!Stored(t, f) = [t EXCEPT !.data = Start(m, 1), !.bytes = 6]
      BY <3>1, <3>2, <3>3, <3>5, <3>6, Zenon
    <3>8. BytesIn(Len(Start(m, 1))) = 6
      BY <3>2, <3>3
    <3>9. Fp!Stored(t, f) = [dir |-> "rx", src |-> From[m], dst |-> To[m], pgn |-> Pgn[m],
             size |-> Size[m], bytes |-> 6, data |-> Start(m, 1), msg |-> "none"]
      <4> HIDE DEF t
      <4> QED
        BY <3>4, <3>7
    <3> QED
      BY <3>8, <3>9 DEF Incoming
  <2>3. r = [ss |-> Append(ss, Incoming(m, Start(m, 1))), rcv |-> <<>>]
    BY <1>3, <1>5, <2>1, <2>2
  <2> QED
    BY <1>2, <1>5, <2>3 DEF Handled, f, r
<1>6. CASE i # 0 /\ c = 0
  <2>1. r = [ss |-> RemoveAt(ss, i), rcv |-> <<>>] /\ i \in DOMAIN ss /\ OfStream(ss[i], m)
    BY <1>2, <1>3, <1>6
  <2> QED
    BY <1>6, <2>1 DEF Handled, f, r
<1>7. CASE i # 0 /\ c > 0
  <2>1. i \in DOMAIN ss /\ OfStream(ss[i], m)
    BY <1>2, <1>7
  <2>2. PICK m2 \in Sendable, d \in Seq(Payloads) :
           SameStream(m, m2) /\ Keepable(m2, d) /\ ss[i] = Incoming(m2, d)
    BY <2>1, StreamKept
  <2>3. m2 = m /\ (Len(d) < c \/ d = Start(m, c))
    BY <1>7, <2>1, <2>2 DEF KeepsIn
  <2>4. Len(d) \in Nat /\ Len(d) >= 1 /\ Len(d) < Parts(m) /\ Len(d) <= c /\ Parts(m) \in Nat
    <3>1. Parts(m) \in Nat
      BY PartsFacts
    <3>2. Len(d) \in 1..(Parts(m) - 1)
      BY <2>2, <2>3 DEF Keepable
    <3>3. Len(Start(m, c)) = c
      BY StartMore
    <3> QED
      BY <2>3, <3>1, <3>2, <3>3
  <2>5. /\ s = [Incoming(m, d) EXCEPT !.data = Append(d, <<m, c + 1>>),
                                    !.bytes = BytesIn(Len(d)) + Fp!Smaller(Size[m] - BytesIn(Len(d)), 7)]
    <3>1. ss[i] = Incoming(m, d)
      BY <2>2, <2>3
    <3>2. /\ ss[i].data = d /\ ss[i].size = Size[m] /\ ss[i].bytes = BytesIn(Len(d))
      BY <3>1 DEF Incoming
    <3>3. s = [ss[i] EXCEPT !.data = Append(ss[i].data, f.payload),
                            !.bytes = ss[i].bytes + Fp!Smaller(ss[i].size - ss[i].bytes, 7)]
      <4>1. f.counter # 0
        BY <1>1, <1>7
      <4> QED
        BY <4>1, Zenon DEF Fp!Stored
    <3> QED
      BY <1>1, <3>1, <3>2, <3>3, Zenon
  <2>6. s.size = Size[m] /\ s.bytes = BytesIn(Len(d)) + Fp!Smaller(Size[m] - BytesIn(Len(d)), 7)
        /\ s.src = From[m] /\ s.pgn = Pgn[m] /\ s.data = Append(d, <<m, c + 1>>)
    BY <2>5 DEF Incoming
  <2> HIDE DEF s
  <2>7. <<m, c + 1>> \in Payloads
    BY SendableFacts DEF Payloads
  <2>8. CASE Len(d) + 1 < Parts(m)
    <3>1. s.bytes = BytesIn(Len(d) + 1) /\ s.bytes < s.size
      BY <2>4, <2>6, <2>8, StoredBytes
    <3>2. Len(Append(d, <<m, c + 1>>)) = Len(d) + 1
      BY <2>7
    <3>3. s = Incoming(m, Append(d, <<m, c + 1>>))
      BY <2>5, <2>6, <3>1, <3>2 DEF Incoming
    <3>4. ~(s.bytes >= s.size)
      <4>1. s.bytes \in Int /\ s.size \in Int
        BY <2>4, <2>6, <3>1, SendableFacts DEF BytesIn
      <4> QED
        BY <3>1, <4>1
    <3>5. r = [ss |-> [ss EXCEPT ![i] = Incoming(m, Append(d, <<m, c + 1>>))], rcv |-> <<>>]
      BY <1>3, <1>7, <3>3, <3>4
    <3> QED
      BY <1>7, <2>1, <2>2, <2>3, <2>8, <3>5 DEF Handled, f, r
  <2>9. CASE ~(Len(d) + 1 < Parts(m))
    <3>1. Len(d) = c /\ d = Start(m, c) /\ c + 1 = Parts(m)
      BY <2>3, <2>4, <2>9
    <3>2. s.bytes >= s.size
      BY <2>4, <2>6, <3>1, StoredBytes
    <3>3. s.data = Start(m, Parts(m))
      BY <2>6, <3>1, StartMore
    <3>4. [src |-> s.src, pgn |-> s.pgn, size |-> s.size, data |-> s.data] = Fp!Whole(m)
      BY <2>6, <3>3 DEF Fp!Whole, Start, Parts
    <3>5. r = [ss |-> RemoveAt(ss, i), rcv |-> <<Fp!Whole(m)>>]
      BY <1>3, <1>7, <3>2, <3>4
    <3> QED
      BY <1>7, <2>1, <2>2, <2>3, <3>1, <3>5 DEF Handled, f, r
  <2> QED
    BY <2>8, <2>9
<1>8. i = 0 \/ i # 0
  OBVIOUS
<1>9. c = 0 \/ c > 0
  OBVIOUS
<1> QED
  BY <1>4, <1>5, <1>6, <1>7, <1>8, <1>9

\* What a list holds after an erase: the entries of the others.
LEMMA RemovedEntries ==
    ASSUME NEW S, NEW ss \in Seq(S), NEW i \in DOMAIN ss
    PROVE  /\ \A j \in DOMAIN RemoveAt(ss, i) :
                 \E k \in DOMAIN ss : k # i /\ RemoveAt(ss, i)[j] = ss[k]
           /\ \A k \in DOMAIN ss : k # i =>
                 \E j \in DOMAIN RemoveAt(ss, i) : RemoveAt(ss, i)[j] = ss[k]
<1> DEFINE rest == RemoveAt(ss, i)
<1>1. /\ rest \in Seq(S) /\ Len(rest) = Len(ss) - 1
      /\ \A j \in 1..(Len(ss) - 1) : rest[j] = IF j < i THEN ss[j] ELSE ss[j + 1]
  BY Removed
<1> HIDE DEF rest
<1>2. DOMAIN rest = 1..(Len(ss) - 1) /\ DOMAIN ss = 1..Len(ss) /\ Len(ss) \in Nat /\ i \in 1..Len(ss)
  BY <1>1
<1>3. ASSUME NEW j \in DOMAIN rest PROVE \E k \in DOMAIN ss : k # i /\ rest[j] = ss[k]
  <2>1. CASE j < i
    BY <1>1, <1>2, <2>1
  <2>2. CASE ~(j < i)
    <3>1. j + 1 \in DOMAIN ss /\ j + 1 # i /\ rest[j] = ss[j + 1]
      BY <1>1, <1>2, <2>2
    <3> QED
      BY <3>1
  <2> QED
    BY <2>1, <2>2
<1>4. ASSUME NEW k \in DOMAIN ss, k # i PROVE \E j \in DOMAIN rest : rest[j] = ss[k]
  <2>1. CASE k < i
    BY <1>1, <1>2, <2>1
  <2>2. CASE ~(k < i)
    <3>1. k - 1 \in DOMAIN rest /\ ~(k - 1 < i) /\ (k - 1) + 1 = k
      BY <1>2, <1>4, <2>2
    <3>2. rest[k - 1] = ss[k]
      BY <1>1, <1>2, <3>1
    <3> QED
      BY <3>1, <3>2
  <2> QED
    BY <2>1, <2>2
<1> QED
  BY <1>3, <1>4 DEF rest

\* Erasing a session leaves the others as they should be.
LEMMA SessionErased ==
    ASSUME NEW n, NEW ss, FastSessionsOK(n, ss), NEW i \in DOMAIN ss
    PROVE  FastSessionsOK(n, RemoveAt(ss, i))
<1> DEFINE rest == RemoveAt(ss, i)
<1>1. ss \in Seq(FastSession) /\ DOMAIN ss = 1..Len(ss) /\ Len(ss) \in Nat
  <2>1. ss \in Seq(FastSession)
    BY Zenon DEF FastSessionsOK
  <2> QED
    BY ONLY <2>1
<1>2. /\ rest \in Seq(FastSession) /\ Len(rest) = Len(ss) - 1
      /\ \A j \in 1..(Len(ss) - 1) : rest[j] = IF j < i THEN ss[j] ELSE ss[j + 1]
  BY <1>1, Removed, Zenon DEF rest
<1> HIDE DEF rest
<1>3. ASSUME NEW j \in DOMAIN rest PROVE Sending(n, rest[j]) \/ Keeping(n, rest[j])
  BY <1>1, <1>2 DEF FastSessionsOK
<1>4. ASSUME NEW j \in DOMAIN rest, NEW k \in DOMAIN rest,
             rest[j].src = rest[k].src, rest[j].dst = rest[k].dst, rest[j].pgn = rest[k].pgn
      PROVE  j = k
  <2> DEFINE g(x) == IF x < i THEN x ELSE x + 1
  <2>1. g(j) \in DOMAIN ss /\ g(k) \in DOMAIN ss /\ rest[j] = ss[g(j)] /\ rest[k] = ss[g(k)]
    <3>1. \A x \in DOMAIN rest : g(x) \in DOMAIN ss /\ rest[x] = ss[g(x)]
      <4>1. DOMAIN rest = 1..(Len(ss) - 1) /\ i \in 1..Len(ss)
        BY <1>1, <1>2
      <4> QED
        BY ONLY <1>1, <1>2, <4>1
    <3> QED
      BY <3>1
  <2>2. g(j) = g(k)
    BY <1>4, <2>1 DEF FastSessionsOK
  <2> QED
    BY <1>1, <1>2, <2>2
<1> QED
  BY <1>2, <1>3, <1>4 DEF FastSessionsOK, rest

\* A session more, of a stream the list has none of.
LEMMA SessionAdded ==
    ASSUME NEW n, NEW ss, FastSessionsOK(n, ss), NEW m \in Sendable, NEW s \in FastSession,
           OfStream(s, m), Sending(n, s) \/ Keeping(n, s),
           \A i \in DOMAIN ss : ~OfStream(ss[i], m)
    PROVE  /\ FastSessionsOK(n, Append(ss, s))
           /\ \A j \in DOMAIN Append(ss, s) :
                 Append(ss, s)[j] = s \/ \E k \in DOMAIN ss : Append(ss, s)[j] = ss[k]
           /\ \A k \in DOMAIN ss : \E j \in DOMAIN Append(ss, s) : Append(ss, s)[j] = ss[k]
           /\ \E j \in DOMAIN Append(ss, s) : Append(ss, s)[j] = s
<1> DEFINE more == Append(ss, s)
<1>1. ss \in Seq(FastSession) /\ DOMAIN ss = 1..Len(ss) /\ Len(ss) \in Nat
  BY DEF FastSessionsOK
<1>2. /\ more \in Seq(FastSession) /\ DOMAIN more = 1..(Len(ss) + 1)
      /\ \A j \in 1..Len(ss) : more[j] = ss[j]
      /\ more[Len(ss) + 1] = s
  BY <1>1
<1> HIDE DEF more
<1>3. \A j \in DOMAIN more : (j \in DOMAIN ss /\ more[j] = ss[j]) \/ (j = Len(ss) + 1 /\ more[j] = s)
  BY <1>1, <1>2
<1>4. \A j \in DOMAIN more : Sending(n, more[j]) \/ Keeping(n, more[j])
  BY <1>3 DEF FastSessionsOK
<1>5. ASSUME NEW j \in DOMAIN more, NEW k \in DOMAIN more,
             more[j].src = more[k].src, more[j].dst = more[k].dst, more[j].pgn = more[k].pgn
      PROVE  j = k
  BY <1>3, <1>5 DEF FastSessionsOK, OfStream
<1>6. FastSessionsOK(n, more)
  BY <1>2, <1>4, <1>5 DEF FastSessionsOK
<1>7. \A k \in DOMAIN ss : k \in DOMAIN more /\ more[k] = ss[k]
  BY <1>1, <1>2
<1>8. Len(ss) + 1 \in DOMAIN more
  BY <1>1, <1>2
<1> QED
  BY <1>2, <1>3, <1>6, <1>7, <1>8 DEF more

\* A session replaced by another one of its stream.
LEMMA SessionReplaced ==
    ASSUME NEW n, NEW ss, FastSessionsOK(n, ss), NEW i \in DOMAIN ss, NEW m \in Sendable,
           OfStream(ss[i], m), NEW s \in FastSession, OfStream(s, m), Sending(n, s) \/ Keeping(n, s)
    PROVE  FastSessionsOK(n, [ss EXCEPT ![i] = s])
<1>1. ss \in Seq(FastSession)
  BY DEF FastSessionsOK
<1> DEFINE ss2 == [ss EXCEPT ![i] = s]
<1>2. ss2 \in Seq(FastSession) /\ DOMAIN ss2 = DOMAIN ss
      /\ \A j \in DOMAIN ss : ss2[j] = IF j = i THEN s ELSE ss[j]
  BY <1>1
<1> HIDE DEF ss2
<1>3. \A j \in DOMAIN ss2 : ss2[j].src = ss[j].src /\ ss2[j].dst = ss[j].dst /\ ss2[j].pgn = ss[j].pgn
  BY <1>2 DEF OfStream
<1> QED
  BY <1>2, <1>3 DEF FastSessionsOK, ss2

\* What a reception leaves of the sessions: those of other streams and those that send
\* as they were, and of the frame's stream what the frame adds to what was kept.
AfterFrame(n, ss, m, c, r) ==
    /\ FastSessionsOK(n, r.ss)
    /\ \A m2 \in Sendable, c2 \in Nat : SendsIn(r.ss, m2, c2) <=> SendsIn(ss, m2, c2)
    /\ \A m2 \in Sendable, d2 \in Seq(Payloads) : KeepsIn(r.ss, m2, d2) =>
          \/ KeepsIn(ss, m2, d2) /\ ~SameStream(m, m2)
          \/ m2 = m /\ c = 0 /\ d2 = Start(m, 1)
          \/ /\ m2 = m /\ c > 0
             /\ \E d \in Seq(Payloads) :
                   /\ KeepsIn(ss, m, d) /\ (Len(d) < c \/ d = Start(m, c))
                   /\ d2 = Append(d, <<m, c + 1>>)
    /\ \/ r.rcv = <<>>
       \/ /\ r.rcv = <<Fp!Whole(m)>> /\ c + 1 = Parts(m) /\ c > 0
          /\ KeepsIn(ss, m, Start(m, c))
          /\ \A d2 \in Seq(Payloads) : ~KeepsIn(r.ss, m, d2)

LEMMA HandledKeeps ==
    ASSUME NEW n \in Nodes, NEW ss, FastSessionsOK(n, ss),
           NEW m \in Sendable, NEW c \in Nat, c < Parts(m), Gets(n, m),
           NEW r, Handled(ss, m, c, r)
    PROVE  AfterFrame(n, ss, m, c, r)
<1>0. ss \in Seq(FastSession) /\ <<>> \in Seq(Payloads) /\ Parts(m) \in Nat /\ Parts(m) >= 2
  BY PartsFacts DEF FastSessionsOK
<1>1. \A m2 \in Sendable, d \in Seq(Payloads) : SameStream(m, m2) <=> OfStream(Incoming(m2, d), m)
  BY DEF SameStream, OfStream, Incoming
<1>2. \A m2, d, m3, c3 : Incoming(m2, d) # Outgoing(m3, c3)
  BY DEF Incoming, Outgoing
<1>3. CASE c > 0 /\ r = [ss |-> ss, rcv |-> <<>>] /\ \A i \in DOMAIN ss : ~OfStream(ss[i], m)
  BY <1>1, <1>3 DEF AfterFrame, KeepsIn
<1>4. CASE c = 0 /\ r = [ss |-> Append(ss, Incoming(m, Start(m, 1))), rcv |-> <<>>]
           /\ \A i \in DOMAIN ss : ~OfStream(ss[i], m)
  <2> DEFINE s == Incoming(m, Start(m, 1))
             more == Append(ss, s)
  <2>1. Start(m, 1) \in Seq(Payloads) /\ Len(Start(m, 1)) = 1 /\ Start(m, 1)[1] = <<m, 1>>
    <3>1. 1 \in Nat /\ 1 \in 1..1
      OBVIOUS
    <3>2. Start(m, 1) \in Seq(Payloads) /\ Len(Start(m, 1)) = 1
      BY <3>1, StartMore
    <3> QED
      BY <3>1, <3>2 DEF Start
  <2>2. s \in FastSession /\ OfStream(s, m)
    BY <2>1, Streams
  <2>3. Keepable(m, Start(m, 1))
    <3>1. 1 \in 1..(Parts(m) - 1)
      BY <1>0
    <3>2. Len(Start(m, 1)) = 1
      BY <2>1
    <3> QED
      BY <2>1, <3>1, <3>2, Zenon DEF Keepable
  <2>4. Keeping(n, s)
    BY <2>1, <2>3 DEF Keeping
  <2>5. /\ FastSessionsOK(n, more)
        /\ \A j \in DOMAIN more : more[j] = s \/ \E k \in DOMAIN ss : more[j] = ss[k]
        /\ \A k \in DOMAIN ss : \E j \in DOMAIN more : more[j] = ss[k]
    <3>1. \A i \in DOMAIN ss : ~OfStream(ss[i], m)
      BY <1>4
    <3> HIDE DEF s
    <3> QED
      BY <2>2, <2>4, <3>1, SessionAdded
  <2> HIDE DEF more
  <2>6. \A m2 \in Sendable, c2 \in Nat : SendsIn(more, m2, c2) <=> SendsIn(ss, m2, c2)
    BY <1>2, <2>5 DEF SendsIn
  <2>7. ASSUME NEW m2 \in Sendable, NEW d2 \in Seq(Payloads), KeepsIn(more, m2, d2)
        PROVE  \/ KeepsIn(ss, m2, d2) /\ ~SameStream(m, m2)
               \/ m2 = m /\ c = 0 /\ d2 = Start(m, 1)
    <3>1. PICK j \in DOMAIN more : more[j] = Incoming(m2, d2) /\ Keepable(m2, d2)
      BY <2>7 DEF KeepsIn
    <3>2. CASE \E k \in DOMAIN ss : more[j] = ss[k]
      BY <1>1, <1>4, <3>1, <3>2 DEF KeepsIn
    <3>3. CASE more[j] = s
      <4>1. Incoming(m2, d2) = Incoming(m, Start(m, 1))
        BY <3>1, <3>3
      <4>2. d2 = Start(m, 1) /\ m2 = m
        BY <2>3, <3>1, <4>1, IncomingNames, Zenon
      <4> QED
        BY <1>4, <4>2
    <3> QED
      BY <2>5, <3>2, <3>3
  <2>8. r.ss = more /\ r.rcv = <<>>
    BY <1>4 DEF more
  <2> QED
    BY <2>5, <2>6, <2>7, <2>8 DEF AfterFrame
<1>5. ASSUME NEW i \in DOMAIN ss, OfStream(ss[i], m), NEW rest, rest = RemoveAt(ss, i)
      PROVE  /\ FastSessionsOK(n, rest)
             /\ \A m2 \in Sendable, c2 \in Nat : SendsIn(rest, m2, c2) <=> SendsIn(ss, m2, c2)
             /\ \A m2 \in Sendable, d2 \in Seq(Payloads) : KeepsIn(rest, m2, d2) =>
                   KeepsIn(ss, m2, d2) /\ ~SameStream(m, m2)
  <2>1. FastSessionsOK(n, rest)
    BY <1>5, SessionErased, Zenon
  <2>2. /\ \A j \in DOMAIN rest : \E k \in DOMAIN ss : k # i /\ rest[j] = ss[k]
        /\ \A k \in DOMAIN ss : k # i => \E j \in DOMAIN rest : rest[j] = ss[k]
    BY <1>0, <1>5, RemovedEntries
  <2>3. PICK m3 \in Sendable, d3 \in Seq(Payloads) : ss[i] = Incoming(m3, d3)
    BY <1>5, StreamKept
  <2>4. \A m2 \in Sendable, c2 \in Nat : SendsIn(rest, m2, c2) <=> SendsIn(ss, m2, c2)
    BY <1>2, <2>2, <2>3 DEF SendsIn
  <2>5. ASSUME NEW m2 \in Sendable, NEW d2 \in Seq(Payloads), KeepsIn(rest, m2, d2)
        PROVE  KeepsIn(ss, m2, d2) /\ ~SameStream(m, m2)
    <3>1. PICK k \in DOMAIN ss : k # i /\ ss[k] = Incoming(m2, d2) /\ Keepable(m2, d2)
      BY <2>2, <2>5 DEF KeepsIn
    <3>2. ~OfStream(ss[k], m)
      BY <1>5, <3>1 DEF OfStream, FastSessionsOK
    <3> QED
      BY <1>1, <3>1, <3>2 DEF KeepsIn
  <2> QED
    BY <2>1, <2>4, <2>5
<1>6. ASSUME NEW i \in DOMAIN ss, c = 0, OfStream(ss[i], m), r = [ss |-> RemoveAt(ss, i), rcv |-> <<>>]
      PROVE  AfterFrame(n, ss, m, c, r)
  <2>1. r.ss = RemoveAt(ss, i) /\ r.rcv = <<>>
    BY <1>6
  <2> QED
    BY <1>5, <1>6, <2>1 DEF AfterFrame
<1>7. ASSUME NEW i \in DOMAIN ss, NEW d \in Seq(Payloads), c > 0, ss[i] = Incoming(m, d), Keepable(m, d),
             Len(d) < c \/ d = Start(m, c)
      PROVE  /\ OfStream(ss[i], m) /\ KeepsIn(ss, m, d)
  BY <1>7, Streams DEF KeepsIn
<1>8. ASSUME NEW i \in DOMAIN ss, NEW d \in Seq(Payloads), c > 0, ss[i] = Incoming(m, d), Keepable(m, d),
             Len(d) < c \/ d = Start(m, c), Len(d) + 1 < Parts(m),
             r = [ss |-> [ss EXCEPT ![i] = Incoming(m, Append(d, <<m, c + 1>>))], rcv |-> <<>>]
      PROVE  AfterFrame(n, ss, m, c, r)
  <2> DEFINE d3 == Append(d, <<m, c + 1>>)
             s == Incoming(m, d3)
             ss2 == [ss EXCEPT ![i] = s]
  <2>1. <<m, c + 1>> \in Payloads
    BY SendableFacts DEF Payloads
  <2>2. d3 \in Seq(Payloads) /\ Len(d3) = Len(d) + 1 /\ Len(d) \in 1..(Parts(m) - 1)
    BY <1>8, <2>1 DEF Keepable
  <2>3. d3[1] = <<m, 1>>
    BY <1>8, <2>1, <2>2 DEF Keepable
  <2>4. Keepable(m, d3)
    BY <1>0, <1>8, <2>2, <2>3 DEF Keepable
  <2> HIDE DEF d3
  <2>5. s \in FastSession /\ OfStream(s, m)
    BY <2>2, Streams
  <2>6. Keeping(n, s)
    BY <2>2, <2>4 DEF Keeping
  <2>7. FastSessionsOK(n, ss2)
    <3>1. OfStream(ss[i], m)
      BY <1>7, <1>8
    <3> HIDE DEF s
    <3> QED
      BY <2>5, <2>6, <3>1, SessionReplaced, Zenon
  <2>8. DOMAIN ss2 = DOMAIN ss /\ \A j \in DOMAIN ss : ss2[j] = IF j = i THEN s ELSE ss[j]
    BY <1>0
  <2> HIDE DEF ss2
  <2>9. \A m2 \in Sendable, c2 \in Nat : SendsIn(ss2, m2, c2) <=> SendsIn(ss, m2, c2)
    BY <1>2, <1>8, <2>8 DEF SendsIn
  <2>10. ASSUME NEW m2 \in Sendable, NEW d2 \in Seq(Payloads), KeepsIn(ss2, m2, d2)
         PROVE  \/ KeepsIn(ss, m2, d2) /\ ~SameStream(m, m2)
                \/ m2 = m /\ d2 = d3
    <3>1. PICK k \in DOMAIN ss : ss2[k] = Incoming(m2, d2) /\ Keepable(m2, d2)
      BY <2>8, <2>10 DEF KeepsIn
    <3>2. CASE k = i
      BY <2>4, <2>8, <3>1, <3>2, IncomingNames
    <3>3. CASE k # i
      <4>1. ss[k] = Incoming(m2, d2)
        BY <2>8, <3>1, <3>3
      <4>2. ~OfStream(ss[k], m)
        BY <1>7, <1>8, <3>3 DEF OfStream, FastSessionsOK
      <4> QED
        BY <1>1, <3>1, <4>1, <4>2 DEF KeepsIn
    <3> QED
      BY <3>2, <3>3
  <2>11. r.ss = ss2 /\ r.rcv = <<>>
    BY <1>8 DEF ss2, d3
  <2>12. KeepsIn(ss, m, d)
    BY <1>7, <1>8
  <2> QED
    BY <1>8, <2>7, <2>9, <2>10, <2>11, <2>12 DEF AfterFrame, d3
<1>9. ASSUME NEW i \in DOMAIN ss, NEW d \in Seq(Payloads), c > 0, ss[i] = Incoming(m, d), Keepable(m, d),
             c + 1 = Parts(m), d = Start(m, c), r = [ss |-> RemoveAt(ss, i), rcv |-> <<Fp!Whole(m)>>]
      PROVE  AfterFrame(n, ss, m, c, r)
  <2>1. r.ss = RemoveAt(ss, i) /\ r.rcv = <<Fp!Whole(m)>>
    BY <1>9
  <2>2. OfStream(ss[i], m) /\ KeepsIn(ss, m, Start(m, c))
    BY <1>7, <1>9
  <2>3. SameStream(m, m)
    BY DEF SameStream
  <2>4. /\ FastSessionsOK(n, r.ss)
        /\ \A m2 \in Sendable, c2 \in Nat : SendsIn(r.ss, m2, c2) <=> SendsIn(ss, m2, c2)
        /\ \A m2 \in Sendable, d2 \in Seq(Payloads) : KeepsIn(r.ss, m2, d2) =>
              KeepsIn(ss, m2, d2) /\ ~SameStream(m, m2)
    BY <1>5, <2>1, <2>2
  <2> QED
    BY <1>9, <2>1, <2>2, <2>3, <2>4 DEF AfterFrame
<1> QED
  BY <1>3, <1>4, <1>6, <1>8, <1>9 DEF Handled


--------------------------------------------------------------------------------
\* Streams

\* What is due: a frame of a message the node gets, at a place from 1 on; before the
\* last place it is on its way, at the last one it is the next one of its session.
LEMMA DueFacts ==
    ASSUME NEW S, NEW B, NEW D, NEW O, FastTypes(S, B, D, O), NEW n \in Nodes,
           NEW m \in Sendable, NEW c \in Nat, NEW j \in Nat, Due(S, B, n, m, c, j)
    PROVE  /\ j \in 1..(Len(B[n]) + 1) /\ Len(B[n]) \in Nat
           /\ c < Parts(m) /\ Gets(n, m)
           /\ j <= Len(B[n]) => B[n][j] = Part(m, c)
           /\ j = Len(B[n]) + 1 => Sends(S, m, c)
<1>1. B[n] \in Seq(FastFrame) /\ Len(B[n]) \in Nat /\ DOMAIN B[n] = 1..Len(B[n]) /\ FastBoxOK(n, B[n])
  BY DEF FastTypes, FastBoxOK
<1>2. From[m] \in Nodes /\ FastSessionsOK(From[m], S[From[m]])
  <2>1. From[m] \in Nodes
    BY SendableFacts
  <2> QED
    BY <2>1 DEF FastTypes
<1>3. CASE j \in DOMAIN B[n] /\ B[n][j] = Part(m, c)
  <2>1. PICK m2 \in Sendable, c2 \in Nat : Gets(n, m2) /\ c2 < Parts(m2) /\ B[n][j] = Part(m2, c2)
    BY <1>1, <1>3 DEF FastBoxOK
  <2>2. m2 = m /\ c2 = c
    <3>1. Part(m, c) = Part(m2, c2)
      BY <1>3, <2>1
    <3> QED
      BY <3>1, PartNames, Zenon
  <2> QED
    BY <1>1, <1>3, <2>1, <2>2
<1>4. CASE j = Len(B[n]) + 1 /\ Gets(n, m) /\ Sends(S, m, c)
  <2>1. PICK i \in DOMAIN S[From[m]] : S[From[m]][i] = Outgoing(m, c)
    BY <1>4 DEF Sends
  <2>2. Sending(From[m], Outgoing(m, c)) \/ Keeping(From[m], Outgoing(m, c))
    BY <1>2, <2>1 DEF FastSessionsOK
  <2>3. ~Keeping(From[m], Outgoing(m, c))
    BY DEF Keeping, Incoming, Outgoing
  <2>4. PICK m2 \in Sendable, c2 \in Nat : c2 < Parts(m2) /\ Outgoing(m, c) = Outgoing(m2, c2)
    BY <2>2, <2>3 DEF Sending
  <2>5. m2 = m /\ c2 = c
    BY <2>4, OutgoingNames
  <2> QED
    BY <1>1, <1>4, <2>4, <2>5
<1> QED
  BY <1>3, <1>4 DEF Due

\* One frame is at one place; at the last one, one of each stream.
LEMMA DueOnce ==
    ASSUME NEW S, NEW B, NEW D, NEW O, FastTypes(S, B, D, O), NEW n \in Nodes,
           NEW m \in Sendable, NEW c \in Nat, NEW m2 \in Sendable, NEW c2 \in Nat, NEW j \in Nat,
           Due(S, B, n, m, c, j), Due(S, B, n, m2, c2, j), j <= Len(B[n]) \/ SameStream(m, m2)
    PROVE  m = m2 /\ c = c2
<1>1. j \in 1..(Len(B[n]) + 1) /\ Len(B[n]) \in Nat
  BY DueFacts
<1>2. CASE j <= Len(B[n])
  <2>1. B[n][j] = Part(m, c) /\ B[n][j] = Part(m2, c2)
    BY <1>2, DueFacts
  <2>2. Part(m, c) = Part(m2, c2)
    BY <2>1
  <2> QED
    BY <2>2 DEF Part
<1>3. CASE j = Len(B[n]) + 1 /\ SameStream(m, m2)
  <2>1. Sends(S, m, c) /\ Sends(S, m2, c2)
    BY <1>3, DueFacts
  <2>2. From[m] = From[m2] /\ From[m] \in Nodes
    BY <1>3, SendableFacts DEF SameStream
  <2>3. PICK i \in DOMAIN S[From[m]] : S[From[m]][i] = Outgoing(m, c)
    BY <2>1 DEF Sends
  <2>4. PICK k \in DOMAIN S[From[m]] : S[From[m]][k] = Outgoing(m2, c2)
    BY <2>1, <2>2 DEF Sends
  <2>5. i = k
    <3>1. FastSessionsOK(From[m], S[From[m]])
      BY <2>2 DEF FastTypes
    <3>2. /\ Outgoing(m, c).src = Outgoing(m2, c2).src /\ Outgoing(m, c).dst = Outgoing(m2, c2).dst
          /\ Outgoing(m, c).pgn = Outgoing(m2, c2).pgn
      BY <1>3 DEF SameStream, Outgoing
    <3> QED
      BY <2>3, <2>4, <3>1, <3>2 DEF FastSessionsOK
  <2>6. Outgoing(m, c) = Outgoing(m2, c2)
    BY <2>3, <2>4, <2>5
  <2> QED
    BY <2>6, OutgoingNames
<1> QED
  BY <1>1, <1>2, <1>3

SameDue(S, B, S2, B2, n) ==
    /\ Len(B2[n]) = Len(B[n])
    /\ \A m \in Sendable, c, j \in Nat : Due(S2, B2, n, m, c, j) <=> Due(S, B, n, m, c, j)
Shifted(S, B, S2, B2, n) ==
    /\ Len(B[n]) \in Nat \ {0} /\ Len(B2[n]) = Len(B[n]) - 1
    /\ \A m \in Sendable, c, j \in Nat :
          Due(S2, B2, n, m, c, j) <=> j >= 1 /\ Due(S, B, n, m, c, j + 1)

\* Where the first frame goes, whoever takes it, what is due moves up by one place.
LEMMA Shift ==
    ASSUME NEW S, NEW B, NEW D, NEW O, FastTypes(S, B, D, O), NEW n \in Nodes, B[n] # <<>>,
           NEW S2, NEW B2, DOMAIN B2 = Nodes, B2[n] = Tail(B[n]),
           \A k \in Nodes \ {n} : B2[k] = B[k],
           \A m \in Sendable, c \in Nat : Sends(S2, m, c) <=> Sends(S, m, c)
    PROVE  /\ Shifted(S, B, S2, B2, n) /\ FastBoxOK(n, B2[n])
           /\ \A k \in Nodes \ {n} : SameDue(S, B, S2, B2, k)
<1>1. B[n] \in Seq(FastFrame) /\ FastBoxOK(n, B[n])
  BY DEF FastTypes, FastBoxOK
<1>2. /\ Len(B[n]) \in Nat \ {0} /\ DOMAIN B[n] = 1..Len(B[n])
      /\ B2[n] \in Seq(FastFrame) /\ Len(B2[n]) = Len(B[n]) - 1 /\ DOMAIN B2[n] = 1..(Len(B[n]) - 1)
      /\ \A j \in 1..(Len(B[n]) - 1) : B2[n][j] = B[n][j + 1]
  BY <1>1
<1>3. FastBoxOK(n, B2[n])
  <2>1. \A j \in DOMAIN B2[n] : j + 1 \in DOMAIN B[n] /\ B2[n][j] = B[n][j + 1]
    BY <1>2
  <2> QED
    BY <1>1, <1>2, <2>1 DEF FastBoxOK
<1>4. ASSUME NEW m \in Sendable, NEW c \in Nat, NEW j \in Nat
      PROVE  Due(S2, B2, n, m, c, j) <=> j >= 1 /\ Due(S, B, n, m, c, j + 1)
  <2>1. j \in DOMAIN B2[n] <=> j >= 1 /\ j + 1 \in DOMAIN B[n]
    BY <1>2
  <2>2. j \in DOMAIN B2[n] => B2[n][j] = B[n][j + 1]
    BY <1>2
  <2>3. j = Len(B2[n]) + 1 <=> j >= 1 /\ j + 1 = Len(B[n]) + 1
    BY <1>2
  <2>4. Sends(S2, m, c) <=> Sends(S, m, c)
    OBVIOUS
  <2> QED
    BY <2>1, <2>2, <2>3, <2>4 DEF Due
<1>5. ASSUME NEW k \in Nodes \ {n}, NEW m \in Sendable, NEW c \in Nat, NEW j \in Nat
      PROVE  Due(S2, B2, k, m, c, j) <=> Due(S, B, k, m, c, j)
  BY DEF Due
<1> QED
  BY <1>2, <1>3, <1>4, <1>5 DEF Shifted, SameDue

\* An entry more at the end of a list.
LEMMA EntryMore ==
    ASSUME NEW X, NEW s \in Seq(X), NEW w \in X
    PROVE  /\ s \o <<w>> \in Seq(X) /\ s \o <<w>> = Append(s, w)
           /\ DOMAIN (s \o <<w>>) = 1..(Len(s) + 1) /\ Len(s) \in Nat
           /\ \A i \in 1..Len(s) : (s \o <<w>>)[i] = s[i]
           /\ (s \o <<w>>)[Len(s) + 1] = w
           /\ \A i \in DOMAIN (s \o <<w>>) : i \in DOMAIN s \/ i = Len(s) + 1
<1>1. s \o <<w>> \in Seq(X) /\ Len(s \o <<w>>) = Len(s) + 1 /\ Len(s) \in Nat
  OBVIOUS
<1>2. \A i \in 1..Len(s) : (s \o <<w>>)[i] = s[i]
  OBVIOUS
<1>3. (s \o <<w>>)[Len(s) + 1] = w
  OBVIOUS
<1>4. s \o <<w>> = Append(s, w)
  BY <1>1, <1>2, <1>3
<1>5. DOMAIN (s \o <<w>>) = 1..(Len(s) + 1)
  BY <1>1
<1>6. \A i \in 1..(Len(s) + 1) : i \in 1..Len(s) \/ i = Len(s) + 1
  BY <1>1
<1> QED
  BY <1>1, <1>2, <1>3, <1>4, <1>5, <1>6

LEMMA WholeHanded ==
    ASSUME NEW m \in Sendable
    PROVE  Fp!Whole(m) \in FastHanded
<1>1. From[m] \in Nodes /\ Pgn[m] \in Pgns /\ Size[m] \in Nat
  BY SendableFacts
<1>2. Start(m, Parts(m)) \in Seq(Payloads)
  BY PartsFacts, StartMore
<1>3. Fp!Whole(m) = [src |-> From[m], pgn |-> Pgn[m], size |-> Size[m], data |-> Start(m, Parts(m))]
  BY DEF Fp!Whole, Start, Parts
<1> QED
  BY <1>1, <1>2, <1>3 DEF FastHanded

Taken(S, B, D, n, m, c, r, S2, B2, D2) ==
    /\ Shifted(S, B, S2, B2, n) /\ AfterFrame(n, S[n], m, c, r)
    /\ S2[n] = r.ss /\ D2[n] = D[n] \o r.rcv

\* A frame received leaves the node's streams as they should be.
LEMMA ReceivedStreams ==
    ASSUME NEW S, NEW B, NEW D, NEW O, NEW lost, NEW n \in Nodes,
           FastTypes(S, B, D, O), StreamOK(S, B, D, O, lost, n), B[n] # <<>>,
           NEW m0 \in Sendable, NEW c0 \in Nat, Due(S, B, n, m0, c0, 1),
           NEW S2, NEW B2, NEW D2, NEW r, Taken(S, B, D, n, m0, c0, r, S2, B2, D2)
    PROVE  /\ StreamOK(S2, B2, D2, O, lost, n)
           /\ FastHandedOK(D2[n])
           /\ r.rcv = <<>> \/ (r.rcv = <<Fp!Whole(m0)>> /\ ~Given(D, n, m0))
<1>0. /\ Shifted(S, B, S2, B2, n) /\ AfterFrame(n, S[n], m0, c0, r)
      /\ S2[n] = r.ss /\ D2[n] = D[n] \o r.rcv
  BY DEF Taken
<1> DEFINE due(m, c, j) == Due(S, B, n, m, c, j)
           due2(m, c, j) == Due(S2, B2, n, m, c, j)
           keeps(m, d) == Keeps(S, n, m, d)
           keeps2(m, d) == Keeps(S2, n, m, d)
<1>1. \A m \in Sendable, c, j \in Nat : due2(m, c, j) <=> j >= 1 /\ due(m, c, j + 1)
  BY <1>0 DEF Shifted
<1>2. \A m2 \in Sendable, d2 \in Seq(Payloads) : keeps2(m2, d2) =>
         \/ keeps(m2, d2) /\ ~SameStream(m0, m2)
         \/ m2 = m0 /\ c0 = 0 /\ d2 = Start(m0, 1)
         \/ /\ m2 = m0 /\ c0 > 0
            /\ \E d \in Seq(Payloads) :
                  /\ keeps(m0, d) /\ (Len(d) < c0 \/ d = Start(m0, c0))
                  /\ d2 = Append(d, <<m0, c0 + 1>>)
  BY <1>0 DEF AfterFrame, Keeps, KeepsIn
<1>3. /\ Chained(S, B, n) /\ Continued(S, B, n) /\ Increasing(S, B, n) /\ Ahead(S, B, n)
      /\ HandedOnce(S, B, D, n) /\ NotYet(S, B, D, O, n) /\ (Intact(lost) => Completed(S, B, n))
  BY DEF StreamOK
<1>4. due(m0, c0, 1) /\ SameStream(m0, m0) /\ 1 \in Nat
  BY DEF SameStream
<1>5. Len(B[n]) \in Nat /\ 1 <= Len(B[n]) /\ Len(B2[n]) = Len(B[n]) - 1
  BY <1>0 DEF Shifted
<1>6. ASSUME NEW m \in Sendable, NEW c \in Nat, due(m, c, 1)
      PROVE  m = m0 /\ c = c0
  BY <1>4, <1>5, <1>6, DueOnce
<1>7. \A m \in Sendable, c, j \in Nat : due(m, c, j) => j >= 1 /\ c < Parts(m) /\ Parts(m) \in Nat
  BY DueFacts, PartsFacts
<1>8. \A d \in Seq(Payloads) : /\ Len(d) \in Nat
                               /\ Len(Append(d, <<m0, c0 + 1>>)) = Len(d) + 1
  BY SendableFacts DEF Payloads
<1>9. /\ Len(Start(m0, 1)) = 1 /\ Len(Start(m0, c0)) = c0
      /\ Append(Start(m0, c0), <<m0, c0 + 1>>) = Start(m0, c0 + 1)
  BY <1>4, StartMore
<1>10. \A m \in Sendable, d \in Seq(Payloads) : keeps2(m, d) => Len(d) \in 1..(Parts(m) - 1)
  BY DEF Keeps, Keepable
<1>11. \A m, m2 \in Sendable, c, c2, i, j \in Nat :
          due(m, c, j) /\ c > 0 /\ due(m2, c2, i) /\ i < j /\ SameStream(m, m2)
          => \E p \in i..(j - 1) : due(m, c - 1, p)
  BY <1>3 DEF Chained
<1>12. \A m, m2 \in Sendable, c, j \in Nat, d \in Seq(Payloads) :
          due(m, c, j) /\ c > 0 /\ keeps(m2, d) /\ SameStream(m, m2)
          => (\E p \in 1..(j - 1) : due(m, c - 1, p)) \/ (m2 = m /\ (Len(d) < c \/ d = Start(m, c)))
  BY <1>3 DEF Continued
<1>13. \A m \in Sendable, c, c2, i, j \in Nat : due(m, c, j) /\ due(m, c2, i) /\ i < j => c2 < c
  BY <1>3 DEF Increasing
<1>14. \A m \in Sendable, c, j \in Nat, d \in Seq(Payloads) : keeps(m, d) /\ due(m, c, j) => Len(d) <= c
  BY <1>3 DEF Ahead
<1>15. \A i \in DOMAIN D2[n] : D2[n][i] = Fp!Whole(m0) \/ \E k \in DOMAIN D[n] : D2[n][i] = D[n][k]
  <2>1. D[n] \in Seq(FastHanded) /\ Fp!Whole(m0) \in FastHanded
    BY WholeHanded DEF FastTypes, FastHandedOK
  <2>2. CASE r.rcv = <<>>
    BY <1>0, <2>1, <2>2
  <2>3. CASE r.rcv = <<Fp!Whole(m0)>>
    <3> DEFINE w == Fp!Whole(m0)
    <3>1. D2[n] = D[n] \o <<w>>
      BY <1>0, <2>3
    <3> HIDE DEF w
    <3>2. /\ DOMAIN (D[n] \o <<w>>) = 1..(Len(D[n]) + 1)
          /\ \A i \in 1..Len(D[n]) : (D[n] \o <<w>>)[i] = D[n][i]
          /\ (D[n] \o <<w>>)[Len(D[n]) + 1] = w
          /\ \A i \in DOMAIN (D[n] \o <<w>>) : i \in DOMAIN D[n] \/ i = Len(D[n]) + 1
      BY <2>1, EntryMore DEF w
    <3>3. DOMAIN D[n] = 1..Len(D[n])
      BY <2>1
    <3> QED
      BY <3>1, <3>2, <3>3, Zenon DEF w
  <2> QED
    BY <1>0, <2>2, <2>3 DEF AfterFrame
<1>16. /\ r.rcv = <<>> \/ (r.rcv = <<Fp!Whole(m0)>> /\ c0 + 1 = Parts(m0)
                           /\ \A d \in Seq(Payloads) : ~keeps2(m0, d))
  BY <1>0 DEF AfterFrame, Keeps, KeepsIn
<1>17. ~Given(D, n, m0)
  BY <1>3, <1>4 DEF HandedOnce, Nothing
<1> HIDE DEF due, due2, keeps, keeps2
<1>21. ASSUME NEW m \in Sendable, NEW m2 \in Sendable,
              NEW c \in Nat, NEW c2 \in Nat, NEW i \in Nat, NEW j \in Nat,
              due2(m, c, j), c > 0, due2(m2, c2, i), i < j, SameStream(m, m2)
       PROVE  \E p \in i..(j - 1) : due2(m, c - 1, p)
  <2>1. due(m, c, j + 1) /\ due(m2, c2, i + 1) /\ i >= 1
    BY <1>1, <1>21
  <2>2. PICK p \in (i + 1)..j : due(m, c - 1, p)
    <3>1. i + 1 \in Nat /\ j + 1 \in Nat /\ i + 1 < j + 1 /\ (j + 1) - 1 = j
      BY <1>21
    <3> QED
      BY <1>11, <1>21, <2>1, <3>1
  <2>3. p - 1 \in i..(j - 1) /\ p - 1 \in Nat /\ p - 1 >= 1 /\ (p - 1) + 1 = p
    BY <2>1, <2>2
  <2>4. due2(m, c - 1, p - 1)
    <3>1. c - 1 \in Nat
      BY <1>21
    <3> QED
      BY <1>1, <2>2, <2>3, <3>1
  <2> QED
    BY <2>3, <2>4
<1>22. ASSUME NEW m \in Sendable, NEW m2 \in Sendable, NEW c \in Nat, NEW j \in Nat,
              NEW d2 \in Seq(Payloads),
              due2(m, c, j), c > 0, keeps2(m2, d2), SameStream(m, m2)
       PROVE  \/ \E p \in 1..(j - 1) : due2(m, c - 1, p)
              \/ m2 = m /\ (Len(d2) < c \/ d2 = Start(m, c))
  <2>1. due(m, c, j + 1) /\ j >= 1 /\ j + 1 \in Nat /\ c - 1 \in Nat
    BY <1>1, <1>22
  <2>2. ASSUME NEW p \in Nat, p > 1, p <= j, due(m, c - 1, p)
        PROVE  \E q \in 1..(j - 1) : due2(m, c - 1, q)
    <3>1. p - 1 \in 1..(j - 1) /\ p - 1 \in Nat /\ p - 1 >= 1 /\ (p - 1) + 1 = p
      BY ONLY p \in Nat, j \in Nat, p > 1, p <= j
    <3>2. due2(m, c - 1, p - 1)
      BY <1>1, <2>1, <2>2, <3>1
    <3> QED
      BY <3>1, <3>2
  <2>3. CASE keeps(m2, d2) /\ ~SameStream(m0, m2)
    <3>1. CASE m2 = m /\ (Len(d2) < c \/ d2 = Start(m, c))
      BY <3>1
    <3>2. CASE \E p \in 1..((j + 1) - 1) : due(m, c - 1, p)
      <4>1. PICK p \in 1..j : due(m, c - 1, p)
        BY <2>1, <3>2
      <4>2. p # 1
        BY <1>6, <1>22, <2>1, <2>3, <4>1 DEF due
      <4> QED
        BY <2>2, <4>1, <4>2
    <3> QED
      BY <1>12, <1>22, <2>1, <2>3, <3>1, <3>2
  <2>4. CASE m2 = m0
    <3>1. PICK p \in 1..j : due(m, c - 1, p)
      <4>1. 1 < j + 1 /\ (j + 1) - 1 = j
        BY <2>1
      <4> QED
        BY <1>4, <1>11, <1>22, <2>1, <2>4, <4>1
    <3>2. CASE p > 1
      BY <2>2, <3>1, <3>2
    <3>3. CASE p = 1
      <4>1. m = m0 /\ c - 1 = c0
        BY <1>6, <2>1, <3>1, <3>3 DEF due
      <4>2. CASE c0 = 0 /\ d2 = Start(m0, 1)
        BY <2>4, <4>1, <4>2
      <4>3. CASE \E d \in Seq(Payloads) : /\ Len(d) < c0 \/ d = Start(m0, c0)
                                          /\ d2 = Append(d, <<m0, c0 + 1>>)
        <5>1. PICK d \in Seq(Payloads) : /\ Len(d) < c0 \/ d = Start(m0, c0)
                                         /\ d2 = Append(d, <<m0, c0 + 1>>)
          BY <4>3
        <5>2. CASE d = Start(m0, c0)
          <6>1. d2 = Start(m0, c0 + 1)
            BY <1>9, <5>1, <5>2, Zenon
          <6>2. c = c0 + 1
            BY <4>1
          <6> QED
            BY <2>4, <4>1, <6>1, <6>2, Zenon
        <5>3. CASE Len(d) < c0
          <6>1. Len(d2) < c
            BY <1>8, <4>1, <5>1, <5>3
          <6> QED
            BY <2>4, <4>1, <6>1
        <5> QED
          BY <5>1, <5>2, <5>3
      <4>4. ~SameStream(m0, m2) => FALSE
        BY <1>4, <2>4
      <4> QED
        BY <1>2, <1>22, <4>2, <4>3, <4>4
    <3> QED
      BY <3>1, <3>2, <3>3
  <2> QED
    BY <1>2, <1>22, <2>3, <2>4
<1>23. ASSUME NEW m \in Sendable, NEW c \in Nat, NEW c2 \in Nat, NEW i \in Nat, NEW j \in Nat,
              due2(m, c, j), due2(m, c2, i), i < j
       PROVE  c2 < c
  BY <1>1, <1>13, <1>23
<1>24. ASSUME NEW m \in Sendable, NEW c \in Nat, NEW j \in Nat, NEW d2 \in Seq(Payloads),
              keeps2(m, d2), due2(m, c, j)
       PROVE  Len(d2) <= c
  <2>1. due(m, c, j + 1) /\ j >= 1 /\ j + 1 \in Nat /\ 1 < j + 1
    BY <1>1, <1>24
  <2>2. CASE keeps(m, d2)
    BY <1>14, <2>1, <2>2
  <2>3. CASE m = m0
    <3>1. c0 < c
      BY <1>4, <1>13, <2>1, <2>3
    <3>2. CASE d2 = Start(m0, 1)
      <4>1. Len(d2) = 1
        BY <1>9, <3>2, Zenon
      <4> QED
        BY <3>1, <4>1
    <3>3. CASE \E d \in Seq(Payloads) : /\ Len(d) < c0 \/ d = Start(m0, c0)
                                        /\ d2 = Append(d, <<m0, c0 + 1>>)
      BY <1>8, <1>9, <3>1, <3>3
    <3> QED
      BY <1>2, <1>24, <2>2, <3>2, <3>3
  <2> QED
    BY <1>2, <1>24, <2>2, <2>3
<1>25. ASSUME NEW m \in Sendable, \A c, j \in Nat : ~due(m, c, j),
              \A d \in Seq(Payloads) : ~keeps(m, d)
       PROVE  /\ m # m0
              /\ \A c, j \in Nat : ~due2(m, c, j)
              /\ \A d \in Seq(Payloads) : ~keeps2(m, d)
  <2>1. m # m0
    BY <1>4, <1>25
  <2>2. ASSUME NEW c \in Nat, NEW j \in Nat, due2(m, c, j) PROVE FALSE
    <3>1. due(m, c, j + 1)
      BY <1>1, <2>2, Zenon
    <3>2. j + 1 \in Nat
      OBVIOUS
    <3> QED
      BY <1>25, <3>1, <3>2
  <2>3. ASSUME NEW d \in Seq(Payloads), keeps2(m, d) PROVE FALSE
    BY <1>2, <1>25, <2>1, <2>3
  <2> QED
    BY <2>1, <2>2, <2>3
<1>26. ASSUME NEW m \in Sendable, Given(D2, n, m)
       PROVE  Nothing(S2, B2, n, m)
  <2>1. CASE Given(D, n, m)
    <3>1. Nothing(S, B, n, m)
      BY <1>3, <2>1 DEF HandedOnce
    <3> QED
      BY <1>25, <3>1 DEF Nothing, due, due2, keeps, keeps2
  <2>2. CASE ~Given(D, n, m)
    <3>1. PICK i \in DOMAIN D2[n] : D2[n][i] = Fp!Whole(m)
      BY <1>26 DEF Given
    <3>2. D2[n][i] = Fp!Whole(m0)
      BY <1>15, <2>2, <3>1 DEF Given
    <3>3. m = m0
      BY <3>1, <3>2, WholeNames
    <3>4. r.rcv # <<>>
      <4>1. SUFFICES ASSUME r.rcv = <<>> PROVE FALSE
        OBVIOUS
      <4>2. D2[n] = D[n]
        BY <1>0, <4>1 DEF FastTypes, FastHandedOK
      <4> QED
        BY <2>2, <3>1, <4>2 DEF Given
    <3>5. c0 + 1 = Parts(m0) /\ \A d \in Seq(Payloads) : ~keeps2(m0, d)
      BY <1>16, <3>4
    <3>6. ASSUME NEW c \in Nat, NEW j \in Nat, due2(m0, c, j)
          PROVE  FALSE
      <4>1. due(m0, c, j + 1) /\ j + 1 \in Nat /\ 1 < j + 1
        BY <1>1, <3>6
      <4>2. c0 < c /\ c < Parts(m0)
        BY <1>4, <1>7, <1>13, <4>1
      <4> QED
        BY <3>5, <4>2
    <3> QED
      BY <3>3, <3>5, <3>6 DEF Nothing, due2, keeps2
  <2> QED
    BY <2>1, <2>2
<1>27. ASSUME NEW m \in Sendable, O[m] = "idle"
       PROVE  Nothing(S2, B2, n, m) /\ ~Given(D2, n, m)
  <2>1. Nothing(S, B, n, m) /\ ~Given(D, n, m)
    BY <1>3, <1>27 DEF NotYet
  <2>2. m # m0 /\ Nothing(S2, B2, n, m)
    BY <1>25, <2>1 DEF Nothing, due, due2, keeps, keeps2
  <2>3. ~Given(D2, n, m)
    <3>1. SUFFICES ASSUME NEW i \in DOMAIN D2[n], D2[n][i] = Fp!Whole(m) PROVE FALSE
      BY DEF Given
    <3>2. D2[n][i] = Fp!Whole(m0)
      BY <1>15, <2>1, <3>1 DEF Given
    <3> QED
      BY <2>2, <3>1, <3>2, WholeNames
  <2> QED
    BY <2>2, <2>3
<1>28. ASSUME Intact(lost)
       PROVE  Completed(S2, B2, n)
  <2>1. \A m \in Sendable, c, j \in Nat : due(m, c, j) /\ j <= Len(B[n]) /\ c + 1 < Parts(m)
           => \E p \in Nat : p > j /\ due(m, c + 1, p)
    BY <1>3, <1>28 DEF Completed, due
  <2>2. \A m \in Sendable, d \in Seq(Payloads) : keeps(m, d) => \E p \in Nat : due(m, Len(d), p)
    BY <1>3, <1>28 DEF Completed, due, keeps
  <2>3. ASSUME NEW m \in Sendable, NEW c \in Nat, NEW p \in Nat, p > 1, due(m, c, p)
        PROVE  p - 1 \in Nat /\ due2(m, c, p - 1)
    <3>1. p - 1 \in Nat /\ p - 1 >= 1 /\ (p - 1) + 1 = p
      BY <2>3
    <3> QED
      BY <1>1, <2>3, <3>1
  <2>4. ASSUME NEW m \in Sendable, NEW c \in Nat, NEW j \in Nat,
               due2(m, c, j), j <= Len(B2[n]), c + 1 < Parts(m)
        PROVE  \E p \in Nat : p > j /\ due2(m, c + 1, p)
    <3>1. due(m, c, j + 1) /\ j + 1 \in Nat /\ j + 1 <= Len(B[n]) /\ j >= 1
      BY <1>1, <1>5, <2>4
    <3>2. PICK p \in Nat : p > j + 1 /\ due(m, c + 1, p)
      BY <2>1, <2>4, <3>1
    <3>3. p > 1 /\ c + 1 \in Nat /\ p - 1 > j
      BY <3>1, <3>2
    <3> QED
      BY <2>3, <3>2, <3>3
  <2>5. ASSUME NEW m \in Sendable, NEW d2 \in Seq(Payloads), keeps2(m, d2)
        PROVE  \E p \in Nat : due2(m, Len(d2), p)
    <3>1. Len(d2) \in 1..(Parts(m) - 1) /\ Parts(m) \in Nat
      BY <1>10, <2>5, PartsFacts DEF keeps2
    <3>2. ASSUME NEW p \in Nat, p > 1, due(m, Len(d2), p)
          PROVE  \E q \in Nat : due2(m, Len(d2), q)
      BY <2>3, <3>1, <3>2
    <3>3. CASE keeps(m, d2) /\ ~SameStream(m0, m)
      <4>1. PICK p \in Nat : due(m, Len(d2), p)
        BY <2>2, <3>3
      <4>2. m # m0
        BY <1>4, <3>3
      <4>3. p # 1
        BY <1>6, <3>1, <4>1, <4>2 DEF due
      <4>4. p >= 1
        BY <1>7, <3>1, <4>1 DEF due
      <4> QED
        BY <3>2, <4>1, <4>3, <4>4
    <3>4. ASSUME m = m0, Len(d2) = c0 + 1
          PROVE  \E p \in Nat : due2(m, Len(d2), p)
      <4>1. c0 + 1 < Parts(m0)
        BY <3>1, <3>4
      <4>2. PICK p \in Nat : p > 1 /\ due(m0, c0 + 1, p)
        BY <1>4, <1>5, <2>1, <4>1
      <4> QED
        BY <3>2, <3>4, <4>2
    <3>5. CASE m = m0 /\ c0 = 0 /\ d2 = Start(m0, 1)
      BY <1>9, <3>4, <3>5
    <3>6. ASSUME m = m0, NEW d \in Seq(Payloads), keeps(m0, d), Len(d) < c0 \/ d = Start(m0, c0),
                 d2 = Append(d, <<m0, c0 + 1>>)
          PROVE  \E p \in Nat : due2(m, Len(d2), p)
      <4>1. Len(d) <= c0 /\ Len(d) \in Nat /\ Len(d2) = Len(d) + 1
        BY <1>8, <1>9, <3>6
      <4>2. PICK p \in Nat : due(m0, Len(d), p)
        BY <2>2, <3>6
      <4>3. Len(d) = c0
        <5>1. CASE p = 1
          BY <1>6, <4>1, <4>2, <5>1 DEF due
        <5>2. CASE p # 1
          <6>1. p > 1
            BY <1>7, <4>1, <4>2, <5>2 DEF due
          <6>2. c0 < Len(d)
            BY <1>4, <1>13, <4>1, <4>2, <6>1
          <6> QED
            BY <4>1, <6>2
        <5> QED
          BY <5>1, <5>2
      <4> QED
        BY <3>4, <3>6, <4>1, <4>3
    <3> QED
      BY <1>2, <2>5, <3>3, <3>5, <3>6
  <2> QED
    BY <2>4, <2>5 DEF Completed, due2, keeps2
<1>29. StreamOK(S2, B2, D2, O, lost, n)
  <2>1. Chained(S2, B2, n)
    BY <1>21 DEF Chained, due2
  <2>2. Continued(S2, B2, n)
    BY <1>22 DEF Continued, due2, keeps2
  <2>3. Increasing(S2, B2, n)
    BY <1>23 DEF Increasing, due2
  <2>4. Ahead(S2, B2, n)
    BY <1>24 DEF Ahead, due2, keeps2
  <2>5. HandedOnce(S2, B2, D2, n) /\ NotYet(S2, B2, D2, O, n)
    BY <1>26, <1>27 DEF HandedOnce, NotYet
  <2> QED
    BY <1>28, <2>1, <2>2, <2>3, <2>4, <2>5 DEF StreamOK
<1>30. FastHandedOK(D2[n])
  <2>1. FastHandedOK(D[n])
    BY DEF FastTypes
  <2>2. Fp!Whole(m0) \in FastHanded
    BY WholeHanded
  <2>3. D2[n] \in Seq(FastHanded)
    <3> DEFINE w == Fp!Whole(m0)
    <3>1. D[n] \in Seq(FastHanded) /\ w \in FastHanded
      BY <2>1, <2>2 DEF FastHandedOK
    <3> HIDE DEF w
    <3>2. D[n] \o <<>> \in Seq(FastHanded) /\ D[n] \o <<w>> \in Seq(FastHanded)
      BY <3>1, EntryMore
    <3>3. D2[n] = D[n] \o <<>> \/ D2[n] = D[n] \o <<w>>
      BY <1>0, <1>16, Zenon DEF w
    <3> QED
      BY <3>2, <3>3
  <2> QED
    BY <1>15, <2>1, <2>3 DEF FastHandedOK
<1> QED
  BY <1>16, <1>17, <1>29, <1>30

\* A frame lost is missing for good, and nothing else is, if all frames came before.
LEMMA LostStreams ==
    ASSUME NEW S, NEW B, NEW D, NEW O, NEW lost, NEW lost2, NEW n \in Nodes,
           FastTypes(S, B, D, O), StreamOK(S, B, D, O, lost, n), B[n] # <<>>,
           Intact(lost), ~Intact(lost2),
           NEW B2, Shifted(S, B, S, B2, n)
    PROVE  StreamOK(S, B2, D, O, lost2, n)
<1> DEFINE due(m, c, j) == Due(S, B, n, m, c, j)
           due2(m, c, j) == Due(S, B2, n, m, c, j)
           keeps(m, d) == Keeps(S, n, m, d)
<1>1. \A m \in Sendable, c, j \in Nat : due2(m, c, j) <=> j >= 1 /\ due(m, c, j + 1)
  BY DEF Shifted
<1>2. /\ Chained(S, B, n) /\ Continued(S, B, n) /\ Increasing(S, B, n) /\ Ahead(S, B, n)
      /\ HandedOnce(S, B, D, n) /\ NotYet(S, B, D, O, n) /\ Completed(S, B, n)
  BY DEF StreamOK
<1>3. Len(B[n]) \in Nat /\ 1 <= Len(B[n]) /\ 1 \in Nat
  BY DEF Shifted
<1>4. ASSUME NEW m \in Sendable, NEW c \in Nat, NEW m2 \in Sendable, NEW c2 \in Nat,
             due(m, c, 1), due(m2, c2, 1)
      PROVE  m = m2 /\ c = c2
  BY <1>3, <1>4, DueOnce
<1>5. \A m \in Sendable, c, j \in Nat : due(m, c, j) => j >= 1
  BY DueFacts
<1>6. \A m \in Sendable, d \in Seq(Payloads) : keeps(m, d) => Len(d) \in Nat /\ Len(d) >= 1
  BY PartsFacts DEF Keeps, Keepable
<1>7. \A m, m2 \in Sendable, c, c2, i, j \in Nat :
          due(m, c, j) /\ c > 0 /\ due(m2, c2, i) /\ i < j /\ SameStream(m, m2)
          => \E p \in i..(j - 1) : due(m, c - 1, p)
  BY <1>2 DEF Chained
<1>8. \A m, m2 \in Sendable, c, j \in Nat, d \in Seq(Payloads) :
          due(m, c, j) /\ c > 0 /\ keeps(m2, d) /\ SameStream(m, m2)
          => (\E p \in 1..(j - 1) : due(m, c - 1, p)) \/ (m2 = m /\ (Len(d) < c \/ d = Start(m, c)))
  BY <1>2 DEF Continued
<1>9. \A m \in Sendable, c, c2, i, j \in Nat : due(m, c, j) /\ due(m, c2, i) /\ i < j => c2 < c
  BY <1>2 DEF Increasing
<1>10. \A m \in Sendable, c, j \in Nat, d \in Seq(Payloads) : keeps(m, d) /\ due(m, c, j) => Len(d) <= c
  BY <1>2 DEF Ahead
<1>11. \A m \in Sendable, d \in Seq(Payloads) : keeps(m, d) => \E p \in Nat : due(m, Len(d), p)
  BY <1>2 DEF Completed
<1> HIDE DEF due, due2, keeps
<1>21. ASSUME NEW m \in Sendable, NEW m2 \in Sendable,
              NEW c \in Nat, NEW c2 \in Nat, NEW i \in Nat, NEW j \in Nat,
              due2(m, c, j), c > 0, due2(m2, c2, i), i < j, SameStream(m, m2)
       PROVE  \E p \in i..(j - 1) : due2(m, c - 1, p)
  <2>1. due(m, c, j + 1) /\ due(m2, c2, i + 1) /\ i >= 1
    BY <1>1, <1>21
  <2>2. PICK p \in (i + 1)..j : due(m, c - 1, p)
    <3>1. i + 1 \in Nat /\ j + 1 \in Nat /\ i + 1 < j + 1 /\ (j + 1) - 1 = j
      BY <1>21
    <3> QED
      BY <1>7, <1>21, <2>1, <3>1
  <2>3. p - 1 \in i..(j - 1) /\ p - 1 \in Nat /\ p - 1 >= 1 /\ (p - 1) + 1 = p
    BY <2>1, <2>2
  <2>4. due2(m, c - 1, p - 1)
    <3>1. c > 0
      BY <1>21
    <3>2. c - 1 \in Nat
      BY <3>1
    <3> QED
      BY <1>1, <2>2, <2>3, <3>2
  <2> QED
    BY <2>3, <2>4
<1>22. ASSUME NEW m \in Sendable, NEW m2 \in Sendable, NEW c \in Nat, NEW j \in Nat,
              NEW d \in Seq(Payloads),
              due2(m, c, j), c > 0, keeps(m2, d), SameStream(m, m2)
       PROVE  \/ \E p \in 1..(j - 1) : due2(m, c - 1, p)
              \/ m2 = m /\ (Len(d) < c \/ d = Start(m, c))
  <2>1. due(m, c, j + 1) /\ j >= 1 /\ j + 1 \in Nat /\ c - 1 \in Nat
    BY <1>1, <1>22
  <2>2. CASE m2 = m /\ (Len(d) < c \/ d = Start(m, c))
    BY <2>2
  <2>3. CASE \E p \in 1..((j + 1) - 1) : due(m, c - 1, p)
    <3>1. PICK p \in 1..j : due(m, c - 1, p)
      BY <2>1, <2>3
    <3>2. CASE p > 1
      <4>1. p - 1 \in 1..(j - 1) /\ p - 1 \in Nat /\ p - 1 >= 1 /\ (p - 1) + 1 = p
        BY <3>1, <3>2
      <4>2. due2(m, c - 1, p - 1)
        BY <1>1, <2>1, <3>1, <4>1
      <4> QED
        BY <4>1, <4>2
    <3>3. CASE p = 1
      <4>1. due(m, c - 1, 1)
        BY <3>1, <3>3
      <4>2. PICK q \in Nat : due(m2, Len(d), q)
        BY <1>11, <1>22
      <4>3. Len(d) \in Nat /\ Len(d) > 0 /\ q >= 1
        BY <1>5, <1>6, <1>22, <4>2
      <4>4. q = 1
        <5>1. SUFFICES ASSUME q # 1 PROVE FALSE
          OBVIOUS
        <5>2. 1 < q /\ SameStream(m2, m)
          BY <1>22, <4>3, <5>1 DEF SameStream
        <5>3. PICK p2 \in 1..(q - 1) : due(m2, Len(d) - 1, p2)
          BY <1>3, <1>7, <2>1, <4>1, <4>2, <4>3, <5>2
        <5>4. p2 \in Nat /\ Len(d) - 1 \in Nat
          BY <4>3, <5>3
        <5>5. Len(d) <= Len(d) - 1
          BY <1>10, <1>22, <5>3, <5>4
        <5> QED
          BY <4>3, <5>5
      <4>5. m2 = m /\ Len(d) = c - 1
        BY <1>4, <2>1, <4>1, <4>2, <4>3, <4>4
      <4> QED
        BY <2>1, <4>5
    <3> QED
      BY <3>1, <3>2, <3>3
  <2> QED
    BY <1>8, <1>22, <2>1, <2>2, <2>3
<1>23. ASSUME NEW m \in Sendable, NEW c \in Nat, NEW c2 \in Nat, NEW i \in Nat, NEW j \in Nat,
              due2(m, c, j), due2(m, c2, i), i < j
       PROVE  c2 < c
  BY <1>1, <1>9, <1>23
<1>24. ASSUME NEW m \in Sendable, NEW c \in Nat, NEW j \in Nat, NEW d \in Seq(Payloads),
              keeps(m, d), due2(m, c, j)
       PROVE  Len(d) <= c
  <2>1. due(m, c, j + 1) /\ j + 1 \in Nat
    BY <1>1, <1>24
  <2> QED
    BY <1>10, <1>24, <2>1
<1>25. ASSUME NEW m \in Sendable, Nothing(S, B, n, m)
       PROVE  Nothing(S, B2, n, m)
  <2>1. /\ \A c, j \in Nat : ~due(m, c, j)
        /\ \A d \in Seq(Payloads) : ~keeps(m, d)
    BY <1>25 DEF Nothing, due, keeps
  <2>2. ASSUME NEW c \in Nat, NEW j \in Nat, due2(m, c, j) PROVE FALSE
    <3>1. due(m, c, j + 1)
      BY <1>1, <2>2, Zenon
    <3>2. j + 1 \in Nat
      OBVIOUS
    <3> QED
      BY <2>1, <3>1, <3>2
  <2> QED
    BY <2>1, <2>2 DEF Nothing, due2, keeps
<1>31. Chained(S, B2, n)
  BY <1>21 DEF Chained, due2
<1>32. Continued(S, B2, n)
  BY <1>22 DEF Continued, due2, keeps
<1>33. Increasing(S, B2, n)
  BY <1>23 DEF Increasing, due2
<1>34. Ahead(S, B2, n)
  BY <1>24 DEF Ahead, due2, keeps
<1>35. HandedOnce(S, B2, D, n) /\ NotYet(S, B2, D, O, n)
  BY <1>2, <1>25 DEF HandedOnce, NotYet
<1> QED
  BY <1>31, <1>32, <1>33, <1>34, <1>35 DEF StreamOK

\* A node keeps no message it did not keep before, and none is idle that was not.
NoMoreKept(S, S2, n) ==
    \A m \in Sendable, d \in Seq(Payloads) : Keeps(S2, n, m, d) => Keeps(S, n, m, d)
NoMoreIdle(O, O2) == \A m \in Sendable : O2[m] = "idle" => O[m] = "idle"

\* What a node's streams are made of.
LEMMA StreamsKept ==
    ASSUME NEW S, NEW B, NEW D, NEW O, NEW lost, NEW n \in Nodes,
           StreamOK(S, B, D, O, lost, n),
           NEW S2, NEW B2, NEW D2, NEW O2, NEW lost2,
           SameDue(S, B, S2, B2, n), NoMoreKept(S, S2, n), NoMoreIdle(O, O2),
           D2[n] = D[n], Intact(lost2) => Intact(lost)
    PROVE  StreamOK(S2, B2, D2, O2, lost2, n)
<1>0. /\ Len(B2[n]) = Len(B[n])
      /\ \A m \in Sendable, c, j \in Nat : Due(S2, B2, n, m, c, j) <=> Due(S, B, n, m, c, j)
      /\ \A m \in Sendable, d \in Seq(Payloads) : Keeps(S2, n, m, d) => Keeps(S, n, m, d)
      /\ \A m \in Sendable : O2[m] = "idle" => O[m] = "idle"
  BY DEF SameDue, NoMoreKept, NoMoreIdle
<1>1. Chained(S2, B2, n)
  <2>1. SUFFICES ASSUME NEW m \in Sendable, NEW m2 \in Sendable,
                        NEW c \in Nat, NEW c2 \in Nat, NEW i \in Nat, NEW j \in Nat,
                        Due(S2, B2, n, m, c, j), c > 0, Due(S2, B2, n, m2, c2, i), i < j,
                        SameStream(m, m2)
                 PROVE  \E p \in i..(j - 1) : Due(S2, B2, n, m, c - 1, p)
    BY DEF Chained
  <2>2. Due(S, B, n, m, c, j) /\ Due(S, B, n, m2, c2, i)
    BY <1>0, <2>1
  <2>3. PICK p \in i..(j - 1) : Due(S, B, n, m, c - 1, p)
    BY <2>1, <2>2 DEF StreamOK, Chained
  <2>4. c - 1 \in Nat /\ p \in Nat
    BY <2>1, <2>3
  <2> QED
    BY <1>0, <2>3, <2>4
<1>2. Continued(S2, B2, n)
  BY <1>0 DEF StreamOK, Continued
<1>3. Increasing(S2, B2, n) /\ Ahead(S2, B2, n)
  BY <1>0 DEF StreamOK, Increasing, Ahead
<1>4. HandedOnce(S2, B2, D2, n) /\ NotYet(S2, B2, D2, O2, n)
  BY <1>0 DEF StreamOK, HandedOnce, NotYet, Nothing, Given
<1>5. Intact(lost2) => Completed(S2, B2, n)
  BY <1>0 DEF StreamOK, Completed
<1> QED
  BY <1>1, <1>2, <1>3, <1>4, <1>5 DEF StreamOK

\* What is due once a session has sent k more frames: they follow what was on its way,
\* and behind them is what the sessions send next.
AfterSend(S, B, n, m0, c0, k, stays, m, c, j) ==
    \/ j <= Len(B[n]) /\ Due(S, B, n, m, c, j)
    \/ /\ m = m0 /\ c = c0 + (j - (Len(B[n]) + 1))
       /\ \/ j \in (Len(B[n]) + 1)..(Len(B[n]) + k)
          \/ stays /\ j = Len(B[n]) + k + 1
    \/ m # m0 /\ j = Len(B[n]) + k + 1 /\ Due(S, B, n, m, c, Len(B[n]) + 1)

HasMore(more, box, m, c, k) ==
    /\ Len(more) = Len(box) + k /\ DOMAIN more = 1..(Len(box) + k)
    /\ \A j \in 1..Len(box) : more[j] = box[j]
    /\ \A j \in 1..k : more[Len(box) + j] = Part(m, c + j - 1)
FramesSent(S, B, n, m0, c0, k, stays, S2, B2) ==
    /\ \A m \in Sendable, c \in Nat :
          Sends(S2, m, c) <=> IF m = m0 THEN stays /\ c = c0 + k ELSE Sends(S, m, c)
    /\ HasMore(B2[n], B[n], m0, c0, k)

LEMMA DueSent ==
    ASSUME NEW S, NEW B, NEW D, NEW O, FastTypes(S, B, D, O), NEW n \in Nodes,
           NEW m0 \in Sendable, NEW c0 \in Nat, NEW k \in Nat, NEW stays \in BOOLEAN,
           Gets(n, m0), NEW S2, NEW B2, FramesSent(S, B, n, m0, c0, k, stays, S2, B2)
    PROVE  \A m \in Sendable, c, j \in Nat :
              Due(S2, B2, n, m, c, j) <=> AfterSend(S, B, n, m0, c0, k, stays, m, c, j)
<1> SUFFICES ASSUME NEW m \in Sendable, NEW c \in Nat, NEW j \in Nat
             PROVE  Due(S2, B2, n, m, c, j) <=> AfterSend(S, B, n, m0, c0, k, stays, m, c, j)
  OBVIOUS
<1> DEFINE L == Len(B[n])
<1>1. L \in Nat /\ DOMAIN B[n] = 1..L
  BY DEF FastTypes, FastBoxOK
<1>2. Sends(S2, m, c) <=> IF m = m0 THEN stays /\ c = c0 + k ELSE Sends(S, m, c)
  BY DEF FramesSent, HasMore
<1>0. Len(B2[n]) = L + k /\ DOMAIN B2[n] = 1..(L + k)
  BY DEF FramesSent, HasMore
<1>3. Due(S2, B2, n, m, c, j) <=>
         \/ j \in 1..(L + k) /\ B2[n][j] = Part(m, c)
         \/ j = L + k + 1 /\ Gets(n, m) /\ Sends(S2, m, c)
  BY <1>0 DEF Due
<1>4. \A i \in Nat : Due(S, B, n, m, c, i) <=>
         \/ i \in 1..L /\ B[n][i] = Part(m, c)
         \/ i = L + 1 /\ Gets(n, m) /\ Sends(S, m, c)
  BY <1>1 DEF Due
<1>5. \A i \in 1..L : B2[n][i] = B[n][i]
  BY DEF FramesSent, HasMore
<1>6. \A i \in (L + 1)..(L + k) : B2[n][i] = Part(m0, c0 + (i - (L + 1)))
  <2>1. SUFFICES ASSUME NEW i \in (L + 1)..(L + k) PROVE B2[n][i] = Part(m0, c0 + (i - (L + 1)))
    OBVIOUS
  <2>2. i - L \in 1..k /\ L + (i - L) = i /\ c0 + (i - L) - 1 = c0 + (i - (L + 1))
    BY <1>1
  <2>3. B2[n][L + (i - L)] = Part(m0, c0 + (i - L) - 1)
    BY <2>2 DEF FramesSent, HasMore
  <2> QED
    BY <2>2, <2>3
<1> HIDE DEF L
<1>7. AfterSend(S, B, n, m0, c0, k, stays, m, c, j) <=>
         (\/ j <= L /\ Due(S, B, n, m, c, j)
          \/ m = m0 /\ c = c0 + (j - (L + 1)) /\ (j \in (L + 1)..(L + k) \/ (stays /\ j = L + k + 1))
          \/ m # m0 /\ j = L + k + 1 /\ Due(S, B, n, m, c, L + 1))
  BY DEF AfterSend, L
<1>8. CASE j <= L
  <2>1. j \in 1..(L + k) <=> j \in 1..L
    BY <1>1, <1>8
  <2>2. j # L + k + 1 /\ j # L + 1 /\ j \notin (L + 1)..(L + k)
    BY <1>1, <1>8
  <2> QED
    BY ONLY <1>3, <1>4, <1>5, <1>7, <1>8, <2>1, <2>2, j \in Nat
<1>9. CASE j \in (L + 1)..(L + k)
  <2>1. j \in 1..(L + k) /\ j # L + k + 1 /\ ~(j <= L)
    BY <1>1, <1>9
  <2>2. B2[n][j] = Part(m0, c0 + (j - (L + 1))) /\ c0 + (j - (L + 1)) \in Nat
    BY <1>1, <1>6, <1>9
  <2>3. B2[n][j] = Part(m, c) <=> m = m0 /\ c = c0 + (j - (L + 1))
    BY <2>2, PartNames
  <2> QED
    BY <1>3, <1>7, <1>9, <2>1, <2>3
<1>10. CASE j = L + k + 1
  <2>1. j \notin 1..(L + k) /\ ~(j <= L) /\ j \notin (L + 1)..(L + k) /\ c0 + (j - (L + 1)) = c0 + k
    BY <1>1, <1>10
  <2>2. Due(S2, B2, n, m, c, j) <=> Gets(n, m) /\ Sends(S2, m, c)
    BY <1>3, <1>10, <2>1
  <2>3. Due(S, B, n, m, c, L + 1) <=> Gets(n, m) /\ Sends(S, m, c)
    <3>1. L + 1 \in Nat /\ L + 1 \notin 1..L
      BY <1>1
    <3> QED
      BY <1>4, <3>1
  <2>4. CASE m = m0
    BY <1>2, <1>7, <1>10, <2>1, <2>2, <2>4
  <2>5. CASE m # m0
    BY <1>2, <1>7, <1>10, <2>1, <2>2, <2>3, <2>5
  <2> QED
    BY <2>4, <2>5
<1>11. CASE ~(j <= L) /\ j \notin (L + 1)..(L + k) /\ j # L + k + 1
  <2>1. j \notin 1..(L + k)
    BY <1>1, <1>11
  <2> QED
    BY <1>3, <1>7, <1>11, <2>1
<1> QED
  BY <1>8, <1>9, <1>10, <1>11

\* Frames sent leave the streams of a node that gets them as they should be, also if
\* the session is closed; while nothing interrupts it, that is after its last frame.
LEMMA SentStreams ==
    ASSUME NEW S, NEW B, NEW D, NEW O, NEW lost, NEW n \in Nodes,
           FastTypes(S, B, D, O), StreamOK(S, B, D, O, lost, n),
           NEW m0 \in Sendable, NEW c0 \in Nat, NEW k \in Nat, NEW stays \in BOOLEAN,
           Gets(n, m0), Sends(S, m0, c0), c0 < Parts(m0),
           Intact(lost) => stays \/ c0 + k >= Parts(m0),
           NEW S2, NEW B2, NEW O2, FramesSent(S, B, n, m0, c0, k, stays, S2, B2),
           NoMoreKept(S, S2, n), NoMoreIdle(O, O2)
    PROVE  StreamOK(S2, B2, D, O2, lost, n)
<1> DEFINE L == Len(B[n])
           due(m, c, j) == Due(S, B, n, m, c, j)
           due2(m, c, j) == Due(S2, B2, n, m, c, j)
           keeps(m, d) == Keeps(S, n, m, d)
           keeps2(m, d) == Keeps(S2, n, m, d)
           last(m, c, j) == m = m0 /\ c = c0 + (j - (L + 1))
                            /\ (j \in (L + 1)..(L + k) \/ (stays /\ j = L + k + 1))
           next(m, c, j) == m # m0 /\ j = L + k + 1 /\ due(m, c, L + 1)
<1>1. L \in Nat /\ L + 1 \in Nat
  BY DEF FastTypes, FastBoxOK
<1>2. \A m \in Sendable, c, j \in Nat :
         due2(m, c, j) <=> (j <= L /\ due(m, c, j)) \/ last(m, c, j) \/ next(m, c, j)
  <2>1. \A m \in Sendable, c, j \in Nat :
           Due(S2, B2, n, m, c, j) <=> AfterSend(S, B, n, m0, c0, k, stays, m, c, j)
    BY DueSent
  <2> QED
    BY <2>1 DEF AfterSend
<1>3. \A m \in Sendable, d \in Seq(Payloads) : keeps2(m, d) => keeps(m, d)
  BY DEF NoMoreKept
<1>4. due(m0, c0, L + 1)
  BY DEF Due
<1>5. ASSUME NEW m \in Sendable, NEW c \in Nat, due(m, c, L + 1), SameStream(m, m0)
      PROVE  m = m0 /\ c = c0
  BY <1>1, <1>4, <1>5, DueOnce
<1>6. \A m \in Sendable, c, j \in Nat : due(m, c, j) => 1 <= j /\ j <= L + 1
  BY DueFacts
<1>7. /\ Chained(S, B, n) /\ Continued(S, B, n) /\ Increasing(S, B, n) /\ Ahead(S, B, n)
      /\ HandedOnce(S, B, D, n) /\ NotYet(S, B, D, O, n) /\ (Intact(lost) => Completed(S, B, n))
  BY DEF StreamOK
<1>8. \A m, m2 \in Sendable, c, c2, i, j \in Nat :
          due(m, c, j) /\ c > 0 /\ due(m2, c2, i) /\ i < j /\ SameStream(m, m2)
          => \E p \in i..(j - 1) : due(m, c - 1, p)
  BY <1>7 DEF Chained
<1>9. \A m, m2 \in Sendable, c, j \in Nat, d \in Seq(Payloads) :
          due(m, c, j) /\ c > 0 /\ keeps(m2, d) /\ SameStream(m, m2)
          => (\E p \in 1..(j - 1) : due(m, c - 1, p)) \/ (m2 = m /\ (Len(d) < c \/ d = Start(m, c)))
  BY <1>7 DEF Continued
<1>10. \A m \in Sendable, c, c2, i, j \in Nat : due(m, c, j) /\ due(m, c2, i) /\ i < j => c2 < c
  BY <1>7 DEF Increasing
<1>11. \A m \in Sendable, c, j \in Nat, d \in Seq(Payloads) : keeps(m, d) /\ due(m, c, j) => Len(d) <= c
  BY <1>7 DEF Ahead
<1>12. SameStream(m0, m0) /\ \A m, m2 : SameStream(m, m2) => SameStream(m2, m)
  BY DEF SameStream
<1> HIDE DEF L, due, due2, keeps, keeps2
<1>13. ASSUME NEW m \in Sendable, NEW c \in Nat, NEW p \in Nat, p <= L, due(m, c, p)
       PROVE  due2(m, c, p) /\ p >= 1
  BY <1>2, <1>6, <1>13
<1>14. ASSUME NEW c \in Nat, NEW j \in Nat, last(m0, c, j), j > L + 1
       PROVE  j - 1 \in Nat /\ j - 1 >= 1 /\ c > 0 /\ c - 1 \in Nat /\ last(m0, c - 1, j - 1)
  <2>1. j > L + 1 /\ c = c0 + (j - (L + 1)) /\ (j \in (L + 1)..(L + k) \/ (stays /\ j = L + k + 1))
    BY <1>14
  <2>2. j - 1 \in Nat /\ j - 1 >= 1 /\ c > 0 /\ c - 1 \in Nat
    BY ONLY <1>1, <2>1, j \in Nat, c0 \in Nat, c \in Nat
  <2>3. c - 1 = c0 + ((j - 1) - (L + 1)) /\ j - 1 \in (L + 1)..(L + k)
    BY ONLY <1>1, <2>1, j \in Nat, c0 \in Nat, c \in Nat, k \in Nat
  <2> QED
    BY <2>2, <2>3
<1>15. ASSUME NEW m \in Sendable, NEW c \in Nat, NEW j \in Nat, due2(m, c, j)
       PROVE  \/ j <= L /\ due(m, c, j)
              \/ j > L /\ due(m, c, L + 1) /\ (m # m0 => j = L + k + 1)
              \/ m = m0 /\ j > L + 1 /\ last(m0, c, j)
  <2>1. CASE last(m, c, j)
    <3>1. j >= L + 1
      BY <1>1, <2>1
    <3>2. CASE j = L + 1
      <4>1. m = m0 /\ c = c0
        BY <1>1, <2>1, <3>2
      <4> QED
        BY <1>1, <1>4, <3>2, <4>1
    <3>3. CASE j # L + 1
      BY <1>1, <2>1, <3>1, <3>3
    <3> QED
      BY <3>2, <3>3
  <2>2. CASE next(m, c, j)
    BY <1>1, <2>2
  <2> QED
    BY <1>2, <1>15, <2>1, <2>2
<1> HIDE DEF last, next
<1>21. ASSUME NEW m \in Sendable, NEW m2 \in Sendable,
              NEW c \in Nat, NEW c2 \in Nat, NEW i \in Nat, NEW j \in Nat,
              due2(m, c, j), c > 0, due2(m2, c2, i), i < j, SameStream(m, m2)
       PROVE  \E p \in i..(j - 1) : due2(m, c - 1, p)
  <2>1. c > 0 /\ i < j
    BY <1>21
  <2>2. c - 1 \in Nat
    BY <2>1
  <2>3. ASSUME NEW q \in Nat, q <= L + 1, q <= j, due(m, c, q), i < q, due(m2, c2, i)
        PROVE  \E p \in i..(j - 1) : due2(m, c - 1, p)
    <3>1. PICK p \in i..(q - 1) : due(m, c - 1, p)
      BY <1>8, <1>21, <2>3
    <3>2. p \in Nat /\ p <= L /\ p \in i..(j - 1)
      BY <1>1, <2>3, <3>1
    <3>3. due2(m, c - 1, p)
      BY <1>13, <2>2, <3>1, <3>2
    <3> QED
      BY <3>2, <3>3
  <2>4. CASE j <= L /\ due(m, c, j)
    <3>1. i <= L /\ j <= L + 1 /\ j <= j
      BY <1>1, <2>1, <2>4
    <3>2. due(m2, c2, i)
      BY <1>15, <1>21, <1>1, <3>1
    <3> QED
      BY <2>1, <2>3, <2>4, <3>1, <3>2
  <2>5. CASE j > L /\ due(m, c, L + 1) /\ (m # m0 => j = L + k + 1)
    <3>1. CASE i <= L
      <4>1. due(m2, c2, i)
        BY <1>15, <1>21, <1>1, <3>1
      <4>2. L + 1 <= L + 1 /\ L + 1 <= j /\ i < L + 1
        BY <1>1, <2>5, <3>1
      <4> QED
        BY <1>1, <2>3, <2>5, <4>1, <4>2
    <3>2. CASE ~(i <= L) /\ m = m0
      <4>1. c = c0
        BY <1>5, <1>12, <2>5, <3>2
      <4>2. last(m0, c, j) \/ next(m0, c, j)
        BY <1>1, <1>2, <1>21, <2>5, <3>2
      <4>3. j = L + 1
        BY <1>1, <4>1, <4>2 DEF last, next
      <4> QED
        BY <1>1, <2>1, <3>2, <4>3
    <3>3. CASE ~(i <= L) /\ m # m0
      <4>1. j = L + k + 1
        BY <2>5, <3>3
      <4>2. last(m2, c2, i) \/ next(m2, c2, i)
        BY <1>2, <1>21, <3>3
      <4>3. m2 = m0
        BY <2>1, <4>1, <4>2 DEF last, next
      <4> QED
        BY <1>5, <1>21, <2>5, <3>3, <4>3
    <3> QED
      BY <3>1, <3>2, <3>3
  <2>6. CASE m = m0 /\ j > L + 1 /\ last(m0, c, j)
    <3>1. j - 1 \in Nat /\ last(m0, c - 1, j - 1)
      BY <1>14, <2>6 DEF last
    <3>2. due2(m, c - 1, j - 1)
      BY <1>2, <2>2, <2>6, <3>1
    <3>3. j - 1 \in i..(j - 1)
      BY <2>1
    <3> QED
      BY <3>2, <3>3
  <2> QED
    BY <1>15, <1>21, <2>4, <2>5, <2>6
<1>22. ASSUME NEW m \in Sendable, NEW m2 \in Sendable, NEW c \in Nat, NEW j \in Nat,
              NEW d \in Seq(Payloads),
              due2(m, c, j), c > 0, keeps2(m2, d), SameStream(m, m2)
       PROVE  \/ \E p \in 1..(j - 1) : due2(m, c - 1, p)
              \/ m2 = m /\ (Len(d) < c \/ d = Start(m, c))
  <2>1. c > 0 /\ keeps(m2, d)
    BY <1>3, <1>22
  <2>2. c - 1 \in Nat
    BY <2>1
  <2>3. ASSUME NEW q \in Nat, q <= L + 1, q <= j, due(m, c, q)
        PROVE  \/ \E p \in 1..(j - 1) : due2(m, c - 1, p)
               \/ m2 = m /\ (Len(d) < c \/ d = Start(m, c))
    <3>1. CASE \E p \in 1..(q - 1) : due(m, c - 1, p)
      <4>1. PICK p \in 1..(q - 1) : due(m, c - 1, p)
        BY <3>1
      <4>2. p \in Nat /\ p <= L /\ p \in 1..(j - 1)
        BY <1>1, <2>3, <4>1
      <4>3. due2(m, c - 1, p)
        BY <1>13, <2>2, <4>1, <4>2
      <4> QED
        BY <4>2, <4>3
    <3> QED
      BY <1>9, <1>22, <2>1, <2>3, <3>1
  <2>4. CASE j <= L /\ due(m, c, j)
    <3>1. j <= L + 1 /\ j <= j
      BY <1>1, <2>4
    <3> QED
      BY <2>3, <2>4, <3>1
  <2>5. CASE j > L /\ due(m, c, L + 1)
    <3>1. L + 1 <= L + 1 /\ L + 1 <= j
      BY <1>1, <2>5
    <3> QED
      BY <1>1, <2>3, <2>5, <3>1
  <2>6. CASE m = m0 /\ j > L + 1 /\ last(m0, c, j)
    <3>1. j - 1 \in Nat /\ j - 1 >= 1 /\ last(m0, c - 1, j - 1)
      BY <1>14, <2>6 DEF last
    <3>2. due2(m, c - 1, j - 1)
      BY <1>2, <2>2, <2>6, <3>1
    <3>3. j - 1 \in 1..(j - 1)
      BY <3>1
    <3> QED
      BY <3>2, <3>3
  <2> QED
    BY <1>15, <1>22, <2>4, <2>5, <2>6
<1>23. ASSUME NEW m \in Sendable, NEW c \in Nat, NEW c2 \in Nat, NEW i \in Nat, NEW j \in Nat,
              due2(m, c, j), due2(m, c2, i), i < j
       PROVE  c2 < c
  <2>1. i < j
    BY <1>23
  <2>2. CASE j <= L /\ due(m, c, j)
    <3>1. due(m, c2, i)
      BY <1>1, <1>15, <1>23, <2>1, <2>2
    <3> QED
      BY <1>10, <2>1, <2>2, <3>1
  <2>3. CASE m # m0 /\ j > L /\ due(m, c, L + 1) /\ j = L + k + 1
    <3>1. i <= L /\ due(m, c2, i)
      <4>1. ~last(m, c2, i) /\ ~next(m, c2, i)
        BY <2>1, <2>3 DEF last, next
      <4> QED
        BY <1>2, <1>23, <4>1
    <3>2. i < L + 1
      BY <1>1, <3>1
    <3> QED
      BY <1>1, <1>10, <2>3, <3>1, <3>2
  <2>4. CASE m = m0 /\ last(m0, c, j)
    <3>1. c0 <= c /\ c = c0 + (j - (L + 1))
      BY <1>1, <2>4 DEF last
    <3>2. CASE i <= L /\ due(m, c2, i)
      <4>1. i < L + 1
        BY <1>1, <3>2
      <4>2. c2 < c0
        BY <1>1, <1>4, <1>10, <2>4, <3>2, <4>1
      <4> QED
        BY <3>1, <4>2
    <3>3. CASE last(m, c2, i)
      <4>1. c2 = c0 + (i - (L + 1))
        BY <3>3 DEF last
      <4> QED
        BY ONLY <1>1, <2>1, <3>1, <4>1, i \in Nat, j \in Nat, c0 \in Nat
    <3>4. ~next(m, c2, i)
      BY <2>4 DEF next
    <3> QED
      BY <1>2, <1>23, <3>2, <3>3, <3>4
  <2>5. CASE next(m, c, j)
    <3>1. j > L
      BY <1>1, <2>5 DEF next
    <3> QED
      BY <2>3, <2>5, <3>1 DEF next
  <2>6. CASE last(m, c, j)
    BY <2>4, <2>6 DEF last
  <2> QED
    BY <1>2, <1>23, <2>2, <2>5, <2>6
<1>24. ASSUME NEW m \in Sendable, NEW c \in Nat, NEW j \in Nat, NEW d \in Seq(Payloads),
              keeps2(m, d), due2(m, c, j)
       PROVE  Len(d) <= c
  <2>1. keeps(m, d)
    BY <1>3, <1>24
  <2>2. CASE j <= L /\ due(m, c, j)
    BY <1>11, <2>1, <2>2
  <2>3. CASE next(m, c, j)
    <3>1. due(m, c, L + 1)
      BY <2>3 DEF next
    <3> QED
      BY <1>1, <1>11, <2>1, <3>1
  <2>4. CASE last(m, c, j)
    <3>1. m = m0 /\ c0 <= c
      BY <1>1, <2>4 DEF last
    <3>2. Len(d) <= c0 /\ Len(d) \in Nat
      BY <1>1, <1>4, <1>11, <2>1, <3>1
    <3> QED
      BY <3>1, <3>2
  <2> QED
    BY <1>2, <1>24, <2>2, <2>3, <2>4
<1>25. ASSUME NEW m \in Sendable, Nothing(S, B, n, m)
       PROVE  Nothing(S2, B2, n, m)
  <2>1. /\ \A c, j \in Nat : ~due(m, c, j)
        /\ \A d \in Seq(Payloads) : ~keeps(m, d)
    BY <1>25 DEF Nothing, due, keeps
  <2>2. m # m0
    BY <1>1, <1>4, <2>1
  <2>3. ASSUME NEW c \in Nat, NEW j \in Nat, due2(m, c, j) PROVE FALSE
    <3>1. ~last(m, c, j) /\ ~next(m, c, j)
      BY <1>1, <2>1, <2>2 DEF last, next
    <3> QED
      BY <1>2, <2>1, <2>3, <3>1
  <2>4. \A d \in Seq(Payloads) : ~keeps2(m, d)
    BY <1>3, <2>1
  <2> QED
    BY <2>3, <2>4 DEF Nothing, due2, keeps2
<1>26. ASSUME Intact(lost)
       PROVE  Completed(S2, B2, n)
  <2>1. \A m \in Sendable, c, j \in Nat : due(m, c, j) /\ j <= L /\ c + 1 < Parts(m)
           => \E p \in Nat : p > j /\ due(m, c + 1, p)
    BY <1>7, <1>26 DEF Completed, due, L
  <2>2. \A m \in Sendable, d \in Seq(Payloads) : keeps(m, d) => \E p \in Nat : due(m, Len(d), p)
    BY <1>7, <1>26 DEF Completed, due, keeps
  <2>3. stays \/ c0 + k >= Parts(m0)
    BY <1>26
  <2>4. Parts(m0) \in Nat
    BY PartsFacts
  <2>5. ASSUME NEW c \in Nat, c0 <= c, c < Parts(m0), c <= c0 + k
        PROVE  \E p \in Nat : p = L + 1 + (c - c0) /\ due2(m0, c, p)
    <3> DEFINE p == L + 1 + (c - c0)
    <3>1. p \in Nat /\ c = c0 + (p - (L + 1))
      BY ONLY <1>1, c0 <= c, c \in Nat, c0 \in Nat
    <3>2. CASE c < c0 + k
      <4>1. p \in (L + 1)..(L + k)
        BY ONLY <1>1, <3>2, c0 <= c, c \in Nat, c0 \in Nat, k \in Nat
      <4> QED
        BY <1>2, <3>1, <4>1 DEF last
    <3>3. CASE c = c0 + k
      <4>1. p = L + k + 1
        BY <1>1, <3>3
      <4>2. stays
        BY <2>3, <2>4, <2>5, <3>3
      <4> QED
        BY <1>2, <3>1, <4>1, <4>2 DEF last
    <3> QED
      BY <2>5, <3>2, <3>3
  <2>6. ASSUME NEW m \in Sendable, NEW c \in Nat, NEW p \in Nat, due(m, c, p), c < Parts(m)
        PROVE  \E q \in Nat : q >= p /\ due2(m, c, q)
    <3>1. CASE p <= L
      <4>1. due2(m, c, p)
        BY <1>13, <2>6, <3>1
      <4> QED
        BY <4>1
    <3>2. CASE p = L + 1 /\ m # m0
      <4>1. L + k + 1 \in Nat /\ L + k + 1 >= p
        BY <1>1, <3>2
      <4>2. next(m, c, L + k + 1)
        BY <2>6, <3>2 DEF next
      <4> QED
        BY <1>2, <4>1, <4>2
    <3>3. CASE p = L + 1 /\ m = m0
      <4>1. c = c0
        BY <1>5, <1>12, <2>6, <3>3
      <4>2. PICK q \in Nat : q = L + 1 + (c0 - c0) /\ due2(m0, c0, q)
        <5>1. c0 <= c0 /\ c0 <= c0 + k /\ c0 < Parts(m0)
          OBVIOUS
        <5> QED
          BY <2>5, <5>1
      <4>3. q >= p
        BY <1>1, <3>3, <4>2
      <4> QED
        BY <3>3, <4>1, <4>2, <4>3
    <3>4. p <= L + 1
      BY <1>6, <2>6
    <3> QED
      BY <1>1, <3>1, <3>2, <3>3, <3>4
  <2>7. ASSUME NEW m \in Sendable, NEW c \in Nat, NEW j \in Nat,
               due2(m, c, j), j <= Len(B2[n]), c + 1 < Parts(m)
        PROVE  \E p \in Nat : p > j /\ due2(m, c + 1, p)
    <3>1. j <= L + k /\ c + 1 < Parts(m) /\ c + 1 \in Nat
      BY <2>7 DEF L, FramesSent, HasMore
    <3>2. CASE j <= L /\ due(m, c, j)
      <4>1. PICK p \in Nat : p > j /\ due(m, c + 1, p)
        BY <2>1, <3>1, <3>2
      <4>2. PICK q \in Nat : q >= p /\ due2(m, c + 1, q)
        BY <2>6, <3>1, <4>1
      <4>3. q > j
        BY <4>1, <4>2
      <4> QED
        BY <4>2, <4>3
    <3>3. CASE last(m, c, j)
      <4>1. m = m0 /\ c = c0 + (j - (L + 1)) /\ j >= L + 1
        BY <1>1, <3>3 DEF last
      <4>2. c0 <= c + 1 /\ c + 1 <= c0 + k /\ c + 1 < Parts(m0)
        BY <1>1, <3>1, <4>1
      <4>3. PICK p \in Nat : p = L + 1 + ((c + 1) - c0) /\ due2(m0, c + 1, p)
        BY <2>5, <3>1, <4>2
      <4>4. p > j
        BY ONLY <1>1, <4>1, <4>3, j \in Nat, c0 \in Nat, c \in Nat
      <4> QED
        BY <4>1, <4>3, <4>4
    <3>4. ~next(m, c, j)
      BY <1>1, <3>1 DEF next
    <3> QED
      BY <1>2, <2>7, <3>2, <3>3, <3>4
  <2>8. ASSUME NEW m \in Sendable, NEW d \in Seq(Payloads), keeps2(m, d)
        PROVE  \E p \in Nat : due2(m, Len(d), p)
    <3>1. keeps(m, d)
      BY <1>3, <2>8
    <3>2. Len(d) \in Nat /\ Len(d) < Parts(m)
      <4>1. Len(d) \in 1..(Parts(m) - 1)
        BY <3>1 DEF Keeps, Keepable, keeps
      <4>2. Parts(m) \in Nat
        BY PartsFacts
      <4> QED
        BY <4>1, <4>2
    <3>3. PICK p \in Nat : due(m, Len(d), p)
      BY <2>2, <3>1
    <3> QED
      BY <2>6, <3>2, <3>3
  <2> QED
    BY <2>7, <2>8 DEF Completed, due2, keeps2
<1>31. Chained(S2, B2, n)
  BY <1>21 DEF Chained, due2
<1>32. Continued(S2, B2, n)
  BY <1>22 DEF Continued, due2, keeps2
<1>33. Increasing(S2, B2, n)
  BY <1>23 DEF Increasing, due2
<1>34. Ahead(S2, B2, n)
  BY <1>24 DEF Ahead, due2, keeps2
<1>35. HandedOnce(S2, B2, D, n) /\ NotYet(S2, B2, D, O2, n)
  BY <1>7, <1>25 DEF HandedOnce, NotYet, NoMoreIdle
<1> QED
  BY <1>26, <1>31, <1>32, <1>33, <1>34, <1>35 DEF StreamOK

\* A message accepted is the last one of its stream, with nothing of it there before.
OneMore(S, S2, m0) ==
    \A m \in Sendable, c \in Nat : Sends(S2, m, c) <=> Sends(S, m, c) \/ (m = m0 /\ c = 0)

LEMMA AcceptedStreams ==
    ASSUME NEW S, NEW B, NEW D, NEW O, NEW lost, NEW n \in Nodes,
           FastTypes(S, B, D, O), StreamOK(S, B, D, O, lost, n),
           NEW m0 \in Sendable, O[m0] = "idle",
           NEW S2, NEW O2, O2[m0] # "idle",
           OneMore(S, S2, m0), NoMoreKept(S, S2, n), NoMoreIdle(O, O2)
    PROVE  StreamOK(S2, B, D, O2, lost, n)
<1> DEFINE L == Len(B[n])
           due(m, c, j) == Due(S, B, n, m, c, j)
           due2(m, c, j) == Due(S2, B, n, m, c, j)
           keeps(m, d) == Keeps(S, n, m, d)
           keeps2(m, d) == Keeps(S2, n, m, d)
<1>1. L \in Nat /\ L + 1 \in Nat /\ DOMAIN B[n] = 1..L
  BY DEF FastTypes, FastBoxOK
<1>2. ASSUME NEW m \in Sendable, NEW c \in Nat, NEW j \in Nat
      PROVE  /\ due(m, c, j) => due2(m, c, j)
             /\ due2(m, c, j) => due(m, c, j) \/ (m = m0 /\ c = 0 /\ j = L + 1)
  <2>1. Sends(S2, m, c) <=> Sends(S, m, c) \/ (m = m0 /\ c = 0)
    BY DEF OneMore
  <2> QED
    BY <2>1 DEF Due
<1>3. \A m \in Sendable, d \in Seq(Payloads) : keeps2(m, d) => keeps(m, d)
  BY DEF NoMoreKept
<1>4. /\ Chained(S, B, n) /\ Continued(S, B, n) /\ Increasing(S, B, n) /\ Ahead(S, B, n)
      /\ HandedOnce(S, B, D, n) /\ NotYet(S, B, D, O, n) /\ (Intact(lost) => Completed(S, B, n))
  BY DEF StreamOK
<1>5. /\ \A c, j \in Nat : ~due(m0, c, j)
      /\ \A d \in Seq(Payloads) : ~keeps(m0, d)
      /\ ~Given(D, n, m0)
  BY <1>4 DEF NotYet, Nothing
<1>6. \A m \in Sendable, c, j \in Nat : due(m, c, j) => j <= L + 1
  <2>1. \A m \in Sendable, c, j \in Nat : due(m, c, j) => j \in 1..(L + 1)
    BY DueFacts, Zenon
  <2> QED
    BY <1>1, <2>1
<1> HIDE DEF L, due, due2, keeps, keeps2
<1>21. ASSUME NEW m \in Sendable, NEW m2 \in Sendable,
              NEW c \in Nat, NEW c2 \in Nat, NEW i \in Nat, NEW j \in Nat,
              due2(m, c, j), c > 0, due2(m2, c2, i), i < j, SameStream(m, m2)
       PROVE  \E p \in i..(j - 1) : due2(m, c - 1, p)
  <2>1. c > 0 /\ i < j /\ SameStream(m, m2)
    BY <1>21
  <2>2. due(m, c, j) /\ j <= L + 1
    <3>1. c # 0
      BY <2>1
    <3>2. due(m, c, j)
      BY <1>2, <1>21, <3>1
    <3> QED
      BY <1>6, <3>2
  <2>3. due(m2, c2, i)
    <3>1. i # L + 1
      BY <1>1, <2>1, <2>2
    <3> QED
      BY <1>2, <1>21, <3>1
  <2>4. PICK p \in i..(j - 1) : due(m, c - 1, p)
    BY <1>4, <2>1, <2>2, <2>3 DEF Chained, due
  <2>5. c - 1 \in Nat /\ p \in Nat
    BY <2>1, <2>4
  <2> QED
    BY <1>2, <2>4, <2>5
<1>22. ASSUME NEW m \in Sendable, NEW m2 \in Sendable, NEW c \in Nat, NEW j \in Nat,
              NEW d \in Seq(Payloads),
              due2(m, c, j), c > 0, keeps2(m2, d), SameStream(m, m2)
       PROVE  \/ \E p \in 1..(j - 1) : due2(m, c - 1, p)
              \/ m2 = m /\ (Len(d) < c \/ d = Start(m, c))
  <2>1. c > 0 /\ keeps(m2, d) /\ SameStream(m, m2)
    BY <1>3, <1>22
  <2>2. due(m, c, j)
    <3>1. c # 0
      BY <2>1
    <3> QED
      BY <1>2, <1>22, <3>1
  <2>3. \/ \E p \in 1..(j - 1) : due(m, c - 1, p)
        \/ m2 = m /\ (Len(d) < c \/ d = Start(m, c))
    BY <1>4, <2>1, <2>2 DEF Continued, due, keeps
  <2>4. ASSUME NEW p \in 1..(j - 1), due(m, c - 1, p)
        PROVE  due2(m, c - 1, p)
    <3>1. c - 1 \in Nat /\ p \in Nat
      BY <2>1
    <3> QED
      BY <1>2, <2>4, <3>1
  <2> QED
    BY <2>3, <2>4
<1>23. ASSUME NEW m \in Sendable, NEW c \in Nat, NEW c2 \in Nat, NEW i \in Nat, NEW j \in Nat,
              due2(m, c, j), due2(m, c2, i), i < j
       PROVE  c2 < c
  <2>1. CASE m = m0
    <3>1. j = L + 1 /\ i = L + 1
      BY <1>2, <1>5, <1>23, <2>1
    <3> QED
      BY <1>1, <1>23, <3>1
  <2>2. CASE m # m0
    <3>1. due(m, c, j) /\ due(m, c2, i) /\ i < j
      BY <1>2, <1>23, <2>2
    <3> QED
      BY <1>4, <3>1 DEF Increasing, due
  <2> QED
    BY <2>1, <2>2
<1>24. ASSUME NEW m \in Sendable, NEW c \in Nat, NEW j \in Nat, NEW d \in Seq(Payloads),
              keeps2(m, d), due2(m, c, j)
       PROVE  Len(d) <= c
  <2>1. keeps(m, d) /\ m # m0
    BY <1>3, <1>5, <1>24
  <2>2. due(m, c, j)
    BY <1>2, <1>24, <2>1
  <2> QED
    BY <1>4, <2>1, <2>2 DEF Ahead, due, keeps
<1>25. ASSUME NEW m \in Sendable, m # m0, Nothing(S, B, n, m)
       PROVE  Nothing(S2, B, n, m)
  <2>1. /\ \A c, j \in Nat : ~due(m, c, j)
        /\ \A d \in Seq(Payloads) : ~keeps(m, d)
    BY <1>25 DEF Nothing, due, keeps
  <2>2. ASSUME NEW c \in Nat, NEW j \in Nat, due2(m, c, j) PROVE FALSE
    BY <1>2, <1>25, <2>1, <2>2
  <2>3. \A d \in Seq(Payloads) : ~keeps2(m, d)
    BY <1>3, <2>1
  <2> QED
    BY <2>2, <2>3 DEF Nothing, due2, keeps2
<1>26. ASSUME Intact(lost)
       PROVE  Completed(S2, B, n)
  <2>1. Completed(S, B, n)
    BY <1>4, <1>26
  <2>2. ASSUME NEW m \in Sendable, NEW c \in Nat, NEW j \in Nat,
               due2(m, c, j), j <= L, c + 1 < Parts(m)
        PROVE  \E p \in Nat : p > j /\ due2(m, c + 1, p)
    <3>1. j # L + 1
      BY <1>1, <2>2
    <3>2. due(m, c, j)
      BY <1>2, <2>2, <3>1
    <3>3. PICK p \in Nat : p > j /\ due(m, c + 1, p)
      BY <2>1, <2>2, <3>2 DEF Completed, due, L
    <3>4. c + 1 \in Nat
      OBVIOUS
    <3> QED
      BY <1>2, <3>3, <3>4
  <2>3. ASSUME NEW m \in Sendable, NEW d \in Seq(Payloads), keeps2(m, d)
        PROVE  \E p \in Nat : due2(m, Len(d), p)
    <3>1. PICK p \in Nat : due(m, Len(d), p)
      BY <1>3, <2>1, <2>3 DEF Completed, due, keeps
    <3>2. Len(d) \in Nat
      OBVIOUS
    <3> QED
      BY <1>2, <3>1, <3>2
  <2> QED
    BY <2>2, <2>3 DEF Completed, due2, keeps2, L
<1>31. Chained(S2, B, n)
  BY <1>21 DEF Chained, due2
<1>32. Continued(S2, B, n)
  BY <1>22 DEF Continued, due2, keeps2
<1>33. Increasing(S2, B, n)
  BY <1>23 DEF Increasing, due2
<1>34. Ahead(S2, B, n)
  BY <1>24 DEF Ahead, due2, keeps2
<1>35. HandedOnce(S2, B, D, n) /\ NotYet(S2, B, D, O2, n)
  BY <1>4, <1>5, <1>25 DEF HandedOnce, NotYet, NoMoreIdle
<1> QED
  BY <1>26, <1>31, <1>32, <1>33, <1>34, <1>35 DEF StreamOK

--------------------------------------------------------------------------------
\* Steps

\* Two lists in one.
LEMMA Joined ==
    ASSUME NEW X, NEW s \in Seq(X), NEW t \in Seq(X)
    PROVE  /\ s \o t \in Seq(X) /\ Len(s \o t) = Len(s) + Len(t)
           /\ DOMAIN (s \o t) = 1..(Len(s) + Len(t))
           /\ \A j \in 1..Len(s) : (s \o t)[j] = s[j]
           /\ \A j \in 1..Len(t) : (s \o t)[Len(s) + j] = t[j]
<1>1. s \o t \in Seq(X) /\ Len(s \o t) = Len(s) + Len(t) /\ Len(s) \in Nat /\ Len(t) \in Nat
  OBVIOUS
<1>2. DOMAIN (s \o t) = 1..(Len(s) + Len(t))
  BY <1>1
<1>3. \A j \in 1..Len(s) : (s \o t)[j] = s[j]
  OBVIOUS
<1>4. \A j \in 1..Len(t) : (s \o t)[Len(s) + j] = t[j]
  OBVIOUS
<1> QED
  BY <1>1, <1>2, <1>3, <1>4

\* The next k frames of a message after c, and a node's frames with them.
NextParts(m, c, k) == [j \in 1..k |-> Part(m, c + j - 1)]

LEMMA MoreFrames ==
    ASSUME NEW n, NEW box, FastBoxOK(n, box), NEW m \in Sendable, Gets(n, m),
           NEW c \in Nat, NEW k \in Nat, c + k <= Parts(m)
    PROVE  /\ FastBoxOK(n, box \o NextParts(m, c, k))
           /\ HasMore(box \o NextParts(m, c, k), box, m, c, k)
<1> DEFINE next == NextParts(m, c, k)
           more == box \o next
<1>1. box \in Seq(FastFrame) /\ Len(box) \in Nat /\ DOMAIN box = 1..Len(box)
  BY DEF FastBoxOK
<1>2. \A j \in 1..k : c + j - 1 \in Nat /\ c + j - 1 < Parts(m)
  BY PartsFacts
<1>3. \A j \in 1..k : Part(m, c + j - 1) \in FastFrame
  <2>1. <<>> \in Seq(Payloads)
    OBVIOUS
  <2> QED
    BY <1>2, <2>1, Streams
<1>4. next \in Seq(FastFrame) /\ Len(next) = k /\ \A j \in 1..k : next[j] = Part(m, c + j - 1)
  BY <1>3 DEF NextParts
<1> HIDE DEF next, more
<1>5. more = box \o next
  BY DEF more
<1>6. /\ box \o next \in Seq(FastFrame) /\ Len(box \o next) = Len(box) + Len(next)
      /\ DOMAIN (box \o next) = 1..(Len(box) + Len(next))
      /\ \A j \in 1..Len(box) : (box \o next)[j] = box[j]
      /\ \A j \in 1..Len(next) : (box \o next)[Len(box) + j] = next[j]
  <2>1. box \in Seq(FastFrame) /\ next \in Seq(FastFrame)
    BY <1>1, <1>4
  <2> QED
    BY ONLY <2>1, Joined
<1>7. /\ more \in Seq(FastFrame) /\ Len(more) = Len(box) + k /\ DOMAIN more = 1..(Len(box) + k)
      /\ \A j \in 1..Len(box) : more[j] = box[j]
      /\ \A j \in 1..k : more[Len(box) + j] = next[j]
  BY <1>4, <1>5, <1>6, Zenon
<1>8. \A j \in DOMAIN more : j \in 1..Len(box) \/ \E d \in 1..k : j = Len(box) + d
  <2>1. SUFFICES ASSUME NEW j \in 1..(Len(box) + k), j \notin 1..Len(box)
                 PROVE  \E d \in 1..k : j = Len(box) + d
    BY <1>7
  <2>2. j - Len(box) \in 1..k /\ j = Len(box) + (j - Len(box))
    BY <1>1, <2>1
  <2> QED
    BY <2>2
<1>9. \A j \in DOMAIN more :
         \E m2 \in Sendable, c2 \in Nat : Gets(n, m2) /\ c2 < Parts(m2) /\ more[j] = Part(m2, c2)
  <2>1. SUFFICES ASSUME NEW j \in DOMAIN more
                 PROVE  \E m2 \in Sendable, c2 \in Nat :
                           Gets(n, m2) /\ c2 < Parts(m2) /\ more[j] = Part(m2, c2)
    OBVIOUS
  <2>2. CASE j \in 1..Len(box)
    BY <1>1, <1>7, <2>2 DEF FastBoxOK
  <2>3. CASE \E d \in 1..k : j = Len(box) + d
    <3>1. PICK d \in 1..k : j = Len(box) + d
      BY <2>3
    <3>2. more[j] = Part(m, c + d - 1)
      BY <1>4, <1>7, <3>1
    <3> QED
      BY <1>2, <3>2
  <2> QED
    BY <1>8, <2>2, <2>3
<1> QED
  <2>1. FastBoxOK(n, more) /\ HasMore(more, box, m, c, k)
    BY ONLY <1>4, <1>7, <1>9 DEF FastBoxOK, HasMore
  <2> QED
    BY <2>1, Zenon DEF more, next

\* Every node the message is meant for gets the frames.
SentTo(B, m, c, k, B2) ==
    /\ DOMAIN B2 = Nodes
    /\ \A n \in Nodes : B2[n] = IF Gets(n, m) THEN B[n] \o NextParts(m, c, k) ELSE B[n]

\* A session sends frames, or is closed; then its outcome is told.
SessionSent(S, O, lost, i, m, c, k, stays, S2, O2) ==
    /\ i \in DOMAIN S[From[m]] /\ S[From[m]][i] = Outgoing(m, c)
    /\ c < Parts(m) /\ c + k <= Parts(m)
    /\ Intact(lost) => stays \/ c + k >= Parts(m)
    /\ S2 = [S EXCEPT ![From[m]] = IF stays THEN [S[From[m]] EXCEPT ![i] = Outgoing(m, c + k)]
                                   ELSE RemoveAt(S[From[m]], i)]
    /\ stays => c + k < Parts(m) /\ O2 = O
    /\ ~stays => \E v \in {"success", "failed"} : O2 = [O EXCEPT ![m] = v]

LEMMA SentStep ==
    ASSUME NEW S, NEW B, NEW D, NEW O, NEW lost, FastStateOK(S, B, D, O, lost),
           NEW m0 \in Sendable, NEW c0 \in Nat, NEW k \in Nat, NEW i,
           NEW stays \in BOOLEAN, NEW S2, NEW B2, NEW O2,
           SessionSent(S, O, lost, i, m0, c0, k, stays, S2, O2),
           SentTo(B, m0, c0, k, B2)
    PROVE  FastStateOK(S2, B2, D, O2, lost)
<1> SUFFICES
      ASSUME i \in DOMAIN S[From[m0]], S[From[m0]][i] = Outgoing(m0, c0),
             c0 < Parts(m0), c0 + k <= Parts(m0),
             Intact(lost) => stays \/ c0 + k >= Parts(m0),
             S2 = [S EXCEPT ![From[m0]] = IF stays THEN [S[From[m0]] EXCEPT ![i] = Outgoing(m0, c0 + k)]
                                          ELSE RemoveAt(S[From[m0]], i)],
             stays => c0 + k < Parts(m0) /\ O2 = O,
             ~stays => \E v \in {"success", "failed"} : O2 = [O EXCEPT ![m0] = v]
      PROVE  FastStateOK(S2, B2, D, O2, lost)
  BY DEF SessionSent
<1> DEFINE a == From[m0]
           ss == S[a]
           ss2 == IF stays THEN [ss EXCEPT ![i] = Outgoing(m0, c0 + k)] ELSE RemoveAt(ss, i)
<1>1. /\ FastTypes(S, B, D, O) /\ SentPending(S, O)
      /\ \A n \in Nodes : StreamOK(S, B, D, O, lost, n)
  BY DEF FastStateOK
<1>2. /\ a \in Nodes /\ m0 \in FastMessages /\ ~Gets(a, m0)
  BY SendableFacts
<1>3. DOMAIN S = Nodes /\ DOMAIN B = Nodes /\ FastSessionsOK(a, ss)
  BY <1>1, <1>2 DEF FastTypes
<1>4. S2[a] = ss2 /\ DOMAIN S2 = Nodes /\ \A n \in Nodes \ {a} : S2[n] = S[n]
  BY <1>2, <1>3
<1>5. ss \in Seq(FastSession) /\ i \in DOMAIN ss /\ ss[i] = Outgoing(m0, c0)
  BY <1>3 DEF FastSessionsOK
<1> HIDE DEF a, ss, ss2
<1>6. \A m, d, m3, c3 : Incoming(m, d) # Outgoing(m3, c3)
  BY DEF Incoming, Outgoing
<1>7. \A m \in Sendable, c \in Nat : Outgoing(m, c) = Outgoing(m0, c0) => m = m0 /\ c = c0
  BY OutgoingNames
<1>8. c0 + k \in Nat /\ \A m \in Sendable, c \in Nat : Outgoing(m, c) = Outgoing(m0, c0 + k) => m = m0 /\ c = c0 + k
  <2>1. c0 + k \in Nat
    OBVIOUS
  <2> QED
    BY <2>1, OutgoingNames
<1>9. \A k1 \in DOMAIN ss, m \in Sendable, c \in Nat : ss[k1] = Outgoing(m, c) /\ m = m0 => k1 = i
  <2>1. SUFFICES ASSUME NEW k1 \in DOMAIN ss, NEW c \in Nat, ss[k1] = Outgoing(m0, c) PROVE k1 = i
    OBVIOUS
  <2>2. ss[k1].src = ss[i].src /\ ss[k1].dst = ss[i].dst /\ ss[k1].pgn = ss[i].pgn
    BY <1>5, <2>1 DEF Outgoing
  <2> QED
    BY <1>3, <1>5, <2>2 DEF FastSessionsOK
<1>10. /\ FastSessionsOK(a, ss2)
       /\ \A m \in Sendable, c \in Nat :
             SendsIn(ss2, m, c) <=> IF m = m0 THEN stays /\ c = c0 + k ELSE SendsIn(ss, m, c)
       /\ \A m \in Sendable, d \in Seq(Payloads) : KeepsIn(ss2, m, d) => KeepsIn(ss, m, d)
  <2>1. CASE stays
    <3> DEFINE s == Outgoing(m0, c0 + k)
    <3>1. ss2 = [ss EXCEPT ![i] = s]
      BY <2>1 DEF ss2
    <3>2. DOMAIN ss2 = DOMAIN ss /\ \A j \in DOMAIN ss : ss2[j] = IF j = i THEN s ELSE ss[j]
      BY <1>5, <3>1
    <3>3. FastSessionsOK(a, ss2)
      <4>1. <<>> \in Seq(Payloads)
        OBVIOUS
      <4>2. s \in FastSession /\ OfStream(s, m0) /\ OfStream(ss[i], m0)
        <5>1. s \in FastSession /\ OfStream(s, m0)
          BY <1>8, <4>1, Streams
        <5>2. OfStream(ss[i], m0)
          BY <1>5 DEF OfStream, Outgoing
        <5> QED
          BY <5>1, <5>2
      <4>3. Sending(a, s)
        BY <1>8, <2>1 DEF Sending, a
      <4> HIDE DEF s
      <4> QED
        BY <1>3, <1>5, <3>1, <4>2, <4>3, SessionReplaced, Zenon
    <3>4. ASSUME NEW m \in Sendable, NEW c \in Nat
          PROVE  SendsIn(ss2, m, c) <=> IF m = m0 THEN c = c0 + k ELSE SendsIn(ss, m, c)
      <4>1. ASSUME SendsIn(ss2, m, c) PROVE IF m = m0 THEN c = c0 + k ELSE SendsIn(ss, m, c)
        <5>1. PICK j \in DOMAIN ss : ss2[j] = Outgoing(m, c)
          BY <3>2, <4>1 DEF SendsIn
        <5>2. CASE j = i
          BY <1>8, <3>2, <5>1, <5>2
        <5>3. CASE j # i
          <6>1. ss[j] = Outgoing(m, c)
            BY <3>2, <5>1, <5>3
          <6>2. m # m0
            BY <1>9, <5>3, <6>1
          <6> QED
            BY <6>1, <6>2 DEF SendsIn
        <5> QED
          BY <5>2, <5>3
      <4>2. ASSUME m = m0, c = c0 + k PROVE SendsIn(ss2, m, c)
        BY <1>5, <3>2, <4>2 DEF SendsIn
      <4>3. ASSUME m # m0, SendsIn(ss, m, c) PROVE SendsIn(ss2, m, c)
        <5>1. PICK j \in DOMAIN ss : ss[j] = Outgoing(m, c)
          BY <4>3 DEF SendsIn
        <5>2. j # i
          BY <1>5, <1>7, <4>3, <5>1
        <5> QED
          BY <3>2, <5>1, <5>2 DEF SendsIn
      <4> QED
        BY <4>1, <4>2, <4>3
    <3>5. \A m \in Sendable, d \in Seq(Payloads) : KeepsIn(ss2, m, d) => KeepsIn(ss, m, d)
      BY <1>6, <3>2 DEF KeepsIn
    <3> QED
      BY <2>1, <3>3, <3>4, <3>5
  <2>2. CASE ~stays
    <3>1. ss2 = RemoveAt(ss, i)
      BY <2>2 DEF ss2
    <3>2. FastSessionsOK(a, ss2)
      BY <1>3, <1>5, <3>1, SessionErased, Zenon
    <3>3. /\ \A j \in DOMAIN ss2 : \E k1 \in DOMAIN ss : k1 # i /\ ss2[j] = ss[k1]
          /\ \A k1 \in DOMAIN ss : k1 # i => \E j \in DOMAIN ss2 : ss2[j] = ss[k1]
      BY <1>5, <3>1, RemovedEntries
    <3>4. ASSUME NEW m \in Sendable, NEW c \in Nat
          PROVE  SendsIn(ss2, m, c) <=> m # m0 /\ SendsIn(ss, m, c)
      <4>1. ASSUME SendsIn(ss2, m, c) PROVE m # m0 /\ SendsIn(ss, m, c)
        <5>1. PICK k1 \in DOMAIN ss : k1 # i /\ ss[k1] = Outgoing(m, c)
          BY <3>3, <4>1 DEF SendsIn
        <5> QED
          BY <1>9, <5>1 DEF SendsIn
      <4>2. ASSUME m # m0, SendsIn(ss, m, c) PROVE SendsIn(ss2, m, c)
        <5>1. PICK k1 \in DOMAIN ss : ss[k1] = Outgoing(m, c)
          BY <4>2 DEF SendsIn
        <5>2. k1 # i
          BY <1>5, <1>7, <4>2, <5>1
        <5>3. PICK j \in DOMAIN ss2 : ss2[j] = ss[k1]
          BY <3>3, <5>2
        <5> QED
          BY <5>1, <5>3 DEF SendsIn
      <4> QED
        BY <4>1, <4>2
    <3>5. \A m \in Sendable, d \in Seq(Payloads) : KeepsIn(ss2, m, d) => KeepsIn(ss, m, d)
      BY <3>3 DEF KeepsIn
    <3> QED
      BY <2>2, <3>2, <3>4, <3>5
  <2> QED
    BY <2>1, <2>2
<1>11. \A m \in Sendable, c \in Nat :
          Sends(S2, m, c) <=> IF m = m0 THEN stays /\ c = c0 + k ELSE Sends(S, m, c)
  <2>1. SUFFICES ASSUME NEW m \in Sendable, NEW c \in Nat
                 PROVE  Sends(S2, m, c) <=> IF m = m0 THEN stays /\ c = c0 + k ELSE Sends(S, m, c)
    OBVIOUS
  <2>2. From[m] \in Nodes
    BY SendableFacts
  <2>3. /\ Sends(S2, m, c) <=> SendsIn(S2[From[m]], m, c)
        /\ Sends(S, m, c) <=> SendsIn(S[From[m]], m, c)
    BY DEF Sends, SendsIn
  <2>4. CASE From[m] = a
    <3>1. S2[From[m]] = ss2 /\ S[From[m]] = ss
      BY <1>4, <2>4 DEF ss
    <3> QED
      BY <1>10, <2>3, <3>1
  <2>5. CASE From[m] # a
    <3>1. S2[From[m]] = S[From[m]] /\ m # m0
      BY <1>4, <2>2, <2>5 DEF a
    <3> QED
      BY <2>3, <3>1
  <2> QED
    BY <2>4, <2>5
<1>12. \A n \in Nodes, m \in Sendable, d \in Seq(Payloads) : Keeps(S2, n, m, d) => Keeps(S, n, m, d)
  <2>1. SUFFICES ASSUME NEW n \in Nodes, NEW m \in Sendable, NEW d \in Seq(Payloads), Keeps(S2, n, m, d)
                 PROVE  Keeps(S, n, m, d)
    OBVIOUS
  <2>2. KeepsIn(S2[n], m, d)
    BY <2>1 DEF Keeps, KeepsIn
  <2>3. KeepsIn(S[n], m, d)
    BY <1>4, <1>10, <2>2 DEF ss
  <2> QED
    BY <2>3 DEF Keeps, KeepsIn
<1>13. O \in [FastMessages -> {"idle", "pending", "success", "failed"}] /\ O[m0] = "pending"
  <2>1. Sends(S, m0, c0)
    BY <1>5 DEF Sends, ss, a
  <2> QED
    BY <1>1, <2>1 DEF FastTypes, SentPending
<1>14. /\ O2 \in [FastMessages -> {"idle", "pending", "success", "failed"}]
       /\ \A m \in Sendable : O2[m] = "idle" => O[m] = "idle"
       /\ \A m \in Sendable : m # m0 => O2[m] = O[m]
       /\ stays => O2 = O
  <2>1. CASE stays
    BY <1>13, <2>1
  <2>2. CASE ~stays
    <3>1. PICK v \in {"success", "failed"} : O2 = [O EXCEPT ![m0] = v]
      BY <2>2
    <3>2. \A m \in Sendable : m \in FastMessages
      BY SendableFacts
    <3>3. v \in {"idle", "pending", "success", "failed"} /\ v # "idle"
      OBVIOUS
    <3> QED
      BY <1>2, <1>13, <2>2, <3>1, <3>2, <3>3
  <2> QED
    BY <2>1, <2>2
<1>15. DOMAIN B2 = Nodes
  BY DEF SentTo
<1>16. ASSUME NEW n \in Nodes, Gets(n, m0)
       PROVE  /\ FastBoxOK(n, B2[n]) /\ StreamOK(S2, B2, D, O2, lost, n)
  <2>1. FastBoxOK(n, B[n])
    BY <1>1 DEF FastTypes
  <2>2. B2[n] = B[n] \o NextParts(m0, c0, k)
    BY <1>16 DEF SentTo
  <2>3. FastBoxOK(n, B2[n]) /\ HasMore(B2[n], B[n], m0, c0, k)
    <3>1. /\ FastBoxOK(n, B[n]) /\ m0 \in Sendable /\ Gets(n, m0) /\ c0 \in Nat /\ k \in Nat
          /\ c0 + k <= Parts(m0)
      BY <1>16, <2>1
    <3>2. /\ FastBoxOK(n, B[n] \o NextParts(m0, c0, k))
          /\ HasMore(B[n] \o NextParts(m0, c0, k), B[n], m0, c0, k)
      BY ONLY <3>1, MoreFrames
    <3> QED
      BY <2>2, <3>2
  <2>4. FramesSent(S, B, n, m0, c0, k, stays, S2, B2)
    BY <1>11, <2>3 DEF FramesSent
  <2>5. Sends(S, m0, c0)
    BY <1>5 DEF Sends, ss, a
  <2>6. StreamOK(S, B, D, O, lost, n)
    BY <1>1
  <2>7. StreamOK(S2, B2, D, O2, lost, n)
    <3>1. NoMoreKept(S, S2, n) /\ NoMoreIdle(O, O2)
      BY <1>12, <1>14 DEF NoMoreKept, NoMoreIdle
    <3> QED
      BY <1>1, <1>16, <2>4, <2>5, <2>6, <3>1, SentStreams
  <2> QED
    BY <2>3, <2>7
<1>17. ASSUME NEW n \in Nodes, ~Gets(n, m0)
       PROVE  /\ FastBoxOK(n, B2[n]) /\ StreamOK(S2, B2, D, O2, lost, n)
  <2>1. B2[n] = B[n]
    BY <1>17 DEF SentTo
  <2>2. \A m \in Sendable, c, j \in Nat : Due(S2, B2, n, m, c, j) <=> Due(S, B, n, m, c, j)
    BY <1>11, <1>17, <2>1 DEF Due
  <2>3. StreamOK(S2, B2, D, O2, lost, n)
    <3>1. StreamOK(S, B, D, O, lost, n)
      BY <1>1
    <3>2. NoMoreKept(S, S2, n) /\ NoMoreIdle(O, O2) /\ SameDue(S, B, S2, B2, n)
      BY <1>12, <1>14, <2>1, <2>2 DEF NoMoreKept, NoMoreIdle, SameDue
    <3> QED
      BY <3>1, <3>2, StreamsKept
  <2> QED
    BY <1>1, <2>1, <2>3 DEF FastTypes
<1>18. FastTypes(S2, B2, D, O2)
  <2>1. \A n \in Nodes : FastSessionsOK(n, S2[n])
    BY <1>1, <1>4, <1>10 DEF FastTypes
  <2> QED
    BY <1>1, <1>4, <1>14, <1>15, <1>16, <1>17, <2>1 DEF FastTypes
<1>19. SentPending(S2, O2)
  BY <1>1, <1>11, <1>13, <1>14 DEF SentPending
<1> QED
  BY <1>16, <1>17, <1>18, <1>19 DEF FastStateOK

\* The first frame on its way to a node is received.
FrameTaken(S, B, D, n, S2, B2, D2) ==
    /\ B[n] # <<>> /\ B2 = [B EXCEPT ![n] = Tail(B[n])]
    /\ \E r \in {Fp!process_message(S[n], Head(B[n]))} :
          S2 = [S EXCEPT ![n] = r.ss] /\ D2 = [D EXCEPT ![n] = D[n] \o r.rcv]

LEMMA ReceivedStep ==
    ASSUME NEW S, NEW B, NEW D, NEW O, NEW lost, FastStateOK(S, B, D, O, lost),
           NEW n \in Nodes, NEW S2, NEW B2, NEW D2, FrameTaken(S, B, D, n, S2, B2, D2)
    PROVE  /\ FastStateOK(S2, B2, D2, O, lost)
           /\ \/ \A k \in Nodes : D2[k] = D[k]
              \/ \E m \in Sendable : /\ Gets(n, m) /\ O[m] # "idle" /\ ~Given(D, n, m)
                                     /\ D2 = [D EXCEPT ![n] = Append(D[n], Fp!Whole(m))]
<1>0. PICK r : /\ r = Fp!process_message(S[n], Head(B[n])) /\ B[n] # <<>>
               /\ S2 = [S EXCEPT ![n] = r.ss] /\ B2 = [B EXCEPT ![n] = Tail(B[n])]
               /\ D2 = [D EXCEPT ![n] = D[n] \o r.rcv]
  BY DEF FrameTaken
<1>1. /\ FastTypes(S, B, D, O) /\ SentPending(S, O)
      /\ \A k \in Nodes : StreamOK(S, B, D, O, lost, k)
  BY DEF FastStateOK
<1>2. /\ DOMAIN S = Nodes /\ DOMAIN B = Nodes /\ DOMAIN D = Nodes
      /\ FastSessionsOK(n, S[n]) /\ FastBoxOK(n, B[n]) /\ FastHandedOK(D[n])
  BY <1>1 DEF FastTypes
<1>3. /\ S2[n] = r.ss /\ B2[n] = Tail(B[n]) /\ D2[n] = D[n] \o r.rcv
      /\ DOMAIN S2 = Nodes /\ DOMAIN B2 = Nodes /\ DOMAIN D2 = Nodes
      /\ \A k \in Nodes \ {n} : S2[k] = S[k] /\ B2[k] = B[k] /\ D2[k] = D[k]
  BY <1>0, <1>2
<1>4. B[n] \in Seq(FastFrame) /\ 1 \in DOMAIN B[n] /\ Head(B[n]) = B[n][1]
  BY <1>0, <1>2 DEF FastBoxOK
<1>5. PICK m0 \in Sendable, c0 \in Nat : Gets(n, m0) /\ c0 < Parts(m0) /\ B[n][1] = Part(m0, c0)
  BY <1>2, <1>4 DEF FastBoxOK
<1>6. Due(S, B, n, m0, c0, 1)
  BY <1>4, <1>5 DEF Due
<1>7. AfterFrame(n, S[n], m0, c0, r)
  <2>1. \A m2 \in Sendable, d \in Seq(Payloads) :
           c0 > 0 /\ KeepsIn(S[n], m2, d) /\ SameStream(m0, m2)
           => m2 = m0 /\ (Len(d) < c0 \/ d = Start(m0, c0))
    <3>1. SUFFICES ASSUME NEW m2 \in Sendable, NEW d \in Seq(Payloads),
                          c0 > 0, KeepsIn(S[n], m2, d), SameStream(m0, m2)
                   PROVE  m2 = m0 /\ (Len(d) < c0 \/ d = Start(m0, c0))
      OBVIOUS
    <3>2. Keeps(S, n, m2, d) /\ Continued(S, B, n) /\ 1 \in Nat
      BY <1>1, <3>1 DEF Keeps, KeepsIn, StreamOK
    <3>3. \/ \E p \in 1..(1 - 1) : Due(S, B, n, m0, c0 - 1, p)
          \/ m2 = m0 /\ (Len(d) < c0 \/ d = Start(m0, c0))
      BY <1>6, <3>1, <3>2 DEF Continued
    <3> QED
      BY <3>3
  <2>2. Handled(S[n], m0, c0, Fp!process_message(S[n], Part(m0, c0)))
    BY <1>2, <1>5, <2>1, ProcessFrame
  <2>3. Handled(S[n], m0, c0, r)
    BY <1>0, <1>4, <1>5, <2>2, Zenon
  <2> QED
    BY <1>2, <1>5, <2>3, HandledKeeps
<1>8. \A m \in Sendable, c \in Nat : Sends(S2, m, c) <=> Sends(S, m, c)
  <2>1. SUFFICES ASSUME NEW m \in Sendable, NEW c \in Nat
                 PROVE  Sends(S2, m, c) <=> Sends(S, m, c)
    OBVIOUS
  <2>2. From[m] \in Nodes
    BY SendableFacts
  <2>3. /\ Sends(S2, m, c) <=> SendsIn(S2[From[m]], m, c)
        /\ Sends(S, m, c) <=> SendsIn(S[From[m]], m, c)
    BY DEF Sends, SendsIn
  <2>4. CASE From[m] = n
    <3>1. S2[From[m]] = r.ss /\ S[From[m]] = S[n]
      BY <1>3, <2>4
    <3> QED
      BY <1>7, <2>3, <3>1 DEF AfterFrame
  <2>5. CASE From[m] # n
    <3>1. S2[From[m]] = S[From[m]]
      BY <1>3, <2>2, <2>5
    <3> QED
      BY <2>3, <3>1
  <2> QED
    BY <2>4, <2>5
<1>9. /\ Shifted(S, B, S2, B2, n) /\ FastBoxOK(n, B2[n])
      /\ \A k \in Nodes \ {n} : SameDue(S, B, S2, B2, k)
  BY <1>0, <1>1, <1>3, <1>8, Shift
<1>10. /\ StreamOK(S2, B2, D2, O, lost, n) /\ FastHandedOK(D2[n])
       /\ r.rcv = <<>> \/ (r.rcv = <<Fp!Whole(m0)>> /\ ~Given(D, n, m0))
  <2>1. StreamOK(S, B, D, O, lost, n)
    BY <1>1
  <2> QED
    <3>1. /\ FastTypes(S, B, D, O) /\ StreamOK(S, B, D, O, lost, n) /\ B[n] # <<>> /\ n \in Nodes
          /\ m0 \in Sendable /\ c0 \in Nat /\ Due(S, B, n, m0, c0, 1)
          /\ Taken(S, B, D, n, m0, c0, r, S2, B2, D2)
      BY <1>0, <1>1, <1>3, <1>6, <1>7, <1>9, <2>1 DEF Taken
    <3> QED
      BY ONLY <3>1, ReceivedStreams
<1>11. ASSUME NEW k \in Nodes \ {n}
       PROVE  StreamOK(S2, B2, D2, O, lost, k)
  <2>1. StreamOK(S, B, D, O, lost, k)
    BY <1>1
  <2>2. NoMoreKept(S, S2, k) /\ NoMoreIdle(O, O) /\ D2[k] = D[k]
    BY <1>3 DEF NoMoreKept, NoMoreIdle, Keeps
  <2>3. SameDue(S, B, S2, B2, k) /\ k \in Nodes
    BY <1>9
  <2> QED
    BY ONLY <2>1, <2>2, <2>3, StreamsKept
<1>12. FastTypes(S2, B2, D2, O)
  <2>1. FastSessionsOK(n, S2[n])
    BY <1>3, <1>7 DEF AfterFrame
  <2> QED
    BY <1>1, <1>3, <1>9, <1>10, <2>1 DEF FastTypes
<1>13. SentPending(S2, O)
  BY <1>1, <1>8 DEF SentPending
<1>14. FastStateOK(S2, B2, D2, O, lost)
  BY <1>10, <1>11, <1>12, <1>13 DEF FastStateOK
<1>15. CASE r.rcv = <<>>
  <2>1. D[n] \o <<>> = D[n]
    BY <1>2 DEF FastHandedOK
  <2>2. \A k \in Nodes : D2[k] = D[k]
    BY <1>3, <1>15, <2>1
  <2> QED
    BY <1>14, <2>2
<1>16. CASE r.rcv = <<Fp!Whole(m0)>> /\ ~Given(D, n, m0)
  <2>1. D[n] \o <<Fp!Whole(m0)>> = Append(D[n], Fp!Whole(m0))
    <3>1. D[n] \in Seq(FastHanded) /\ Fp!Whole(m0) \in FastHanded
      BY <1>2, WholeHanded DEF FastHandedOK
    <3> QED
      BY ONLY <3>1, EntryMore
  <2>2. D2 = [D EXCEPT ![n] = Append(D[n], Fp!Whole(m0))]
    BY <1>0, <1>16, <2>1, Zenon
  <2>3. O[m0] # "idle"
    <3>1. NotYet(S, B, D, O, n)
      BY <1>1 DEF StreamOK
    <3> QED
      BY <1>6, <3>1 DEF NotYet, Nothing
  <2> QED
    BY <1>5, <1>14, <1>16, <2>2, <2>3
<1> QED
  BY <1>10, <1>15, <1>16

\* The first frame on its way to a node is lost.
LEMMA LostStep ==
    ASSUME NEW S, NEW B, NEW D, NEW O, NEW lost, NEW lost2, FastStateOK(S, B, D, O, lost),
           NEW n \in Nodes, B[n] # <<>>, Intact(lost), ~Intact(lost2),
           NEW B2, B2 = [B EXCEPT ![n] = Tail(B[n])]
    PROVE  FastStateOK(S, B2, D, O, lost2)
<1>1. /\ FastTypes(S, B, D, O) /\ SentPending(S, O)
      /\ \A k \in Nodes : StreamOK(S, B, D, O, lost, k)
  BY DEF FastStateOK
<1>2. /\ B2[n] = Tail(B[n]) /\ DOMAIN B2 = Nodes
      /\ \A k \in Nodes \ {n} : B2[k] = B[k]
  BY <1>1 DEF FastTypes
<1>3. /\ Shifted(S, B, S, B2, n) /\ FastBoxOK(n, B2[n])
      /\ \A k \in Nodes \ {n} : SameDue(S, B, S, B2, k)
  BY <1>1, <1>2, Shift
<1>4. StreamOK(S, B2, D, O, lost2, n)
  <2>1. StreamOK(S, B, D, O, lost, n)
    BY <1>1
  <2> QED
    BY <1>1, <1>3, <2>1, LostStreams
<1>5. ASSUME NEW k \in Nodes \ {n}
      PROVE  StreamOK(S, B2, D, O, lost2, k)
  <2>1. StreamOK(S, B, D, O, lost, k)
    BY <1>1
  <2>2. NoMoreKept(S, S, k) /\ NoMoreIdle(O, O)
    BY DEF NoMoreKept, NoMoreIdle
  <2> QED
    BY <1>3, <2>1, <2>2, StreamsKept
<1>6. FastTypes(S, B2, D, O)
  BY <1>1, <1>2, <1>3 DEF FastTypes
<1> QED
  BY <1>1, <1>4, <1>5, <1>6 DEF FastStateOK

\* A reception is closed.
LEMMA ClosedStep ==
    ASSUME NEW S, NEW B, NEW D, NEW O, NEW lost, FastStateOK(S, B, D, O, lost),
           NEW a \in Nodes, NEW i \in DOMAIN S[a], S[a][i].dir = "rx",
           NEW S2, S2 = [S EXCEPT ![a] = RemoveAt(S[a], i)]
    PROVE  FastStateOK(S2, B, D, O, lost)
<1>1. /\ FastTypes(S, B, D, O) /\ SentPending(S, O)
      /\ \A k \in Nodes : StreamOK(S, B, D, O, lost, k)
  BY DEF FastStateOK
<1>2. DOMAIN S = Nodes /\ FastSessionsOK(a, S[a]) /\ S[a] \in Seq(FastSession)
  BY <1>1 DEF FastTypes, FastSessionsOK
<1>3. S2[a] = RemoveAt(S[a], i) /\ DOMAIN S2 = Nodes /\ \A k \in Nodes \ {a} : S2[k] = S[k]
  BY <1>2
<1>4. FastSessionsOK(a, S2[a])
  BY <1>2, <1>3, SessionErased, Zenon
<1>5. /\ \A j \in DOMAIN S2[a] : \E k \in DOMAIN S[a] : k # i /\ S2[a][j] = S[a][k]
      /\ \A k \in DOMAIN S[a] : k # i => \E j \in DOMAIN S2[a] : S2[a][j] = S[a][k]
  BY <1>2, <1>3, RemovedEntries
<1>6. \A m, c : S[a][i] # Outgoing(m, c)
  BY DEF Outgoing
<1>7. \A m \in Sendable, c \in Nat : Sends(S2, m, c) <=> Sends(S, m, c)
  <2>1. SUFFICES ASSUME NEW m \in Sendable, NEW c \in Nat
                 PROVE  Sends(S2, m, c) <=> Sends(S, m, c)
    OBVIOUS
  <2>2. From[m] \in Nodes
    BY SendableFacts
  <2>3. CASE From[m] = a
    <3>1. Sends(S2, m, c) => Sends(S, m, c)
      BY <1>5, <2>3 DEF Sends
    <3>2. ASSUME Sends(S, m, c) PROVE Sends(S2, m, c)
      <4>1. PICK k \in DOMAIN S[a] : S[a][k] = Outgoing(m, c)
        BY <2>3, <3>2 DEF Sends
      <4>2. PICK j \in DOMAIN S2[a] : S2[a][j] = S[a][k]
        BY <1>5, <1>6, <4>1
      <4> QED
        BY <2>3, <4>1, <4>2 DEF Sends
    <3> QED
      BY <3>1, <3>2
  <2>4. CASE From[m] # a
    BY <1>3, <2>2, <2>4 DEF Sends
  <2> QED
    BY <2>3, <2>4
<1>8. \A n \in Nodes : NoMoreKept(S, S2, n)
  <2>1. SUFFICES ASSUME NEW n \in Nodes, NEW m \in Sendable, NEW d \in Seq(Payloads), Keeps(S2, n, m, d)
                 PROVE  Keeps(S, n, m, d)
    BY DEF NoMoreKept
  <2>2. CASE n = a
    BY <1>5, <2>1, <2>2 DEF Keeps
  <2>3. CASE n # a
    BY <1>3, <2>1, <2>3 DEF Keeps
  <2> QED
    BY <2>2, <2>3
<1>9. ASSUME NEW n \in Nodes
      PROVE  StreamOK(S2, B, D, O, lost, n)
  <2>1. SameDue(S, B, S2, B, n)
    BY <1>7 DEF SameDue, Due
  <2>2. NoMoreKept(S, S2, n) /\ NoMoreIdle(O, O) /\ StreamOK(S, B, D, O, lost, n)
    BY <1>1, <1>8 DEF NoMoreIdle
  <2> QED
    BY <2>1, <2>2, StreamsKept
<1>10. FastTypes(S2, B, D, O)
  BY <1>1, <1>3, <1>4 DEF FastTypes
<1>11. SentPending(S2, O)
  BY <1>1, <1>7 DEF SentPending
<1> QED
  BY <1>9, <1>10, <1>11 DEF FastStateOK

\* A message is accepted.
LEMMA AcceptedStep ==
    ASSUME NEW S, NEW B, NEW D, NEW O, NEW lost, FastStateOK(S, B, D, O, lost),
           NEW m0 \in Sendable, O[m0] = "idle",
           \A i \in DOMAIN S[From[m0]] : ~OfStream(S[From[m0]][i], m0),
           NEW S2, S2 = [S EXCEPT ![From[m0]] = Append(S[From[m0]], Outgoing(m0, 0))],
           NEW O2, O2 = [O EXCEPT ![m0] = "pending"]
    PROVE  FastStateOK(S2, B, D, O2, lost)
<1> DEFINE a == From[m0]
           ss == S[a]
           s == Outgoing(m0, 0)
           more == Append(ss, s)
<1>1. /\ FastTypes(S, B, D, O) /\ SentPending(S, O)
      /\ \A k \in Nodes : StreamOK(S, B, D, O, lost, k)
  BY DEF FastStateOK
<1>2. a \in Nodes /\ m0 \in FastMessages /\ \A m \in Sendable : m \in FastMessages
  BY SendableFacts
<1>3. DOMAIN S = Nodes /\ FastSessionsOK(a, ss) /\ ss \in Seq(FastSession)
  BY <1>1, <1>2 DEF FastTypes, FastSessionsOK
<1>4. S2[a] = more /\ DOMAIN S2 = Nodes /\ \A k \in Nodes \ {a} : S2[k] = S[k]
  BY <1>2, <1>3
<1>5. O \in [FastMessages -> {"idle", "pending", "success", "failed"}]
  BY <1>1 DEF FastTypes
<1>6. /\ O2 \in [FastMessages -> {"idle", "pending", "success", "failed"}]
      /\ O2[m0] = "pending" /\ \A m \in Sendable : m # m0 => O2[m] = O[m]
  BY <1>2, <1>5
<1>7. /\ FastSessionsOK(a, more)
      /\ \A j \in DOMAIN more : more[j] = s \/ \E k \in DOMAIN ss : more[j] = ss[k]
      /\ \A k \in DOMAIN ss : \E j \in DOMAIN more : more[j] = ss[k]
      /\ \E j \in DOMAIN more : more[j] = s
  <2>1. 0 \in Nat /\ <<>> \in Seq(Payloads)
    OBVIOUS
  <2>2. s \in FastSession /\ OfStream(s, m0)
    BY <2>1, Streams
  <2>3. 0 < Parts(m0)
    BY PartsFacts
  <2>4. Sending(a, s) \/ Keeping(a, s)
    BY <2>1, <2>3 DEF Sending
  <2>5. \A i \in DOMAIN ss : ~OfStream(ss[i], m0)
    OBVIOUS
  <2> HIDE DEF s, ss, a
  <2>6. FastSessionsOK(a, ss) /\ m0 \in Sendable
    BY <1>3
  <2> QED
    BY ONLY <2>2, <2>4, <2>5, <2>6, SessionAdded
<1> HIDE DEF more
<1>8. \A m, d, m3, c3 : Incoming(m, d) # Outgoing(m3, c3)
  BY DEF Incoming, Outgoing
<1>9. OneMore(S, S2, m0)
  <2>1. SUFFICES ASSUME NEW m \in Sendable, NEW c \in Nat
                 PROVE  Sends(S2, m, c) <=> Sends(S, m, c) \/ (m = m0 /\ c = 0)
    BY DEF OneMore
  <2>2. From[m] \in Nodes
    BY SendableFacts
  <2>3. Outgoing(m, c) = s => m = m0 /\ c = 0
    BY OutgoingNames
  <2>4. CASE From[m] = a
    <3>1. Sends(S2, m, c) <=> SendsIn(more, m, c)
      BY <1>4, <2>4 DEF Sends, SendsIn
    <3>2. Sends(S, m, c) <=> SendsIn(ss, m, c)
      BY <2>4 DEF Sends, SendsIn
    <3>3. SendsIn(more, m, c) => SendsIn(ss, m, c) \/ (m = m0 /\ c = 0)
      <4> HIDE DEF s, ss
      <4> QED
        BY <1>7, <2>3 DEF SendsIn
    <3>4. SendsIn(ss, m, c) => SendsIn(more, m, c)
      <4> HIDE DEF s, ss
      <4> QED
        BY <1>7 DEF SendsIn
    <3>5. m = m0 /\ c = 0 => SendsIn(more, m, c)
      BY <1>7 DEF SendsIn
    <3> QED
      BY <3>1, <3>2, <3>3, <3>4, <3>5
  <2>5. CASE From[m] # a
    BY <1>4, <2>2, <2>5 DEF Sends
  <2> QED
    BY <2>4, <2>5
<1>10. \A n \in Nodes : NoMoreKept(S, S2, n)
  <2>1. SUFFICES ASSUME NEW n \in Nodes, NEW m \in Sendable, NEW d \in Seq(Payloads), Keeps(S2, n, m, d)
                 PROVE  Keeps(S, n, m, d)
    BY DEF NoMoreKept
  <2>2. CASE n = a
    <3>1. PICK j \in DOMAIN more : more[j] = Incoming(m, d) /\ Keepable(m, d)
      BY <1>4, <2>1, <2>2 DEF Keeps
    <3>2. PICK k \in DOMAIN ss : more[j] = ss[k]
      BY <1>7, <1>8, <3>1
    <3> QED
      BY <2>2, <3>1, <3>2 DEF Keeps
  <2>3. CASE n # a
    BY <1>4, <2>1, <2>3 DEF Keeps
  <2> QED
    BY <2>2, <2>3
<1>11. NoMoreIdle(O, O2) /\ O2[m0] # "idle"
  BY <1>6 DEF NoMoreIdle
<1>12. ASSUME NEW n \in Nodes
       PROVE  StreamOK(S2, B, D, O2, lost, n)
  <2>1. StreamOK(S, B, D, O, lost, n) /\ NoMoreKept(S, S2, n)
    BY <1>1, <1>10
  <2> QED
    BY <1>1, <1>9, <1>11, <2>1, AcceptedStreams
<1>13. FastTypes(S2, B, D, O2)
  <2>1. \A n \in Nodes : FastSessionsOK(n, S2[n])
    BY <1>1, <1>4, <1>7 DEF FastTypes
  <2> QED
    BY <1>1, <1>4, <1>6, <2>1 DEF FastTypes
<1>14. SentPending(S2, O2)
  <2>1. SUFFICES ASSUME NEW m \in Sendable, NEW c \in Nat, Sends(S2, m, c) PROVE O2[m] = "pending"
    BY DEF SentPending
  <2>2. CASE m = m0
    BY <1>6, <2>2
  <2>3. CASE m # m0
    BY <1>1, <1>6, <1>9, <2>1, <2>3 DEF SentPending, OneMore
  <2> QED
    BY <2>2, <2>3
<1> QED
  BY <1>12, <1>13, <1>14 DEF FastStateOK

--------------------------------------------------------------------------------
\* The actions of the fast packet protocol

\* The invariant after a step, of the scenario, which no step changes.
FastAfter == FastStateOK(fpSessions', fpInbox', fpDelivered', fpOutcome', faults'.lost)

\* The messages handed over, by name.
Named(d) == IF \E m \in FastMessages : d = Fp!Whole(m)
            THEN CHOOSE m \in FastMessages : d = Fp!Whole(m) ELSE "garbled"
NamesOf == [n \in Nodes |-> [i \in DOMAIN fpDelivered[n] |-> Named(fpDelivered[n][i])]]

LEMMA FastParts ==
    ASSUME FastInv
    PROVE  /\ FastStateOK(fpSessions, fpInbox, fpDelivered, fpOutcome, faults.lost)
           /\ DOMAIN fpSessions = Nodes /\ DOMAIN fpInbox = Nodes /\ DOMAIN fpDelivered = Nodes
           /\ \A n \in Nodes : /\ FastSessionsOK(n, fpSessions[n]) /\ FastBoxOK(n, fpInbox[n])
                               /\ FastHandedOK(fpDelivered[n])
           /\ fpOutcome \in [FastMessages -> {"idle", "pending", "success", "failed"}]
           /\ faults \in [lost : Nat, repeated : Nat, refused : Nat, address : Nat]
           /\ scenario \in Scenarios
           /\ scenario.address = 0 => valid = Nodes
<1>1. /\ FaultsCounted
      /\ FastStateOK(fpSessions, fpInbox, fpDelivered, fpOutcome, faults.lost)
  BY DEF FastInv
<1>2. FastTypes(fpSessions, fpInbox, fpDelivered, fpOutcome)
  BY <1>1 DEF FastStateOK
<1> QED
  BY <1>1, <1>2 DEF FaultsCounted, FastTypes

\* What a frame does to the node that gets it.
LEMMA FastReceive ==
    ASSUME FastInv, NEW n \in Nodes, Fp!Receive(n)
    PROVE  /\ FastAfter
           /\ \/ \A k \in Nodes : fpDelivered'[k] = fpDelivered[k]
              \/ \E m \in Sendable : /\ Gets(n, m) /\ fpOutcome[m] # "idle" /\ ~Given(fpDelivered, n, m)
                                     /\ fpDelivered' = [fpDelivered EXCEPT ![n] = Append(fpDelivered[n], Fp!Whole(m))]
<1>1. FastStateOK(fpSessions, fpInbox, fpDelivered, fpOutcome, faults.lost)
  BY FastParts
<1>2. /\ fpInbox[n] # <<>> /\ fpInbox' = [fpInbox EXCEPT ![n] = Tail(fpInbox[n])]
      /\ fpOutcome' = fpOutcome /\ faults' = faults
  BY DEF Fp!Receive
<1>3. FrameTaken(fpSessions, fpInbox, fpDelivered, n, fpSessions', fpInbox', fpDelivered')
  BY DEF Fp!Receive, FrameTaken
<1>4. /\ FastStateOK(fpSessions', fpInbox', fpDelivered', fpOutcome, faults.lost)
      /\ \/ \A k \in Nodes : fpDelivered'[k] = fpDelivered[k]
         \/ \E m \in Sendable : /\ Gets(n, m) /\ fpOutcome[m] # "idle" /\ ~Given(fpDelivered, n, m)
                                /\ fpDelivered' = [fpDelivered EXCEPT ![n] = Append(fpDelivered[n], Fp!Whole(m))]
  BY <1>1, <1>3, ReceivedStep
<1> QED
  BY <1>2, <1>4 DEF FastAfter

\* A frame is lost.  Where fast messages are sent it is the only fault.
LEMMA FastLose ==
    ASSUME FewLosses, FastInv, NEW n \in Nodes, Fp!Lose(n)
    PROVE  FastAfter
<1>1. /\ FastStateOK(fpSessions, fpInbox, fpDelivered, fpOutcome, faults.lost)
      /\ FastBoxOK(n, fpInbox[n])
      /\ faults \in [lost : Nat, repeated : Nat, refused : Nat, address : Nat]
      /\ scenario \in Scenarios
  BY FastParts
<1>2. /\ fpInbox[n] # <<>> /\ fpInbox' = [fpInbox EXCEPT ![n] = Tail(fpInbox[n])]
      /\ fpOutcome' = fpOutcome /\ fpSessions' = fpSessions /\ fpDelivered' = fpDelivered
      /\ faults.lost < scenario.lost /\ faults' = [faults EXCEPT !.lost = faults.lost + 1]
  BY DEF Fp!Lose
<1>3. PICK m \in Sendable : TRUE
  <2>1. fpInbox[n] \in Seq(FastFrame) /\ 1 \in DOMAIN fpInbox[n]
    BY <1>1, <1>2 DEF FastBoxOK
  <2> QED
    BY <1>1, <2>1 DEF FastBoxOK
<1>4. scenario.messages \cap FastMessages # {}
  BY <1>3, SendableFacts
<1>5. scenario.lost = 0 \/ (scenario.lost = 1 /\ scenario.refused = 0 /\ scenario.address = 0)
  BY <1>1, <1>4 DEF FewLosses
<1>6. faults.lost \in Nat /\ faults'.lost = faults.lost + 1
  BY <1>1, <1>2
<1>7. faults.lost = 0 /\ scenario.refused = 0 /\ scenario.address = 0
  BY <1>2, <1>5, <1>6
<1>8. Intact(faults.lost) /\ ~Intact(faults'.lost)
  BY <1>6, <1>7 DEF Intact
<1>9. FastStateOK(fpSessions, fpInbox', fpDelivered, fpOutcome, faults'.lost)
  BY <1>1, <1>2, <1>8, LostStep
<1> QED
  BY <1>2, <1>9 DEF FastAfter

\* A session that sends, and what the code computes of it.
LEMMA SendingSession ==
    ASSUME FastInv, NEW n \in Nodes, NEW i \in DOMAIN fpSessions[n], fpSessions[n][i].dir # "rx"
    PROVE  \E m \in Sendable, c \in Nat :
              From[m] = n /\ c < Parts(m) /\ fpSessions[n][i] = Outgoing(m, c)
<1>1. FastSessionsOK(n, fpSessions[n])
  BY FastParts
<1>2. Sending(n, fpSessions[n][i]) \/ Keeping(n, fpSessions[n][i])
  BY <1>1 DEF FastSessionsOK
<1>3. ~Keeping(n, fpSessions[n][i])
  <2>1. SUFFICES ASSUME NEW m, NEW d, fpSessions[n][i] = Incoming(m, d) PROVE FALSE
    BY DEF Keeping
  <2>2. Incoming(m, d).dir = "rx"
    BY DEF Incoming
  <2> QED
    BY <2>1, <2>2
<1> QED
  BY <1>2, <1>3 DEF Sending

LEMMA SessionNumbers ==
    ASSUME NEW m \in Sendable, NEW c \in Nat, c < Parts(m)
    PROVE  /\ Fp!get_last_packet_number(Outgoing(m, c)) = c
           /\ Fp!get_number_of_remaining_packets(Outgoing(m, c)) = Parts(m) - c
           /\ Fp!FramesThisUpdate(Outgoing(m, c)) \in 1..(Parts(m) - c)
           /\ \A k \in Nat : Fp!BytesAfter(Outgoing(m, c), k) = BytesIn(c + k)
<1>1. Fp!get_last_packet_number(Outgoing(m, c)) = c
  BY LastPacket DEF Fp!get_last_packet_number, Outgoing
<1>2. Fp!get_number_of_remaining_packets(Outgoing(m, c)) = Parts(m) - c
  BY <1>1 DEF Fp!get_number_of_remaining_packets, Outgoing, Parts
<1>3. Fp!FramesThisUpdate(Outgoing(m, c)) \in 1..(Parts(m) - c)
  <2>1. Fp!FramesThisUpdate(Outgoing(m, c)) = (Parts(m) - c + 2 - 1) \div 2
    BY <1>2 DEF Fp!FramesThisUpdate, Fp!UpDiv
  <2>2. Parts(m) \in Nat
    BY PartsFacts
  <2>3. \A x \in Nat : x > 0 => (x + 2 - 1) \div 2 \in 1..x
    OBVIOUS
  <2>4. Parts(m) - c \in Nat /\ Parts(m) - c > 0
    BY <2>2
  <2> HIDE DEF Parts
  <2> QED
    BY <2>1, <2>3, <2>4
<1>4. ASSUME NEW k \in Nat
      PROVE  Fp!BytesAfter(Outgoing(m, c), k) = BytesIn(c + k)
  <2>1. CASE k = 0
    BY <2>1 DEF Fp!BytesAfter, Outgoing
  <2>2. CASE k # 0
    BY <1>1, <2>2 DEF Fp!BytesAfter, BytesIn
  <2> QED
    BY <2>1, <2>2
<1> QED
  BY <1>1, <1>2, <1>3, <1>4

LEMMA SessionFrames ==
    ASSUME NEW m \in Sendable, NEW c \in Nat, c < Parts(m), NEW k \in Nat
    PROVE  /\ [Outgoing(m, c) EXCEPT !.bytes = BytesIn(c + k)] = Outgoing(m, c + k)
           /\ SentTo(fpInbox, m, c, k, Fp!Sent(fpInbox, Outgoing(m, c), k))
<1>1. [Outgoing(m, c) EXCEPT !.bytes = BytesIn(c + k)] = Outgoing(m, c + k)
  BY DEF Outgoing
<1>2. ASSUME NEW j \in 1..k
      PROVE  Fp!DataFrame(Outgoing(m, c), j) = Part(m, c + j - 1)
  <2>1. Fp!get_last_packet_number(Outgoing(m, c)) = c
    BY SessionNumbers
  <2>2. c + j - 1 + 1 = c + j - 1 + 1 /\ c + j - 1 \in Nat
    OBVIOUS
  <2> QED
    BY <2>1 DEF Fp!DataFrame, Part, Outgoing
<1>3. [j \in 1..k |-> Fp!DataFrame(Outgoing(m, c), j)] = NextParts(m, c, k)
  BY <1>2 DEF NextParts
<1>4. Outgoing(m, c).dst = To[m] /\ Outgoing(m, c).src = From[m]
  BY DEF Outgoing
<1>5. SentTo(fpInbox, m, c, k, Fp!Sent(fpInbox, Outgoing(m, c), k))
  BY <1>3, <1>4, Zenon DEF SentTo, Fp!Sent, Gets
<1> QED
  BY <1>1, <1>5

\* Frames are sent and the session stays.
LEMMA FastSent ==
    ASSUME FastInv, NEW n \in Nodes, NEW i \in DOMAIN fpSessions[n],
           NEW m \in Sendable, NEW c \in Nat, NEW k \in Nat, From[m] = n,
           fpSessions[n][i] = Outgoing(m, c), c + k < Parts(m),
           fpSessions' = [fpSessions EXCEPT ![n] = [fpSessions[n] EXCEPT ![i] = Outgoing(m, c + k)]],
           SentTo(fpInbox, m, c, k, fpInbox'), fpOutcome' = fpOutcome,
           fpDelivered' = fpDelivered, faults'.lost = faults.lost
    PROVE  FastAfter
<1>1. FastStateOK(fpSessions, fpInbox, fpDelivered, fpOutcome, faults.lost)
  BY FastParts
<1>2. Parts(m) \in Nat
  BY PartsFacts
<1>3. c < Parts(m) /\ c + k <= Parts(m)
  BY <1>2
<1>4. SessionSent(fpSessions, fpOutcome, faults.lost, i, m, c, k, TRUE, fpSessions', fpOutcome')
  BY <1>3 DEF SessionSent
<1>5. FastStateOK(fpSessions', fpInbox', fpDelivered, fpOutcome', faults.lost)
  BY <1>1, <1>4, SentStep
<1> QED
  BY <1>5 DEF FastAfter

\* Frames are sent and the session is closed: all are, or something interrupted it.
Ending(n, i, m, c, k) ==
    /\ From[m] = n /\ fpSessions[n][i] = Outgoing(m, c) /\ c < Parts(m) /\ c + k <= Parts(m)
    /\ Intact(faults.lost) => c + k >= Parts(m)
    /\ SentTo(fpInbox, m, c, k, fpInbox')
    /\ fpDelivered' = fpDelivered /\ faults'.lost = faults.lost

LEMMA FastEnded ==
    ASSUME FastInv, NEW n \in Nodes, NEW i \in DOMAIN fpSessions[n],
           NEW m \in Sendable, NEW c \in Nat, NEW k \in Nat, Ending(n, i, m, c, k),
           NEW success \in BOOLEAN, Fp!Close(n, i, success)
    PROVE  /\ FastAfter
           /\ fpOutcome[m] = "pending" /\ m \in FastMessages
           /\ fpOutcome' = [fpOutcome EXCEPT ![m] = IF success THEN "success" ELSE "failed"]
<1> USE DEF Ending
<1>1. FastStateOK(fpSessions, fpInbox, fpDelivered, fpOutcome, faults.lost)
  BY FastParts
<1>2. fpOutcome' = [fpOutcome EXCEPT ![m] = IF success THEN "success" ELSE "failed"]
  BY DEF Fp!Close, Outgoing
<1>3. fpSessions' = [fpSessions EXCEPT ![n] = RemoveAt(fpSessions[n], i)]
  BY DEF Fp!Close, Fp!RemoveAt, RemoveAt
<1>4. SessionSent(fpSessions, fpOutcome, faults.lost, i, m, c, k, FALSE, fpSessions', fpOutcome')
  BY <1>2, <1>3 DEF SessionSent
<1>5. FastStateOK(fpSessions', fpInbox', fpDelivered, fpOutcome', faults.lost)
  BY <1>1, <1>4, SentStep
<1>6. fpOutcome[m] = "pending"
  BY <1>1 DEF FastStateOK, SentPending, Sends
<1> QED
  BY <1>2, <1>5, <1>6, SendableFacts DEF FastAfter

\* What an update of a fast packet session does to the outcomes.
Told(m) == /\ m \in FastMessages /\ fpOutcome[m] = "pending"
           /\ \E v \in {"success", "failed"} : fpOutcome' = [fpOutcome EXCEPT ![m] = v]
ToldAtMost == fpOutcome' = fpOutcome \/ \E m \in FastMessages : Told(m)

LEMMA FastUpdateSend ==
    ASSUME FastInv, NEW n \in Nodes, NEW i \in DOMAIN fpSessions[n], Fp!UpdateSend(n, i)
    PROVE  FastAfter /\ ToldAtMost
<1> DEFINE s == fpSessions[n][i]
           f == Fp!FramesThisUpdate(s)
<1>1. /\ s.dir = "tx" /\ fpInbox' = Fp!Sent(fpInbox, s, f)
      /\ fpDelivered' = fpDelivered /\ faults' = faults
  BY DEF Fp!UpdateSend
<1>2. PICK r : /\ r = [s EXCEPT !.bytes = Fp!BytesAfter(s, f)]
               /\ IF Fp!get_number_of_remaining_packets(r) = 0 THEN Fp!Close(n, i, TRUE)
                  ELSE /\ fpSessions' = [fpSessions EXCEPT ![n] = [fpSessions[n] EXCEPT ![i] = r]]
                       /\ fpOutcome' = fpOutcome
  BY DEF Fp!UpdateSend
<1>3. PICK m \in Sendable, c \in Nat : From[m] = n /\ c < Parts(m) /\ s = Outgoing(m, c)
  BY <1>1, SendingSession
<1>4. f \in 1..(Parts(m) - c) /\ \A k \in Nat : Fp!BytesAfter(s, k) = BytesIn(c + k)
  BY <1>3, SessionNumbers
<1>5. Parts(m) \in Nat
  BY PartsFacts
<1> HIDE DEF s, f
<1>6. f \in Nat /\ c + f <= Parts(m) /\ c + f \in Nat
  BY <1>4, <1>5
<1>7. r = Outgoing(m, c + f) /\ SentTo(fpInbox, m, c, f, fpInbox')
  <2>1. /\ [Outgoing(m, c) EXCEPT !.bytes = BytesIn(c + f)] = Outgoing(m, c + f)
        /\ SentTo(fpInbox, m, c, f, Fp!Sent(fpInbox, Outgoing(m, c), f))
    BY <1>3, <1>6, SessionFrames
  <2> QED
    BY <1>1, <1>2, <1>3, <1>4, <1>6, <2>1
<1>8. CASE c + f = Parts(m)
  <2>1. Fp!get_number_of_remaining_packets(r) = 0
    <3>1. Fp!get_last_packet_number(r) = c + f
      BY <1>6, <1>7, LastPacket DEF Fp!get_last_packet_number, Outgoing
    <3>2. Fp!calculate_number_of_frames(r.size) = Parts(m)
      BY <1>7 DEF Outgoing, Parts
    <3> QED
      BY <1>5, <1>8, <3>1, <3>2 DEF Fp!get_number_of_remaining_packets
  <2>2. Fp!Close(n, i, TRUE)
    BY <1>2, <2>1
  <2>3. /\ FastAfter /\ fpOutcome[m] = "pending" /\ m \in FastMessages
        /\ fpOutcome' = [fpOutcome EXCEPT ![m] = IF TRUE THEN "success" ELSE "failed"]
    <3>1. c + f >= Parts(m) /\ fpSessions[n][i] = Outgoing(m, c)
      BY <1>3, <1>5, <1>8 DEF s
    <3>2. Ending(n, i, m, c, f)
      BY <1>1, <1>3, <1>6, <1>7, <3>1 DEF Ending
    <3> QED
      BY <1>6, <2>2, <3>2, FastEnded
  <2> QED
    BY <2>3 DEF ToldAtMost, Told
<1>9. CASE c + f < Parts(m)
  <2>1. Fp!get_number_of_remaining_packets(r) # 0
    <3>1. Fp!get_number_of_remaining_packets(r) = Parts(m) - (c + f)
      BY <1>6, <1>7, <1>9, SessionNumbers
    <3> QED
      BY <1>5, <1>6, <1>9, <3>1
  <2>2. /\ fpSessions' = [fpSessions EXCEPT ![n] = [fpSessions[n] EXCEPT ![i] = Outgoing(m, c + f)]]
        /\ fpOutcome' = fpOutcome
    BY <1>2, <1>7, <2>1
  <2>3. FastAfter
    <3>1. fpSessions[n][i] = Outgoing(m, c)
      BY <1>3 DEF s
    <3> QED
      BY <1>1, <1>3, <1>6, <1>7, <1>9, <2>2, <3>1, FastSent
  <2> QED
    BY <2>2, <2>3 DEF ToldAtMost
<1> QED
  BY <1>5, <1>6, <1>8, <1>9

LEMMA FastUpdateRefused ==
    ASSUME FastInv, NEW n \in Nodes, NEW i \in DOMAIN fpSessions[n], Fp!UpdateRefused(n, i)
    PROVE  FastAfter /\ ToldAtMost
<1> DEFINE s == fpSessions[n][i]
           f == Fp!FramesThisUpdate(s)
<1>1. /\ s.dir = "tx" /\ faults.refused < scenario.refused
      /\ fpDelivered' = fpDelivered
      /\ faults' = [faults EXCEPT !.refused = faults.refused + 1]
  BY DEF Fp!UpdateRefused
<1>2. PICK k \in 0..(f - 1) :
          /\ fpInbox' = Fp!Sent(fpInbox, s, k)
          /\ \/ k = 0 /\ Fp!Close(n, i, FALSE)
             \/ /\ fpSessions' = [fpSessions EXCEPT ![n] = [fpSessions[n] EXCEPT ![i] =
                                    [fpSessions[n][i] EXCEPT !.bytes = Fp!BytesAfter(s, k)]]]
                /\ fpOutcome' = fpOutcome
  BY DEF Fp!UpdateRefused
<1>3. PICK m \in Sendable, c \in Nat : From[m] = n /\ c < Parts(m) /\ s = Outgoing(m, c)
  BY <1>1, SendingSession
<1>4. f \in 1..(Parts(m) - c) /\ \A j \in Nat : Fp!BytesAfter(s, j) = BytesIn(c + j)
  BY <1>3, SessionNumbers
<1>5. Parts(m) \in Nat
  BY PartsFacts
<1>6. fpSessions[n][i] = Outgoing(m, c)
  BY <1>3
<1> HIDE DEF s, f
<1>7. k \in Nat /\ c + k < Parts(m)
  BY <1>2, <1>4, <1>5
<1>8. /\ [Outgoing(m, c) EXCEPT !.bytes = BytesIn(c + k)] = Outgoing(m, c + k)
      /\ SentTo(fpInbox, m, c, k, fpInbox')
  <2>1. /\ [Outgoing(m, c) EXCEPT !.bytes = BytesIn(c + k)] = Outgoing(m, c + k)
        /\ SentTo(fpInbox, m, c, k, Fp!Sent(fpInbox, Outgoing(m, c), k))
    BY <1>3, <1>7, SessionFrames
  <2> QED
    BY <1>2, <1>3, <2>1
<1>9. /\ faults'.lost = faults.lost /\ ~Intact(faults.lost)
  <2>1. /\ faults \in [lost : Nat, repeated : Nat, refused : Nat, address : Nat]
        /\ scenario \in Scenarios
    BY FastParts
  <2>2. faults.refused \in Nat
    BY <2>1
  <2>3. scenario.refused # 0
    BY <1>1, <2>2
  <2> QED
    BY <1>1, <2>1, <2>3 DEF Intact
<1>10. CASE k = 0 /\ Fp!Close(n, i, FALSE)
  <2>1. /\ FastAfter /\ fpOutcome[m] = "pending" /\ m \in FastMessages
        /\ fpOutcome' = [fpOutcome EXCEPT ![m] = IF FALSE THEN "success" ELSE "failed"]
    <3>1. c < Parts(m) /\ c + k <= Parts(m)
      BY <1>3, <1>5, <1>7
    <3>2. Ending(n, i, m, c, k)
      BY <1>1, <1>3, <1>6, <1>8, <1>9, <3>1 DEF Ending
    <3> QED
      BY <1>7, <1>10, <3>2, FastEnded
  <2> QED
    BY <2>1 DEF ToldAtMost, Told
<1>11. CASE /\ fpSessions' = [fpSessions EXCEPT ![n] = [fpSessions[n] EXCEPT ![i] =
                                [fpSessions[n][i] EXCEPT !.bytes = Fp!BytesAfter(s, k)]]]
            /\ fpOutcome' = fpOutcome
  <2>1. fpSessions' = [fpSessions EXCEPT ![n] = [fpSessions[n] EXCEPT ![i] = Outgoing(m, c + k)]]
    <3>1. [fpSessions[n][i] EXCEPT !.bytes = Fp!BytesAfter(s, k)] = Outgoing(m, c + k)
      BY <1>4, <1>6, <1>7, <1>8
    <3> QED
      BY <1>11, <3>1
  <2>2. FastAfter
    <3>1. /\ From[m] = n /\ fpSessions[n][i] = Outgoing(m, c) /\ c + k < Parts(m)
          /\ fpSessions' = [fpSessions EXCEPT ![n] = [fpSessions[n] EXCEPT ![i] = Outgoing(m, c + k)]]
          /\ SentTo(fpInbox, m, c, k, fpInbox') /\ fpOutcome' = fpOutcome
          /\ fpDelivered' = fpDelivered /\ faults'.lost = faults.lost
      BY <1>1, <1>3, <1>6, <1>7, <1>8, <1>9, <1>11, <2>1
    <3> QED
      BY <1>7, <3>1, FastSent, Zenon
  <2> QED
    BY <1>11, <2>2 DEF ToldAtMost
<1> QED
  BY <1>2, <1>10, <1>11

\* A reception is closed: it timed out, or an address is no longer valid.
LEMMA FastClosed ==
    ASSUME FastInv, NEW n \in Nodes, NEW i \in DOMAIN fpSessions[n], Fp!Close(n, i, FALSE),
           fpSessions[n][i].dir = "rx", UNCHANGED <<fpInbox, fpDelivered, faults>>
    PROVE  FastAfter /\ ToldAtMost
<1>1. FastStateOK(fpSessions, fpInbox, fpDelivered, fpOutcome, faults.lost)
  BY FastParts
<1>2. /\ fpSessions' = [fpSessions EXCEPT ![n] = RemoveAt(fpSessions[n], i)]
      /\ fpOutcome' = fpOutcome
  BY DEF Fp!Close, Fp!RemoveAt, RemoveAt
<1>3. FastStateOK(fpSessions', fpInbox, fpDelivered, fpOutcome, faults.lost)
  BY <1>1, <1>2, ClosedStep
<1> QED
  BY <1>2, <1>3 DEF FastAfter, ToldAtMost

LEMMA FastUpdateInvalid ==
    ASSUME FastInv, NEW n \in Nodes, NEW i \in DOMAIN fpSessions[n], Fp!UpdateInvalid(n, i)
    PROVE  FastAfter /\ ToldAtMost
<1>1. /\ ~Fp!AddressesValid(fpSessions[n][i]) /\ Fp!Close(n, i, FALSE)
      /\ UNCHANGED <<fpInbox, fpDelivered, faults>>
  BY DEF Fp!UpdateInvalid
<1>2. CASE fpSessions[n][i].dir = "rx"
  BY <1>1, <1>2, FastClosed
<1>3. CASE fpSessions[n][i].dir # "rx"
  <2>1. PICK m \in Sendable, c \in Nat :
           From[m] = n /\ c < Parts(m) /\ fpSessions[n][i] = Outgoing(m, c)
    BY <1>3, SendingSession
  <2>2. ~Intact(faults.lost)
    <3>1. From[m] \in Nodes /\ (To[m] \in Nodes \/ To[m] = Global)
      BY SendableFacts DEF Ends
    <3>2. valid # Nodes
      BY <1>1, <2>1, <3>1 DEF Fp!AddressesValid, Outgoing
    <3>3. scenario.address # 0
      BY <3>2, FastParts
    <3> QED
      BY <3>3 DEF Intact
  <2>3. SentTo(fpInbox, m, c, 0, fpInbox')
    <3>1. DOMAIN fpInbox = Nodes
      BY FastParts
    <3>2. ASSUME NEW a \in Nodes
          PROVE  fpInbox[a] \o NextParts(m, c, 0) = fpInbox[a]
      <4>1. fpInbox[a] \in Seq(FastFrame)
        BY FastParts DEF FastBoxOK
      <4>2. NextParts(m, c, 0) = <<>>
        BY DEF NextParts
      <4> QED
        BY <4>1, <4>2
    <3> QED
      BY <1>1, <3>1, <3>2 DEF SentTo
  <2>4. c + 0 <= Parts(m) /\ Parts(m) \in Nat
    BY <2>1, PartsFacts
  <2>5. Ending(n, i, m, c, 0)
    BY <1>1, <2>1, <2>2, <2>3, <2>4 DEF Ending
  <2>6. /\ FastAfter /\ fpOutcome[m] = "pending" /\ m \in FastMessages
        /\ fpOutcome' = [fpOutcome EXCEPT ![m] = IF FALSE THEN "success" ELSE "failed"]
    BY <1>1, <2>5, FastEnded
  <2> QED
    BY <2>6 DEF ToldAtMost, Told
<1> QED
  BY <1>2, <1>3

\* Every session of node n's own in a list is of a stream another list has one of.
SameEnds(s, s2) == s.src = s2.src /\ s.dst = s2.dst /\ s.pgn = s2.pgn
NoneOpened(n, ss, ss2) ==
    \A i \in DOMAIN ss2 : ss2[i].src = n => \E j \in DOMAIN ss : SameEnds(ss2[i], ss[j])

\* Neither closing a session nor changing one opens another.
LEMMA CloseOpensNone ==
    ASSUME NEW n, NEW ss \in Seq(FastSession), NEW i \in DOMAIN ss
    PROVE  NoneOpened(n, ss, RemoveAt(ss, i))
<1> DEFINE rest == RemoveAt(ss, i)
<1>1. \A j \in DOMAIN rest : \E k \in DOMAIN ss : k # i /\ rest[j] = ss[k]
  BY RemovedEntries
<1> HIDE DEF rest
<1>2. NoneOpened(n, ss, rest)
  BY <1>1 DEF NoneOpened, SameEnds
<1> QED
  BY <1>2 DEF rest

LEMMA ChangeOpensNone ==
    ASSUME NEW n, NEW ss \in Seq(FastSession), NEW i \in DOMAIN ss, NEW s, SameEnds(s, ss[i])
    PROVE  NoneOpened(n, ss, [ss EXCEPT ![i] = s])
<1>1. DOMAIN [ss EXCEPT ![i] = s] = DOMAIN ss
  OBVIOUS
<1>2. \A j \in DOMAIN ss : [ss EXCEPT ![i] = s][j] = IF j = i THEN s ELSE ss[j]
  OBVIOUS
<1> QED
  BY <1>1, <1>2 DEF NoneOpened, SameEnds

\* A reception the node opens comes from somebody else.
LEMMA ReceiveOpensNone ==
    ASSUME FastInv, NEW n \in Nodes, Fp!Receive(n)
    PROVE  \A k \in Nodes : NoneOpened(k, fpSessions[k], fpSessions'[k])
<1> DEFINE ss == fpSessions[n]
           f == Head(fpInbox[n])
           i == Fp!get_session(ss, f.pgn, f.src, f.dst)
           s == Fp!Stored(ss[i], f)
           ss2 == Fp!process_message(ss, f).ss
<1>1. fpInbox[n] # <<>> /\ fpSessions' = [fpSessions EXCEPT ![n] = ss2]
  BY DEF Fp!Receive
<1>2. /\ DOMAIN fpSessions = Nodes /\ FastSessionsOK(n, ss) /\ FastBoxOK(n, fpInbox[n])
      /\ \A k \in Nodes : FastSessionsOK(k, fpSessions[k])
  BY FastParts
<1>3. ss \in Seq(FastSession) /\ fpInbox[n] \in Seq(FastFrame)
  BY <1>2 DEF FastSessionsOK, FastBoxOK
<1>4. f.src # n
  <2>1. f = fpInbox[n][1] /\ 1 \in DOMAIN fpInbox[n]
    BY <1>1, <1>3
  <2>2. PICK m \in Sendable, c \in Nat : Gets(n, m) /\ f = Part(m, c)
    BY <1>2, <2>1 DEF FastBoxOK
  <2> QED
    BY <2>2, SendableFacts DEF Part
<1>5. i = 0 \/ i \in DOMAIN ss
  BY <1>2, FastGetSession
<1>6. i \in DOMAIN ss => NoneOpened(n, ss, RemoveAt(ss, i))
  BY <1>3, CloseOpensNone
<1>7. i \in DOMAIN ss => NoneOpened(n, ss, [ss EXCEPT ![i] = s])
  <2>1. SUFFICES ASSUME i \in DOMAIN ss PROVE SameEnds(s, ss[i])
    BY <1>3, ChangeOpensNone
  <2>2. ss[i] \in FastSession
    BY <1>3, <2>1
  <2> QED
    BY <2>2 DEF SameEnds, Fp!Stored, FastSession
<1>8. NoneOpened(n, ss, ss)
  BY DEF NoneOpened, SameEnds
<1>9. NoneOpened(n, ss, Fp!Opened(ss, f))
  <2> DEFINE opened == Fp!Stored(Fp!NewSession("rx", f.src, f.dst, f.pgn, f.size, "none"), f)
  <2>1. opened.src = f.src
    BY DEF Fp!Stored, Fp!NewSession
  <2> HIDE DEF opened
  <2>2. \A j \in DOMAIN Append(ss, opened) :
           (j \in DOMAIN ss /\ Append(ss, opened)[j] = ss[j]) \/ Append(ss, opened)[j] = opened
    BY <1>3
  <2>3. NoneOpened(n, ss, Append(ss, opened))
    BY <1>4, <2>1, <2>2 DEF NoneOpened, SameEnds
  <2> QED
    BY <1>8, <2>3 DEF Fp!Opened, opened
<1>10. \/ ss2 = ss \/ ss2 = Fp!Opened(ss, f)
       \/ i # 0 /\ ss2 = RemoveAt(ss, i)
       \/ i # 0 /\ ss2 = [ss EXCEPT ![i] = s]
  BY DEF Fp!process_message, Fp!Restarted, Fp!RemoveAt, RemoveAt
<1>11. NoneOpened(n, ss, ss2)
  <2> HIDE DEF ss2, s, i, f
  <2> QED
    BY <1>5, <1>6, <1>7, <1>8, <1>9, <1>10, Zenon
<1>12. ASSUME NEW k \in Nodes, k # n
       PROVE  fpSessions'[k] = fpSessions[k]
  BY <1>1, <1>2, <1>12
<1>13. fpSessions'[n] = ss2
  BY <1>1, <1>2
<1>14. ASSUME NEW k \in Nodes
       PROVE  NoneOpened(k, fpSessions[k], fpSessions[k])
  BY DEF NoneOpened, SameEnds
<1> QED
  BY <1>11, <1>12, <1>13, <1>14

\* An update closes a session, or changes one it does not move to another stream.
LEMMA UpdateOpensNone ==
    ASSUME FastInv, NEW n \in Nodes, NEW i \in DOMAIN fpSessions[n], Fp!Update(n, i)
    PROVE  \A k \in Nodes : NoneOpened(k, fpSessions[k], fpSessions'[k])
<1> DEFINE ss == fpSessions[n]
<1>1. DOMAIN fpSessions = Nodes /\ FastSessionsOK(n, ss)
  BY FastParts
<1>2. ss \in Seq(FastSession) /\ ss[i] \in FastSession
  <2>1. ss \in Seq(FastSession)
    BY <1>1 DEF FastSessionsOK
  <2> QED
    BY <2>1
<1>3. \E ss2 : NoneOpened(n, ss, ss2) /\ fpSessions' = [fpSessions EXCEPT ![n] = ss2]
  <2>1. ASSUME NEW ok, Fp!Close(n, i, ok)
        PROVE  \E ss2 : NoneOpened(n, ss, ss2) /\ fpSessions' = [fpSessions EXCEPT ![n] = ss2]
    <3>1. fpSessions' = [fpSessions EXCEPT ![n] = RemoveAt(ss, i)]
      BY <2>1 DEF Fp!Close, Fp!RemoveAt, RemoveAt
    <3> QED
      BY <1>2, <3>1, CloseOpensNone
  <2>2. ASSUME NEW b, fpSessions' = [fpSessions EXCEPT ![n] = [ss EXCEPT ![i] = [ss[i] EXCEPT !.bytes = b]]]
        PROVE  \E ss2 : NoneOpened(n, ss, ss2) /\ fpSessions' = [fpSessions EXCEPT ![n] = ss2]
    <3>1. SameEnds([ss[i] EXCEPT !.bytes = b], ss[i])
      BY <1>2 DEF SameEnds, FastSession
    <3>2. NoneOpened(n, ss, [ss EXCEPT ![i] = [ss[i] EXCEPT !.bytes = b]])
      BY <1>2, <3>1, ChangeOpensNone
    <3> QED
      BY <2>2, <3>2
  <2>3. CASE Fp!UpdateInvalid(n, i)
    BY <2>1, <2>3 DEF Fp!UpdateInvalid
  <2>4. CASE Fp!UpdateSend(n, i)
    <3>1. PICK r : /\ r = [ss[i] EXCEPT !.bytes = Fp!BytesAfter(ss[i], Fp!FramesThisUpdate(ss[i]))]
                   /\ IF Fp!get_number_of_remaining_packets(r) = 0 THEN Fp!Close(n, i, TRUE)
                      ELSE fpSessions' = [fpSessions EXCEPT ![n] = [ss EXCEPT ![i] = r]]
      BY <2>4 DEF Fp!UpdateSend
    <3> QED
      BY <2>1, <2>2, <3>1
  <2>5. CASE Fp!UpdateRefused(n, i)
    <3>1. PICK k \in 0..(Fp!FramesThisUpdate(ss[i]) - 1) :
             \/ Fp!Close(n, i, FALSE)
             \/ fpSessions' = [fpSessions EXCEPT ![n] = [ss EXCEPT ![i] =
                                 [ss[i] EXCEPT !.bytes = Fp!BytesAfter(ss[i], k)]]]
      BY <2>5 DEF Fp!UpdateRefused
    <3> QED
      BY <2>1, <2>2, <3>1
  <2>6. CASE Fp!UpdateTimeout(n, i)
    BY <2>1, <2>6 DEF Fp!UpdateTimeout
  <2> QED
    BY <2>3, <2>4, <2>5, <2>6 DEF Fp!Update
<1>4. PICK ss2 : NoneOpened(n, ss, ss2) /\ fpSessions' = [fpSessions EXCEPT ![n] = ss2]
  BY <1>3
<1>5. \A k \in Nodes : fpSessions'[k] = IF k = n THEN ss2 ELSE fpSessions[k]
  BY <1>1, <1>4
<1>6. ASSUME NEW k \in Nodes
      PROVE  NoneOpened(k, fpSessions[k], fpSessions[k])
  BY DEF NoneOpened, SameEnds
<1> QED
  BY <1>4, <1>5, <1>6

\* So a call under way stays as it was.
LEMMA CallsStay ==
    ASSUME FastInv, FastCallsOK, ToldAtMost, fpCalls' = fpCalls, scenario' = scenario,
           \A n \in Nodes : NoneOpened(n, fpSessions[n], fpSessions'[n])
    PROVE  FastCallsOK'
<1>1. Sendable' = Sendable
  BY DEF Sendable
<1>2. fpOutcome \in [FastMessages -> {"idle", "pending", "success", "failed"}]
  BY FastParts
<1>3. ASSUME NEW m \in fpCalls
      PROVE  /\ fpOutcome'[m] = "idle"
             /\ \A i \in DOMAIN fpSessions'[From[m]] : ~OfStream(fpSessions'[From[m]][i], m)
  <2>1. m \in Sendable /\ m \in FastMessages /\ From[m] \in Nodes
    BY <1>3, SendableFacts DEF FastCallsOK
  <2>2. /\ fpOutcome[m] = "idle"
        /\ \A i \in DOMAIN fpSessions[From[m]] : ~OfStream(fpSessions[From[m]][i], m)
    BY <1>3 DEF FastCallsOK
  <2>3. fpOutcome'[m] = "idle"
    <3>1. CASE fpOutcome' = fpOutcome
      BY <2>2, <3>1
    <3>2. ASSUME NEW m2 \in FastMessages, Told(m2)
          PROVE  fpOutcome'[m] = "idle"
      BY <1>2, <2>1, <2>2, <3>2 DEF Told
    <3> QED
      BY <3>1, <3>2 DEF ToldAtMost
  <2>4. ASSUME NEW i \in DOMAIN fpSessions'[From[m]], OfStream(fpSessions'[From[m]][i], m)
        PROVE  FALSE
    BY <2>1, <2>2, <2>4 DEF NoneOpened, SameEnds, OfStream
  <2> QED
    BY <2>3, <2>4
<1> QED
  BY <1>1, <1>3 DEF FastCallsOK

\* send_multipacket_message finds no session of the message's stream ...
LEMMA FastCheck ==
    ASSUME FastInv, FastCallsOK, OneSenderPerNode, NEW m \in FastMessages,
           Fp!MayRun(From[m]), Fp!SendCheck(m)
    PROVE  FastAfter /\ FastCallsOK' /\ UNCHANGED <<fpOutcome, fpDelivered>>
<1>1. /\ m \in scenario.messages /\ fpOutcome[m] = "idle" /\ Fp!Fits(Size[m])
      /\ \A c \in fpCalls : scenario.thread[c] # scenario.thread[m]
      /\ ~Fp!has_session(fpSessions[From[m]], Pgn[m], From[m], To[m])
      /\ fpCalls' = fpCalls \cup {m}
      /\ UNCHANGED <<fpSessions, fpInbox, fpOutcome, fpDelivered, faults, scenario>>
  BY DEF Fp!SendCheck
<1>2. m \in Sendable /\ From[m] \in Nodes
  <2>1. m \in Sendable
    BY <1>1 DEF Sendable
  <2> QED
    BY <2>1, SendableFacts
<1>3. /\ FastStateOK(fpSessions, fpInbox, fpDelivered, fpOutcome, faults.lost)
      /\ FastSessionsOK(From[m], fpSessions[From[m]]) /\ scenario \in Scenarios
  BY <1>2, FastParts
<1>4. \A i \in DOMAIN fpSessions[From[m]] : ~OfStream(fpSessions[From[m]][i], m)
  <2> DEFINE of(s) == s.pgn = Pgn[m] /\ s.src = From[m] /\ s.dst = To[m]
             i == Fp!get_session(fpSessions[From[m]], Pgn[m], From[m], To[m])
  <2>1. \/ i = 0 /\ \A j \in DOMAIN fpSessions[From[m]] : ~of(fpSessions[From[m]][j])
        \/ i \in DOMAIN fpSessions[From[m]] /\ i # 0 /\ of(fpSessions[From[m]][i])
    BY <1>3, FastGetSession
  <2>2. i = 0
    BY <1>1 DEF Fp!has_session
  <2> QED
    BY <2>1, <2>2 DEF OfStream
<1>5. \A c \in fpCalls : From[c] # From[m]
  <2>1. SUFFICES ASSUME NEW c \in fpCalls, From[c] = From[m] PROVE FALSE
    OBVIOUS
  <2>2. c \in Messages /\ m \in Messages
    BY <1>2, SendableFacts DEF FastCallsOK
  <2>3. scenario.threaded
    BY <2>1 DEF Fp!MayRun
  <2> QED
    BY <1>1, <1>3, <2>1, <2>2, <2>3 DEF OneSenderPerNode
<1>6. Sendable' = Sendable
  BY <1>1 DEF Sendable
<1>7. FastCallsOK'
  BY <1>1, <1>2, <1>4, <1>5, <1>6 DEF FastCallsOK
<1> QED
  BY <1>1, <1>3, <1>7 DEF FastAfter

\* ... and inserts one, where there still is none.
LEMMA FastInsert ==
    ASSUME FastInv, FastCallsOK, NEW m \in FastMessages, Fp!SendInsert(m)
    PROVE  /\ FastAfter /\ FastCallsOK' /\ fpOutcome[m] = "idle"
           /\ fpOutcome' = [fpOutcome EXCEPT ![m] = "pending"] /\ fpDelivered' = fpDelivered
<1>1. /\ m \in fpCalls /\ fpCalls' = fpCalls \ {m}
      /\ fpSessions' = [fpSessions EXCEPT ![From[m]] = Append(fpSessions[From[m]], Fp!TxSession(m))]
      /\ fpOutcome' = [fpOutcome EXCEPT ![m] = "pending"]
      /\ UNCHANGED <<fpInbox, fpDelivered, faults, scenario>>
  BY DEF Fp!SendInsert
<1>2. /\ m \in Sendable /\ fpOutcome[m] = "idle"
      /\ \A i \in DOMAIN fpSessions[From[m]] : ~OfStream(fpSessions[From[m]][i], m)
  BY <1>1 DEF FastCallsOK
<1>3. /\ FastStateOK(fpSessions, fpInbox, fpDelivered, fpOutcome, faults.lost)
      /\ DOMAIN fpSessions = Nodes
      /\ fpOutcome \in [FastMessages -> {"idle", "pending", "success", "failed"}]
  BY FastParts
<1>4. Fp!TxSession(m) = Outgoing(m, 0)
  BY DEF Fp!TxSession, Fp!NewSession, Outgoing, BytesIn
<1>5. FastStateOK(fpSessions', fpInbox, fpDelivered, fpOutcome', faults.lost)
  <2>1. fpSessions' = [fpSessions EXCEPT ![From[m]] = Append(fpSessions[From[m]], Outgoing(m, 0))]
    BY <1>1, <1>4
  <2> QED
    BY <1>1, <1>2, <1>3, <2>1, AcceptedStep
<1>6. Sendable' = Sendable
  BY <1>1 DEF Sendable
<1>7. ASSUME NEW c \in fpCalls, c # m
      PROVE  /\ fpOutcome'[c] = "idle"
             /\ \A i \in DOMAIN fpSessions'[From[c]] : ~OfStream(fpSessions'[From[c]][i], c)
  <2>1. c \in FastMessages /\ From[c] \in Nodes /\ From[c] # From[m]
    BY <1>1, <1>7, SendableFacts DEF FastCallsOK
  <2>2. fpOutcome'[c] = fpOutcome[c] /\ fpSessions'[From[c]] = fpSessions[From[c]]
    BY <1>1, <1>3, <1>7, <2>1
  <2> QED
    BY <1>7, <2>2 DEF FastCallsOK
<1>8. FastCallsOK'
  BY <1>1, <1>6, <1>7 DEF FastCallsOK
<1> QED
  BY <1>1, <1>2, <1>5, <1>8 DEF FastAfter

--------------------------------------------------------------------------------
\* All managers

\* No step changes the scenario: so the invariant after a step is that of the new state.
LEMMA FastStatePrimed ==
    ASSUME scenario' = scenario, FastAfter
    PROVE  FastStateOK(fpSessions, fpInbox, fpDelivered, fpOutcome, faults.lost)'
<1>1. /\ FastTypes(fpSessions', fpInbox', fpDelivered', fpOutcome')
      /\ SentPending(fpSessions', fpOutcome')
      /\ \A n \in Nodes : StreamOK(fpSessions', fpInbox', fpDelivered', fpOutcome', faults'.lost, n)
  BY DEF FastAfter, FastStateOK
<1>2. Sendable' = Sendable
  BY DEF Sendable
<1>3. FastTypes(fpSessions, fpInbox, fpDelivered, fpOutcome)'
  <2>1. \A n \in Nodes : FastSessionsOK(n, fpSessions[n])'
    BY <1>1, <1>2 DEF FastTypes, FastSessionsOK, Sending, Keeping
  <2>2. \A n \in Nodes : FastBoxOK(n, fpInbox[n])'
    BY <1>1, <1>2 DEF FastTypes, FastBoxOK
  <2>3. \A n \in Nodes : FastHandedOK(fpDelivered[n])'
    BY <1>1, <1>2 DEF FastTypes, FastHandedOK
  <2> QED
    BY <1>1, <2>1, <2>2, <2>3 DEF FastTypes
<1>4. SentPending(fpSessions, fpOutcome)'
  BY <1>1, <1>2 DEF SentPending
<1>5. ASSUME NEW n \in Nodes
      PROVE  StreamOK(fpSessions, fpInbox, fpDelivered, fpOutcome, faults.lost, n)'
  <2>1. /\ Chained(fpSessions', fpInbox', n) /\ Continued(fpSessions', fpInbox', n)
        /\ Increasing(fpSessions', fpInbox', n) /\ Ahead(fpSessions', fpInbox', n)
        /\ HandedOnce(fpSessions', fpInbox', fpDelivered', n)
        /\ NotYet(fpSessions', fpInbox', fpDelivered', fpOutcome', n)
        /\ Intact(faults'.lost) => Completed(fpSessions', fpInbox', n)
    BY <1>1 DEF StreamOK
  <2>2. Chained(fpSessions, fpInbox, n)'
    BY <1>2, <2>1 DEF Chained
  <2>3. Continued(fpSessions, fpInbox, n)'
    BY <1>2, <2>1 DEF Continued
  <2>4. Increasing(fpSessions, fpInbox, n)'
    BY <1>2, <2>1 DEF Increasing
  <2>5. Ahead(fpSessions, fpInbox, n)'
    BY <1>2, <2>1 DEF Ahead
  <2>6. HandedOnce(fpSessions, fpInbox, fpDelivered, n)'
    BY <1>2, <2>1 DEF HandedOnce, Nothing
  <2>7. NotYet(fpSessions, fpInbox, fpDelivered, fpOutcome, n)'
    BY <1>2, <2>1 DEF NotYet, Nothing
  <2>8. (Intact(faults.lost) => Completed(fpSessions, fpInbox, n))'
    BY <1>2, <2>1 DEF Intact, Completed
  <2> QED
    BY <2>2, <2>3, <2>4, <2>5, <2>6, <2>7, <2>8 DEF StreamOK
<1> QED
  BY <1>3, <1>4, <1>5 DEF FastStateOK

\* The faults of a step are counted: nothing takes them back.
FaultsMove ==
    \/ faults' = faults
    \/ faults' = [faults EXCEPT !.lost = faults.lost + 1]
    \/ faults' = [faults EXCEPT !.repeated = faults.repeated + 1]
    \/ faults' = [faults EXCEPT !.refused = faults.refused]
    \/ faults' = [faults EXCEPT !.refused = faults.refused + 1]
    \/ faults' = [faults EXCEPT !.address = faults.address + 1]
AddressMove ==
    valid' = valid \/ (faults.address < scenario.address /\ valid' \subseteq valid)

LEMMA ProtocolFaults ==
    ASSUME Next
    PROVE  FaultsMove /\ AddressMove /\ scenario' = scenario
<1>1. scenario' = scenario
  BY DEF Next
<1>2. ASSUME NEW n, NEW effect, NEW box, NEW ok, Perform(n, effect, box, ok)
      PROVE  FaultsMove
  BY <1>2, Zenon DEF Perform, FaultsMove
<1>3. ASSUME NEW n, NEW i, SendData(n, i)
      PROVE  FaultsMove /\ valid' = valid
  BY <1>3, Zenon DEF SendData, FaultsMove
<1>4. ASSUME NEW n \in Nodes, Network(n)
      PROVE  FaultsMove /\ AddressMove
  <2>1. CASE Receive(n)
    BY <1>2, <2>1, Zenon DEF Receive, AddressMove
  <2>2. ASSUME NEW i, Update(n, i)
        PROVE  FaultsMove /\ AddressMove
    <3>1. CASE UpdateInvalid(n, i)
      BY <1>2, <3>1, Zenon DEF UpdateInvalid, AddressMove
    <3>2. CASE UpdateAnnounce(n, i)
      BY <1>2, <3>2, Zenon DEF UpdateAnnounce, AddressMove
    <3>3. CASE UpdateData(n, i)
      BY <1>3, <3>3, Zenon DEF UpdateData, AddressMove
    <3>4. CASE UpdateTimeout(n, i)
      BY <1>2, <3>4, Zenon DEF UpdateTimeout, AddressMove
    <3> QED
      BY <2>2, <3>1, <3>2, <3>3, <3>4 DEF Update
  <2> QED
    BY <1>4, <2>1, <2>2 DEF Network
<1>5. ASSUME NEW t \in Threads, Transmit(t)
      PROVE  FaultsMove /\ AddressMove
  <2>1. CASE TransmitInsert(t)
    BY <2>1, Zenon DEF TransmitInsert, FaultsMove, AddressMove
  <2>2. CASE TransmitServe(t)
    BY <1>3, <2>2, Zenon DEF TransmitServe, FaultsMove, AddressMove
  <2>3. CASE TransmitSend(t)
    BY <1>2, <2>3, Zenon DEF TransmitSend, AddressMove
  <2>4. CASE TransmitSetState(t)
    BY <2>4, Zenon DEF TransmitSetState, FaultsMove, AddressMove
  <2> QED
    BY <1>5, <2>1, <2>2, <2>3, <2>4 DEF Transmit
<1>6. ASSUME NEW n \in Nodes, Bus(n)
      PROVE  FaultsMove /\ AddressMove
  BY <1>6, Zenon DEF Bus, Lose, Repeat, LoseAddress, FaultsMove, AddressMove
<1>7. ASSUME NEW m \in Messages, TransmitCheck(m)
      PROVE  FaultsMove /\ AddressMove
  BY <1>7, Zenon DEF TransmitCheck, FaultsMove, AddressMove
<1> QED
  BY <1>1, <1>4, <1>5, <1>6, <1>7 DEF Next, Work

LEMMA ExtendedFaults ==
    ASSUME Etp!Next
    PROVE  FaultsMove
<1>1. ASSUME NEW n, NEW effect, NEW box, NEW ok, Etp!Perform(n, effect, box, ok)
      PROVE  FaultsMove
  BY <1>1, Zenon DEF Etp!Perform, FaultsMove
<1>2. ASSUME NEW n \in Nodes, NEW i, Etp!Update(n, i)
      PROVE  FaultsMove
  <2>1. CASE Etp!UpdateInvalid(n, i)
    BY <1>1, <2>1, Zenon DEF Etp!UpdateInvalid
  <2>2. CASE Etp!UpdateAnnounce(n, i)
    BY <1>1, <2>2, Zenon DEF Etp!UpdateAnnounce
  <2>3. CASE Etp!UpdateData(n, i)
    BY <2>3, Zenon DEF Etp!UpdateData, FaultsMove
  <2>4. CASE Etp!UpdateTimeout(n, i)
    BY <1>1, <2>4, Zenon DEF Etp!UpdateTimeout
  <2> QED
    BY <1>2, <2>1, <2>2, <2>3, <2>4 DEF Etp!Update
<1>3. ASSUME NEW n \in Nodes, Etp!Receive(n)
      PROVE  FaultsMove
  BY <1>1, <1>3, Zenon DEF Etp!Receive
<1>4. ASSUME NEW n \in Nodes, Etp!Lose(n) \/ Etp!Repeat(n)
      PROVE  FaultsMove
  BY <1>4, Zenon DEF Etp!Lose, Etp!Repeat, FaultsMove
<1>5. ASSUME NEW m \in Messages \ FastMessages, Etp!Transmit(m)
      PROVE  FaultsMove
  BY <1>5, Zenon DEF Etp!Transmit, FaultsMove
<1> QED
  BY <1>2, <1>3, <1>4, <1>5, Zenon DEF Etp!Next, Etp!Work

LEMMA FastFaults ==
    ASSUME Fp!Next
    PROVE  FaultsMove
<1>1. ASSUME NEW n \in Nodes, Fp!Receive(n) \/ Fp!Lose(n)
      PROVE  FaultsMove
  BY <1>1, Zenon DEF Fp!Receive, Fp!Lose, FaultsMove
<1>2. ASSUME NEW n \in Nodes, NEW i, Fp!Update(n, i)
      PROVE  FaultsMove
  BY <1>2, Zenon DEF Fp!Update, Fp!UpdateInvalid, Fp!UpdateSend, Fp!UpdateRefused,
     Fp!UpdateTimeout, FaultsMove
<1>3. ASSUME NEW m \in FastMessages, Fp!SendCheck(m) \/ Fp!SendInsert(m)
      PROVE  FaultsMove
  BY <1>3, Zenon DEF Fp!SendCheck, Fp!SendInsert, FaultsMove
<1> QED
  BY <1>1, <1>2, <1>3, Zenon DEF Fp!Next, Fp!Work, Fp!Network

LEMMA FaultsKept ==
    ASSUME FaultsCounted, AllNext
    PROVE  /\ FaultsCounted' /\ scenario' = scenario /\ faults'.lost >= faults.lost
           /\ valid' \subseteq valid
<1>1. FaultsMove /\ AddressMove /\ scenario' = scenario
  <2>1. CASE TpStep
    BY <2>1, ProtocolFaults DEF TpStep
  <2>2. CASE EtpStep \/ FpStep \/ InterfaceStep
    <3>1. valid' = valid /\ scenario' = scenario
      BY <2>2, OthersKeep
    <3>2. FaultsMove
      <4>1. CASE EtpStep
        BY <4>1, ExtendedFaults DEF EtpStep
      <4>2. CASE FpStep
        BY <4>2, FastFaults DEF FpStep
      <4>3. CASE InterfaceStep
        BY <4>3 DEF InterfaceStep, vars, FaultsMove
      <4> QED
        BY <2>2, <4>1, <4>2, <4>3
    <3> QED
      BY <3>1, <3>2 DEF AddressMove
  <2> QED
    BY <2>1, <2>2 DEF AllNext
<1>2. /\ faults \in [lost : Nat, repeated : Nat, refused : Nat, address : Nat]
      /\ scenario \in Scenarios
      /\ scenario.address = 0 => valid = Nodes
  BY DEF FaultsCounted
<1>3. /\ faults' \in [lost : Nat, repeated : Nat, refused : Nat, address : Nat]
      /\ faults'.lost >= faults.lost
  BY <1>1, <1>2 DEF FaultsMove
<1>4. scenario.address = 0 => valid' = Nodes
  <2>1. faults.address \in Nat
    BY <1>2
  <2>2. scenario.address = 0 => valid' = valid
    BY <1>1, <2>1 DEF AddressMove
  <2> QED
    BY <1>2, <2>2
<1>5. valid' \subseteq valid
  BY <1>1 DEF AddressMove
<1> QED
  BY <1>1, <1>2, <1>3, <1>4, <1>5 DEF FaultsCounted

--------------------------------------------------------------------------------
\* The steps of MessageTransfer

\* A message is the only one that looks like itself.
LEMMA NamedWhole ==
    ASSUME NEW m \in Sendable
    PROVE  Named(Fp!Whole(m)) = m
<1>1. m \in FastMessages
  BY SendableFacts
<1>2. ASSUME NEW m2 \in FastMessages, Fp!Whole(m) = Fp!Whole(m2)
      PROVE  m2 = m
  <2>1. Size[m2] = Size[m]
    BY <1>2 DEF Fp!Whole
  <2>2. Fp!Whole(m2).data = [k \in 1..Parts(m) |-> <<m2, k>>]
    BY <2>1 DEF Fp!Whole, Parts
  <2>3. Fp!Whole(m).data = [k \in 1..Parts(m) |-> <<m, k>>]
    BY DEF Fp!Whole, Parts
  <2>4. 1 \in 1..Parts(m)
    BY PartsFacts
  <2> QED
    BY <1>2, <2>2, <2>3, <2>4
<1> QED
  BY <1>1, <1>2 DEF Named

\* A receive callback hands over what MessageTransfer delivers.
LEMMA DeliveredRefines ==
    ASSUME FastInv, NEW n \in Nodes, NEW m \in Sendable, Gets(n, m),
           fpOutcome[m] # "idle", ~Given(fpDelivered, n, m),
           fpDelivered' = [fpDelivered EXCEPT ![n] = Append(fpDelivered[n], Fp!Whole(m))],
           fpOutcome' = fpOutcome
    PROVE  Fp!Transfer!Deliver(m, n)
<1>1. DOMAIN fpDelivered = Nodes /\ FastHandedOK(fpDelivered[n])
  BY FastParts
<1>2. /\ fpDelivered[n] \in Seq(FastHanded)
      /\ \A i \in DOMAIN fpDelivered[n] : \E m2 \in Sendable : fpDelivered[n][i] = Fp!Whole(m2)
  BY <1>1 DEF FastHandedOK
<1>3. n # From[m]
  BY SendableFacts
<1>4. \A i \in DOMAIN fpDelivered[n] : Named(fpDelivered[n][i]) # m
  <2>1. SUFFICES ASSUME NEW i \in DOMAIN fpDelivered[n], Named(fpDelivered[n][i]) = m
                 PROVE  FALSE
    OBVIOUS
  <2>2. PICK m2 \in Sendable : fpDelivered[n][i] = Fp!Whole(m2)
    BY <1>2
  <2>3. m2 = m
    BY <2>1, <2>2, NamedWhole
  <2> QED
    BY <2>2, <2>3 DEF Given
<1>5. DOMAIN NamesOf = Nodes /\ \A k \in Nodes : NamesOf[k] = [i \in DOMAIN fpDelivered[k] |-> Named(fpDelivered[k][i])]
  BY DEF NamesOf
<1>6. m \notin Fp!Transfer!Range(NamesOf[n])
  BY <1>4, <1>5 DEF Fp!Transfer!Range
<1>7. NamesOf' = [NamesOf EXCEPT ![n] = Append(NamesOf[n], m)]
  <2>1. NamesOf' = [k \in Nodes |-> [i \in DOMAIN fpDelivered'[k] |-> Named(fpDelivered'[k][i])]]
    BY DEF NamesOf
  <2>2. ASSUME NEW k \in Nodes, k # n
        PROVE  NamesOf'[k] = NamesOf[k]
    BY <1>1, <1>5, <2>1, <2>2
  <2>3. NamesOf'[n] = Append(NamesOf[n], m)
    <3> DEFINE given == fpDelivered[n]
               more == Append(given, Fp!Whole(m))
    <3>1. /\ NamesOf'[n] = [i \in DOMAIN more |-> Named(more[i])]
          /\ NamesOf[n] = [i \in DOMAIN given |-> Named(given[i])]
      BY <1>1, <1>5, <2>1
    <3>2. given \in Seq(FastHanded) /\ Len(given) \in Nat /\ DOMAIN given = 1..Len(given)
      BY <1>2
    <3>3. /\ DOMAIN more = 1..(Len(given) + 1)
          /\ \A i \in 1..Len(given) : more[i] = given[i]
          /\ more[Len(given) + 1] = Fp!Whole(m)
      BY <3>2
    <3>4. Named(Fp!Whole(m)) = m
      BY NamedWhole
    <3>5. NamesOf[n] = [i \in 1..Len(given) |-> Named(given[i])]
      BY <3>1, <3>2
    <3>6. NamesOf'[n] = [i \in 1..(Len(given) + 1) |-> Named(more[i])]
      BY <3>1, <3>3
    <3>7. Len(NamesOf[n]) = Len(given)
      BY <3>2, <3>5
    <3>8. NamesOf[n] \in Seq(FastMessages \cup {"garbled"})
      <4>1. \A d : Named(d) \in FastMessages \cup {"garbled"}
        BY DEF Named
      <4> QED
        BY <3>2, <3>5, <4>1
    <3>9. Append(NamesOf[n], m) = [i \in 1..(Len(given) + 1) |-> IF i = Len(given) + 1 THEN m ELSE NamesOf[n][i]]
      BY <3>7, <3>8, Appended
    <3>10. \A i \in 1..(Len(given) + 1) : i # Len(given) + 1 => i \in 1..Len(given)
      BY <3>2
    <3> HIDE DEF given, more
    <3>11. ASSUME NEW i \in 1..(Len(given) + 1)
           PROVE  Named(more[i]) = IF i = Len(given) + 1 THEN m ELSE NamesOf[n][i]
      BY <3>3, <3>4, <3>5, <3>10
    <3> QED
      BY <3>6, <3>9, <3>11
  <2>4. /\ NamesOf = [k \in Nodes |-> NamesOf[k]]
        /\ NamesOf' = [k \in Nodes |-> NamesOf'[k]]
    BY <1>5, <2>1 DEF NamesOf
  <2> QED
    BY ONLY <2>2, <2>3, <2>4, n \in Nodes
<1>8. n \in Fp!Transfer!Receivers(m)
  BY <1>3, SendableFacts DEF Fp!Transfer!Receivers
<1> QED
  BY <1>6, <1>7, <1>8 DEF Fp!Transfer!Deliver, NamesOf, Named

\* The three kinds of steps of MessageTransfer besides Deliver.
LEMMA NamesKept ==
    ASSUME FastInv, \A k \in Nodes : fpDelivered'[k] = fpDelivered[k]
    PROVE  NamesOf' = NamesOf
BY Zenon DEF NamesOf

LEMMA ToldRefines ==
    ASSUME FastInv, NEW m \in FastMessages, Told(m), fpDelivered' = fpDelivered
    PROVE  Fp!Transfer!Next
<1>1. NamesOf' = NamesOf
  BY NamesKept
<1>2. PICK v \in {"success", "failed"} : fpOutcome' = [fpOutcome EXCEPT ![m] = v]
  BY DEF Told
<1>3. Fp!Transfer!Finish(m, v)
  BY <1>1, <1>2 DEF Told, Fp!Transfer!Finish, NamesOf, Named
<1> QED
  BY <1>3 DEF Fp!Transfer!Next

\* An update of a fast packet session.
LEMMA FastUpdate ==
    ASSUME FastInv, NEW n \in Nodes, NEW i \in DOMAIN fpSessions[n], Fp!Update(n, i)
    PROVE  FastAfter /\ ToldAtMost /\ fpDelivered' = fpDelivered
<1>1. CASE Fp!UpdateInvalid(n, i)
  <2>1. fpDelivered' = fpDelivered
    BY <1>1, Zenon DEF Fp!UpdateInvalid
  <2> QED
    BY <1>1, <2>1, FastUpdateInvalid
<1>2. CASE Fp!UpdateSend(n, i)
  <2>1. fpDelivered' = fpDelivered
    BY <1>2, Zenon DEF Fp!UpdateSend
  <2> QED
    BY <1>2, <2>1, FastUpdateSend
<1>3. CASE Fp!UpdateRefused(n, i)
  <2>1. fpDelivered' = fpDelivered
    BY <1>3, Zenon DEF Fp!UpdateRefused
  <2> QED
    BY <1>3, <2>1, FastUpdateRefused
<1>4. CASE Fp!UpdateTimeout(n, i)
  <2>1. /\ fpSessions[n][i].dir = "rx" /\ Fp!Close(n, i, FALSE)
        /\ UNCHANGED <<fpInbox, fpDelivered, faults>>
    BY <1>4, Zenon DEF Fp!UpdateTimeout
  <2> QED
    BY <2>1, FastClosed
<1> QED
  BY <1>1, <1>2, <1>3, <1>4 DEF Fp!Update

\* What was reported as failed stays so, and is reported again only after the loss of
\* an address.
FailedStays ==
    \A m \in FastMessages : fpOutcome[m] = "failed" => fpOutcome'[m] = "failed"

LEMMA AnswersStay ==
    ASSUME AnswersOK, FailedStays, valid' \subseteq valid,
           \A m \in fpTwice' :
              \/ m \in fpTwice
              \/ /\ m \in FastMessages /\ fpOutcome'[m] = "failed"
                 /\ ~Fp!AddressesValid(Fp!TxSession(m))
    PROVE  AnswersOK'
<1>1. ASSUME NEW m \in FastMessages, ~Fp!AddressesValid(Fp!TxSession(m))
      PROVE  ~Fp!AddressesValid(Fp!TxSession(m))'
  BY <1>1 DEF Fp!AddressesValid, Fp!TxSession, Fp!NewSession
<1> QED
  BY <1>1 DEF AnswersOK, Fp!ToldAgain, FailedStays

LEMMA ToldFails ==
    ASSUME FastInv, ToldAtMost PROVE FailedStays
<1>1. fpOutcome \in [FastMessages -> {"idle", "pending", "success", "failed"}]
  BY FastParts
<1> QED
  BY <1>1 DEF ToldAtMost, Told, FailedStays

LEMMA UpdateAnswers ==
    ASSUME FastInv, AnswersOK, NEW n \in Nodes, NEW i \in DOMAIN fpSessions[n], Fp!Update(n, i),
           ToldAtMost, valid' = valid
    PROVE  AnswersOK'
<1>1. FailedStays
  BY ToldFails
<1>2. CASE Fp!UpdateInvalid(n, i) /\ fpTwice' # fpTwice
  <2>1. /\ fpSessions[n][i].dir = "tx" /\ fpTwice' = fpTwice \cup {fpSessions[n][i].msg}
        /\ ~Fp!AddressesValid(fpSessions[n][i]) /\ Fp!Close(n, i, FALSE)
    BY <1>2 DEF Fp!UpdateInvalid
  <2>2. PICK m \in Sendable, c \in Nat : fpSessions[n][i] = Outgoing(m, c)
    BY <2>1, SendingSession
  <2>3. fpSessions[n][i].msg = m /\ ~Fp!AddressesValid(Fp!TxSession(m))
    BY <2>1, <2>2 DEF Outgoing, Fp!AddressesValid, Fp!TxSession, Fp!NewSession
  <2>4. m \in FastMessages /\ fpOutcome \in [FastMessages -> {"idle", "pending", "success", "failed"}]
    BY SendableFacts, FastParts
  <2>5. fpOutcome'[m] = "failed"
    BY <2>1, <2>3, <2>4 DEF Fp!Close
  <2> QED
    BY <1>1, <2>1, <2>3, <2>4, <2>5, AnswersStay
<1>3. CASE fpTwice' = fpTwice
  BY <1>1, <1>3, AnswersStay
<1>4. CASE Fp!UpdateSend(n, i) \/ Fp!UpdateRefused(n, i) \/ Fp!UpdateTimeout(n, i)
  <2>1. fpTwice' = fpTwice
    BY <1>4, Zenon DEF Fp!UpdateSend, Fp!UpdateRefused, Fp!UpdateTimeout
  <2> QED
    BY <1>3, <2>1
<1> QED
  BY <1>2, <1>3, <1>4 DEF Fp!Update

\* Every step keeps the invariant and is a step of MessageTransfer, or none.
FastGoesOn ==
    /\ FastAfter /\ FastCallsOK' /\ AnswersOK'
    /\ [Fp!Transfer!Next]_<<fpOutcome, NamesOf>>

LEMMA FastStep ==
    ASSUME FewLosses, OneSenderPerNode, FastInv, FastCallsOK, AnswersOK, Fp!Next,
           valid' = valid, scenario' = scenario
    PROVE  FastGoesOn
<1>0. ASSUME FailedStays, fpTwice' = fpTwice
      PROVE  AnswersOK'
  BY <1>0, AnswersStay
<1>1. ASSUME NEW n \in Nodes, Fp!Receive(n)
      PROVE  FastGoesOn
  <2>1. /\ FastAfter
        /\ \/ \A k \in Nodes : fpDelivered'[k] = fpDelivered[k]
           \/ \E m \in Sendable : /\ Gets(n, m) /\ fpOutcome[m] # "idle" /\ ~Given(fpDelivered, n, m)
                                  /\ fpDelivered' = [fpDelivered EXCEPT ![n] = Append(fpDelivered[n], Fp!Whole(m))]
    BY <1>1, FastReceive
  <2>2. fpOutcome' = fpOutcome /\ fpCalls' = fpCalls /\ fpTwice' = fpTwice
    BY <1>1 DEF Fp!Receive
  <2>3. ASSUME NEW m \in Sendable, Gets(n, m), fpOutcome[m] # "idle", ~Given(fpDelivered, n, m),
               fpDelivered' = [fpDelivered EXCEPT ![n] = Append(fpDelivered[n], Fp!Whole(m))]
        PROVE  Fp!Transfer!Next
    <3>1. Fp!Transfer!Deliver(m, n)
      BY <2>2, <2>3, DeliveredRefines
    <3> QED
      BY <3>1, SendableFacts DEF Fp!Transfer!Next
  <2>4. [Fp!Transfer!Next]_<<fpOutcome, NamesOf>>
    BY <2>1, <2>2, <2>3, NamesKept
  <2>5. ToldAtMost /\ FailedStays
    BY <2>2 DEF ToldAtMost, FailedStays
  <2>6. FastCallsOK'
    BY <1>1, <2>2, <2>5, ReceiveOpensNone, CallsStay
  <2> QED
    BY <1>0, <2>1, <2>2, <2>4, <2>5, <2>6 DEF FastGoesOn
<1>2. ASSUME NEW n \in Nodes, NEW i \in DOMAIN fpSessions[n], Fp!Update(n, i)
      PROVE  FastGoesOn
  <2>1. FastAfter /\ ToldAtMost /\ fpDelivered' = fpDelivered
    BY <1>2, FastUpdate
  <2>2. NamesOf' = NamesOf
    BY <2>1, NamesKept
  <2>3. fpCalls' = fpCalls
    BY <1>2, Zenon DEF Fp!Update, Fp!UpdateInvalid, Fp!UpdateSend, Fp!UpdateRefused, Fp!UpdateTimeout
  <2>4. FastCallsOK' /\ AnswersOK'
    BY <1>2, <2>1, <2>3, UpdateOpensNone, CallsStay, UpdateAnswers
  <2> QED
    BY <2>1, <2>2, <2>4, ToldRefines DEF ToldAtMost, FastGoesOn
<1>3. ASSUME NEW n \in Nodes, Fp!Lose(n)
      PROVE  FastGoesOn
  <2>1. /\ fpDelivered' = fpDelivered /\ fpOutcome' = fpOutcome /\ fpSessions' = fpSessions
        /\ fpCalls' = fpCalls /\ fpTwice' = fpTwice
    BY <1>3 DEF Fp!Lose
  <2>2. ToldAtMost /\ FailedStays /\ \A k \in Nodes : NoneOpened(k, fpSessions[k], fpSessions'[k])
    BY <2>1 DEF ToldAtMost, FailedStays, NoneOpened, SameEnds
  <2>3. FastCallsOK'
    BY <2>1, <2>2, CallsStay
  <2> QED
    BY <1>0, <1>3, <2>1, <2>2, <2>3, FastLose, NamesKept DEF FastGoesOn
<1>4. ASSUME NEW m \in FastMessages, Fp!MayRun(From[m]), Fp!SendCheck(m)
      PROVE  FastGoesOn
  <2>1. FastAfter /\ FastCallsOK' /\ fpOutcome' = fpOutcome /\ fpDelivered' = fpDelivered
    BY <1>4, FastCheck
  <2>2. fpTwice' = fpTwice
    BY <1>4 DEF Fp!SendCheck
  <2>3. FailedStays
    BY <2>1 DEF FailedStays
  <2> QED
    BY <1>0, <2>1, <2>2, <2>3, NamesKept DEF FastGoesOn
<1>5. ASSUME NEW m \in FastMessages, Fp!SendInsert(m)
      PROVE  FastGoesOn
  <2>1. /\ FastAfter /\ FastCallsOK' /\ fpOutcome[m] = "idle"
        /\ fpOutcome' = [fpOutcome EXCEPT ![m] = "pending"] /\ fpDelivered' = fpDelivered
    BY <1>5, FastInsert
  <2>2. fpTwice' = fpTwice
    BY <1>5 DEF Fp!SendInsert
  <2>3. NamesOf' = NamesOf
    BY <2>1, NamesKept
  <2>4. Fp!Transfer!Accept(m)
    BY <2>1, <2>3 DEF Fp!Transfer!Accept, NamesOf, Named
  <2>5. FailedStays
    <3>1. fpOutcome \in [FastMessages -> {"idle", "pending", "success", "failed"}]
      BY FastParts
    <3> QED
      BY <2>1, <3>1 DEF FailedStays
  <2> QED
    BY <1>0, <2>1, <2>2, <2>4, <2>5 DEF Fp!Transfer!Next, FastGoesOn
<1> QED
  BY <1>1, <1>2, <1>3, <1>4, <1>5 DEF Fp!Next, Fp!Work, Fp!Network

\* The other managers leave fast packets alone; a frame they lose interrupts none.
LEMMA OthersLeave ==
    ASSUME FastInv, FastCallsOK, AnswersOK, UNCHANGED fpVars, scenario' = scenario,
           valid' \subseteq valid, faults'.lost >= faults.lost, faults'.lost \in Nat
    PROVE  FastGoesOn
<1>1. /\ fpSessions' = fpSessions /\ fpInbox' = fpInbox /\ fpDelivered' = fpDelivered
      /\ fpOutcome' = fpOutcome /\ fpCalls' = fpCalls /\ fpTwice' = fpTwice
  BY DEF fpVars
<1>2. FastStateOK(fpSessions, fpInbox, fpDelivered, fpOutcome, faults.lost)
  BY FastParts
<1>3. Intact(faults'.lost) => Intact(faults.lost)
  <2>1. faults.lost \in Nat
    BY FastParts
  <2> QED
    BY <2>1 DEF Intact
<1>4. FastStateOK(fpSessions, fpInbox, fpDelivered, fpOutcome, faults'.lost)
  BY <1>2, <1>3 DEF FastStateOK, StreamOK
<1>5. Sendable' = Sendable
  BY DEF Sendable
<1>6. FastCallsOK'
  BY <1>1, <1>5 DEF FastCallsOK
<1>7. AnswersOK'
  <2>1. FailedStays
    BY <1>1 DEF FailedStays
  <2> QED
    BY <1>1, <2>1, AnswersStay
<1> QED
  BY <1>1, <1>4, <1>6, <1>7, NamesKept DEF FastAfter, FastGoesOn

LEMMA FastStarts == AllInit => FastInv /\ FastCallsOK /\ AnswersOK /\ Fp!Transfer!Init
<1> SUFFICES ASSUME AllInit PROVE FastInv /\ FastCallsOK /\ AnswersOK /\ Fp!Transfer!Init
  OBVIOUS
<1>0. DOMAIN <<>> = {} /\ \A X : <<>> \in Seq(X)
  OBVIOUS
<1>1. /\ fpSessions = [n \in Nodes |-> <<>>] /\ fpInbox = [n \in Nodes |-> <<>>]
      /\ fpDelivered = [n \in Nodes |-> <<>>] /\ fpOutcome = [m \in FastMessages |-> "idle"]
      /\ valid = Nodes /\ scenario \in Scenarios /\ fpCalls = {} /\ fpTwice = {}
      /\ faults = [lost |-> 0, repeated |-> 0, refused |-> 0, address |-> 0]
  BY DEF AllInit, Init, Fp!Init
<1>2. FaultsCounted
  BY <1>1 DEF FaultsCounted
<1>3. \A n \in Nodes, m \in Sendable : From[m] \in Nodes
  BY SendableFacts
<1>4. \A m \in Sendable, c \in Nat : ~Sends(fpSessions, m, c)
  BY <1>1, SendableFacts DEF Sends
<1>5. ASSUME NEW n \in Nodes
      PROVE  /\ fpInbox[n] = <<>> /\ fpSessions[n] = <<>> /\ fpDelivered[n] = <<>>
             /\ \A m \in Sendable, c, j \in Nat : ~Due(fpSessions, fpInbox, n, m, c, j)
             /\ \A m, d : ~Keeps(fpSessions, n, m, d)
             /\ \A m : ~Given(fpDelivered, n, m)
  BY <1>1, <1>4 DEF Due, Keeps, Given
<1>6. FastTypes(fpSessions, fpInbox, fpDelivered, fpOutcome)
  <2>1. \A n \in Nodes : FastSessionsOK(n, fpSessions[n])
    <3>1. ASSUME NEW n PROVE FastSessionsOK(n, <<>>)
      BY <1>0 DEF FastSessionsOK
    <3> QED
      BY <1>5, <3>1
  <2>2. \A n \in Nodes : FastBoxOK(n, fpInbox[n])
    <3>1. ASSUME NEW n PROVE FastBoxOK(n, <<>>)
      BY <1>0 DEF FastBoxOK
    <3> QED
      BY <1>5, <3>1
  <2>3. \A n \in Nodes : FastHandedOK(fpDelivered[n])
    <3>1. ASSUME NEW n PROVE FastHandedOK(<<>>)
      BY <1>0 DEF FastHandedOK
    <3> QED
      BY <1>5, <3>1
  <2> QED
    BY <1>1, <2>1, <2>2, <2>3 DEF FastTypes
<1>7. ASSUME NEW n \in Nodes
      PROVE  StreamOK(fpSessions, fpInbox, fpDelivered, fpOutcome, faults.lost, n)
  <2>1. Chained(fpSessions, fpInbox, n) /\ Continued(fpSessions, fpInbox, n)
    BY <1>5 DEF Chained, Continued
  <2>2. Increasing(fpSessions, fpInbox, n) /\ Ahead(fpSessions, fpInbox, n)
    BY <1>5 DEF Increasing, Ahead
  <2>3. HandedOnce(fpSessions, fpInbox, fpDelivered, n)
    BY <1>5 DEF HandedOnce
  <2>4. NotYet(fpSessions, fpInbox, fpDelivered, fpOutcome, n)
    BY <1>5 DEF NotYet, Nothing
  <2>5. Completed(fpSessions, fpInbox, n)
    BY <1>5 DEF Completed
  <2> QED
    BY <2>1, <2>2, <2>3, <2>4, <2>5 DEF StreamOK
<1>8. SentPending(fpSessions, fpOutcome)
  BY <1>4 DEF SentPending
<1>9. FastInv
  BY <1>2, <1>6, <1>7, <1>8 DEF FastInv, FastStateOK
<1>10. NamesOf = [n \in Nodes |-> <<>>]
  <2>1. ASSUME NEW n \in Nodes
        PROVE  [i \in DOMAIN fpDelivered[n] |-> Named(fpDelivered[n][i])] = <<>>
    BY <1>5
  <2> QED
    BY <2>1 DEF NamesOf
<1>11. Fp!Transfer!Init
  BY <1>1, <1>10 DEF Fp!Transfer!Init, NamesOf, Named
<1>12. FastCallsOK /\ AnswersOK
  BY <1>1 DEF FastCallsOK, AnswersOK, Fp!ToldAgain
<1> QED
  BY <1>9, <1>11, <1>12

LEMMA FastKept ==
    ASSUME FewLosses, OneSenderPerNode, FastInv, FastCallsOK, AnswersOK, [AllNext]_allVars
    PROVE  FastInv' /\ FastCallsOK' /\ AnswersOK' /\ [Fp!Transfer!Next]_<<fpOutcome, NamesOf>>
<1>1. CASE AllNext
  <2>1. /\ FaultsCounted' /\ scenario' = scenario /\ faults'.lost >= faults.lost
        /\ valid' \subseteq valid
    BY <1>1, FaultsKept DEF FastInv
  <2>2. FastGoesOn
    <3>1. CASE FpStep
      <4>1. Fp!Next /\ valid' = valid
        BY <3>1, OthersKeep DEF FpStep
      <4> QED
        BY <2>1, <4>1, FastStep
    <3>2. CASE TpStep \/ EtpStep \/ InterfaceStep
      <4>1. UNCHANGED fpVars
        BY <3>2 DEF TpStep, EtpStep, InterfaceStep
      <4>2. faults'.lost \in Nat
        BY <2>1 DEF FaultsCounted
      <4> QED
        BY <2>1, <4>1, <4>2, OthersLeave
    <3> QED
      BY <1>1, <3>1, <3>2 DEF AllNext
  <2>3. FastStateOK(fpSessions, fpInbox, fpDelivered, fpOutcome, faults.lost)'
    BY <2>1, <2>2, FastStatePrimed DEF FastGoesOn
  <2> QED
    BY <2>1, <2>2, <2>3 DEF FastInv, FastGoesOn
<1>2. CASE UNCHANGED allVars
  <2>1. UNCHANGED fpVars /\ faults' = faults /\ scenario' = scenario /\ valid' = valid
    BY <1>2 DEF allVars, vars
  <2>2. faults'.lost \in Nat /\ faults'.lost >= faults.lost
    BY <2>1, FastParts
  <2>3. FastGoesOn
    BY <2>1, <2>2, OthersLeave
  <2>4. FastStateOK(fpSessions, fpInbox, fpDelivered, fpOutcome, faults.lost)'
    BY <2>1, <2>3, FastStatePrimed DEF FastGoesOn
  <2>5. FaultsCounted'
    BY <2>1 DEF FastInv, FaultsCounted
  <2> QED
    BY <2>3, <2>4, <2>5 DEF FastInv, FastGoesOn
<1> QED
  BY <1>1, <1>2

\* Fast packets implement MessageTransfer while no more than one frame is lost and one
\* thread sends a node's messages: what a node hands over is a message whole, as it was
\* submitted, once and to a node it is meant for, whatever the sizes, the order of the
\* frames, the steps of a call and the network thread and the traffic of the other
\* managers.  The first answer to a message is final; it may be given twice, when it
\* says "failed" and an address was lost.  With two lost frames the packets of two
\* messages may be taken for one (the number in a frame is not compared).
THEOREM FastPacketsImplementTransfer ==
    ASSUME FewLosses, OneSenderPerNode PROVE AllSpec => FastTransferSpec
<1> DEFINE Inv == FastInv /\ FastCallsOK /\ AnswersOK
<1>1. AllInit => Inv /\ Fp!Transfer!Init
  BY FastStarts
<1>2. Inv /\ [AllNext]_allVars => Inv'
  BY FastKept
<1>3. Inv /\ [AllNext]_allVars => [Fp!Transfer!Next]_<<fpOutcome, NamesOf>>
  BY FastKept
<1>4. Inv => Fp!ToldAgain
  BY DEF AnswersOK
<1> HIDE DEF Inv
<1> QED
  BY <1>1, <1>2, <1>3, <1>4, PTL DEF AllSpec, FastTransferSpec, Fp!Transfer!Spec, NamesOf, Named
=============================================================================
