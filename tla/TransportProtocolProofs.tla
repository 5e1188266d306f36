---------------------- MODULE TransportProtocolProofs ----------------------
(***************************************************************************)
(* Proofs about can_transport_protocol.cpp, beside the other managers: the *)
(* types of its sessions and frames, and one session per pair of nodes.    *)
(*                                                                         *)
(* TransportInv is inductive.  Beyond the two properties it says which     *)
(* states belong to which direction (a DATA, CTS or EOMA frame meets the   *)
(* right kind of session only because of that), where the frames on the    *)
(* bus come from and go to, and that a thread between its has_session      *)
(* check and the insertion is alone at its node and its pair still free.   *)
(*                                                                         *)
(* The last part is about can_hardware_interface.cpp and the queues of     *)
(* thread_synchronization.hpp below them: the interface hands every frame  *)
(* on, once and in order, for queues and passes of any length and any      *)
(* number of threads.  The contents of a ring are a sequence, which a      *)
(* store at the write index extends, a pop shortens and a clear empties.   *)
(* The receive thread asks for room before it takes a frame, and only it   *)
(* writes; a thread that sends alone still finds the index it loaded to be *)
(* the write index when it stores.  A frame that was given or written      *)
(* stays in its queue until the pop, and no stop comes between.            *)
(***************************************************************************)
EXTENDS NetworkTransports, FiniteSetTheorems, TLAPS

--------------------------------------------------------------------------------
\* The parts of the invariant

\* The states update_state_machine serves at the sending and at the receiving end.
SendingStates == {"SendBroadcastAnnounce", "SendRequestToSend",
                  "SendDataTransferPackets", "WaitForClearToSend",
                  "WaitForEndOfMessageAcknowledge"}
ReceivingStates == {"SendClearToSend", "WaitForDataTransferPacket"}

Names == Messages \cup {"none"}
Ends == Nodes \cup {Global}
Pgns == {Pgn[m] : m \in Messages} \cup {0}
Sizes == 9..MAX_PROTOCOL_DATA_LENGTH

\* The records sessions and frames are.
Session ==
    [dir : {"tx", "rx"}, src : Nodes, dst : Ends, pgn : Pgns, size : Sizes,
     limit : Counter, state : SendingStates \cup ReceivingStates,
     last : Counter, ack : Counter, cts : Counter, data : Seq(Packets), msg : Names]

Frames ==
    [kind : {"BAM", "RTS", "CTS", "EOMA", "ABORT", "DATA"}, src : Nodes, dst : Ends,
     pgn : Pgns, size : Sizes \cup {0}, count : Counter, number : Counter, msg : Names]

\* What canMessageReceivedCallback is given, and what a handler may leave.
Handed == [src : Nodes, pgn : Pgns, size : Sizes, data : Seq(Packets)]

Effects == [ss : Seq(Session), out : Seq(Frames),
            done : SUBSET (Names \X BOOLEAN), rcv : Seq(Handed)]

\* A session between two ends; a list with one per pair; its receptions.
SamePair(s, src, dst) == s.src = src /\ s.dst = dst
Held(ss, src, dst) == \E i \in DOMAIN ss : SamePair(ss[i], src, dst)
Distinct(ss) == \A i, j \in DOMAIN ss : SamePair(ss[i], ss[j].src, ss[j].dst) => i = j
Receptions(ss) == {i \in DOMAIN ss : ss[i].dir = "rx"}

\* A session node n may hold: its own transmission, as it was submitted, or a
\* reception from somebody else, with no window when it is a broadcast one.
SessionOK(n, s) ==
    /\ s \in Session
    /\ s.dir = "tx" =>
          /\ s.msg \in Messages /\ s.src = n /\ From[s.msg] = n /\ s.dst = To[s.msg]
          /\ s.state \in SendingStates /\ s.data = <<>>
    /\ s.dir = "rx" =>
          /\ s.msg = "none" /\ s.src # n /\ s.dst \in {n, Global}
          /\ s.state \in ReceivingStates /\ Len(s.data) <= s.last
          /\ s.dst = Global => /\ s.ack = 0 /\ s.cts = 0
                               /\ s.state = "WaitForDataTransferPacket"

\* The frames a handler of node n sends, and those on their way to a node.
FrameOK(n, f) ==
    /\ f \in Frames /\ f.src = n /\ f.dst # n
    /\ f.kind \in {"BAM", "RTS"} => f.size \in Sizes

OutOK(n, out) ==
    /\ out \in Seq(Frames)
    /\ \A i \in DOMAIN out : FrameOK(n, out[i]) /\ out[i].dst = out[1].dst

ArrivingOK(n, f) ==
    /\ f \in Frames /\ f.src # n /\ f.dst \in {n, Global}
    /\ f.kind \in {"BAM", "RTS"} => f.size \in Sizes

\* The list activeSessions of one manager.
SessionsOK(n, ss) ==
    /\ ss \in Seq(Session)
    /\ \A i \in DOMAIN ss : SessionOK(n, ss[i])
    /\ Distinct(ss)
    /\ Cardinality(Receptions(ss)) <= MaxSessions

\* What a handler of node n may leave when it found the sessions ss: no new
\* session of n's own.
EffectOK(n, ss, r) ==
    /\ r \in Effects /\ SessionsOK(n, r.ss) /\ OutOK(n, r.out)
    /\ \A dst : Held(r.ss, n, dst) => Held(ss, n, dst)

\* A message goes from a node to another node or to the global address.
LEMMA MessageEnds ==
    \A m \in Messages : /\ From[m] \in Nodes /\ To[m] \in Ends /\ To[m] # From[m]
                        /\ To[m] # Global => To[m] \in Nodes
<1> TAKE m \in Messages
<1>1. From[m] \in Nodes /\ To[m] \in (Nodes \ {From[m]}) \cup {Global}
  BY MessagesAssumption
<1>2. Global \notin Nodes
  BY MessagesAssumption
<1> QED
  BY <1>1, <1>2 DEF Ends

\* get_session returns the position of the one session between two ends, and 0
\* exactly when the manager holds none: has_session and the handlers rely on it.
LEMMA GetSession ==
    ASSUME NEW ss \in Seq(Session), Distinct(ss), NEW src, NEW dst
    PROVE  /\ get_session(ss, src, dst) \in 0..Len(ss)
           /\ get_session(ss, src, dst) = 0 <=> ~Held(ss, src, dst)
           /\ get_session(ss, src, dst) # 0 =>
                /\ get_session(ss, src, dst) \in DOMAIN ss
                /\ SamePair(ss[get_session(ss, src, dst)], src, dst)
<1> DEFINE found == {i \in 1..Len(ss) : SamePair(ss[i], src, dst)}
           i == get_session(ss, src, dst)
<1>1. i = IF found # {} THEN Min(found) ELSE 0
  BY DEF get_session, SelectInSeq, SamePair
<1>2. CASE found = {}
  BY <1>1, <1>2 DEF Held
<1>3. CASE found # {}
  <2>1. PICK j \in found : TRUE
    BY <1>3
  <2>2. \A k \in found : k = j
    BY <2>1 DEF Distinct, SamePair
  <2>3. Min(found) = j
    BY <2>1, <2>2 DEF Min
  <2> QED
    BY <1>1, <1>3, <2>1, <2>3 DEF Held
<1> QED
  BY <1>2, <1>3

\* What erase leaves of the session list: the others, in their order.
LEMMA Removed ==
    ASSUME NEW S, NEW ss \in Seq(S), NEW i \in DOMAIN ss
    PROVE  /\ RemoveAt(ss, i) \in Seq(S)
           /\ Len(RemoveAt(ss, i)) = Len(ss) - 1
           /\ \A j \in 1..(Len(ss) - 1) :
                 RemoveAt(ss, i)[j] = IF j < i THEN ss[j] ELSE ss[j + 1]
<1> DEFINE before == SubSeq(ss, 1, i - 1)
           after == SubSeq(ss, i + 1, Len(ss))
<1>1. before \in Seq(S) /\ after \in Seq(S)
  OBVIOUS
<1>2. Len(before) = i - 1 /\ Len(after) = Len(ss) - i
  OBVIOUS
<1>3. /\ \A j \in 1..(i - 1) : before[j] = ss[j]
      /\ \A j \in 1..(Len(ss) - i) : after[j] = ss[i + j]
  OBVIOUS
<1>4. RemoveAt(ss, i) = before \o after
  BY DEF RemoveAt
<1> HIDE DEF before, after
<1>5. before \o after \in Seq(S) /\ Len(before \o after) = Len(ss) - 1
  BY <1>1, <1>2
<1>6. ASSUME NEW j \in 1..(Len(ss) - 1)
      PROVE  (before \o after)[j] = IF j < i THEN ss[j] ELSE ss[j + 1]
  <2>1. CASE j < i
    BY <1>1, <1>2, <1>3, <2>1
  <2>2. CASE ~(j < i)
    <3>0. /\ j \in Int /\ i \in 1..Len(ss) /\ Len(ss) \in Nat
          /\ j > Len(before) /\ j <= Len(before) + Len(after)
      BY <1>2, <2>2
    <3>1. (before \o after)[j] = after[j - (i - 1)]
      BY <1>1, <1>2, <3>0, SMTT(120)
    <3>2. j - (i - 1) \in 1..(Len(ss) - i) /\ i + (j - (i - 1)) = j + 1
      BY <2>2
    <3> QED
      BY <1>3, <2>2, <3>1, <3>2
  <2> QED
    BY <2>1, <2>2
<1> QED
  BY <1>4, <1>5, <1>6

\* The receptions a manager holds are finitely many.
LEMMA CountReceptions ==
    ASSUME NEW S, NEW ss \in Seq(S)
    PROVE  IsFiniteSet(Receptions(ss)) /\ Cardinality(Receptions(ss)) \in Nat
<1>1. Receptions(ss) \in SUBSET (1..Len(ss)) /\ 1 \in Int /\ Len(ss) \in Int
  BY DEF Receptions
<1>2. IsFiniteSet(1..Len(ss))
  BY <1>1, FS_Interval
<1>3. IsFiniteSet(Receptions(ss))
  BY <1>1, <1>2, FS_Subset
<1> QED
  BY <1>3, FS_CardinalityType

\* Closing a session does not add a reception.
LEMMA CountRemoved ==
    ASSUME NEW ss \in Seq(Session), NEW i \in DOMAIN ss
    PROVE  Cardinality(Receptions(RemoveAt(ss, i))) <= Cardinality(Receptions(ss))
<1> DEFINE ss2 == RemoveAt(ss, i)
           R2 == Receptions(ss2)
           R == Receptions(ss)
           g == [j \in R2 |-> IF j < i THEN j ELSE j + 1]
<1>1. /\ ss2 \in Seq(Session) /\ Len(ss2) = Len(ss) - 1
      /\ \A j \in 1..(Len(ss) - 1) : ss2[j] = IF j < i THEN ss[j] ELSE ss[j + 1]
  BY Removed
<1> HIDE DEF ss2
<1>2. /\ R2 = {j \in 1..(Len(ss) - 1) : ss2[j].dir = "rx"}
      /\ R = {j \in 1..Len(ss) : ss[j].dir = "rx"}
      /\ i \in 1..Len(ss) /\ Len(ss) \in Nat
  BY <1>1 DEF Receptions
<1> HIDE DEF R, R2
<1>3. \A j \in R2 : g[j] \in R
  BY <1>1, <1>2
<1>4. \A j, k \in R2 : g[j] = g[k] => j = k
  BY <1>2
<1>5. g \in Injection(R2, R)
  <2>1. g \in [R2 -> R]
    BY <1>3
  <2> QED
    BY <1>4, <2>1 DEF Injection, IsInjective
<1>6. IsFiniteSet(R)
  BY CountReceptions DEF R
<1> HIDE DEF g
<1> QED
  BY <1>5, <1>6, FS_Injection DEF R, R2, ss2

\* A new reception is only added below the configured number; a new transmission
\* does not count (protocol_transmit_message has no limit).
LEMMA CountAppended ==
    ASSUME NEW ss \in Seq(Session), NEW s \in Session,
           Cardinality(Receptions(ss)) <= MaxSessions,
           s.dir = "tx" \/ Len(ss) < MaxSessions
    PROVE  Cardinality(Receptions(Append(ss, s))) <= MaxSessions
<1>1. CASE s.dir = "tx"
  <2>1. Receptions(Append(ss, s)) = Receptions(ss)
    BY <1>1 DEF Receptions
  <2> QED
    BY <2>1
<1>2. CASE Len(ss) < MaxSessions
  <2>1. Receptions(Append(ss, s)) \in SUBSET (1..(Len(ss) + 1))
    BY DEF Receptions
  <2>2. Len(ss) + 1 \in Int /\ 1 \in Int /\ Len(ss) + 1 <= MaxSessions /\ Len(ss) \in Nat
    BY <1>2, ConfigurationAssumption
  <2>3. IsFiniteSet(1..(Len(ss) + 1)) /\ Cardinality(1..(Len(ss) + 1)) = Len(ss) + 1
    BY <2>2, FS_Interval
  <2>4. Cardinality(Receptions(Append(ss, s))) <= Len(ss) + 1
    BY <2>1, <2>3, FS_Subset
  <2>5. Append(ss, s) \in Seq(Session)
    OBVIOUS
  <2>6. Cardinality(Receptions(Append(ss, s))) \in Nat
    BY <2>5, CountReceptions
  <2> QED
    BY <2>2, <2>4, <2>6, ConfigurationAssumption
<1> QED
  BY <1>1, <1>2

\* Closing a session (close_session) leaves a list that is still in order.
LEMMA RemovedOK ==
    ASSUME NEW n, NEW ss, SessionsOK(n, ss), NEW i \in DOMAIN ss
    PROVE  /\ SessionsOK(n, RemoveAt(ss, i))
           /\ Len(RemoveAt(ss, i)) <= Len(ss)
           /\ ~Held(RemoveAt(ss, i), ss[i].src, ss[i].dst)
           /\ \A src, dst : Held(RemoveAt(ss, i), src, dst) => Held(ss, src, dst)
<1> DEFINE ss2 == RemoveAt(ss, i)
           At(j) == IF j < i THEN j ELSE j + 1
<1>1. /\ ss2 \in Seq(Session) /\ Len(ss2) = Len(ss) - 1
      /\ \A j \in 1..(Len(ss) - 1) : ss2[j] = IF j < i THEN ss[j] ELSE ss[j + 1]
  BY Removed DEF SessionsOK
<1>2. Cardinality(Receptions(ss2)) <= MaxSessions
  <2>1. Cardinality(Receptions(ss2)) <= Cardinality(Receptions(ss))
    BY CountRemoved DEF SessionsOK
  <2>2. Cardinality(Receptions(ss)) \in Nat /\ Cardinality(Receptions(ss2)) \in Nat
    BY <1>1, CountReceptions DEF SessionsOK
  <2> QED
    BY <2>1, <2>2, ConfigurationAssumption DEF SessionsOK
<1> HIDE DEF ss2
<1>3. /\ i \in 1..Len(ss) /\ Len(ss) \in Nat
      /\ DOMAIN ss = 1..Len(ss) /\ DOMAIN ss2 = 1..(Len(ss) - 1)
  BY <1>1 DEF SessionsOK
<1>4. /\ \A j \in DOMAIN ss2 : At(j) \in DOMAIN ss /\ ss2[j] = ss[At(j)] /\ At(j) # i
      /\ \A j, k \in DOMAIN ss2 : At(j) = At(k) => j = k
  BY <1>1, <1>3
<1> HIDE DEF At
<1>5. \A j \in DOMAIN ss2 : SessionOK(n, ss2[j])
  BY <1>4 DEF SessionsOK
<1>6. Distinct(ss2) /\ ~Held(ss2, ss[i].src, ss[i].dst)
  BY <1>4 DEF SessionsOK, Distinct, Held, SamePair
<1>7. \A src, dst : Held(ss2, src, dst) => Held(ss, src, dst)
  BY <1>4 DEF Held
<1> QED
  BY <1>1, <1>2, <1>3, <1>5, <1>6, <1>7 DEF SessionsOK, ss2

\* A session that keeps its direction and its ends may change in place.
LEMMA ReplacedOK ==
    ASSUME NEW n, NEW ss, SessionsOK(n, ss), NEW i \in DOMAIN ss, NEW s, SessionOK(n, s),
           s.dir = ss[i].dir, SamePair(s, ss[i].src, ss[i].dst)
    PROVE  /\ SessionsOK(n, [ss EXCEPT ![i] = s])
           /\ Len([ss EXCEPT ![i] = s]) = Len(ss)
           /\ \A src, dst : Held([ss EXCEPT ![i] = s], src, dst) => Held(ss, src, dst)
<1> DEFINE ss2 == [ss EXCEPT ![i] = s]
<1>1. /\ ss2 \in Seq(Session) /\ Len(ss2) = Len(ss) /\ DOMAIN ss2 = DOMAIN ss
      /\ \A j \in DOMAIN ss : ss2[j] = IF j = i THEN s ELSE ss[j]
  BY DEF SessionsOK, SessionOK
<1> HIDE DEF ss2
<1>2. /\ \A j \in DOMAIN ss : SessionOK(n, ss2[j])
      /\ Distinct(ss2)
      /\ Receptions(ss2) = Receptions(ss)
      /\ \A src, dst : Held(ss2, src, dst) => Held(ss, src, dst)
  BY <1>1 DEF SessionsOK, Distinct, Receptions, Held, SamePair
<1> QED
  BY <1>1, <1>2 DEF SessionsOK, ss2

\* A session between two ends that had none may be added.
LEMMA AppendedOK ==
    ASSUME NEW n, NEW ss, SessionsOK(n, ss), NEW s, SessionOK(n, s),
           ~Held(ss, s.src, s.dst), s.dir = "tx" \/ Len(ss) < MaxSessions
    PROVE  /\ SessionsOK(n, Append(ss, s))
           /\ \A src, dst : Held(Append(ss, s), src, dst)
                              => Held(ss, src, dst) \/ SamePair(s, src, dst)
<1> DEFINE ss2 == Append(ss, s)
<1>1. /\ ss2 \in Seq(Session) /\ DOMAIN ss2 = DOMAIN ss \cup {Len(ss) + 1}
      /\ ss2[Len(ss) + 1] = s /\ Len(ss) + 1 \notin DOMAIN ss
      /\ \A j \in DOMAIN ss : ss2[j] = ss[j]
  BY DEF SessionsOK, SessionOK
<1>2. Cardinality(Receptions(ss2)) <= MaxSessions
  BY CountAppended DEF SessionsOK, SessionOK
<1> HIDE DEF ss2
<1>3. /\ \A j \in DOMAIN ss2 : SessionOK(n, ss2[j])
      /\ Distinct(ss2)
      /\ \A src, dst : Held(ss2, src, dst) => Held(ss, src, dst) \/ SamePair(s, src, dst)
  BY <1>1 DEF SessionsOK, Distinct, Held, SamePair
<1> QED
  BY <1>1, <1>2, <1>3 DEF SessionsOK, ss2

\* The fields of what a handler leaves, once its sessions or its frames are replaced.
LEMMA EffectFields ==
    ASSUME NEW r \in Effects, NEW ss \in Seq(Session), NEW out \in Seq(Frames)
    PROVE  /\ r = [ss |-> r.ss, out |-> r.out, done |-> r.done, rcv |-> r.rcv]
           /\ r.ss \in Seq(Session) /\ r.out \in Seq(Frames)
           /\ [r EXCEPT !.ss = ss] \in Effects /\ [r EXCEPT !.ss = ss].ss = ss
           /\ [r EXCEPT !.ss = ss].out = r.out
           /\ [r EXCEPT !.out = out] \in Effects /\ [r EXCEPT !.out = out].out = out
           /\ [r EXCEPT !.out = out].ss = r.ss
           /\ [r EXCEPT !.ss = ss, !.out = out] \in Effects
           /\ [r EXCEPT !.ss = ss, !.out = out].ss = ss
           /\ [r EXCEPT !.ss = ss, !.out = out].out = out
BY DEF Effects

\* A handler that does nothing.
LEMMA EffectStart ==
    ASSUME NEW n, NEW ss, SessionsOK(n, ss)
    PROVE  /\ EffectOK(n, ss, Effect(ss)) /\ Effect(ss) \in Effects
           /\ Effect(ss).ss = ss /\ Effect(ss).out = <<>>
           /\ Effect(ss).done = {} /\ Effect(ss).rcv = <<>>
<1>1. /\ Effect(ss).ss = ss /\ Effect(ss).out = <<>> /\ Effect(ss) \in Effects
      /\ Effect(ss).done = {} /\ Effect(ss).rcv = <<>>
  BY DEF Effect, Effects, SessionsOK
<1>2. OutOK(n, <<>>)
  BY DEF OutOK
<1> QED
  BY <1>1, <1>2 DEF EffectOK

\* A handler may send one more frame to the destination of the others.
LEMMA OutAppended ==
    ASSUME NEW n, NEW out, OutOK(n, out), NEW f, FrameOK(n, f),
           out = <<>> \/ out[1].dst = f.dst
    PROVE  OutOK(n, Append(out, f)) /\ Append(out, f) \in Seq(Frames)
<1>1. /\ Append(out, f) \in Seq(Frames) /\ DOMAIN Append(out, f) = DOMAIN out \cup {Len(out) + 1}
      /\ Append(out, f)[Len(out) + 1] = f
      /\ \A i \in DOMAIN out : Append(out, f)[i] = out[i]
      /\ out # <<>> => 1 \in DOMAIN out
      /\ out = <<>> => Len(out) = 0 /\ DOMAIN out = {}
  BY DEF OutOK, FrameOK
<1> QED
  BY <1>1 DEF OutOK

\* close_session keeps what a handler has to keep.
LEMMA CloseOK ==
    ASSUME NEW n, NEW ss, NEW r, EffectOK(n, ss, r), NEW i \in DOMAIN r.ss,
           NEW success \in BOOLEAN
    PROVE  /\ EffectOK(n, ss, close_session(r, i, success))
           /\ close_session(r, i, success).ss = RemoveAt(r.ss, i)
           /\ close_session(r, i, success).out = r.out
           /\ close_session(r, i, success).rcv = r.rcv
           /\ Len(close_session(r, i, success).ss) <= Len(r.ss)
           /\ ~Held(close_session(r, i, success).ss, r.ss[i].src, r.ss[i].dst)
<1> DEFINE c == close_session(r, i, success)
           done == IF r.ss[i].dir = "tx" THEN r.done \cup {<<r.ss[i].msg, success>>}
                   ELSE r.done
<1>1. r \in Effects /\ r.ss \in Seq(Session) /\ r.done \subseteq Names \X BOOLEAN
  BY DEF EffectOK, SessionsOK, Effects
<1>2. r.ss[i].msg \in Names
  <2>1. r.ss[i] \in Session
    BY DEF EffectOK, SessionsOK, SessionOK
  <2> QED
    BY <2>1 DEF Session
<1>3. done \subseteq Names \X BOOLEAN
  BY <1>1, <1>2
<1>4. /\ SessionsOK(n, RemoveAt(r.ss, i)) /\ Len(RemoveAt(r.ss, i)) <= Len(r.ss)
      /\ ~Held(RemoveAt(r.ss, i), r.ss[i].src, r.ss[i].dst)
      /\ \A src, dst : Held(RemoveAt(r.ss, i), src, dst) => Held(r.ss, src, dst)
  BY RemovedOK DEF EffectOK
<1>5. c = [r EXCEPT !.ss = RemoveAt(r.ss, i), !.done = done]
  BY DEF close_session
<1> HIDE DEF c, done
<1>6. RemoveAt(r.ss, i) \in Seq(Session)
  BY <1>4 DEF SessionsOK
<1>7. /\ c \in Effects /\ c.ss = RemoveAt(r.ss, i) /\ c.out = r.out /\ c.rcv = r.rcv
  BY <1>1, <1>3, <1>5, <1>6 DEF Effects
<1>8. EffectOK(n, ss, c)
  BY <1>4, <1>7 DEF EffectOK
<1> QED
  BY <1>4, <1>7, <1>8 DEF c

\* An abort a node sends to somebody else is a frame it may send.
LEMMA AbortFrameOK ==
    ASSUME NEW n \in Nodes, NEW dst \in Ends, dst # n, NEW pgn \in Pgns
    PROVE  /\ FrameOK(n, AbortFrame(n, dst, pgn)) /\ AbortFrame(n, dst, pgn).dst = dst
           /\ AbortFrame(n, dst, pgn) \in Frames
BY DEF FrameOK, AbortFrame, Frame, Frames, Counter, Names

\* The other end of a session node n holds.
Peer(n, s) == IF s.src = n THEN s.dst ELSE s.src

\* abort_session closes the session and sends its abort to the other end; to
\* nobody, when the session is a broadcast one.
LEMMA AbortOK ==
    ASSUME NEW n \in Nodes, NEW ss, NEW r, EffectOK(n, ss, r), r.out = <<>>,
           NEW i \in DOMAIN r.ss
    PROVE  /\ EffectOK(n, ss, abort_session(r, i))
           /\ abort_session(r, i).ss = RemoveAt(r.ss, i)
           /\ \/ abort_session(r, i).out = <<>>
              \/ abort_session(r, i).out[1].dst = Peer(n, r.ss[i])
           /\ abort_session(r, i).rcv = r.rcv
           /\ Len(abort_session(r, i).ss) <= Len(r.ss)
           /\ ~Held(abort_session(r, i).ss, r.ss[i].src, r.ss[i].dst)
<1> DEFINE s == r.ss[i]
           frame == IF s.dir = "tx" THEN AbortFrame(s.src, s.dst, s.pgn)
                    ELSE AbortFrame(s.dst, s.src, s.pgn)
           sent == [r EXCEPT !.out = Append(@, frame)]
<1>1. SessionOK(n, s)
  BY DEF EffectOK, SessionsOK
<1>2. CASE is_broadcast(s)
  <2>1. abort_session(r, i) = close_session(r, i, FALSE)
    BY <1>2 DEF abort_session
  <2>2. /\ EffectOK(n, ss, close_session(r, i, FALSE))
        /\ close_session(r, i, FALSE).ss = RemoveAt(r.ss, i)
        /\ close_session(r, i, FALSE).out = r.out
        /\ close_session(r, i, FALSE).rcv = r.rcv
        /\ Len(close_session(r, i, FALSE).ss) <= Len(r.ss)
        /\ ~Held(close_session(r, i, FALSE).ss, r.ss[i].src, r.ss[i].dst)
    BY CloseOK
  <2> QED
    BY <2>1, <2>2, Zenon
<1>3. CASE ~is_broadcast(s)
  <2>1. /\ s.dir \in {"tx", "rx"} /\ s.pgn \in Pgns /\ s.src \in Nodes /\ s.dst \in Ends
        /\ s.dir = "tx" => s.src = n /\ s.dst # n
        /\ s.dir = "rx" => s.dst = n /\ s.src # n
    <3>1. s \in Session
      BY <1>1 DEF SessionOK
    <3>2. s.dir \in {"tx", "rx"} /\ s.pgn \in Pgns /\ s.src \in Nodes /\ s.dst \in Ends
      BY <3>1 DEF Session
    <3>3. s.dir = "tx" => s.src = n /\ s.dst # n
      BY <1>1, MessageEnds DEF SessionOK
    <3>4. s.dir = "rx" => s.dst = n /\ s.src # n
      BY <1>1, <1>3 DEF SessionOK, is_broadcast
    <3> QED
      BY <3>2, <3>3, <3>4
  <2>2. FrameOK(n, frame) /\ frame.dst = Peer(n, s) /\ frame \in Frames
    BY <2>1, AbortFrameOK DEF Peer, Ends
  <2> HIDE DEF frame
  <2>3. OutOK(n, Append(<<>>, frame)) /\ Append(<<>>, frame) \in Seq(Frames)
    <3>1. OutOK(n, <<>>)
      BY DEF OutOK
    <3> QED
      BY <2>2, <3>1, OutAppended
  <2>4. r \in Effects /\ r.ss \in Seq(Session)
    BY DEF EffectOK, SessionsOK
  <2>5. /\ sent \in Effects /\ sent.out = Append(<<>>, frame) /\ sent.ss = r.ss
        /\ sent.rcv = r.rcv
    BY <2>3, <2>4 DEF Effects
  <2> HIDE DEF sent
  <2>6. EffectOK(n, ss, sent)
    BY <2>3, <2>5 DEF EffectOK
  <2>7. abort_session(r, i) = close_session(sent, i, FALSE)
    BY <1>3 DEF abort_session, sent, frame
  <2>8. Append(<<>>, frame)[1] = frame
    BY <2>2
  <2>9. /\ EffectOK(n, ss, close_session(sent, i, FALSE))
        /\ close_session(sent, i, FALSE).ss = RemoveAt(sent.ss, i)
        /\ close_session(sent, i, FALSE).out = sent.out
        /\ close_session(sent, i, FALSE).rcv = sent.rcv
        /\ Len(close_session(sent, i, FALSE).ss) <= Len(sent.ss)
        /\ ~Held(close_session(sent, i, FALSE).ss, sent.ss[i].src, sent.ss[i].dst)
    BY <2>5, <2>6, CloseOK
  <2> QED
    BY <2>2, <2>5, <2>7, <2>8, <2>9
<1> QED
  BY <1>2, <1>3

--------------------------------------------------------------------------------
\* Numbers, new sessions and frames

\* A conversion to std::uint8_t is a byte.
LEMMA Bytes == \A x \in Int : UInt8(x) \in Counter
BY DEF UInt8, Counter

\* The types of a session's fields.
LEMMA SessionFields ==
    ASSUME NEW s \in Session
    PROVE  /\ s.dir \in {"tx", "rx"} /\ s.src \in Nodes /\ s.dst \in Ends /\ s.pgn \in Pgns
           /\ s.size \in Sizes /\ s.limit \in Counter
           /\ s.state \in SendingStates \cup ReceivingStates
           /\ s.last \in Counter /\ s.ack \in Counter /\ s.cts \in Counter
           /\ s.data \in Seq(Packets) /\ s.msg \in Names
           /\ s.last \in Nat /\ s.last < 256 /\ s.ack \in Int /\ s.cts \in Int
           /\ s.size \in Int
<1>1. /\ s.dir \in {"tx", "rx"} /\ s.src \in Nodes /\ s.dst \in Ends /\ s.pgn \in Pgns
      /\ s.size \in Sizes /\ s.limit \in Counter
      /\ s.state \in SendingStates \cup ReceivingStates
      /\ s.last \in Counter /\ s.ack \in Counter /\ s.cts \in Counter
      /\ s.data \in Seq(Packets) /\ s.msg \in Names
  BY DEF Session
<1>2. \A x \in Counter : x \in Nat /\ x < 256
  BY DEF Counter
<1>3. s.size \in Int
  BY <1>1 DEF Sizes
<1> QED
  BY <1>1, <1>2, <1>3

\* The packet counts computed from a session are bytes.
LEMMA Remaining ==
    ASSUME NEW s \in Session
    PROVE  /\ get_total_number_of_packets(s.size) \in Counter
           /\ get_number_of_remaining_packets(s) \in Counter
           /\ get_cts_number_of_packets_remaining(s) \in Counter
           /\ PacketsThisSegment(s) \in Counter
<1>1. s.size \in Int /\ s.last \in Int /\ s.ack \in Int /\ s.cts \in Int /\ s.limit \in Counter
  BY SessionFields DEF Counter
<1>2. s.size \div 7 \in Int
  BY <1>1
<1>3. get_total_number_of_packets(s.size) \in Counter
  BY <1>1, <1>2, Bytes DEF get_total_number_of_packets, PROTOCOL_BYTES_PER_FRAME
<1>4. get_number_of_remaining_packets(s) \in Counter
  BY <1>1, <1>3, Bytes DEF get_number_of_remaining_packets, Counter
<1>5. UInt8(s.last - s.ack) \in Int
  BY <1>1, Bytes DEF Counter
<1>6. get_cts_number_of_packets_remaining(s) \in Counter
  BY <1>1, <1>5, Bytes DEF get_cts_number_of_packets_remaining
<1>7. PacketsThisSegment(s) \in Counter
  BY <1>1, <1>4 DEF PacketsThisSegment, Smaller, Counter
<1> QED
  BY <1>3, <1>4, <1>6, <1>7

\* The session process_request_to_send and process_broadcast_announce_message create.
LEMMA NewReception ==
    ASSUME NEW n \in Nodes, NEW f, ArrivingOK(n, f), f.kind \in {"BAM", "RTS"},
           NEW dst \in {n, Global}, NEW limit \in Counter, NEW state \in ReceivingStates,
           dst = Global => state = "WaitForDataTransferPacket"
    PROVE  LET s == NewSession("rx", f.src, dst, f.pgn, f.size, limit, state, "none")
           IN  /\ SessionOK(n, s) /\ s.dir = "rx" /\ s.src = f.src /\ s.dst = dst
               /\ s.state = state /\ s.last = 0
<1> DEFINE s == NewSession("rx", f.src, dst, f.pgn, f.size, limit, state, "none")
<1>1. f.src \in Nodes /\ f.pgn \in Pgns /\ f.size \in Sizes /\ f.src # n
  BY DEF ArrivingOK, Frames
<1>2. 0 \in Counter /\ <<>> \in Seq(Packets) /\ "none" \in Names /\ dst \in Ends
  BY DEF Counter, Names, Ends
<1>3. s \in Session
  BY <1>1, <1>2 DEF NewSession, Session
<1>4. /\ s.dir = "rx" /\ s.src = f.src /\ s.dst = dst /\ s.state = state /\ s.last = 0
      /\ s.ack = 0 /\ s.cts = 0 /\ s.data = <<>> /\ s.msg = "none"
  BY DEF NewSession
<1> HIDE DEF s
<1>5. SessionOK(n, s)
  BY <1>1, <1>3, <1>4 DEF SessionOK
<1> QED
  BY <1>4, <1>5 DEF s

\* send_clear_to_send opens the window of a reception, if the frame was taken.
LEMMA CtsSentOK ==
    ASSUME NEW n \in Nodes, NEW s, SessionOK(n, s), s.dir = "rx", s.dst = n, NEW ok \in BOOLEAN
    PROVE  /\ SessionOK(n, CtsSent(s, ok)) /\ CtsSent(s, ok).dir = "rx"
           /\ CtsSent(s, ok).src = s.src /\ CtsSent(s, ok).dst = s.dst
           /\ CtsSent(s, ok).state = s.state
<1> DEFINE c == CtsSent(s, ok)
           k == PacketsThisSegment(s)
<1>1. s \in Session /\ k \in Counter /\ s.last \in Counter
  BY Remaining, SessionFields DEF SessionOK
<1>2. c = IF ok THEN [s EXCEPT !.cts = k, !.ack = s.last] ELSE s
  BY DEF CtsSent
<1> HIDE DEF c, k
<1>3. /\ c \in Session /\ c.dir = s.dir /\ c.src = s.src /\ c.dst = s.dst /\ c.state = s.state
      /\ c.data = s.data /\ c.msg = s.msg /\ c.last = s.last
  BY <1>1, <1>2 DEF Session
<1>4. n # Global
  BY MessagesAssumption
<1>5. SessionOK(n, c)
  BY <1>3, <1>4 DEF SessionOK
<1> QED
  BY <1>3, <1>5 DEF c

\* The clear-to-send of a reception goes to its sender.
LEMMA CtsFrameOK ==
    ASSUME NEW n \in Nodes, NEW s, SessionOK(n, s), s.dir = "rx", s.dst = n
    PROVE  FrameOK(n, CtsFrame(s)) /\ CtsFrame(s).dst = s.src /\ CtsFrame(s) \in Frames
<1>1. /\ s \in Session /\ PacketsThisSegment(s) \in Counter /\ UInt8(s.last + 1) \in Counter
      /\ s.src \in Nodes /\ s.src # n /\ s.pgn \in Pgns
  BY Remaining, SessionFields, Bytes DEF SessionOK
<1>2. /\ CtsFrame(s).kind = "CTS" /\ CtsFrame(s).src = n /\ CtsFrame(s).dst = s.src
  BY DEF CtsFrame, Frame
<1>3. CtsFrame(s) \in Frames
  BY <1>1 DEF CtsFrame, Frame, Frames, Ends, Names
<1> QED
  BY <1>1, <1>2, <1>3 DEF FrameOK

\* A handler may replace the sessions it leaves.
LEMMA WithSessions ==
    ASSUME NEW n, NEW ss, NEW r, EffectOK(n, ss, r), NEW ss2, SessionsOK(n, ss2),
           \A dst : Held(ss2, n, dst) => Held(ss, n, dst)
    PROVE  /\ EffectOK(n, ss, [r EXCEPT !.ss = ss2])
           /\ [r EXCEPT !.ss = ss2].ss = ss2 /\ [r EXCEPT !.ss = ss2].out = r.out
           /\ [r EXCEPT !.ss = ss2].rcv = r.rcv
<1>1. r \in Effects /\ ss2 \in Seq(Session)
  BY DEF EffectOK, SessionsOK
<1>2. /\ [r EXCEPT !.ss = ss2] \in Effects
      /\ [r EXCEPT !.ss = ss2].ss = ss2 /\ [r EXCEPT !.ss = ss2].out = r.out
      /\ [r EXCEPT !.ss = ss2].rcv = r.rcv
  BY <1>1 DEF Effects
<1> QED
  BY <1>2 DEF EffectOK

\* A handler may send one more frame.
LEMMA WithFrame ==
    ASSUME NEW n, NEW ss, NEW r, EffectOK(n, ss, r), NEW f, FrameOK(n, f),
           r.out = <<>> \/ r.out[1].dst = f.dst
    PROVE  EffectOK(n, ss, [r EXCEPT !.out = Append(@, f)])
<1>1. OutOK(n, Append(r.out, f)) /\ Append(r.out, f) \in Seq(Frames)
  BY OutAppended DEF EffectOK
<1>2. r \in Effects /\ r.ss \in Seq(Session)
  BY DEF EffectOK, SessionsOK
<1>3. /\ [r EXCEPT !.out = Append(r.out, f)] \in Effects
      /\ [r EXCEPT !.out = Append(r.out, f)].ss = r.ss
      /\ [r EXCEPT !.out = Append(r.out, f)].out = Append(r.out, f)
  BY <1>1, <1>2, EffectFields
<1> QED
  BY <1>1, <1>3 DEF EffectOK

\* A handler may send a single frame.
LEMMA WithSingle ==
    ASSUME NEW n, NEW ss, NEW r, EffectOK(n, ss, r), NEW f, FrameOK(n, f)
    PROVE  EffectOK(n, ss, [r EXCEPT !.out = <<f>>])
<1>1. OutOK(n, <<>>) /\ f \in Frames
  BY DEF OutOK, FrameOK
<1>2. OutOK(n, Append(<<>>, f)) /\ Append(<<>>, f) \in Seq(Frames)
  BY <1>1, OutAppended
<1>3. Append(<<>>, f) = <<f>>
  OBVIOUS
<1>4. r \in Effects /\ r.ss \in Seq(Session) /\ <<f>> \in Seq(Frames)
  BY <1>2, <1>3 DEF EffectOK, SessionsOK
<1>5. /\ [r EXCEPT !.out = <<f>>] \in Effects /\ [r EXCEPT !.out = <<f>>].ss = r.ss
      /\ [r EXCEPT !.out = <<f>>].out = <<f>>
  BY <1>4, EffectFields
<1> QED
  BY <1>2, <1>3, <1>5 DEF EffectOK

--------------------------------------------------------------------------------
\* The handlers

\* process_broadcast_announce_message closes the old broadcast of the sender before
\* it opens the new one, so the sender never has two.
LEMMA BroadcastAnnounceOK ==
    ASSUME NEW n \in Nodes, SessionsOK(n, sessions[n]), NEW f, ArrivingOK(n, f), f.kind = "BAM"
    PROVE  EffectOK(n, sessions[n], process_broadcast_announce_message(n, f))
<1> DEFINE ss == sessions[n]
           r == Effect(ss)
           old == get_session(r.ss, f.src, Global)
           c == IF old = 0 THEN r ELSE close_session(r, old, FALSE)
           new == NewSession("rx", f.src, Global, f.pgn, f.size, 255,
                             "WaitForDataTransferPacket", "none")
<1>1. EffectOK(n, ss, r) /\ r.ss = ss /\ r.ss \in Seq(Session)
  BY EffectStart DEF SessionsOK
<1>2. /\ old \in 0..Len(r.ss) /\ old = 0 => ~Held(r.ss, f.src, Global)
      /\ old # 0 => old \in DOMAIN r.ss /\ SamePair(r.ss[old], f.src, Global)
  BY <1>1, GetSession DEF EffectOK, SessionsOK
<1>3. SessionOK(n, new) /\ new.src = f.src /\ new.dst = Global
  <2>1. 255 \in Counter /\ "WaitForDataTransferPacket" \in ReceivingStates
    BY DEF Counter, ReceivingStates
  <2> QED
    BY <2>1, NewReception
<1>4. process_broadcast_announce_message(n, f) =
        IF Len(r.ss) >= MaxSessions \/ f.size > MAX_PROTOCOL_DATA_LENGTH THEN r
        ELSE IF f.number # get_total_number_of_packets(f.size) THEN c
        ELSE [c EXCEPT !.ss = Append(@, new)]
  BY DEF process_broadcast_announce_message
<1> HIDE DEF r, old, new
<1>5. EffectOK(n, ss, c) /\ Len(c.ss) <= Len(r.ss) /\ ~Held(c.ss, f.src, Global)
  <2>1. CASE old = 0
    <3>1. Len(r.ss) \in Nat
      BY <1>1
    <3> QED
      BY <1>1, <1>2, <2>1, <3>1
  <2>2. CASE old # 0
    <3>1. old \in DOMAIN r.ss
      BY <1>2, <2>2
    <3>2. /\ EffectOK(n, ss, close_session(r, old, FALSE))
          /\ Len(close_session(r, old, FALSE).ss) <= Len(r.ss)
          /\ ~Held(close_session(r, old, FALSE).ss, r.ss[old].src, r.ss[old].dst)
      BY <1>1, <3>1, CloseOK
    <3> QED
      BY <1>2, <2>2, <3>2 DEF SamePair
  <2> QED
    BY <2>1, <2>2
<1> HIDE DEF c
<1>6. CASE Len(r.ss) < MaxSessions
  <2>1. Len(c.ss) < MaxSessions
    <3>1. Len(c.ss) \in Nat /\ Len(r.ss) \in Nat
      BY <1>1, <1>5 DEF EffectOK, SessionsOK
    <3> QED
      BY <1>5, <1>6, <3>1, ConfigurationAssumption
  <2>2. /\ SessionsOK(n, Append(c.ss, new))
        /\ \A src, dst : Held(Append(c.ss, new), src, dst)
                           => Held(c.ss, src, dst) \/ SamePair(new, src, dst)
    BY <1>3, <1>5, <2>1, AppendedOK DEF EffectOK
  <2>3. f.src # n
    BY DEF ArrivingOK
  <2>4. c \in Effects /\ Append(c.ss, new) \in Seq(Session) /\ c.out \in Seq(Frames)
    BY <1>5, <2>2 DEF EffectOK, SessionsOK, OutOK
  <2>5. /\ [c EXCEPT !.ss = Append(@, new)] \in Effects
        /\ [c EXCEPT !.ss = Append(@, new)].ss = Append(c.ss, new)
        /\ [c EXCEPT !.ss = Append(@, new)].out = c.out
    BY <2>4, EffectFields
  <2>6. EffectOK(n, ss, [c EXCEPT !.ss = Append(@, new)])
    BY <1>3, <1>5, <2>2, <2>3, <2>5 DEF EffectOK, SamePair
  <2> QED
    BY <1>1, <1>4, <1>5, <2>6
<1>7. CASE ~(Len(r.ss) < MaxSessions)
  <2>1. Len(r.ss) >= MaxSessions
    BY <1>1, <1>7, ConfigurationAssumption DEF EffectOK, SessionsOK
  <2> QED
    BY <1>1, <1>4, <2>1
<1> QED
  BY <1>6, <1>7

\* process_request_to_send closes or aborts the old session of the pair before it
\* opens the new one, and refuses one beyond the configured number.
LEMMA RequestToSendOK ==
    ASSUME NEW n \in Nodes, SessionsOK(n, sessions[n]), NEW f, ArrivingOK(n, f), f.kind = "RTS",
           NEW ok \in BOOLEAN
    PROVE  EffectOK(n, sessions[n], process_request_to_send(n, f, ok))
<1> DEFINE ss == sessions[n]
           r == Effect(ss)
           old == get_session(r.ss, f.src, n)
           c == IF old = 0 THEN r
                ELSE IF r.ss[old].pgn # f.pgn THEN abort_session(r, old)
                ELSE close_session(r, old, FALSE)
           new == NewSession("rx", f.src, n, f.pgn, f.size,
                             Smaller(f.count, PacketsPerCts),
                             IF ok THEN "WaitForDataTransferPacket"
                                   ELSE "SendClearToSend", "none")
           refusal == AbortFrame(n, f.src, f.pgn)
           sent == CtsSent(new, ok)
           cts == CtsFrame(new)
<1>1. EffectOK(n, ss, r) /\ r.ss = ss /\ r.out = <<>> /\ r.ss \in Seq(Session)
  BY EffectStart DEF SessionsOK
<1>2. /\ old = 0 => ~Held(r.ss, f.src, n)
      /\ old # 0 => old \in DOMAIN r.ss /\ SamePair(r.ss[old], f.src, n)
  BY <1>1, GetSession DEF EffectOK, SessionsOK
<1>3. f.src # n /\ f.src \in Nodes /\ f.pgn \in Pgns /\ f.count \in Counter
  BY DEF ArrivingOK, Frames
<1>4. SessionOK(n, new) /\ new.dir = "rx" /\ new.src = f.src /\ new.dst = n
  <2>1. Smaller(f.count, PacketsPerCts) \in Counter
    BY <1>3, ConfigurationAssumption DEF Smaller, Counter
  <2>2. (IF ok THEN "WaitForDataTransferPacket" ELSE "SendClearToSend") \in ReceivingStates
    BY DEF ReceivingStates
  <2>3. n # Global
    BY MessagesAssumption
  <2> QED
    BY <2>1, <2>2, <2>3, NewReception
<1>5. FrameOK(n, refusal) /\ refusal.dst = f.src
  BY <1>3, AbortFrameOK DEF Ends
<1> HIDE DEF new
<1>6. SessionOK(n, sent) /\ sent.dir = "rx" /\ sent.src = f.src /\ sent.dst = n
  BY <1>4, CtsSentOK
<1>7. FrameOK(n, cts) /\ cts.dst = f.src
  BY <1>4, CtsFrameOK
<1>8. process_request_to_send(n, f, ok) =
        IF Len(r.ss) >= MaxSessions THEN [r EXCEPT !.out = <<refusal>>]
        ELSE IF f.number # get_total_number_of_packets(f.size)
          THEN [c EXCEPT !.out = Append(@, refusal)]
        ELSE [c EXCEPT !.ss = Append(@, sent), !.out = Append(@, cts)]
  BY DEF process_request_to_send, new
<1> HIDE DEF r, old, refusal, sent, cts
<1>9. /\ EffectOK(n, ss, c) /\ Len(c.ss) <= Len(r.ss) /\ ~Held(c.ss, f.src, n)
      /\ c.out = <<>> \/ c.out[1].dst = f.src
  <2>1. CASE old = 0
    <3>1. Len(r.ss) \in Nat
      BY <1>1
    <3> QED
      BY <1>1, <1>2, <2>1, <3>1
  <2>2. CASE old # 0
    <3>0. old \in DOMAIN r.ss
      BY <1>2, <2>2
    <3>1. /\ EffectOK(n, ss, close_session(r, old, FALSE))
          /\ close_session(r, old, FALSE).out = r.out
          /\ Len(close_session(r, old, FALSE).ss) <= Len(r.ss)
          /\ ~Held(close_session(r, old, FALSE).ss, r.ss[old].src, r.ss[old].dst)
      BY <1>1, <3>0, CloseOK, ZenonT(40)
    <3>2. /\ EffectOK(n, ss, abort_session(r, old))
          /\ \/ abort_session(r, old).out = <<>>
             \/ abort_session(r, old).out[1].dst = Peer(n, r.ss[old])
          /\ Len(abort_session(r, old).ss) <= Len(r.ss)
          /\ ~Held(abort_session(r, old).ss, r.ss[old].src, r.ss[old].dst)
      BY <1>1, <1>2, <2>2, AbortOK
    <3>3. Peer(n, r.ss[old]) = f.src
      BY <1>2, <1>3, <2>2 DEF Peer, SamePair
    <3> QED
      BY <1>1, <1>2, <2>2, <3>1, <3>2, <3>3 DEF SamePair
  <2> QED
    BY <2>1, <2>2
<1> HIDE DEF c
<1>10. CASE Len(r.ss) >= MaxSessions
  BY <1>1, <1>5, <1>8, <1>10, WithSingle
<1>11. EffectOK(n, ss, [c EXCEPT !.out = Append(@, refusal)])
  BY <1>5, <1>9, WithFrame
<1>12. CASE ~(Len(r.ss) >= MaxSessions)
  <2>1. Len(c.ss) < MaxSessions
    <3>1. Len(c.ss) \in Nat /\ Len(r.ss) \in Nat
      BY <1>1, <1>9 DEF EffectOK, SessionsOK
    <3> QED
      BY <1>9, <1>12, <3>1, ConfigurationAssumption
  <2>2. /\ SessionsOK(n, Append(c.ss, sent))
        /\ \A src, dst : Held(Append(c.ss, sent), src, dst)
                           => Held(c.ss, src, dst) \/ SamePair(sent, src, dst)
    BY <1>6, <1>9, <2>1, AppendedOK DEF EffectOK
  <2>3. \A dst : Held(Append(c.ss, sent), n, dst) => Held(ss, n, dst)
    BY <1>3, <1>6, <1>9, <2>2 DEF EffectOK, SamePair
  <2> DEFINE c2 == [c EXCEPT !.ss = Append(@, sent)]
  <2>4. EffectOK(n, ss, c2) /\ c2.out = c.out
    <3> DEFINE ss2 == Append(c.ss, sent)
    <3>1. EffectOK(n, ss, c) /\ SessionsOK(n, ss2)
      BY <1>9, <2>2
    <3>2. \A dst : Held(ss2, n, dst) => Held(ss, n, dst)
      BY <2>3
    <3> HIDE DEF ss2, ss
    <3>3. EffectOK(n, ss, [c EXCEPT !.ss = ss2]) /\ [c EXCEPT !.ss = ss2].out = c.out
      BY <3>1, <3>2, WithSessions
    <3> QED
      BY <3>3 DEF ss2
  <2>5. EffectOK(n, ss, [c2 EXCEPT !.out = Append(@, cts)])
    <3> HIDE DEF c2
    <3> QED
      BY <1>7, <1>9, <2>4, WithFrame
  <2>6. [c EXCEPT !.ss = Append(@, sent), !.out = Append(@, cts)]
          = [c2 EXCEPT !.out = Append(@, cts)]
    <3>1. c \in Effects
      BY <1>9 DEF EffectOK
    <3> QED
      BY <2>4, <3>1 DEF Effects
  <2> QED
    BY <1>8, <1>11, <1>12, <2>5, <2>6
<1> QED
  BY <1>10, <1>12

\* process_clear_to_send changes the sender's session in place or aborts it.
LEMMA ClearToSendOK ==
    ASSUME NEW n \in Nodes, SessionsOK(n, sessions[n]), NEW f, ArrivingOK(n, f)
    PROVE  EffectOK(n, sessions[n], process_clear_to_send(n, f))
<1> DEFINE ss == sessions[n]
           r == Effect(ss)
           i == get_session(r.ss, n, f.src)
           s == r.ss[i]
           a == abort_session(r, i)
           refusal == AbortFrame(n, f.src, f.pgn)
           state == IF f.count = 0 THEN s.state ELSE "SendDataTransferPackets"
           opened == [s EXCEPT !.ack = UInt8(f.number - 1), !.cts = f.count, !.state = state]
<1>1. EffectOK(n, ss, r) /\ r.ss = ss /\ r.out = <<>> /\ r \in Effects
  BY EffectStart DEF SessionsOK
<1>2. i # 0 => i \in DOMAIN r.ss /\ SamePair(s, n, f.src)
  BY <1>1, GetSession DEF EffectOK, SessionsOK
<1>3. /\ f.src # n /\ f.src \in Nodes /\ f.pgn \in Pgns /\ f.count \in Counter
      /\ f.number \in Counter
  BY DEF ArrivingOK, Frames
<1>4. FrameOK(n, refusal) /\ refusal.dst = f.src
  BY <1>3, AbortFrameOK DEF Ends
<1>5. process_clear_to_send(n, f) =
        IF i = 0 THEN r
        ELSE IF s.pgn # f.pgn THEN [a EXCEPT !.out = Append(@, refusal)]
        ELSE IF \/ f.number > get_total_number_of_packets(s.size)
                \/ s.state # "WaitForClearToSend" THEN a
        ELSE [r EXCEPT !.ss[i] = opened]
  BY DEF process_clear_to_send
<1>6. CASE i # 0
  <2>1. SessionOK(n, s) /\ s \in Session /\ s.src = n /\ s.dst = f.src /\ s.dir = "tx"
    <3>1. SessionOK(n, s) /\ s \in Session /\ s.src = n /\ s.dst = f.src
      BY <1>1, <1>2, <1>6 DEF EffectOK, SessionsOK, SessionOK, SamePair
    <3>2. s.dir \in {"tx", "rx"}
      BY <3>1, SessionFields
    <3> QED
      BY <3>1, <3>2 DEF SessionOK
  <2> HIDE DEF r, i, refusal
  <2>2. EffectOK(n, ss, a) /\ (a.out = <<>> \/ a.out[1].dst = Peer(n, s))
    BY <1>1, <1>2, <1>6, AbortOK
  <2>3. EffectOK(n, ss, [a EXCEPT !.out = Append(@, refusal)])
    <3>1. Peer(n, s) = f.src
      BY <2>1 DEF Peer
    <3> HIDE DEF a
    <3> QED
      BY <1>4, <2>2, <3>1, WithFrame
  <2>4. EffectOK(n, ss, [r EXCEPT !.ss[i] = opened])
    <3>1. UInt8(f.number - 1) \in Counter
      <4>1. f.number - 1 \in Int
        BY <1>3 DEF Counter
      <4> QED
        BY <4>1, Bytes
    <3>2. s.state \in SendingStates /\ state \in SendingStates
      BY <2>1 DEF SessionOK, SendingStates
    <3> HIDE DEF s, state, ss
    <3>3. /\ opened \in Session /\ opened.dir = s.dir /\ opened.src = s.src /\ opened.dst = s.dst
          /\ opened.state = state /\ opened.data = s.data /\ opened.msg = s.msg
      BY <1>3, <2>1, <3>1, <3>2 DEF Session
    <3> HIDE DEF opened
    <3>4. SessionOK(n, opened)
      BY <2>1, <3>2, <3>3 DEF SessionOK
    <3> DEFINE ss2 == [r.ss EXCEPT ![i] = opened]
    <3>5. SessionsOK(n, ss2) /\ \A src, dst : Held(ss2, src, dst) => Held(r.ss, src, dst)
      <4>1. opened.dir = r.ss[i].dir /\ SamePair(opened, r.ss[i].src, r.ss[i].dst)
        BY <3>3 DEF SamePair, s
      <4> QED
        BY <1>1, <1>2, <1>6, <3>4, <4>1, ReplacedOK DEF EffectOK
    <3>6. [r EXCEPT !.ss[i] = opened] = [r EXCEPT !.ss = ss2]
      BY <1>1 DEF Effects
    <3> HIDE DEF ss2
    <3> QED
      BY <1>1, <3>5, <3>6, WithSessions
  <2> QED
    BY <1>1, <1>5, <2>2, <2>3, <2>4
<1> QED
  BY <1>1, <1>5, <1>6

\* process_end_of_session_acknowledgement closes the sender's session.
LEMMA EndOfMessageOK ==
    ASSUME NEW n \in Nodes, SessionsOK(n, sessions[n]), NEW f
    PROVE  EffectOK(n, sessions[n], process_end_of_session_acknowledgement(n, f))
<1> DEFINE r == Effect(sessions[n])
           i == get_session(r.ss, n, f.src)
<1>1. EffectOK(n, sessions[n], r)
  BY EffectStart
<1>2. i # 0 => i \in DOMAIN r.ss
  BY <1>1, GetSession DEF EffectOK, SessionsOK
<1>3. i # 0 => EffectOK(n, sessions[n], close_session(r, i, TRUE))
  BY <1>1, <1>2, CloseOK
<1>4. process_end_of_session_acknowledgement(n, f) =
        IF i # 0 /\ r.ss[i].state = "WaitForEndOfMessageAcknowledge"
        THEN close_session(r, i, TRUE) ELSE r
  BY DEF process_end_of_session_acknowledgement
<1> QED
  BY <1>1, <1>3, <1>4, Zenon

\* process_abort closes the sessions of both directions.
LEMMA ProcessAbortOK ==
    ASSUME NEW n \in Nodes, SessionsOK(n, sessions[n]), NEW f
    PROVE  EffectOK(n, sessions[n], process_abort(n, f))
<1> DEFINE Closed(r, src, dst) ==
               LET i == get_session(r.ss, src, dst)
               IN  IF i # 0 /\ r.ss[i].pgn = f.pgn THEN close_session(r, i, FALSE) ELSE r
           first == Closed(Effect(sessions[n]), f.src, n)
<1>1. ASSUME NEW r, EffectOK(n, sessions[n], r), NEW src, NEW dst
      PROVE  EffectOK(n, sessions[n], Closed(r, src, dst))
  <2> DEFINE i == get_session(r.ss, src, dst)
  <2>1. i # 0 => i \in DOMAIN r.ss
    BY <1>1, GetSession DEF EffectOK, SessionsOK
  <2>2. i # 0 => EffectOK(n, sessions[n], close_session(r, i, FALSE))
    BY <1>1, <2>1, CloseOK
  <2> QED
    BY <1>1, <2>2, Zenon
<1>2. EffectOK(n, sessions[n], Effect(sessions[n]))
  BY EffectStart
<1>3. process_abort(n, f) = Closed(first, n, f.src)
  BY DEF process_abort
<1> HIDE DEF Closed
<1>4. EffectOK(n, sessions[n], first)
  BY <1>1, <1>2
<1> HIDE DEF first
<1> QED
  BY <1>1, <1>3, <1>4

\* process_data_transfer_message keeps the packet, ends the session or aborts it.
LEMMA DataTransferOK ==
    ASSUME NEW n \in Nodes, SessionsOK(n, sessions[n]), NEW f, ArrivingOK(n, f),
           NEW ok \in BOOLEAN
    PROVE  EffectOK(n, sessions[n], process_data_transfer_message(n, f, ok))
<1> DEFINE ss == sessions[n]
           r == Effect(ss)
           i == get_session(r.ss, f.src, f.dst)
           old == r.ss[i]
           a == abort_session(r, i)
           s == [old EXCEPT !.last = f.number, !.data = Append(@, <<f.msg, f.number>>)]
           got == [r EXCEPT !.ss[i] = s]
           message == [src |-> s.src, pgn |-> s.pgn, size |-> s.size, data |-> s.data]
           out == IF is_broadcast(s) THEN <<>> ELSE <<EomaFrame(s)>>
           ended == [got EXCEPT !.rcv = <<message>>, !.out = out]
           sent == CtsSent(s, ok)
           asked == [got EXCEPT !.ss[i] = sent, !.out = <<CtsFrame(s)>>]
<1>1. EffectOK(n, ss, r) /\ r.ss = ss /\ r.out = <<>> /\ r \in Effects
  BY EffectStart DEF SessionsOK
<1>2. i # 0 => i \in DOMAIN r.ss /\ SamePair(old, f.src, f.dst)
  BY <1>1, GetSession DEF EffectOK, SessionsOK
<1>3. /\ f.src # n /\ f.src \in Nodes /\ f.dst \in {n, Global} /\ f.msg \in Names
      /\ f.number \in Counter
  BY DEF ArrivingOK, Frames
<1>4. process_data_transfer_message(n, f, ok) =
        IF i = 0 THEN r
        ELSE IF ~PacketExpected(old, f) THEN a
        ELSE IF get_number_of_remaining_packets(s) = 0 THEN close_session(ended, i, TRUE)
        ELSE IF get_cts_number_of_packets_remaining(s) = 0 THEN asked
        ELSE got
  BY DEF process_data_transfer_message
<1>5. CASE i # 0 /\ PacketExpected(old, f)
  <2>1. /\ SessionOK(n, old) /\ old \in Session /\ old.src = f.src /\ old.dst = f.dst
        /\ old.dir = "rx"
    <3>1. SessionOK(n, old) /\ old \in Session /\ old.src = f.src /\ old.dst = f.dst
      BY <1>1, <1>2, <1>5 DEF EffectOK, SessionsOK, SessionOK, SamePair
    <3>2. old.dir \in {"tx", "rx"}
      BY <3>1, SessionFields
    <3> QED
      BY <1>3, <3>1, <3>2 DEF SessionOK
  <2>2. /\ i \in DOMAIN r.ss /\ old.last \in Nat /\ f.number = old.last + 1 /\ f.number < 256
        /\ old.data \in Seq(Packets) /\ Len(old.data) <= old.last
        /\ old.size \in Sizes /\ old.pgn \in Pgns
    <3>1. f.number < 256
      BY <1>3 DEF Counter
    <3> QED
      BY <1>2, <1>5, <2>1, <3>1, SessionFields DEF PacketExpected, SessionOK
  <2> HIDE DEF r, i, ss
  <2>3. /\ s \in Session /\ s.dir = "rx" /\ s.src = f.src /\ s.dst = f.dst /\ s.state = old.state
        /\ s.last = f.number /\ s.ack = old.ack /\ s.cts = old.cts /\ s.msg = old.msg
        /\ s.size = old.size /\ s.pgn = old.pgn
        /\ s.data \in Seq(Packets) /\ Len(s.data) = Len(old.data) + 1
    <3>1. /\ Append(old.data, <<f.msg, f.number>>) \in Seq(Packets)
          /\ Len(Append(old.data, <<f.msg, f.number>>)) = Len(old.data) + 1
      <4>1. <<f.msg, f.number>> \in Packets
        BY <1>3 DEF Packets, Names
      <4> QED
        BY <2>2, <4>1
    <3> DEFINE data == Append(old.data, <<f.msg, f.number>>)
    <3> HIDE DEF old, data
    <3>2. s = [old EXCEPT !.last = f.number, !.data = data]
      BY DEF data
    <3> HIDE DEF s
    <3>3. /\ s \in Session /\ s.dir = old.dir /\ s.src = old.src /\ s.dst = old.dst
          /\ s.state = old.state /\ s.last = f.number /\ s.ack = old.ack /\ s.cts = old.cts
          /\ s.msg = old.msg /\ s.size = old.size /\ s.pgn = old.pgn /\ s.data = data
      BY <1>3, <2>1, <3>1, <3>2 DEF Session, data
    <3> QED
      BY <2>1, <3>1, <3>3 DEF data
  <2> HIDE DEF s
  <2>4. SessionOK(n, s)
    <3>1. Len(old.data) \in Nat
      BY <2>2
    <3>2. Len(s.data) <= s.last
      BY <2>2, <2>3, <3>1
    <3> QED
      BY <2>1, <2>3, <3>2 DEF SessionOK
  <2> DEFINE ss2 == [r.ss EXCEPT ![i] = s]
  <2>5. SessionsOK(n, ss2) /\ \A src, dst : Held(ss2, src, dst) => Held(r.ss, src, dst)
    <3>1. s.dir = r.ss[i].dir /\ SamePair(s, r.ss[i].src, r.ss[i].dst)
      BY <2>1, <2>3 DEF SamePair
    <3> QED
      BY <1>1, <2>2, <2>4, <3>1, ReplacedOK DEF EffectOK
  <2>6. EffectOK(n, ss, got) /\ got.ss = ss2 /\ got.out = <<>>
    <3>1. got = [r EXCEPT !.ss = ss2]
      BY <1>1 DEF Effects
    <3> HIDE DEF ss2, got
    <3> QED
      BY <1>1, <2>5, <3>1, WithSessions DEF ss
  <2>7. i \in DOMAIN ss2 /\ ss2[i] = s
    BY <1>1, <2>2 DEF EffectOK, SessionsOK
  <2> HIDE DEF got
  <2>8. EffectOK(n, ss, close_session(ended, i, TRUE))
    <3>1. message \in Handed
      BY <1>3, <2>2, <2>3 DEF Handed
    <3>2. OutOK(n, out)
      <4>1. CASE is_broadcast(s)
        BY <4>1 DEF OutOK
      <4>2. CASE ~is_broadcast(s)
        <5>1. s.dst = n /\ s.src # n /\ s.src \in Nodes /\ s.pgn \in Pgns /\ s.size \in Sizes
          BY <1>3, <2>2, <2>3, <4>2 DEF is_broadcast
        <5>2. FrameOK(n, EomaFrame(s)) /\ EomaFrame(s) \in Frames
          BY <5>1 DEF FrameOK, EomaFrame, Frame, Frames, Counter, Ends, Names
        <5>3. out = <<EomaFrame(s)>>
          BY <4>2
        <5> HIDE DEF out
        <5> QED
          BY <5>2, <5>3 DEF OutOK
      <4> QED
        BY <4>1, <4>2
    <3> HIDE DEF message, out
    <3>3. ended \in Effects /\ ended.ss = ss2 /\ ended.out = out
      <4>1. got \in Effects /\ <<message>> \in Seq(Handed) /\ out \in Seq(Frames)
        BY <2>6, <3>1, <3>2 DEF EffectOK, OutOK
      <4> HIDE DEF ss2
      <4> QED
        BY <2>6, <4>1 DEF Effects
    <3> HIDE DEF ended, ss2
    <3>4. EffectOK(n, ss, ended)
      BY <2>6, <3>2, <3>3 DEF EffectOK
    <3> QED
      BY <2>7, <3>3, <3>4, CloseOK
  <2>9. ASSUME get_cts_number_of_packets_remaining(s) = 0
        PROVE  EffectOK(n, ss, asked)
    <3>1. s.dst = n
      <4>1. SUFFICES ASSUME s.dst = Global PROVE FALSE
        BY <1>3, <2>3
      <4>2. s.ack = 0 /\ s.cts = 0
        BY <2>3, <2>4, <4>1 DEF SessionOK
      <4>3. s.last \in 1..255
        <5>1. old.last \in Nat /\ f.number = old.last + 1 /\ f.number < 256
          BY <2>2
        <5>2. s.last = f.number
          BY <2>3
        <5> HIDE DEF old
        <5> QED
          BY <5>1, <5>2
      <4>4. UInt8(s.last - s.ack) = s.last
        BY <4>2, <4>3 DEF UInt8
      <4>5. UInt8(s.cts - s.last) = 256 - s.last
        BY <4>2, <4>3 DEF UInt8
      <4> QED
        BY <2>9, <4>3, <4>4, <4>5 DEF get_cts_number_of_packets_remaining
    <3>2. SessionOK(n, sent) /\ sent.dir = "rx" /\ sent.src = s.src /\ sent.dst = s.dst
      BY <2>3, <2>4, <3>1, CtsSentOK
    <3>3. FrameOK(n, CtsFrame(s))
      BY <2>3, <2>4, <3>1, CtsFrameOK
    <3> HIDE DEF sent
    <3> DEFINE ss3 == [ss2 EXCEPT ![i] = sent]
               opened == [got EXCEPT !.ss = ss3]
    <3>4. SessionsOK(n, ss3) /\ \A src, dst : Held(ss3, src, dst) => Held(ss2, src, dst)
      <4>1. sent.dir = ss2[i].dir /\ SamePair(sent, ss2[i].src, ss2[i].dst)
        BY <2>3, <2>7, <3>2 DEF SamePair
      <4> HIDE DEF ss2
      <4> QED
        BY <2>5, <2>7, <3>2, <4>1, ReplacedOK
    <3>5. EffectOK(n, ss, opened)
      <4> HIDE DEF ss2, ss3
      <4>1. \A dst : Held(ss3, n, dst) => Held(ss, n, dst)
        BY <2>6, <3>4 DEF EffectOK
      <4> QED
        BY <2>6, <3>4, <4>1, WithSessions
    <3>6. EffectOK(n, ss, [opened EXCEPT !.out = <<CtsFrame(s)>>])
      <4> HIDE DEF opened
      <4> QED
        BY <3>3, <3>5, WithSingle
    <3>7. asked = [opened EXCEPT !.out = <<CtsFrame(s)>>]
      <4>1. got \in Effects
        BY <2>6 DEF EffectOK
      <4> HIDE DEF ss2
      <4> QED
        BY <2>6, <4>1 DEF Effects
    <3> QED
      BY <3>6, <3>7
  <2> HIDE DEF r, i, ended, asked, a
  <2>10. \/ process_data_transfer_message(n, f, ok) = close_session(ended, i, TRUE)
         \/ /\ get_cts_number_of_packets_remaining(s) = 0
            /\ process_data_transfer_message(n, f, ok) = asked
         \/ process_data_transfer_message(n, f, ok) = got
    BY <1>4, <1>5
  <2> QED
    BY <2>6, <2>8, <2>9, <2>10 DEF ss
<1>6. CASE i = 0 \/ ~PacketExpected(old, f)
  <2>1. i # 0 => EffectOK(n, ss, a)
    <3> HIDE DEF r, i
    <3> QED
      BY <1>1, <1>2, AbortOK
  <2> QED
    BY <1>1, <1>4, <1>6, <2>1, Zenon
<1> QED
  BY <1>5, <1>6, Zenon

\* process_message, whatever the frame.
LEMMA ProcessMessageOK ==
    ASSUME NEW n \in Nodes, SessionsOK(n, sessions[n]), NEW f, ArrivingOK(n, f),
           NEW ok \in BOOLEAN
    PROVE  EffectOK(n, sessions[n], process_message(n, f, ok))
<1>1. f.kind \in {"BAM", "RTS", "CTS", "EOMA", "ABORT", "DATA"}
  BY DEF ArrivingOK, Frames
<1>2. CASE n \notin valid
  <2>1. process_message(n, f, ok) = Effect(sessions[n])
    BY <1>2, Zenon DEF process_message
  <2> QED
    BY <2>1, EffectStart
<1>3. CASE n \in valid /\ f.kind = "BAM"
  <2>1. process_message(n, f, ok) = process_broadcast_announce_message(n, f)
    BY <1>3, Zenon DEF process_message
  <2> QED
    BY <1>3, <2>1, BroadcastAnnounceOK
<1>4. CASE n \in valid /\ f.kind = "RTS"
  <2>1. process_message(n, f, ok) = process_request_to_send(n, f, ok)
    BY <1>4, Zenon DEF process_message
  <2> QED
    BY <1>4, <2>1, RequestToSendOK
<1>5. CASE n \in valid /\ f.kind = "CTS"
  <2>1. process_message(n, f, ok) = process_clear_to_send(n, f)
    BY <1>5, Zenon DEF process_message
  <2> QED
    BY <1>5, <2>1, ClearToSendOK
<1>6. CASE n \in valid /\ f.kind = "EOMA"
  <2>1. process_message(n, f, ok) = process_end_of_session_acknowledgement(n, f)
    BY <1>6, Zenon DEF process_message
  <2> QED
    BY <1>6, <2>1, EndOfMessageOK
<1>7. CASE n \in valid /\ f.kind = "ABORT"
  <2>1. process_message(n, f, ok) = process_abort(n, f)
    BY <1>7, Zenon DEF process_message
  <2> QED
    BY <1>7, <2>1, ProcessAbortOK
<1>8. CASE n \in valid /\ f.kind = "DATA"
  <2>1. process_message(n, f, ok) = process_data_transfer_message(n, f, ok)
    BY <1>8, Zenon DEF process_message
  <2> QED
    BY <1>8, <2>1, DataTransferOK
<1> QED
  BY <1>1, <1>2, <1>3, <1>4, <1>5, <1>6, <1>7, <1>8

--------------------------------------------------------------------------------
\* The updates

\* A session the manager holds is one.
LEMMA SessionHeld ==
    ASSUME NEW n \in Nodes, SessionsOK(n, sessions[n]), NEW i \in DOMAIN sessions[n]
    PROVE  SessionOK(n, sessions[n][i]) /\ sessions[n][i] \in Session
BY DEF SessionsOK, SessionOK

\* A handler that only changes one session in place.
LEMMA StartReplaced ==
    ASSUME NEW n \in Nodes, NEW ss, SessionsOK(n, ss), NEW i \in DOMAIN ss,
           NEW s, SessionOK(n, s), s.dir = ss[i].dir, SamePair(s, ss[i].src, ss[i].dst)
    PROVE  LET r == Effect([ss EXCEPT ![i] = s])
           IN  EffectOK(n, ss, r) /\ r.out = <<>> /\ r.ss = [ss EXCEPT ![i] = s] /\ r \in Effects
<1> DEFINE ss2 == [ss EXCEPT ![i] = s]
<1>1. SessionsOK(n, ss2) /\ \A src, dst : Held(ss2, src, dst) => Held(ss, src, dst)
  BY ReplacedOK
<1> HIDE DEF ss2
<1>2. /\ EffectOK(n, ss2, Effect(ss2)) /\ Effect(ss2).out = <<>> /\ Effect(ss2).ss = ss2
      /\ Effect(ss2) \in Effects
  BY <1>1, EffectStart
<1>3. EffectOK(n, ss, Effect(ss2))
  BY <1>1, <1>2 DEF EffectOK
<1> QED
  BY <1>2, <1>3 DEF ss2

\* The update of a session that has an announcement or a clear-to-send to send.
LEMMA AnnouncedOK ==
    ASSUME NEW n \in Nodes, NEW s, SessionOK(n, s), s.state \in SendStates
    PROVE  /\ SessionOK(n, Announced(s)) /\ Announced(s).dir = s.dir
           /\ SamePair(Announced(s), s.src, s.dst)
           /\ FrameOK(n, Announcement(s)) /\ Announcement(s) \in Frames
<1>1. s \in Session /\ UInt8(s.last + 1) \in Counter /\ 255 \in Counter /\ n # Global
  <2>1. s \in Session
    BY DEF SessionOK
  <2>2. s.last + 1 \in Int
    BY <2>1, SessionFields
  <2> QED
    BY <2>1, <2>2, Bytes, MessagesAssumption DEF Counter
<1>2. /\ s.dir \in {"tx", "rx"} /\ s.src \in Nodes /\ s.dst \in Ends /\ s.pgn \in Pgns
      /\ s.size \in Sizes /\ s.limit \in Counter
      /\ get_total_number_of_packets(s.size) \in Counter
  BY <1>1, SessionFields, Remaining
<1>3. CASE s.state = "SendBroadcastAnnounce"
  <2>1. s.dir = "tx" /\ s.src = n
    BY <1>2, <1>3 DEF SessionOK, ReceivingStates
  <2>2. Announced(s) = [s EXCEPT !.state = "SendDataTransferPackets"] /\ Announcement(s) = BamFrame(s)
    BY <1>3, Zenon DEF Announced, Announcement
  <2>3. /\ Announced(s) \in Session /\ Announced(s).dir = s.dir /\ Announced(s).src = s.src
        /\ Announced(s).dst = s.dst /\ Announced(s).msg = s.msg /\ Announced(s).data = s.data
        /\ Announced(s).state = "SendDataTransferPackets"
    BY <1>1, <2>2 DEF Session, SendingStates
  <2>4. SessionOK(n, Announced(s))
    BY <2>1, <2>3 DEF SessionOK, SendingStates
  <2>5. FrameOK(n, BamFrame(s)) /\ BamFrame(s) \in Frames
    BY <1>1, <1>2, <2>1 DEF FrameOK, BamFrame, Frame, Frames, Ends, Names
  <2> QED
    BY <2>2, <2>3, <2>4, <2>5 DEF SamePair
<1>4. CASE s.state = "SendRequestToSend"
  <2>1. s.dir = "tx" /\ s.src = n /\ s.dst # n
    <3>1. s.dir = "tx"
      BY <1>2, <1>4 DEF SessionOK, ReceivingStates
    <3> QED
      BY <3>1, MessageEnds DEF SessionOK
  <2>2. Announced(s) = [s EXCEPT !.state = "WaitForClearToSend"] /\ Announcement(s) = RtsFrame(s)
    BY <1>4, Zenon DEF Announced, Announcement
  <2>3. /\ Announced(s) \in Session /\ Announced(s).dir = s.dir /\ Announced(s).src = s.src
        /\ Announced(s).dst = s.dst /\ Announced(s).msg = s.msg /\ Announced(s).data = s.data
        /\ Announced(s).state = "WaitForClearToSend"
    BY <1>1, <2>2 DEF Session, SendingStates
  <2>4. SessionOK(n, Announced(s))
    BY <2>1, <2>3 DEF SessionOK, SendingStates
  <2>5. FrameOK(n, RtsFrame(s)) /\ RtsFrame(s) \in Frames
    BY <1>1, <1>2, <2>1 DEF FrameOK, RtsFrame, Frame, Frames, Ends, Names
  <2> QED
    BY <2>2, <2>3, <2>4, <2>5 DEF SamePair
<1>5. CASE s.state = "SendClearToSend"
  <2>1. s.dir = "rx" /\ s.dst = n
    BY <1>2, <1>5 DEF SessionOK, SendingStates
  <2> DEFINE c == CtsSent(s, TRUE)
  <2>2. /\ SessionOK(n, c) /\ c.dir = "rx" /\ c.src = s.src /\ c.dst = s.dst
    BY <2>1, CtsSentOK
  <2> HIDE DEF c
  <2>3. /\ Announced(s) = [c EXCEPT !.state = "WaitForDataTransferPacket"]
        /\ Announcement(s) = CtsFrame(s)
    BY <1>5, Zenon DEF Announced, Announcement, c
  <2>4. c \in Session
    BY <2>2 DEF SessionOK
  <2>5. /\ Announced(s) \in Session /\ Announced(s).dir = c.dir /\ Announced(s).src = c.src
        /\ Announced(s).dst = c.dst /\ Announced(s).msg = c.msg /\ Announced(s).data = c.data
        /\ Announced(s).state = "WaitForDataTransferPacket" /\ Announced(s).last = c.last
    BY <2>3, <2>4 DEF Session, ReceivingStates
  <2>6. SessionOK(n, Announced(s))
    BY <1>1, <2>1, <2>2, <2>5 DEF SessionOK, ReceivingStates
  <2>7. FrameOK(n, CtsFrame(s)) /\ CtsFrame(s) \in Frames
    BY <2>1, CtsFrameOK
  <2> QED
    BY <2>1, <2>2, <2>3, <2>5, <2>6, <2>7 DEF SamePair
<1> QED
  BY <1>3, <1>4, <1>5 DEF SendStates

\* The update of a session whose wait lasted too long.
LEMMA TimedOutOK ==
    ASSUME NEW n \in Nodes, SessionsOK(n, sessions[n]), NEW i \in DOMAIN sessions[n]
    PROVE  EffectOK(n, sessions[n], TimedOut(n, i))
<1> DEFINE r == Effect(sessions[n])
<1>1. EffectOK(n, sessions[n], r) /\ r.out = <<>> /\ i \in DOMAIN r.ss
  BY EffectStart
<1>2. TimedOut(n, i) = close_session(r, i, FALSE) \/ TimedOut(n, i) = abort_session(r, i)
  BY DEF TimedOut
<1> HIDE DEF r
<1>3. /\ EffectOK(n, sessions[n], close_session(r, i, FALSE))
      /\ EffectOK(n, sessions[n], abort_session(r, i))
  BY <1>1, CloseOK, AbortOK
<1> QED
  BY <1>2, <1>3

\* send_data_transfer_packets, however many packets the driver takes.
LEMMA SendDataOK ==
    ASSUME NEW n \in Nodes, SessionsOK(n, sessions[n]), NEW i \in DOMAIN sessions[n],
           sessions[n][i].dir = "tx", NEW k \in Nat
    PROVE  EffectOK(n, sessions[n], send_data_transfer_packets(n, i, k))
<1> DEFINE ss == sessions[n]
           old == ss[i]
           s == [old EXCEPT !.last = UInt8(@ + k)]
           ss2 == [ss EXCEPT ![i] = s]
           out == [j \in 1..k |-> DataFrame(old, old.last + j)]
           r == [Effect(ss2) EXCEPT !.out = out]
           WithState(state) == [r EXCEPT !.ss[i].state = state]
<1>1. /\ SessionOK(n, old) /\ old \in Session /\ old.src = n /\ old.dst \in Ends /\ old.dst # n
      /\ old.msg \in Names /\ old.last \in Int
  <2>1. SessionOK(n, old) /\ old \in Session
    BY SessionHeld
  <2>2. old.src = n /\ old.dst # n
    BY <2>1, MessageEnds DEF SessionOK
  <2> QED
    BY <2>1, <2>2, SessionFields
<1>2. UInt8(old.last + k) \in Counter
  <2>1. old.last + k \in Int
    BY <1>1
  <2> QED
    BY <2>1, Bytes
<1>3. /\ s \in Session /\ s.dir = "tx" /\ s.src = old.src /\ s.dst = old.dst
      /\ s.state = old.state /\ s.data = old.data /\ s.msg = old.msg
  <2> HIDE DEF ss
  <2> QED
    BY <1>1, <1>2 DEF Session, ss
<1> HIDE DEF s
<1>4. SessionOK(n, s) /\ SamePair(s, old.src, old.dst)
  BY <1>1, <1>3 DEF SessionOK, SamePair
<1>5. /\ EffectOK(n, ss, Effect(ss2)) /\ Effect(ss2).ss = ss2 /\ Effect(ss2) \in Effects
  BY <1>3, <1>4, StartReplaced
<1>6. OutOK(n, out)
  <2>1. ASSUME NEW j \in 1..k
        PROVE  /\ DataFrame(old, old.last + j) \in Frames /\ FrameOK(n, DataFrame(old, old.last + j))
               /\ DataFrame(old, old.last + j).dst = old.dst
    <3>1. UInt8(old.last + j) \in Counter
      <4>1. old.last + j \in Int
        BY <1>1
      <4> QED
        BY <4>1, Bytes
    <3> HIDE DEF old
    <3> QED
      BY <1>1, <3>1 DEF DataFrame, Frame, Frames, FrameOK, Counter, Pgns
  <2>2. out \in Seq(Frames) /\ DOMAIN out = 1..k
    BY <2>1
  <2> QED
    BY <2>1, <2>2 DEF OutOK
<1> HIDE DEF ss2, out
<1>7. /\ r \in Effects /\ r.ss = ss2 /\ r.out = out /\ EffectOK(n, ss, r)
  <2>1. out \in Seq(Frames)
    BY <1>6 DEF OutOK
  <2>2. r \in Effects /\ r.ss = ss2 /\ r.out = out
    BY <1>5, <2>1 DEF Effects
  <2> HIDE DEF r
  <2> QED
    BY <1>5, <1>6, <2>2 DEF EffectOK
<1>8. i \in DOMAIN ss2 /\ ss2[i] = s
  BY DEF ss2, SessionsOK
<1>9. send_data_transfer_packets(n, i, k) =
        IF get_number_of_remaining_packets(s) = 0
          THEN IF is_broadcast(s) THEN close_session(r, i, TRUE)
               ELSE WithState("WaitForEndOfMessageAcknowledge")
        ELSE IF get_cts_number_of_packets_remaining(s) = 0 /\ ~is_broadcast(s)
          THEN WithState("WaitForClearToSend")
        ELSE r
  BY DEF send_data_transfer_packets, s, ss2, out
<1> HIDE DEF r
<1>10. EffectOK(n, ss, close_session(r, i, TRUE))
  BY <1>7, <1>8, CloseOK
<1>11. ASSUME NEW state \in SendingStates
       PROVE  EffectOK(n, ss, WithState(state))
  <2> DEFINE s3 == [s EXCEPT !.state = state]
             ss3 == [ss2 EXCEPT ![i] = s3]
  <2>1. /\ s3 \in Session /\ s3.dir = "tx" /\ s3.src = s.src /\ s3.dst = s.dst
        /\ s3.state = state /\ s3.data = s.data /\ s3.msg = s.msg
    BY <1>3 DEF Session
  <2>2. SessionOK(n, s3) /\ SamePair(s3, s.src, s.dst)
    <3> HIDE DEF s3
    <3> QED
      BY <1>3, <1>4, <2>1 DEF SessionOK, SamePair
  <2>3. SessionsOK(n, ss3) /\ \A src, dst : Held(ss3, src, dst) => Held(ss2, src, dst)
    <3> HIDE DEF s3
    <3> QED
      BY <1>3, <1>7, <1>8, <2>1, <2>2, ReplacedOK DEF EffectOK
  <2>4. WithState(state) = [r EXCEPT !.ss = ss3]
    BY <1>7, <1>8 DEF Effects
  <2> HIDE DEF ss3, ss
  <2>5. \A dst : Held(ss3, n, dst) => Held(ss, n, dst)
    BY <1>7, <2>3 DEF EffectOK
  <2> QED
    BY <1>7, <2>3, <2>4, <2>5, WithSessions
<1> HIDE DEF WithState, ss
<1> QED
  BY <1>7, <1>9, <1>10, <1>11 DEF SendingStates, ss

--------------------------------------------------------------------------------
\* The inductive invariant

\* The types of the variables.
TypesOK ==
    /\ sessions \in [Nodes -> Seq(Session)]
    /\ inbox \in [Nodes -> Seq(Frames)]
    /\ app \in [Threads -> [pc : {"idle", "checked", "inserted", "sending", "sent"}, msg : Names]]
    /\ outcome \in [Messages -> {"idle", "pending", "success", "failed"}]
    /\ valid \subseteq Nodes
    /\ scenario \in Scenarios

\* Frames on their way to a node come from another one.
BoxOK(box) ==
    /\ box \in [Nodes -> Seq(Frames)]
    /\ \A n \in Nodes : \A i \in DOMAIN box[n] : ArrivingOK(n, box[n][i])

\* Every manager holds one session per pair, no more receptions than configured.
ManagersOK == \A n \in Nodes : SessionsOK(n, sessions[n])

\* A thread inside protocol_transmit_message holds one of its messages; between
\* the check and the insertion the pair has no session.
CallOK(t) ==
    app[t].pc # "idle" =>
        /\ app[t].msg \in Messages /\ scenario.thread[app[t].msg] = t /\ Fits(Size[app[t].msg])
        /\ app[t].pc = "checked" =>
              ~Held(sessions[From[app[t].msg]], From[app[t].msg], To[app[t].msg])

\* No two threads are inside protocol_transmit_message for the same node.
OneCallPerNode ==
    \A t, u \in Threads :
        app[t].pc # "idle" /\ app[u].pc # "idle" /\ From[app[t].msg] = From[app[u].msg] => t = u

\* The inductive invariant.
TransportInv ==
    /\ TypesOK /\ BoxOK(inbox) /\ ManagersOK
    /\ \A t \in Threads : CallOK(t)
    /\ OneCallPerNode

\* A step gives no node a new session of its own.
NoNewSession ==
    \A n \in Nodes : \A dst : Held(sessions'[n], n, dst) => Held(sessions[n], n, dst)

\* The inductive invariant contains the type invariant and the uniqueness of
\* sessions the runs check.
LEMMA InvariantImplies ==
    ASSUME TransportInv
    PROVE  TypeOK /\ OneSessionPerPair
<1>1. ASSUME NEW n \in Nodes, NEW i \in DOMAIN sessions[n]
      PROVE  /\ sessions[n][i].dir \in {"tx", "rx"}
             /\ IF sessions[n][i].dir = "tx" THEN sessions[n][i].src = n
                ELSE sessions[n][i].dst \in {n, Global}
             /\ sessions[n][i].state \in SendStates \cup WaitStates
                                            \cup {"SendDataTransferPackets"}
             /\ {sessions[n][i].last, sessions[n][i].ack, sessions[n][i].cts,
                 sessions[n][i].limit} \subseteq Counter
             /\ sessions[n][i].size \in 9..MAX_PROTOCOL_DATA_LENGTH
             /\ sessions[n][i].data \in Seq(Packets)
             /\ Len(sessions[n][i].data) <= sessions[n][i].last
  <2> DEFINE s == sessions[n][i]
  <2>1. SessionOK(n, s) /\ s \in Session
    BY SessionHeld DEF TransportInv, ManagersOK
  <2> HIDE DEF s
  <2>2. /\ s.dir \in {"tx", "rx"} /\ s.state \in SendingStates \cup ReceivingStates
        /\ s.last \in Counter /\ s.ack \in Counter /\ s.cts \in Counter /\ s.limit \in Counter
        /\ s.size \in Sizes /\ s.data \in Seq(Packets) /\ s.last \in Nat
    BY <2>1, SessionFields
  <2>3. Len(s.data) <= s.last
    <3>1. CASE s.dir = "tx"
      <4>1. Len(s.data) = 0
        BY <2>1, <3>1 DEF SessionOK
      <4> QED
        BY <2>2, <4>1
    <3>2. CASE s.dir = "rx"
      BY <2>1, <3>2 DEF SessionOK
    <3> QED
      BY <2>2, <3>1, <3>2
  <2>4. IF s.dir = "tx" THEN s.src = n ELSE s.dst \in {n, Global}
    BY <2>1, <2>2 DEF SessionOK
  <2>5. s.state \in SendStates \cup WaitStates \cup {"SendDataTransferPackets"}
    BY <2>2 DEF SendingStates, ReceivingStates, SendStates, WaitStates
  <2> QED
    BY <2>2, <2>3, <2>4, <2>5 DEF s, Sizes
<1>2. ASSUME NEW n \in Nodes, NEW i \in DOMAIN inbox[n]
      PROVE  /\ inbox[n][i].dst \in {n, Global} /\ inbox[n][i].src # n
             /\ {inbox[n][i].count, inbox[n][i].number} \subseteq Counter
  <2>1. ArrivingOK(n, inbox[n][i])
    BY DEF TransportInv, BoxOK
  <2>2. inbox[n][i].count \in Counter /\ inbox[n][i].number \in Counter
    BY <2>1 DEF ArrivingOK, Frames
  <2> QED
    BY <2>1, <2>2 DEF ArrivingOK
<1>3. \A t \in Threads : app[t].pc \in {"idle", "checked", "inserted", "sending", "sent"}
  BY DEF TransportInv, TypesOK
<1>4. TypeOK
  BY <1>1, <1>2, <1>3, Zenon DEF TypeOK, TransportInv, TypesOK
<1>5. OneSessionPerPair
  BY Zenon DEF TransportInv, ManagersOK, SessionsOK, Distinct, SamePair, Receptions, OneSessionPerPair
<1> QED
  BY <1>4, <1>5

\* The frames a handler sends arrive at the nodes they are for.
LEMMA SentOK ==
    ASSUME NEW box, BoxOK(box), NEW n \in Nodes, NEW out, OutOK(n, out)
    PROVE  BoxOK(Sent(box, out))
<1>1. out \in Seq(Frames) /\ \A j \in DOMAIN out : FrameOK(n, out[j]) /\ out[j].dst = out[1].dst
  BY DEF OutOK
<1>2. ASSUME NEW k \in Nodes
      PROVE  /\ Sent(box, out)[k] \in Seq(Frames)
             /\ \A i \in DOMAIN Sent(box, out)[k] : ArrivingOK(k, Sent(box, out)[k][i])
  <2>1. box[k] \in Seq(Frames) /\ \A i \in DOMAIN box[k] : ArrivingOK(k, box[k][i])
    BY DEF BoxOK
  <2>2. Sent(box, out)[k] = IF out # <<>> /\ Reaches(Head(out), k) THEN box[k] \o out ELSE box[k]
    BY DEF Sent
  <2>3. CASE out # <<>> /\ Reaches(Head(out), k)
    <3>1. Head(out) = out[1] /\ 1 \in DOMAIN out
      BY <1>1, <2>3
    <3>2. \A j \in DOMAIN out : ArrivingOK(k, out[j])
      <4>1. n # k
        BY <1>1, <2>3, <3>1, MessagesAssumption DEF Reaches, FrameOK
      <4>2. out[1].dst \in {k, Global}
        BY <2>3, <3>1 DEF Reaches
      <4> QED
        BY <1>1, <4>1, <4>2 DEF FrameOK, ArrivingOK
    <3>3. /\ box[k] \o out \in Seq(Frames)
          /\ \A i \in DOMAIN (box[k] \o out) :
                \/ i \in DOMAIN box[k] /\ (box[k] \o out)[i] = box[k][i]
                \/ i - Len(box[k]) \in DOMAIN out /\ (box[k] \o out)[i] = out[i - Len(box[k])]
      BY <1>1, <2>1
    <3> QED
      BY <2>1, <2>2, <2>3, <3>2, <3>3
  <2> QED
    BY <2>1, <2>2, <2>3
<1>3. Sent(box, out) \in [Nodes -> Seq(Frames)]
  BY <1>2 DEF Sent
<1> QED
  BY <1>2, <1>3 DEF BoxOK

\* Carrying out what a handler does keeps the managers in order and gives the
\* node no new session of its own, so no application thread's check turns stale.
LEMMA PerformKeeps ==
    ASSUME TransportInv, NEW n \in Nodes, NEW r, EffectOK(n, sessions[n], r),
           NEW box, BoxOK(box), NEW ok \in BOOLEAN, Perform(n, r, box, ok)
    PROVE  /\ sessions' \in [Nodes -> Seq(Session)] /\ ManagersOK' /\ NoNewSession
           /\ BoxOK(inbox') /\ outcome' \in [Messages -> {"idle", "pending", "success", "failed"}]
<1>1. /\ sessions' = [sessions EXCEPT ![n] = r.ss]
      /\ inbox' = IF ok THEN Sent(box, r.out) ELSE box
      /\ outcome' = [m \in Messages |-> IF <<m, TRUE>> \in r.done THEN "success"
                                        ELSE IF <<m, FALSE>> \in r.done THEN "failed"
                                        ELSE outcome[m]]
  BY DEF Perform
<1>2. /\ sessions \in [Nodes -> Seq(Session)] /\ r.ss \in Seq(Session)
      /\ outcome \in [Messages -> {"idle", "pending", "success", "failed"}]
  BY DEF TransportInv, TypesOK, EffectOK, SessionsOK
<1>3. sessions' \in [Nodes -> Seq(Session)]
  BY <1>1, <1>2
<1>4. \A k \in Nodes : sessions'[k] = IF k = n THEN r.ss ELSE sessions[k]
  BY <1>1, <1>2
<1>5. ManagersOK'
  BY <1>4 DEF ManagersOK, TransportInv, EffectOK
<1>6. NoNewSession
  BY <1>4 DEF NoNewSession, EffectOK
<1>7. BoxOK(inbox')
  BY <1>1, SentOK DEF EffectOK
<1>8. outcome' \in [Messages -> {"idle", "pending", "success", "failed"}]
  BY <1>1, <1>2
<1> QED
  BY <1>3, <1>5, <1>6, <1>7, <1>8

\* A call in progress may end or go on; it does not start.
LEMMA CallsKept ==
    ASSUME TransportInv, NoNewSession, scenario' = scenario,
           app' \in [Threads -> [pc : {"idle", "checked", "inserted", "sending", "sent"}, msg : Names]],
           \A t \in Threads : \/ app'[t] = app[t] \/ app'[t].pc = "idle"
                              \/ /\ app[t].pc # "idle" /\ app'[t].msg = app[t].msg
                                 /\ app'[t].pc # "checked"
    PROVE  (\A t \in Threads : CallOK(t)') /\ OneCallPerNode'
<1>1. ASSUME NEW t \in Threads PROVE CallOK(t)'
  <2>1. CallOK(t)
    BY DEF TransportInv
  <2>2. app'[t] = app[t] /\ app[t].pc # "idle" => From[app[t].msg] \in Nodes
    BY <2>1, MessageEnds DEF CallOK
  <2> QED
    BY <2>1, <2>2 DEF CallOK, NoNewSession
<1>2. OneCallPerNode'
  <2>1. \A t \in Threads : app'[t].pc # "idle" => app[t].pc # "idle" /\ app'[t].msg = app[t].msg
    OBVIOUS
  <2> QED
    BY <2>1 DEF OneCallPerNode, TransportInv
<1> QED
  BY <1>1, <1>2

--------------------------------------------------------------------------------
\* The steps

\* What the steps that leave the calls alone have to keep.
LEMMA NetworkKeeps ==
    ASSUME TransportInv, NoNewSession, ManagersOK',
           sessions' \in [Nodes -> Seq(Session)], BoxOK(inbox'),
           outcome' \in [Messages -> {"idle", "pending", "success", "failed"}],
           valid' \subseteq Nodes, scenario' = scenario, app' = app
    PROVE  TransportInv'
<1>1. (\A t \in Threads : CallOK(t)') /\ OneCallPerNode'
  BY CallsKept, Zenon DEF TransportInv, TypesOK
<1>2. TypesOK'
  BY Zenon DEF TransportInv, TypesOK, BoxOK
<1> QED
  BY <1>1, <1>2, Zenon DEF TransportInv, BoxOK

\* The network thread handles a received frame.
LEMMA ReceiveKeeps ==
    ASSUME TransportInv, NEW n \in Nodes, Receive(n), scenario' = scenario
    PROVE  TransportInv'
<1> DEFINE box == [inbox EXCEPT ![n] = Tail(@)]
<1>1. PICK ok \in BOOLEAN : Perform(n, process_message(n, Head(inbox[n]), ok), box, ok)
  BY DEF Receive
<1>2. inbox[n] # <<>> /\ app' = app /\ valid' = valid
  BY DEF Receive
<1>3. inbox \in [Nodes -> Seq(Frames)] /\ \A k \in Nodes : \A i \in DOMAIN inbox[k] : ArrivingOK(k, inbox[k][i])
  BY DEF TransportInv, BoxOK
<1>4. ArrivingOK(n, Head(inbox[n]))
  BY <1>2, <1>3
<1>5. BoxOK(box)
  <2>1. Tail(inbox[n]) \in Seq(Frames)
    BY <1>2, <1>3
  <2>2. ASSUME NEW i \in DOMAIN Tail(inbox[n])
        PROVE  Tail(inbox[n])[i] = inbox[n][i + 1] /\ i + 1 \in DOMAIN inbox[n]
    BY <1>2, <1>3
  <2>3. \A i \in DOMAIN Tail(inbox[n]) : ArrivingOK(n, Tail(inbox[n])[i])
    BY <1>3, <2>2
  <2> QED
    BY <1>3, <2>1, <2>3 DEF BoxOK
<1>6. EffectOK(n, sessions[n], process_message(n, Head(inbox[n]), ok))
  BY <1>4, ProcessMessageOK DEF TransportInv, ManagersOK
<1> HIDE DEF box
<1>7. /\ sessions' \in [Nodes -> Seq(Session)] /\ ManagersOK' /\ NoNewSession /\ BoxOK(inbox')
      /\ outcome' \in [Messages -> {"idle", "pending", "success", "failed"}]
  BY <1>1, <1>5, <1>6, PerformKeeps
<1>8. valid' \subseteq Nodes
  BY <1>2 DEF TransportInv, TypesOK
<1> QED
  BY <1>2, <1>7, <1>8, NetworkKeeps

\* The data packets a session sends, whoever serves it.
LEMMA SendDataKeeps ==
    ASSUME TransportInv, NEW n \in Nodes, NEW i \in DOMAIN sessions[n],
           sessions[n][i].state = "SendDataTransferPackets", SendData(n, i)
    PROVE  /\ sessions' \in [Nodes -> Seq(Session)] /\ ManagersOK' /\ NoNewSession
           /\ BoxOK(inbox') /\ outcome' \in [Messages -> {"idle", "pending", "success", "failed"}]
           /\ valid' = valid
<1>1. PICK k \in 0..FramesToSend(sessions[n][i]) :
        LET r == send_data_transfer_packets(n, i, k)
        IN  /\ sessions' = [sessions EXCEPT ![n] = r.ss] /\ inbox' = Sent(inbox, r.out)
            /\ outcome' = [m \in Messages |-> IF <<m, TRUE>> \in r.done
                                              THEN "success" ELSE outcome[m]]
            /\ valid' = valid
  BY DEF SendData
<1>2. SessionOK(n, sessions[n][i]) /\ sessions[n][i] \in Session /\ SessionsOK(n, sessions[n])
  BY SessionHeld DEF TransportInv, ManagersOK
<1>3. sessions[n][i].dir = "tx"
  <2>1. sessions[n][i].dir \in {"tx", "rx"}
    BY <1>2, SessionFields
  <2> QED
    BY <1>2, <2>1 DEF SessionOK, ReceivingStates
<1>4. k \in Nat
  <2>1. FramesToSend(sessions[n][i]) \in Int
    BY <1>2, Remaining, ConfigurationAssumption DEF FramesToSend, Smaller, Counter
  <2> QED
    BY <1>1, <2>1
<1> DEFINE r == send_data_transfer_packets(n, i, k)
<1>5. EffectOK(n, sessions[n], r)
  BY <1>2, <1>3, <1>4, SendDataOK
<1>6. /\ sessions' = [sessions EXCEPT ![n] = r.ss] /\ inbox' = Sent(inbox, r.out)
      /\ outcome' = [m \in Messages |-> IF <<m, TRUE>> \in r.done THEN "success" ELSE outcome[m]]
      /\ valid' = valid
  BY <1>1
<1> HIDE DEF r
<1>7. /\ sessions \in [Nodes -> Seq(Session)] /\ r.ss \in Seq(Session)
      /\ outcome \in [Messages -> {"idle", "pending", "success", "failed"}]
  BY <1>5 DEF TransportInv, TypesOK, EffectOK, SessionsOK
<1>8. sessions' \in [Nodes -> Seq(Session)]
  BY <1>6, <1>7
<1>9. \A k2 \in Nodes : sessions'[k2] = IF k2 = n THEN r.ss ELSE sessions[k2]
  BY <1>6, <1>7
<1>10. ManagersOK'
  BY <1>5, <1>9 DEF ManagersOK, TransportInv, EffectOK
<1>11. NoNewSession
  BY <1>5, <1>9 DEF NoNewSession, EffectOK
<1>12. BoxOK(inbox')
  BY <1>5, <1>6, SentOK DEF EffectOK, TransportInv
<1>13. outcome' \in [Messages -> {"idle", "pending", "success", "failed"}]
  BY <1>6, <1>7
<1> QED
  BY <1>6, <1>8, <1>10, <1>11, <1>12, <1>13

\* The network thread updates a session.
LEMMA UpdateKeeps ==
    ASSUME TransportInv, NEW n \in Nodes, NEW i \in DOMAIN sessions[n], Update(n, i),
           scenario' = scenario
    PROVE  TransportInv'
<1> DEFINE s == sessions[n][i]
<1>1. /\ SessionOK(n, s) /\ SessionsOK(n, sessions[n]) /\ BoxOK(inbox) /\ valid \subseteq Nodes
  BY SessionHeld DEF TransportInv, ManagersOK, TypesOK
<1>2. EffectOK(n, sessions[n], Effect(sessions[n])) /\ i \in DOMAIN Effect(sessions[n]).ss
  BY <1>1, EffectStart
<1>3. ASSUME NEW r, EffectOK(n, sessions[n], r), NEW ok \in BOOLEAN, Perform(n, r, inbox, ok),
             app' = app, valid' = valid
      PROVE  TransportInv'
  BY <1>1, <1>3, PerformKeeps, NetworkKeeps
<1>4. CASE UpdateInvalid(n, i)
  <2>1. EffectOK(n, sessions[n], close_session(Effect(sessions[n]), i, FALSE))
    BY <1>2, CloseOK
  <2>2. /\ Perform(n, close_session(Effect(sessions[n]), i, FALSE), inbox, TRUE)
        /\ app' = app /\ valid' = valid
    BY <1>4 DEF UpdateInvalid
  <2> QED
    BY <1>3, <2>1, <2>2
<1>5. CASE UpdateAnnounce(n, i)
  <2> DEFINE r(ok) == [Effect(IF ok THEN [sessions[n] EXCEPT ![i] = Announced(s)]
                                     ELSE sessions[n])
                         EXCEPT !.out = <<Announcement(s)>>]
  <2>1. PICK ok \in BOOLEAN : Perform(n, r(ok), inbox, ok)
    BY <1>5 DEF UpdateAnnounce
  <2>2. s.state \in SendStates /\ app' = app /\ valid' = valid
    BY <1>5 DEF UpdateAnnounce
  <2>3. /\ SessionOK(n, Announced(s)) /\ Announced(s).dir = s.dir
        /\ SamePair(Announced(s), s.src, s.dst) /\ FrameOK(n, Announcement(s))
    BY <1>1, <2>2, AnnouncedOK
  <2>4. EffectOK(n, sessions[n], Effect([sessions[n] EXCEPT ![i] = Announced(s)]))
    BY <1>1, <2>3, StartReplaced
  <2>5. EffectOK(n, sessions[n], r(ok))
    <3>1. CASE ok
      BY <2>3, <2>4, <3>1, WithSingle
    <3>2. CASE ~ok
      BY <1>2, <2>3, <3>2, WithSingle
    <3> QED
      BY <3>1, <3>2
  <2> HIDE DEF r
  <2> QED
    BY <1>3, <2>1, <2>2, <2>5
<1>6. CASE UpdateData(n, i)
  <2>1. s.state = "SendDataTransferPackets" /\ SendData(n, i) /\ app' = app
    BY <1>6 DEF UpdateData
  <2> QED
    BY <1>1, <2>1, SendDataKeeps, NetworkKeeps
<1>7. CASE UpdateTimeout(n, i)
  <2>1. PICK ok \in BOOLEAN : Perform(n, TimedOut(n, i), inbox, ok)
    BY <1>7 DEF UpdateTimeout
  <2>2. app' = app /\ valid' = valid
    BY <1>7 DEF UpdateTimeout
  <2> QED
    BY <1>1, <1>3, <2>1, <2>2, TimedOutOK
<1> QED
  BY <1>4, <1>5, <1>6, <1>7 DEF Update

\* At most one thread sends a node's messages, or the stack has no threads.
OneSenderPerNode ==
    \A c \in Scenarios : c.threaded =>
        \A m1, m2 \in Messages : From[m1] = From[m2] => c.thread[m1] = c.thread[m2]

\* protocol_transmit_message finds no session between the two ends: with one
\* sending thread per node, or without threads, nobody else can be as far.
LEMMA CheckKeeps ==
    ASSUME TransportInv, OneSenderPerNode, NEW m \in Messages, MayRun(From[m]),
           TransmitCheck(m), scenario' = scenario
    PROVE  TransportInv'
<1> DEFINE u == scenario.thread[m]
           n == From[m]
           Pcs == {"idle", "checked", "inserted", "sending", "sent"}
<1>1. /\ scenario \in Scenarios /\ scenario.thread \in [Messages -> Threads]
      /\ scenario.threaded \in BOOLEAN
  BY ScenariosAssumption DEF TransportInv, TypesOK
<1>2. u \in Threads /\ n \in Nodes
  BY <1>1, MessageEnds
<1>3. /\ app[u].pc = "idle" /\ Fits(Size[m]) /\ ~has_session(sessions[n], n, To[m])
      /\ app' = [app EXCEPT ![u] = [pc |-> "checked", msg |-> m]]
      /\ UNCHANGED <<sessions, inbox, outcome, delivered, valid, faults>>
  BY DEF TransmitCheck
<1>4. app \in [Threads -> [pc : Pcs, msg : Names]]
  BY DEF TransportInv, TypesOK
<1>5. ~Held(sessions[n], n, To[m])
  <2>1. sessions[n] \in Seq(Session) /\ Distinct(sessions[n])
    BY <1>2 DEF TransportInv, ManagersOK, SessionsOK
  <2> QED
    BY <1>3, <2>1, GetSession DEF has_session
<1> HIDE DEF u, n
<1>6. /\ app' \in [Threads -> [pc : Pcs, msg : Names]] /\ app'[u].pc = "checked" /\ app'[u].msg = m
      /\ \A t \in Threads : t # u => app'[t] = app[t]
  BY <1>2, <1>3, <1>4 DEF Names
<1>7. ASSUME NEW t \in Threads PROVE CallOK(t)'
  <2>1. CASE t = u
    BY <1>3, <1>5, <1>6, <2>1 DEF CallOK, u, n
  <2>2. CASE t # u
    <3>1. CallOK(t) /\ app'[t] = app[t]
      BY <1>6, <2>2 DEF TransportInv
    <3> QED
      BY <1>3, <3>1 DEF CallOK
  <2> QED
    BY <2>1, <2>2
<1>8. ASSUME NEW t \in Threads, app[t].pc # "idle", From[app[t].msg] = n
      PROVE  t = u
  <2>1. CallOK(t)
    BY DEF TransportInv
  <2>2. app[t].msg \in Messages /\ scenario.thread[app[t].msg] = t
    BY <1>8, <2>1 DEF CallOK
  <2>3. scenario.threaded
    BY <1>8 DEF MayRun, n
  <2> QED
    BY <1>1, <1>8, <2>2, <2>3 DEF OneSenderPerNode, u, n
<1>9. OneCallPerNode'
  BY <1>2, <1>6, <1>8 DEF OneCallPerNode, TransportInv, n
<1>10. TypesOK'
  BY <1>3, <1>6, Zenon DEF TransportInv, TypesOK
<1> QED
  BY <1>3, <1>7, <1>9, <1>10, Zenon DEF TransportInv, BoxOK, ManagersOK, SessionsOK

\* The session protocol_transmit_message inserts.
LEMMA TxSessionOK ==
    ASSUME NEW m \in Messages, Fits(Size[m])
    PROVE  /\ SessionOK(From[m], TxSession(m)) /\ TxSession(m).dir = "tx"
           /\ TxSession(m).src = From[m] /\ TxSession(m).dst = To[m]
           /\ TxSession(m).msg = m /\ TxSession(m).pgn = Pgn[m]
           /\ TxSession(m).state \in {"SendBroadcastAnnounce", "SendRequestToSend"}
           /\ TxSession(m).state = "SendRequestToSend" <=> To[m] # Global
<1> DEFINE s == TxSession(m)
           state == IF To[m] = Global THEN "SendBroadcastAnnounce" ELSE "SendRequestToSend"
<1>1. /\ From[m] \in Nodes /\ To[m] \in Ends /\ Pgn[m] \in Pgns
      /\ PacketsPerCts \in Counter /\ 0 \in Counter /\ m \in Names /\ <<>> \in Seq(Packets)
  BY MessageEnds, ConfigurationAssumption DEF Pgns, Counter, Names
<1>2. Size[m] \in Sizes
  BY MessagesAssumption, ConfigurationAssumption DEF Fits, Sizes, CAN_DATA_LENGTH
<1>3. /\ s = [dir |-> "tx", src |-> From[m], dst |-> To[m], pgn |-> Pgn[m], size |-> Size[m],
              limit |-> PacketsPerCts, state |-> state, last |-> 0, ack |-> 0, cts |-> 0,
              data |-> <<>>, msg |-> m]
      /\ state \in SendingStates
  BY DEF TxSession, NewSession, SendingStates
<1>4. s \in Session
  BY <1>1, <1>2, <1>3 DEF Session
<1> HIDE DEF s
<1>5. SessionOK(From[m], s)
  BY <1>3, <1>4 DEF SessionOK
<1> QED
  BY <1>3, <1>5 DEF s

\* protocol_transmit_message inserts its session, which the pair still has none of.
LEMMA InsertKeeps ==
    ASSUME TransportInv, NEW t \in Threads, TransmitInsert(t), scenario' = scenario
    PROVE  TransportInv'
<1> DEFINE m == app[t].msg
           n == From[m]
           s == TxSession(m)
           Pcs == {"idle", "checked", "inserted", "sending", "sent"}
<1>1. /\ app[t].pc = "checked" /\ sessions' = [sessions EXCEPT ![n] = Append(@, s)]
      /\ outcome' = [outcome EXCEPT ![m] = "pending"]
      /\ app' = [app EXCEPT ![t].pc = "inserted"]
      /\ UNCHANGED <<inbox, delivered, valid, faults>>
  BY DEF TransmitInsert
<1>2. m \in Messages /\ Fits(Size[m]) /\ ~Held(sessions[n], n, To[m]) /\ n \in Nodes
  BY <1>1, MessageEnds DEF TransportInv, CallOK
<1>3. SessionOK(n, s) /\ s.dir = "tx" /\ s.src = n /\ s.dst = To[m]
  BY <1>2, TxSessionOK
<1>4. /\ sessions \in [Nodes -> Seq(Session)] /\ app \in [Threads -> [pc : Pcs, msg : Names]]
      /\ outcome \in [Messages -> {"idle", "pending", "success", "failed"}]
  BY DEF TransportInv, TypesOK
<1>5. SessionsOK(n, sessions[n])
  BY <1>2 DEF TransportInv, ManagersOK
<1> HIDE DEF s, n, m
<1>6. SessionsOK(n, Append(sessions[n], s))
  BY <1>2, <1>3, <1>5, AppendedOK
<1>7. /\ \A k \in Nodes : sessions'[k] = IF k = n THEN Append(sessions[n], s) ELSE sessions[k]
      /\ sessions' \in [Nodes -> Seq(Session)]
  BY <1>1, <1>2, <1>4, <1>6 DEF SessionsOK
<1>8. /\ app' \in [Threads -> [pc : Pcs, msg : Names]]
      /\ \A u \in Threads : u # t => app'[u] = app[u]
      /\ app'[t].pc = "inserted" /\ app'[t].msg = m
  BY <1>1, <1>4 DEF m
<1>9. ManagersOK'
  BY <1>6, <1>7 DEF ManagersOK, TransportInv
<1>10. ASSUME NEW u \in Threads PROVE CallOK(u)'
  <2>1. CallOK(u) /\ CallOK(t)
    BY DEF TransportInv
  <2>2. CASE u = t
    BY <1>1, <1>8, <2>1, <2>2 DEF CallOK, m
  <2>3. CASE u # t /\ app[u].pc # "idle"
    <3>1. From[app[u].msg] # n /\ From[app[u].msg] \in Nodes
      <4>1. app[u].msg \in Messages
        BY <2>1, <2>3 DEF CallOK
      <4> QED
        BY <1>1, <2>3, <4>1, MessageEnds DEF TransportInv, OneCallPerNode, n, m
    <3> QED
      BY <1>7, <1>8, <2>1, <2>3, <3>1 DEF CallOK
  <2>4. CASE u # t /\ app[u].pc = "idle"
    BY <1>8, <2>4 DEF CallOK
  <2> QED
    BY <2>2, <2>3, <2>4
<1>11. OneCallPerNode'
  BY <1>1, <1>8 DEF OneCallPerNode, TransportInv, m
<1>12. outcome' \in [Messages -> {"idle", "pending", "success", "failed"}]
  BY <1>1, <1>2, <1>4
<1>13. TypesOK'
  BY <1>1, <1>7, <1>8, <1>12, Zenon DEF TransportInv, TypesOK
<1> QED
  BY <1>1, <1>9, <1>10, <1>11, <1>13, Zenon DEF TransportInv, BoxOK

\* The caller's session is found by its message, whoever closed or moved it since.
LEMMA MineOK ==
    ASSUME TransportInv, NEW t \in Threads, app[t].pc # "idle", Mine(t) # 0
    PROVE  /\ Mine(t) \in DOMAIN sessions[From[app[t].msg]]
           /\ sessions[From[app[t].msg]][Mine(t)].dir = "tx"
           /\ sessions[From[app[t].msg]][Mine(t)].msg = app[t].msg
<1> DEFINE m == app[t].msg
           ss == sessions[From[m]]
           found == {i \in 1..Len(ss) : ss[i].msg = m}
<1>1. m \in Messages /\ From[m] \in Nodes
  BY MessageEnds DEF TransportInv, CallOK
<1>2. /\ ss \in Seq(Session) /\ \A i \in DOMAIN ss : SessionOK(From[m], ss[i])
      /\ \A i \in DOMAIN ss : ss[i].dir \in {"tx", "rx"}
  BY <1>1, SessionFields DEF TransportInv, ManagersOK, SessionsOK
<1>3. Mine(t) = IF found # {} THEN Min(found) ELSE 0
  BY DEF Mine, SelectInSeq
<1>4. ASSUME NEW i \in found PROVE ss[i].dir = "tx" /\ ss[i].src = From[m] /\ ss[i].dst = To[m]
  <2> DEFINE s == ss[i]
  <2>1. i \in DOMAIN ss /\ s.msg = m /\ m # "none"
    BY <1>1, <1>2, MessagesAssumption, SMTT(40)
  <2>2. SessionOK(From[m], s) /\ s.dir \in {"tx", "rx"}
    BY <1>2, <2>1
  <2> HIDE DEF s
  <2>3. s.dir = "tx" /\ s.src = From[m] /\ s.dst = To[m]
    BY <2>1, <2>2, SMTT(40) DEF SessionOK
  <2> QED
    BY <2>3 DEF s
<1>10. \A i \in found : i \in 1..Len(ss) /\ i \in DOMAIN ss /\ ss[i].msg = m
  <2> DEFINE list == ss
  <2>1. list \in Seq(Session) /\ \A i \in found : i \in 1..Len(list) /\ list[i].msg = m
    BY <1>2
  <2> HIDE DEF list, found
  <2>2. DOMAIN list = 1..Len(list)
    BY <2>1
  <2> QED
    BY <2>1, <2>2 DEF list
<1>11. Distinct(ss)
  BY <1>1 DEF TransportInv, ManagersOK, SessionsOK
<1> HIDE DEF found, ss
<1>12. ASSUME NEW i \in found, NEW k \in found PROVE i = k
  BY <1>4, <1>10, <1>11 DEF Distinct, SamePair
<1>5. PICK j \in found : TRUE
  BY <1>3
<1>6. \A k \in found : k = j
  BY <1>5, <1>12
<1>7. Min(found) = j
  BY <1>5, <1>6, SMTT(40) DEF Min
<1>8. j \in DOMAIN ss /\ ss[j].dir = "tx" /\ ss[j].msg = m
  BY <1>4, <1>5, <1>10
<1>9. Mine(t) = j
  BY <1>3, <1>5, <1>7
<1> QED
  BY <1>8, <1>9 DEF ss


\* What a step of a call has to keep.
LEMMA CallMoves ==
    ASSUME TransportInv, NEW t \in Threads, app[t].pc # "idle",
           NEW pc \in {"idle", "inserted", "sending", "sent"}, app' = [app EXCEPT ![t].pc = pc],
           NoNewSession, ManagersOK', sessions' \in [Nodes -> Seq(Session)], BoxOK(inbox'),
           outcome' \in [Messages -> {"idle", "pending", "success", "failed"}],
           valid' = valid, scenario' = scenario
    PROVE  TransportInv'
<1> DEFINE Pcs == {"idle", "checked", "inserted", "sending", "sent"}
<1>1. app \in [Threads -> [pc : Pcs, msg : Names]] /\ valid \subseteq Nodes /\ scenario \in Scenarios
  BY DEF TransportInv, TypesOK
<1>2. /\ app' \in [Threads -> [pc : Pcs, msg : Names]]
      /\ \A u \in Threads : u # t => app'[u] = app[u]
      /\ app'[t].pc = pc /\ app'[t].msg = app[t].msg
  BY <1>1
<1>3. (\A u \in Threads : CallOK(u)') /\ OneCallPerNode'
  <2>1. \A u \in Threads : \/ app'[u] = app[u] \/ app'[u].pc = "idle"
                           \/ /\ app[u].pc # "idle" /\ app'[u].msg = app[u].msg
                              /\ app'[u].pc # "checked"
    BY <1>2
  <2> QED
    BY <1>2, <2>1, CallsKept
<1>4. TypesOK'
  BY <1>1, <1>2, Zenon DEF TypesOK, BoxOK
<1> QED
  BY <1>3, <1>4, Zenon DEF TransportInv

\* A step that leaves the sessions and the bus alone.
LEMMA NothingSent ==
    ASSUME TransportInv, UNCHANGED <<sessions, inbox, outcome>>
    PROVE  /\ NoNewSession /\ ManagersOK' /\ sessions' \in [Nodes -> Seq(Session)]
           /\ BoxOK(inbox') /\ outcome' \in [Messages -> {"idle", "pending", "success", "failed"}]
  BY Zenon DEF TransportInv, TypesOK, BoxOK, ManagersOK, NoNewSession

\* The caller serves its session once, if the network thread has not closed it.
LEMMA ServeKeeps ==
    ASSUME TransportInv, NEW t \in Threads, TransmitServe(t), scenario' = scenario
    PROVE  TransportInv'
<1> DEFINE n == From[app[t].msg]
           i == Mine(t)
           state == IF i = 0 THEN "closed" ELSE sessions[n][i].state
<1>1. /\ app[t].pc = "inserted" /\ n \in Nodes
  BY MessageEnds DEF TransmitServe, TransportInv, CallOK
<1>2. \/ /\ app' = [app EXCEPT ![t].pc = "sending"]
         /\ UNCHANGED <<sessions, inbox, outcome, delivered, valid, faults>>
      \/ /\ state = "SendDataTransferPackets" /\ SendData(n, i)
         /\ app' = [app EXCEPT ![t].pc = "idle"]
      \/ /\ app' = [app EXCEPT ![t].pc = "idle"]
         /\ UNCHANGED <<sessions, inbox, outcome, delivered, valid, faults>>
  BY Zenon DEF TransmitServe
<1>3. ASSUME state = "SendDataTransferPackets", SendData(n, i), app' = [app EXCEPT ![t].pc = "idle"]
      PROVE  TransportInv'
  <2>1. i # 0 /\ sessions[n][i].state = "SendDataTransferPackets"
    BY <1>3
  <2>2. i \in DOMAIN sessions[n]
    BY <1>1, <2>1, MineOK
  <2> HIDE DEF i
  <2>3. /\ sessions' \in [Nodes -> Seq(Session)] /\ ManagersOK' /\ NoNewSession
        /\ BoxOK(inbox') /\ outcome' \in [Messages -> {"idle", "pending", "success", "failed"}]
        /\ valid' = valid
    BY <1>1, <1>3, <2>1, <2>2, SendDataKeeps
  <2> QED
    BY <1>1, <1>3, <2>3, CallMoves
<1>4. ASSUME NEW pc \in {"idle", "inserted", "sending", "sent"}, app' = [app EXCEPT ![t].pc = pc],
             UNCHANGED <<sessions, inbox, outcome, delivered, valid, faults>>
      PROVE  TransportInv'
  BY <1>1, <1>4, NothingSent, CallMoves
<1> HIDE DEF state
<1> QED
  BY <1>2, <1>3, <1>4

\* The caller sends the announcement of its session.
LEMMA SendKeeps ==
    ASSUME TransportInv, NEW t \in Threads, TransmitSend(t), scenario' = scenario
    PROVE  TransportInv'
<1> DEFINE m == app[t].msg
           n == From[m]
           s == TxSession(m)
           first == IF is_broadcast(s) THEN BamFrame(s) ELSE RtsFrame(s)
           r == [Effect(sessions[n]) EXCEPT !.out = <<first>>]
<1>1. app[t].pc = "sending" /\ m \in Messages /\ Fits(Size[m]) /\ n \in Nodes
  BY MessageEnds DEF TransmitSend, TransportInv, CallOK
<1>2. /\ SessionOK(n, s) /\ s.src = n /\ s.dst = To[m]
      /\ s.state \in {"SendBroadcastAnnounce", "SendRequestToSend"}
      /\ s.state = "SendRequestToSend" <=> To[m] # Global
  BY <1>1, TxSessionOK
<1>3. PICK ok \in BOOLEAN :
        /\ Perform(s.src, [Effect(sessions[s.src]) EXCEPT !.out = <<first>>], inbox, ok)
        /\ app' = [app EXCEPT ![t].pc = IF ok THEN "sent" ELSE "idle"]
  BY DEF TransmitSend
<1>4. valid' = valid
  BY DEF TransmitSend
<1> HIDE DEF s
<1>5. FrameOK(n, first)
  <2>1. FrameOK(n, Announcement(s))
    BY <1>1, <1>2, AnnouncedOK DEF SendStates
  <2>2. Announcement(s) = first
    BY <1>2 DEF Announcement, is_broadcast
  <2> QED
    BY <2>1, <2>2
<1> HIDE DEF first
<1>6. SessionsOK(n, sessions[n]) /\ BoxOK(inbox)
  BY <1>1 DEF TransportInv, ManagersOK
<1>7. EffectOK(n, sessions[n], r)
  <2>1. EffectOK(n, sessions[n], Effect(sessions[n]))
    BY <1>6, EffectStart
  <2> QED
    BY <1>5, <2>1, WithSingle
<1>8. Perform(n, r, inbox, ok)
  BY <1>2, <1>3
<1> HIDE DEF r, n
<1>9. /\ sessions' \in [Nodes -> Seq(Session)] /\ ManagersOK' /\ NoNewSession /\ BoxOK(inbox')
      /\ outcome' \in [Messages -> {"idle", "pending", "success", "failed"}]
  BY <1>1, <1>6, <1>7, <1>8, PerformKeeps
<1>10. (IF ok THEN "sent" ELSE "idle") \in {"idle", "inserted", "sending", "sent"}
  OBVIOUS
<1> QED
  BY <1>1, <1>3, <1>4, <1>9, <1>10, CallMoves

\* The caller sets the state of its session, whatever the network thread did to
\* it while the announcement was sent.
LEMMA SetStateKeeps ==
    ASSUME TransportInv, NEW t \in Threads, TransmitSetState(t), scenario' = scenario
    PROVE  TransportInv'
<1> DEFINE n == From[app[t].msg]
           i == Mine(t)
           ss == sessions[n]
           next == IF To[app[t].msg] = Global THEN "SendDataTransferPackets"
                                              ELSE "WaitForClearToSend"
           s == ss[i]
           s2 == [s EXCEPT !.state = next]
           ss2 == [ss EXCEPT ![i] = s2]
<1>1. /\ app[t].pc = "sent" /\ n \in Nodes
      /\ sessions' = IF i = 0 THEN sessions ELSE [sessions EXCEPT ![n][i].state = next]
      /\ app' = [app EXCEPT ![t].pc = "idle"]
      /\ UNCHANGED <<inbox, outcome, delivered, valid, faults>>
  BY MessageEnds DEF TransmitSetState, TransportInv, CallOK
<1>2. CASE i = 0
  BY <1>1, <1>2, NothingSent, CallMoves
<1>3. CASE i # 0
  <2>1. i \in DOMAIN ss /\ s.dir = "tx"
    BY <1>1, <1>3, MineOK
  <2>2. SessionsOK(n, ss) /\ SessionOK(n, s) /\ s \in Session /\ sessions \in [Nodes -> Seq(Session)]
    BY <1>1, <2>1, SessionHeld DEF TransportInv, ManagersOK, TypesOK
  <2>3. next \in SendingStates
    BY DEF SendingStates
  <2>4. sessions' = [sessions EXCEPT ![n] = ss2]
    BY <1>1, <1>3, <2>1, <2>2
  <2> HIDE DEF next, i, ss, s
  <2>5. /\ s2 \in Session /\ s2.dir = "tx" /\ s2.src = s.src /\ s2.dst = s.dst
        /\ s2.state = next /\ s2.data = s.data /\ s2.msg = s.msg
    BY <2>1, <2>2, <2>3 DEF Session
  <2> HIDE DEF s2
  <2>6. SessionOK(n, s2) /\ SamePair(s2, s.src, s.dst)
    BY <2>1, <2>2, <2>3, <2>5 DEF SessionOK, SamePair
  <2>7. SessionsOK(n, ss2) /\ \A src, dst : Held(ss2, src, dst) => Held(ss, src, dst)
    BY <2>1, <2>2, <2>5, <2>6, ReplacedOK DEF s
  <2> HIDE DEF ss2, n
  <2>8. /\ \A k \in Nodes : sessions'[k] = IF k = n THEN ss2 ELSE sessions[k]
        /\ sessions' \in [Nodes -> Seq(Session)]
    BY <1>1, <2>2, <2>4, <2>7 DEF SessionsOK
  <2>9. ManagersOK' /\ NoNewSession
    BY <2>7, <2>8 DEF ManagersOK, NoNewSession, TransportInv, ss
  <2>10. BoxOK(inbox') /\ outcome' \in [Messages -> {"idle", "pending", "success", "failed"}]
         /\ valid' = valid
    BY <1>1 DEF TransportInv, TypesOK, BoxOK
  <2> QED
    BY <1>1, <2>8, <2>9, <2>10, CallMoves
<1> QED
  BY <1>2, <1>3

\* A lost or repeated frame, or a lost address.
LEMMA BusKeeps ==
    ASSUME TransportInv, NEW n \in Nodes, Bus(n), scenario' = scenario
    PROVE  TransportInv'
<1>1. /\ inbox \in [Nodes -> Seq(Frames)] /\ sessions \in [Nodes -> Seq(Session)]
      /\ \A k \in Nodes : \A i \in DOMAIN inbox[k] : ArrivingOK(k, inbox[k][i])
      /\ valid \subseteq Nodes
  BY DEF TransportInv, TypesOK, BoxOK
<1>2. /\ sessions' = sessions /\ outcome' = outcome /\ app' = app
      /\ \/ inbox' = inbox
         \/ inbox[n] # <<>> /\ inbox' = [inbox EXCEPT ![n] = Tail(@)]
         \/ inbox[n] # <<>> /\ inbox' = [inbox EXCEPT ![n] = <<Head(@)>> \o @]
  BY DEF Bus, Lose, Repeat, LoseAddress
<1>3. NoNewSession /\ ManagersOK' /\ sessions' \in [Nodes -> Seq(Session)]
  BY <1>1, <1>2 DEF NoNewSession, ManagersOK, TransportInv
<1>4. outcome' \in [Messages -> {"idle", "pending", "success", "failed"}] /\ valid' \subseteq Nodes
  BY <1>1, <1>2 DEF TransportInv, TypesOK, Bus, Lose, Repeat, LoseAddress
<1>5. BoxOK(inbox')
  <2> DEFINE box == inbox[n]
  <2>1. box \in Seq(Frames) /\ \A i \in DOMAIN box : ArrivingOK(n, box[i])
    BY <1>1
  <2>2. ASSUME NEW more \in Seq(Frames), \A i \in DOMAIN more : ArrivingOK(n, more[i]),
               inbox' = [inbox EXCEPT ![n] = more]
        PROVE  BoxOK(inbox')
    BY <1>1, <2>2 DEF BoxOK
  <2> HIDE DEF box
  <2>3. CASE box # <<>> /\ inbox' = [inbox EXCEPT ![n] = Tail(box)]
    <3>1. Tail(box) \in Seq(Frames) /\ \A i \in DOMAIN Tail(box) : ArrivingOK(n, Tail(box)[i])
      <4>1. Tail(box) \in Seq(Frames)
        BY <2>1, <2>3
      <4>2. \A i \in DOMAIN Tail(box) : Tail(box)[i] = box[i + 1] /\ i + 1 \in DOMAIN box
        BY <2>1, <2>3
      <4> QED
        BY <2>1, <4>1, <4>2
    <3> QED
      BY <2>2, <2>3, <3>1
  <2>4. CASE box # <<>> /\ inbox' = [inbox EXCEPT ![n] = <<Head(box)>> \o box]
    <3> DEFINE more == <<Head(box)>> \o box
    <3>1. more \in Seq(Frames) /\ DOMAIN more = 1..(Len(box) + 1) /\ more[1] = box[1]
          /\ \A i \in 2..(Len(box) + 1) : more[i] = box[i - 1]
      BY <2>1, <2>4
    <3>2. 1 \in DOMAIN box /\ \A i \in 2..(Len(box) + 1) : i - 1 \in DOMAIN box
      BY <2>1, <2>4
    <3> HIDE DEF more
    <3>3. \A i \in DOMAIN more : ArrivingOK(n, more[i])
      BY <2>1, <3>1, <3>2
    <3> QED
      BY <2>2, <2>4, <3>1, <3>3 DEF more
  <2>5. CASE inbox' = inbox
    BY <1>1, <2>5 DEF BoxOK
  <2> QED
    BY <1>2, <2>3, <2>4, <2>5 DEF box
<1> QED
  BY <1>2, <1>3, <1>4, <1>5, NetworkKeeps

\* Every step of the transport protocol keeps the invariant.
LEMMA ProtocolKeeps ==
    ASSUME TransportInv, OneSenderPerNode, Next PROVE TransportInv'
<1>1. scenario' = scenario
  BY DEF Next
<1>2. ASSUME NEW n \in Nodes, Network(n) PROVE TransportInv'
  BY <1>1, <1>2, ReceiveKeeps, UpdateKeeps DEF Network
<1>3. ASSUME NEW t \in Threads, Transmit(t) PROVE TransportInv'
  BY <1>1, <1>3, InsertKeeps, ServeKeeps, SendKeeps, SetStateKeeps DEF Transmit
<1>4. ASSUME NEW n \in Nodes, Bus(n) PROVE TransportInv'
  BY <1>1, <1>4, BusKeeps
<1>5. ASSUME NEW m \in Messages, MayRun(From[m]), TransmitCheck(m) PROVE TransportInv'
  BY <1>1, <1>5, CheckKeeps
<1> QED
  BY <1>2, <1>3, <1>4, <1>5 DEF Next, Work

\* A step that leaves the transport protocol alone keeps the invariant.
LEMMA UnchangedKeeps ==
    ASSUME TransportInv, UNCHANGED <<sessions, inbox, app, outcome, valid, scenario>>
    PROVE  TransportInv'
<1>1. \A t \in Threads : CallOK(t)'
  BY DEF TransportInv, CallOK
<1>2. OneCallPerNode'
  BY DEF TransportInv, OneCallPerNode
<1> QED
  BY <1>1, <1>2, Zenon DEF TransportInv, TypesOK, BoxOK, ManagersOK

\* The managers start without sessions.
LEMMA StartsOK == Init => TransportInv
<1> SUFFICES ASSUME Init PROVE TransportInv
  OBVIOUS
<1>1. /\ sessions = [n \in Nodes |-> <<>>] /\ inbox = [n \in Nodes |-> <<>>]
      /\ app = [t \in Threads |-> [pc |-> "idle", msg |-> "none"]]
      /\ outcome = [m \in Messages |-> "idle"] /\ valid = Nodes /\ scenario \in Scenarios
  BY DEF Init
<1>2. ASSUME NEW n PROVE SessionsOK(n, <<>>)
  <2>1. Receptions(<<>>) = {}
    BY DEF Receptions
  <2>2. Cardinality(Receptions(<<>>)) <= MaxSessions
    BY <2>1, FS_EmptySet, ConfigurationAssumption
  <2> QED
    BY <2>2 DEF SessionsOK, Distinct
<1>3. ManagersOK
  BY <1>1, <1>2 DEF ManagersOK
<1>4. TypesOK /\ BoxOK(inbox)
  BY <1>1 DEF TypesOK, BoxOK, Names
<1>5. (\A t \in Threads : CallOK(t)) /\ OneCallPerNode
  BY <1>1 DEF CallOK, OneCallPerNode
<1> QED
  BY <1>3, <1>4, <1>5 DEF TransportInv

\* The other protocols and the hardware interface leave the transport protocol's
\* sessions, frames and calls alone.
LEMMA OthersKeep ==
    ASSUME EtpStep \/ FpStep \/ InterfaceStep
    PROVE  UNCHANGED <<sessions, inbox, app, outcome, valid, scenario>>
<1>1. CASE EtpStep
  <2>1. Etp!Next /\ UNCHANGED tpVars
    BY <1>1 DEF EtpStep
  <2>2. valid' = valid /\ scenario' = scenario
    <3>1. CASE Etp!Work
      <4>1. ASSUME NEW n, NEW r, NEW box, NEW ok, Etp!Perform(n, r, box, ok)
            PROVE  valid' = valid /\ scenario' = scenario
        BY <4>1, Zenon DEF Etp!Perform
      <4>2. ASSUME NEW n \in Nodes, Etp!Receive(n)
            PROVE  valid' = valid /\ scenario' = scenario
        BY <4>1, <4>2, Zenon DEF Etp!Receive
      <4>3. ASSUME NEW n \in Nodes, NEW i, Etp!Update(n, i)
            PROVE  valid' = valid /\ scenario' = scenario
        <5>1. CASE Etp!UpdateInvalid(n, i)
          BY <4>1, <5>1, Zenon DEF Etp!UpdateInvalid
        <5>2. CASE Etp!UpdateAnnounce(n, i)
          BY <4>1, <5>2, Zenon DEF Etp!UpdateAnnounce
        <5>3. CASE Etp!UpdateData(n, i)
          BY <5>3, Zenon DEF Etp!UpdateData
        <5>4. CASE Etp!UpdateTimeout(n, i)
          BY <4>1, <5>4, Zenon DEF Etp!UpdateTimeout
        <5> QED
          BY <4>3, <5>1, <5>2, <5>3, <5>4, Zenon DEF Etp!Update
      <4> QED
        BY <3>1, <4>2, <4>3, Zenon DEF Etp!Work
    <3>2. ASSUME NEW n \in Nodes, Etp!Lose(n) \/ Etp!Repeat(n)
          PROVE  valid' = valid /\ scenario' = scenario
      BY <3>2, Zenon DEF Etp!Lose, Etp!Repeat
    <3>3. ASSUME NEW m \in Messages \ FastMessages, Etp!Transmit(m)
          PROVE  valid' = valid /\ scenario' = scenario
      BY <3>3, Zenon DEF Etp!Transmit
    <3> QED
      BY <2>1, <3>1, <3>2, <3>3, Zenon DEF Etp!Next
  <2> QED
    BY <2>1, <2>2 DEF tpVars
<1>2. CASE FpStep
  <2>1. Fp!Next /\ UNCHANGED tpVars
    BY <1>2 DEF FpStep
  <2>2. valid' = valid /\ scenario' = scenario
    BY <2>1, Zenon DEF Fp!Next, Fp!Work, Fp!Network, Fp!Receive, Fp!Update,
       Fp!UpdateInvalid, Fp!UpdateSend, Fp!UpdateRefused, Fp!UpdateTimeout, Fp!Lose,
       Fp!SendCheck, Fp!SendInsert
  <2> QED
    BY <2>1, <2>2 DEF tpVars
<1>3. CASE InterfaceStep
  BY <1>3 DEF InterfaceStep, vars
<1> QED
  BY <1>1, <1>2, <1>3

\* The invariant holds in every state of the three managers and the hardware
\* interface side by side: frames lost, repeated or refused at any point, an address
\* lost, calls interleaved with the network thread, any sizes and limits.
THEOREM TransportInvariant ==
    ASSUME OneSenderPerNode PROVE AllSpec => []TransportInv
<1>1. AllInit => TransportInv
  BY StartsOK DEF AllInit
<1>2. TransportInv /\ [AllNext]_allVars => TransportInv'
  <2> SUFFICES ASSUME TransportInv, [AllNext]_allVars PROVE TransportInv'
    OBVIOUS
  <2>1. CASE TpStep
    BY <2>1, ProtocolKeeps DEF TpStep
  <2>2. CASE EtpStep \/ FpStep \/ InterfaceStep
    BY <2>2, OthersKeep, UnchangedKeeps
  <2>3. CASE UNCHANGED allVars
    BY <2>3, UnchangedKeeps DEF allVars, vars
  <2> QED
    BY <2>1, <2>2, <2>3 DEF AllNext
<1> QED
  BY <1>1, <1>2, PTL DEF AllSpec

\* The 8-bit counters of sessions and frames stay bytes, a session is only held by
\* an end of its transfer, and no session keeps more packets than it counted.
THEOREM TransportTypeCorrect ==
    ASSUME OneSenderPerNode PROVE AllSpec => []TypeOK
<1>1. TransportInv => TypeOK
  BY InvariantImplies
<1> QED
  BY <1>1, TransportInvariant, PTL

\* can_transport_protocol.cpp never holds two sessions between the same ends and
\* never more receptions than configured, for every number of nodes, messages and
\* faults, provided one thread sends each node's messages. Two threads of one node
\* both pass has_session before either inserts: the run transport_threads.
THEOREM OneSessionPerPairHolds ==
    ASSUME OneSenderPerNode PROVE AllSpec => []OneSessionPerPair
<1>1. TransportInv => OneSessionPerPair
  BY InvariantImplies
<1> QED
  BY <1>1, TransportInvariant, PTL

--------------------------------------------------------------------------------
\* The rings.

\* The remainder of an index within the ring is the index.
LEMMA ModWithin ==
    ASSUME NEW x \in Int, 0 <= x, x < Capacity
    PROVE  x % Capacity = x
BY CapacityAssumption

\* The remainder of an index up to one round further.
LEMMA ModPast ==
    ASSUME NEW x \in Int, Capacity <= x, x < 2 * Capacity
    PROVE  x % Capacity = x - Capacity
BY CapacityAssumption

\* The remainder of a negative difference of indices, which % makes positive.
LEMMA ModBelow ==
    ASSUME NEW x \in Int, -Capacity <= x, x < 0
    PROVE  x % Capacity = x + Capacity
BY CapacityAssumption

\* The index after the last one is 0.
LEMMA ModEnd == Capacity % Capacity = 0
BY CapacityAssumption

\* What frames may be: the interface never looks into them.
FrameSet == Nat
\* The rings.
Indices == 0..(Capacity - 1)
Queues == [buffer : [Indices -> FrameSet], read : Indices, write : Indices]

\* How many frames a ring holds and where the i-th one is.
Count(q) == IF q.write >= q.read THEN q.write - q.read ELSE q.write - q.read + Capacity
Place(q, i) == IF q.read + i - 1 < Capacity THEN q.read + i - 1 ELSE q.read + i - 1 - Capacity

\* What the fields of a ring say about its frames.
LEMMA RingFields ==
    ASSUME NEW q \in Queues
    PROVE  /\ q.read \in Int /\ 0 <= q.read /\ q.read < Capacity
           /\ q.write \in Int /\ 0 <= q.write /\ q.write < Capacity
           /\ Count(q) \in Nat /\ Count(q) < Capacity
           /\ Count(q) = 0 <=> Interface!Empty(q)
           /\ \A i \in 1..Count(q) : Place(q, i) \in Indices /\ q.buffer[Place(q, i)] \in FrameSet
<1>1. /\ q.read \in Indices /\ q.write \in Indices /\ q.buffer \in [Indices -> FrameSet]
  BY DEF Queues
<1>2. /\ q.read \in Int /\ 0 <= q.read /\ q.read < Capacity
      /\ q.write \in Int /\ 0 <= q.write /\ q.write < Capacity
  BY <1>1, CapacityAssumption DEF Indices
<1>3. /\ Count(q) \in Nat /\ Count(q) < Capacity
      /\ Count(q) = 0 <=> Interface!Empty(q)
  BY <1>2, CapacityAssumption DEF Count, Interface!Empty
<1>4. ASSUME NEW i \in 1..Count(q) PROVE Place(q, i) \in Indices /\ q.buffer[Place(q, i)] \in FrameSet
  <2>1. Place(q, i) \in Indices
    BY <1>2, <1>3, CapacityAssumption DEF Place, Indices
  <2> QED
    BY <1>1, <2>1
<1> QED
  BY <1>2, <1>3, <1>4

\* The contents of a ring, without the remainders.
LEMMA RingContents ==
    ASSUME NEW q \in Queues
    PROVE  Interface!Contents(q) = [i \in 1..Count(q) |-> q.buffer[Place(q, i)]]
<1>1. /\ q.read \in Int /\ 0 <= q.read /\ q.read < Capacity
      /\ q.write \in Int /\ 0 <= q.write /\ q.write < Capacity
      /\ Count(q) \in Nat /\ Count(q) < Capacity
  BY RingFields
<1>2. (q.write - q.read) % Capacity = Count(q)
  <2>1. CASE q.write >= q.read
    BY <1>1, <2>1, ModWithin DEF Count
  <2>2. CASE q.write < q.read
    <3> DEFINE x == q.write - q.read
    <3>1. x \in Int /\ -Capacity <= x /\ x < 0
      BY <1>1, <2>2, CapacityAssumption
    <3>2. x % Capacity = x + Capacity
      BY <3>1, ModBelow
    <3> QED
      BY <1>1, <2>2, <3>2 DEF Count
  <2> QED
    BY <1>1, <2>1, <2>2
<1>3. ASSUME NEW i \in 1..Count(q) PROVE (q.read + i - 1) % Capacity = Place(q, i)
  <2> DEFINE x == q.read + i - 1
  <2>1. x \in Int /\ 0 <= x /\ x < 2 * Capacity
    BY <1>1, CapacityAssumption
  <2>2. CASE x < Capacity
    BY <2>1, <2>2, ModWithin DEF Place
  <2>3. CASE x >= Capacity
    <3>1. x % Capacity = x - Capacity
      BY <2>1, <2>3, ModPast, CapacityAssumption
    <3>2. Place(q, i) = x - Capacity
      <4>1. ~(q.read + i - 1 < Capacity)
        BY <1>1, <2>3, CapacityAssumption
      <4> QED
        BY <1>1, <4>1, CapacityAssumption DEF Place
    <3> QED
      BY <3>1, <3>2
  <2> QED
    BY <2>1, <2>2, <2>3, CapacityAssumption
<1>4. Interface!Contents(q) = [i \in 1..Count(q) |-> q.buffer[(q.read + i - 1) % Capacity]]
  BY <1>2 DEF Interface!Contents
<1> QED
  BY <1>3, <1>4, Zenon

\* nextIndex, without the remainder.
LEMMA RingNext ==
    ASSUME NEW x \in Int, 0 <= x, x < Capacity
    PROVE  Interface!nextIndex(x) = IF x + 1 < Capacity THEN x + 1 ELSE 0
<1>1. CASE x + 1 < Capacity
  BY <1>1, ModWithin DEF Interface!nextIndex
<1>2. CASE x + 1 >= Capacity
  <2>1. x + 1 = Capacity
    BY <1>2, CapacityAssumption
  <2> QED
    BY <1>2, <2>1, ModEnd DEF Interface!nextIndex
<1> QED
  BY <1>1, <1>2, CapacityAssumption

\* The contents of a ring are a sequence of frames.
LEMMA RingSeq ==
    ASSUME NEW q \in Queues
    PROVE  /\ Interface!Contents(q) \in Seq(FrameSet) /\ Len(Interface!Contents(q)) = Count(q)
           /\ \A i \in 1..Count(q) : Interface!Contents(q)[i] = q.buffer[Place(q, i)]
<1>1. Interface!Contents(q) = [i \in 1..Count(q) |-> q.buffer[Place(q, i)]]
  BY RingContents
<1>2. Count(q) \in Nat /\ \A i \in 1..Count(q) : q.buffer[Place(q, i)] \in FrameSet
  BY RingFields
<1> QED
  BY <1>1, <1>2

\* nextIndex stays within the ring.
LEMMA NextIndex ==
    ASSUME NEW i \in Indices PROVE Interface!nextIndex(i) \in Indices
<1>1. i \in Int /\ 0 <= i /\ i < Capacity
  BY CapacityAssumption DEF Indices
<1>2. Interface!nextIndex(i) = IF i + 1 < Capacity THEN i + 1 ELSE 0
  BY <1>1, RingNext
<1> QED
  BY <1>1, <1>2, CapacityAssumption DEF Indices

\* A ring stays one, whichever index is stored to and also when it is empty.
LEMMA RingTyped ==
    ASSUME NEW q \in Queues, NEW i \in Indices, NEW f \in FrameSet
    PROVE  Interface!Stored(q, i, f) \in Queues /\ Interface!pop(q) \in Queues
<1>1. q.read \in Indices /\ q.write \in Indices /\ q.buffer \in [Indices -> FrameSet]
  BY DEF Queues
<1>2. Interface!nextIndex(i) \in Indices /\ Interface!nextIndex(q.read) \in Indices
  BY <1>1, NextIndex
<1>3. [q.buffer EXCEPT ![i] = f] \in [Indices -> FrameSet]
  BY <1>1
<1>4. Interface!Stored(q, i, f) = [q EXCEPT !.buffer = [q.buffer EXCEPT ![i] = f], !.write = Interface!nextIndex(i)]
  BY DEF Interface!Stored
<1>5. Interface!Stored(q, i, f) \in Queues
  BY <1>1, <1>2, <1>3, <1>4 DEF Queues
<1>6. Interface!pop(q) \in Queues
  BY <1>1, <1>2 DEF Interface!pop, Queues
<1> QED
  BY <1>5, <1>6

\* Storing a frame at the write index of a ring that is not full appends it.
LEMMA RingStored ==
    ASSUME NEW q \in Queues, ~Interface!is_full(q), NEW f \in FrameSet, NEW r, r = Interface!Stored(q, q.write, f)
    PROVE  r \in Queues /\ Interface!Contents(r) = Append(Interface!Contents(q), f)
<1>1. /\ q.read \in Int /\ 0 <= q.read /\ q.read < Capacity
      /\ q.write \in Int /\ 0 <= q.write /\ q.write < Capacity
      /\ Count(q) \in Nat /\ Count(q) < Capacity
  BY RingFields
<1>2. Interface!nextIndex(q.write) = IF q.write + 1 < Capacity THEN q.write + 1 ELSE 0
  BY <1>1, RingNext
<1>3. Interface!nextIndex(q.write) # q.read
  BY DEF Interface!is_full
<1>4. /\ r.read = q.read /\ r.write = Interface!nextIndex(q.write)
      /\ r.buffer = [q.buffer EXCEPT ![q.write] = f]
  BY DEF Interface!Stored, Queues
<1>5. q.buffer \in [Indices -> FrameSet] /\ q.write \in Indices /\ q.read \in Indices
  BY DEF Queues
<1>6. r \in Queues
  <2>1. Interface!nextIndex(q.write) \in Indices
    BY <1>1, <1>2, CapacityAssumption DEF Indices
  <2>2. r = [buffer |-> r.buffer, read |-> r.read, write |-> r.write]
    BY DEF Interface!Stored, Queues
  <2>3. r.buffer \in [Indices -> FrameSet]
    BY <1>4, <1>5
  <2> QED
    BY <1>4, <1>5, <2>1, <2>2, <2>3 DEF Queues
<1>7. Count(r) = Count(q) + 1
  BY <1>1, <1>2, <1>3, <1>4, CapacityAssumption DEF Count
<1>8. Place(q, Count(q) + 1) = q.write
  BY <1>1, CapacityAssumption DEF Place, Count
<1>9. ASSUME NEW i \in 1..Count(q) PROVE Place(q, i) # q.write
  BY <1>1, CapacityAssumption DEF Place, Count
<1>10. \A i \in 1..(Count(q) + 1) : Place(r, i) = Place(q, i)
  BY <1>4 DEF Place
<1>11. \A i \in 1..Count(q) : Interface!Contents(r)[i] = Interface!Contents(q)[i]
  <2> SUFFICES ASSUME NEW i \in 1..Count(q) PROVE Interface!Contents(r)[i] = Interface!Contents(q)[i]
    OBVIOUS
  <2>1. i \in 1..Count(r) /\ i \in 1..(Count(q) + 1)
    BY <1>1, <1>7
  <2>2. Interface!Contents(r)[i] = r.buffer[Place(q, i)]
    BY <1>6, <1>10, <2>1, RingSeq
  <2>3. Place(q, i) \in Indices
    BY RingFields
  <2>4. r.buffer[Place(q, i)] = q.buffer[Place(q, i)]
    BY <1>4, <1>5, <1>9, <2>3
  <2> QED
    BY <2>2, <2>4, RingSeq
<1>12. Interface!Contents(r)[Count(q) + 1] = f
  <2>1. Count(q) + 1 \in 1..Count(r) /\ Count(q) + 1 \in 1..(Count(q) + 1)
    BY <1>1, <1>7
  <2>2. Interface!Contents(r)[Count(q) + 1] = r.buffer[Place(q, Count(q) + 1)]
    BY <1>6, <1>10, <2>1, RingSeq
  <2> QED
    BY <1>4, <1>5, <1>8, <2>2
<1>13. /\ Interface!Contents(r) \in Seq(FrameSet) /\ Len(Interface!Contents(r)) = Count(q) + 1
       /\ Interface!Contents(q) \in Seq(FrameSet) /\ Len(Interface!Contents(q)) = Count(q)
  BY <1>6, <1>7, RingSeq
<1> QED
  <2> DEFINE s == Interface!Contents(q)
             t == Interface!Contents(r)
             n == Count(q)
  <2>1. /\ s \in Seq(FrameSet) /\ t \in Seq(FrameSet) /\ Len(s) = n /\ Len(t) = n + 1
        /\ (\A i \in 1..n : t[i] = s[i]) /\ t[n + 1] = f
    BY <1>11, <1>12, <1>13
  <2> HIDE DEF s, t, n
  <2>2. t = Append(s, f)
    BY <2>1
  <2> QED
    BY <1>6, <2>2 DEF s, t

\* pop takes the oldest frame, which is the one that peek shows, and makes room.
LEMMA RingPopped ==
    ASSUME NEW q \in Queues, ~Interface!Empty(q), NEW r, r = Interface!pop(q)
    PROVE  /\ r \in Queues /\ Interface!Contents(r) = Tail(Interface!Contents(q)) /\ r.write = q.write
           /\ Interface!Contents(q) # <<>> /\ Head(Interface!Contents(q)) = Interface!peek(q) /\ ~Interface!is_full(r)
<1>1. /\ q.read \in Int /\ 0 <= q.read /\ q.read < Capacity
      /\ q.write \in Int /\ 0 <= q.write /\ q.write < Capacity
      /\ Count(q) \in Nat /\ Count(q) < Capacity /\ Count(q) # 0
  BY RingFields
<1>2. Interface!nextIndex(q.read) = IF q.read + 1 < Capacity THEN q.read + 1 ELSE 0
  BY <1>1, RingNext
<1>3. r.read = Interface!nextIndex(q.read) /\ r.write = q.write /\ r.buffer = q.buffer
  BY DEF Interface!pop, Queues
<1>4. r \in Queues
  <2>1. Interface!nextIndex(q.read) \in Indices
    BY <1>1, <1>2, CapacityAssumption DEF Indices
  <2> QED
    BY <2>1 DEF Interface!pop, Queues
<1>5. Count(r) = Count(q) - 1
  BY <1>1, <1>2, <1>3, CapacityAssumption DEF Count
<1>6. \A i \in 1..(Count(q) - 1) : Place(r, i) = Place(q, i + 1)
  BY <1>1, <1>2, <1>3, CapacityAssumption DEF Place
<1>7. Place(q, 1) = q.read
  BY <1>1 DEF Place
<1>8. /\ Interface!Contents(r) \in Seq(FrameSet) /\ Len(Interface!Contents(r)) = Count(q) - 1
      /\ Interface!Contents(q) \in Seq(FrameSet) /\ Len(Interface!Contents(q)) = Count(q)
  BY <1>4, <1>5, RingSeq
<1>9. \A i \in 1..(Count(q) - 1) : Interface!Contents(r)[i] = Interface!Contents(q)[i + 1]
  <2> SUFFICES ASSUME NEW i \in 1..(Count(q) - 1) PROVE Interface!Contents(r)[i] = Interface!Contents(q)[i + 1]
    OBVIOUS
  <2>1. i \in 1..Count(r) /\ i + 1 \in 1..Count(q)
    BY <1>1, <1>5
  <2>2. Interface!Contents(r)[i] = r.buffer[Place(r, i)] /\ Interface!Contents(q)[i + 1] = q.buffer[Place(q, i + 1)]
    BY <1>4, <2>1, RingSeq
  <2> QED
    BY <1>3, <1>6, <2>2
<1>10. Interface!Contents(q)[1] = Interface!peek(q)
  <2>1. 1 \in 1..Count(q)
    BY <1>1
  <2> QED
    BY <1>7, <2>1, RingSeq DEF Interface!peek
<1>11. ~Interface!is_full(r)
  <2>1. Interface!nextIndex(q.write) = IF q.write + 1 < Capacity THEN q.write + 1 ELSE 0
    BY <1>1, RingNext
  <2> QED
    BY <1>1, <1>2, <1>3, <2>1, CapacityAssumption DEF Interface!is_full, Count
<1> QED
  <2> DEFINE s == Interface!Contents(q)
             t == Interface!Contents(r)
             n == Count(q)
  <2>1. /\ s \in Seq(FrameSet) /\ t \in Seq(FrameSet) /\ Len(s) = n /\ Len(t) = n - 1 /\ n \in Nat /\ n # 0
        /\ (\A i \in 1..(n - 1) : t[i] = s[i + 1]) /\ s[1] = Interface!peek(q)
    BY <1>1, <1>8, <1>9, <1>10
  <2> HIDE DEF s, t, n
  <2>2. t = Tail(s) /\ s # <<>> /\ Head(s) = Interface!peek(q)
    BY <2>1
  <2> QED
    BY <1>3, <1>4, <1>11, <2>2 DEF s, t

\* clear empties a ring and leaves its write index, which a push may have
\* loaded, alone.
LEMMA RingCleared ==
    ASSUME NEW q \in Queues, NEW r, r = Interface!clear(q)
    PROVE  r \in Queues /\ Interface!Contents(r) = <<>> /\ r.write = q.write /\ (~Interface!is_full(q) => ~Interface!is_full(r))
<1>1. r.read = q.write /\ r.write = q.write /\ r \in Queues
  BY DEF Interface!clear, Queues
<1>2. Len(Interface!Contents(r)) = 0 /\ Interface!Contents(r) \in Seq(FrameSet)
  BY <1>1, RingSeq, RingFields DEF Interface!Empty
<1>3. Interface!Contents(r) = <<>>
  BY <1>2
<1>4. ASSUME ~Interface!is_full(q) PROVE ~Interface!is_full(r)
  <2>1. /\ q.read \in Int /\ 0 <= q.read /\ q.read < Capacity
        /\ q.write \in Int /\ 0 <= q.write /\ q.write < Capacity
    BY RingFields
  <2>2. Interface!nextIndex(q.write) = IF q.write + 1 < Capacity THEN q.write + 1 ELSE 0
    BY <2>1, RingNext
  <2> QED
    BY <1>1, <1>4, <2>1, <2>2, CapacityAssumption DEF Interface!is_full
<1> QED
  BY <1>1, <1>3, <1>4

\* Where the update thread may be.
Places == {"none", "waiting", "loop", "update", "receive", "given", "periodic", "sent", "transmit",
           "written", "ended"}

\* Types, as far as the proof needs them.
InterfaceTypeOK ==
    /\ {"calls", "sends", "arrive", "breaks", "refuses"} \subseteq DOMAIN left
    /\ left.sends \in [Interface!Writers -> Seq(FrameSet)] /\ left.arrive \in Seq(FrameSet)
    /\ lock \in {"free", "control", "update"}
    /\ control \in {"idle", "starting", "opening", "joining", "stopping", "draining"}
    /\ updating \in [at : Places, handled : Nat]
    /\ receiving \in [at : {"none", "polling", "push", "ended"}, frame : FrameSet]
    /\ txQueue \in Queues /\ rxQueue \in Queues
    /\ sending \in [Interface!Writers -> [at : {"idle", "push", "store"}, index : Indices]]
    /\ frames \in [accepted : Seq(FrameSet), written : Seq(FrameSet), read : Seq(FrameSet),
                   given : Seq(FrameSet)]

\* Who holds the mutex is inside its section.
LockOK ==
    /\ lock = "update" <=> updating.at \in {"receive", "given", "transmit", "written"}
    /\ lock = "control" <=> control \in {"starting", "opening", "draining"}

\* A frame given but not yet taken is still in the queue, and a frame in the
\* receive thread's hand has room there.
ReceivedOK ==
    /\ updating.at = "given" => ~Interface!Empty(rxQueue)
    /\ receiving.at = "push" => ~Interface!is_full(rxQueue)
    /\ Interface!ReceivedInOrder

\* A thread inside a push has its frame still; the update thread pushes in its
\* periodic update only.
CallsOK == \A t \in Interface!Writers : sending[t].at # "idle" =>
                                 left.sends[t] # <<>> /\ (t = "update" => updating.at = "periodic")

\* Then no other one does, and the index it loaded is still that of the next
\* free place.
WriterOK ==
    OneSends =>
        /\ \A t, u \in Interface!Writers : left.sends[t] # <<>> /\ left.sends[u] # <<>> => t = u
        /\ \A t \in Interface!Writers : sending[t].at = "store" =>
                                 sending[t].index = txQueue.write /\ ~Interface!is_full(txQueue)

\* A frame written but not yet taken is still in the queue.
WrittenOK ==
    OneSends =>
        /\ updating.at = "written" => ~Interface!Empty(txQueue)
        /\ Interface!TransmittedInOrder

\* The inductive invariant of the interface.
InterfaceInv == InterfaceTypeOK /\ LockOK /\ ReceivedOK /\ CallsOK /\ WriterOK /\ WrittenOK

\* What most steps leave alone.
ReceivingQuiet ==
    /\ rxQueue' = rxQueue /\ frames'.given = frames.given /\ frames'.read = frames.read
    /\ updating'.at = "given" <=> updating.at = "given"
    /\ receiving' = receiving \/ (receiving.at # "push" /\ receiving'.at # "push")

SendingQuiet ==
    /\ txQueue' = txQueue /\ frames'.written = frames.written /\ frames'.accepted = frames.accepted
    /\ updating'.at = "written" <=> updating.at = "written"

WritersQuiet ==
    /\ sending' = sending /\ txQueue' = txQueue /\ left'.sends = left.sends
    /\ updating.at = "periodic" => updating'.at = "periodic"

\* Steps that leave the received frames alone.
LEMMA ReceivingQuietKeeps ==
    ASSUME InterfaceInv, ReceivingQuiet PROVE ReceivedOK'
<1>1. Interface!Contents(rxQueue)' = Interface!Contents(rxQueue)
  BY DEF Interface!Contents, ReceivingQuiet
<1> QED
  BY <1>1 DEF ReceivingQuiet, InterfaceInv, ReceivedOK, Interface!ReceivedInOrder, Interface!Empty, Interface!is_full

\* Steps that leave the frames to be sent alone.
LEMMA SendingQuietKeeps ==
    ASSUME InterfaceInv, SendingQuiet, scenario' = scenario PROVE WrittenOK'
<1>1. Interface!Contents(txQueue)' = Interface!Contents(txQueue)
  BY DEF Interface!Contents, SendingQuiet
<1> QED
  BY <1>1 DEF SendingQuiet, InterfaceInv, WrittenOK, Interface!TransmittedInOrder, Interface!Empty, OneSends

\* Steps that leave the threads that send alone.
LEMMA WritersQuietKeep ==
    ASSUME InterfaceInv, WritersQuiet, scenario' = scenario PROVE WriterOK' /\ CallsOK'
<1>1. WriterOK'
  BY DEF InterfaceInv, WriterOK, WritersQuiet, Interface!is_full, OneSends
<1>2. CallsOK'
  BY DEF InterfaceInv, CallsOK, WritersQuiet
<1> QED
  BY <1>1, <1>2

\* Steps that touch neither queue, nor what was accepted, written, read or
\* given.
Still == /\ UNCHANGED <<txQueue, rxQueue, sending, frames>> /\ left'.sends = left.sends
         /\ {"calls", "sends", "arrive", "breaks", "refuses"} \subseteq DOMAIN left'
         /\ left'.arrive = left.arrive
         /\ updating' = updating
              \/ (/\ updating' \in [at : Places, handled : Nat]
                  /\ updating'.at \notin {"given", "written"}
                  /\ updating.at \notin {"given", "written", "periodic"})
         /\ receiving' = receiving
              \/ (/\ receiving' \in [at : {"none", "polling", "push", "ended"}, frame : FrameSet]
                  /\ receiving.at # "push" /\ receiving'.at # "push")
         /\ lock' \in {"free", "control", "update"}
         /\ control' \in {"idle", "starting", "opening", "joining", "stopping", "draining"}

\* Steps that leave all of these alone.
LEMMA StillKeeps ==
    ASSUME InterfaceInv, Still, LockOK', scenario' = scenario PROVE InterfaceInv'
<1>1. InterfaceTypeOK'
  BY DEF InterfaceInv, InterfaceTypeOK, Still
<1>2. ReceivingQuiet /\ SendingQuiet /\ WritersQuiet
  BY DEF Still, ReceivingQuiet, SendingQuiet, WritersQuiet
<1> QED
  BY <1>1, <1>2, ReceivingQuietKeeps, SendingQuietKeeps, WritersQuietKeep DEF InterfaceInv

\* Where the threads are and who holds the mutex.
LEMMA Shapes ==
    ASSUME InterfaceInv
    PROVE  /\ {"calls", "sends", "arrive", "breaks", "refuses"} \subseteq DOMAIN left
           /\ updating \in [at : Places, handled : Nat]
           /\ receiving \in [at : {"none", "polling", "push", "ended"}, frame : FrameSet]
           /\ lock \in {"free", "control", "update"}
           /\ control \in {"idle", "starting", "opening", "joining", "stopping", "draining"}
           /\ (lock = "update" <=> updating.at \in {"receive", "given", "transmit", "written"})
           /\ (lock = "control" <=> control \in {"starting", "opening", "draining"})
BY DEF InterfaceInv, InterfaceTypeOK, LockOK

\* start(), stop() and the assignment of a driver move no frame until the queues
\* are cleared.
LEMMA ControlKeeps ==
    ASSUME InterfaceInv, scenario' = scenario,
           Interface!start \/ Interface!start_threads \/ Interface!StartChannel \/ Interface!stop \/ Interface!stop_threads \/ Interface!StopChannel
             \/ Interface!assign_can_channel_frame_handler \/ Interface!unassign_can_channel_frame_handler
    PROVE  InterfaceInv'
<1> USE Shapes DEF Still, LockOK, Places
<1>1. CASE Interface!start
  BY <1>1, StillKeeps DEF Interface!start, Interface!Calls, Interface!Locks
<1>2. CASE Interface!start_threads
  BY <1>2, StillKeeps DEF Interface!start_threads
<1>3. CASE Interface!StartChannel
  BY <1>3, StillKeeps DEF Interface!StartChannel, Interface!Returns
<1>4. CASE Interface!stop
  BY <1>4, StillKeeps DEF Interface!stop, Interface!Calls, Interface!Returns
<1>5. CASE Interface!stop_threads
  BY <1>5, StillKeeps DEF Interface!stop_threads
<1>6. CASE Interface!StopChannel
  BY <1>6, StillKeeps DEF Interface!StopChannel, Interface!Locks
<1>7. CASE Interface!assign_can_channel_frame_handler
  BY <1>7, StillKeeps DEF Interface!assign_can_channel_frame_handler, Interface!Calls, Interface!Returns
<1>8. CASE Interface!unassign_can_channel_frame_handler
  BY <1>8, StillKeeps DEF Interface!unassign_can_channel_frame_handler, Interface!Calls, Interface!Returns
<1> QED
  BY <1>1, <1>2, <1>3, <1>4, <1>5, <1>6, <1>7, <1>8

\* The steps of the update thread and the receive thread that move no frame.
LEMMA PassKeeps ==
    ASSUME InterfaceInv, scenario' = scenario,
           Interface!ReceiveEnds \/ Interface!UpdateThreadStarts \/ Interface!update_thread_function \/ Interface!update \/ Interface!StageTwo
             \/ Interface!StageThree \/ Interface!UpdateEnds \/ Interface!DriverBreaks
    PROVE  InterfaceInv'
<1> USE Shapes DEF Still, LockOK, Places, Interface!Turns
<1>1. CASE Interface!ReceiveEnds
  BY <1>1, StillKeeps DEF Interface!ReceiveEnds
<1>2. CASE Interface!UpdateThreadStarts
  BY <1>2, StillKeeps DEF Interface!UpdateThreadStarts
<1>3. CASE Interface!update_thread_function
  BY <1>3, StillKeeps DEF Interface!update_thread_function
<1>4. CASE Interface!update
  BY <1>4, StillKeeps DEF Interface!update, Interface!Locks
<1>5. CASE Interface!StageTwo
  BY <1>5, StillKeeps DEF Interface!StageTwo
<1>6. CASE Interface!StageThree
  BY <1>6, StillKeeps DEF Interface!StageThree, Interface!Locks
<1>7. CASE Interface!UpdateEnds
  BY <1>7, StillKeeps DEF Interface!UpdateEnds
<1>8. CASE Interface!DriverBreaks
  BY <1>8, StillKeeps DEF Interface!DriverBreaks
<1> QED
  BY <1>1, <1>2, <1>3, <1>4, <1>5, <1>6, <1>7, <1>8

\* stop() clears both queues: what they held is no longer owed, and an index
\* that a push loaded before is still the next free one.
LEMMA ClearQueuesKeeps ==
    ASSUME InterfaceInv, Interface!ClearQueues, scenario' = scenario PROVE InterfaceInv'
<1>1. /\ control = "draining" /\ receiving.at \in {"none", "ended"} /\ control' = "idle" /\ lock' = "free"
      /\ left' = [left EXCEPT !.calls = Tail(@)] /\ receiving' = [receiving EXCEPT !.at = "none"]
      /\ txQueue' = Interface!clear(txQueue) /\ rxQueue' = Interface!clear(rxQueue)
      /\ frames' = [frames EXCEPT !.accepted = frames.written, !.read = frames.given]
      /\ updating' = updating /\ sending' = sending
  BY DEF Interface!ClearQueues, Interface!Returns
<1>2. /\ rxQueue \in Queues /\ txQueue \in Queues
      /\ frames \in [accepted : Seq(FrameSet), written : Seq(FrameSet), read : Seq(FrameSet),
                     given : Seq(FrameSet)]
  BY DEF InterfaceInv, InterfaceTypeOK
<1>3. /\ rxQueue' \in Queues /\ Interface!Contents(rxQueue') = <<>>
      /\ txQueue' \in Queues /\ Interface!Contents(txQueue') = <<>> /\ txQueue'.write = txQueue.write
      /\ ~Interface!is_full(txQueue) => ~Interface!is_full(txQueue')
  BY <1>1, <1>2, RingCleared
<1>4. updating.at \notin {"given", "written"}
  BY <1>1, Shapes
<1>5. /\ frames'.accepted = frames.written /\ frames'.read = frames.given
      /\ frames'.given = frames.given /\ frames'.written = frames.written
      /\ frames.given \in Seq(FrameSet) /\ frames.written \in Seq(FrameSet)
  BY <1>1, <1>2
<1>6. receiving'.at = "none" /\ left'.sends = left.sends
  BY <1>1, Shapes
<1>7. InterfaceTypeOK'
  BY <1>1, <1>3 DEF InterfaceInv, InterfaceTypeOK
<1>8. LockOK'
  BY <1>1, Shapes DEF LockOK
<1>9. ReceivedOK'
  <2>1. frames.given \o <<>> \o <<>> = frames.given
    BY <1>5
  <2>2. Interface!ReceivedInOrder'
    BY <1>1, <1>3, <1>4, <1>5, <1>6, <2>1 DEF Interface!ReceivedInOrder
  <2> QED
    BY <1>1, <1>4, <1>6, <2>2 DEF ReceivedOK
<1>10. WrittenOK'
  <2>1. frames.written \o <<>> = frames.written
    BY <1>5
  <2>2. Interface!TransmittedInOrder'
    BY <1>1, <1>3, <1>4, <1>5, <2>1 DEF Interface!TransmittedInOrder
  <2> QED
    BY <1>1, <1>4, <2>2 DEF WrittenOK
<1>11. WriterOK'
  BY <1>1, <1>3, <1>6 DEF InterfaceInv, WriterOK, OneSends
<1>12. CallsOK'
  BY <1>1, <1>6 DEF InterfaceInv, CallsOK
<1> QED
  BY <1>7, <1>8, <1>9, <1>10, <1>11, <1>12 DEF InterfaceInv

\* The frame a thread is about to send.
LEMMA FrameHead ==
    ASSUME InterfaceInv, NEW t \in Interface!Writers, left.sends[t] # <<>>
    PROVE  Interface!FrameOf(t) \in FrameSet /\ Tail(left.sends[t]) \in Seq(FrameSet)
<1>1. left.sends[t] \in Seq(FrameSet)
  BY DEF InterfaceInv, InterfaceTypeOK
<1> DEFINE s == left.sends[t]
<1>2. s \in Seq(FrameSet) /\ s # <<>>
  BY <1>1
<1> HIDE DEF s
<1>3. Head(s) \in FrameSet /\ Tail(s) \in Seq(FrameSet)
  BY <1>2
<1> QED
  BY <1>3 DEF s, Interface!FrameOf

\* A thread that is done with a frame.
Done(t) ==
    /\ left' = [left EXCEPT !.sends[t] = Tail(@)]
    /\ updating' = IF t = "update" THEN [updating EXCEPT !.at = "sent"] ELSE updating

\* A thread that is done with its frame.
LEMMA DoneFields ==
    ASSUME InterfaceInv, NEW t \in Interface!Writers, left.sends[t] # <<>>, Done(t),
           t = "update" => updating.at = "periodic"
    PROVE  /\ {"calls", "sends", "arrive", "breaks", "refuses"} \subseteq DOMAIN left'
           /\ left'.sends \in [Interface!Writers -> Seq(FrameSet)] /\ left'.arrive \in Seq(FrameSet)
           /\ left'.sends = [left.sends EXCEPT ![t] = Tail(@)]
           /\ updating' \in [at : Places, handled : Nat]
           /\ (updating' = updating \/ (updating.at = "periodic" /\ updating'.at = "sent"))
<1>1. /\ {"calls", "sends", "arrive", "breaks", "refuses"} \subseteq DOMAIN left
      /\ left.sends \in [Interface!Writers -> Seq(FrameSet)] /\ left.arrive \in Seq(FrameSet)
      /\ updating \in [at : Places, handled : Nat]
  BY DEF InterfaceInv, InterfaceTypeOK
<1>2. Tail(left.sends[t]) \in Seq(FrameSet)
  BY FrameHead
<1>3. left' = [left EXCEPT !.sends = [left.sends EXCEPT ![t] = Tail(@)]]
  BY <1>1 DEF Done
<1>4. /\ DOMAIN left' = DOMAIN left /\ left'.arrive = left.arrive
      /\ left'.sends = [left.sends EXCEPT ![t] = Tail(@)]
  BY <1>1, <1>3
<1>5. updating' \in [at : Places, handled : Nat]
      /\ (updating' = updating \/ (updating.at = "periodic" /\ updating'.at = "sent"))
  BY <1>1 DEF Done, Places
<1>6. [left.sends EXCEPT ![t] = Tail(@)] \in [Interface!Writers -> Seq(FrameSet)]
  BY <1>1, <1>2
<1> QED
  BY <1>1, <1>4, <1>5, <1>6

\* While one thread sends, the others do nothing.
LEMMA Sole ==
    ASSUME InterfaceInv, OneSends, NEW t \in Interface!Writers, left.sends[t] # <<>>, NEW u \in Interface!Writers, u # t
    PROVE  left.sends[u] = <<>> /\ sending[u].at = "idle"
BY DEF InterfaceInv, WriterOK, CallsOK

\* The steps of transmit_can_frame.
WritingFrame(t) ==
    /\ left.sends[t] # <<>>
    /\ UNCHANGED <<lock, control, receiving, rxQueue>>
    /\ frames'.given = frames.given /\ frames'.read = frames.read
    /\ \E p \in {"idle", "push", "store"}, i \in Indices :
          sending' = [sending EXCEPT ![t] = [at |-> p, index |-> i]]

\* What the three steps of transmit_can_frame have in common.
LEMMA SendingKeeps ==
    ASSUME InterfaceInv, NEW t \in Interface!Writers, WritingFrame(t), scenario' = scenario,
           \/ Done(t) /\ sending'[t].at = "idle" /\ (t = "update" => updating.at = "periodic")
           \/ /\ UNCHANGED <<left, updating>> /\ (t = "update" => updating.at = "periodic")
              /\ OneSends /\ sending'[t].at = "store" =>
                     sending'[t].index = txQueue'.write /\ ~Interface!is_full(txQueue'),
           WrittenOK', txQueue' \in Queues,
           frames' \in [accepted : Seq(FrameSet), written : Seq(FrameSet), read : Seq(FrameSet),
                        given : Seq(FrameSet)]
    PROVE  InterfaceInv'
<1>1. /\ {"calls", "sends", "arrive", "breaks", "refuses"} \subseteq DOMAIN left'
      /\ left'.sends \in [Interface!Writers -> Seq(FrameSet)] /\ left'.arrive \in Seq(FrameSet)
      /\ updating' \in [at : Places, handled : Nat]
      /\ (updating' = updating \/ (updating.at = "periodic" /\ updating'.at = "sent"))
      /\ \A u \in Interface!Writers : u # t => left'.sends[u] = left.sends[u]
  <2>1. CASE UNCHANGED <<left, updating>>
    BY <2>1 DEF InterfaceInv, InterfaceTypeOK
  <2>2. CASE Done(t) /\ (t = "update" => updating.at = "periodic")
    <3>1. left.sends \in [Interface!Writers -> Seq(FrameSet)]
      BY DEF InterfaceInv, InterfaceTypeOK
    <3> QED
      BY <2>2, <3>1, DoneFields DEF WritingFrame
  <2> QED
    BY <2>1, <2>2
<1>2. /\ sending' \in [Interface!Writers -> [at : {"idle", "push", "store"}, index : Indices]]
      /\ \A u \in Interface!Writers : u # t => sending'[u] = sending[u]
  BY DEF WritingFrame, InterfaceInv, InterfaceTypeOK
<1>3. InterfaceTypeOK'
  BY <1>1, <1>2 DEF InterfaceInv, InterfaceTypeOK, WritingFrame
<1>4. LockOK'
  BY <1>1 DEF InterfaceInv, LockOK, WritingFrame
<1>5. ReceivedOK'
  <2>1. ReceivingQuiet
    BY <1>1 DEF ReceivingQuiet, WritingFrame
  <2> QED
    BY <2>1, ReceivingQuietKeeps
<1>6. WriterOK'
  <2> SUFFICES ASSUME OneSends PROVE WriterOK'
    BY DEF WriterOK, OneSends
  <2>1. \A u \in Interface!Writers : u # t => left'.sends[u] = <<>> /\ sending'[u].at = "idle"
    <3>1. left.sends[t] # <<>>
      BY DEF WritingFrame
    <3>2. \A u \in Interface!Writers : u # t => left.sends[u] = <<>> /\ sending[u].at = "idle"
      BY <3>1, Sole
    <3> QED
      BY <1>1, <1>2, <3>2
  <2>2. sending'[t].at = "store" => sending'[t].index = txQueue'.write /\ ~Interface!is_full(txQueue')
    OBVIOUS
  <2> QED
    BY <2>1, <2>2 DEF WriterOK
<1>7. CallsOK'
  <2>1. sending'[t].at # "idle" =>
          left'.sends[t] # <<>> /\ (t = "update" => updating'.at = "periodic")
    BY DEF WritingFrame
  <2>2. ASSUME NEW u \in Interface!Writers, u # t, sending'[u].at # "idle"
        PROVE  left'.sends[u] # <<>> /\ (u = "update" => updating'.at = "periodic")
    <3>1. left'.sends[u] # <<>> /\ (u = "update" => updating.at = "periodic")
      BY <1>1, <1>2, <2>2 DEF InterfaceInv, CallsOK
    <3>2. updating' = updating \/ t = "update"
      BY DEF Done
    <3> QED
      BY <2>2, <3>1, <3>2
  <2> QED
    BY <2>1, <2>2 DEF CallsOK
<1> QED
  BY <1>3, <1>4, <1>5, <1>6, <1>7 DEF InterfaceInv

\* transmit_can_frame checks, and its push loads the index; a full queue refuses
\* the frame.
LEMMA TransmitKeeps ==
    ASSUME InterfaceInv, NEW t \in Interface!Writers, Interface!transmit_can_frame(t) \/ Interface!PushLoads(t), scenario' = scenario
    PROVE  InterfaceInv'
<1>1. /\ sending \in [Interface!Writers -> [at : {"idle", "push", "store"}, index : Indices]]
      /\ txQueue \in Queues
      /\ frames \in [accepted : Seq(FrameSet), written : Seq(FrameSet), read : Seq(FrameSet),
                     given : Seq(FrameSet)]
  BY DEF InterfaceInv, InterfaceTypeOK
<1>2. txQueue' = txQueue /\ frames' = frames
  BY DEF Interface!transmit_can_frame, Interface!PushLoads
<1>3. left.sends[t] # <<>>
  BY DEF Interface!transmit_can_frame, Interface!PushLoads, Interface!MaySend, InterfaceInv, CallsOK
<1>4. txQueue.write \in Indices /\ sending[t] \in [at : {"idle", "push", "store"}, index : Indices]
  BY <1>1 DEF Queues
<1>5. WrittenOK' \/ updating' # updating
  BY <1>2, SendingQuietKeeps DEF SendingQuiet
<1>6. t = "update" => updating.at = "periodic"
  BY DEF Interface!transmit_can_frame, Interface!PushLoads, Interface!MaySend, InterfaceInv, CallsOK
<1>7. UNCHANGED <<lock, control, receiving, rxQueue>>
  BY DEF Interface!transmit_can_frame, Interface!PushLoads
<1>8. CASE /\ UNCHANGED <<left, updating>>
           /\ sending' = [sending EXCEPT ![t] = [at |-> "push", index |-> sending[t].index]]
  <2>1. WritingFrame(t) /\ sending'[t].at # "store"
    BY <1>1, <1>2, <1>3, <1>4, <1>7, <1>8 DEF WritingFrame
  <2> QED
    BY <1>1, <1>2, <1>5, <1>6, <1>8, <2>1, SendingKeeps
<1>9. CASE /\ UNCHANGED <<left, updating>> /\ ~Interface!is_full(txQueue)
           /\ sending' = [sending EXCEPT ![t] = [at |-> "store", index |-> txQueue.write]]
  <2>1. WritingFrame(t) /\ sending'[t].index = txQueue'.write
    BY <1>1, <1>2, <1>3, <1>4, <1>7, <1>9 DEF WritingFrame
  <2>2. ~Interface!is_full(txQueue')
    BY <1>2, <1>9
  <2> QED
    BY <1>1, <1>2, <1>5, <1>6, <1>9, <2>1, <2>2, SendingKeeps
<1>10. CASE /\ Done(t)
            /\ sending' = [sending EXCEPT ![t] = [at |-> "idle", index |-> sending[t].index]]
  <2>1. WritingFrame(t) /\ sending'[t].at = "idle"
    BY <1>1, <1>2, <1>3, <1>4, <1>7, <1>10 DEF WritingFrame
  <2>2. SendingQuiet
    <3>1. updating' = updating \/ (updating.at = "periodic" /\ updating'.at = "sent")
      BY <1>3, <1>6, <1>10, DoneFields
    <3> QED
      BY <1>2, <3>1 DEF SendingQuiet
  <2> QED
    BY <1>1, <1>2, <1>6, <1>10, <2>1, <2>2, SendingKeeps, SendingQuietKeeps
<1>11. CASE Interface!transmit_can_frame(t)
  <2>1. \/ UNCHANGED <<left, updating>> /\ sending' = [sending EXCEPT ![t].at = "push"]
        \/ Done(t) /\ sending' = sending /\ sending[t].at = "idle"
    BY <1>11 DEF Interface!transmit_can_frame, Done, Interface!Sent
  <2> QED
    BY <1>1, <1>4, <1>8, <1>10, <2>1
<1>12. CASE Interface!PushLoads(t)
  <2>1. \/ Done(t) /\ sending' = [sending EXCEPT ![t].at = "idle"]
        \/ /\ UNCHANGED <<left, updating>> /\ ~Interface!is_full(txQueue)
           /\ sending' = [sending EXCEPT ![t] = [at |-> "store", index |-> txQueue.write]]
    BY <1>12 DEF Interface!PushLoads, Done, Interface!Sent
  <2> QED
    BY <1>1, <1>4, <1>9, <1>10, <2>1
<1> QED
  BY <1>11, <1>12

\* The push stores the frame: the queue held room for it, as nobody else writes.
LEMMA PushStoresKeeps ==
    ASSUME InterfaceInv, NEW t \in Interface!Writers, Interface!PushStores(t), scenario' = scenario
    PROVE  InterfaceInv'
<1>1. /\ sending \in [Interface!Writers -> [at : {"idle", "push", "store"}, index : Indices]]
      /\ txQueue \in Queues
      /\ frames \in [accepted : Seq(FrameSet), written : Seq(FrameSet), read : Seq(FrameSet),
                     given : Seq(FrameSet)]
  BY DEF InterfaceInv, InterfaceTypeOK
<1>2. /\ sending[t].at = "store" /\ left.sends[t] # <<>>
      /\ OneSends => sending[t].index = txQueue.write /\ ~Interface!is_full(txQueue)
      /\ t = "update" => updating.at = "periodic"
  BY DEF Interface!PushStores, InterfaceInv, WriterOK, CallsOK
<1>3. /\ txQueue' = Interface!Stored(txQueue, sending[t].index, Interface!FrameOf(t))
      /\ frames' = [frames EXCEPT !.accepted = Append(@, Interface!FrameOf(t))] /\ Done(t)
      /\ sending' = [sending EXCEPT ![t].at = "idle"]
      /\ UNCHANGED <<lock, control, receiving, rxQueue>>
  BY <1>2 DEF Interface!PushStores, Done, Interface!Sent
<1>4. Interface!FrameOf(t) \in FrameSet
  BY <1>2, FrameHead
<1>5. /\ txQueue' \in Queues
      /\ OneSends => Interface!Contents(txQueue') = Append(Interface!Contents(txQueue), Interface!FrameOf(t))
  <2>1. txQueue' \in Queues
    BY <1>1, <1>3, <1>4, RingTyped
  <2>2. OneSends => Interface!Contents(txQueue') = Append(Interface!Contents(txQueue), Interface!FrameOf(t))
    BY <1>1, <1>2, <1>3, <1>4, RingStored
  <2> QED
    BY <2>1, <2>2
<1>6. frames' \in [accepted : Seq(FrameSet), written : Seq(FrameSet), read : Seq(FrameSet),
                  given : Seq(FrameSet)]
  <2> DEFINE a == frames.accepted
             b == Append(frames.accepted, Interface!FrameOf(t))
  <2>1. a \in Seq(FrameSet)
    BY <1>1
  <2>2. b \in Seq(FrameSet)
    BY <1>4, <2>1
  <2>3. frames' = [frames EXCEPT !.accepted = b]
    BY <1>3
  <2> HIDE DEF a, b
  <2> QED
    BY <1>1, <2>2, <2>3
<1>7. updating' = updating \/ (updating.at = "periodic" /\ updating'.at = "sent")
  BY <1>2, <1>3, DoneFields
<1>8. WrittenOK'
  <2> SUFFICES ASSUME OneSends PROVE WrittenOK'
    BY DEF WrittenOK, OneSends
  <2>1. /\ frames'.accepted = Append(frames.accepted, Interface!FrameOf(t)) /\ frames'.written = frames.written
        /\ frames.accepted \in Seq(FrameSet) /\ frames.written \in Seq(FrameSet)
    BY <1>1, <1>3
  <2>2. Interface!Contents(txQueue) \in Seq(FrameSet) /\ Len(Interface!Contents(txQueue)) = Count(txQueue)
    BY <1>1, RingSeq
  <2> DEFINE s == Interface!Contents(txQueue)
             f == Interface!FrameOf(t)
             w == frames.written
             a == frames.accepted
  <2>3. CASE updating.at = "written"
    <3>1. updating' = updating /\ ~Interface!Empty(txQueue) /\ w \o Tail(s) = a
      BY <1>7, <2>3 DEF InterfaceInv, WrittenOK, Interface!TransmittedInOrder
    <3>2. Len(s) # 0
      BY <1>1, <2>2, <3>1, RingFields
    <3>3. w \o Tail(Append(s, f)) = Append(a, f)
      <4>1. s \in Seq(FrameSet) /\ Len(s) # 0 /\ f \in FrameSet /\ w \in Seq(FrameSet)
            /\ a \in Seq(FrameSet) /\ w \o Tail(s) = a
        BY <1>4, <2>1, <2>2, <3>1, <3>2
      <4> HIDE DEF s, f, w, a
      <4> DEFINE r == Tail(s)
      <4>2. Tail(Append(s, f)) = Append(r, f) /\ r \in Seq(FrameSet) /\ w \o r = a
        BY <4>1
      <4> HIDE DEF r
      <4>3. w \o Append(r, f) = Append(w \o r, f)
        BY <4>1, <4>2
      <4> QED
        BY <4>2, <4>3
    <3>4. ~Interface!Empty(txQueue')
      <4>1. Count(txQueue') = Len(Interface!Contents(txQueue'))
        BY <1>5, RingSeq
      <4>2. Len(Append(s, f)) # 0
        <5> HIDE DEF s, f
        <5> QED
          BY <1>4, <2>2 DEF s, f
      <4> QED
        BY <1>5, <4>1, <4>2, RingFields
    <3> QED
      BY <1>5, <2>1, <2>3, <3>1, <3>3, <3>4 DEF WrittenOK, Interface!TransmittedInOrder
  <2>4. CASE updating.at # "written"
    <3>1. updating'.at # "written" /\ w \o s = a
      BY <1>7, <2>4 DEF InterfaceInv, WrittenOK, Interface!TransmittedInOrder
    <3>2. w \o Append(s, f) = Append(a, f)
      <4>1. s \in Seq(FrameSet) /\ f \in FrameSet /\ w \in Seq(FrameSet) /\ w \o s = a
        BY <1>4, <2>1, <2>2, <3>1
      <4> HIDE DEF s, f, w, a
      <4>2. w \o Append(s, f) = Append(w \o s, f)
        BY <4>1
      <4> QED
        BY <4>1, <4>2, SMTT(40)
    <3> QED
      BY <1>5, <2>1, <3>1, <3>2 DEF WrittenOK, Interface!TransmittedInOrder
  <2> QED
    BY <2>3, <2>4
<1>9. WritingFrame(t) /\ sending'[t].at = "idle"
  <2>1. sending[t] = [at |-> "store", index |-> sending[t].index] /\ sending[t].index \in Indices
    BY <1>1, <1>2
  <2>2. sending' = [sending EXCEPT ![t] = [at |-> "idle", index |-> sending[t].index]]
    <3>1. [sending[t] EXCEPT !.at = "idle"] = [at |-> "idle", index |-> sending[t].index]
      BY <2>1
    <3>2. sending' = [sending EXCEPT ![t] = [sending[t] EXCEPT !.at = "idle"]]
      BY <1>3, Zenon
    <3> QED
      BY <3>1, <3>2, Zenon
  <2>3. frames'.given = frames.given /\ frames'.read = frames.read
    BY <1>1, <1>3
  <2> QED
    BY <1>1, <1>2, <1>3, <2>1, <2>2, <2>3 DEF WritingFrame
<1> QED
  BY <1>2, <1>3, <1>5, <1>6, <1>8, <1>9, SendingKeeps

\* The histories.
Histories == [accepted : Seq(FrameSet), written : Seq(FrameSet), read : Seq(FrameSet),
              given : Seq(FrameSet)]

\* The frames are where the histories and the queues can be compared.
LEMMA Data ==
    ASSUME InterfaceInv
    PROVE  /\ rxQueue \in Queues /\ txQueue \in Queues /\ frames \in Histories
           /\ left.arrive \in Seq(FrameSet)
           /\ Interface!Contents(rxQueue) \in Seq(FrameSet) /\ Interface!Contents(txQueue) \in Seq(FrameSet)
           /\ frames.accepted \in Seq(FrameSet) /\ frames.written \in Seq(FrameSet)
           /\ frames.read \in Seq(FrameSet) /\ frames.given \in Seq(FrameSet)
<1>1. rxQueue \in Queues /\ txQueue \in Queues /\ frames \in Histories /\ left.arrive \in Seq(FrameSet)
  BY DEF InterfaceInv, InterfaceTypeOK, Histories
<1>2. Interface!Contents(rxQueue) \in Seq(FrameSet) /\ Interface!Contents(txQueue) \in Seq(FrameSet)
  BY <1>1, RingSeq
<1> QED
  BY <1>1, <1>2 DEF Histories

\* receive_can_frame takes a frame only when the queue has room for it.
LEMMA TakesKeeps ==
    ASSUME InterfaceInv, Interface!receive_can_frame, scenario' = scenario PROVE InterfaceInv'
<1> DEFINE f == Head(left.arrive)
           rest == Tail(left.arrive)
<1>1. f \in FrameSet /\ rest \in Seq(FrameSet)
  <2> DEFINE s == left.arrive
  <2>1. s \in Seq(FrameSet) /\ s # <<>>
    BY Data DEF Interface!receive_can_frame, Interface!Takes
  <2> HIDE DEF s
  <2>2. Head(s) \in FrameSet /\ Tail(s) \in Seq(FrameSet)
    BY <2>1
  <2> QED
    BY <2>2 DEF s
<1> DEFINE more == Append(frames.read, f)
<1>2. more \in Seq(FrameSet)
  BY <1>1, Data
<1>3. /\ receiving.at = "polling" /\ ~Interface!is_full(rxQueue)
      /\ left' = [left EXCEPT !.arrive = rest]
      /\ receiving' = [at |-> "push", frame |-> f]
      /\ frames' = [frames EXCEPT !.read = more]
      /\ UNCHANGED <<lock, control, updating, txQueue, rxQueue, sending>>
  BY DEF Interface!receive_can_frame, Interface!Takes
<1>4. more = frames.read \o <<f>>
  <2> DEFINE a == frames.read
  <2>1. a \in Seq(FrameSet) /\ f \in FrameSet
    BY <1>1, Data
  <2> HIDE DEF a, f
  <2>2. Append(a, f) = a \o <<f>>
    BY <2>1
  <2> QED
    BY <2>2 DEF a
<1> HIDE DEF f, rest, more
<1>5. InterfaceTypeOK'
  BY <1>1, <1>2, <1>3 DEF InterfaceInv, InterfaceTypeOK
<1>6. LockOK'
  BY <1>3 DEF InterfaceInv, LockOK
<1>7. SendingQuiet /\ WritersQuiet
  BY <1>3, Data, Shapes DEF SendingQuiet, WritersQuiet, Histories
<1>8. ReceivedOK'
  <2>1. /\ frames'.read = frames.read \o <<f>> /\ frames'.given = frames.given
        /\ Interface!Contents(rxQueue)' = Interface!Contents(rxQueue)
    BY <1>3, <1>4, Data DEF Interface!Contents, Histories
  <2> DEFINE w == IF updating.at = "given" THEN Tail(Interface!Contents(rxQueue)) ELSE Interface!Contents(rxQueue)
  <2>2. frames.given \o w \o <<>> = frames.read
    BY <1>3 DEF InterfaceInv, ReceivedOK, Interface!ReceivedInOrder
  <2>3. w \in Seq(FrameSet) /\ frames.given \in Seq(FrameSet)
    <3>1. updating.at = "given" => Interface!Contents(rxQueue) # <<>>
      BY Data, RingSeq, RingFields DEF InterfaceInv, ReceivedOK
    <3> DEFINE s == Interface!Contents(rxQueue)
    <3>2. s \in Seq(FrameSet) /\ (updating.at = "given" => s # <<>>)
      BY <3>1, Data
    <3> HIDE DEF s
    <3>3. s # <<>> => Tail(s) \in Seq(FrameSet)
      BY <3>2
    <3> QED
      BY <3>2, <3>3, Data DEF s
  <2> DEFINE g == frames.given
  <2>4. g \o w \o <<f>> = frames'.read
    <3>1. g \in Seq(FrameSet) /\ w \in Seq(FrameSet) /\ g \o w \o <<>> = frames.read
      BY <2>2, <2>3
    <3> HIDE DEF g, w
    <3>2. g \o w = frames.read
      BY <3>1
    <3> QED
      BY <2>1, <3>2
  <2> HIDE DEF w
  <2>5. Interface!ReceivedInOrder'
    BY <1>3, <2>1, <2>4 DEF Interface!ReceivedInOrder, w
  <2> QED
    BY <1>3, <2>5 DEF InterfaceInv, ReceivedOK, Interface!Empty, Interface!is_full
<1> QED
  BY <1>5, <1>6, <1>7, <1>8, SendingQuietKeeps, WritersQuietKeep DEF InterfaceInv

\* So its push is not refused.
LEMMA PushReceivedKeeps ==
    ASSUME InterfaceInv, Interface!PushReceived, scenario' = scenario PROVE InterfaceInv'
<1>1. /\ receiving.at = "push" /\ receiving' = [at |-> "polling", frame |-> Interface!NoFrame]
      /\ ~Interface!is_full(rxQueue) /\ receiving.frame \in FrameSet
      /\ UNCHANGED <<left, lock, control, updating, txQueue, sending, frames>>
  BY Shapes DEF Interface!PushReceived, InterfaceInv, ReceivedOK
<1>2. rxQueue' = Interface!Stored(rxQueue, rxQueue.write, receiving.frame)
  BY <1>1 DEF Interface!PushReceived, Interface!is_full
<1>3. rxQueue' \in Queues /\ Interface!Contents(rxQueue') = Append(Interface!Contents(rxQueue), receiving.frame)
  BY <1>1, <1>2, RingStored, Data
<1>4. InterfaceTypeOK'
  BY <1>1, <1>3 DEF InterfaceInv, InterfaceTypeOK, Interface!NoFrame, FrameSet
<1>5. LockOK'
  BY <1>1 DEF InterfaceInv, LockOK
<1>6. SendingQuiet /\ WritersQuiet
  BY <1>1 DEF SendingQuiet, WritersQuiet
<1>7. ReceivedOK'
  <2> DEFINE s == Interface!Contents(rxQueue)
             f == receiving.frame
             g == frames.given
             a == frames.read
  <2>1. s \in Seq(FrameSet) /\ f \in FrameSet /\ g \in Seq(FrameSet) /\ a \in Seq(FrameSet)
    BY <1>1, Data
  <2>2. CASE updating.at = "given"
    <3>1. g \o Tail(s) \o <<f>> = a /\ ~Interface!Empty(rxQueue)
      BY <1>1, <2>2 DEF InterfaceInv, ReceivedOK, Interface!ReceivedInOrder
    <3>2. Len(s) # 0
      BY <3>1, Data, RingSeq, RingFields
    <3>3. g \o Tail(Append(s, f)) \o <<>> = a /\ Len(Append(s, f)) # 0
      <4> HIDE DEF s, f, g, a
      <4> DEFINE r == Tail(s)
      <4>1. Tail(Append(s, f)) = Append(r, f) /\ r \in Seq(FrameSet) /\ g \o r \o <<f>> = a
            /\ Len(Append(s, f)) # 0
        BY <2>1, <3>1, <3>2, SMTT(40)
      <4> HIDE DEF r
      <4>2. g \o Append(r, f) \o <<>> = g \o r \o <<f>>
        BY <2>1, <4>1
      <4> QED
        BY <4>1, <4>2
    <3>4. ~Interface!Empty(rxQueue')
      BY <1>3, <3>3, RingSeq, RingFields
    <3> QED
      BY <1>1, <1>3, <2>2, <3>3, <3>4 DEF ReceivedOK, Interface!ReceivedInOrder
  <2>3. CASE updating.at # "given"
    <3>1. g \o s \o <<f>> = a
      BY <1>1, <2>3 DEF InterfaceInv, ReceivedOK, Interface!ReceivedInOrder
    <3>2. g \o Append(s, f) \o <<>> = a
      <4> HIDE DEF s, f, g, a
      <4>1. g \o Append(s, f) \o <<>> = g \o s \o <<f>>
        BY <2>1
      <4> QED
        BY <3>1, <4>1
    <3> QED
      BY <1>1, <1>3, <2>3, <3>2 DEF ReceivedOK, Interface!ReceivedInOrder
  <2> QED
    BY <2>2, <2>3
<1> QED
  BY <1>4, <1>5, <1>6, <1>7, SendingQuietKeeps, WritersQuietKeep DEF InterfaceInv

\* The oldest frame is given to the stack while the queue still holds it.
LEMMA GiveFrameKeeps ==
    ASSUME InterfaceInv, Interface!GiveFrame, scenario' = scenario PROVE InterfaceInv'
<1> DEFINE s == Interface!Contents(rxQueue)
           f == Interface!peek(rxQueue)
           g == frames.given
           a == frames.read
           more == Append(frames.given, Interface!peek(rxQueue))
           last == IF receiving.at = "push" THEN <<receiving.frame>> ELSE <<>>
<1>1. /\ updating.at = "receive" /\ ~Interface!Empty(rxQueue) /\ updating' = [updating EXCEPT !.at = "given"]
      /\ frames' = [frames EXCEPT !.given = more]
      /\ UNCHANGED <<left, lock, control, receiving, txQueue, rxQueue, sending>>
  BY DEF Interface!GiveFrame, Interface!Turns
<1>2. s # <<>> /\ Head(s) = f /\ s \in Seq(FrameSet) /\ g \in Seq(FrameSet) /\ a \in Seq(FrameSet)
  BY <1>1, Data, RingPopped
<1>3. last \in Seq(FrameSet)
  BY Shapes
<1>4. f \in FrameSet /\ more \in Seq(FrameSet) /\ more = g \o <<f>>
  <2>1. more = Append(g, f)
    OBVIOUS
  <2> HIDE DEF s, f, g, more
  <2>2. f \in FrameSet
    BY <1>2
  <2> QED
    BY <1>2, <2>1, <2>2, SMTT(40)
<1>5. g \o s \o last = a
  BY <1>1 DEF InterfaceInv, ReceivedOK, Interface!ReceivedInOrder
<1>6. more \o Tail(s) \o last = a
  <2> HIDE DEF s, f, g, a, more, last
  <2> DEFINE r == Tail(s)
  <2>1. r \in Seq(FrameSet) /\ s = <<f>> \o r
    BY <1>2
  <2> HIDE DEF r
  <2>2. (g \o <<f>>) \o r = g \o (<<f>> \o r)
    BY <1>2, <1>4, <2>1
  <2> QED
    BY <1>4, <1>5, <2>1, <2>2 DEF r
<1> HIDE DEF more
<1>7. InterfaceTypeOK'
  BY <1>1, <1>4 DEF InterfaceInv, InterfaceTypeOK, Places
<1>8. LockOK'
  BY <1>1, Shapes DEF InterfaceInv, LockOK
<1>9. /\ frames'.given = more /\ frames'.read = a /\ updating'.at = "given"
      /\ frames'.written = frames.written /\ frames'.accepted = frames.accepted
      /\ Interface!Contents(rxQueue)' = s
  BY <1>1, Data, Shapes DEF Histories, Interface!Contents
<1>10. ReceivedOK'
  <2>1. Interface!ReceivedInOrder'
    BY <1>1, <1>6, <1>9 DEF Interface!ReceivedInOrder
  <2> QED
    BY <1>1, <2>1 DEF InterfaceInv, ReceivedOK, Interface!Empty, Interface!is_full
<1>11. SendingQuiet /\ WritersQuiet
  BY <1>1, <1>9 DEF SendingQuiet, WritersQuiet
<1> QED
  BY <1>7, <1>8, <1>10, <1>11, SendingQuietKeeps, WritersQuietKeep DEF InterfaceInv

\* It is then taken from the queue.
LEMMA PopGivenKeeps ==
    ASSUME InterfaceInv, Interface!PopGiven, scenario' = scenario PROVE InterfaceInv'
<1>1. /\ updating.at = "given" /\ rxQueue' = Interface!pop(rxQueue)
      /\ updating' = [at |-> "receive", handled |-> updating.handled + 1]
      /\ UNCHANGED <<left, lock, control, receiving, txQueue, sending, frames>>
  BY DEF Interface!PopGiven
<1>2. ~Interface!Empty(rxQueue)
  BY <1>1 DEF InterfaceInv, ReceivedOK
<1>3. /\ rxQueue' \in Queues /\ Interface!Contents(rxQueue') = Tail(Interface!Contents(rxQueue)) /\ ~Interface!is_full(rxQueue')
  BY <1>1, <1>2, RingPopped, Data
<1>4. updating.handled + 1 \in Nat
  BY Shapes
<1>5. InterfaceTypeOK'
  BY <1>1, <1>3, <1>4 DEF InterfaceInv, InterfaceTypeOK, Places
<1>6. LockOK'
  BY <1>1, Shapes DEF InterfaceInv, LockOK
<1>7. ReceivedOK'
  <2>1. Interface!ReceivedInOrder'
    BY <1>1, <1>3 DEF InterfaceInv, ReceivedOK, Interface!ReceivedInOrder
  <2> QED
    BY <1>1, <1>3, <2>1 DEF ReceivedOK
<1>8. SendingQuiet /\ WritersQuiet
  BY <1>1 DEF SendingQuiet, WritersQuiet
<1> QED
  BY <1>5, <1>6, <1>7, <1>8, SendingQuietKeeps, WritersQuietKeep DEF InterfaceInv

\* The oldest frame is written to the driver while the queue still holds it.
LEMMA WriteFrameKeeps ==
    ASSUME InterfaceInv, Interface!WriteFrame, scenario' = scenario PROVE InterfaceInv'
<1> DEFINE s == Interface!Contents(txQueue)
           f == Interface!peek(txQueue)
           g == frames.written
           a == frames.accepted
           more == Append(frames.written, Interface!peek(txQueue))
<1>1. /\ updating.at = "transmit" /\ ~Interface!Empty(txQueue) /\ updating' = [updating EXCEPT !.at = "written"]
      /\ frames' = [frames EXCEPT !.written = more]
      /\ UNCHANGED <<left, lock, control, receiving, txQueue, rxQueue, sending>>
  BY DEF Interface!WriteFrame, Interface!Turns, Interface!CanWrite
<1>2. s # <<>> /\ Head(s) = f /\ s \in Seq(FrameSet) /\ g \in Seq(FrameSet) /\ a \in Seq(FrameSet)
  BY <1>1, Data, RingPopped
<1>3. f \in FrameSet /\ more \in Seq(FrameSet) /\ more = g \o <<f>>
  <2>1. more = Append(g, f)
    OBVIOUS
  <2> HIDE DEF s, f, g, more
  <2>2. f \in FrameSet
    BY <1>2
  <2> QED
    BY <1>2, <2>1, <2>2, SMTT(40)
<1>4. OneSends => g \o s = a
  BY <1>1 DEF InterfaceInv, WrittenOK, Interface!TransmittedInOrder
<1>5. OneSends => more \o Tail(s) = a
  <2> HIDE DEF s, f, g, a, more
  <2> DEFINE r == Tail(s)
  <2>1. r \in Seq(FrameSet) /\ s = <<f>> \o r
    BY <1>2
  <2> HIDE DEF r
  <2>2. (g \o <<f>>) \o r = g \o (<<f>> \o r)
    BY <1>2, <1>3, <2>1
  <2> QED
    BY <1>3, <1>4, <2>1, <2>2 DEF r
<1> HIDE DEF more
<1>6. InterfaceTypeOK'
  BY <1>1, <1>3 DEF InterfaceInv, InterfaceTypeOK, Places
<1>7. LockOK'
  BY <1>1, Shapes DEF InterfaceInv, LockOK
<1>8. /\ frames'.written = more /\ frames'.accepted = a /\ updating'.at = "written"
      /\ frames'.given = frames.given /\ frames'.read = frames.read
      /\ Interface!Contents(txQueue)' = s
  BY <1>1, Data, Shapes DEF Histories, Interface!Contents
<1>9. WrittenOK'
  <2> SUFFICES ASSUME OneSends PROVE WrittenOK'
    BY DEF WrittenOK, OneSends
  <2>1. Interface!TransmittedInOrder'
    BY <1>1, <1>5, <1>8 DEF Interface!TransmittedInOrder
  <2> QED
    BY <1>1, <2>1 DEF WrittenOK, Interface!Empty
<1>10. ReceivingQuiet /\ WritersQuiet
  BY <1>1, <1>8 DEF ReceivingQuiet, WritersQuiet
<1> QED
  BY <1>6, <1>7, <1>9, <1>10, ReceivingQuietKeeps, WritersQuietKeep DEF InterfaceInv

\* It is then taken from the queue.
LEMMA PopWrittenKeeps ==
    ASSUME InterfaceInv, Interface!PopWritten, scenario' = scenario PROVE InterfaceInv'
<1>1. /\ updating.at = "written" /\ txQueue' = Interface!pop(txQueue)
      /\ updating' = [at |-> "transmit", handled |-> updating.handled + 1]
      /\ UNCHANGED <<left, lock, control, receiving, rxQueue, sending, frames>>
  BY DEF Interface!PopWritten
<1>2. OneSends => ~Interface!Empty(txQueue)
  BY <1>1 DEF InterfaceInv, WrittenOK
<1>3. /\ txQueue' \in Queues
      /\ OneSends => /\ Interface!Contents(txQueue') = Tail(Interface!Contents(txQueue))
                     /\ txQueue'.write = txQueue.write /\ ~Interface!is_full(txQueue')
  <2>1. txQueue \in Queues /\ txQueue.write \in Indices /\ Interface!NoFrame \in FrameSet
    BY Data DEF Queues, Interface!NoFrame, FrameSet
  <2>2. txQueue' \in Queues
    BY <1>1, <2>1, RingTyped
  <2> QED
    BY <1>1, <1>2, <2>1, <2>2, RingPopped
<1>4. updating.handled + 1 \in Nat
  BY Shapes
<1>5. InterfaceTypeOK'
  BY <1>1, <1>3, <1>4 DEF InterfaceInv, InterfaceTypeOK, Places
<1>6. LockOK'
  BY <1>1, Shapes DEF InterfaceInv, LockOK
<1>7. WrittenOK'
  <2> SUFFICES ASSUME OneSends PROVE WrittenOK'
    BY DEF WrittenOK, OneSends
  <2>1. Interface!TransmittedInOrder'
    BY <1>1, <1>3 DEF InterfaceInv, WrittenOK, Interface!TransmittedInOrder
  <2> QED
    BY <1>1, <2>1 DEF WrittenOK
<1>8. WriterOK' /\ CallsOK'
  <2>1. WriterOK'
    BY <1>1, <1>3 DEF InterfaceInv, WriterOK, OneSends
  <2>2. CallsOK'
    <3>1. \A t \in Interface!Writers : sending[t].at # "idle" => t # "update"
      BY <1>1 DEF InterfaceInv, CallsOK
    <3> QED
      BY <1>1, <3>1 DEF InterfaceInv, CallsOK
  <2> QED
    BY <2>1, <2>2
<1>9. ReceivingQuiet
  BY <1>1 DEF ReceivingQuiet
<1> QED
  BY <1>5, <1>6, <1>7, <1>8, <1>9, ReceivingQuietKeeps DEF InterfaceInv

\* Every step of the interface keeps the invariant.
LEMMA InterfaceKept ==
    ASSUME InterfaceInv, Interface!InterfaceNext, scenario' = scenario PROVE InterfaceInv'
<1>1. CASE Interface!start \/ Interface!start_threads \/ Interface!StartChannel \/ Interface!stop \/ Interface!stop_threads \/ Interface!StopChannel
             \/ Interface!assign_can_channel_frame_handler \/ Interface!unassign_can_channel_frame_handler
  BY <1>1, ControlKeeps
<1>2. CASE Interface!ReceiveEnds \/ Interface!UpdateThreadStarts \/ Interface!update_thread_function \/ Interface!update \/ Interface!StageTwo
             \/ Interface!StageThree \/ Interface!UpdateEnds \/ Interface!DriverBreaks
  BY <1>2, PassKeeps
<1>3. CASE Interface!ClearQueues
  BY <1>3, ClearQueuesKeeps
<1>4. ASSUME NEW t \in Interface!Writers, Interface!transmit_can_frame(t) \/ Interface!PushLoads(t) \/ Interface!PushStores(t)
      PROVE  InterfaceInv'
  BY <1>4, TransmitKeeps, PushStoresKeeps
<1>5. CASE Interface!receive_can_frame \/ Interface!PushReceived
  BY <1>5, TakesKeeps, PushReceivedKeeps
<1>6. CASE Interface!GiveFrame \/ Interface!PopGiven \/ Interface!WriteFrame \/ Interface!PopWritten
  BY <1>6, GiveFrameKeeps, PopGivenKeeps, WriteFrameKeeps, PopWrittenKeeps
<1> QED
  BY <1>1, <1>2, <1>3, <1>4, <1>5, <1>6 DEF Interface!InterfaceNext, Interface!InterfaceWork

\* What is to come.
Planned(plan) ==
    /\ {"calls", "sends", "arrive", "breaks", "refuses"} \subseteq DOMAIN plan
    /\ plan.sends \in [Interface!Writers -> Seq(FrameSet)] /\ plan.arrive \in Seq(FrameSet)

\* It holds at the start.
LEMMA InterfaceStart ==
    ASSUME Interface!InterfaceInit, Planned(scenario.hardware) PROVE InterfaceInv
<1>1. Interface!EmptyQueue \in Queues /\ Interface!Contents(Interface!EmptyQueue) = <<>> /\ ~(Interface!EmptyQueue # Interface!EmptyQueue)
  <2>1. 0 \in Indices /\ Interface!NoFrame \in FrameSet
    BY CapacityAssumption DEF Indices, Interface!NoFrame, FrameSet
  <2>2. Interface!EmptyQueue \in Queues /\ Interface!EmptyQueue.read = 0 /\ Interface!EmptyQueue.write = 0
    BY <2>1 DEF Interface!EmptyQueue, Queues, Indices
  <2>3. Interface!Contents(Interface!EmptyQueue) \in Seq(FrameSet) /\ Len(Interface!Contents(Interface!EmptyQueue)) = 0
    BY <2>2, RingSeq, RingFields DEF Interface!Empty
  <2>4. Interface!Contents(Interface!EmptyQueue) = <<>>
    BY <2>3
  <2> QED
    BY <2>2, <2>4
<1>2. 0 \in Indices /\ Interface!NoFrame \in FrameSet
  BY CapacityAssumption DEF Indices, Interface!NoFrame, FrameSet
<1>3. /\ left = scenario.hardware /\ lock = "free" /\ control = "idle"
      /\ updating = [at |-> "none", handled |-> 0]
      /\ receiving = [at |-> "none", frame |-> Interface!NoFrame]
      /\ txQueue = Interface!EmptyQueue /\ rxQueue = Interface!EmptyQueue
      /\ sending = [t \in Interface!Writers |-> [at |-> "idle", index |-> 0]]
      /\ frames = [accepted |-> <<>>, written |-> <<>>, read |-> <<>>, given |-> <<>>]
  BY DEF Interface!InterfaceInit
<1>4. frames \in Histories
  BY <1>3 DEF Histories
<1>5. InterfaceTypeOK
  BY <1>1, <1>2, <1>3, <1>4 DEF InterfaceTypeOK, Planned, Places, Histories
<1>6. LockOK
  BY <1>3 DEF LockOK
<1>7. Interface!Contents(txQueue) = <<>> /\ Interface!Contents(rxQueue) = <<>>
  BY <1>1, <1>3
<1>8. ReceivedOK /\ WrittenOK
  BY <1>3, <1>7 DEF ReceivedOK, WrittenOK, Interface!ReceivedInOrder, Interface!TransmittedInOrder
<1>9. WriterOK /\ CallsOK
  BY <1>3 DEF WriterOK, CallsOK, OneSends
<1> QED
  BY <1>5, <1>6, <1>8, <1>9 DEF InterfaceInv

--------------------------------------------------------------------------------
\* The interface beside the protocols.

\* The interface's invariant in the initial states of the whole.
LEMMA AllStart ==
    ASSUME AllInit PROVE InterfaceInv
<1>1. Interface!InterfaceInit /\ scenario \in Scenarios
  BY DEF AllInit, Init
<1>2. Planned(scenario.hardware)
  BY <1>1, HardwareAssumption DEF Planned, FrameSet, Interface!Writers
<1> QED
  BY <1>1, <1>2, InterfaceStart

\* No step of a protocol touches the interface, and no step changes the scenario.
LEMMA AllKept ==
    ASSUME InterfaceInv, [AllNext]_allVars PROVE InterfaceInv'
<1>1. CASE InterfaceStep
  <2>1. Interface!InterfaceNext /\ scenario' = scenario
    BY <1>1 DEF InterfaceStep, vars
  <2> QED
    BY <2>1, InterfaceKept
<1>2. CASE UNCHANGED <<scenario, interfaceVars>>
  <2>1. UNCHANGED <<scenario, left, lock, control, updating, receiving, txQueue, rxQueue, sending, frames>>
    BY <1>2 DEF interfaceVars
  <2>2. Still /\ LockOK'
    BY <2>1, Shapes DEF Still, LockOK
  <2> QED
    BY <2>1, <2>2, StillKeeps
<1>3. CASE TpStep \/ EtpStep \/ FpStep \/ UNCHANGED allVars
  <2>1. scenario' = scenario
    <3>1. CASE TpStep
      BY <3>1 DEF TpStep, Next
    <3>2. CASE EtpStep \/ FpStep
      BY <3>2, OthersKeep
    <3>3. CASE UNCHANGED allVars
      BY <3>3 DEF allVars, vars
    <3> QED
      BY <1>3, <3>1, <3>2, <3>3
  <2>2. UNCHANGED interfaceVars
    BY <1>3 DEF TpStep, EtpStep, FpStep, allVars
  <2> QED
    BY <1>2, <2>1, <2>2
<1> QED
  BY <1>1, <1>3 DEF AllNext

\* Frames received and sent are handed on once and in order (InterfaceInv keeps it).
THEOREM FramesInOrder == AllSpec => []FramesHandedOn
<1>1. AllInit => InterfaceInv
  BY AllStart
<1>2. InterfaceInv /\ [AllNext]_allVars => InterfaceInv'
  BY AllKept
<1>3. InterfaceInv => FramesHandedOn
  BY DEF InterfaceInv, ReceivedOK, WrittenOK, FramesHandedOn
<1> QED
  BY <1>1, <1>2, <1>3, PTL DEF AllSpec
================================================================================
