---------------------------- MODULE AddressClaim ----------------------------
(***************************************************************************)
(* Address claiming: can_internal_control_function.cpp, and the table of   *)
(* control functions that can_network_manager.cpp keeps.  Every node runs  *)
(* this code with one internal control function, and may look for one      *)
(* partner.  A node is named by its NAME, a number: the lower one wins.    *)
(*                                                                         *)
(* The thread of the CAN hardware works in two stages.  A frame that       *)
(* arrives changes the table at once (update_control_functions) and is     *)
(* queued; the periodic update later works off the queue and serves the    *)
(* claim state machine.  MaxBatch bounds the frames between two updates.   *)
(*                                                                         *)
(* The bus (external) delivers every frame to every node that is powered,  *)
(* in one order.  The 250 ms of contention and the 755 ms before a silent  *)
(* control function is dropped are over when nobody has anything to do.    *)
(***************************************************************************)
EXTENDS Integers, Sequences, SequencesExt, FiniteSets

CONSTANTS
    Nodes,          \* NAMEs, positive numbers
    Addresses,      \* the addresses in play
    ArbitraryRange, \* those an arbitrary claim may take
    Preferred,      \* [Nodes -> Addresses \cup {NULL}]
    Arbitrary,      \* nodes whose NAME is arbitrary address capable
    Filter,         \* [Nodes -> the NAMEs its partner filter matches]
    MaxBatch,       \* frames between two updates
    Scenarios       \* who is on the bus, who will create a partner, and
                    \* how often in all a driver refuses frames, power is
                    \* switched, an application sends, a tool commands

NULL == 254         \* NULL_CAN_ADDRESS

(* Objects of a manager: its own control function has the node's NAME for  *)
(* identity, an external one its NAME, the partner 0.                      *)
PARTNER == 0
NONE == -1

ASSUME NamesAssumption == Nodes \subseteq Nat \ {0}
ASSUME AddressAssumption ==
    /\ Addresses \subseteq 0..253 /\ ArbitraryRange \subseteq Addresses
    /\ \A n \in Nodes : /\ Preferred[n] \in Addresses \cup {NULL}
                        /\ Preferred[n] = NULL => n \in Arbitrary
                        /\ Filter[n] \subseteq Nodes \ {n}
ASSUME BoundsAssumption ==
    /\ MaxBatch \in Nat \ {0}
    /\ Scenarios \subseteq [nodes : SUBSET Nodes, partner : SUBSET Nodes, fail : Nat,
                             power : Nat, talk : Nat, command : Nat]

VARIABLES
    nm,         \* [Nodes -> the manager and its internal control function]
    inbox,      \* [Nodes -> frames on their way]
    up,         \* the nodes that are powered
    left        \* what is left of the scenario

vars == <<nm, inbox, up, left>>

Objects == Nodes \cup {PARTNER}

(* The slot NULL is past the end of the port's row of 254: it is the first *)
(* slot of the next port, that no loop and no lookup of this port reads.   *)
Slots == Addresses \cup {NULL}

NewCF(name, address) == [name |-> name, address |-> address, claimed |-> FALSE]

Started(n) ==
    [state |-> "None", preferred |-> Preferred[n],
     cf |-> [o \in Objects |-> NewCF(o, NULL)],
     table |-> [a \in Slots |-> NONE],
     inactive |-> <<>>, asked |-> FALSE, partner |-> "none", queue |-> <<>>]

-----------------------------------------------------------------------------
(* Frames.  A request comes from the address NULL; a commanded address is  *)
(* a broadcast transport message with the NAME it is meant for.            *)

Claim(n, a) == [kind |-> "CLAIM", name |-> n, address |-> a]
Request == [kind |-> "REQUEST", name |-> NONE, address |-> NULL]
Data(n, a) == [kind |-> "DATA", name |-> n, address |-> a]
Command(n, a) == [kind |-> "COMMAND", name |-> n, address |-> a]

-----------------------------------------------------------------------------
(* Lookups.                                                                *)

Lowest(S) == CHOOSE x \in S : \A y \in S : x <= y

(* The element of a singleton.  Steps that follow one another are written  *)
(* The({G(t) : t \in {F(s)}}), and TLC evaluates each of them once.        *)
The(S) == CHOOSE x \in S : TRUE

get_control_function(s, a) == IF a \in Addresses THEN s.table[a] ELSE NONE

(* The first object of a set in the table, then in the inactive list.      *)
InTable(s, P) ==
    LET at == {a \in Addresses : s.table[a] \in P}
    IN  IF at = {} THEN NONE ELSE s.table[Lowest(at)]

InInactive(s, P) ==
    LET i == SelectInSeq(s.inactive, LAMBDA o : o \in P)
    IN  IF i = 0 THEN NONE ELSE s.inactive[i]

-----------------------------------------------------------------------------
(* Stage 1: update_control_functions, for the claim f.                     *)

Known(s, name) ==
    LET named == {o \in Objects : s.cf[o].name = name}
    IN  IF InTable(s, named) # NONE THEN InTable(s, named)
                                    ELSE InInactive(s, named)

(* The object that claims.  A partner that has no NAME yet takes the first *)
(* one that matches.                                                       *)
Found(n, s, f) ==
    IF /\ Known(s, f.name) = NONE
       /\ s.partner # "none" /\ s.cf[PARTNER].name = 0 /\ f.name \in Filter[n]
    THEN [s |-> [s EXCEPT !.cf[PARTNER].name = f.name, !.table[f.address] = PARTNER],
          found |-> PARTNER]
    ELSE [s |-> s, found |-> Known(s, f.name)]

Complete(s) == s.state = "AddressClaimingComplete"

(* Mutant: the NAMEs are not compared.                                     *)
won_contention_Always(n, s, f) == Complete(s)

(* The lower NAME keeps the address.                                       *)
won_contention(n, s, f) == Complete(s) /\ f.name > n

(* Mutant: whoever has the claimed address gives up, but keeps it.         *)
Contended_Kept(n, s, f, found) ==
    IF s.cf[n].address = f.address THEN [s EXCEPT !.state = "UnableToClaim"] ELSE s

(* Everyone else at the claimed address loses it, but for an internal      *)
(* control function that wins the contention.  (An object has one slot.)   *)
Contended(n, s, f, found) ==
    LET rivals == {o \in Objects \ {found} : /\ s.cf[o].address = f.address
                                             /\ \E a \in Addresses : s.table[a] = o}
        ours == n \in rivals /\ Complete(s)
        won == n \in rivals /\ won_contention(n, s, f)
        losers == (IF won THEN rivals \ {n} ELSE rivals)
                    \cup {o \in Range(s.inactive) \ {found} :
                            s.cf[o].address = f.address}
    IN  [s EXCEPT !.state = IF won THEN "SendReclaimAddressOnRequest"
                            ELSE IF ours THEN "WaitForRequestContentionPeriod"
                            ELSE @,
                  !.cf = [o \in Objects |-> IF o \in losers
                                            THEN [@[o] EXCEPT !.address = NULL]
                                            ELSE @[o]]]

(* The object of the claiming NAME is created, moved or given its address. *)
Placed(s, f, found) ==
    LET a == f.address
        old == s.cf[found].address
    IN  IF found = NONE
          THEN [s EXCEPT !.cf[f.name] = NewCF(f.name, a),
                         !.table[a] = IF a = NULL THEN @ ELSE f.name]
        ELSE IF old = a \/ a = NULL THEN s
        ELSE IF old # NULL
          THEN [s EXCEPT !.table = [@ EXCEPT ![a] = found, ![old] = NONE],
                         !.cf[found].address = a]
        ELSE [s EXCEPT !.cf[found].address = a]

update_control_functions(n, s, f) ==
    The({Placed(d.s, f, d.found) :
            d \in {[s |-> Contended(n, c.s, f, c.found), found |-> c.found] :
                    c \in {Found(n, s, f)}}})

-----------------------------------------------------------------------------
(* Stage 2: the messages of the queue.                                     *)

(* Mutant: a control function that answers is not marked.                  *)
TableClaim_NoMark(s, a) == s

(* Whoever lost the slot's address becomes inactive; the one in the slot   *)
(* is marked, or an inactive one that claimed the address is put there.    *)
TableClaim(s, a) ==
    LET there == s.table[a]
        stolen == there # NONE /\ s.cf[there].address = NULL
        e == IF stolen THEN [s EXCEPT !.inactive = Append(@, there),
                                      !.table[a] = NONE] ELSE s
        back == InInactive(e, {o \in Objects : e.cf[o].address = a})
    IN  IF e.table[a] # NONE THEN [e EXCEPT !.cf[there].claimed = TRUE]
                             ELSE [e EXCEPT !.table[a] = back]

(* The flag of the first inactive one is set, those in the table cleared.  *)
TableRequest(s) ==
    LET listed == {o \in Objects : \E a \in Addresses : s.table[a] = o}
        first == IF s.inactive = <<>> THEN {} ELSE {Head(s.inactive)}
    IN  [s EXCEPT !.asked = TRUE,
                  !.cf = [o \in Objects |->
                            [@[o] EXCEPT !.claimed =
                                o \notin listed /\ (o \in first \/ s.cf[o].claimed)]]]

update_address_table(s, f) ==
    CASE f.kind = "CLAIM"   -> TableClaim(s, f.address)
      [] f.kind = "REQUEST" -> TableRequest(s)
      [] OTHER              -> s

address_violation(n, s, f) ==
    IF /\ f.kind # "COMMAND"
       /\ f.address # NULL /\ s.cf[n].address = f.address /\ Complete(s)
    THEN [s EXCEPT !.state = "SendReclaimAddressOnRequest"] ELSE s

process_commanded_address(n, s, a) ==
    LET there == get_control_function(s, a)
        next == IF there = NONE THEN "SendPreferredAddressClaim"
                ELSE IF s.cf[there].name < n THEN "SendArbitraryAddressClaim"
                ELSE s.state
    IN  IF Complete(s) /\ n \in Arbitrary
        THEN [s EXCEPT !.preferred = a, !.state = next] ELSE s

process_rx_message_for_address_claiming(n, s, f) ==
    CASE f.kind = "REQUEST" /\ Complete(s) ->
            [s EXCEPT !.state = "SendReclaimAddressOnRequest"]
      [] f.kind = "COMMAND" /\ f.name = n ->
            process_commanded_address(n, s, f.address)
      [] OTHER -> s

process_rx_messages(n, s) ==
    LET Process(t, f) ==
            The({process_rx_message_for_address_claiming(n, v, f) :
                    v \in {address_violation(n, u, f) :
                            u \in {update_address_table(w, f) : w \in {t}}}})
    IN  [FoldLeft(Process, s, s.queue) EXCEPT !.queue = <<>>]

(* A new partner takes the place of the external control function that     *)
(* matches its filter, if there is one.                                    *)
update_new_partners(n, s) ==
    LET externals == {o \in Nodes \ {n} : o \in Filter[n]}
        idle == InInactive(s, externals)
        match == InTable(s, externals)
        a == s.cf[match].address
        t == [s EXCEPT !.partner = "initialized",
                       !.inactive = RemoveFirst(@, idle)]
    IN  IF s.partner # "new" THEN s
        ELSE IF match = NONE THEN t
        ELSE [t EXCEPT !.cf[PARTNER] = [@ EXCEPT !.name = match, !.address = a],
                       !.table[a] = PARTNER]

-----------------------------------------------------------------------------
(* The claim state machine: the frames a state tries to send, and the      *)
(* manager after them, if the driver takes them and if it refuses (all the *)
(* frames that the handler then tries: the arbitrary addresses in turn and *)
(* the claim of no address at the end).                                    *)

Attempt(frames, done, else) == [frames |-> frames, done |-> done, else |-> else]

To(s, state) == [s EXCEPT !.state = state]

(* update_internal_cfs after a claim of address a.                         *)
Claimed(n, s, a, preferred) ==
    LET own == {b \in Addresses : s.table[b] = n}
        t == IF own = {} THEN s.table ELSE [s.table EXCEPT ![Lowest(own)] = NONE]
        evicted == t[a]
    IN  [s EXCEPT !.state = "AddressClaimingComplete", !.preferred = preferred,
                  !.cf = [o \in Objects |->
                            IF o = n THEN [@[o] EXCEPT !.address = a]
                            ELSE IF o = evicted THEN [@[o] EXCEPT !.address = NULL]
                            ELSE @[o]],
                  !.table = [t EXCEPT ![a] = n]]

Free(s) == {a \in ArbitraryRange : s.table[a] = NONE}

(* Mutant: the claim of no address is sent from the global address.        *)
GiveUp_Global(n, s) ==
    Attempt(<<Claim(n, 255)>>,
            [To(s, "UnableToClaim") EXCEPT !.cf[n].address = 255],
            To(s, "UnableToClaim"))

(* send_cannot_claim_source_address.                                       *)
GiveUp(n, s) ==
    Attempt(<<Claim(n, NULL)>>,
            [To(s, "UnableToClaim") EXCEPT !.cf[n].address = NULL],
            To(s, "UnableToClaim"))

update_address_claiming(n, s) ==
    LET own == s.cf[n].address
        arbitrary == Lowest(Free(s))
    IN  CASE s.state = "None" -> Attempt(<<>>, To(s, "WaitForClaim"), s)
          [] s.state = "SendRequestForClaim" ->
                Attempt(<<Request>>, To(s, "WaitForRequestContentionPeriod"), s)
          [] s.state \in {"SendPreferredAddressClaim", "ContendForPreferredAddress"} ->
                Attempt(<<Claim(n, s.preferred)>>,
                        Claimed(n, s, s.preferred, s.preferred), To(s, "None"))
          [] s.state = "SendReclaimAddressOnRequest" ->
                Attempt(<<Claim(n, own)>>, Claimed(n, s, own, s.preferred), s)
          [] s.state = "SendArbitraryAddressClaim" /\ Free(s) # {} ->
                Attempt(<<Claim(n, arbitrary)>>,
                        Claimed(n, s, arbitrary,
                                IF s.preferred = NULL THEN arbitrary ELSE s.preferred),
                        To(s, "UnableToClaim"))
          [] s.state = "SendArbitraryAddressClaim" /\ Free(s) = {} -> GiveUp(n, s)
          [] OTHER -> Attempt(<<>>, s, s)

(* The end of the contention period: where to claim.                       *)
Choose(n, s) ==
    LET there == get_control_function(s, s.preferred)
    IN  IF there = NONE /\ s.preferred # NULL
          THEN Attempt(<<>>, To(s, "SendPreferredAddressClaim"), s)
        ELSE IF there # NONE /\ s.cf[there].name > n
          THEN Attempt(<<>>, To(s, "ContendForPreferredAddress"), s)
        ELSE IF n \in Arbitrary
          THEN Attempt(<<>>, To(s, "SendArbitraryAddressClaim"), s)
        ELSE GiveUp(n, s)

(* The addresses of a set in the order of the row.                         *)
Ascending(S) == CHOOSE q \in [1..Cardinality(S) -> S] :
                    \A i, j \in DOMAIN q : i < j => q[i] < q[j]

prune_inactive_control_functions(n, s) ==
    LET stale == {a \in Addresses : /\ s.table[a] \notin {NONE, n}
                                    /\ ~s.cf[s.table[a]].claimed}
        gone == {s.table[a] : a \in stale}
        order == Ascending(stale)
    IN  [s EXCEPT !.asked = FALSE,
                  !.table = [a \in Slots |-> IF a \in stale THEN NONE ELSE @[a]],
                  !.cf = [o \in Objects |-> IF o \in gone
                                            THEN [@[o] EXCEPT !.address = NULL]
                                            ELSE @[o]],
                  !.inactive = @ \o [i \in DOMAIN order |-> s.table[order[i]]]]

-----------------------------------------------------------------------------
(* Actions.                                                                *)

Init ==
    /\ nm = [n \in Nodes |-> Started(n)]
    /\ inbox = [n \in Nodes |-> <<>>]
    /\ \E c \in Scenarios :
          /\ up = c.nodes
          /\ left = c

(* The sender receives its own requests too: the frame it transmitted is   *)
(* put into its queue of received messages.                                *)
Broadcast(n, frames) ==
    [m \in Nodes |->
        IF m \in up /\ (m # n \/ frames = <<Request>>) THEN inbox[m] \o frames
                                                      ELSE inbox[m]]

Send(n, r, ok) ==
    /\ ok \/ (r.frames # <<>> /\ left.fail > 0)
    /\ nm' = [nm EXCEPT ![n] = IF ok THEN r.done ELSE r.else]
    /\ inbox' = IF ok THEN Broadcast(n, r.frames) ELSE inbox
    /\ left' = IF ok THEN left ELSE [left EXCEPT !.fail = @ - 1]
    /\ UNCHANGED up

Receive(n) ==
    /\ inbox[n] # <<>> /\ Len(nm[n].queue) < MaxBatch
    /\ \E f \in {Head(inbox[n])} : \E s \in {[nm[n] EXCEPT !.queue = Append(@, f)]} :
           nm' = [nm EXCEPT ![n] = IF f.kind = "CLAIM"
                                   THEN update_control_functions(n, s, f) ELSE s]
    /\ inbox' = [inbox EXCEPT ![n] = Tail(@)]
    /\ UNCHANGED <<up, left>>

Waiting == {"WaitForClaim", "WaitForRequestContentionPeriod",
            "AddressClaimingComplete", "UnableToClaim"}

HasWork(n) == n \in up /\ \/ nm[n].queue # <<>> \/ nm[n].partner = "new"
                          \/ nm[n].state \notin Waiting

(* Every request was answered and every answer received: 250 ms are over.  *)
(* Other nodes may be about to claim, theirs being over too.               *)
Answered == \A n \in Nodes : /\ inbox[n] = <<>> /\ nm[n].queue = <<>>
                             /\ nm[n].state # "SendReclaimAddressOnRequest"

Quiet == \A n \in Nodes : inbox[n] = <<>> /\ ~HasWork(n)

Update(n) ==
    /\ HasWork(n)
    /\ \E p \in {update_new_partners(n, nm[n])} :
       \E s \in {process_rx_messages(n, p)} :
       \E r \in {update_address_claiming(n, s)}, ok \in BOOLEAN : Send(n, r, ok)

DelayOver(n) ==
    /\ n \in up /\ nm[n].state = "WaitForClaim"
    /\ nm' = [nm EXCEPT ![n].state = "SendRequestForClaim"]
    /\ UNCHANGED <<inbox, up, left>>

ContentionOver(n) ==
    /\ Answered /\ n \in up
    /\ nm[n].state = "WaitForRequestContentionPeriod"
    /\ \E p \in {update_new_partners(n, nm[n])} :
       \E r \in {Choose(n, p)}, ok \in BOOLEAN : Send(n, r, ok)

PruneDue(n) ==
    /\ Quiet /\ nm[n].asked
    /\ \A m \in up : nm[m].state # "WaitForRequestContentionPeriod"
    /\ nm' = [nm EXCEPT ![n] = prune_inactive_control_functions(n, @)]
    /\ UNCHANGED <<inbox, up, left>>

(* create_partnered_control_function adds the partner to the list and, the *)
(* lock taken anew, initializes it, if an update was not faster.           *)
CreatePartner(n) ==
    /\ n \in up \cap left.partner
    /\ nm' = [nm EXCEPT ![n].partner = "new"]
    /\ left' = [left EXCEPT !.partner = @ \ {n}]
    /\ UNCHANGED <<inbox, up>>

InitializePartner(n) ==
    /\ nm[n].partner = "new"
    /\ nm' = [nm EXCEPT ![n] = update_new_partners(n, @)]
    /\ UNCHANGED <<inbox, up, left>>

(* The application sends a message from its address.                       *)
Talk(n) ==
    /\ n \in up /\ nm[n].cf[n].address # NULL /\ left.talk > 0
    /\ inbox' = Broadcast(n, <<Data(n, nm[n].cf[n].address)>>)
    /\ left' = [left EXCEPT !.talk = @ - 1]
    /\ UNCHANGED <<nm, up>>

(* A service tool commands an address.                                     *)
CommandAddress(n, a) ==
    /\ n \in left.nodes /\ left.command > 0
    /\ inbox' = [m \in Nodes |-> IF m \in up THEN Append(inbox[m], Command(n, a))
                                              ELSE inbox[m]]
    /\ left' = [left EXCEPT !.command = @ - 1]
    /\ UNCHANGED <<nm, up>>

PowerOff(n) ==
    /\ n \in up /\ left.power > 0
    /\ up' = up \ {n}
    /\ nm' = [nm EXCEPT ![n] = Started(n)]
    /\ inbox' = [inbox EXCEPT ![n] = <<>>]
    /\ left' = [left EXCEPT !.power = @ - 1]

PowerOn(n) ==
    /\ n \in left.nodes \ up /\ left.power > 0
    /\ up' = up \cup {n}
    /\ left' = [left EXCEPT !.power = @ - 1]
    /\ UNCHANGED <<nm, inbox>>

Stack(n) == Receive(n) \/ Update(n) \/ DelayOver(n) \/ ContentionOver(n) \/ PruneDue(n)

Next == \E n \in Nodes : \/ Stack(n) \/ CreatePartner(n) \/ InitializePartner(n) \/ Talk(n)
                         \/ \E a \in Addresses : CommandAddress(n, a)
                         \/ PowerOff(n) \/ PowerOn(n)

Spec == Init /\ [][Next]_vars

FairSpec == Spec /\ \A n \in Nodes : WF_vars(Stack(n))

-----------------------------------------------------------------------------
(* Properties.                                                             *)

Address(n) == IF n \in up THEN nm[n].cf[n].address ELSE NULL

(* Nothing is on its way or to be done, and everyone has claimed or given  *)
(* up.                                                                     *)
AtRest == Quiet /\ \A n \in up : Complete(nm[n]) \/ nm[n].state = "UnableToClaim"

States == Waiting \cup
    {"None", "SendRequestForClaim", "SendPreferredAddressClaim",
     "ContendForPreferredAddress", "SendArbitraryAddressClaim",
     "SendReclaimAddressOnRequest"}

ControlFunctions == [name : Nodes \cup {0}, address : Slots, claimed : BOOLEAN]

Frames == [kind : {"CLAIM", "REQUEST", "DATA", "COMMAND"},
           name : Nodes \cup {NONE}, address : Slots]

(* Every address a manager keeps, sends or queues is one of the bus or     *)
(* NULL, never the global one, and the table holds objects it created.     *)
TypeOK ==
    /\ up \subseteq Nodes
    /\ \A n \in Nodes :
          /\ nm[n].state \in States /\ nm[n].preferred \in Slots
          /\ \A o \in Objects : nm[n].cf[o] \in ControlFunctions
          /\ \A a \in Slots : nm[n].table[a] \in Objects \cup {NONE}
          /\ Range(nm[n].inactive) \subseteq Objects
          /\ nm[n].asked \in BOOLEAN
          /\ nm[n].partner \in {"none", "new", "initialized"}
          /\ Len(nm[n].queue) <= MaxBatch
          /\ Range(nm[n].queue) \cup Range(inbox[n]) \subseteq Frames

(* Every address kept, sent or queued is one of the bus or NULL (TypeOK),  *)
(* and when the bus is at rest no two nodes hold the same one, whoever     *)
(* claimed first and whatever was still queued when a claim crossed        *)
(* another (contention in update_control_functions, the choice after the   *)
(* contention period, the claims sent again).                              *)
AddressesDistinct ==
    /\ TypeOK
    /\ AtRest => \A m, n \in up : Address(m) = Address(n) /\ Address(n) # NULL => m = n

(* When the bus is at rest every node's table has every other node, and    *)
(* itself, at the address it holds: claims that crossed, evictions and the *)
(* pruning of silent control functions lose nobody that answers.  A node   *)
(* that created a partner is left out: a partner created between a claim   *)
(* and the pruning starts unmarked and is pruned although it answered.     *)
TableAgrees ==
    AtRest => \A n, m \in up : nm[n].partner = "none" /\ Address(m) # NULL =>
        LET o == nm[n].table[Address(m)]
        IN  o # NONE /\ nm[n].cf[o].name = m /\ nm[n].cf[o].address = Address(m)

(* A control function that says AddressClaimingComplete has an address.    *)
CompleteHasAddress == \A n \in up : Complete(nm[n]) => Address(n) # NULL

(* Claims that answer claims end: everyone gets an address or gives up,    *)
(* and the bus falls silent.                                               *)
Settles == <>[]AtRest
=============================================================================
