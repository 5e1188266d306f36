------------------------ MODULE NetworkTransports ------------------------
(***************************************************************************)
(* The three managers a CANNetworkManager owns for each port, side by      *)
(* side: update() serves them in turn, every received frame is offered to  *)
(* each, and each acts only on frames of its own kind.  send_can_message   *)
(* offers a message to the transport protocol first and to the extended    *)
(* one when that refuses it; fast packets have an entry of their own.      *)
(* Below them is the hardware interface of one node, which runs when a     *)
(* scenario says so; the protocols see it as a bus that may refuse frames. *)
(* A thread inside a call of one protocol may start one of another here,   *)
(* which the code does not do.                                             *)
(***************************************************************************)
EXTENDS TransportProtocol

CONSTANTS
    FastMessages,       \* the messages handed to send_multipacket_message
    PacketsPerDpo,
    Callers, Capacity, MaxFrames    \* the hardware interface's

\* What a scenario plans for the interface; frames are told apart by a number.
ASSUME FastAssumption == FastMessages \subseteq Messages
ASSUME CapacityAssumption == Capacity \in Nat \ {0}
ASSUME HardwareAssumption ==
    \A c \in Scenarios :
        c.hardware \in [calls : Seq({"start", "stop", "assign", "unassign"}),
                        sends : [Callers \union {"update"} -> Seq(Nat)], arrive : Seq(Nat),
                        breaks : Nat, refuses : Nat]

VARIABLES
    etpSessions, etpInbox, etpOutcome, etpDelivered,
    fpSessions, fpInbox, fpCalls, fpOutcome, fpDelivered, fpTwice,
    left, started, lock, control, updating, receiving, channel, txQueue, rxQueue, sending, frames

Etp == INSTANCE ExtendedTransportProtocol WITH
    Messages <- Messages \ FastMessages, MinLength <- MAX_PROTOCOL_DATA_LENGTH,
    sessions <- etpSessions, inbox <- etpInbox, outcome <- etpOutcome,
    delivered <- etpDelivered

Fp == INSTANCE FastPacketProtocol WITH
    Messages <- FastMessages,
    sessions <- fpSessions, inbox <- fpInbox, calls <- fpCalls, outcome <- fpOutcome,
    delivered <- fpDelivered, twice <- fpTwice

Interface == INSTANCE CANHardwareInterface

etpVars == <<etpSessions, etpInbox, etpOutcome, etpDelivered>>
fpVars == <<fpSessions, fpInbox, fpCalls, fpOutcome, fpDelivered, fpTwice>>
tpVars == <<sessions, inbox, app, outcome, delivered>>
interfaceVars == <<left, started, lock, control, updating, receiving, channel, txQueue,
                   rxQueue, sending, frames>>

AllInit == Init /\ Etp!Init /\ Fp!Init /\ Interface!InterfaceInit

\* send_can_message is given the messages that are not fast packets.
TpStep == /\ Next /\ UNCHANGED <<etpVars, fpVars, interfaceVars>>
          /\ \A t \in Threads : app'[t].msg \notin FastMessages
EtpStep == Etp!Next /\ UNCHANGED <<tpVars, fpVars, interfaceVars>>
FpStep == Fp!Next /\ UNCHANGED <<tpVars, etpVars, interfaceVars>>
InterfaceStep == Interface!InterfaceNext /\ UNCHANGED <<vars, etpVars, fpVars>>

AllNext == TpStep \/ EtpStep \/ FpStep \/ InterfaceStep

AllWork == \/ Work /\ UNCHANGED <<scenario, etpVars, fpVars, interfaceVars>>
           \/ Etp!Work /\ UNCHANGED <<tpVars, fpVars, interfaceVars>>
           \/ Fp!Work /\ UNCHANGED <<tpVars, etpVars, interfaceVars>>
           \/ Interface!InterfaceWork /\ UNCHANGED <<vars, etpVars, fpVars>>

allVars == <<vars, etpVars, fpVars, interfaceVars>>

\* The threads run: while there is something to do, something is done.  A
\* driver that refuses finitely many frames takes the next one, and a wait
\* that nothing ends is ended by its timeout.
AllSpec == AllInit /\ [][AllNext]_allVars /\ WF_allVars(AllWork)

--------------------------------------------------------------------------------
\* Properties

\* The extended protocol implements MessageTransfer: long messages are handed
\* over whole and at most once, and "success" is reported only afterwards.
ExtendedTransferSpec == Etp!Transfer!Spec

\* The 8-bit counters of both protocols with a handshake keep their ranges, and
\* the unsigned differences the windows are computed with do not wrap, so that the
\* sender sends no packet outside its window and never misses the end of the message.
\* Of the transport protocol this is said of the build without threads only, of the
\* extended one as long as no frame is repeated.  With threads a call and an update
\* may each send the RTS of one message.  The receiver starts over at the second, and
\* the sender takes its CTS although it is further on: last - ack exceeds the window
\* and the sender goes on beyond the end of the message.
WindowsKept == TypeOK /\ (~scenario.threaded => NoCounterWraps) /\ Etp!WindowKept

\* Fast packets implement MessageTransfer as long as no more than one frame is
\* lost (a gap is noticed at the next message of the same PGN at the latest) and
\* one thread sends a node's messages: a call may be overtaken between its look
\* for a session and the insertion.  An answer that is given twice
\* (FastPacketProtocol::update goes on with a session it closed) says "failed"
\* both times and follows the loss of an address.
FastTransferSpec == Fp!Transfer!Spec /\ []Fp!ToldAgain

\* Once the application has nothing left to send, every accepted transmission
\* was reported and no node holds a session of any protocol: without this a
\* lost frame would block its pair of nodes for ever.  The calls of the hardware
\* interface return, and with a working driver no frame waits for ever.
EveryTransferEnds ==
    <>[](/\ \A n \in Nodes : sessions[n] = <<>>
         /\ \A m \in Messages : outcome[m] # "pending"
         /\ Etp!Ended /\ Fp!Ended /\ Interface!InterfaceAtRest)

\* The hardware interface hands every frame on, once and in order: those the driver
\* received to the stack and, while one thread sends, those it sent to the driver, at
\* the limit of the queues and of a pass, across stops and starts.
OneSends ==
    \A t, u \in Interface!Writers :
        scenario.hardware.sends[t] # <<>> /\ scenario.hardware.sends[u] # <<>> => t = u

FramesHandedOn ==
    Interface!ReceivedInOrder /\ (OneSends => Interface!TransmittedInOrder)
=============================================================================
