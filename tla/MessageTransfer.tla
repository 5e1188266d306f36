-------------------------- MODULE MessageTransfer --------------------------
(***************************************************************************)
(* What the transport protocol promises the code above it                  *)
(* (CANNetworkManager::send_can_message and its receive callbacks): a      *)
(* message the protocol accepted is handed over whole, at most once to a   *)
(* node, and only to the nodes it was meant for; the sender of a message   *)
(* with one destination is told "success" only after the hand-over.  A     *)
(* transfer may fail, and may be reported as failed although the message   *)
(* was handed over (the acknowledgement is lost), never the other way.     *)
(***************************************************************************)
EXTENDS Sequences, SequencesExt

CONSTANTS Nodes, Messages, Global, From, To

VARIABLES
    outcome,    \* what the transmit-complete callback said of a message
    received    \* the messages every node was handed, in order

Init ==
    /\ outcome = [m \in Messages |-> "idle"]
    /\ received = [n \in Nodes |-> <<>>]

Receivers(m) == IF To[m] = Global THEN Nodes \ {From[m]} ELSE {To[m]}

Accept(m) ==
    /\ outcome[m] = "idle"
    /\ outcome' = [outcome EXCEPT ![m] = "pending"]
    /\ UNCHANGED received

Deliver(m, n) ==
    /\ outcome[m] # "idle"
    /\ n \in Receivers(m) /\ m \notin Range(received[n])
    /\ received' = [received EXCEPT ![n] = Append(@, m)]
    /\ UNCHANGED outcome

Finish(m, result) ==
    /\ outcome[m] = "pending"
    /\ (result = "success" /\ To[m] # Global) => m \in Range(received[To[m]])
    /\ outcome' = [outcome EXCEPT ![m] = result]
    /\ UNCHANGED received

Next == \E m \in Messages :
    \/ Accept(m)
    \/ \E n \in Nodes : Deliver(m, n)
    \/ \E result \in {"success", "failed"} : Finish(m, result)

Spec == Init /\ [][Next]_<<outcome, received>>
=============================================================================
