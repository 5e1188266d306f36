------------------------------ MODULE TCSession ------------------------------
\* How a task controller client gets its device descriptor object pool (DDOP)
\* into a task controller and activated: the client's state machine (the worker
\* thread's update and the network thread's handlers), the upload, the
\* replacement of the pool by the application, and the server's side of it.
\* Source: isobus_task_controller_client.cpp, isobus_task_controller_server.cpp.
EXTENDS Integers, Sequences, SequencesExt

CONSTANTS
    TCSetups,   \* the set-ups to start from, see TCInit
    TCFaults    \* how many faults of each kind may happen

VARIABLES
    tcSetup,    \* stored: the server's pool; echo: it answers with the label asked for;
                \* measures: the client sends values by itself; pools: to configure later
    tcFaults,   \* what may still go wrong
    tc,         \* the client
    toTC, fromTC,  \* frames on their way, each direction in order
    upload,     \* the pool in a transport session
    server

tcVars == <<tcSetup, tcFaults, tc, toTC, fromTC, upload, server>>

\* A pool is known by its structure and its localization label: updated pools
\* have new labels. A mixture of two pools is torn.
NoPool == <<>>
Torn == <<"torn", "torn">>
Structure(pool) == pool[1]
Localization(pool) == pool[2]

TCFaultKinds ==
    {"lost", "late", "race", "off", "refused", "upload", "memory", "store", "activate",
     "generate", "restart", "configure", "reupload"}

\* mode: who keeps the binary pool; generated: it was generated from the objects;
\* labels: the pool whose labels are known; after: the state set when the call to
\* the driver returns.
\* Mutant: the binary pool of the old objects and its labels are kept.
Configured_KeepsBinary(c, ddop, mode) == [c EXCEPT !.ddop = ddop, !.mode = mode]
Configured(c, ddop, mode) ==
    [c EXCEPT !.ddop = ddop, !.mode = mode, !.generated = FALSE, !.labels = NoPool]
NewClient(ddop, mode) ==
    [state |-> "Disconnected", after |-> "none", ddop |-> ddop, mode |-> mode, generated |-> FALSE,
     labels |-> NoPool, reupload |-> FALSE, status |-> FALSE, terminated |-> FALSE]
\* heard: the known client has sent a status.
NewServer(stored) ==
    [on |-> TRUE, known |-> FALSE, heard |-> FALSE, active |-> FALSE, stored |-> stored]

TCInit ==
    /\ tcSetup \in TCSetups
    /\ tcFaults \in TCFaults
    /\ tc = NewClient(Head(tcSetup.pools).ddop, Head(tcSetup.pools).mode)
    /\ toTC = <<>> /\ fromTC = <<>> /\ upload = NoPool
    /\ server = NewServer(tcSetup.stored)

Fault(kind) == tcFaults[kind] > 0 /\ tcFaults' = [tcFaults EXCEPT ![kind] = @ - 1]
FaultUnless(ok, kind) == IF ok THEN UNCHANGED tcFaults ELSE Fault(kind)

Frame(command) == [command |-> command]
Result(command, ok) == [command |-> command, ok |-> ok]
Label(command, label) == [command |-> command, label |-> label]

-----------------------------------------------------------------------------
\* The client's worker thread: one pass of update().

NextState ==
    [SendWorkingSetMaster |-> "SendStatusMessage", SendStatusMessage |-> "RequestVersion",
     RequestVersion |-> "WaitForRequestVersionResponse",
     SendRequestVersionResponse |-> "RequestLanguage",
     RequestStructureLabel |-> "WaitForStructureLabelResponse",
     RequestLocalizationLabel |-> "WaitForLocalizationLabelResponse",
     SendDeleteObjectPool |-> "WaitForDeleteObjectPoolResponse",
     SendRequestTransferObjectPool |-> "WaitForRequestTransferObjectPoolResponse",
     SendObjectPoolActivate |-> "WaitForObjectPoolActivateResponse",
     DeactivateObjectPool |-> "WaitForObjectPoolDeactivateResponse"]
Sending == DOMAIN NextState
Awaiting ==
    {NextState[s] : s \in Sending \ {"SendWorkingSetMaster", "SendStatusMessage",
                                     "SendRequestVersionResponse"}}
       \union {"WaitForRequestVersionFromServer", "WaitForObjectPoolTransferResponse"}

ClientStep(c, frames) ==
    /\ tc' = c
    /\ toTC' = toTC \o frames
    /\ UNCHANGED <<tcSetup, fromTC, server>>
Quietly(c) == ClientStep(c, <<>>) /\ UNCHANGED <<tcFaults, upload>>
To(s) == [tc EXCEPT !.state = s]

Disconnected ==
    /\ tc.state = "Disconnected"
    /\ Quietly([To("WaitForStartUpDelay") EXCEPT !.status = FALSE, !.reupload = FALSE])

\* The delay is as long as the server's timeout for the client.
WaitForStartUpDelay ==
    /\ tc.state = "WaitForStartUpDelay"
    /\ FaultUnless(~server.known, "late")
    /\ ClientStep(To("WaitForServerStatusMessage"), <<>>) /\ UNCHANGED upload

Send ==
    /\ tc.state \in Sending
    /\ ClientStep([tc EXCEPT !.after = NextState[tc.state],
                             !.status = @ \/ tc.state = "SendStatusMessage"],
                  <<Frame(tc.state)>>)
    /\ UNCHANGED <<tcFaults, upload>>

\* The driver refuses the frame for two seconds.
SendTimeout ==
    /\ tc.state \in Sending
    /\ Fault("refused")
    /\ ClientStep([To("Disconnected") EXCEPT !.terminated = tc.state = "DeactivateObjectPool"], <<>>)
    /\ UNCHANGED upload

\* Nothing is on its way that could still bring the answer.
NothingComes == toTC = <<>> /\ fromTC = <<>>

\* Mutant: the answer to the deletion is waited for without end.
AnswerTimeout_NotForDelete ==
    /\ tc.state \in Awaiting \ {"WaitForDeleteObjectPoolResponse"}
    /\ FaultUnless(NothingComes, "late")
    /\ ClientStep(CASE tc.state = "WaitForRequestVersionFromServer" -> To("RequestLanguage")
                    [] tc.state = "WaitForObjectPoolDeactivateResponse" /\ tc.reupload ->
                          [To("ProcessDDOP") EXCEPT !.reupload = FALSE]
                    [] OTHER -> To("Disconnected"), <<>>)
    /\ UNCHANGED upload
AnswerTimeout ==
    /\ tc.state \in Awaiting
    /\ FaultUnless(NothingComes, "late")
    /\ ClientStep(CASE tc.state = "WaitForRequestVersionFromServer" -> To("RequestLanguage")
                    [] tc.state = "WaitForObjectPoolDeactivateResponse" /\ tc.reupload ->
                          [To("ProcessDDOP") EXCEPT !.reupload = FALSE]
                    [] OTHER -> To("Disconnected"), <<>>)
    /\ UNCHANGED upload

\* The language is asked for at the server, a terminal or everybody, but no
\* answer only costs time.
LanguageSettled ==
    /\ tc.state \in {"RequestLanguage", "WaitForLanguageResponse"}
    /\ Quietly(To(IF tc.state = "RequestLanguage" THEN "WaitForLanguageResponse" ELSE "ProcessDDOP"))

\* A binary pool that exists is used again.
ProcessDDOP ==
    /\ tc.state = "ProcessDDOP"
    /\ \/ Quietly([To("RequestStructureLabel") EXCEPT
                      !.generated = tc.mode = "objects",
                      !.labels = IF tc.generated THEN @ ELSE tc.ddop])
       \/ /\ tc.mode = "objects" /\ ~tc.generated /\ Fault("generate")
          /\ ClientStep([tc EXCEPT !.terminated = TRUE], <<>>) /\ UNCHANGED upload

\* Without a generated pool one byte is left to send, which no transport takes.
Uploadable == tc.mode = "objects" => tc.generated

BeginTransferDDOP ==
    /\ tc.state = "BeginTransferDDOP"
    /\ \/ /\ Uploadable /\ upload = NoPool
          /\ upload' = tc.ddop
          /\ ClientStep([tc EXCEPT !.after = "WaitForDDOPTransfer"], <<>>)
          /\ UNCHANGED tcFaults
       \/ /\ FaultUnless(~Uploadable, "refused")
          /\ ClientStep(To("Disconnected"), <<>>) /\ UNCHANGED upload

ServerStatusTimeout ==
    /\ tc.state = "Connected" /\ ~server.on
    /\ Quietly(To("Disconnected"))

\* A value whose measurement is due: one that the server does not want matters.
ValueSent ==
    /\ tc.state = "Connected" /\ tcSetup.measures
    /\ server.on /\ ~server.known
    /\ Frame("Value") \notin Range(toTC) /\ Frame("Nack") \notin Range(fromTC)
    /\ ClientStep(tc, <<Frame("Value")>>) /\ UNCHANGED <<tcFaults, upload>>

AfterSend == tc.after # "none" /\ Quietly([tc EXCEPT !.state = tc.after, !.after = "none"])

ClientUpdate ==
    \/ AfterSend
    \/ /\ tc.after = "none" /\ ~tc.terminated
       /\ \/ Disconnected \/ WaitForStartUpDelay \/ Send \/ SendTimeout \/ AnswerTimeout
          \/ LanguageSettled \/ ProcessDDOP \/ BeginTransferDDOP \/ ServerStatusTimeout \/ ValueSent

-----------------------------------------------------------------------------
\* The application. What it configures next is in tcSetup.pools.

NextPool == tcSetup.pools[2]

reupload_device_descriptor_object_pool ==
    /\ tc.state = "Connected" /\ tc.after = "none" /\ Fault("reupload")
    /\ tc' = [Configured(tc, NextPool.ddop, NextPool.mode) EXCEPT
                 !.state = "DeactivateObjectPool", !.reupload = TRUE]
    /\ UNCHANGED <<tcSetup, toTC, fromTC, upload, server>>

configure ==
    /\ tc.state = "Disconnected" /\ tc.after = "none" /\ Fault("configure")
    /\ tc' = Configured(tc, NextPool.ddop, NextPool.mode)
    /\ UNCHANGED <<tcSetup, toTC, fromTC, upload, server>>

restart ==
    /\ tc.after = "none" /\ Fault("restart")
    /\ tc' = To("Disconnected")
    /\ UNCHANGED <<tcSetup, toTC, fromTC, upload, server>>

-----------------------------------------------------------------------------
\* The network thread: the upload and the client's handlers.

process_tx_callback(successful) ==
    tc' = IF tc.state # "WaitForDDOPTransfer" THEN tc
          ELSE To(IF successful THEN "WaitForObjectPoolTransferResponse" ELSE "Disconnected")

\* The chunk callback never reads a pool given as a vector, and sends from what
\* is configured by then.
TransferEnds ==
    /\ upload # NoPool
    /\ tc.after = "none" \/ tcFaults["race"] > 0
    /\ \/ /\ server.on /\ tc.mode # "vector"
          /\ toTC' = Append(toTC, [command |-> "ObjectPoolTransfer",
                                   pool |-> IF tc.ddop = upload THEN upload ELSE Torn])
          /\ process_tx_callback(TRUE)
          /\ UNCHANGED tcFaults
       \/ /\ FaultUnless(~server.on \/ tc.mode = "vector", "upload")
          /\ process_tx_callback(FALSE)
          /\ UNCHANGED toTC
    /\ upload' = NoPool
    /\ UNCHANGED <<tcSetup, fromTC, server>>

StatusArrives ==
    /\ tc.state = "WaitForServerStatusMessage" /\ server.on /\ ~tc.terminated
    /\ Quietly(To("SendWorkingSetMaster"))

LabelsMatch(m, label, ifMatch) ==
    IF m.label = "none" THEN "SendRequestTransferObjectPool"
    ELSE IF tc.labels # NoPool /\ m.label = label THEN ifMatch ELSE "SendDeleteObjectPool"

\* The answers to activation and deactivation are the same.
\* Mutant: the new pool is activated without having been sent.
Deactivated_NoUpload(m) == IF m.ok /\ tc.reupload THEN To("SendObjectPoolActivate") ELSE tc
Deactivated(m) == IF m.ok /\ tc.reupload THEN To("SendDeleteObjectPool") ELSE tc

\* What an answer leads to in the state that awaits it; others are dropped.
Answered(m) ==
    CASE m.command = "Version" /\ tc.state = "WaitForRequestVersionResponse" ->
            To("WaitForRequestVersionFromServer")
      [] m.command = "RequestVersion" /\ tc.state = "WaitForRequestVersionFromServer" ->
            To("SendRequestVersionResponse")
      [] m.command = "StructureLabel" /\ tc.state = "WaitForStructureLabelResponse" ->
            To(LabelsMatch(m, Structure(tc.labels), "RequestLocalizationLabel"))
      [] m.command = "LocalizationLabel" /\ tc.state = "WaitForLocalizationLabelResponse" ->
            To(LabelsMatch(m, Localization(tc.labels), "SendObjectPoolActivate"))
      [] m.command = "DeleteResponse" /\ tc.state = "WaitForDeleteObjectPoolResponse" ->
            To("SendRequestTransferObjectPool")
      [] m.command = "RequestTransferResponse"
            /\ tc.state = "WaitForRequestTransferObjectPoolResponse" ->
            IF m.ok THEN To("BeginTransferDDOP") ELSE [tc EXCEPT !.terminated = TRUE]
      [] m.command = "TransferResponse" /\ tc.state = "WaitForObjectPoolTransferResponse" ->
            IF m.ok THEN To("SendObjectPoolActivate") ELSE [tc EXCEPT !.terminated = TRUE]
      [] m.command = "ActivateResponse" /\ tc.state = "WaitForObjectPoolActivateResponse" ->
            IF m.ok THEN To("Connected") ELSE [To("Disconnected") EXCEPT !.terminated = TRUE]
      [] m.command = "ActivateResponse" /\ tc.state = "WaitForObjectPoolDeactivateResponse" ->
            Deactivated(m)
      [] m.command = "Nack" -> To("Disconnected")
      [] OTHER -> tc

\* A frame may be handled before the worker set the state that awaits it. A
\* client that terminated has removed its handlers.
process_rx_message ==
    /\ fromTC # <<>>
    /\ FaultUnless(tc.after = "none" \/ tc.terminated, "race")
    /\ tc' = IF tc.terminated THEN tc ELSE Answered(Head(fromTC))
    /\ fromTC' = Tail(fromTC)
    /\ UNCHANGED <<tcSetup, toTC, upload, server>>

-----------------------------------------------------------------------------
\* The server. Storing, deleting and activating are its application's; a server
\* of another make answers with the label it stored instead of the one asked for.

Replies(s, frames) == {[s |-> s, frames |-> frames, fault |-> "none"]}
Refused == Replies(server, <<Frame("Nack")>>)
Failure(command, fault) == {[s |-> server, frames |-> <<Result(command, FALSE)>>, fault |-> fault]}
Outcome(command, s, fault) == Replies(s, <<Result(command, TRUE)>>) \union Failure(command, fault)

\* The label asked for is "none", all ones: the answer cannot tell it from no pool.
LabelReply(command, stored) ==
    Replies(server, <<Label(command, IF tcSetup.echo \/ server.stored = NoPool THEN "none" ELSE stored)>>)

\* Every transfer is stored as a new pool.
FromClient(m) ==
    CASE m.command = "RequestStructureLabel" -> LabelReply("StructureLabel", Structure(server.stored))
      [] m.command = "RequestLocalizationLabel" ->
            LabelReply("LocalizationLabel", Localization(server.stored))
      [] m.command = "SendRequestTransferObjectPool" ->
            Outcome("RequestTransferResponse", server, "memory")
      [] m.command = "ObjectPoolTransfer" ->
            Outcome("TransferResponse", [server EXCEPT !.stored = m.pool], "store")
      [] m.command = "SendObjectPoolActivate" ->
            IF server.stored \in {NoPool, Torn} THEN Failure("ActivateResponse", "none")
            ELSE Outcome("ActivateResponse", [server EXCEPT !.active = TRUE], "activate")
      [] m.command = "DeactivateObjectPool" ->
            Outcome("ActivateResponse", [server EXCEPT !.active = FALSE], "activate")
      [] m.command = "SendDeleteObjectPool" ->
            Replies([server EXCEPT !.stored = NoPool], <<Frame("DeleteResponse")>>)
      [] m.command = "Value" -> Replies(server, <<>>)

\* The version of a client that is not in the table is written through a null
\* pointer: the server is gone.
ParameterVersion ==
    Replies(IF server.known THEN server ELSE [NewServer(server.stored) EXCEPT !.on = FALSE], <<>>)

Handled(m) ==
    CASE m.command = "SendWorkingSetMaster" ->
            Replies([server EXCEPT !.known = TRUE],
                    IF server.known THEN <<>> ELSE <<Frame("RequestVersion")>>)
      [] m.command = "SendStatusMessage" -> Replies([server EXCEPT !.heard = @ \/ server.known], <<>>)
      [] m.command = "RequestVersion" -> Replies(server, <<Frame("Version"), Frame("RequestVersion")>>)
      [] m.command = "SendRequestVersionResponse" -> ParameterVersion
      [] OTHER -> IF server.known THEN FromClient(m) ELSE Refused

process_rx_messages ==
    /\ toTC # <<>>
    /\ IF server.on
       THEN \E r \in Handled(Head(toTC)) :
               /\ server' = r.s
               /\ fromTC' = fromTC \o r.frames
               /\ FaultUnless(r.fault = "none", r.fault)
       ELSE UNCHANGED <<server, fromTC, tcFaults>>
    /\ toTC' = Tail(toTC)
    /\ UNCHANGED <<tcSetup, tc, upload>>

\* Six seconds after the last status, or after the working set master that made
\* the client known: the one of a client that is known already does not count.
ClientTimesOut ==
    /\ server.known
    /\ \/ tc.terminated
       \/ ~tc.status /\ (server.heard \/ tc.state \in {"WaitForStartUpDelay", "WaitForServerStatusMessage"})
       \/ server.heard /\ Frame("SendStatusMessage") \in Range(toTC)
    /\ server' = [server EXCEPT !.known = FALSE, !.heard = FALSE, !.active = FALSE]
    /\ UNCHANGED <<tcSetup, tcFaults, tc, toTC, fromTC, upload>>

PowerOff ==
    /\ server.on /\ Fault("off")
    /\ server' = [NewServer(server.stored) EXCEPT !.on = FALSE]
    /\ UNCHANGED <<tcSetup, tc, toTC, fromTC, upload>>

PowerOn ==
    /\ ~server.on
    /\ server' = [server EXCEPT !.on = TRUE]
    /\ UNCHANGED <<tcSetup, tcFaults, tc, toTC, fromTC, upload>>

FrameLost ==
    /\ Fault("lost")
    /\ \/ /\ toTC # <<>> /\ Head(toTC).command # "ObjectPoolTransfer"
          /\ toTC' = Tail(toTC) /\ UNCHANGED fromTC
       \/ fromTC # <<>> /\ fromTC' = Tail(fromTC) /\ UNCHANGED toTC
    /\ UNCHANGED <<tcSetup, tc, upload, server>>

TCSystem ==
    \/ ClientUpdate \/ process_rx_message \/ TransferEnds \/ StatusArrives
    \/ process_rx_messages \/ ClientTimesOut \/ PowerOn

TCNext ==
    \/ TCSystem \/ reupload_device_descriptor_object_pool \/ configure \/ restart
    \/ PowerOff \/ FrameLost

TCSpec == TCInit /\ [][TCNext]_tcVars /\ WF_tcVars(TCSystem)

-----------------------------------------------------------------------------
\* Every state is one the state machine knows, and the labels that are compared
\* are those of the configured pool.
TCTypeOK ==
    /\ tcFaults \in [TCFaultKinds -> Nat]
    /\ {tc.state} \union ({tc.after} \ {"none"}) \subseteq
          Sending \union Awaiting \union
          {"Disconnected", "WaitForStartUpDelay", "WaitForServerStatusMessage", "RequestLanguage",
           "WaitForLanguageResponse", "ProcessDDOP", "BeginTransferDDOP", "WaitForDDOPTransfer",
           "Connected"}
    /\ server.active => server.known
    /\ tc.state \in {"WaitForStructureLabelResponse", "WaitForLocalizationLabelResponse"} =>
          tc.labels = tc.ddop

\* A client that believes to be connected to a server that knows it has its own
\* pool activated there, not an older one, whatever got lost or was repeated.
OwnPoolActive ==
    tc.state = "Connected" /\ server.known => server.active /\ server.stored = tc.ddop

\* What a client cannot recover from: it terminated by itself; its pool is given
\* as a vector; the transfer ended before the client waited for that; or it has
\* no value to send to a server that forgot it.
GivesUp ==
    \/ tc.terminated \/ tc.mode = "vector"
    \/ tc.state = "WaitForDDOPTransfer" /\ upload = NoPool
    \/ tc.state = "Connected" /\ server.on /\ ~server.known /\ ~tcSetup.measures

\* The client's pool is activated, or it cannot be any more.
Activated == (tc.state = "Connected" /\ server.known) \/ GivesUp
=============================================================================
