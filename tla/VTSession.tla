------------------------------ MODULE VTSession ------------------------------
\* How a terminal client gets connected and stays so: its state machine (the
\* worker thread's update and the network thread's handlers), the transport of
\* the object pools with its callback, and the terminal's side of the session
\* with its parsing thread. Source: isobus_virtual_terminal_client.cpp,
\* isobus_virtual_terminal_server.cpp and its managed working set.
EXTENDS Integers, Sequences, FiniteSets, SequencesExt

CONSTANTS
    Pools,        \* indexes of the client's object pools, 1..n
    Setups,       \* the set-ups to start from, see SessionInit
    FaultBudgets  \* how many faults of each kind may happen

VARIABLES
    setup,      \* usable: pools with data in memory; labelled: they have a version label
    faults,     \* what may still go wrong
    conn,       \* the client: state, pending state of a send, upload state, ...
    toVT, toClient,  \* frames on their way
    transfer,   \* the pool in a transport session, 0 for none
    vt          \* the terminal: working set, raw pools, parser, stored versions

sessionVars == <<setup, faults, conn, toVT, toClient, transfer, vt>>

FaultKinds == {"lost", "late", "off", "upload", "save", "memory", "refused", "restart", "race"}

NewConnection ==
    [state |-> "Disconnected", after |-> "none", upload |-> "Uninitialized",
     uploaded |-> {}, status |-> FALSE, maintain |-> FALSE,
     carried |-> FALSE]
NewTerminal(stored) ==
    [on |-> TRUE, managed |-> FALSE, raw |-> <<>>, thread |-> FALSE, processing |-> "None",
     parsed |-> {}, failed |-> FALSE, loading |-> FALSE, stored |-> stored]

SessionInit ==
    /\ setup \in Setups
    /\ faults \in FaultBudgets
    /\ conn = NewConnection
    /\ toVT = <<>> /\ toClient = <<>> /\ transfer = 0
    /\ vt = NewTerminal(setup.stored)

Fault(kind) == faults[kind] > 0 /\ faults' = [faults EXCEPT ![kind] = @ - 1]
FaultUnless(ok, kind) == IF ok THEN UNCHANGED faults ELSE Fault(kind)

-----------------------------------------------------------------------------
\* The client's worker thread: one pass of update().

\* `carried` is history: an upload's outcome, or the upload, outlived the
\* connection it belongs to. Nothing resets currentObjectPoolState here.
SetState(c, s) ==
    IF s = "Disconnected"
    THEN [c EXCEPT !.state = s, !.status = FALSE, !.uploaded = {},
                   !.carried = @ \/ c.upload # "Uninitialized" \/ c.after = "InProgress"]
    ELSE [c EXCEPT !.state = s]

\* What is sent in a state, and the state set once the driver took the frame.
Request ==
    [SendGetMemory |-> "GetMemory", SendGetNumberSoftkeys |-> "GetNumberOfSoftKeys",
     SendGetTextFontData |-> "GetTextFontData", SendGetHardware |-> "GetHardware",
     SendGetVersions |-> "GetVersions", SendLoadVersion |-> "LoadVersion",
     SendStoreVersion |-> "StoreVersion", SendEndOfObjectPool |-> "EndOfObjectPool"]
AwaitingState ==
    [SendGetMemory |-> "WaitForGetMemoryResponse",
     SendGetNumberSoftkeys |-> "WaitForGetNumberSoftKeysResponse",
     SendGetTextFontData |-> "WaitForGetTextFontDataResponse",
     SendGetHardware |-> "WaitForGetHardwareResponse",
     SendGetVersions |-> "WaitForGetVersionsResponse",
     SendLoadVersion |-> "WaitForLoadVersionResponse",
     SendStoreVersion |-> "WaitForStoreVersionResponse",
     SendEndOfObjectPool |-> "WaitForEndOfObjectPoolResponse"]
AwaitingStates == {AwaitingState[s] : s \in DOMAIN AwaitingState}

Frame(f) == [function |-> f]

\* The maintenance frame is due every second, long after the last one was dealt
\* with. Only one of a working set that the terminal does not know has an effect:
\* nobody reads the time of the others.
MaintenanceMatters ==
    /\ vt.on /\ ~vt.managed
    /\ {Frame("Maintenance"), Frame("InitMaintenance")} \cap Range(toVT) = {}
    /\ Frame("Nack") \notin Range(toClient)

\* The end of the pass: the flags are processed, so a due frame is sent.
Pass(c, frames) ==
    /\ conn' = c
    /\ \E due \in {FALSE, c.maintain /\ MaintenanceMatters} :
          toVT' = toVT \o frames \o (IF due THEN <<Frame("Maintenance")>> ELSE <<>>)
    /\ UNCHANGED <<setup, toClient, vt>>

LookForTerminal ==
    /\ conn.state = "Disconnected"
    /\ Pass(SetState([conn EXCEPT !.maintain = FALSE], "WaitForPartnerVTStatusMessage"), <<>>)
    /\ UNCHANGED <<faults, transfer>>

TerminalFound ==
    /\ conn.state = "WaitForPartnerVTStatusMessage" /\ conn.status
    /\ Pass(SetState(conn, "SendWorkingSetMasterMessage"), <<>>)
    /\ UNCHANGED <<faults, transfer>>

MasterSent ==
    /\ conn.state = "SendWorkingSetMasterMessage"
    /\ Pass(SetState(conn, "ReadyForObjectPool"), <<>>)
    /\ UNCHANGED <<faults, transfer>>

\* A status timeout disconnects, and the same pass goes on all the same.
ReadyForObjectPool ==
    /\ conn.state = "ReadyForObjectPool"
    /\ LET c == IF vt.on THEN conn ELSE SetState(conn, "Disconnected")
       IN Pass([SetState(c, "SendGetMemory") EXCEPT !.maintain = TRUE],
               <<Frame("InitMaintenance")>>)
    /\ UNCHANGED <<faults, transfer>>

\* The state that awaits the answer is set after the frame was handed over.
SendRequest ==
    /\ conn.state \in DOMAIN Request
    /\ Pass([conn EXCEPT !.after = AwaitingState[conn.state]], <<Frame(Request[conn.state])>>)
    /\ UNCHANGED <<faults, transfer>>

RequestNotTaken ==
    /\ conn.state \in {"SendGetVersions", "SendLoadVersion", "SendStoreVersion"}
    /\ Fault("refused")
    /\ Pass(SetState(conn, "Failed"), <<>>)
    /\ UNCHANGED transfer

\* Nothing is on its way that could still bring the answer.
NothingComes ==
    /\ toVT = <<>> /\ toClient = <<>> /\ transfer = 0
    /\ vt.on => ~vt.thread /\ ~vt.loading

\* Mutant: a lost answer to the store is waited for without end.
AnswerTimeout_NotForStore ==
    /\ conn.state \in AwaitingStates \ {"WaitForStoreVersionResponse"}
    /\ FaultUnless(NothingComes, "late")
    /\ Pass(SetState(conn, "Failed"), <<>>)
    /\ UNCHANGED transfer

AnswerTimeout ==
    /\ conn.state \in AwaitingStates
    /\ FaultUnless(NothingComes, "late")
    /\ Pass(SetState(conn, "Failed"), <<>>)
    /\ UNCHANGED transfer

StatusTimeout ==
    /\ conn.state = "Connected" /\ ~vt.on
    /\ Pass(SetState(conn, "Disconnected"), <<>>)
    /\ UNCHANGED <<faults, transfer>>

RetryAfterFailure ==
    /\ conn.state = "Failed"
    /\ Pass(SetState([conn EXCEPT !.maintain = FALSE], "Disconnected"), <<>>)
    /\ UNCHANGED <<faults, transfer>>

\* A pass that changes nothing but sends the maintenance frame.
Maintained ==
    /\ conn.state \in AwaitingStates \union {"UploadObjectPool", "Connected"}
    /\ conn.maintain /\ MaintenanceMatters
    /\ toVT' = Append(toVT, Frame("Maintenance"))
    /\ UNCHANGED <<setup, faults, conn, toClient, transfer, vt>>

\* Mutant: a pool without data is taken for one to upload.
UploadRound_AnyPool(r, i) ==
    IF r.stopped THEN r
    ELSE LET s == IF i \in r.c.uploaded THEN r ELSE [r EXCEPT !.all = FALSE]
         IN CASE r.c.upload = "Uninitialized" /\ i \notin r.c.uploaded /\ r.send = 0
                    /\ transfer = 0 -> [s EXCEPT !.send = i, !.c.upload = "InProgress"]
              [] r.c.upload = "Success" /\ i \notin r.c.uploaded ->
                    [s EXCEPT !.c.uploaded = @ \union {i}, !.c.upload = "Uninitialized"]
              [] r.c.upload = "Failed" ->
                    [s EXCEPT !.c = SetState([@ EXCEPT !.upload = "Uninitialized"], "Disconnected")]
              [] r.c.upload = "InProgress" -> [s EXCEPT !.all = FALSE, !.stopped = TRUE]
              [] OTHER -> s

\* One round of the loop over the pools. A pool is accepted for transmission
\* when no transport session is open with the terminal.
UploadRound(r, i) ==
    IF r.stopped THEN r
    ELSE IF i \notin setup.usable THEN [r EXCEPT !.c.uploaded = @ \union {i}]
    ELSE LET s == IF i \in r.c.uploaded THEN r ELSE [r EXCEPT !.all = FALSE]
         IN CASE r.c.upload = "Uninitialized" /\ i \notin r.c.uploaded /\ r.send = 0
                    /\ transfer = 0 -> [s EXCEPT !.send = i, !.c.upload = "InProgress"]
              [] r.c.upload = "Success" /\ i \notin r.c.uploaded ->
                    [s EXCEPT !.c.uploaded = @ \union {i}, !.c.upload = "Uninitialized"]
              [] r.c.upload = "Failed" ->
                    [s EXCEPT !.c = SetState([@ EXCEPT !.upload = "Uninitialized"], "Disconnected")]
              [] r.c.upload = "InProgress" -> [s EXCEPT !.all = FALSE, !.stopped = TRUE]
              [] OTHER -> s

\* The upload is marked as in progress after the transport accepted the pool.
UploadObjectPool ==
    /\ conn.state = "UploadObjectPool"
    /\ \E r \in {FoldLeft(UploadRound, [c |-> conn, all |-> TRUE, send |-> 0, stopped |-> FALSE],
                          [i \in 1..Cardinality(Pools) |-> i])} :
          /\ Pass(IF r.send # 0 THEN [r.c EXCEPT !.upload = "Uninitialized", !.after = "InProgress"]
                  ELSE IF r.all THEN SetState(r.c, "SendEndOfObjectPool")
                  ELSE r.c, <<>>)
          /\ transfer' = IF r.send # 0 THEN r.send ELSE transfer
    /\ UNCHANGED faults

AfterSend ==
    /\ conn' = LET c == [conn EXCEPT !.after = "none"]
               IN IF conn.after = "InProgress"
                  THEN [c EXCEPT !.upload = "InProgress",
                                 !.carried = @ \/ c.state # "UploadObjectPool"]
                  ELSE SetState(c, conn.after)
    /\ UNCHANGED <<setup, faults, toVT, toClient, transfer, vt>>

ClientUpdate ==
    IF conn.after # "none" THEN AfterSend
    ELSE \/ LookForTerminal \/ TerminalFound \/ MasterSent \/ ReadyForObjectPool \/ SendRequest
         \/ RequestNotTaken \/ AnswerTimeout \/ StatusTimeout \/ RetryAfterFailure
         \/ Maintained \/ UploadObjectPool

\* The application restarts the client: its callbacks are removed, the worker is
\* joined, but a transfer that runs and its upload state stay.
RestartCommunication ==
    /\ conn.after = "none" /\ conn.state # "Disconnected"
    /\ Fault("restart")
    /\ toVT' = IF conn.state = "Connected" THEN Append(toVT, Frame("DeleteObjectPool")) ELSE toVT
    /\ conn' = SetState(conn, "Disconnected")
    /\ UNCHANGED <<setup, toClient, transfer, vt>>

-----------------------------------------------------------------------------
\* The network thread: transport sessions and the client's handler.

process_callback(successful) ==
    conn' = IF conn.state = "UploadObjectPool"
            THEN [conn EXCEPT !.upload = IF successful THEN "Success" ELSE "Failed"]
            ELSE conn

\* The chunk callback sends from the first pool not yet marked, which is not the
\* pool of the session when the session outlived a disconnection.
PoolSent == LET open == Pools \ conn.uploaded
            IN IF open = {} THEN 0 ELSE CHOOSE i \in open : \A j \in open : i <= j

TransferEnds ==
    /\ transfer # 0
    /\ conn.after = "none" \/ faults["race"] > 0
    /\ \/ /\ vt.on /\ PoolSent \in setup.usable
          /\ \E whole \in {TRUE, PoolSent = transfer} :
                toVT' = Append(toVT, [function |-> "ObjectPoolTransfer",
                                      pool |-> PoolSent, whole |-> whole])
          /\ process_callback(TRUE)
          /\ UNCHANGED faults
       \/ /\ FaultUnless(~vt.on \/ PoolSent # transfer, "upload")
          /\ process_callback(FALSE)
          /\ UNCHANGED toVT
    /\ transfer' = 0
    /\ UNCHANGED <<setup, toClient, vt>>

StatusArrives ==
    /\ vt.on /\ ~conn.status
    /\ conn' = [conn EXCEPT !.status = TRUE]
    /\ UNCHANGED <<setup, faults, toVT, toClient, transfer, vt>>

\* The versions before the one with our label are deleted.
VersionsAnswered(c, m) ==
    LET match == SelectInSeq(m.labels, LAMBDA l : l = "mine")
        others == IF match = 0 THEN m.labels ELSE SubSeq(m.labels, 1, match - 1)
    IN [c |-> SetState(c, IF match = 0 THEN "UploadObjectPool" ELSE "SendLoadVersion"),
        frames |-> [i \in DOMAIN others |-> [function |-> "DeleteVersion", label |-> others[i]]]]

\* Mutant: the answer to the end of the pool is taken in any state.
Awaited_EndInAnyState(c, m) ==
    [GetMemory |-> "WaitForGetMemoryResponse",
     GetNumberOfSoftKeys |-> "WaitForGetNumberSoftKeysResponse",
     GetTextFontData |-> "WaitForGetTextFontDataResponse",
     GetHardware |-> "WaitForGetHardwareResponse",
     GetVersions |-> "WaitForGetVersionsResponse", LoadVersion |-> "WaitForLoadVersionResponse",
     StoreVersion |-> "WaitForStoreVersionResponse",
     EndOfObjectPool |-> c.state][m.function] = c.state

\* An answer counts only in the state that awaits it.
Awaited(c, m) ==
    [GetMemory |-> "WaitForGetMemoryResponse",
     GetNumberOfSoftKeys |-> "WaitForGetNumberSoftKeysResponse",
     GetTextFontData |-> "WaitForGetTextFontDataResponse",
     GetHardware |-> "WaitForGetHardwareResponse",
     GetVersions |-> "WaitForGetVersionsResponse", LoadVersion |-> "WaitForLoadVersionResponse",
     StoreVersion |-> "WaitForStoreVersionResponse",
     EndOfObjectPool |-> "WaitForEndOfObjectPoolResponse"][m.function] = c.state

NextState(m) ==
    CASE m.function = "GetMemory" -> IF m.ok THEN "SendGetNumberSoftkeys" ELSE "Failed"
      [] m.function = "GetNumberOfSoftKeys" -> "SendGetTextFontData"
      [] m.function = "GetTextFontData" -> "SendGetHardware"
      [] m.function = "GetHardware" ->
            IF setup.labelled THEN "SendGetVersions" ELSE "UploadObjectPool"
      [] m.function = "LoadVersion" -> IF m.ok THEN "Connected" ELSE "UploadObjectPool"
      [] m.function = "StoreVersion" ->
            IF m.ok THEN "Connected" ELSE "WaitForStoreVersionResponse"
      [] m.function = "EndOfObjectPool" ->
            IF ~m.ok THEN "Failed" ELSE IF setup.labelled THEN "SendStoreVersion" ELSE "Connected"

Reaction(c, m) ==
    IF m.function = "Nack" THEN [c |-> SetState(c, "Disconnected"), frames |-> <<>>]
    ELSE IF m.function \in {"DeleteVersion", "DeleteObjectPool"} \/ ~Awaited(c, m)
    THEN [c |-> c, frames |-> <<>>]
    ELSE IF m.function = "GetVersions" THEN VersionsAnswered(c, m)
    \* A refused store only logs: the state and its time stay.
    ELSE IF NextState(m) = c.state THEN [c |-> c, frames |-> <<>>]
    ELSE [c |-> SetState(c, NextState(m)), frames |-> <<>>]

\* The answer may overtake the worker, which has yet to set the awaiting state.
ClientReceive ==
    /\ toClient # <<>>
    /\ FaultUnless(conn.after = "none", "race")
    /\ conn' = Reaction(conn, Head(toClient)).c
    /\ toVT' = toVT \o Reaction(conn, Head(toClient)).frames
    /\ toClient' = Tail(toClient)
    /\ UNCHANGED <<setup, transfer, vt>>

-----------------------------------------------------------------------------
\* The terminal. Raw pools are kept in the order they came, each whole or torn.

Stateless == {"GetMemory", "GetNumberOfSoftKeys", "GetTextFontData", "GetHardware"}
Response(f, ok) == [function |-> f, ok |-> ok]

RawPool(pools, whole) == [pools |-> pools, whole |-> whole]

\* The pool is kept; a parser at work may see the vector of pools move.
PoolReceived(s, m) ==
    [s EXCEPT !.raw = Append(@, RawPool({m.pool}, m.whole)),
              !.processing = IF @ = "Running" THEN "Torn" ELSE @]

StartParsing(s) == IF s.thread THEN s ELSE [s EXCEPT !.thread = TRUE]

\* load_version and save_version are the application's: pools stored under one
\* label come back as one.
LoadVersion(s) ==
    LET kept == IF "mine" \in DOMAIN s.stored
                THEN [s EXCEPT !.raw = Append(@, RawPool(s.stored["mine"], TRUE)),
                               !.processing = IF @ = "Running" THEN "Torn" ELSE @]
                ELSE s
    IN IF kept.raw = <<>> THEN kept ELSE [StartParsing(kept) EXCEPT !.loading = TRUE]

\* The pools are saved one after the other until one cannot be.
Saved(s, upTo) ==
    LET old == IF "mine" \in DOMAIN s.stored THEN s.stored["mine"] ELSE {}
        new == UNION {s.raw[i].pools : i \in 1..upTo}
    IN IF upTo = 0 THEN s
       ELSE [s EXCEPT !.stored = [l \in {"mine"} |-> old \union new] @@ @]

Orders(labels) ==
    {o \in [1..Cardinality(labels) -> labels] : Range(o) = labels}

\* Messages of a working set that the terminal manages.
FromManaged(s, m) ==
    CASE m.function = "ObjectPoolTransfer" -> {[s |-> PoolReceived(s, m), frames |-> <<>>]}
      [] m.function = "GetVersions" ->
            {[s |-> s, frames |-> <<[function |-> "GetVersions", labels |-> o]>>] :
                o \in Orders(DOMAIN s.stored)}
      [] m.function = "LoadVersion" ->
            {[s |-> LoadVersion(s),
              frames |-> IF "mine" \in DOMAIN s.stored THEN <<>>
                         ELSE <<Response("LoadVersion", FALSE)>>]}
      [] m.function = "StoreVersion" ->
            IF s.raw = <<>> THEN {[s |-> s, frames |-> <<Frame("Nack")>>]}
            ELSE {[s |-> Saved(s, n),
                   frames |-> <<Response("StoreVersion", n = Len(s.raw))>>] :
                     n \in IF faults.save > 0 THEN 0..Len(s.raw) ELSE {Len(s.raw)}}
      [] m.function = "DeleteVersion" ->
            {[s |-> [s EXCEPT !.stored = [l \in DOMAIN @ \ {m.label} |-> @[l]]],
              frames |-> <<Response("DeleteVersion", TRUE)>>]}
      [] m.function = "EndOfObjectPool" ->
            {[s |-> IF s.raw = <<>> THEN s ELSE StartParsing(s), frames |-> <<>>]}
      [] m.function = "DeleteObjectPool" ->
            {[s |-> s, frames |-> <<Response("DeleteObjectPool", TRUE)>>]}
      [] OTHER -> {[s |-> s, frames |-> <<>>]}

\* Some questions are answered to anybody; the first maintenance frame makes a
\* working set; whoever is not managed is refused.
Handled(s, m) ==
    LET managed == s.managed \/ m.function = "InitMaintenance"
        s1 == [s EXCEPT !.managed = managed]
    IN IF m.function \in Stateless
       THEN {[s |-> s, frames |-> <<Response(m.function, ok)>>] :
                ok \in IF m.function = "GetMemory" /\ faults.memory > 0 THEN BOOLEAN ELSE {TRUE}}
       ELSE IF ~managed THEN {[s |-> s, frames |-> <<Frame("Nack")>>]}
       ELSE FromManaged(s1, m)

TerminalReceive ==
    /\ toVT # <<>>
    /\ toVT' = Tail(toVT)
    /\ IF vt.on
       THEN \E r \in Handled(vt, Head(toVT)) :
               /\ vt' = r.s
               /\ toClient' = toClient \o r.frames
               /\ IF \E i \in DOMAIN r.frames :
                        r.frames[i].function \in {"GetMemory", "StoreVersion"} /\ ~r.frames[i].ok
                  THEN Fault(IF r.frames[1].function = "GetMemory" THEN "memory" ELSE "save")
                  ELSE UNCHANGED faults
       ELSE UNCHANGED <<vt, toClient, faults>>
    /\ UNCHANGED <<setup, conn, transfer>>

ParsingStarts ==
    /\ vt.on /\ vt.thread /\ vt.processing \in {"None", "Joined"}
    /\ vt' = [vt EXCEPT !.processing = "Running"]
    /\ UNCHANGED <<setup, faults, conn, toVT, toClient, transfer>>

\* Every raw pool is parsed, those of earlier uploads too; the first that is torn
\* ends it. A vector that moved meanwhile makes any outcome possible.
ParsingOver ==
    /\ vt.on /\ vt.processing \in {"Running", "Torn"}
    /\ LET good == {i \in DOMAIN vt.raw : \A j \in 1..i : vt.raw[j].whole}
           objects == UNION {vt.raw[i].pools : i \in good}
       IN \E ok \in {good = DOMAIN vt.raw} \union (IF vt.processing = "Torn" THEN {FALSE} ELSE {}) :
             vt' = [vt EXCEPT !.processing = IF ok THEN "Success" ELSE "Fail",
                              !.parsed = @ \union objects]
    /\ UNCHANGED <<setup, faults, conn, toVT, toClient, transfer>>

\* update(): the end of the pool is answered with success whatever came out.
TerminalUpdate ==
    /\ vt.on /\ vt.processing \in {"Success", "Fail"}
    /\ vt' = [vt EXCEPT !.thread = FALSE, !.processing = "Joined",
                        !.failed = @ \/ vt.processing = "Fail"]
    /\ toClient' = Append(toClient, Response("EndOfObjectPool", TRUE))
    /\ UNCHANGED <<setup, faults, conn, toVT, transfer>>

\* The application of the terminal answers a load once the parsing is over.
LoadAnswered ==
    /\ vt.on /\ vt.loading /\ ~vt.thread
    /\ vt' = [vt EXCEPT !.loading = FALSE]
    /\ toClient' = Append(toClient, Response("LoadVersion", ~vt.failed))
    /\ UNCHANGED <<setup, faults, conn, toVT, transfer>>

PowerOff ==
    /\ vt.on /\ Fault("off")
    /\ vt' = [NewTerminal(vt.stored) EXCEPT !.on = FALSE]
    /\ UNCHANGED <<setup, conn, toVT, toClient, transfer>>

PowerOn ==
    /\ ~vt.on
    /\ vt' = [vt EXCEPT !.on = TRUE]
    /\ UNCHANGED <<setup, faults, conn, toVT, toClient, transfer>>

\* A pool is not lost: the transport reports success after it was handed over.
FrameLost ==
    /\ Fault("lost")
    /\ \/ /\ toVT # <<>> /\ Head(toVT).function # "ObjectPoolTransfer"
          /\ toVT' = Tail(toVT) /\ UNCHANGED toClient
       \/ toClient # <<>> /\ toClient' = Tail(toClient) /\ UNCHANGED toVT
    /\ UNCHANGED <<setup, conn, transfer, vt>>

SessionSystem ==
    \/ ClientUpdate \/ ClientReceive \/ TransferEnds \/ StatusArrives
    \/ TerminalReceive \/ ParsingStarts \/ ParsingOver \/ TerminalUpdate \/ LoadAnswered \/ PowerOn

SessionNext == SessionSystem \/ RestartCommunication \/ PowerOff \/ FrameLost

SessionSpec == SessionInit /\ [][SessionNext]_sessionVars /\ WF_sessionVars(SessionSystem)

-----------------------------------------------------------------------------
\* Every state is one the state machine and the terminal know.
SessionTypeOK ==
    /\ faults \in [FaultKinds -> Nat]
    /\ conn.state \in {"Disconnected", "WaitForPartnerVTStatusMessage",
                       "SendWorkingSetMasterMessage", "ReadyForObjectPool", "UploadObjectPool",
                       "Connected", "Failed"} \union DOMAIN Request \union AwaitingStates
    /\ conn.after \in {"none", "InProgress"} \union AwaitingStates
    /\ conn.upload \in {"Uninitialized", "InProgress", "Success", "Failed"}
    /\ conn.uploaded \subseteq Pools
    /\ transfer \in {0} \union setup.usable
    /\ vt.processing \in {"None", "Running", "Torn", "Success", "Fail", "Joined"}
    /\ vt.parsed \subseteq Pools

\* A client that believes to be connected has all of its pools in the terminal
\* that manages it, uploaded or loaded, however many attempts there were; unless
\* a parse failed, which the terminal reports as a success, the stored version is
\* one that could not be saved completely, or the outcome of an upload outlived
\* its connection.
ConnectedMeansParsed ==
    /\ conn.state = "Connected" /\ vt.on /\ vt.managed /\ ~vt.failed /\ ~conn.carried
    /\ "mine" \in DOMAIN vt.stored => setup.usable \subseteq vt.stored["mine"]
    => setup.usable \subseteq vt.parsed

\* The upload waits for a transfer that is over: its outcome came before the
\* worker marked the upload as in progress, and was overwritten.
Stranded == conn.state = "UploadObjectPool" /\ conn.upload = "InProgress" /\ transfer = 0

\* The client is connected, or the outcome of an upload outlived its connection or
\* was overwritten.
ConnectedOrStuck == conn.state = "Connected" \/ conn.carried \/ Stranded
=============================================================================
