-------------------------------- MODULE IPC --------------------------------
(***************************************************************************)
(* Messages between the Reward Calculator and its clients.                 *)
(*                                                                         *)
(* A connection is a pair of FIFO byte streams.  RC receives from each one *)
(* in a goroutine, answers ROLLBACK there and every other message in a     *)
(* goroutine of its own, so answers come in any order.  The client API     *)
(* (RCIPC) sends a request and takes the next message as its response.     *)
(* When RC exits it waits for the goroutines that are counted in a wait    *)
(* group before it closes the databases.                                   *)
(*                                                                         *)
(* ICON Service is external: it sends requests without waiting and tells   *)
(* the answers apart by their ids.                                         *)
(***************************************************************************)
EXTENDS Integers, Sequences, FiniteSetsExt

CONSTANTS
    Tool,           \* clients that use RCIPC
    Service,        \* connections of ICON Service
    Calculators,    \* the clients that send CALCULATE
    MaxRequests     \* bound: requests of one client

Client == Tool \cup Service

ASSUME IPCAssumption ==
    /\ Tool \cap Service = {} /\ Calculators \subseteq Client
    /\ MaxRequests \in Nat

VARIABLES
    conn,           \* RC's side of a connection
    request,        \* bytes on the way to RC: sequences of messages
    response,       \* bytes on the way to the client
    task,           \* goroutines that handle a message
    waitGroup,      \* the counter of the wait group
    calculating,    \* DBInfo: Calculating > CalcDone
    reload,         \* the goroutine that reloads IISS data runs
    exit,           \* Close: its next step
    client          \* the clients

vars == <<conn, request, response, task, waitGroup, calculating, reload, exit, client>>

\* "plain" is a request with one response, "bad" one that cannot be decoded; ok is
\* the status of the response to CALCULATE
Message(msg, id, ok) == [msg |-> msg, id |-> id, ok |-> ok]

\* a goroutine; early: it was counted before Close had waited
Task(c, m) == [client |-> c, msg |-> m.msg, id |-> m.id, step |-> "spawned",
               early |-> FALSE, quit |-> FALSE]
AtDB == {"working", "check", "load", "calculating"}
At(step) == {t \in task : t.step = step}
Replace(t, u) == task' = (task \ {t}) \cup {u}

\* what is sent to a connection that was closed is lost
Sent(c, m) ==
    IF conn[c] = "closed" THEN response ELSE [response EXCEPT ![c] = Append(@, m)]

Init ==
    /\ conn = [c \in Client |-> "none"]
    /\ request = [c \in Client |-> <<>>]
    /\ response = [c \in Client |-> <<>>]
    /\ task = {}
    /\ waitGroup = 0
    /\ reload \in {"none", "running"}
    /\ calculating = (reload = "running")
    /\ exit = "running"
    /\ client = [c \in Client |-> [state |-> "dial", sent |-> 0, want |-> "none",
                                   got |-> "none", refused |-> FALSE]]

-----------------------------------------------------------------------------
(* The clients. *)

\* Dial, accepted by RC, which sets the handlers and sends READY
Connect(c) ==
    /\ client[c].state = "dial" /\ exit \in {"running", "wait"}
    /\ conn' = [conn EXCEPT ![c] = "open"]
    /\ response' = [response EXCEPT ![c] = <<Message("ready", 0, TRUE)>>]
    /\ client' = [client EXCEPT ![c].state = "flush"]
    /\ UNCHANGED <<request, task, waitGroup, calculating, reload, exit>>

Take(c) == response' = [response EXCEPT ![c] = Tail(@)]

\* InitRCIPC waits for READY
FlushReady(c) ==
    /\ client[c].state = "flush" /\ response[c] # <<>>
    /\ Take(c)
    /\ client' = [client EXCEPT ![c].state = IF Head(response[c]).msg = "ready" THEN "idle" ELSE @]
    /\ UNCHANGED <<conn, request, task, waitGroup, calculating, reload, exit>>

\* RCIPC encodes its requests itself
RequestsOf(c) ==
    {"plain", "rollback"} \cup (IF c \in Calculators THEN {"calculate"} ELSE {})
                         \cup (IF c \in Service THEN {"bad"} ELSE {})

\* a request of RCIPC; or of ICON Service, which does not wait
SendRequest(c, msg) ==
    /\ client[c].state = "idle" /\ client[c].sent < MaxRequests
    /\ request' = [request EXCEPT ![c] = Append(@, Message(msg, client[c].sent + 1, TRUE))]
    /\ client' = [client EXCEPT ![c].sent = @ + 1, ![c].want = msg, ![c].got = "none",
                                ![c].state = IF c \in Tool THEN "await" ELSE @]
    /\ UNCHANGED <<conn, response, task, waitGroup, calculating, reload, exit>>

\* Mutant: SendCalculate does not wait for CALCULATE_DONE
AfterResponseNoDone(cl, m) == [cl EXCEPT !.got = m.msg, !.state = "idle"]

\* SendAndReceive takes the next message; SendCalculate goes on to wait for
\* CALCULATE_DONE when the calculation was accepted, and returns when it was not
AfterResponse(cl, m) ==
    LET accepted == cl.want = "calculate" /\ m.msg = "calculate" /\ m.ok
    IN  [cl EXCEPT !.got = m.msg,
                   !.state = IF accepted THEN "awaitDone" ELSE "idle",
                   !.refused = @ \/ ~m.ok]

Receive(c) ==
    /\ client[c].state \in {"await", "awaitDone"} /\ response[c] # <<>>
    /\ Take(c)
    /\ client' = [client EXCEPT ![c] = IF @.state = "await" THEN AfterResponse(@, Head(response[c]))
                                       ELSE [@ EXCEPT !.state = "idle"]]
    /\ UNCHANGED <<conn, request, task, waitGroup, calculating, reload, exit>>

\* ICON Service takes an answer
ServiceReceive(c) ==
    /\ c \in Service /\ client[c].state = "idle" /\ response[c] # <<>>
    /\ Take(c)
    /\ UNCHANGED <<conn, request, task, waitGroup, calculating, reload, exit, client>>

\* FiniRCIPC, or the end of a client: HandleMessage fails and the loop ends
Disconnect(c) ==
    /\ client[c].state = "idle" /\ conn[c] # "closed"
    /\ conn' = [conn EXCEPT ![c] = "closed"]
    /\ request' = [request EXCEPT ![c] = <<>>]
    /\ response' = [response EXCEPT ![c] = <<>>]
    /\ client' = [client EXCEPT ![c].state = "gone"]
    /\ UNCHANGED <<task, waitGroup, calculating, reload, exit>>

-----------------------------------------------------------------------------
(* RC handles messages. *)

\* Mutant: ROLLBACK is handled in a goroutine too
DispatchAll(msg) == "open"

\* the receiving goroutine waits for ROLLBACK and for no other message
Dispatch(msg) == IF msg = "rollback" THEN "busy" ELSE "open"

HandleMessage(c) ==
    /\ conn[c] = "open" /\ request[c] # <<>>
    /\ request' = [request EXCEPT ![c] = Tail(@)]
    /\ task' = task \cup {Task(c, Head(request[c]))}
    /\ conn' = [conn EXCEPT ![c] = Dispatch(Head(request[c]).msg)]
    /\ UNCHANGED <<response, waitGroup, calculating, reload, exit, client>>

\* the first step of a handler; one that cannot decode its message returns, and
\* "failed" records that it stays counted
FirstStep(msg) == CASE msg = "bad" -> "failed" [] msg = "calculate" -> "check" [] OTHER -> "working"

\* the goroutine counts itself
AddMsgTask(t) ==
    /\ waitGroup' = waitGroup + 1
    /\ Replace(t, [t EXCEPT !.step = FirstStep(t.msg), !.early = exit \in {"running", "wait"}])
    /\ UNCHANGED <<conn, request, response, calculating, reload, exit, client>>

\* Mutant: ROLLBACK returns without DoneMsgTask
LeaveCounted(t) == waitGroup - (IF t.msg = "rollback" THEN 0 ELSE 1)

\* Mutant: ROLLBACK takes the calculation it cancels off the count as well
CountTwice(t) == waitGroup - (IF t.msg = "rollback" THEN 2 ELSE 1)

DoneMsgTask(t) == waitGroup - 1

\* a handler is done with the databases; ROLLBACK cancels what calculates
FinishHandler(t) ==
    /\ waitGroup' = DoneMsgTask(t)
    /\ LET canceled == {u \in task : t.msg = "rollback" /\ u.step = "calculating"}
       IN  task' = (task \ (canceled \cup {t})) \cup {[t EXCEPT !.step = "send"]}
                       \cup {[u EXCEPT !.quit = TRUE] : u \in canceled}
    /\ reload' = IF t.msg = "rollback" /\ reload = "running" THEN "quit" ELSE reload
    /\ UNCHANGED <<conn, request, response, calculating, exit, client>>

\* Mutant: isCalculating is not looked at
AlwaysAccept(t) ==
    /\ Replace(t, [t EXCEPT !.step = "load"])
    /\ UNCHANGED response

\* DoCalculate while a calculation runs
CheckCalculating(t) ==
    \/ /\ calculating
       /\ Replace(t, [t EXCEPT !.step = "done"])
       /\ response' = Sent(t.client, Message("calculate", t.id, FALSE))
    \/ /\ ~calculating
       /\ Replace(t, [t EXCEPT !.step = "load"])
       /\ UNCHANGED response

DoCalculate(t) ==
    /\ CheckCalculating(t)
    /\ UNCHANGED <<conn, request, waitGroup, calculating, reload, exit, client>>

\* the IISS data is loaded: it is refused, which resets Calculating, or accepted
LoadIISSData(t) ==
    /\ \E ok \in BOOLEAN :
          /\ calculating' = ok
          /\ Replace(t, [t EXCEPT !.step = IF ok THEN "calculating" ELSE "done"])
          /\ response' = Sent(t.client, Message("calculate", t.id, ok))
    /\ UNCHANGED <<conn, request, waitGroup, reload, exit, client>>

\* a calculation that was canceled stays Calculating
FinishCalculation(t) ==
    /\ calculating' = (t.quit /\ calculating)
    /\ Replace(t, [t EXCEPT !.step = "done"])
    /\ UNCHANGED <<conn, request, response, waitGroup, reload, exit, client>>

FinishCalculate(t) ==
    /\ waitGroup' = DoneMsgTask(t)
    /\ Replace(t, [t EXCEPT !.step = "send"])
    /\ UNCHANGED <<conn, request, response, calculating, reload, exit, client>>

\* Mutant: a calculation that was canceled is not answered
AnswerUnlessCanceled(t) ==
    IF t.quit THEN response
    ELSE Sent(t.client, Message(IF t.msg = "calculate" THEN "done" ELSE t.msg, t.id, TRUE))

\* the response, or CALCULATE_DONE
Answer(t) ==
    Sent(t.client, Message(IF t.msg = "calculate" THEN "done" ELSE t.msg, t.id, TRUE))

SendResponse(t) ==
    /\ task' = task \ {t}
    /\ response' = Answer(t)
    /\ conn' = IF t.msg = "rollback" /\ conn[t.client] = "busy"
               THEN [conn EXCEPT ![t.client] = "open"] ELSE conn
    /\ UNCHANGED <<request, waitGroup, calculating, reload, exit, client>>

EndReload ==
    /\ reload # "none"
    /\ calculating' = (reload = "quit" /\ calculating)
    /\ reload' = "none"
    /\ UNCHANGED <<conn, request, response, task, waitGroup, exit, client>>

-----------------------------------------------------------------------------
(* Close, at a signal. *)

NotifyExit ==
    /\ exit = "running"
    /\ exit' = "wait"
    /\ task' = {IF t.step = "calculating" THEN [t EXCEPT !.quit = TRUE] ELSE t : t \in task}
    /\ reload' = IF reload = "running" THEN "quit" ELSE reload
    /\ UNCHANGED <<conn, request, response, waitGroup, calculating, client>>

\* Mutant: Close does not wait
NoWait == exit = "wait"

WaitMsgTasksDone == exit = "wait" /\ waitGroup = 0

\* no more connections are accepted, and the databases are closed
CloseIScoreDB ==
    /\ WaitMsgTasksDone
    /\ exit' = "closed"
    /\ UNCHANGED <<conn, request, response, task, waitGroup, calculating, reload, client>>

\* the process ends: the clients see their connections closed
ProcessExit ==
    /\ exit = "closed"
    /\ exit' = "gone"
    /\ task' = {} /\ reload' = "none"
    /\ conn' = [c \in Client |-> "closed"]
    /\ request' = [c \in Client |-> <<>>]
    /\ response' = [c \in Client |-> <<>>]
    /\ client' = [c \in Client |-> [client[c] EXCEPT !.state = "gone"]]
    /\ UNCHANGED <<waitGroup, calculating>>

-----------------------------------------------------------------------------
TaskStep ==
    \/ \E t \in At("spawned") : AddMsgTask(t)
    \/ \E t \in At("working") : FinishHandler(t)
    \/ \E t \in At("check") : DoCalculate(t)
    \/ \E t \in At("load") : LoadIISSData(t)
    \/ \E t \in At("calculating") : FinishCalculation(t)
    \/ \E t \in At("done") : FinishCalculate(t)
    \/ \E t \in At("send") : SendResponse(t)

Progress ==
    \/ TaskStep \/ EndReload \/ CloseIScoreDB \/ ProcessExit
    \/ \E c \in Client : HandleMessage(c) \/ FlushReady(c) \/ Receive(c)

Next ==
    \/ Progress
    \/ NotifyExit
    \/ \E c \in Client : Connect(c) \/ ServiceReceive(c) \/ Disconnect(c)
    \/ \E c \in Client : \E msg \in RequestsOf(c) : SendRequest(c, msg)

Spec == Init /\ [][Next]_vars /\ WF_vars(Progress)

-----------------------------------------------------------------------------
(* Properties. *)

Requests == {"plain", "rollback", "calculate", "bad"}
MessageRecord == [msg : Requests \cup {"ready", "done"}, id : 0 .. MaxRequests, ok : BOOLEAN]
TaskRecord == [client : Client, msg : Requests, id : 1 .. MaxRequests,
               step : AtDB \cup {"spawned", "done", "send", "failed"},
               early : BOOLEAN, quit : BOOLEAN]
ClientRecord == [state : {"dial", "flush", "idle", "await", "awaitDone", "gone"},
                 sent : 0 .. MaxRequests, want : Requests \cup {"none"},
                 got : Requests \cup {"none", "ready", "done"}, refused : BOOLEAN]

\* Every variable has its type; the count of the wait group never becomes negative.
IPCTypeOK ==
    /\ conn \in [Client -> {"none", "open", "busy", "closed"}]
    /\ request \in [Client -> Seq(MessageRecord)]
    /\ response \in [Client -> Seq(MessageRecord)]
    /\ task \subseteq TaskRecord
    /\ waitGroup \in Nat
    /\ calculating \in BOOLEAN
    /\ reload \in {"none", "running", "quit"}
    /\ exit \in {"running", "wait", "closed", "gone"}
    /\ client \in [Client -> ClientRecord]

\* The databases are not closed under a handler that was counted before Close had
\* waited, however messages arrive meanwhile (AddMsgTask, DoneMsgTask, Close).  A
\* handler that is counted later, and the reload, are not waited for.
CountedTasksFinish ==
    exit = "closed" => \A t \in task : t.early => t.step \notin AtDB

\* "do not process other messages while process Rollback message" (msg.go:146): no
\* message that a connection received after ROLLBACK is handled beside it.
RollbackNotOvertaken ==
    \A t, u \in task : t.msg = "rollback" /\ t.step # "send" /\ u.client = t.client
        => u.id <= t.id

\* A client takes the response to its own request, until a CALCULATE of its was
\* refused: CALCULATE_DONE follows then as well, and is not waited for (SendAndReceive,
\* SendCalculate, calculate).
ResponseMatches ==
    \A c \in Tool : client[c].state \in {"idle", "awaitDone"} /\ ~client[c].refused
        => client[c].got \in {"none", client[c].want}

\* At most one calculation runs, a reload included, as long as the client that asks
\* for them sees their responses (isCalculating, reloadIISSData).
OneCalculation ==
    (\A c \in Calculators : ~client[c].refused) =>
        Cardinality(At("calculating")) + (IF reload = "none" THEN 0 ELSE 1) <= 1

\* After a signal RC ends, unless a message could not be decoded (Close waits for a
\* count that the failed handler never takes back).
CloseEnds == exit = "wait" ~> (exit = "gone" \/ At("failed") # {})

\* A client that waits gets an answer, or its connection is closed; a calculation
\* that is refused, canceled by ROLLBACK or by the exit included.
ToolsAnswered ==
    \A c \in Tool : client[c].state \in {"await", "awaitDone"} ~>
                        client[c].state \in {"idle", "gone"}
=============================================================================
