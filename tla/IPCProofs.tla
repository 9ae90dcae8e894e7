----------------------------- MODULE IPCProofs -----------------------------
(***************************************************************************)
(* The invariants of IPC, for every number of clients and of requests.     *)
(***************************************************************************)
EXTENDS IPC, FiniteSetTheorems, TLAPS

TasksOf(c) == {t \in task : t.client = c}

\* The requests of a connection are numbered in the order they are sent, and what
\* is being handled was sent before what is still on the way.
RequestsNumbered ==
    \A c \in Client :
        /\ Len(request[c]) <= client[c].sent
        /\ \A i \in 1 .. Len(request[c]) :
              /\ request[c][i].id = client[c].sent - Len(request[c]) + i
              /\ request[c][i].msg \in RequestsOf(c)
        /\ \A t \in TasksOf(c) : t.id <= client[c].sent - Len(request[c])

\* A goroutine is known by its connection and the id of its request.
TasksDistinct ==
    \A t, u \in task : t.client = u.client /\ t.id = u.id => t = u

\* Only CALCULATE and an undecodable message take steps of their own.
StepsOfMessage ==
    \A t \in task :
        /\ t.msg \in RequestsOf(t.client)
        /\ t.step \in {"check", "load", "calculating", "done"} => t.msg = "calculate"
        /\ t.step = "working" => t.msg # "calculate"

\* RC's side of a connection follows the client's.
ConnFollowsClient ==
    \A c \in Client :
        /\ client[c].state = "dial" => conn[c] = "none"
        /\ conn[c] = "none" => client[c].state = "dial" /\ request[c] = <<>> /\ TasksOf(c) = {}
        /\ conn[c] = "closed" <=> client[c].state = "gone"

\* ROLLBACK is handled in the receiving goroutine, so a connection handles one at
\* a time and its receiving goroutine waits for it.
RollbackBlocks ==
    \A t \in task : t.msg = "rollback" =>
        /\ conn[t.client] \in {"busy", "closed"}
        /\ \A u \in TasksOf(t.client) : u.id <= t.id

\* The wait group counts the handlers that counted themselves and are not done.
Counted == AtDB \cup {"done", "failed"}
CountedIds == {<<t.client, t.id>> : t \in {u \in task : u.step \in Counted}}
WaitGroupCounts ==
    /\ IsFiniteSet(CountedIds)
    /\ exit # "gone" => waitGroup = Cardinality(CountedIds)

\* When the process has ended nothing is left of it.
Ended == exit = "gone" => task = {} /\ \A c \in Client : conn[c] = "closed"

\* What a tool that waits for a response has outstanding: its request, ...
Nothing(c) == request[c] = <<>> /\ TasksOf(c) = {}
Outgoing(c) ==
    /\ Len(request[c]) = 1 /\ request[c][1].msg = client[c].want
    /\ TasksOf(c) = {} /\ response[c] = <<>>

\* ... a goroutine that has not answered yet or, for CALCULATE, has sent the first of
\* two responses, ...
Handled(c) ==
    /\ request[c] = <<>>
    /\ \E t \in task :
          /\ TasksOf(c) = {t} /\ t.msg = client[c].want
          /\ \/ /\ response[c] = <<>>
                /\ t.msg = "calculate" => t.step \in {"spawned", "check", "load"}
             \/ /\ Len(response[c]) = 1 /\ response[c][1].msg = "calculate"
                /\ t.msg = "calculate" /\ t.step \in {"calculating", "done", "send"}

\* ... or all of the answer.
Answered(c) ==
    /\ Nothing(c)
    /\ IF client[c].want = "calculate"
       THEN Len(response[c]) = 2 /\ response[c][1].msg = "calculate" /\ response[c][2].msg = "done"
       ELSE Len(response[c]) = 1 /\ response[c][1].msg = client[c].want

\* What is outstanding while the tool waits for CALCULATE_DONE.
Finishing(c) ==
    \/ /\ request[c] = <<>> /\ response[c] = <<>>
       /\ \E t \in task : /\ TasksOf(c) = {t} /\ t.msg = "calculate"
                          /\ t.step \in {"calculating", "done", "send"}
    \/ Nothing(c) /\ Len(response[c]) = 1 /\ response[c][1].msg = "done"

\* The exchange of a tool: one request at a time, and nothing between two.
Exchange(c) ==
    /\ client[c].state \in {"dial", "gone"} => Nothing(c)
    /\ client[c].state \in {"dial", "flush", "idle"} => client[c].got \in {"none", client[c].want}
    /\ client[c].state = "flush" =>
          Nothing(c) /\ Len(response[c]) = 1 /\ response[c][1].msg = "ready"
    /\ client[c].state = "idle" => Nothing(c) /\ response[c] = <<>>
    /\ client[c].state = "await" => Outgoing(c) \/ Handled(c) \/ Answered(c)
    /\ client[c].state = "awaitDone" =>
          client[c].want = "calculate" /\ client[c].got = "calculate" /\ Finishing(c)

ToolsExchange == \A c \in Tool : ~client[c].refused => Exchange(c)

\* One client asks for calculations, and waits for each: what RC is made for.
OneCalculator == Calculators \subseteq Tool /\ \A c, d \in Calculators : c = d

\* While a reload runs DBInfo says so, and nothing else is calculated.
ReloadAlone ==
    (\A c \in Calculators : ~client[c].refused) /\ reload # "none" =>
        calculating /\ At("load") = {} /\ At("calculating") = {}

\* What holds whatever the clients ask for.
IPCInv ==
    /\ IPCTypeOK /\ RequestsNumbered /\ TasksDistinct /\ StepsOfMessage
    /\ ConnFollowsClient /\ RollbackBlocks /\ WaitGroupCounts /\ CountedTasksFinish
    /\ Ended

-----------------------------------------------------------------------------
(* The records a step writes. *)

(* Messages are appended to a connection and taken from its head. *)
LEMMA Queue ==
    ASSUME NEW S, NEW q \in Seq(S)
    PROVE  /\ <<>> \in Seq(S) /\ Len(q) \in Nat
           /\ q = <<>> <=> Len(q) = 0
           /\ \A m \in S : /\ Append(q, m) \in Seq(S) /\ <<m>> \in Seq(S)
                           /\ Len(Append(q, m)) = Len(q) + 1
                           /\ Append(q, m)[Len(q) + 1] = m
                           /\ \A i \in 1 .. Len(q) : Append(q, m)[i] = q[i]
           /\ q # <<>> => /\ Head(q) = q[1] /\ Head(q) \in S
                          /\ Tail(q) \in Seq(S) /\ Len(Tail(q)) = Len(q) - 1
                          /\ \A i \in 1 .. Len(q) - 1 : Tail(q)[i] = q[i + 1]
OBVIOUS

(* What is left of one message, and of two. *)
LEMMA Taken ==
    ASSUME NEW S, NEW q \in Seq(S)
    PROVE  /\ Len(q) = 1 => Tail(q) = <<>> /\ Head(q) = q[1]
           /\ Len(q) = 2 => Len(Tail(q)) = 1 /\ Tail(q)[1] = q[2] /\ Head(q) = q[1]
<1>1. CASE Len(q) = 1
  <2>1. q # <<>> /\ Len(Tail(q)) = 0 /\ Tail(q) \in Seq(S)
    BY <1>1
  <2>2. \A s \in Seq(S) : Len(s) = 0 => s = <<>>
    OBVIOUS
  <2>3. Head(q) = q[1]
    BY <2>1
  <2>4. Tail(q) = <<>>
    BY <2>1, <2>2, Zenon
  <2>5. Len(q) # 2
    BY <1>1
  <2> QED
    BY <2>3, <2>4, <2>5, Zenon
<1>2. CASE Len(q) = 2
  <2>1. q # <<>> /\ 1 \in 1 .. Len(q) - 1 /\ Len(q) - 1 = 1
    BY <1>2
  <2> QED
    BY <1>2, <2>1, Queue
<1> QED
  BY <1>1, <1>2

(* A message is of its type, and so is what Sent leaves on the connections. *)
LEMMA SentType ==
    ASSUME IPCTypeOK, NEW c \in Client, NEW m \in MessageRecord
    PROVE  /\ Sent(c, m) \in [Client -> Seq(MessageRecord)]
           /\ \A d \in Client : d # c => Sent(c, m)[d] = response[d]
           /\ conn[c] # "closed" => Sent(c, m)[c] = Append(response[c], m)
BY DEF IPCTypeOK, Sent

(* Messages have the fields they are made of. *)
LEMMA MessageType ==
    ASSUME NEW msg \in Requests \cup {"ready", "done"}, NEW id \in 0 .. MaxRequests,
           NEW ok \in BOOLEAN
    PROVE  /\ Message(msg, id, ok) \in MessageRecord
           /\ Message(msg, id, ok).msg = msg /\ Message(msg, id, ok).id = id
           /\ Message(msg, id, ok).ok = ok
BY DEF Message, MessageRecord

(* A tool and ICON Service send the requests the module types. *)
LEMMA RequestsTyped == \A c : RequestsOf(c) \subseteq Requests
BY DEF RequestsOf, Requests

(* The first request of a connection becomes a goroutine of its own. *)
LEMMA NewTask ==
    ASSUME IPCTypeOK, RequestsNumbered, NEW c \in Client, request[c] # <<>>
    PROVE  /\ Task(c, Head(request[c])) \in TaskRecord
           /\ Task(c, Head(request[c])).client = c
           /\ Task(c, Head(request[c])).id = client[c].sent - Len(request[c]) + 1
           /\ Task(c, Head(request[c])).msg = Head(request[c]).msg
           /\ Head(request[c]).msg \in RequestsOf(c)
           /\ Task(c, Head(request[c])).step = "spawned"
<1>1. /\ request[c] \in Seq(MessageRecord) /\ Len(request[c]) \in Nat \ {0}
      /\ Head(request[c]) = request[c][1]
  BY DEF IPCTypeOK
<1>2. /\ request[c][1].id = client[c].sent - Len(request[c]) + 1
      /\ request[c][1].msg \in RequestsOf(c)
  BY <1>1 DEF RequestsNumbered
<1>3. /\ client[c].sent \in 0 .. MaxRequests /\ Len(request[c]) <= client[c].sent
  BY DEF IPCTypeOK, ClientRecord, RequestsNumbered
<1>4. request[c][1].id \in 1 .. MaxRequests
  BY <1>1, <1>2, <1>3, IPCAssumption
<1> QED
  BY <1>1, <1>2, <1>4, RequestsTyped DEF Task, TaskRecord

-----------------------------------------------------------------------------
(* Steps that keep the goroutines and change what they do. *)

(* G says what becomes of each goroutine. *)
Keeps(G) ==
    /\ G \in [task -> TaskRecord]
    /\ \A t \in task : G[t].client = t.client /\ G[t].id = t.id /\ G[t].msg = t.msg
    /\ task' = {G[t] : t \in task}

(* Such a step leaves the order of the goroutines alone. *)
LEMMA KeepsOrder ==
    ASSUME IPCInv, NEW G, Keeps(G), UNCHANGED <<request, client, conn>>
    PROVE  /\ task' \subseteq TaskRecord /\ RequestsNumbered' /\ TasksDistinct'
           /\ ConnFollowsClient' /\ RollbackBlocks'
           /\ \A t \in task' : t.msg \in RequestsOf(t.client)
<1> USE DEF Keeps, IPCInv
<1>1. task' \subseteq TaskRecord
  OBVIOUS
<1>2. RequestsNumbered'
  BY DEF RequestsNumbered, TasksOf
<1>3. TasksDistinct'
  BY DEF TasksDistinct
<1>4. ConnFollowsClient'
  BY DEF ConnFollowsClient, TasksOf
<1>5. RollbackBlocks'
  BY DEF RollbackBlocks, TasksOf
<1> QED
  BY <1>1, <1>2, <1>3, <1>4, <1>5 DEF StepsOfMessage

(* The count is left alone when each goroutine stays counted or uncounted. *)
LEMMA KeepsCount ==
    ASSUME NEW G, Keeps(G), \A t \in task : G[t].step \in Counted <=> t.step \in Counted
    PROVE  CountedIds' = CountedIds
BY DEF Keeps, CountedIds

(* Replacing a goroutine is such a step. *)
LEMMA ReplaceKeeps ==
    ASSUME IPCTypeOK, NEW t \in task, NEW u \in TaskRecord, Replace(t, u),
           u.client = t.client, u.id = t.id, u.msg = t.msg
    PROVE  Keeps([x \in task |-> IF x = t THEN u ELSE x])
BY DEF Keeps, Replace, IPCTypeOK

(* What a handler writes of itself when it takes a step. *)
LEMMA StepFields ==
    ASSUME NEW t \in TaskRecord, NEW step \in AtDB \cup {"spawned", "done", "send", "failed"}
    PROVE  /\ [t EXCEPT !.step = step] \in TaskRecord
           /\ [t EXCEPT !.step = step].step = step
           /\ [t EXCEPT !.step = step].client = t.client
           /\ [t EXCEPT !.step = step].id = t.id
           /\ [t EXCEPT !.step = step].msg = t.msg
           /\ [t EXCEPT !.step = step].early = t.early
BY DEF TaskRecord

(* What a handler writes of itself when it counts itself. *)
LEMMA EarlyFields ==
    ASSUME NEW t \in TaskRecord, NEW step \in AtDB \cup {"spawned", "done", "send", "failed"}
    PROVE  LET early == exit \in {"running", "wait"}
               u == [t EXCEPT !.step = step, !.early = early]
           IN  /\ u \in TaskRecord /\ u.client = t.client /\ u.id = t.id /\ u.msg = t.msg
               /\ u.step = step /\ u.early = early
<1> DEFINE early == exit \in {"running", "wait"}
           u == [t EXCEPT !.step = step, !.early = early]
<1>0. early \in BOOLEAN
  OBVIOUS
<1>1. PICK e \in BOOLEAN : e = early
  <2> HIDE DEF early
  <2> QED
    BY <1>0
<1>2. u = [t EXCEPT !.step = step, !.early = e]
  BY <1>1
<1> HIDE DEF u, early
<1>3. /\ u \in TaskRecord /\ u.client = t.client /\ u.id = t.id /\ u.msg = t.msg
      /\ u.step = step /\ u.early = early
  BY <1>1, <1>2 DEF TaskRecord
<1> QED
  BY <1>3 DEF u, early

(* What a calculation is told when it is canceled. *)
LEMMA QuitFields ==
    ASSUME NEW t \in TaskRecord
    PROVE  /\ [t EXCEPT !.quit = TRUE] \in TaskRecord
           /\ [t EXCEPT !.quit = TRUE].step = t.step
           /\ [t EXCEPT !.quit = TRUE].client = t.client
           /\ [t EXCEPT !.quit = TRUE].id = t.id
           /\ [t EXCEPT !.quit = TRUE].msg = t.msg
           /\ [t EXCEPT !.quit = TRUE].early = t.early
BY DEF TaskRecord

-----------------------------------------------------------------------------
(* The clients. *)

(* What the steps of the clients leave alone. *)
LEMMA TasksSame ==
    ASSUME IPCInv, UNCHANGED <<task, waitGroup, exit>>,
           exit = "gone" => \A c \in Client : conn'[c] = "closed"
    PROVE  /\ TasksDistinct' /\ StepsOfMessage' /\ WaitGroupCounts' /\ CountedTasksFinish'
           /\ Ended' /\ CountedIds' = CountedIds
BY DEF IPCInv, Ended, TasksDistinct, StepsOfMessage, WaitGroupCounts, CountedIds, CountedTasksFinish

(* Connect keeps the invariant: nothing of the connection is handled yet. *)
LEMMA ConnectInv == ASSUME IPCInv, NEW c \in Client, Connect(c) PROVE IPCInv'
<1> USE DEF IPCInv, Connect
<1>1. IPCTypeOK'
  <2>1. IPCAssumption /\ 0 \in 0 .. MaxRequests
    BY IPCAssumption
  <2>4. Message("ready", 0, TRUE) \in MessageRecord
    BY <2>1, MessageType
  <2>2. \A r \in MessageRecord : <<r>> \in Seq(MessageRecord)
    OBVIOUS
  <2>3. client' \in [Client -> ClientRecord]
    BY DEF IPCTypeOK, ClientRecord
  <2> QED
    BY <2>2, <2>3, <2>4 DEF IPCTypeOK
<1>2. RequestsNumbered'
  BY DEF RequestsNumbered, TasksOf, IPCTypeOK, ClientRecord
<1>3. ConnFollowsClient' /\ RollbackBlocks'
  BY DEF ConnFollowsClient, RollbackBlocks, TasksOf, IPCTypeOK, ClientRecord, TaskRecord
<1> QED
  BY <1>1, <1>2, <1>3, TasksSame DEF Ended, IPCTypeOK

(* FlushReady keeps the invariant. *)
LEMMA FlushReadyInv == ASSUME IPCInv, NEW c \in Client, FlushReady(c) PROVE IPCInv'
<1>1. /\ client \in [Client -> ClientRecord] /\ Tail(response[c]) \in Seq(MessageRecord)
  BY DEF IPCInv, IPCTypeOK, FlushReady
<1>2. PICK state \in {"flush", "idle"} : client' = [client EXCEPT ![c].state = state]
  BY <1>1 DEF FlushReady
<1>3. /\ client' \in [Client -> ClientRecord] /\ client'[c].sent = client[c].sent
      /\ client'[c].state \in {"flush", "idle"}
      /\ \A d \in Client : d # c => client'[d] = client[d]
  BY <1>1, <1>2 DEF ClientRecord
<1>4. IPCTypeOK'
  BY <1>1, <1>3 DEF IPCTypeOK, IPCInv, FlushReady, Take
<1>5. RequestsNumbered'
  BY <1>3 DEF RequestsNumbered, TasksOf, IPCInv, FlushReady
<1>6. ConnFollowsClient' /\ RollbackBlocks'
  BY <1>3 DEF ConnFollowsClient, RollbackBlocks, TasksOf, IPCInv, FlushReady
<1> QED
  BY <1>4, <1>5, <1>6, TasksSame DEF IPCInv, FlushReady, Ended

(* A request is numbered after those that were sent before. *)
LEMMA SendRequestInv ==
    ASSUME IPCInv, NEW c \in Client, NEW msg \in RequestsOf(c), SendRequest(c, msg)
    PROVE  IPCInv'
<1> DEFINE m == Message(msg, client[c].sent + 1, TRUE)
<1>1. /\ client[c] \in ClientRecord /\ client[c].sent \in Nat
      /\ client[c].sent + 1 \in 0 .. MaxRequests /\ msg \in Requests
      /\ request \in [Client -> Seq(MessageRecord)] /\ client \in [Client -> ClientRecord]
  BY IPCAssumption, RequestsTyped DEF IPCInv, SendRequest, IPCTypeOK, ClientRecord
<1>2. m \in MessageRecord /\ m.msg = msg /\ m.id = client[c].sent + 1
  BY <1>1, MessageType
<1> HIDE DEF m
<1>3. /\ request'[c] = Append(request[c], m)
      /\ \A d \in Client : d # c => request'[d] = request[d]
      /\ DOMAIN request' = Client /\ request' = [d \in Client |-> request'[d]]
  BY <1>1 DEF m, SendRequest
<1>4. /\ client'[c].sent = client[c].sent + 1
      /\ client'[c].state \in {"idle", "await"} /\ client' \in [Client -> ClientRecord]
      /\ \A d \in Client : d # c => client'[d] = client[d]
  BY <1>1 DEF ClientRecord, SendRequest
<1>5. /\ request'[c] \in Seq(MessageRecord) /\ Len(request'[c]) = Len(request[c]) + 1
      /\ Len(request[c]) \in Nat
      /\ \A i \in 1 .. Len(request[c]) : request'[c][i] = request[c][i]
      /\ request'[c][Len(request[c]) + 1] = m
  BY <1>1, <1>2, <1>3, Queue
<1>6. IPCTypeOK'
  <2>1. request' \in [Client -> Seq(MessageRecord)]
    BY <1>1, <1>3, <1>5
  <2> QED
    BY <2>1, <1>4 DEF IPCTypeOK, IPCInv, SendRequest
<1>7. RequestsNumbered'
  <2> SUFFICES ASSUME NEW d \in Client
               PROVE  /\ Len(request'[d]) <= client'[d].sent
                      /\ \A i \in 1 .. Len(request'[d]) :
                            /\ request'[d][i].id = client'[d].sent - Len(request'[d]) + i
                            /\ request'[d][i].msg \in RequestsOf(d)
                      /\ \A t \in TasksOf(d) : t.id <= client'[d].sent - Len(request'[d])
    BY DEF RequestsNumbered, TasksOf, RequestsOf, SendRequest
  <2>1. CASE d # c
    BY <2>1, <1>3, <1>4 DEF RequestsNumbered, IPCInv
  <2>2. CASE d = c
    <3>1. \A t \in TasksOf(c) : t.id \in Nat /\ t.id <= client[c].sent - Len(request[c])
      BY IPCAssumption DEF TasksOf, IPCTypeOK, TaskRecord, RequestsNumbered, IPCInv
    <3>2. /\ Len(request[c]) <= client[c].sent
          /\ \A i \in 1 .. Len(request[c]) :
              /\ request[c][i].id = client[c].sent - Len(request[c]) + i
              /\ request[c][i].msg \in RequestsOf(c)
      BY DEF RequestsNumbered, IPCInv
    <3>3. ASSUME NEW i \in 1 .. Len(request'[c])
          PROVE  /\ request'[c][i].id = client'[c].sent - Len(request'[c]) + i
                 /\ request'[c][i].msg \in RequestsOf(c)
      <4>1. CASE i = Len(request[c]) + 1
        BY <4>1, <1>1, <1>2, <1>4, <1>5
      <4>2. CASE i \in 1 .. Len(request[c])
        <5>1. request'[c][i] = request[c][i]
          BY <4>2, <1>5
        <5>2. client'[c].sent - Len(request'[c]) + i = client[c].sent - Len(request[c]) + i
          BY <4>2, <1>1, <1>4, <1>5
        <5> QED
          BY <4>2, <5>1, <5>2, <3>2
      <4> QED
        BY <4>1, <4>2, <1>5
    <3> QED
      BY <2>2, <3>1, <3>2, <3>3, <1>1, <1>4, <1>5
  <2> QED
    BY <2>1, <2>2
<1>8. ConnFollowsClient' /\ RollbackBlocks'
  BY <1>3, <1>4 DEF ConnFollowsClient, RollbackBlocks, TasksOf, IPCInv, SendRequest
<1> QED
  BY <1>6, <1>7, <1>8, TasksSame DEF SendRequest, IPCInv, Ended

(* Receive keeps the invariant. *)
LEMMA ReceiveInv == ASSUME IPCInv, NEW c \in Client, Receive(c) PROVE IPCInv'
<1> USE DEF IPCInv, Receive, Take
<1>1. /\ client[c] \in ClientRecord /\ Head(response[c]) \in MessageRecord
      /\ Tail(response[c]) \in Seq(MessageRecord)
  BY DEF IPCTypeOK
<1>2. /\ AfterResponse(client[c], Head(response[c])) \in ClientRecord
      /\ AfterResponse(client[c], Head(response[c])).sent = client[c].sent
      /\ AfterResponse(client[c], Head(response[c])).state \in {"idle", "awaitDone"}
  BY <1>1 DEF AfterResponse, ClientRecord, MessageRecord
<1>3. /\ client' \in [Client -> ClientRecord]
      /\ \A d \in Client : d # c => client'[d] = client[d]
      /\ client'[c].sent = client[c].sent
      /\ client'[c].state \in {"idle", "awaitDone"}
  BY <1>1, <1>2 DEF IPCTypeOK, ClientRecord
<1>4. IPCTypeOK'
  BY <1>1, <1>3 DEF IPCTypeOK
<1>5. RequestsNumbered'
  BY <1>3 DEF RequestsNumbered, TasksOf
<1>6. ConnFollowsClient' /\ RollbackBlocks'
  BY <1>3 DEF ConnFollowsClient, RollbackBlocks, TasksOf
<1> QED
  BY <1>4, <1>5, <1>6, TasksSame DEF Ended

(* ServiceReceive keeps the invariant. *)
LEMMA ServiceReceiveInv == ASSUME IPCInv, NEW c \in Client, ServiceReceive(c) PROVE IPCInv'
<1> USE DEF IPCInv, ServiceReceive, Take
<1>1. IPCTypeOK'
  BY DEF IPCTypeOK
<1>2. RequestsNumbered' /\ ConnFollowsClient' /\ RollbackBlocks'
  BY DEF RequestsNumbered, ConnFollowsClient, RollbackBlocks, TasksOf
<1> QED
  BY <1>1, <1>2, TasksSame DEF Ended

(* Disconnect keeps the invariant: what is handled stays, and ends unanswered. *)
LEMMA DisconnectInv == ASSUME IPCInv, NEW c \in Client, Disconnect(c) PROVE IPCInv'
<1> USE DEF IPCInv, Disconnect
<1>1. IPCTypeOK'
  <2>1. <<>> \in Seq(MessageRecord)
    OBVIOUS
  <2>2. client' \in [Client -> ClientRecord]
    BY DEF IPCTypeOK, ClientRecord
  <2>3. /\ request' \in [Client -> Seq(MessageRecord)]
        /\ response' \in [Client -> Seq(MessageRecord)]
    BY <2>1 DEF IPCTypeOK
  <2> QED
    BY <2>2, <2>3 DEF IPCTypeOK
<1>2. RequestsNumbered'
  <2>1. /\ request'[c] = <<>> /\ client'[c].sent = client[c].sent
        /\ client[c].sent \in Nat /\ Len(request[c]) \in Nat
        /\ \A d \in Client : d # c => request'[d] = request[d] /\ client'[d] = client[d]
    BY IPCAssumption DEF IPCTypeOK, ClientRecord
  <2>2. \A t \in task : t.id \in Nat
    BY IPCAssumption DEF IPCTypeOK, TaskRecord
  <2> QED
    BY <2>1, <2>2 DEF RequestsNumbered, TasksOf
<1>3. ConnFollowsClient' /\ RollbackBlocks'
  BY DEF ConnFollowsClient, RollbackBlocks, TasksOf, IPCTypeOK, ClientRecord, TaskRecord
<1> QED
  BY <1>1, <1>2, <1>3, TasksSame DEF Ended, IPCTypeOK

-----------------------------------------------------------------------------
(* RC handles messages. *)

(* A message becomes a goroutine that is numbered after those of its connection. *)
LEMMA HandleMessageInv == ASSUME IPCInv, NEW c \in Client, HandleMessage(c) PROVE IPCInv'
<1> DEFINE n == Task(c, Head(request[c]))
<1>1. /\ n \in TaskRecord /\ n.client = c /\ n.id = client[c].sent - Len(request[c]) + 1
      /\ n.msg = Head(request[c]).msg /\ n.msg \in RequestsOf(c) /\ n.step = "spawned"
  BY NewTask DEF IPCInv, HandleMessage
<1>2. /\ task' = task \cup {n} /\ conn' = [conn EXCEPT ![c] = Dispatch(n.msg)]
      /\ request' = [request EXCEPT ![c] = Tail(request[c])]
      /\ conn[c] = "open" /\ request[c] # <<>>
      /\ UNCHANGED <<response, waitGroup, calculating, reload, exit, client>>
  BY <1>1 DEF HandleMessage
<1> HIDE DEF n
<1>3. /\ request \in [Client -> Seq(MessageRecord)] /\ task \subseteq TaskRecord
      /\ conn \in [Client -> {"none", "open", "busy", "closed"}]
      /\ client[c].sent \in Nat /\ Len(request[c]) \in Nat \ {0}
  BY <1>2, IPCAssumption DEF IPCInv, IPCTypeOK, ClientRecord
<1>4. /\ request'[c] \in Seq(MessageRecord) /\ Len(request'[c]) = Len(request[c]) - 1
      /\ \A i \in 1 .. Len(request'[c]) : request'[c][i] = request[c][i + 1]
      /\ \A d \in Client : d # c => request'[d] = request[d]
  BY <1>2, <1>3, Queue
<1>5. Dispatch(n.msg) \in {"open", "busy"} /\ (n.msg = "rollback" => Dispatch(n.msg) = "busy")
  BY DEF Dispatch
<1>6. \A t \in task : t.client = c => t.id \in Nat /\ t.id < n.id
  BY <1>1, <1>3, IPCAssumption DEF IPCInv, RequestsNumbered, TasksOf, TaskRecord
<1>7. \A t \in task : t.msg = "rollback" => t.client # c
  BY <1>2 DEF IPCInv, RollbackBlocks
<1>8. IPCTypeOK'
  BY <1>1, <1>2, <1>3, <1>4, <1>5 DEF IPCInv, IPCTypeOK
<1>9. RequestsNumbered'
  <2> SUFFICES ASSUME NEW d \in Client
               PROVE  /\ Len(request'[d]) <= client[d].sent
                      /\ \A i \in 1 .. Len(request'[d]) :
                            /\ request'[d][i].id = client[d].sent - Len(request'[d]) + i
                            /\ request'[d][i].msg \in RequestsOf(d)
                      /\ \A t \in TasksOf(d)' : t.id <= client[d].sent - Len(request'[d])
    BY <1>2 DEF RequestsNumbered, RequestsOf, TasksOf
  <2>0. /\ Len(request[d]) <= client[d].sent
        /\ \A i \in 1 .. Len(request[d]) :
              /\ request[d][i].id = client[d].sent - Len(request[d]) + i
              /\ request[d][i].msg \in RequestsOf(d)
        /\ \A t \in TasksOf(d) : t.id <= client[d].sent - Len(request[d])
    BY DEF IPCInv, RequestsNumbered
  <2>1. CASE d # c
    BY <2>0, <2>1, <1>1, <1>2, <1>4 DEF TasksOf
  <2>2. CASE d = c
    <3>1. \A t \in TasksOf(c)' : t.id <= client[c].sent - Len(request'[c])
      BY <1>1, <1>2, <1>3, <1>4, <1>6 DEF TasksOf
    <3>2. ASSUME NEW i \in 1 .. Len(request'[c])
          PROVE  /\ request'[c][i].id = client[c].sent - Len(request'[c]) + i
                 /\ request'[c][i].msg \in RequestsOf(c)
      <4>1. i + 1 \in 1 .. Len(request[c]) /\ request'[c][i] = request[c][i + 1]
        BY <1>3, <1>4
      <4>2. client[c].sent - Len(request[c]) + (i + 1) = client[c].sent - Len(request'[c]) + i
        <5> DEFINE sent == client[c].sent
                   len == Len(request[c])
                   left == Len(request'[c])
        <5>1. sent \in Int /\ len \in Int /\ i \in Int /\ left = len - 1
          BY <1>3, <1>4
        <5>2. sent - len + (i + 1) = sent - left + i
          <6> HIDE DEF sent, len, left
          <6> QED
            BY <5>1
        <5> QED
          BY <5>2
      <4> QED
        BY <4>1, <4>2, <2>0, <2>2
    <3> QED
      BY <2>0, <2>2, <3>1, <3>2, <1>3, <1>4
  <2> QED
    BY <2>1, <2>2
<1>10. TasksDistinct'
  BY <1>1, <1>2, <1>6 DEF IPCInv, TasksDistinct, TaskRecord
<1>11. StepsOfMessage'
  BY <1>1, <1>2 DEF IPCInv, StepsOfMessage, RequestsOf
<1>12. ConnFollowsClient'
  BY <1>1, <1>2, <1>3, <1>4, <1>5 DEF IPCInv, ConnFollowsClient, TasksOf
<1>13. RollbackBlocks'
  BY <1>1, <1>2, <1>3, <1>5, <1>6, <1>7 DEF IPCInv, RollbackBlocks, TasksOf, TaskRecord
<1>14. WaitGroupCounts'
  <2>1. CountedIds' = CountedIds
    BY <1>1, <1>2 DEF CountedIds, Counted, AtDB
  <2> QED
    BY <2>1, <1>2 DEF IPCInv, WaitGroupCounts
<1>15. CountedTasksFinish' /\ Ended'
  BY <1>1, <1>2 DEF IPCInv, CountedTasksFinish, AtDB, Ended
<1> QED
  BY <1>8, <1>9, <1>10, <1>11, <1>12, <1>13, <1>14, <1>15 DEF IPCInv

(* A counted goroutine is known to the wait group. *)
LEMMA CountedPositive ==
    ASSUME IPCInv, NEW t \in task, t.step \in Counted
    PROVE  waitGroup \in Nat \ {0} /\ <<t.client, t.id>> \in CountedIds
<1>1. <<t.client, t.id>> \in CountedIds
  BY DEF CountedIds
<1>2. IsFiniteSet(CountedIds) /\ CountedIds # {} /\ waitGroup = Cardinality(CountedIds)
  BY <1>1 DEF IPCInv, WaitGroupCounts, Ended
<1> QED
  BY <1>1, <1>2, FS_EmptySet, FS_CardinalityType

(* Only one goroutine has the id of t. *)
LEMMA UncountOne ==
    ASSUME IPCInv, NEW t \in task, NEW G, Keeps(G), t.step \in Counted, G[t].step \notin Counted,
           \A x \in task : x # t => (G[x].step \in Counted <=> x.step \in Counted),
           waitGroup' = waitGroup - 1, exit' = exit
    PROVE  WaitGroupCounts' /\ waitGroup' \in Nat
<1>1. CountedIds' = CountedIds \ {<<t.client, t.id>>}
  BY DEF CountedIds, Keeps, IPCInv, TasksDistinct
<1>2. waitGroup \in Nat \ {0} /\ <<t.client, t.id>> \in CountedIds
  BY CountedPositive
<1>3. IsFiniteSet(CountedIds) /\ (exit # "gone" => waitGroup = Cardinality(CountedIds))
  BY DEF IPCInv, WaitGroupCounts
<1>4. /\ IsFiniteSet(CountedIds')
      /\ Cardinality(CountedIds') = Cardinality(CountedIds) - 1
  BY <1>1, <1>2, <1>3, FS_RemoveElement
<1> QED
  BY <1>2, <1>3, <1>4 DEF WaitGroupCounts

(* The goroutine counts itself. *)
LEMMA AddMsgTaskInv ==
    ASSUME IPCInv, NEW t \in At("spawned"), AddMsgTask(t)
    PROVE  IPCInv'
<1> DEFINE early == exit \in {"running", "wait"}
           u == [t EXCEPT !.step = FirstStep(t.msg), !.early = early]
           G == [x \in task |-> IF x = t THEN u ELSE x]
<1>1. t \in task /\ t.step = "spawned" /\ t \in TaskRecord /\ t.msg \in Requests
  BY DEF At, IPCInv, IPCTypeOK, TaskRecord
<1>2. /\ FirstStep(t.msg) \in AtDB \cup {"failed"} /\ FirstStep(t.msg) # "load"
      /\ FirstStep(t.msg) # "calculating"
      /\ FirstStep(t.msg) = "check" => t.msg = "calculate"
      /\ FirstStep(t.msg) = "working" => t.msg # "calculate"
  BY <1>1 DEF FirstStep, AtDB, Requests
<1>3. /\ u \in TaskRecord /\ u.client = t.client /\ u.id = t.id /\ u.msg = t.msg
      /\ u.step = FirstStep(t.msg) /\ u.early = early
      /\ exit = "closed" => ~early
  <2>1. FirstStep(t.msg) \in AtDB \cup {"spawned", "done", "send", "failed"}
    BY <1>2
  <2>2. /\ u \in TaskRecord /\ u.client = t.client /\ u.id = t.id /\ u.msg = t.msg
        /\ u.step = FirstStep(t.msg) /\ u.early = early
    BY <2>1, <1>1, EarlyFields
  <2> QED
    BY <2>2
<1>4. /\ Replace(t, u) /\ waitGroup' = waitGroup + 1
      /\ UNCHANGED <<conn, request, response, calculating, reload, exit, client>>
  BY DEF AddMsgTask
<1> HIDE DEF u, early
<1>5. Keeps(G)
  BY <1>1, <1>3, <1>4, ReplaceKeeps DEF IPCInv
<1>6. G[t] = u /\ \A x \in task : x # t => G[x] = x
  BY <1>1
<1> HIDE DEF G
<1>7. /\ task' \subseteq TaskRecord /\ RequestsNumbered' /\ TasksDistinct'
      /\ ConnFollowsClient' /\ RollbackBlocks'
      /\ \A x \in task' : x.msg \in RequestsOf(x.client)
  BY <1>4, <1>5, KeepsOrder
<1>8. IPCTypeOK'
  BY <1>4, <1>7 DEF IPCInv, IPCTypeOK
<1>9. StepsOfMessage'
  BY <1>2, <1>3, <1>5, <1>6, <1>7 DEF IPCInv, StepsOfMessage, Keeps, AtDB, RequestsOf
<1>10. WaitGroupCounts'
  <2>1. CountedIds' = CountedIds \cup {<<t.client, t.id>>}
    BY <1>1, <1>2, <1>3, <1>5, <1>6 DEF CountedIds, Keeps, Counted
  <2>2. <<t.client, t.id>> \notin CountedIds
    BY <1>1 DEF IPCInv, TasksDistinct, CountedIds, Counted, AtDB
  <2>3. /\ IsFiniteSet(CountedIds')
        /\ Cardinality(CountedIds') = Cardinality(CountedIds) + 1
    BY <2>1, <2>2, FS_AddElement DEF IPCInv, WaitGroupCounts
  <2> QED
    BY <2>3, <1>4 DEF IPCInv, WaitGroupCounts
<1>11. CountedTasksFinish' /\ Ended'
  BY <1>1, <1>3, <1>4, <1>5, <1>6 DEF IPCInv, CountedTasksFinish, Keeps, Ended
<1> QED
  BY <1>7, <1>8, <1>9, <1>10, <1>11 DEF IPCInv

(* A calculation takes a step and stays counted. *)
LEMMA CalculateStepInv ==
    ASSUME IPCInv, NEW t \in task, t.msg = "calculate", t.step \in {"check", "load", "calculating"},
           NEW step \in {"load", "calculating", "done"}, Replace(t, [t EXCEPT !.step = step]),
           UNCHANGED <<conn, request, waitGroup, reload, exit, client>>,
           response' \in [Client -> Seq(MessageRecord)], calculating' \in BOOLEAN
    PROVE  IPCInv'
<1> DEFINE u == [t EXCEPT !.step = step]
           G == [x \in task |-> IF x = t THEN u ELSE x]
<1>1. t \in TaskRecord /\ step \in AtDB \cup {"spawned", "done", "send", "failed"}
  BY DEF IPCInv, IPCTypeOK, AtDB
<1>2. /\ u \in TaskRecord /\ u.client = t.client /\ u.id = t.id /\ u.msg = t.msg
      /\ u.step = step /\ u.early = t.early
  BY <1>1, StepFields
<1> HIDE DEF u
<1>3. Keeps(G)
  BY <1>2, ReplaceKeeps DEF IPCInv, u
<1>4. G[t] = u /\ \A x \in task : x # t => G[x] = x
  OBVIOUS
<1> HIDE DEF G
<1>5. /\ task' \subseteq TaskRecord /\ RequestsNumbered' /\ TasksDistinct'
      /\ ConnFollowsClient' /\ RollbackBlocks'
      /\ \A x \in task' : x.msg \in RequestsOf(x.client)
  BY <1>3, KeepsOrder
<1>6. IPCTypeOK'
  BY <1>5 DEF IPCInv, IPCTypeOK
<1>7. StepsOfMessage'
  BY <1>2, <1>3, <1>4, <1>5 DEF IPCInv, StepsOfMessage, Keeps, RequestsOf
<1>8. CountedIds' = CountedIds
  BY <1>2, <1>3, <1>4, KeepsCount DEF Counted, AtDB
<1>9. WaitGroupCounts' /\ Ended'
  BY <1>8 DEF IPCInv, WaitGroupCounts, Ended
<1>10. CountedTasksFinish'
  BY <1>2, <1>3, <1>4 DEF IPCInv, CountedTasksFinish, Keeps, AtDB
<1> QED
  BY <1>5, <1>6, <1>7, <1>9, <1>10 DEF IPCInv

(* The answer of a goroutine is a message. *)
LEMMA TaskMessage ==
    ASSUME IPCInv, NEW t \in task
    PROVE  /\ t \in TaskRecord /\ t.client \in Client /\ t.msg \in Requests
           /\ t.id \in 0 .. MaxRequests
           /\ \A ok \in BOOLEAN, msg \in Requests \cup {"done"} :
                 Sent(t.client, Message(msg, t.id, ok)) \in [Client -> Seq(MessageRecord)]
<1>1. t \in TaskRecord /\ t.client \in Client /\ t.msg \in Requests /\ t.id \in 0 .. MaxRequests
  BY IPCAssumption DEF IPCInv, IPCTypeOK, TaskRecord
<1> QED
  BY <1>1, MessageType, SentType DEF IPCInv

(* DoCalculate keeps the invariant. *)
LEMMA DoCalculateInv ==
    ASSUME IPCInv, NEW t \in At("check"), DoCalculate(t)
    PROVE  IPCInv'
<1>1. t \in task /\ t.step = "check" /\ t.msg = "calculate"
  BY DEF At, IPCInv, StepsOfMessage
<1>2. PICK step \in {"load", "done"} :
         /\ Replace(t, [t EXCEPT !.step = step])
         /\ response' \in [Client -> Seq(MessageRecord)]
  BY <1>1, TaskMessage DEF DoCalculate, CheckCalculating, IPCInv, IPCTypeOK
<1> QED
  BY <1>1, <1>2, CalculateStepInv DEF DoCalculate, IPCInv, IPCTypeOK

(* LoadIISSData keeps the invariant. *)
LEMMA LoadIISSDataInv ==
    ASSUME IPCInv, NEW t \in At("load"), LoadIISSData(t)
    PROVE  IPCInv'
<1>1. t \in task /\ t.step = "load" /\ t.msg = "calculate"
  BY DEF At, IPCInv, StepsOfMessage
<1>2. PICK ok \in BOOLEAN :
         /\ calculating' = ok
         /\ Replace(t, [t EXCEPT !.step = IF ok THEN "calculating" ELSE "done"])
         /\ response' = Sent(t.client, Message("calculate", t.id, ok))
  BY DEF LoadIISSData
<1>3. response' \in [Client -> Seq(MessageRecord)] /\ calculating' \in BOOLEAN
  BY <1>1, <1>2, TaskMessage DEF Requests
<1>4. PICK step \in {"calculating", "done"} : Replace(t, [t EXCEPT !.step = step])
  BY <1>2
<1> QED
  BY <1>1, <1>3, <1>4, CalculateStepInv DEF LoadIISSData

(* FinishCalculation keeps the invariant. *)
LEMMA FinishCalculationInv ==
    ASSUME IPCInv, NEW t \in At("calculating"), FinishCalculation(t)
    PROVE  IPCInv'
<1>1. t \in task /\ t.step = "calculating" /\ t.msg = "calculate"
  BY DEF At, IPCInv, StepsOfMessage
<1>2. calculating' \in BOOLEAN
  BY DEF FinishCalculation
<1>3. response' \in [Client -> Seq(MessageRecord)]
  BY DEF FinishCalculation, IPCInv, IPCTypeOK
<1> QED
  BY <1>1, <1>2, <1>3, CalculateStepInv DEF FinishCalculation

(* A handler that is done is no longer counted. *)
LEMMA UncountInv ==
    ASSUME IPCInv, NEW t \in task, t.step \in Counted, NEW G, Keeps(G), G[t].step = "send",
           \A x \in task : x # t => G[x].step = x.step /\ G[x].early = x.early,
           waitGroup' = DoneMsgTask(t), reload' \in {"none", "running", "quit"},
           UNCHANGED <<conn, request, response, calculating, exit, client>>
    PROVE  IPCInv'
<1>1. /\ task' \subseteq TaskRecord /\ RequestsNumbered' /\ TasksDistinct'
      /\ ConnFollowsClient' /\ RollbackBlocks'
      /\ \A x \in task' : x.msg \in RequestsOf(x.client)
  BY KeepsOrder
<1>2. WaitGroupCounts' /\ waitGroup' \in Nat
  BY UncountOne DEF DoneMsgTask, Counted, AtDB
<1>3. IPCTypeOK'
  BY <1>1, <1>2 DEF IPCInv, IPCTypeOK
<1>4. StepsOfMessage'
  BY <1>1 DEF IPCInv, StepsOfMessage, Keeps, RequestsOf
<1>5. CountedTasksFinish' /\ Ended'
  BY DEF IPCInv, CountedTasksFinish, Keeps, AtDB, Ended
<1> QED
  BY <1>1, <1>2, <1>3, <1>4, <1>5 DEF IPCInv

(* FinishCalculate keeps the invariant. *)
LEMMA FinishCalculateInv ==
    ASSUME IPCInv, NEW t \in At("done"), FinishCalculate(t)
    PROVE  IPCInv'
<1> DEFINE u == [t EXCEPT !.step = "send"]
           G == [x \in task |-> IF x = t THEN u ELSE x]
<1>1. t \in task /\ t.step = "done" /\ t.step \in Counted /\ t \in TaskRecord
  BY DEF At, Counted, IPCInv, IPCTypeOK
<1>2. /\ u \in TaskRecord /\ u.client = t.client /\ u.id = t.id /\ u.msg = t.msg
      /\ u.step = "send"
  BY <1>1, StepFields
<1> HIDE DEF u
<1>3. Replace(t, u)
  BY DEF FinishCalculate, u
<1>4. Keeps(G) /\ G[t] = u /\ \A x \in task : x # t => G[x] = x
  BY <1>1, <1>2, <1>3, ReplaceKeeps DEF IPCInv
<1> HIDE DEF G
<1> QED
  BY <1>1, <1>2, <1>4, UncountInv DEF FinishCalculate, IPCInv, IPCTypeOK

(* FinishHandler changes the step of its goroutine only; ROLLBACK tells the *)
(* calculations to quit.                                                    *)
LEMMA FinishHandlerKeeps ==
    ASSUME IPCInv, NEW t \in At("working"), FinishHandler(t)
    PROVE  \E G : /\ Keeps(G) /\ G[t].step = "send"
                  /\ \A x \in task : x # t => G[x].step = x.step /\ G[x].early = x.early
<1> DEFINE u == [t EXCEPT !.step = "send"]
           canceled == {x \in task : t.msg = "rollback" /\ x.step = "calculating"}
           G == [x \in task |-> IF x = t THEN u
                                ELSE IF x \in canceled THEN [x EXCEPT !.quit = TRUE] ELSE x]
<1>1. t \in task /\ t.step = "working" /\ t.step \in Counted /\ t \in TaskRecord
  BY DEF At, Counted, AtDB, IPCInv, IPCTypeOK
<1>2. /\ u \in TaskRecord /\ u.client = t.client /\ u.id = t.id /\ u.msg = t.msg
      /\ u.step = "send"
  BY <1>1, StepFields
<1> HIDE DEF u
<1>3. task' = (task \ (canceled \cup {t})) \cup {u}
                  \cup {[x EXCEPT !.quit = TRUE] : x \in canceled}
  BY DEF FinishHandler, u
<1>4. t \notin canceled /\ canceled \subseteq task
  BY <1>1
<1>5. \A x \in task : /\ [x EXCEPT !.quit = TRUE] \in TaskRecord
                      /\ [x EXCEPT !.quit = TRUE].step = x.step
                      /\ [x EXCEPT !.quit = TRUE].client = x.client
                      /\ [x EXCEPT !.quit = TRUE].id = x.id
                      /\ [x EXCEPT !.quit = TRUE].msg = x.msg
                      /\ [x EXCEPT !.quit = TRUE].early = x.early
                      /\ x \in TaskRecord
  BY QuitFields DEF IPCInv, IPCTypeOK
<1> HIDE DEF canceled
<1>6. Keeps(G)
  <2>1. G \in [task -> TaskRecord]
    BY <1>2, <1>5
  <2>2. \A x \in task : G[x].client = x.client /\ G[x].id = x.id /\ G[x].msg = x.msg
    BY <1>2, <1>5
  <2>3. task' = {G[x] : x \in task}
    BY <1>1, <1>3, <1>4
  <2> QED
    BY <2>1, <2>2, <2>3 DEF Keeps
<1>7. /\ G[t].step = "send"
      /\ \A x \in task : x # t => G[x].step = x.step /\ G[x].early = x.early
  BY <1>1, <1>2, <1>5
<1> QED
  BY <1>6, <1>7

(* FinishHandler keeps the invariant. *)
LEMMA FinishHandlerInv ==
    ASSUME IPCInv, NEW t \in At("working"), FinishHandler(t)
    PROVE  IPCInv'
<1>1. PICK G : /\ Keeps(G) /\ G[t].step = "send"
               /\ \A x \in task : x # t => G[x].step = x.step /\ G[x].early = x.early
  BY FinishHandlerKeeps
<1>2. t \in task /\ t.step \in Counted
  BY DEF At, Counted, AtDB
<1> QED
  BY <1>1, <1>2, UncountInv DEF FinishHandler, IPCInv, IPCTypeOK

(* A goroutine ends; after ROLLBACK its connection receives again. *)
LEMMA SendResponseInv ==
    ASSUME IPCInv, NEW t \in At("send"), SendResponse(t)
    PROVE  IPCInv'
<1>1. t \in task /\ t.step = "send" /\ t.client \in Client /\ t.msg \in Requests
  BY DEF At, IPCInv, IPCTypeOK, TaskRecord
<1>2. /\ task' = task \ {t} /\ response' = Answer(t)
      /\ UNCHANGED <<request, waitGroup, calculating, reload, exit, client>>
  BY DEF SendResponse
<1>3. \/ UNCHANGED conn
      \/ /\ t.msg = "rollback" /\ conn[t.client] = "busy"
         /\ conn' = [conn EXCEPT ![t.client] = "open"]
  BY DEF SendResponse
<1>4. response' \in [Client -> Seq(MessageRecord)]
  BY <1>1, <1>2, TaskMessage DEF Answer
<1>5. IPCTypeOK'
  BY <1>2, <1>3, <1>4 DEF IPCInv, IPCTypeOK
<1>6. RequestsNumbered'
  BY <1>2 DEF IPCInv, RequestsNumbered, TasksOf
<1>7. TasksDistinct' /\ StepsOfMessage'
  BY <1>2 DEF IPCInv, TasksDistinct, StepsOfMessage
<1>8. ConnFollowsClient'
  BY <1>1, <1>2, <1>3 DEF IPCInv, ConnFollowsClient, TasksOf, IPCTypeOK
<1>9. RollbackBlocks'
  <2> SUFFICES ASSUME NEW u \in task', u.msg = "rollback"
               PROVE  /\ conn'[u.client] \in {"busy", "closed"}
                      /\ \A v \in TasksOf(u.client)' : v.id <= u.id
    BY DEF RollbackBlocks
  <2>1. u \in task /\ u # t /\ u.client \in Client /\ u.id \in Int
    BY <1>2, IPCAssumption DEF IPCInv, IPCTypeOK, TaskRecord
  <2>2. CASE u.client = t.client
    <3>1. CASE t.msg = "rollback"
      <4>1. t.id <= u.id /\ u.id <= t.id /\ t.id \in Int
        BY <1>1, <2>1, <2>2, <3>1, IPCAssumption
        DEF IPCInv, RollbackBlocks, TasksOf, IPCTypeOK, TaskRecord
      <4> QED
        BY <4>1, <1>1, <2>1, <2>2 DEF IPCInv, TasksDistinct
    <3>2. CASE t.msg # "rollback"
      BY <3>2, <1>2, <1>3, <2>1 DEF IPCInv, RollbackBlocks, TasksOf
    <3> QED
      BY <3>1, <3>2
  <2>3. CASE u.client # t.client
    BY <2>1, <2>3, <1>1, <1>2, <1>3 DEF IPCInv, RollbackBlocks, TasksOf, IPCTypeOK
  <2> QED
    BY <2>2, <2>3
<1>10. WaitGroupCounts'
  <2>1. CountedIds' = CountedIds
    BY <1>1, <1>2 DEF CountedIds, Counted, AtDB
  <2> QED
    BY <2>1, <1>2 DEF IPCInv, WaitGroupCounts
<1>11. CountedTasksFinish' /\ Ended'
  BY <1>1, <1>2, <1>3 DEF IPCInv, CountedTasksFinish, Ended
<1> QED
  BY <1>5, <1>6, <1>7, <1>8, <1>9, <1>10, <1>11 DEF IPCInv

(* The end of a reload keeps the invariant. *)
LEMMA EndReloadInv == ASSUME IPCInv, EndReload PROVE IPCInv'
<1>1. calculating' \in BOOLEAN /\ reload' = "none"
  BY DEF EndReload
<1>2. UNCHANGED <<conn, request, response, task, waitGroup, exit, client>>
  BY DEF EndReload
<1>3. IPCTypeOK'
  BY <1>1, <1>2 DEF IPCInv, IPCTypeOK
<1>4. RequestsNumbered' /\ ConnFollowsClient' /\ RollbackBlocks'
  BY <1>2 DEF IPCInv, RequestsNumbered, ConnFollowsClient, RollbackBlocks, TasksOf
<1> QED
  BY <1>2, <1>3, <1>4, TasksSame DEF IPCInv, Ended

-----------------------------------------------------------------------------
(* Close. *)

(* The signal tells the calculations to quit. *)
LEMMA NotifyExitKeeps ==
    ASSUME IPCInv, NotifyExit
    PROVE  \E G : Keeps(G) /\ \A x \in task : G[x].step = x.step
<1> DEFINE G == [x \in task |-> IF x.step = "calculating" THEN [x EXCEPT !.quit = TRUE] ELSE x]
<1>1. \A x \in task : /\ [x EXCEPT !.quit = TRUE] \in TaskRecord
                      /\ [x EXCEPT !.quit = TRUE].step = x.step
                      /\ [x EXCEPT !.quit = TRUE].client = x.client
                      /\ [x EXCEPT !.quit = TRUE].id = x.id
                      /\ [x EXCEPT !.quit = TRUE].msg = x.msg
                      /\ x \in TaskRecord
  BY QuitFields DEF IPCInv, IPCTypeOK
<1>2. Keeps(G)
  <2>1. G \in [task -> TaskRecord]
    BY <1>1
  <2>2. \A x \in task : G[x].client = x.client /\ G[x].id = x.id /\ G[x].msg = x.msg
    BY <1>1
  <2>3. task' = {G[x] : x \in task}
    BY DEF NotifyExit
  <2> QED
    BY <2>1, <2>2, <2>3 DEF Keeps
<1>3. \A x \in task : G[x].step = x.step
  BY <1>1
<1> QED
  BY <1>2, <1>3

(* The signal keeps the invariant. *)
LEMMA NotifyExitInv == ASSUME IPCInv, NotifyExit PROVE IPCInv'
<1>2. PICK G : Keeps(G) /\ \A x \in task : G[x].step = x.step
  BY NotifyExitKeeps
<1>3. \A x \in task : G[x].step = x.step
  BY <1>2
<1>4. /\ task' \subseteq TaskRecord /\ RequestsNumbered' /\ TasksDistinct'
      /\ ConnFollowsClient' /\ RollbackBlocks'
      /\ \A x \in task' : x.msg \in RequestsOf(x.client)
  BY <1>2, KeepsOrder DEF NotifyExit
<1>5. IPCTypeOK'
  BY <1>4 DEF IPCInv, IPCTypeOK, NotifyExit
<1>6. StepsOfMessage'
  BY <1>2, <1>3, <1>4 DEF IPCInv, StepsOfMessage, Keeps, RequestsOf
<1>7. WaitGroupCounts'
  <2>1. CountedIds' = CountedIds
    BY <1>2, <1>3, KeepsCount
  <2> QED
    BY <2>1 DEF IPCInv, WaitGroupCounts, NotifyExit
<1>8. CountedTasksFinish' /\ Ended'
  BY DEF NotifyExit, CountedTasksFinish, Ended
<1> QED
  BY <1>4, <1>5, <1>6, <1>7, <1>8 DEF IPCInv

(* The databases are closed when no handler is counted. *)
LEMMA CloseIScoreDBInv == ASSUME IPCInv, CloseIScoreDB PROVE IPCInv'
<1>1. /\ exit = "wait" /\ waitGroup = 0 /\ exit' = "closed"
      /\ UNCHANGED <<conn, request, response, task, waitGroup, calculating, reload, client>>
  BY DEF CloseIScoreDB, WaitMsgTasksDone
<1>2. IPCTypeOK'
  BY <1>1 DEF IPCInv, IPCTypeOK
<1>3. RequestsNumbered' /\ TasksDistinct' /\ StepsOfMessage' /\ ConnFollowsClient' /\ RollbackBlocks'
  BY <1>1 DEF IPCInv, RequestsNumbered, TasksDistinct, StepsOfMessage, ConnFollowsClient,
              RollbackBlocks, TasksOf
<1>4. CountedIds' = CountedIds
  BY <1>1 DEF CountedIds
<1>5. WaitGroupCounts' /\ Ended'
  BY <1>1, <1>4 DEF IPCInv, WaitGroupCounts, Ended
<1>6. CountedTasksFinish'
  BY <1>1, CountedPositive DEF CountedTasksFinish, Counted
<1> QED
  BY <1>2, <1>3, <1>5, <1>6 DEF IPCInv

(* The end of the process keeps the invariant. *)
LEMMA ProcessExitInv == ASSUME IPCInv, ProcessExit PROVE IPCInv'
<1>1. /\ exit' = "gone" /\ task' = {} /\ reload' = "none" /\ UNCHANGED <<waitGroup, calculating>>
      /\ conn' = [c \in Client |-> "closed"]
      /\ request' = [c \in Client |-> <<>>] /\ response' = [c \in Client |-> <<>>]
      /\ client' = [c \in Client |-> [client[c] EXCEPT !.state = "gone"]]
  BY DEF ProcessExit
<1>2. \A c \in Client : /\ client'[c] \in ClientRecord /\ client'[c].sent = client[c].sent
                        /\ client'[c].state = "gone" /\ client[c].sent \in Nat
  <2>1. \A r \in ClientRecord : /\ [r EXCEPT !.state = "gone"] \in ClientRecord
                                /\ [r EXCEPT !.state = "gone"].sent = r.sent
                                /\ [r EXCEPT !.state = "gone"].state = "gone"
                                /\ r.sent \in Nat
    BY IPCAssumption DEF ClientRecord
  <2>2. \A c \in Client : /\ client[c] \in ClientRecord
                          /\ client'[c] = [client[c] EXCEPT !.state = "gone"]
    BY <1>1 DEF IPCInv, IPCTypeOK
  <2> QED
    BY <2>1, <2>2
<1>3. IPCTypeOK'
  <2>1. <<>> \in Seq(MessageRecord)
    OBVIOUS
  <2> QED
    BY <2>1, <1>1, <1>2 DEF IPCInv, IPCTypeOK
<1>4. RequestsNumbered'
  <2>1. \A c \in Client : request'[c] = <<>> /\ Len(request'[c]) = 0
    BY <1>1
  <2> QED
    BY <2>1, <1>1, <1>2 DEF RequestsNumbered, TasksOf
<1>5. TasksDistinct' /\ StepsOfMessage' /\ RollbackBlocks'
  BY <1>1 DEF TasksDistinct, StepsOfMessage, RollbackBlocks
<1>6. ConnFollowsClient'
  BY <1>1, <1>2 DEF ConnFollowsClient
<1>7. WaitGroupCounts'
  <2>1. CountedIds' = {}
    BY <1>1 DEF CountedIds
  <2> QED
    BY <2>1, <1>1, FS_EmptySet DEF WaitGroupCounts
<1>8. CountedTasksFinish' /\ Ended'
  BY <1>1 DEF CountedTasksFinish, Ended
<1> QED
  BY <1>3, <1>4, <1>5, <1>6, <1>7, <1>8 DEF IPCInv

-----------------------------------------------------------------------------
(* Initially no client is connected. *)
LEMMA IPCInitInv == Init => IPCInv
<1> SUFFICES ASSUME Init PROVE IPCInv
  OBVIOUS
<1>1. <<>> \in Seq(MessageRecord) /\ Len(<<>>) = 0
  OBVIOUS
<1>2. IPCTypeOK
  BY <1>1, IPCAssumption DEF Init, IPCTypeOK, ClientRecord
<1>3. RequestsNumbered
  <2>1. \A c \in Client : Len(request[c]) = 0 /\ client[c].sent = 0
    BY <1>1 DEF Init
  <2> QED
    BY <2>1 DEF Init, RequestsNumbered, TasksOf
<1>4. TasksDistinct /\ StepsOfMessage /\ ConnFollowsClient /\ RollbackBlocks
  BY DEF Init, TasksDistinct, StepsOfMessage, ConnFollowsClient, RollbackBlocks, TasksOf
<1>5. WaitGroupCounts
  <2>1. CountedIds = {}
    BY DEF Init, CountedIds
  <2> QED
    BY <2>1, FS_EmptySet DEF Init, WaitGroupCounts
<1>6. CountedTasksFinish /\ Ended
  BY DEF Init, CountedTasksFinish, Ended
<1> QED
  BY <1>2, <1>3, <1>4, <1>5, <1>6 DEF IPCInv

(* Every step keeps the invariant. *)
LEMMA IPCInvStep == IPCInv /\ [Next]_vars => IPCInv'
<1> SUFFICES ASSUME IPCInv, [Next]_vars PROVE IPCInv'
  OBVIOUS
<1>1. CASE TaskStep
  BY <1>1, AddMsgTaskInv, FinishHandlerInv, DoCalculateInv, LoadIISSDataInv,
     FinishCalculationInv, FinishCalculateInv, SendResponseInv DEF TaskStep
<1>2. CASE Progress
  BY <1>1, <1>2, EndReloadInv, CloseIScoreDBInv, ProcessExitInv, HandleMessageInv,
     FlushReadyInv, ReceiveInv DEF Progress
<1>3. CASE Next
  BY <1>2, <1>3, NotifyExitInv, ConnectInv, ServiceReceiveInv, DisconnectInv, SendRequestInv
  DEF Next
<1>4. CASE UNCHANGED vars
  <2>1. UNCHANGED <<conn, request, response, task, waitGroup, calculating, reload, exit, client>>
    BY <1>4 DEF vars
  <2>2. IPCTypeOK'
    BY <2>1 DEF IPCInv, IPCTypeOK
  <2>3. RequestsNumbered' /\ ConnFollowsClient' /\ RollbackBlocks'
    BY <2>1 DEF IPCInv, RequestsNumbered, ConnFollowsClient, RollbackBlocks, TasksOf
  <2> QED
    BY <2>1, <2>2, <2>3, TasksSame DEF IPCInv, Ended
<1> QED
  BY <1>3, <1>4

(* IPCInv is an invariant of the specification. *)
LEMMA IPCInvariant == Spec => []IPCInv
BY IPCInitInv, IPCInvStep, PTL DEF Spec

(* The count of the wait group never becomes negative, and every variable of RC and *)
(* its clients has its type, for every number of clients and requests.              *)
THEOREM IPCTypes == Spec => []IPCTypeOK
<1>1. IPCInv => IPCTypeOK
  BY DEF IPCInv
<1> QED
  BY <1>1, IPCInvariant, PTL

(* Close does not close the databases under a handler that was counted before it    *)
(* had waited: the wait group counts exactly the handlers that are not done.        *)
THEOREM CloseWaits == Spec => []CountedTasksFinish
<1>1. IPCInv => CountedTasksFinish
  BY DEF IPCInv
<1> QED
  BY <1>1, IPCInvariant, PTL

(* No message that a connection received after ROLLBACK is handled beside it.       *)
THEOREM RollbackIsAlone == Spec => []RollbackNotOvertaken
<1>1. IPCInv => RollbackNotOvertaken
  BY DEF IPCInv, RollbackBlocks, RollbackNotOvertaken, TasksOf
<1> QED
  BY <1>1, IPCInvariant, PTL

-----------------------------------------------------------------------------
(* The exchange of a tool. *)

(* A step that is not about a tool leaves its exchange alone. *)
LEMMA ExchangeSame ==
    ASSUME NEW d \in Tool, Exchange(d), TasksOf(d)' = TasksOf(d),
           request'[d] = request[d], response'[d] = response[d], client'[d] = client[d]
    PROVE  Exchange(d)'
<1>1. /\ Nothing(d)' <=> Nothing(d)
      /\ Outgoing(d)' <=> Outgoing(d)
      /\ Answered(d)' <=> Answered(d)
  BY DEF Nothing, Outgoing, Answered
<1>2. \A t : TasksOf(d) = {t} => t \in task /\ t \in task'
  BY DEF TasksOf
<1>3. Handled(d) => Handled(d)'
  BY <1>2 DEF Handled
<1>4. Finishing(d) => Finishing(d)'
  BY <1>1, <1>2 DEF Finishing
<1> QED
  BY <1>1, <1>3, <1>4 DEF Exchange

(* What G leaves of the goroutines of a connection. *)
LEMMA KeepsTasksOf ==
    ASSUME NEW G, Keeps(G), NEW d
    PROVE  /\ TasksOf(d)' = {G[x] : x \in TasksOf(d)}
           /\ \A x \in TasksOf(d) : G[x] \in task' /\ G[x].msg = x.msg
BY DEF Keeps, TasksOf

(* Nor does a step of the goroutines of others, nor one that only tells to quit. *)
LEMMA ExchangeKept ==
    ASSUME NEW d \in Tool, Exchange(d), NEW G, Keeps(G),
           \A x \in TasksOf(d) : G[x].step = x.step,
           request'[d] = request[d], response'[d] = response[d], client'[d] = client[d]
    PROVE  Exchange(d)'
<1>1. /\ TasksOf(d)' = {G[x] : x \in TasksOf(d)}
      /\ \A x \in TasksOf(d) : G[x] \in task' /\ G[x].msg = x.msg
  BY KeepsTasksOf
<1>2. TasksOf(d)' = {} <=> TasksOf(d) = {}
  BY <1>1
<1>3. \A t : TasksOf(d) = {t} => /\ TasksOf(d)' = {G[t]} /\ G[t] \in task'
                                /\ G[t].msg = t.msg /\ G[t].step = t.step
  BY <1>1
<1>4. /\ Nothing(d)' <=> Nothing(d)
      /\ Outgoing(d)' <=> Outgoing(d)
      /\ Answered(d)' <=> Answered(d)
  BY <1>2 DEF Nothing, Outgoing, Answered
<1>5. Handled(d) => Handled(d)'
  BY <1>3 DEF Handled
<1>6. Finishing(d) => Finishing(d)'
  BY <1>3, <1>4 DEF Finishing
<1> QED
  BY <1>4, <1>5, <1>6 DEF Exchange

(* The client cl waits for a goroutine that handles msg and is at step, and q is on *)
(* the way to it.                                                                   *)
WaitsFor(cl, msg, step, q) ==
    \/ /\ cl.state = "await" /\ msg = cl.want
       /\ \/ /\ q = <<>>
             /\ msg = "calculate" => step \in {"spawned", "check", "load"}
          \/ /\ Len(q) = 1 /\ q[1].msg = "calculate"
             /\ msg = "calculate" /\ step \in {"calculating", "done", "send"}
    \/ /\ cl.state = "awaitDone" /\ q = <<>>
       /\ cl.want = "calculate" /\ cl.got = "calculate"
       /\ msg = "calculate" /\ step \in {"calculating", "done", "send"}

(* A tool for which a goroutine runs waits for it. *)
LEMMA ToolWaits ==
    ASSUME IPCInv, ToolsExchange, NEW t \in task, t.client \in Tool, ~client[t.client].refused
    PROVE  /\ TasksOf(t.client) = {t} /\ request[t.client] = <<>>
           /\ conn[t.client] # "closed"
           /\ WaitsFor(client[t.client], t.msg, t.step, response[t.client])
<1> DEFINE d == t.client
<1>1. t \in TasksOf(d) /\ d \in Client
  BY DEF TasksOf, Client
<1>2. Exchange(d)
  BY DEF ToolsExchange
<1>3. client[d].state \in {"dial", "flush", "idle", "await", "awaitDone", "gone"}
  BY <1>1 DEF IPCInv, IPCTypeOK, ClientRecord
<1>4. client[d].state \in {"await", "awaitDone"}
  BY <1>1, <1>2, <1>3 DEF Exchange, Nothing
<1>5. conn[d] # "closed"
  BY <1>1, <1>4 DEF IPCInv, ConnFollowsClient
<1>6. CASE client[d].state = "await"
  <2>1. Handled(d)
    BY <1>1, <1>2, <1>6 DEF Exchange, Outgoing, Answered, Nothing
  <2> QED
    BY <2>1, <1>1, <1>5, <1>6 DEF Handled, WaitsFor
<1>7. CASE client[d].state = "awaitDone"
  BY <1>1, <1>2, <1>5, <1>7 DEF Exchange, Finishing, Nothing, WaitsFor
<1> QED
  BY <1>4, <1>6, <1>7

(* A step of one goroutine, after which its tool still waits for it. *)
LEMMA MoveExchange ==
    ASSUME IPCInv, ToolsExchange, NEW t \in task, NEW G, Keeps(G),
           \A x \in task : x # t => G[x].step = x.step,
           UNCHANGED <<request, client>>,
           \A d \in Client : d # t.client => response'[d] = response[d],
           t.client \in Tool /\ ~client[t.client].refused =>
               WaitsFor(client[t.client], t.msg, G[t].step, response'[t.client])
    PROVE  ToolsExchange'
<1> SUFFICES ASSUME NEW d \in Tool, ~client[d].refused PROVE Exchange(d)'
  BY DEF ToolsExchange
<1>1. d \in Client /\ Exchange(d)
  BY DEF ToolsExchange, Client
<1>2. CASE d # t.client
  <2>1. \A x \in TasksOf(d) : x \in task /\ x # t
    BY <1>2 DEF TasksOf
  <2> QED
    BY <2>1, <1>1, <1>2, ExchangeKept
<1>3. CASE d = t.client
  <2>1. TasksOf(d) = {t} /\ request[d] = <<>>
    BY <1>3, ToolWaits
  <2>2. TasksOf(d)' = {G[t]} /\ G[t] \in task' /\ G[t].msg = t.msg
    BY <2>1, KeepsTasksOf
  <2>3. WaitsFor(client[d], G[t].msg, G[t].step, response'[d])
    BY <2>2, <1>3
  <2>4. CASE client[d].state = "await"
    <3>1. Handled(d)'
      BY <2>1, <2>2, <2>3, <2>4 DEF Handled, WaitsFor
    <3> QED
      BY <3>1, <2>4 DEF Exchange
  <2>5. CASE client[d].state = "awaitDone"
    <3>1. Finishing(d)'
      BY <2>1, <2>2, <2>3, <2>5 DEF Finishing, WaitsFor
    <3> QED
      BY <3>1, <2>3, <2>5 DEF Exchange, WaitsFor
  <2> QED
    BY <2>3, <2>4, <2>5 DEF WaitsFor
<1> QED
  BY <1>2, <1>3

(* Replacing a goroutine changes the step of it alone. *)
LEMMA ReplaceStep ==
    ASSUME IPCInv, NEW t \in task, NEW step \in AtDB \cup {"spawned", "done", "send", "failed"},
           Replace(t, [t EXCEPT !.step = step])
    PROVE  \E G : Keeps(G) /\ G[t].step = step /\ \A x \in task : x # t => G[x].step = x.step
<1> DEFINE u == [t EXCEPT !.step = step]
           G == [x \in task |-> IF x = t THEN u ELSE x]
<1>0. t \in TaskRecord
  BY DEF IPCInv, IPCTypeOK
<1>1. /\ u \in TaskRecord /\ u.client = t.client /\ u.id = t.id /\ u.msg = t.msg
      /\ u.step = step
  BY <1>0, StepFields
<1>2. Replace(t, u)
  OBVIOUS
<1> HIDE DEF u
<1>3. Keeps(G)
  BY <1>1, <1>2, ReplaceKeeps DEF IPCInv
<1> QED
  BY <1>1, <1>3

(* AddMsgTask keeps the exchange. *)
LEMMA AddMsgTaskExchange ==
    ASSUME IPCInv, ToolsExchange, NEW t \in At("spawned"), AddMsgTask(t)
    PROVE  ToolsExchange'
<1> DEFINE early == exit \in {"running", "wait"}
           u == [t EXCEPT !.step = FirstStep(t.msg), !.early = early]
           G == [x \in task |-> IF x = t THEN u ELSE x]
<1>1. t \in task /\ t.step = "spawned" /\ t \in TaskRecord /\ t.msg \in Requests
  BY DEF At, IPCInv, IPCTypeOK, TaskRecord
<1>2. FirstStep(t.msg) \in AtDB \cup {"spawned", "done", "send", "failed"}
  BY <1>1 DEF FirstStep, AtDB, Requests
<1>3. /\ u \in TaskRecord /\ u.client = t.client /\ u.id = t.id /\ u.msg = t.msg
      /\ u.step = FirstStep(t.msg)
  BY <1>1, <1>2, EarlyFields
<1>4. Replace(t, u)
  BY DEF AddMsgTask
<1> HIDE DEF u, early
<1>5. Keeps(G) /\ G[t].step = FirstStep(t.msg) /\ \A x \in task : x # t => G[x].step = x.step
  BY <1>1, <1>3, <1>4, ReplaceKeeps DEF IPCInv
<1> HIDE DEF G
<1>6. ASSUME t.client \in Tool, ~client[t.client].refused
      PROVE  WaitsFor(client[t.client], t.msg, G[t].step, response[t.client])
  BY <1>1, <1>5, <1>6, ToolWaits DEF WaitsFor, FirstStep
<1> QED
  BY <1>1, <1>5, <1>6, MoveExchange DEF AddMsgTask

(* What reaches a tool that waits. *)
LEMMA SentToTool ==
    ASSUME IPCInv, NEW t \in task, NEW msg \in Requests \cup {"done"}, NEW ok \in BOOLEAN,
           response' = Sent(t.client, Message(msg, t.id, ok))
    PROVE  /\ \A d \in Client : d # t.client => response'[d] = response[d]
           /\ conn[t.client] # "closed" =>
                 LET q == response[t.client]  r == response'[t.client]
                 IN  /\ Len(r) = Len(q) + 1 /\ r[Len(q) + 1].msg = msg
                     /\ r[Len(q) + 1].ok = ok
                     /\ \A i \in 1 .. Len(q) : r[i] = q[i]
                     /\ Len(q) \in Nat /\ (q = <<>> <=> Len(q) = 0)
<1> DEFINE m == Message(msg, t.id, ok)
<1>1. t.client \in Client /\ t.id \in 0 .. MaxRequests
  BY TaskMessage
<1>2. m \in MessageRecord /\ m.msg = msg /\ m.ok = ok
  BY <1>1, MessageType
<1> HIDE DEF m
<1>3. /\ \A d \in Client : d # t.client => response'[d] = response[d]
      /\ conn[t.client] # "closed" => response'[t.client] = Append(response[t.client], m)
  BY <1>1, <1>2, SentType DEF IPCInv, m
<1>4. response[t.client] \in Seq(MessageRecord)
  BY <1>1 DEF IPCInv, IPCTypeOK
<1> QED
  BY <1>2, <1>3, <1>4, Queue

(* The first response to CALCULATE keeps the exchange. *)
LEMMA FirstResponseExchange ==
    ASSUME IPCInv, ToolsExchange, NEW t \in task, t.step \in {"check", "load"},
           NEW ok \in BOOLEAN, NEW step \in {"calculating", "done"},
           Replace(t, [t EXCEPT !.step = step]),
           response' = Sent(t.client, Message("calculate", t.id, ok)),
           UNCHANGED <<request, client>>
    PROVE  ToolsExchange'
<1>1. PICK G : Keeps(G) /\ G[t].step = step /\ \A x \in task : x # t => G[x].step = x.step
  <2>1. step \in AtDB \cup {"spawned", "done", "send", "failed"}
    BY DEF AtDB
  <2> QED
    BY <2>1, ReplaceStep
<1>2. \A d \in Client : d # t.client => response'[d] = response[d]
  BY SentToTool DEF Requests
<1>3. ASSUME t.client \in Tool, ~client[t.client].refused
      PROVE  WaitsFor(client[t.client], t.msg, G[t].step, response'[t.client])
  <2>1. t.msg = "calculate"
    BY DEF IPCInv, StepsOfMessage
  <2>2. /\ conn[t.client] # "closed" /\ response[t.client] = <<>>
        /\ client[t.client].state = "await" /\ t.msg = client[t.client].want
    BY <2>1, <1>3, ToolWaits DEF WaitsFor
  <2>3. Len(response[t.client]) = 0
    BY <2>2
  <2>4. Len(response'[t.client]) = 1 /\ response'[t.client][1].msg = "calculate"
    <3>1. "calculate" \in Requests \cup {"done"}
      BY DEF Requests
    <3>2. /\ Len(response'[t.client]) = Len(response[t.client]) + 1
          /\ response'[t.client][Len(response[t.client]) + 1].msg = "calculate"
      BY <3>1, <2>2, SentToTool
    <3> QED
      BY <3>2, <2>3
  <2> QED
    BY <2>1, <2>2, <2>4, <1>1 DEF WaitsFor
<1> QED
  BY <1>1, <1>2, <1>3, MoveExchange

(* A step that sends nothing keeps the exchange, when the tool still waits. *)
LEMMA SilentExchange ==
    ASSUME IPCInv, ToolsExchange, NEW t \in task,
           NEW G, Keeps(G), \A x \in task : x # t => G[x].step = x.step,
           UNCHANGED <<request, response, client>>,
           \/ t.msg # "calculate"
           \/ t.step \in {"spawned", "check", "load"} /\ G[t].step \in {"spawned", "check", "load"}
           \/ /\ t.step \in {"calculating", "done", "send"}
              /\ G[t].step \in {"calculating", "done", "send"}
    PROVE  ToolsExchange'
<1>1. ASSUME t.client \in Tool, ~client[t.client].refused
      PROVE  WaitsFor(client[t.client], t.msg, G[t].step, response[t.client])
  BY <1>1, ToolWaits DEF WaitsFor
<1> QED
  BY <1>1, MoveExchange

(* The steps of CALCULATE keep the exchange. *)
LEMMA CalculateExchange ==
    ASSUME IPCInv, ToolsExchange
    PROVE  /\ \A t \in At("check") : DoCalculate(t) => ToolsExchange'
           /\ \A t \in At("load") : LoadIISSData(t) => ToolsExchange'
           /\ \A t \in At("calculating") : FinishCalculation(t) => ToolsExchange'
           /\ \A t \in At("done") : FinishCalculate(t) => ToolsExchange'
<1>1. ASSUME NEW t \in At("check"), DoCalculate(t) PROVE ToolsExchange'
  <2>1. t \in task /\ t.step = "check"
    BY DEF At
  <2>2. UNCHANGED <<request, client>>
    BY <1>1 DEF DoCalculate
  <2>3. CASE /\ Replace(t, [t EXCEPT !.step = "done"])
             /\ response' = Sent(t.client, Message("calculate", t.id, FALSE))
    BY <2>1, <2>2, <2>3, FirstResponseExchange
  <2>4. CASE Replace(t, [t EXCEPT !.step = "load"]) /\ UNCHANGED response
    <3>1. PICK G : Keeps(G) /\ G[t].step = "load" /\ \A x \in task : x # t => G[x].step = x.step
      <4>1. PICK step \in AtDB \cup {"spawned", "done", "send", "failed"} :
               step = "load" /\ Replace(t, [t EXCEPT !.step = step])
        BY <2>4 DEF AtDB
      <4> QED
        BY <4>1, <2>1, ReplaceStep
    <3> QED
      BY <2>1, <2>2, <2>4, <3>1, SilentExchange
  <2> QED
    BY <1>1, <2>3, <2>4 DEF DoCalculate, CheckCalculating
<1>2. ASSUME NEW t \in At("load"), LoadIISSData(t) PROVE ToolsExchange'
  <2>1. t \in task /\ t.step = "load"
    BY DEF At
  <2>2. PICK ok \in BOOLEAN :
           /\ Replace(t, [t EXCEPT !.step = IF ok THEN "calculating" ELSE "done"])
           /\ response' = Sent(t.client, Message("calculate", t.id, ok))
    BY <1>2 DEF LoadIISSData
  <2>3. PICK step \in {"calculating", "done"} : Replace(t, [t EXCEPT !.step = step])
    BY <2>2
  <2> QED
    BY <1>2, <2>1, <2>2, <2>3, FirstResponseExchange DEF LoadIISSData
<1>3. ASSUME NEW t \in At("calculating"), FinishCalculation(t) PROVE ToolsExchange'
  <2>1. t \in task /\ t.step = "calculating"
    BY DEF At
  <2>2. PICK G : Keeps(G) /\ G[t].step = "done" /\ \A x \in task : x # t => G[x].step = x.step
    <3>1. PICK step \in AtDB \cup {"spawned", "done", "send", "failed"} :
             step = "done" /\ Replace(t, [t EXCEPT !.step = step])
      BY <1>3 DEF AtDB, FinishCalculation
    <3> QED
      BY <3>1, <2>1, ReplaceStep
  <2> QED
    BY <1>3, <2>1, <2>2, SilentExchange DEF FinishCalculation
<1>4. ASSUME NEW t \in At("done"), FinishCalculate(t) PROVE ToolsExchange'
  <2>1. t \in task /\ t.step = "done"
    BY DEF At
  <2>2. PICK G : Keeps(G) /\ G[t].step = "send" /\ \A x \in task : x # t => G[x].step = x.step
    <3>1. PICK step \in AtDB \cup {"spawned", "done", "send", "failed"} :
             step = "send" /\ Replace(t, [t EXCEPT !.step = step])
      BY <1>4 DEF AtDB, FinishCalculate
    <3> QED
      BY <3>1, <2>1, ReplaceStep
  <2> QED
    BY <1>4, <2>1, <2>2, SilentExchange DEF FinishCalculate
<1> QED
  BY <1>1, <1>2, <1>3, <1>4

(* A handler that is done keeps the exchange, and so does a signal. *)
LEMMA FinishHandlerExchange ==
    ASSUME IPCInv, ToolsExchange, NEW t \in At("working"), FinishHandler(t)
    PROVE  ToolsExchange'
<1>1. t \in task /\ t.msg # "calculate"
  BY DEF At, IPCInv, StepsOfMessage
<1>2. PICK G : /\ Keeps(G) /\ G[t].step = "send"
               /\ \A x \in task : x # t => G[x].step = x.step /\ G[x].early = x.early
  BY FinishHandlerKeeps
<1> QED
  BY <1>1, <1>2, SilentExchange DEF FinishHandler

(* The signal keeps the exchange. *)
LEMMA NotifyExitExchange ==
    ASSUME IPCInv, ToolsExchange, NotifyExit
    PROVE  ToolsExchange'
<1>1. PICK G : Keeps(G) /\ \A x \in task : G[x].step = x.step
  BY NotifyExitKeeps
<1> SUFFICES ASSUME NEW d \in Tool, ~client[d].refused PROVE Exchange(d)'
  BY DEF ToolsExchange, NotifyExit
<1>2. Exchange(d) /\ \A x \in TasksOf(d) : x \in task
  BY DEF ToolsExchange, TasksOf
<1> QED
  BY <1>1, <1>2, ExchangeKept DEF NotifyExit

(* The last response keeps the exchange: the goroutine ends and its answer is on the *)
(* way.                                                                              *)
LEMMA SendResponseExchange ==
    ASSUME IPCInv, ToolsExchange, NEW t \in At("send"), SendResponse(t)
    PROVE  ToolsExchange'
<1>1. t \in task /\ t.step = "send" /\ t.msg \in Requests
  BY DEF At, IPCInv, IPCTypeOK, TaskRecord
<1>2. task' = task \ {t} /\ UNCHANGED <<request, client>>
  BY DEF SendResponse
<1>3. PICK msg \in Requests \cup {"done"} :
         /\ msg = IF t.msg = "calculate" THEN "done" ELSE t.msg
         /\ response' = Sent(t.client, Message(msg, t.id, TRUE))
  BY <1>1 DEF SendResponse, Answer
<1>4. \A d \in Client : d # t.client => response'[d] = response[d]
  BY <1>1, <1>3, SentToTool
<1> SUFFICES ASSUME NEW d \in Tool, ~client[d].refused PROVE Exchange(d)'
  BY <1>2 DEF ToolsExchange
<1>5. d \in Client /\ Exchange(d)
  BY DEF ToolsExchange, Client
<1>6. CASE d # t.client
  <2>1. TasksOf(d)' = TasksOf(d)
    BY <1>2, <1>6 DEF TasksOf
  <2> QED
    BY <2>1, <1>2, <1>4, <1>5, <1>6, ExchangeSame
<1>7. CASE d = t.client
  <2>1. /\ TasksOf(d) = {t} /\ request[d] = <<>> /\ conn[d] # "closed"
        /\ WaitsFor(client[d], t.msg, t.step, response[d])
    BY <1>1, <1>7, ToolWaits
  <2>2. /\ Len(response'[d]) = Len(response[d]) + 1
        /\ response'[d][Len(response[d]) + 1].msg = msg
        /\ \A i \in 1 .. Len(response[d]) : response'[d][i] = response[d][i]
    BY <2>1, <1>1, <1>3, <1>7, SentToTool
  <2>3. Nothing(d)'
    BY <2>1, <1>2 DEF Nothing, TasksOf
  <2>4. CASE client[d].state = "await" /\ response[d] = <<>>
    <3>1. t.msg = client[d].want /\ t.msg # "calculate" /\ Len(response[d]) = 0
      BY <2>1, <2>4, <1>1 DEF WaitsFor
    <3>3. Len(response'[d]) = 1 /\ response'[d][1].msg = msg
      BY <3>1, <2>2
    <3>2. Answered(d)'
      BY <3>1, <3>3, <2>3, <1>2, <1>3 DEF Answered
    <3> QED
      BY <3>2, <2>4, <1>2 DEF Exchange
  <2>5. CASE client[d].state = "await" /\ Len(response[d]) = 1
    <3>1. /\ t.msg = client[d].want /\ t.msg = "calculate"
          /\ response[d][1].msg = "calculate"
      BY <2>1, <2>5, <1>1 DEF WaitsFor
    <3>4. Len(response'[d]) = 1 + 1 /\ response'[d][1 + 1].msg = msg /\ 1 \in 1 .. Len(response[d])
      BY <2>2, <2>5
    <3>2. /\ Len(response'[d]) = 2 /\ response'[d][2].msg = "done"
          /\ response'[d][1] = response[d][1]
      <4>1. 1 + 1 = 2 /\ msg = "done"
        BY <3>1, <1>3
      <4>2. response'[d][1] = response[d][1]
        BY <3>4, <2>2
      <4>3. Len(response'[d]) = 2 /\ response'[d][2].msg = msg
        BY <4>1, <3>4
      <4> QED
        BY <4>1, <4>2, <4>3
    <3>3. Answered(d)'
      BY <3>1, <3>2, <2>3, <1>2 DEF Answered
    <3> QED
      BY <3>3, <2>5, <1>2 DEF Exchange
  <2>6. CASE client[d].state = "awaitDone"
    <3>1. /\ t.msg = "calculate" /\ client[d].want = "calculate" /\ client[d].got = "calculate"
          /\ Len(response[d]) = 0
      BY <2>1, <2>6 DEF WaitsFor
    <3>3. Len(response'[d]) = 1 /\ response'[d][1].msg = msg
      BY <3>1, <2>2
    <3>2. Finishing(d)'
      BY <3>1, <3>3, <2>3, <1>3 DEF Finishing
    <3> QED
      BY <3>1, <3>2, <2>6, <1>2 DEF Exchange
  <2> QED
    BY <2>1, <2>4, <2>5, <2>6 DEF WaitsFor
<1> QED
  BY <1>6, <1>7

(* A request that is handled keeps the exchange. *)
LEMMA HandleMessageExchange ==
    ASSUME IPCInv, ToolsExchange, NEW c \in Client, HandleMessage(c)
    PROVE  ToolsExchange'
<1> DEFINE n == Task(c, Head(request[c]))
<1>1. n.client = c /\ n.msg = Head(request[c]).msg /\ n.step = "spawned"
  BY NewTask DEF IPCInv, HandleMessage
<1>2. /\ task' = task \cup {n} /\ request[c] # <<>>
      /\ request' = [request EXCEPT ![c] = Tail(request[c])]
      /\ UNCHANGED <<response, client>>
  BY DEF HandleMessage
<1> HIDE DEF n
<1>3. /\ request \in [Client -> Seq(MessageRecord)] /\ request'[c] = Tail(request[c])
      /\ \A d \in Client : d # c => request'[d] = request[d]
      /\ client[c].state \in {"dial", "flush", "idle", "await", "awaitDone", "gone"}
  BY <1>2 DEF IPCInv, IPCTypeOK, ClientRecord
<1> SUFFICES ASSUME NEW d \in Tool, ~client[d].refused PROVE Exchange(d)'
  BY <1>2 DEF ToolsExchange
<1>4. d \in Client /\ Exchange(d)
  BY DEF ToolsExchange, Client
<1>5. CASE d # c
  <2>1. TasksOf(d)' = TasksOf(d)
    BY <1>1, <1>2, <1>5 DEF TasksOf
  <2> QED
    BY <2>1, <1>2, <1>3, <1>4, <1>5, ExchangeSame
<1>6. CASE d = c
  <2>1. client[d].state = "await" /\ Outgoing(d)
    BY <1>2, <1>3, <1>4, <1>6 DEF Exchange, Nothing, Handled, Answered, Finishing
  <2>2. TasksOf(d)' = {n}
    BY <2>1, <1>1, <1>2, <1>6 DEF Outgoing, TasksOf
  <2>3. request'[d] = <<>> /\ n.msg = client[d].want
    <3>1. Len(request[d]) = 1 /\ request[d] \in Seq(MessageRecord) /\ request[d] # <<>>
      BY <2>1, <1>2, <1>3, <1>6 DEF Outgoing
    <3>2. Len(Tail(request[d])) = 0 /\ Tail(request[d]) \in Seq(MessageRecord)
          /\ Head(request[d]) = request[d][1]
      BY <3>1, Queue
    <3>3. Tail(request[d]) = <<>>
      BY <3>2, Queue
    <3> QED
      BY <3>2, <3>3, <2>1, <1>1, <1>3, <1>6 DEF Outgoing
  <2>4. Handled(d)'
    BY <2>1, <2>2, <2>3, <1>1, <1>2 DEF Handled, Outgoing
  <2> QED
    BY <2>1, <2>4, <1>2 DEF Exchange
<1> QED
  BY <1>5, <1>6

(* A step of one client keeps the exchange of the others. *)
LEMMA OthersExchange ==
    ASSUME ToolsExchange, NEW c \in Client, UNCHANGED task,
           \A d \in Client : d # c => /\ request'[d] = request[d] /\ response'[d] = response[d]
                                      /\ client'[d] = client[d],
           c \in Tool /\ ~client'[c].refused => Exchange(c)'
    PROVE  ToolsExchange'
<1> SUFFICES ASSUME NEW d \in Tool, ~client'[d].refused, d # c PROVE Exchange(d)'
  BY DEF ToolsExchange
<1>1. d \in Client /\ client'[d] = client[d]
  BY DEF Client
<1>2. Exchange(d)
  BY <1>1 DEF ToolsExchange
<1>3. TasksOf(d)' = TasksOf(d)
  BY DEF TasksOf
<1> QED
  BY <1>1, <1>2, <1>3, ExchangeSame

(* The client's side keeps the exchange: a tool asks when nothing is left of its *)
(* last request, and takes the answers in turn.                                  *)
LEMMA ClientExchange ==
    ASSUME IPCInv, ToolsExchange, NEW c \in Client
    PROVE  /\ Connect(c) => ToolsExchange'
           /\ FlushReady(c) => ToolsExchange'
           /\ \A msg \in RequestsOf(c) : SendRequest(c, msg) => ToolsExchange'
           /\ Receive(c) => ToolsExchange'
           /\ ServiceReceive(c) => ToolsExchange'
           /\ Disconnect(c) => ToolsExchange'
<1>0. /\ client \in [Client -> ClientRecord] /\ request \in [Client -> Seq(MessageRecord)]
      /\ response \in [Client -> Seq(MessageRecord)]
      /\ response[c] \in Seq(MessageRecord) /\ client[c] \in ClientRecord
  BY DEF IPCInv, IPCTypeOK
<1>1. ASSUME Connect(c) PROVE ToolsExchange'
  <2>1. /\ UNCHANGED <<task, request>> /\ client[c].state = "dial"
        /\ response' = [response EXCEPT ![c] = <<Message("ready", 0, TRUE)>>]
        /\ client' = [client EXCEPT ![c].state = "flush"]
    BY <1>1 DEF Connect
  <2>2. /\ client'[c].state = "flush" /\ client'[c].got = client[c].got
        /\ client'[c].want = client[c].want /\ client'[c].refused = client[c].refused
        /\ \A d \in Client : d # c => response'[d] = response[d] /\ client'[d] = client[d]
    BY <2>1, <1>0 DEF ClientRecord
  <2>3. Len(response'[c]) = 1 /\ response'[c][1].msg = "ready"
    BY <2>1, <1>0 DEF Message
  <2>4. ASSUME c \in Tool, ~client'[c].refused PROVE Exchange(c)'
    <3>1. Exchange(c)
      BY <2>2, <2>4 DEF ToolsExchange
    <3>2. Nothing(c)'
      BY <3>1, <2>1 DEF Exchange, Nothing, TasksOf
    <3> QED
      BY <3>1, <3>2, <2>1, <2>2, <2>3 DEF Exchange
  <2> QED
    BY <2>1, <2>2, <2>4, OthersExchange
<1>2. ASSUME FlushReady(c) PROVE ToolsExchange'
  <2>1. /\ UNCHANGED <<task, request>> /\ client[c].state = "flush" /\ response[c] # <<>>
        /\ response' = [response EXCEPT ![c] = Tail(@)]
    BY <1>2 DEF FlushReady, Take
  <2>2. PICK state \in {"flush", "idle"} :
           /\ client' = [client EXCEPT ![c].state = state]
           /\ Head(response[c]).msg = "ready" => state = "idle"
    BY <1>2, <1>0 DEF FlushReady
  <2>3. /\ client'[c].state = state /\ client'[c].got = client[c].got
        /\ client'[c].want = client[c].want /\ client'[c].refused = client[c].refused
        /\ \A d \in Client : d # c => response'[d] = response[d] /\ client'[d] = client[d]
        /\ response'[c] = Tail(response[c])
    BY <2>1, <2>2, <1>0 DEF ClientRecord
  <2>4. ASSUME c \in Tool, ~client'[c].refused PROVE Exchange(c)'
    <3>1. Exchange(c)
      BY <2>3, <2>4 DEF ToolsExchange
    <3>2. Nothing(c)' /\ Len(response[c]) = 1 /\ response[c][1].msg = "ready"
      BY <3>1, <2>1 DEF Exchange, Nothing, TasksOf
    <3>3. Tail(response[c]) = <<>> /\ Head(response[c]) = response[c][1]
      BY <3>2, <1>0, Taken
    <3> QED
      BY <3>1, <3>2, <3>3, <2>1, <2>2, <2>3 DEF Exchange
  <2> QED
    BY <2>1, <2>3, <2>4, OthersExchange
<1>3. ASSUME NEW msg \in RequestsOf(c), SendRequest(c, msg) PROVE ToolsExchange'
  <2> DEFINE m == Message(msg, client[c].sent + 1, TRUE)
  <2>1. /\ UNCHANGED <<task, response>> /\ client[c].state = "idle"
        /\ request' = [request EXCEPT ![c] = Append(@, m)]
    BY <1>3 DEF SendRequest
  <2>2. m.msg = msg
    BY DEF Message
  <2> HIDE DEF m
  <2>3. /\ client'[c].want = msg /\ client'[c].refused = client[c].refused
        /\ c \in Tool => client'[c].state = "await"
        /\ \A d \in Client : d # c => request'[d] = request[d] /\ client'[d] = client[d]
        /\ request'[c] = Append(request[c], m)
    BY <1>3, <2>1, <1>0 DEF ClientRecord, SendRequest
  <2>4. ASSUME c \in Tool, ~client'[c].refused PROVE Exchange(c)'
    <3>1. Exchange(c)
      BY <2>3, <2>4 DEF ToolsExchange
    <3>2. request[c] = <<>> /\ TasksOf(c)' = {} /\ response'[c] = <<>>
      BY <3>1, <2>1 DEF Exchange, Nothing, TasksOf
    <3>3. Len(request'[c]) = 1 /\ request'[c][1].msg = msg
      BY <3>2, <2>2, <2>3
    <3>4. Outgoing(c)'
      BY <3>2, <3>3, <2>3 DEF Outgoing
    <3> QED
      BY <3>4, <2>3, <2>4 DEF Exchange
  <2> QED
    BY <2>1, <2>3, <2>4, OthersExchange
<1>5. ASSUME ServiceReceive(c) PROVE ToolsExchange'
  <2>1. /\ UNCHANGED <<task, request, client>> /\ c \in Service
        /\ response' = [response EXCEPT ![c] = Tail(@)]
    BY <1>5 DEF ServiceReceive, Take
  <2>2. c \notin Tool
    BY <2>1, IPCAssumption
  <2> QED
    BY <2>1, <2>2, <1>0, OthersExchange
<1>6. ASSUME Disconnect(c) PROVE ToolsExchange'
  <2>1. /\ UNCHANGED task /\ client[c].state = "idle"
        /\ request' = [request EXCEPT ![c] = <<>>] /\ response' = [response EXCEPT ![c] = <<>>]
        /\ client' = [client EXCEPT ![c].state = "gone"]
    BY <1>6 DEF Disconnect
  <2>2. /\ client'[c].state = "gone" /\ client'[c].refused = client[c].refused
        /\ request'[c] = <<>>
        /\ \A d \in Client : d # c => /\ response'[d] = response[d] /\ client'[d] = client[d]
                                      /\ request'[d] = request[d]
    BY <2>1, <1>0 DEF ClientRecord
  <2>4. ASSUME c \in Tool, ~client'[c].refused PROVE Exchange(c)'
    <3>1. Exchange(c)
      BY <2>2, <2>4 DEF ToolsExchange
    <3>2. Nothing(c)'
      BY <3>1, <2>1, <2>2 DEF Exchange, Nothing, TasksOf
    <3> QED
      BY <3>2, <2>2 DEF Exchange
  <2> QED
    BY <2>1, <2>2, <2>4, OthersExchange
<1>4. ASSUME Receive(c) PROVE ToolsExchange'
  <2>1. /\ UNCHANGED <<task, request>> /\ client[c].state \in {"await", "awaitDone"}
        /\ response[c] # <<>> /\ response' = [response EXCEPT ![c] = Tail(@)]
    BY <1>4 DEF Receive, Take
  <2>2. /\ client'[c] = IF client[c].state = "await"
                        THEN AfterResponse(client[c], Head(response[c]))
                        ELSE [client[c] EXCEPT !.state = "idle"]
        /\ \A d \in Client : d # c => response'[d] = response[d] /\ client'[d] = client[d]
        /\ response'[c] = Tail(response[c]) /\ Head(response[c]) = response[c][1]
        /\ Head(response[c]) \in MessageRecord
    BY <1>4, <2>1, <1>0 DEF Receive
  <2>3. ASSUME c \in Tool, ~client'[c].refused PROVE Exchange(c)'
    <3>1. ~client[c].refused
      BY <2>1, <2>2, <2>3, <1>0 DEF AfterResponse, ClientRecord
    <3>2. Exchange(c)
      BY <3>1, <2>3 DEF ToolsExchange
    <3>3. CASE client[c].state = "awaitDone"
      <4>1. /\ client'[c].state = "idle" /\ client'[c].got = client[c].got
            /\ client'[c].want = client[c].want
        BY <3>3, <2>2, <1>0 DEF ClientRecord
      <4>2. /\ client[c].want = client[c].got /\ Nothing(c) /\ Len(response[c]) = 1
        BY <3>2, <3>3, <2>1 DEF Exchange, Finishing
      <4>3. response'[c] = <<>> /\ Nothing(c)'
        BY <4>2, <2>1, <2>2, <1>0 DEF Nothing, TasksOf
      <4> QED
        BY <4>1, <4>2, <4>3 DEF Exchange
    <3>4. CASE client[c].state = "await"
      <4> DEFINE m == response[c][1]
                 accepted == client[c].want = "calculate" /\ m.msg = "calculate" /\ m.ok
      <4>1. /\ client'[c].got = m.msg /\ client'[c].want = client[c].want
            /\ client'[c].state = IF accepted THEN "awaitDone" ELSE "idle"
            /\ m.ok
        <5>1. client'[c] = AfterResponse(client[c], m) /\ m \in MessageRecord
          BY <3>4, <2>2
        <5> HIDE DEF m
        <5>2. /\ client'[c].got = m.msg /\ client'[c].want = client[c].want
              /\ client'[c].state = IF accepted THEN "awaitDone" ELSE "idle"
          BY <5>1, <1>0 DEF AfterResponse, ClientRecord
        <5>3. m.ok
          <6>1. m.ok = FALSE => client'[c].refused
            BY <5>1, <1>0 DEF AfterResponse, ClientRecord
          <6>2. m.ok \in BOOLEAN
            BY <5>1 DEF MessageRecord
          <6> QED
            BY <6>1, <6>2, <2>3
        <5> QED
          BY <5>2, <5>3
      <4>2. ~Outgoing(c)
        BY <2>1 DEF Outgoing
      <4>3. CASE Handled(c)
        <5>1. PICK t \in task : /\ TasksOf(c) = {t} /\ t.msg = client[c].want
                                /\ Len(response[c]) = 1 /\ response[c][1].msg = "calculate"
                                /\ t.msg = "calculate" /\ t.step \in {"calculating", "done", "send"}
          BY <4>3, <2>1 DEF Handled
        <5>2. /\ client'[c].state = "awaitDone" /\ client'[c].got = "calculate"
              /\ client'[c].want = "calculate"
          BY <5>1, <4>1
        <5>3. response'[c] = <<>> /\ request'[c] = <<>> /\ TasksOf(c)' = {t} /\ t \in task'
          BY <5>1, <4>3, <2>1, <2>2, <1>0 DEF Handled, TasksOf
        <5>4. Finishing(c)'
          BY <5>1, <5>3 DEF Finishing
        <5> QED
          BY <5>2, <5>4 DEF Exchange
      <4>4. CASE Answered(c)
        <5>1. Nothing(c)'
          BY <4>4, <2>1 DEF Answered, Nothing, TasksOf
        <5>2. CASE client[c].want = "calculate"
          <6>1. Len(response[c]) = 2 /\ response[c][1].msg = "calculate" /\ response[c][2].msg = "done"
            BY <4>4, <5>2 DEF Answered
          <6>2. /\ client'[c].state = "awaitDone" /\ client'[c].got = "calculate"
                /\ client'[c].want = "calculate"
            BY <5>2, <6>1, <4>1
          <6>3. Len(response'[c]) = 1 /\ response'[c][1].msg = "done"
            BY <6>1, <2>2, <1>0, Taken
          <6> QED
            BY <5>1, <6>2, <6>3 DEF Exchange, Finishing
        <5>3. CASE client[c].want # "calculate"
          <6>1. Len(response[c]) = 1 /\ response[c][1].msg = client[c].want
            BY <4>4, <5>3 DEF Answered
          <6>2. client'[c].state = "idle" /\ client'[c].got = client'[c].want
            BY <5>3, <6>1, <4>1
          <6>3. response'[c] = <<>>
            BY <6>1, <2>1, <2>2, <1>0
          <6> QED
            BY <5>1, <6>2, <6>3 DEF Exchange
        <5> QED
          BY <5>2, <5>3
      <4> QED
        BY <4>2, <4>3, <4>4, <3>2, <3>4 DEF Exchange
    <3> QED
      BY <3>3, <3>4, <2>1
  <2> QED
    BY <2>1, <2>2, <2>3, OthersExchange
<1> QED
  BY <1>1, <1>2, <1>3, <1>4, <1>5, <1>6

(* Every step keeps the exchange of the tools. *)
LEMMA ExchangeStep == IPCInv /\ ToolsExchange /\ [Next]_vars => ToolsExchange'
<1> SUFFICES ASSUME IPCInv, ToolsExchange, [Next]_vars PROVE ToolsExchange'
  OBVIOUS
<1>1. CASE TaskStep
  BY <1>1, AddMsgTaskExchange, FinishHandlerExchange, CalculateExchange, SendResponseExchange
  DEF TaskStep
<1>2. CASE UNCHANGED <<request, response, task, client>>
  BY <1>2, ExchangeSame DEF ToolsExchange, TasksOf
<1>3. CASE ProcessExit
  <2> SUFFICES ASSUME NEW d \in Tool PROVE Exchange(d)'
    BY DEF ToolsExchange
  <2>1. d \in Client /\ client[d] \in ClientRecord
    BY DEF Client, IPCInv, IPCTypeOK
  <2>2. client'[d].state = "gone" /\ request'[d] = <<>> /\ task' = {}
    BY <1>3, <2>1 DEF ProcessExit, ClientRecord
  <2>3. Nothing(d)'
    BY <2>2 DEF Nothing, TasksOf
  <2> QED
    BY <2>2, <2>3 DEF Exchange
<1>4. CASE Progress
  BY <1>1, <1>2, <1>3, <1>4, HandleMessageExchange, ClientExchange
  DEF Progress, EndReload, CloseIScoreDB
<1>5. CASE Next
  BY <1>4, <1>5, NotifyExitExchange, ClientExchange DEF Next
<1> QED
  BY <1>2, <1>5 DEF vars

(* IPCInv and the exchange of the tools hold together. *)
LEMMA ExchangeInvariant == Spec => [](IPCInv /\ ToolsExchange)
<1>1. Init => ToolsExchange
  <2> SUFFICES ASSUME Init, NEW d \in Tool PROVE Exchange(d)
    BY DEF ToolsExchange
  <2>1. /\ request[d] = <<>> /\ task = {} /\ client[d].state = "dial"
        /\ client[d].got = "none"
    BY DEF Init, Client
  <2> QED
    BY <2>1 DEF Exchange, Nothing, TasksOf
<1> QED
  BY <1>1, IPCInitInv, IPCInvStep, ExchangeStep, PTL DEF Spec

(* A tool takes the response to its own request, until a CALCULATE of its was refused: *)
(* RC has one request of it at a time, and sends it the answers in order.              *)
THEOREM ResponsesMatch == Spec => []ResponseMatches
<1>1. IPCInv /\ ToolsExchange => ResponseMatches
  BY DEF ToolsExchange, Exchange, ResponseMatches
<1> QED
  BY <1>1, ExchangeInvariant, PTL

-----------------------------------------------------------------------------
(* One calculation at a time. *)

(* The goroutine of a calculation is the only one of the client that calculates. *)
LEMMA CalculationAlone ==
    ASSUME OneCalculator, IPCInv, ToolsExchange, \A c \in Calculators : ~client[c].refused,
           NEW t \in task, NEW u \in task, t.msg = "calculate", u.msg = "calculate"
    PROVE  t = u
<1>1. t.client \in Calculators /\ u.client \in Calculators
  BY DEF IPCInv, StepsOfMessage, RequestsOf
<1>2. t.client = u.client /\ t.client \in Tool /\ ~client[t.client].refused
  BY <1>1 DEF OneCalculator
<1>3. TasksOf(t.client) = {t}
  BY <1>2, ToolWaits
<1>4. u \in TasksOf(t.client)
  BY <1>2 DEF TasksOf
<1> QED
  BY <1>3, <1>4

(* A refused calculation is not forgotten. *)
LEMMA RefusedStays ==
    ASSUME IPCInv, [Next]_vars, NEW c \in Client, ~client'[c].refused
    PROVE  ~client[c].refused
<1>0. /\ client \in [Client -> ClientRecord]
      /\ \A d \in Client : client[d] \in ClientRecord /\ client[d].refused \in BOOLEAN
  BY DEF IPCInv, IPCTypeOK, ClientRecord
<1>1. CASE UNCHANGED client
  BY <1>1
<1>2. ASSUME NEW d \in Client,
             \/ Connect(d) \/ FlushReady(d) \/ Receive(d) \/ Disconnect(d)
             \/ \E msg \in RequestsOf(d) : SendRequest(d, msg)
      PROVE  ~client[c].refused
  <2>1. CASE c # d
    BY <1>0, <1>2, <2>1 DEF Connect, FlushReady, Receive, Disconnect, SendRequest
  <2>2. CASE c = d /\ Receive(d)
    BY <1>0, <2>2 DEF Receive, AfterResponse, ClientRecord
  <2>3. CASE c = d /\ ~Receive(d)
    <3>1. CASE Connect(d)
      BY <1>0, <2>3, <3>1 DEF Connect, ClientRecord
    <3>2. CASE FlushReady(d)
      <4>1. PICK state : client' = [client EXCEPT ![c].state = state]
        BY <1>0, <2>3, <3>2 DEF FlushReady
      <4> QED
        BY <1>0, <4>1 DEF ClientRecord
    <3>3. CASE Disconnect(d)
      BY <1>0, <2>3, <3>3 DEF Disconnect, ClientRecord
    <3>4. ASSUME NEW msg \in RequestsOf(d), SendRequest(d, msg) PROVE ~client[c].refused
      BY <1>0, <2>3, <3>4 DEF SendRequest, ClientRecord
    <3> QED
      BY <1>2, <2>3, <3>1, <3>2, <3>3, <3>4
  <2> QED
    BY <2>1, <2>2, <2>3
<1>3. CASE ProcessExit
  BY <1>0, <1>3 DEF ProcessExit, ClientRecord
<1>4. CASE TaskStep
  BY <1>1, <1>4 DEF TaskStep, AddMsgTask, FinishHandler, DoCalculate, LoadIISSData,
                    FinishCalculation, FinishCalculate, SendResponse
<1>5. CASE Progress
  BY <1>1, <1>2, <1>3, <1>4, <1>5 DEF Progress, EndReload, CloseIScoreDB, HandleMessage
<1>6. CASE Next
  BY <1>1, <1>2, <1>5, <1>6 DEF Next, NotifyExit, ServiceReceive
<1> QED
  BY <1>1, <1>6 DEF vars

(* Every step leaves a reload alone: a calculation is refused while it runs. *)
LEMMA ReloadStep ==
    ASSUME OneCalculator, IPCInv, ToolsExchange, ReloadAlone, [Next]_vars
    PROVE  ReloadAlone'
<1> SUFFICES ASSUME \A c \in Calculators : ~client'[c].refused, reload' # "none"
             PROVE  calculating' /\ At("load")' = {} /\ At("calculating")' = {}
  BY DEF ReloadAlone
<1>1. \A c \in Calculators : ~client[c].refused
  BY RefusedStays, IPCAssumption
<1>2. CASE UNCHANGED <<task, calculating, reload>>
  BY <1>1, <1>2 DEF ReloadAlone, At
<1>3. CASE TaskStep
  <2>1. reload # "none"
    BY <1>3 DEF TaskStep, AddMsgTask, FinishHandler, DoCalculate, LoadIISSData,
                FinishCalculation, FinishCalculate, SendResponse
  <2>2. calculating /\ At("load") = {} /\ At("calculating") = {}
    BY <1>1, <2>1 DEF ReloadAlone
  <2>3. \A x \in task : x.step \notin {"load", "calculating"}
    BY <2>2 DEF At
  <2>4. ASSUME NEW t \in At("spawned"), AddMsgTask(t)
        PROVE  calculating' /\ \A x \in task' : x.step \notin {"load", "calculating"}
    <3>1. t \in TaskRecord /\ t.msg \in Requests
      BY DEF At, IPCInv, IPCTypeOK, TaskRecord
    <3>2. /\ FirstStep(t.msg) \in AtDB \cup {"spawned", "done", "send", "failed"}
          /\ FirstStep(t.msg) \notin {"load", "calculating"}
      BY <3>1 DEF FirstStep, AtDB, Requests
    <3>3. [t EXCEPT !.step = FirstStep(t.msg), !.early = exit \in {"running", "wait"}].step
             = FirstStep(t.msg)
      BY <3>1, <3>2, EarlyFields
    <3> QED
      BY <2>2, <2>3, <2>4, <3>2, <3>3 DEF AddMsgTask, Replace
  <2>5. ASSUME NEW t \in At("working"), FinishHandler(t)
        PROVE  calculating' /\ \A x \in task' : x.step \notin {"load", "calculating"}
    <3>1. PICK G : /\ Keeps(G) /\ G[t].step = "send"
                   /\ \A x \in task : x # t => G[x].step = x.step /\ G[x].early = x.early
      BY <2>5, FinishHandlerKeeps
    <3> QED
      BY <2>2, <2>3, <2>5, <3>1 DEF FinishHandler, Keeps
  <2>6. ASSUME NEW t \in At("check"), DoCalculate(t)
        PROVE  calculating' /\ \A x \in task' : x.step \notin {"load", "calculating"}
    <3>1. t \in TaskRecord /\ Replace(t, [t EXCEPT !.step = "done"]) /\ UNCHANGED calculating
      BY <2>2, <2>6 DEF DoCalculate, CheckCalculating, At, IPCInv, IPCTypeOK
    <3>2. [t EXCEPT !.step = "done"].step = "done"
      BY <3>1 DEF TaskRecord
    <3> QED
      BY <2>2, <2>3, <3>1, <3>2 DEF Replace
  <2>7. ASSUME NEW t \in At("done"), FinishCalculate(t)
        PROVE  calculating' /\ \A x \in task' : x.step \notin {"load", "calculating"}
    <3>1. t \in TaskRecord /\ Replace(t, [t EXCEPT !.step = "send"]) /\ UNCHANGED calculating
      BY <2>7 DEF FinishCalculate, At, IPCInv, IPCTypeOK
    <3>2. [t EXCEPT !.step = "send"].step = "send"
      BY <3>1 DEF TaskRecord
    <3> QED
      BY <2>2, <2>3, <3>1, <3>2 DEF Replace
  <2>8. ASSUME NEW t \in At("send"), SendResponse(t)
        PROVE  calculating' /\ \A x \in task' : x.step \notin {"load", "calculating"}
    BY <2>2, <2>3, <2>8 DEF SendResponse
  <2>9. calculating' /\ \A x \in task' : x.step \notin {"load", "calculating"}
    BY <1>3, <2>2, <2>4, <2>5, <2>6, <2>7, <2>8 DEF TaskStep
  <2> QED
    BY <2>9 DEF At
<1>4. ASSUME NEW c \in Client, HandleMessage(c)
      PROVE  calculating' /\ At("load")' = {} /\ At("calculating")' = {}
  <2>1. Task(c, Head(request[c])).step = "spawned"
    BY DEF Task
  <2> QED
    BY <1>1, <1>4, <2>1 DEF HandleMessage, ReloadAlone, At
<1>5. CASE NotifyExit
  <2>1. PICK G : Keeps(G) /\ \A x \in task : G[x].step = x.step
    BY <1>5, NotifyExitKeeps
  <2>2. reload # "none" /\ UNCHANGED calculating
    BY <1>5 DEF NotifyExit
  <2> QED
    BY <1>1, <2>1, <2>2 DEF ReloadAlone, At, Keeps
<1>6. CASE Progress
  BY <1>2, <1>3, <1>4, <1>6 DEF Progress, EndReload, CloseIScoreDB, ProcessExit, FlushReady, Receive
<1>7. CASE Next
  BY <1>2, <1>5, <1>6, <1>7 DEF Next, Connect, ServiceReceive, Disconnect, SendRequest
<1> QED
  BY <1>2, <1>7 DEF vars

(* At most one calculation runs, a reload included, when the one client that asks for *)
(* them waits for their responses and none was refused: isCalculating is read before  *)
(* and set after the IISS data is loaded, so two clients that ask at once can both    *)
(* pass it.                                                                           *)
THEOREM CalculationsExclude == ASSUME OneCalculator PROVE Spec => []OneCalculation
<1>1. Init => ReloadAlone
  BY DEF Init, ReloadAlone, At
<1>2. IPCInv /\ ToolsExchange /\ ReloadAlone /\ [Next]_vars => ReloadAlone'
  BY ReloadStep
<1>3. IPCInv /\ ToolsExchange /\ ReloadAlone => OneCalculation
  <2> SUFFICES ASSUME IPCInv, ToolsExchange, ReloadAlone, \A c \in Calculators : ~client[c].refused
               PROVE  Cardinality(At("calculating")) + (IF reload = "none" THEN 0 ELSE 1) <= 1
    BY DEF OneCalculation
  <2>1. CASE reload # "none"
    <3>1. At("calculating") = {}
      BY <2>1 DEF ReloadAlone
    <3> QED
      BY <2>1, <3>1, FS_EmptySet
  <2>2. CASE reload = "none" /\ At("calculating") = {}
    BY <2>2, FS_EmptySet
  <2>3. CASE reload = "none" /\ At("calculating") # {}
    <3>1. PICK t \in At("calculating") : TRUE
      BY <2>3
    <3>2. \A u \in At("calculating") : u = t
      BY CalculationAlone DEF At, IPCInv, StepsOfMessage
    <3>3. At("calculating") = {t}
      BY <3>1, <3>2
    <3>4. Cardinality(At("calculating")) = 1
      BY <3>3, FS_Singleton
    <3> QED
      BY <2>3, <3>4
  <2> QED
    BY <2>1, <2>2, <2>3
<1> QED
  BY <1>1, <1>2, <1>3, ExchangeInvariant, PTL DEF Spec
=============================================================================
