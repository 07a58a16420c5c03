--------------------------- MODULE LiveLog_proofs ---------------------------
(***************************************************************************)
(* Proofs about the two parts that carry the log of a running job to a     *)
(* browser: LogStream, from the agent to the handler StreamLogs, for any   *)
(* number of lines and any batch size; and WebSocketHub, to which the      *)
(* handler publishes each line, for any clients, publishers and            *)
(* capacities.                                                             *)
(***************************************************************************)
EXTENDS LogStream, WebSocketHub, TLAPS

-----------------------------------------------------------------------------
(* The log stream.                                                         *)

(* What the database holds follows from the index up to which entries were *)
(* flushed.                                                                *)
StoredInv ==
    /\ \A l \in Lines : l > flushed => stored[l] = 0
    /\ ~insertFailed => \A l \in Lines : l <= flushed => stored[l] = 1

(* As long as the connection works nothing the executor wrote is lost, and *)
(* an answer is only given for a complete log.                             *)
StreamInv ==
    /\ job = "starting" => written = 0
    /\ job \in {"starting", "silent"} => handler = "none"
    /\ link /\ handler # "none" => accepted = written
    /\ handler \in {"finishing", "answered"} =>
          job \in {"closing", "closed", "acknowledged"} /\ received = accepted
    /\ handler = "answered" => accepted = written /\ flushed = received
    /\ job = "acknowledged" => handler = "answered"

LogInv == TypeOK /\ StoredInv /\ StreamInv

(* An insert stores the new lines once, or fails. *)
LEMMA FlushLemma ==
    ASSUME TypeOK, StoredInv, FlushBatch, received' = received
    PROVE  /\ stored' \in [Lines -> {0, 1}]
           /\ flushed' = received
           /\ insertFailed' \in BOOLEAN
           /\ StoredInv'
<1>0. /\ received \in Nat /\ flushed \in Nat /\ flushed <= received
      /\ Lines \subseteq Nat
    BY LineAssumption DEF TypeOK, Lines
<1>1. flushed' = received
    BY DEF FlushBatch
<1>2. insertFailed' \in BOOLEAN
    BY DEF FlushBatch, TypeOK
<1>3. CASE /\ stored' = [l \in Lines |->
                 IF flushed < l /\ l <= received THEN stored[l] + 1 ELSE stored[l]]
           /\ UNCHANGED insertFailed
    <2>1. \A l \in Lines : stored[l] \in {0, 1} /\ (l > flushed => stored[l] = 0)
        BY DEF TypeOK, StoredInv
    <2>2. stored' \in [Lines -> {0, 1}]
        BY <1>0, <1>3, <2>1
    <2>3. \A l \in Lines : l > flushed' => stored'[l] = 0
        BY <1>0, <1>1, <1>3, <2>1
    <2>4. ~insertFailed' => \A l \in Lines : l <= flushed' => stored'[l] = 1
        BY <1>0, <1>1, <1>3, <2>1 DEF StoredInv
    <2> QED
        BY <1>1, <1>2, <2>2, <2>3, <2>4 DEF StoredInv
<1>4. CASE flushed < received /\ insertFailed' = TRUE /\ UNCHANGED stored
    <2>1. \A l \in Lines : l > flushed' => stored'[l] = 0
        BY <1>0, <1>1, <1>4 DEF StoredInv
    <2> QED
        BY <1>1, <1>2, <1>4, <2>1 DEF StoredInv, TypeOK
<1> QED
    BY <1>3, <1>4 DEF FlushBatch

LEMMA LogInit == Init => LogInv
<1> SUFFICES ASSUME Init PROVE LogInv
    OBVIOUS
<1>1. TypeOK
    <2>1. link \in BOOLEAN /\ insertFailed \in BOOLEAN
        BY Zenon DEF Init
    <2>2. stored \in [Lines -> {0, 1}]
        BY DEF Init
    <2>3. /\ written \in 0 .. MaxLines /\ accepted \in 0 .. written
          /\ received \in 0 .. accepted /\ flushed \in 0 .. received
        BY LineAssumption DEF Init
    <2>4. job = "starting" /\ handler = "none"
        BY DEF Init
    <2> QED
        BY <2>1, <2>2, <2>3, <2>4 DEF TypeOK
<1>2. StoredInv
    BY DEF Init, StoredInv, Lines
<1>3. StreamInv
    BY DEF Init, StreamInv
<1> QED
    BY <1>1, <1>2, <1>3 DEF LogInv

(* Steps of the agent and the network leave the server's state alone, but  *)
(* for the handler that a call starts.                                     *)
LEMMA LogAgentStep ==
    ASSUME LogInv, AgentStep \/ LinkDown \/ Over \/ UNCHANGED vars
    PROVE  LogInv'
<1> USE DEF LogInv, agentVars, serverVars, vars
<1>0. /\ written \in Nat /\ accepted \in Nat /\ received \in Nat /\ flushed \in Nat
      /\ written <= MaxLines /\ accepted <= written /\ received <= accepted
      /\ flushed <= received
    BY LineAssumption DEF TypeOK
<1>1. StoredInv'
    BY DEF StoredInv, AgentStep, OpenLogStream, OpenFails, SendLog,
           CloseLogStream, CloseReturns, CloseFails, LinkDown, Over
<1>2. CASE OpenLogStream
    BY <1>0, <1>1, <1>2 DEF OpenLogStream, TypeOK, StreamInv
<1>3. CASE OpenFails
    BY <1>1, <1>3 DEF OpenFails, TypeOK, StreamInv
<1>4. CASE SendLog
    <2>1. TypeOK'
        BY <1>0, <1>4, LineAssumption DEF SendLog, TypeOK
    <2>2. StreamInv'
        BY <1>0, <1>4 DEF SendLog, StreamInv
    <2> QED
        BY <1>1, <2>1, <2>2
<1>5. CASE CloseLogStream
    BY <1>1, <1>5 DEF CloseLogStream, TypeOK, StreamInv
<1>6. CASE CloseReturns
    BY <1>1, <1>6 DEF CloseReturns, TypeOK, StreamInv
<1>7. CASE CloseFails
    BY <1>1, <1>7 DEF CloseFails, TypeOK, StreamInv
<1>8. CASE LinkDown
    BY <1>1, <1>8 DEF LinkDown, TypeOK, StreamInv
<1>9. CASE Over \/ UNCHANGED vars
    BY <1>1, <1>9 DEF Over, TypeOK, StreamInv
<1> QED
    BY <1>2, <1>3, <1>4, <1>5, <1>6, <1>7, <1>8, <1>9 DEF AgentStep

(* Steps of the handler, and its death. *)
LEMMA LogServerStep ==
    ASSUME LogInv, HandlerStep \/ ServerCrash
    PROVE  LogInv'
<1> USE DEF LogInv, agentVars, serverVars
<1>0. /\ written \in Nat /\ accepted \in Nat /\ received \in Nat /\ flushed \in Nat
      /\ written <= MaxLines /\ accepted <= written /\ received <= accepted
      /\ flushed <= received
    BY LineAssumption DEF TypeOK
<1>1. CASE Receive
    <2>1. TypeOK'
        BY <1>0, <1>1, LineAssumption DEF Receive, TypeOK
    <2>2. StoredInv'
        BY <1>1 DEF Receive, StoredInv
    <2>3. StreamInv'
        BY <1>0, <1>1 DEF Receive, StreamInv
    <2> QED
        BY <2>1, <2>2, <2>3
<1>2. CASE ReceiveEOF
    BY <1>2 DEF ReceiveEOF, TypeOK, StoredInv, StreamInv
<1>3. CASE ReceiveError
    BY <1>3 DEF ReceiveError, TypeOK, StoredInv, StreamInv
<1>4. CASE FlushFull
    <2>1. /\ stored' \in [Lines -> {0, 1}] /\ flushed' = received
          /\ insertFailed' \in BOOLEAN /\ StoredInv'
        BY <1>4, FlushLemma DEF FlushFull
    <2>2. TypeOK'
        BY <1>0, <1>4, <2>1 DEF FlushFull, TypeOK
    <2>3. StreamInv'
        BY <1>4 DEF FlushFull, StreamInv
    <2> QED
        BY <2>1, <2>2, <2>3
<1>5. CASE FlushRest
    <2>1. /\ stored' \in [Lines -> {0, 1}] /\ flushed' = received
          /\ insertFailed' \in BOOLEAN /\ StoredInv'
        BY <1>5, FlushLemma DEF FlushRest
    <2>2. TypeOK'
        BY <1>0, <1>5, <2>1 DEF FlushRest, TypeOK
    <2>3. StreamInv'
        BY <1>5, <2>1 DEF FlushRest, StreamInv
    <2> QED
        BY <2>1, <2>2, <2>3
<1>6. CASE ServerCrash
    BY <1>6 DEF ServerCrash, TypeOK, StoredInv, StreamInv
<1> QED
    BY <1>1, <1>2, <1>3, <1>4, <1>5, <1>6 DEF HandlerStep

(* The inductive invariant holds in every reachable state. *)
LEMMA LogInvariant == Spec => []LogInv
<1>1. LogInv /\ [Next]_vars => LogInv'
    BY LogAgentStep, LogServerStep DEF Next
<1> QED
    BY <1>1, LogInit, PTL DEF Spec

(* No line is stored twice, whatever is flushed, lost or broken. *)
THEOREM LogTypeCorrect == Spec => []TypeOK
    BY LogInvariant, PTL DEF LogInv

(* An acknowledged log is complete, unless an insert has failed. *)
THEOREM AcknowledgedCorrect == Spec => []AcknowledgedIsComplete
<1>1. LogInv => AcknowledgedIsComplete
    <2> SUFFICES ASSUME LogInv, job = "acknowledged", ~insertFailed,
                        NEW l \in 1 .. written
                 PROVE  stored[l] = 1
        BY DEF AcknowledgedIsComplete
    <2>1. flushed = written
        BY DEF LogInv, StreamInv
    <2>2. l \in Lines /\ l <= flushed
        BY <2>1, LineAssumption DEF LogInv, TypeOK, Lines
    <2> QED
        BY <2>2 DEF LogInv, StoredInv
<1> QED
    BY <1>1, LogInvariant, PTL

(* A stored log is an initial segment of what the job wrote. *)
THEOREM NoGapsCorrect == Spec => []NoGaps
<1>1. LogInv => NoGaps
    <2> SUFFICES ASSUME LogInv, ~insertFailed, NEW l \in Lines, stored[l] = 1,
                        NEW k \in 1 .. l
                 PROVE  stored[k] = 1
        BY DEF NoGaps
    <2>1. flushed \in Nat /\ Lines \subseteq Nat
        BY LineAssumption DEF LogInv, TypeOK, Lines
    <2>2. l <= flushed
        BY <2>1 DEF LogInv, StoredInv
    <2>3. k \in Lines /\ k <= flushed
        BY <2>1, <2>2, LineAssumption DEF Lines
    <2> QED
        BY <2>3 DEF LogInv, StoredInv
<1> QED
    BY <1>1, LogInvariant, PTL

-----------------------------------------------------------------------------
(* The hub.                                                                *)

(* A client that waits in register was put there once, its channel is open *)
(* and the loop has not taken it yet.                                      *)
RegisterOnce ==
    /\ \A i \in 1 .. Len(register) : register[i] \notin clients /\ closes[register[i]] = 0
    /\ \A i, j \in 1 .. Len(register) : register[i] = register[j] => i = j

(* Before Run has called Subscribe the hub does not know the client. *)
UnknownBefore ==
    /\ \A c \in Clients : conn[c] = "none" => reader[c] = "none"
    /\ \A c \in Clients : reader[c] \in {"none", "subscribing"} =>
           /\ c \notin clients /\ closes[c] = 0
           /\ \A i \in 1 .. Len(register) : register[i] # c

HubInv == HubTypeOK /\ RegisterOnce /\ UnknownBefore /\ RegisteredIsOpen

(* What sending to a channel does to the sequence of its messages. *)
LEMMA SendFacts ==
    ASSUME NEW S, NEW q \in Seq(S), NEW e \in S
    PROVE  /\ Append(q, e) \in Seq(S)
           /\ Len(Append(q, e)) = Len(q) + 1
           /\ Append(q, e)[Len(q) + 1] = e
           /\ \A i \in 1 .. Len(q) : Append(q, e)[i] = q[i]
    OBVIOUS

(* What receiving from it does. *)
LEMMA ReceiveFacts ==
    ASSUME NEW S, NEW q \in Seq(S), q # <<>>
    PROVE  /\ Len(q) \in Nat \ {0}
           /\ Head(q) = q[1] /\ Head(q) \in S
           /\ Tail(q) \in Seq(S)
           /\ Len(Tail(q)) = Len(q) - 1
           /\ \A i \in 1 .. Len(q) - 1 : Tail(q)[i] = q[i + 1]
    OBVIOUS

LEMMA HubInitInv == HubInit => HubInv
<1> SUFFICES ASSUME HubInit PROVE HubInv
    OBVIOUS
<1>1. Len(register) = 0 /\ Len(unregister) = 0
    BY DEF HubInit
<1>2. stopped \in BOOLEAN
    BY Zenon DEF HubInit
<1>3. HubTypeOK
    BY <1>1, <1>2, BufferAssumption, PublishAssumption DEF HubInit, HubTypeOK
<1>4. RegisterOnce /\ UnknownBefore
    BY <1>1 DEF HubInit, RegisterOnce, UnknownBefore
<1> QED
    BY <1>3, <1>4 DEF HubInit, HubInv, RegisteredIsOpen

(* Steps that leave the maps, the register channel and the closed channels *)
(* alone keep the invariant when they keep the types and do not turn a     *)
(* client back into one that has not subscribed.                           *)
LEMMA HubFrame ==
    ASSUME HubInv, HubTypeOK', UNCHANGED <<clients, register, stopped, closes>>,
           \A c \in Clients : conn'[c] = "none" => reader'[c] = "none",
           \A c \in Clients : reader'[c] \in {"none", "subscribing"} =>
                                  reader[c] \in {"none", "subscribing"}
    PROVE  HubInv'
    BY DEF HubInv, RegisterOnce, UnknownBefore, RegisteredIsOpen

(* The steps of a client. *)
LEMMA HubClientStep ==
    ASSUME HubInv, NEW c \in Clients,
           \/ Connect(c) \/ ConnectionLost(c) \/ WriteTimesOut(c)
           \/ ReadFails(c) \/ Unsubscribe(c) \/ WritePump(c)
    PROVE  HubInv'
<1> USE DEF hubVars, sendVars, clientVars, publishVars
<1>0. HubTypeOK /\ UNCHANGED <<clients, register, stopped, closes>>
    BY DEF HubInv, Connect, NewClient, ConnectionLost, WriteTimesOut, ReadFails,
           Unsubscribe, WritePump, WriteMessage, WriteFails, CloseFrame
<1>1. HubTypeOK'
    <2>1. CASE Unsubscribe(c)
        <3>1. unregister' \in Seq(Clients) /\ Len(unregister') <= ChanSize
            BY <1>0, <2>1, BufferAssumption, SendFacts DEF Unsubscribe, HubTypeOK
        <3> QED
            BY <1>0, <2>1, <3>1 DEF Unsubscribe, HubTypeOK
    <2>2. CASE WriteMessage(c)
        <3>1. send[c] - 1 \in 0 .. SendBuffer
            BY <1>0, <2>2, BufferAssumption DEF WriteMessage, HubTypeOK
        <3> QED
            BY <1>0, <2>2, <3>1 DEF WriteMessage, HubTypeOK
    <2>3. CASE Connect(c) \/ ConnectionLost(c) \/ ReadFails(c)
        BY <1>0, <2>3 DEF Connect, NewClient, ConnectionLost, ReadFails, HubTypeOK
    <2>4. CASE WriteTimesOut(c) \/ WriteFails(c) \/ CloseFrame(c)
        BY <1>0, <2>4 DEF WriteTimesOut, WriteFails, CloseFrame, EndWriter, HubTypeOK
    <2> QED
        BY <2>1, <2>2, <2>3, <2>4 DEF WritePump
<1>2. \A d \in Clients : conn'[d] = "none" => reader'[d] = "none"
    BY <1>0 DEF HubInv, UnknownBefore, HubTypeOK, Connect, NewClient, ConnectionLost,
        WriteTimesOut, ReadFails, Unsubscribe, WritePump, WriteMessage, WriteFails,
        CloseFrame, EndWriter
<1>3. \A d \in Clients : reader'[d] \in {"none", "subscribing"} =>
                             reader[d] \in {"none", "subscribing"}
    BY <1>0 DEF HubInv, UnknownBefore, HubTypeOK, Connect, NewClient, ConnectionLost,
        WriteTimesOut, ReadFails, Unsubscribe, WritePump, WriteMessage, WriteFails,
        CloseFrame, EndWriter
<1> QED
    BY <1>0, <1>1, <1>2, <1>3, HubFrame

(* Subscribe queues a client that was never queued before. *)
LEMMA HubSubscribeStep ==
    ASSUME HubInv, NEW c \in Clients, Subscribe(c)
    PROVE  HubInv'
<1>1. /\ register' = Append(register, c) /\ register \in Seq(Clients)
      /\ UNCHANGED <<clients, closes, stopped, conn>>
      /\ reader' = [reader EXCEPT ![c] = "reading"] /\ reader[c] = "subscribing"
    BY DEF Subscribe, HubInv, HubTypeOK, sendVars
<1>2. /\ register' \in Seq(Clients) /\ Len(register') = Len(register) + 1
      /\ Len(register) \in Nat
      /\ register'[Len(register) + 1] = c
      /\ \A i \in 1 .. Len(register) : register'[i] = register[i]
    BY <1>1, SendFacts
<1>3. HubTypeOK'
    <2>1. Len(register') <= ChanSize
        BY <1>2, BufferAssumption DEF Subscribe
    <2> QED
        BY <1>1, <1>2, <2>1 DEF Subscribe, HubInv, HubTypeOK, sendVars, publishVars
<1>4. c \notin clients /\ closes[c] = 0 /\ \A i \in 1 .. Len(register) : register[i] # c
    BY <1>1 DEF HubInv, UnknownBefore
<1>5. RegisterOnce'
    <2>1. \A i \in 1 .. Len(register') :
          \/ i \in 1 .. Len(register) /\ register'[i] = register[i]
          \/ i = Len(register) + 1 /\ register'[i] = c
        BY <1>2
    <2> QED
        BY <1>1, <1>4, <2>1 DEF HubInv, RegisterOnce
<1>6. UnknownBefore'
    <2>1. \A d \in Clients : d # c => reader'[d] = reader[d]
        BY <1>1
    <2>2. reader'[c] = "reading"
        BY <1>1 DEF HubInv, HubTypeOK
    <2>3. conn[c] # "none"
        BY <1>1 DEF HubInv, UnknownBefore
    <2>4. \A d \in Clients : d # c /\ (\A i \in 1 .. Len(register) : register[i] # d) =>
              \A i \in 1 .. Len(register') : register'[i] # d
        BY <1>2
    <2> QED
        BY <1>1, <2>1, <2>2, <2>3, <2>4 DEF HubInv, UnknownBefore
<1> QED
    BY <1>1, <1>3, <1>5, <1>6 DEF HubInv, RegisteredIsOpen

(* The loop takes a client from register: its channel is open. *)
LEMMA HubRegisterStep ==
    ASSUME HubInv, HubRegister
    PROVE  HubInv'
<1> DEFINE c == Head(register)
<1>1. /\ register' = Tail(register) /\ register \in Seq(Clients) /\ register # <<>>
      /\ clients' = clients \cup {c} /\ stopped = FALSE
      /\ UNCHANGED <<closes, stopped, conn, reader>>
    BY DEF HubRegister, HubInv, HubTypeOK, sendVars, clientVars
<1>2. /\ Len(register) \in Nat \ {0} /\ c = register[1] /\ c \in Clients
      /\ register' \in Seq(Clients) /\ Len(register') = Len(register) - 1
      /\ \A i \in 1 .. Len(register') : register'[i] = register[i + 1]
    BY <1>1, ReceiveFacts
<1> HIDE DEF c
<1>3. HubTypeOK'
    BY <1>1, <1>2, BufferAssumption
       DEF HubRegister, HubInv, HubTypeOK, sendVars, clientVars, publishVars
<1>4. \A i \in 1 .. Len(register') : i + 1 \in 1 .. Len(register) /\ i + 1 # 1
    BY <1>2
<1>5. 1 \in 1 .. Len(register)
    BY <1>2
<1>6. RegisterOnce'
    <2>1. \A i \in 1 .. Len(register') :
             register'[i] \notin clients' /\ closes'[register'[i]] = 0
        BY <1>1, <1>2, <1>4, <1>5 DEF HubInv, RegisterOnce
    <2>2. \A i, j \in 1 .. Len(register') : register'[i] = register'[j] => i = j
        BY <1>2, <1>4 DEF HubInv, RegisterOnce
    <2> QED
        BY <2>1, <2>2 DEF RegisterOnce
<1>7. UnknownBefore'
    BY <1>1, <1>2, <1>4, <1>5 DEF HubInv, UnknownBefore
<1>8. RegisteredIsOpen'
    BY <1>1, <1>2, <1>5 DEF HubInv, RegisteredIsOpen, RegisterOnce
<1> QED
    BY <1>3, <1>6, <1>7, <1>8 DEF HubInv

(* The loop closes the channel of a client that it has registered, and of  *)
(* no other: a client in register waits with an open channel, and one that *)
(* was removed is not closed again.                                        *)
LEMMA HubCloseStep ==
    ASSUME HubInv, HubUnregister \/ HubStop
    PROVE  HubInv'
<1> USE DEF hubVars, sendVars, clientVars, publishVars
<1>0. HubTypeOK /\ stopped = FALSE
    BY DEF HubInv, HubUnregister, HubStop, HubTypeOK
<1>1. /\ UNCHANGED <<register, send, conn, reader, writer, targets, published>>
      /\ clients' \subseteq clients
      /\ closes' \in [Clients -> 0 .. 1]
      /\ \A c \in clients' : closes'[c] = closes[c]
      /\ \A c \in Clients : c \notin clients => closes'[c] = closes[c]
      /\ unregister' \in Seq(Clients) /\ Len(unregister') <= ChanSize
      /\ stopped' \in BOOLEAN /\ (stopped' => clients' = {})
    <2>1. CASE HubUnregister
        <3>1. /\ Head(unregister) \in Clients /\ Tail(unregister) \in Seq(Clients)
              /\ Len(Tail(unregister)) <= ChanSize
            BY <1>0, <2>1, BufferAssumption, ReceiveFacts DEF HubUnregister, HubTypeOK
        <3>2. Head(unregister) \in clients => closes[Head(unregister)] = 0
            BY DEF HubInv, RegisteredIsOpen
        <3>3. closes' \in [Clients -> 0 .. 1]
            BY <1>0, <2>1, <3>1, <3>2 DEF HubUnregister, HubTypeOK
        <3>4. /\ \A c \in clients' : closes'[c] = closes[c]
              /\ \A c \in Clients : c \notin clients => closes'[c] = closes[c]
            BY <1>0, <2>1, <3>1 DEF HubUnregister, HubTypeOK
        <3> QED
            BY <1>0, <2>1, <3>1, <3>3, <3>4 DEF HubUnregister, HubTypeOK
    <2>2. CASE HubStop
        <3>1. closes' \in [Clients -> 0 .. 1]
            BY <1>0, <2>2 DEF HubStop, HubTypeOK, HubInv, RegisteredIsOpen
        <3>2. stopped' \in BOOLEAN
            BY <2>2, Zenon DEF HubStop
        <3> QED
            BY <1>0, <2>2, <3>1, <3>2 DEF HubStop, HubTypeOK
    <2> QED
        BY <2>1, <2>2
<1>2. HubTypeOK'
    BY <1>0, <1>1 DEF HubTypeOK
<1>3. RegisterOnce'
    <2>1. \A i \in 1 .. Len(register) : register[i] \in Clients
        BY <1>0 DEF HubTypeOK
    <2> QED
        BY <1>1, <2>1 DEF HubInv, RegisterOnce
<1>4. UnknownBefore'
    BY <1>1 DEF HubInv, UnknownBefore
<1>5. RegisteredIsOpen'
    BY <1>1 DEF HubInv, RegisteredIsOpen
<1> QED
    BY <1>2, <1>3, <1>4, <1>5 DEF HubInv

(* Publish and trySend change neither the maps nor a closed channel. *)
LEMMA HubPublishStep ==
    ASSUME HubInv, NEW p \in Publishers, Publish(p) \/ PublishStep(p)
    PROVE  HubInv'
<1> USE DEF hubVars, sendVars, clientVars, publishVars
<1>0. HubTypeOK /\ UNCHANGED <<clients, register, stopped, closes, conn, reader>>
    BY DEF HubInv, Publish, PublishStep, TrySend, TrySendFails
<1>1. HubTypeOK'
    <2>1. CASE Publish(p)
        BY <1>0, <2>1, PublishAssumption DEF Publish, HubTypeOK
    <2>2. ASSUME NEW c \in Clients, TrySend(p, c) PROVE HubTypeOK'
        <3>1. send[c] + 1 \in 0 .. SendBuffer
            BY <1>0, <2>2, BufferAssumption DEF TrySend, HubTypeOK
        <3> QED
            BY <1>0, <2>2, <3>1 DEF TrySend, HubTypeOK
    <2>3. ASSUME NEW c \in Clients, TrySendFails(p, c) PROVE HubTypeOK'
        <3>1. unregister' \in Seq(Clients) /\ Len(unregister') <= ChanSize
            BY <1>0, <2>3, BufferAssumption, SendFacts DEF TrySendFails, HubTypeOK
        <3> QED
            BY <1>0, <2>3, <3>1 DEF TrySendFails, HubTypeOK
    <2> QED
        BY <2>1, <2>2, <2>3 DEF PublishStep
<1> QED
    BY <1>0, <1>1, HubFrame DEF HubInv, UnknownBefore

(* The invariant of the hub holds in every reachable state. *)
LEMMA HubInvariant == HubSpec => []HubInv
<1>1. HubInv /\ [HubNext]_hubAllVars => HubInv'
    <2> SUFFICES ASSUME HubInv, [HubNext]_hubAllVars PROVE HubInv'
        OBVIOUS
    <2>1. CASE UNCHANGED hubAllVars
        BY <2>1 DEF hubAllVars, hubVars, sendVars, clientVars, publishVars, HubInv,
           HubTypeOK, RegisterOnce, UnknownBefore, RegisteredIsOpen
    <2> QED
        BY <2>1, HubClientStep, HubSubscribeStep, HubRegisterStep, HubCloseStep,
           HubPublishStep DEF HubNext, ReadPump
<1> QED
    BY <1>1, HubInitInv, PTL DEF HubSpec

(* For any clients, publishers and capacities, a send channel is closed at *)
(* most once, so the loop never panics, and no buffer exceeds its size.    *)
THEOREM HubTypeCorrect == HubSpec => []HubTypeOK
    BY HubInvariant, PTL DEF HubInv

(* Publish finds only clients whose channel is open, in whatever order the *)
(* loop empties register and unregister, and none after shutdown.          *)
THEOREM RegisteredIsOpenCorrect == HubSpec => []RegisteredIsOpen
    BY HubInvariant, PTL DEF HubInv
=============================================================================
