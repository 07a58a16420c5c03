----------------------------- MODULE VolumeList -----------------------------
(***************************************************************************)
(* GET /agents/{id}/volumes: the REST handler asks a connected agent for   *)
(* its Docker volumes over the job stream and waits; the agent answers     *)
(* with a unary call of its own, matched by a correlation id.  The waiter  *)
(* may time out or be abandoned while the answer is on its way.            *)
(*                                                                         *)
(* A request stands for its correlation id, a fresh UUID.  Sessions and    *)
(* the registry of streams are those of AgentSession.                      *)
(***************************************************************************)
EXTENDS AgentSession

CONSTANTS
    Requests,   \* REST requests
    AskedOf     \* the agent a request names

ASSUME AskedAssumption == AskedOf \in [Requests -> Agents]

VARIABLES
    ask,        \* server: where ListVolumes and RequestVolumeList are
    stream,     \* server: session whose stream was looked up
    answer,     \* server: what the REST client is told
    pending,    \* server: keys of pendingVolumeLists
    channel,    \* server: what the channel of the request holds
    asked,      \* network: requests sent on a stream and not yet received
    lister,     \* agent: where handleVolumeListRequest is
    via,        \* agent: session whose client it has taken
    found,      \* agent: what Docker answered
    delivery    \* server: where ReportVolumeList is

waiterVars == <<ask, stream, answer, pending>>
agentVars == <<asked, lister, via, found>>
deliveryVars == <<channel, delivery>>
volumeVars == <<waiterVars, agentVars, deliveryVars>>
listVars == <<sessionVars, volumeVars>>

AskStates == {"idle", "checked", "found", "pending", "waiting", "leaving", "done"}
Answers == {"none", "ok", "conflict", "unavailable", "timeout", "internal"}
Findings == {"none", "volumes", "error"}

(* The waiter is in RequestVolumeList, its channel registered. *)
Waiting(q) == ask[q] \in {"pending", "waiting", "leaving"}

-----------------------------------------------------------------------------
VolumesInit ==
    /\ SessionInit
    /\ ask = [q \in Requests |-> "idle"]
    /\ stream = [q \in Requests |-> 0]
    /\ answer = [q \in Requests |-> "none"]
    /\ pending = {}
    /\ channel = [q \in Requests |-> "none"]
    /\ asked = {}
    /\ lister = [q \in Requests |-> "none"]
    /\ via = [q \in Requests |-> 0]
    /\ found = [q \in Requests |-> "none"]
    /\ delivery = [q \in Requests |-> "none"]

-----------------------------------------------------------------------------
(* The REST handler and RequestVolumeList.                                 *)

(* IsConnected, in the handler: 409 if the agent has no stream. *)
CheckConnected(q) ==
    /\ ask[q] = "idle"
    /\ \/ /\ registry[AskedOf[q]] # 0
          /\ ask' = [ask EXCEPT ![q] = "checked"]
          /\ UNCHANGED answer
       \/ /\ registry[AskedOf[q]] = 0
          /\ ask' = [ask EXCEPT ![q] = "done"]
          /\ answer' = [answer EXCEPT ![q] = "conflict"]
    /\ UNCHANGED <<sessionVars, stream, pending, agentVars, deliveryVars>>

(* The second lookup, in RequestVolumeList: the agent may be gone by now. *)
LookUpStream(q) ==
    /\ ask[q] = "checked"
    /\ \/ /\ registry[AskedOf[q]] # 0
          /\ ask' = [ask EXCEPT ![q] = "found"]
          /\ stream' = [stream EXCEPT ![q] = registry[AskedOf[q]]]
          /\ UNCHANGED answer
       \/ /\ registry[AskedOf[q]] = 0
          /\ ask' = [ask EXCEPT ![q] = "done"]
          /\ answer' = [answer EXCEPT ![q] = "conflict"]
          /\ UNCHANGED stream
    /\ UNCHANGED <<sessionVars, pending, agentVars, deliveryVars>>

(* The channel is registered before the request is sent. *)
AddPending(q) ==
    /\ ask[q] = "found"
    /\ ask' = [ask EXCEPT ![q] = "pending"]
    /\ pending' = pending \cup {q}
    /\ UNCHANGED <<sessionVars, stream, answer, agentVars, deliveryVars>>

(* stream.Send: on a stream that is gone it fails, or the request is lost. *)
SendRequest(q) ==
    /\ ask[q] = "pending"
    /\ \/ /\ Live(AskedOf[q], stream[q])
          /\ ask' = [ask EXCEPT ![q] = "waiting"]
          /\ asked' = asked \cup {q}
          /\ UNCHANGED answer
       \/ /\ ~Live(AskedOf[q], stream[q])
          /\ ask' = [ask EXCEPT ![q] = "waiting"]
          /\ UNCHANGED <<asked, answer>>
       \/ /\ ~Live(AskedOf[q], stream[q])
          /\ ask' = [ask EXCEPT ![q] = "leaving"]
          /\ answer' = [answer EXCEPT ![q] = "internal"]
          /\ UNCHANGED asked
    /\ UNCHANGED <<sessionVars, stream, pending, lister, via, found, deliveryVars>>

(* select: the result arrives; an error the agent reports becomes 503. *)
TakeResult(q) ==
    /\ ask[q] = "waiting"
    /\ channel[q] # "none"
    /\ channel' = [channel EXCEPT ![q] = "none"]
    /\ ask' = [ask EXCEPT ![q] = "leaving"]
    /\ answer' = [answer EXCEPT ![q] =
                    IF channel[q] = "volumes" THEN "ok" ELSE "unavailable"]
    /\ UNCHANGED <<sessionVars, stream, pending, agentVars, delivery>>

(* Mutant: as long as the agent is connected the answer is waited for. *)
GiveUpIfDisconnected(q) ==
    /\ ask[q] = "waiting"
    /\ ~Live(AskedOf[q], stream[q])
    /\ ask' = [ask EXCEPT ![q] = "leaving"]
    /\ \E why \in {"timeout", "internal"} :
          answer' = [answer EXCEPT ![q] = why]
    /\ UNCHANGED <<sessionVars, stream, pending, agentVars, deliveryVars>>

(* select: the timer fires, or the REST client goes away.  Either may win  *)
(* over a result that is ready.                                            *)
GiveUp(q) ==
    /\ ask[q] = "waiting"
    /\ ask' = [ask EXCEPT ![q] = "leaving"]
    /\ \E why \in {"timeout", "internal"} :
          answer' = [answer EXCEPT ![q] = why]
    /\ UNCHANGED <<sessionVars, stream, pending, agentVars, deliveryVars>>

(* The deferred delete, on every way out. *)
Leave(q) ==
    /\ ask[q] = "leaving"
    /\ ask' = [ask EXCEPT ![q] = "done"]
    /\ pending' = pending \ {q}
    /\ UNCHANGED <<sessionVars, stream, answer, agentVars, deliveryVars>>

-----------------------------------------------------------------------------
(* The agent.                                                              *)

(* jobStreamLoop starts a goroutine for the request. *)
ReceiveRequest(q) ==
    /\ conn[AskedOf[q]] = "streaming"
    /\ q \in asked
    /\ asked' = asked \ {q}
    /\ lister' = [lister EXCEPT ![q] = "started"]
    /\ UNCHANGED <<sessionVars, waiterVars, via, found, deliveryVars>>

(* The goroutine reads the current client, that of the latest session. *)
TakeClient(q) ==
    /\ lister[q] = "started"
    /\ lister' = [lister EXCEPT ![q] = "listing"]
    /\ via' = [via EXCEPT ![q] = sess[AskedOf[q]]]
    /\ UNCHANGED <<sessionVars, waiterVars, asked, found, deliveryVars>>

(* Docker lists the volumes, or fails or is not there; ReportVolumeList is *)
(* called on the client, and an error of the call is only logged.          *)
ListAndReport(q) ==
    /\ lister[q] = "listing"
    /\ lister' = [lister EXCEPT ![q] = "ended"]
    /\ \E r \in {"volumes", "error"} : found' = [found EXCEPT ![q] = r]
    /\ delivery' = IF Live(AskedOf[q], via[q])
                   THEN [delivery EXCEPT ![q] = "called"]
                   ELSE delivery
    /\ UNCHANGED <<sessionVars, waiterVars, asked, via, channel>>

-----------------------------------------------------------------------------
(* The server's ReportVolumeList handler.                                  *)

(* The call was under way when the connection broke. *)
CallLost(q) ==
    /\ delivery[q] = "called"
    /\ ~Live(AskedOf[q], via[q])
    /\ delivery' = [delivery EXCEPT ![q] = "done"]
    /\ UNCHANGED <<sessionVars, waiterVars, agentVars, channel>>

(* DeliverVolumeList looks the channel up under the lock; without one the  *)
(* report is discarded.                                                    *)
FindWaiter(q) ==
    /\ delivery[q] = "called"
    /\ delivery' = [delivery EXCEPT ![q] = IF q \in pending THEN "located" ELSE "done"]
    /\ UNCHANGED <<sessionVars, waiterVars, agentVars, channel>>

(* Mutant: the channel is not buffered. *)
DeliverUnbuffered(q) ==
    /\ delivery[q] = "located"
    /\ ask[q] = "waiting"
    /\ delivery' = [delivery EXCEPT ![q] = "done"]
    /\ channel' = [channel EXCEPT ![q] = found[q]]
    /\ UNCHANGED <<sessionVars, waiterVars, agentVars>>

(* The send, after the unlock, waits for room in the buffer of one. *)
Deliver(q) ==
    /\ delivery[q] = "located"
    /\ channel[q] = "none"
    /\ delivery' = [delivery EXCEPT ![q] = "done"]
    /\ channel' = [channel EXCEPT ![q] = found[q]]
    /\ UNCHANGED <<sessionVars, waiterVars, agentVars>>

-----------------------------------------------------------------------------
(* Session steps, with what they do to the requests.                       *)

RequestsOf(a) == {q \in Requests : AskedOf[q] = a}

VolumesQuietStep(a) ==
    /\ \/ AgentStart(a)
       \/ Dial(a)
       \/ RegisterRead(a)
       \/ OpenStream(a)
       \/ Heartbeat(a)
       \/ Retry(a)
       \/ LinkDown(a)
       \/ \E s \in Sessions : RegisterSave(a, s) \/ StreamStep(a, s)
    /\ UNCHANGED volumeVars

(* What was sent on the session and not received is lost. *)
VolumesEndSession(a) ==
    /\ SessionEnds(a)
    /\ asked' = asked \ RequestsOf(a)
    /\ UNCHANGED <<waiterVars, lister, via, found, deliveryVars>>

(* The agent process ends, and its goroutines with it. *)
VolumesStopAgent(a) ==
    /\ AgentStop(a)
    /\ asked' = asked \ RequestsOf(a)
    /\ lister' = [q \in Requests |->
                    IF AskedOf[q] = a /\ lister[q] # "none" THEN "ended" ELSE lister[q]]
    /\ UNCHANGED <<waiterVars, via, found, deliveryVars>>

(* Every handler and the map of waiters are gone; the REST clients see     *)
(* their connection close.                                                 *)
VolumesRestartServer ==
    /\ ServerRestart
    /\ ask' = [q \in Requests |-> IF ask[q] = "idle" THEN "idle" ELSE "done"]
    /\ pending' = {}
    /\ channel' = [q \in Requests |-> "none"]
    /\ delivery' = [q \in Requests |->
                      IF delivery[q] = "none" THEN "none" ELSE "done"]
    /\ UNCHANGED <<stream, answer, agentVars>>

-----------------------------------------------------------------------------
WaiterStep(q) ==
    \/ LookUpStream(q)
    \/ AddPending(q)
    \/ SendRequest(q)
    \/ TakeResult(q)
    \/ GiveUp(q)
    \/ Leave(q)

ListerStep(q) ==
    \/ ReceiveRequest(q)
    \/ TakeClient(q)
    \/ ListAndReport(q)

DeliveryStep(q) ==
    \/ FindWaiter(q)
    \/ Deliver(q)

VolumesNext ==
    \/ \E q \in Requests : \/ CheckConnected(q)
                           \/ WaiterStep(q)
                           \/ ListerStep(q)
                           \/ CallLost(q)
                           \/ DeliveryStep(q)
    \/ \E a \in Agents : VolumesQuietStep(a) \/ VolumesEndSession(a) \/ VolumesStopAgent(a)
    \/ VolumesRestartServer

VolumesSpec == VolumesInit /\ [][VolumesNext]_listVars

(* The goroutines of the server are scheduled and its timer fires.  The    *)
(* agent and Docker may be as slow as they like.                           *)
VolumesFairSpec ==
    /\ VolumesSpec
    /\ \A q \in Requests : WF_listVars(WaiterStep(q)) /\ WF_listVars(DeliveryStep(q))

-----------------------------------------------------------------------------
(* Properties.                                                             *)

(* Every variable keeps its type, and no request that is over leaves its   *)
(* channel in the map (manager.go:254).                                    *)
VolumesTypeOK ==
    /\ SessionTypeOK
    /\ ask \in [Requests -> AskStates]
    /\ stream \in [Requests -> 0 .. MaxSessions]
    /\ answer \in [Requests -> Answers]
    /\ pending = {q \in Requests : Waiting(q)}
    /\ channel \in [Requests -> Findings]
    /\ asked \subseteq Requests
    /\ lister \in [Requests -> {"none", "started", "listing", "ended"}]
    /\ via \in [Requests -> 0 .. MaxSessions]
    /\ found \in [Requests -> Findings]
    /\ delivery \in [Requests -> {"none", "called", "located", "done"}]

(* A report that has found its waiter finds room in the channel too, even  *)
(* when the waiter has given up since: the buffer of one is enough, as no  *)
(* request is reported twice over whatever sessions (manager.go:308).      *)
ReportFindsRoom ==
    \A q \in Requests : delivery[q] = "located" => channel[q] = "none"

(* A 200 or 503 tells what Docker told the agent that was asked, however   *)
(* late the report was and whatever session it came on.                    *)
AnswerIsFound ==
    \A q \in Requests : /\ answer[q] = "ok" => found[q] = "volumes"
                        /\ answer[q] = "unavailable" => found[q] = "error"

(* Every request ends, by an answer or by giving up (manager.go:279). *)
RequestEnds == \A q \in Requests : ask[q] = "checked" ~> ask[q] = "done"

(* No ReportVolumeList handler hangs on a waiter that has gone. *)
ReportReturns == \A q \in Requests : delivery[q] = "called" ~> delivery[q] = "done"
=============================================================================
