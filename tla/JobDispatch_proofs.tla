-------------------------- MODULE JobDispatch_proofs --------------------------
(***************************************************************************)
(* Proofs about AgentSession and the two modules that extend it,           *)
(* JobDispatch and VolumeList, for any sets of agents, jobs and volume     *)
(* requests, any queue capacity and any number of sessions and server      *)
(* restarts.                                                               *)
(***************************************************************************)
EXTENDS JobDispatch, VolumeList, TLAPS

-----------------------------------------------------------------------------
(* The sessions by themselves: SessionSpec.                                *)

(* The initial state is well typed. *)
LEMMA SessionInitType == SessionInit => SessionTypeOK
  BY SessionBounds, BackoffBounds
  DEF SessionInit, SessionTypeOK, Sessions, ConnStates, HandlerStates, RowStates

(* The doubled and capped delay stays between the two limits. *)
LEMMA NextBackoffBounded ==
    ASSUME NEW b \in BackoffInitial .. BackoffMax
    PROVE  NextBackoff(b) \in BackoffInitial .. BackoffMax
  BY BackoffBounds DEF NextBackoff

(* A step of an agent, its network or a unary handler keeps the types. *)
LEMMA AgentStepType ==
    ASSUME SessionTypeOK, NEW a \in Agents, AgentStep(a)
    PROVE  SessionTypeOK'
<1> USE DEF SessionTypeOK
<1>1. CASE AgentStart(a)
  BY <1>1, BackoffBounds DEF AgentStart, ConnStates
<1>2. CASE Dial(a)
  BY <1>2, SessionBounds DEF Dial, ConnStates
<1>3. CASE RegisterRead(a)
  BY <1>3 DEF RegisterRead, ConnStates, RowStates
<1>5. CASE OpenStream(a)
  BY <1>5 DEF OpenStream, ConnStates, HandlerStates
<1>6. CASE Heartbeat(a)
  BY <1>6 DEF Heartbeat, RowStates
<1>7. CASE SessionEnds(a)
  BY <1>7 DEF SessionEnds, ConnStates
<1>8. CASE Retry(a)
  BY <1>8, NextBackoffBounded DEF Retry, ConnStates
<1>9. CASE AgentStop(a)
  BY <1>9 DEF AgentStop, ConnStates
<1>10. CASE LinkDown(a)
  BY <1>10 DEF LinkDown
<1> QED
  BY <1>1, <1>2, <1>3, <1>5, <1>6, <1>7, <1>8, <1>9, <1>10 DEF AgentStep

(* The save of a Register handler keeps the types. *)
LEMMA RegisterSaveType ==
    ASSUME SessionTypeOK, NEW a \in Agents, NEW s \in Sessions, RegisterSave(a, s)
    PROVE  SessionTypeOK'
<1> USE DEF SessionTypeOK
<1>1. conn' \in [Agents -> ConnStates]
  BY DEF RegisterSave, ConnStates
<1>2. regRead[a][s] \in RowStates
  BY DEF RegisterSave
<1>3. agentRow' \in [Agents -> RowStates]
  BY <1>2 DEF RegisterSave
<1>4. regRead' \in [Agents -> [Sessions -> RowStates \cup {"none"}]]
  BY DEF RegisterSave
<1> QED
  BY <1>1, <1>3, <1>4 DEF RegisterSave

(* A step of a StreamJobs handler keeps the types. *)
LEMMA StreamStepType ==
    ASSUME SessionTypeOK, NEW a \in Agents, NEW s \in Sessions, StreamStep(a, s)
    PROVE  SessionTypeOK'
<1> USE DEF SessionTypeOK
<1>1. CASE StreamLookupFails(a, s)
  BY <1>1 DEF StreamLookupFails, HandlerStates
<1>2. CASE StreamMarkOnline(a, s)
  BY <1>2 DEF StreamMarkOnline, HandlerStates, RowStates
<1>3. CASE StreamRegister(a, s)
  BY <1>3, SessionBounds DEF StreamRegister, HandlerStates, Sessions
<1>4. CASE StreamDeregister(a, s)
  BY <1>4, SessionBounds DEF StreamDeregister, HandlerStates
<1>5. CASE StreamMarkOffline(a, s)
  BY <1>5 DEF StreamMarkOffline, HandlerStates, RowStates
<1>6. CASE \E final \in {"closed", "unrecovered"} : StreamReturn(a, s, final)
  BY <1>6 DEF StreamReturn, HandlerStates
<1> QED
  BY <1>1, <1>2, <1>3, <1>4, <1>5, <1>6 DEF StreamStep

(* A restart of the server keeps the types. *)
LEMMA RestartType ==
    ASSUME SessionTypeOK, ServerRestart
    PROVE  SessionTypeOK'
  BY SessionBounds DEF SessionTypeOK, ServerRestart, HandlerStates

(* Every step of the session keeps the types. *)
LEMMA SessionTypeStep ==
    ASSUME SessionTypeOK, [SessionNext]_sessionVars
    PROVE  SessionTypeOK'
<1>1. CASE UNCHANGED sessionVars
  BY <1>1 DEF sessionVars, SessionTypeOK
<1>2. CASE SessionNext
  BY <1>2, AgentStepType, RegisterSaveType, StreamStepType, RestartType
  DEF SessionNext
<1> QED
  BY <1>1, <1>2

(* Type correctness of the session. *)
THEOREM SessionTypeCorrect == SessionSpec => []SessionTypeOK
  BY SessionInitType, SessionTypeStep, PTL DEF SessionSpec

-----------------------------------------------------------------------------
(***************************************************************************)
(* The facts about the registry become inductive with one more: a session  *)
(* that has not opened its stream yet has no handler.  With it, a handler  *)
(* that registered stays in Past for good, and every deletion of an entry  *)
(* is done by a handler that is in Past.                                   *)
(***************************************************************************)
Past == {"open", "deregistered", "offline", "closed", "unrecovered"}

NoHandlerBeforeStream ==
    \A a \in Agents :
        /\ \A s \in Sessions : s > sess[a] => handler[a][s] = "none"
        /\ conn[a] \in {"dialed", "registering", "registered"}
              => sess[a] \in Sessions /\ handler[a][sess[a]] = "none"

SessionInv == /\ SessionTypeOK
              /\ NoHandlerBeforeStream
              /\ RegistryHoldsOpenStream
              /\ MissingOnlyAfterOverlap

(* The invariant holds initially. *)
LEMMA SessionInvInit == SessionInit => SessionInv
  BY SessionInitType, SessionBounds
  DEF SessionInit, SessionInv, NoHandlerBeforeStream, RegistryHoldsOpenStream,
      MissingOnlyAfterOverlap

(* A step that leaves the registry alone and moves no handler to or from   *)
(* open, nor out of Past, keeps both facts about the registry.             *)
LEMMA RegistryUntouched ==
    ASSUME SessionInv, registry' = registry,
           \A a \in Agents, s \in Sessions :
              /\ handler'[a][s] = "open" <=> handler[a][s] = "open"
              /\ handler[a][s] \in Past => handler'[a][s] \in Past
    PROVE  RegistryHoldsOpenStream' /\ MissingOnlyAfterOverlap'
<1>1. \A a \in Agents : registry[a] # 0 => registry[a] \in Sessions
  BY SessionBounds DEF SessionInv, SessionTypeOK, Sessions
<1>2. RegistryHoldsOpenStream'
  BY <1>1 DEF SessionInv, RegistryHoldsOpenStream
<1>3. MissingOnlyAfterOverlap'
  BY DEF SessionInv, MissingOnlyAfterOverlap, Past
<1> QED
  BY <1>2, <1>3

(* A step of an agent opens streams only where there was no handler. *)
LEMMA AgentStepInv ==
    ASSUME SessionInv, NEW a \in Agents, AgentStep(a)
    PROVE  /\ NoHandlerBeforeStream'
           /\ RegistryHoldsOpenStream'
           /\ MissingOnlyAfterOverlap'
<1>1. CASE OpenStream(a)
  <2>1. sess[a] \in Sessions /\ handler[a][sess[a]] = "none"
    BY <1>1 DEF OpenStream, SessionInv, NoHandlerBeforeStream
  <2>2. \A b \in Agents, s \in Sessions :
           handler'[b][s] = IF b = a /\ s = sess[a] THEN "accepted" ELSE handler[b][s]
    BY <1>1, <2>1 DEF OpenStream, SessionInv, SessionTypeOK
  <2>3. RegistryHoldsOpenStream' /\ MissingOnlyAfterOverlap'
    BY <1>1, <2>1, <2>2, RegistryUntouched DEF OpenStream, Past
  <2>4. NoHandlerBeforeStream'
    BY <1>1, <2>1, <2>2, SessionBounds
    DEF OpenStream, SessionInv, SessionTypeOK, NoHandlerBeforeStream, Sessions
  <2> QED
    BY <2>3, <2>4
<1>2. CASE ~OpenStream(a)
  <2>1. UNCHANGED <<handler, registry>>
    BY <1>2 DEF AgentStep, AgentStart, Dial, RegisterRead, Heartbeat,
                SessionEnds, Retry, AgentStop, LinkDown
  <2>2. RegistryHoldsOpenStream' /\ MissingOnlyAfterOverlap'
    BY <2>1, RegistryUntouched
  <2>3. NoHandlerBeforeStream'
    <3>1. CASE Dial(a)
      BY <3>1, SessionBounds
      DEF Dial, SessionInv, SessionTypeOK, NoHandlerBeforeStream, Sessions
    <3>2. CASE ~Dial(a)
      <4>1. sess' = sess
        BY <1>2, <3>2 DEF AgentStep, AgentStart, RegisterRead, Heartbeat,
                SessionEnds, Retry, AgentStop, LinkDown
      <4>2. \A b \in Agents :
               conn'[b] \in {"dialed", "registering", "registered"}
                  => conn[b] \in {"dialed", "registering", "registered"}
        BY <1>2, <3>2
        DEF AgentStep, AgentStart, RegisterRead, Heartbeat,
            SessionEnds, Retry, AgentStop, LinkDown, SessionInv, SessionTypeOK
      <4> QED
        BY <2>1, <4>1, <4>2 DEF SessionInv, NoHandlerBeforeStream
    <3> QED
      BY <3>1, <3>2
  <2> QED
    BY <2>2, <2>3
<1> QED
  BY <1>1, <1>2

(* The save of a Register handler touches no stream. *)
LEMMA RegisterSaveInv ==
    ASSUME SessionInv, NEW a \in Agents, NEW s \in Sessions, RegisterSave(a, s)
    PROVE  /\ NoHandlerBeforeStream'
           /\ RegistryHoldsOpenStream'
           /\ MissingOnlyAfterOverlap'
<1>1. UNCHANGED <<handler, registry, sess>>
  BY DEF RegisterSave
<1>2. \A b \in Agents :
         conn'[b] \in {"dialed", "registering", "registered"}
            => conn[b] \in {"dialed", "registering", "registered"}
  BY DEF RegisterSave, SessionInv, SessionTypeOK
<1> QED
  BY <1>1, <1>2, RegistryUntouched DEF SessionInv, NoHandlerBeforeStream

(* A step of a StreamJobs handler. *)
LEMMA StreamStepInv ==
    ASSUME SessionInv, NEW a \in Agents, NEW s \in Sessions, StreamStep(a, s)
    PROVE  /\ NoHandlerBeforeStream'
           /\ RegistryHoldsOpenStream'
           /\ MissingOnlyAfterOverlap'
<1>1. /\ handler[a][s] # "none"
      /\ UNCHANGED <<sess, conn>>
      /\ \E h \in HandlerStates : handler' = [handler EXCEPT ![a][s] = h]
  BY DEF StreamStep, StreamLookupFails, StreamMarkOnline, StreamRegister,
         StreamDeregister, StreamMarkOffline, StreamReturn, HandlerStates
<1>2. \A b \in Agents, t \in Sessions :
         b # a \/ t # s => handler'[b][t] = handler[b][t]
  BY <1>1 DEF SessionInv, SessionTypeOK
<1>3. NoHandlerBeforeStream'
  BY <1>1, <1>2 DEF SessionInv, NoHandlerBeforeStream
<1>4. CASE StreamRegister(a, s)
  <2>1. handler'[a][s] = "open" /\ registry' = [registry EXCEPT ![a] = s]
    BY <1>4 DEF StreamRegister, SessionInv, SessionTypeOK
  <2>2. \A b \in Agents : registry'[b] = IF b = a THEN s ELSE registry[b]
    BY <2>1 DEF SessionInv, SessionTypeOK
  <2>3. \A b \in Agents : registry[b] # 0 => registry[b] \in Sessions
    BY SessionBounds DEF SessionInv, SessionTypeOK, Sessions
  <2>4. RegistryHoldsOpenStream'
    BY <1>2, <2>1, <2>2, <2>3 DEF SessionInv, RegistryHoldsOpenStream
  <2>5. MissingOnlyAfterOverlap'
    BY <1>2, <2>1, <2>2 DEF SessionInv, MissingOnlyAfterOverlap
  <2> QED
    BY <1>3, <2>4, <2>5
<1>5. CASE StreamDeregister(a, s)
  <2>1. handler'[a][s] = "deregistered" /\ registry' = [registry EXCEPT ![a] = 0]
    BY <1>5 DEF StreamDeregister, SessionInv, SessionTypeOK
  <2>2. \A b \in Agents : registry'[b] = IF b = a THEN 0 ELSE registry[b]
    BY <2>1 DEF SessionInv, SessionTypeOK
  <2>3. \A b \in Agents : registry[b] # 0 => registry[b] \in Sessions
    BY SessionBounds DEF SessionInv, SessionTypeOK, Sessions
  <2>4. RegistryHoldsOpenStream'
    BY <1>2, <2>1, <2>2, <2>3 DEF SessionInv, RegistryHoldsOpenStream
  <2>5. MissingOnlyAfterOverlap'
    BY <1>2, <2>1, <2>2 DEF SessionInv, MissingOnlyAfterOverlap
  <2> QED
    BY <1>3, <2>4, <2>5
<1>6. CASE ~StreamRegister(a, s) /\ ~StreamDeregister(a, s)
  <2>1. registry' = registry
    BY <1>6 DEF StreamStep, StreamLookupFails, StreamMarkOnline,
                StreamMarkOffline, StreamReturn
  <2>2. /\ handler[a][s] # "open" /\ handler'[a][s] # "open"
        /\ handler[a][s] \in Past => handler'[a][s] \in Past
    BY <1>6 DEF StreamStep, StreamLookupFails, StreamMarkOnline,
                StreamMarkOffline, StreamReturn, Past, SessionInv, SessionTypeOK
  <2>3. \A b \in Agents, t \in Sessions :
           /\ handler'[b][t] = "open" <=> handler[b][t] = "open"
           /\ handler[b][t] \in Past => handler'[b][t] \in Past
    BY <1>2, <2>2
  <2> QED
    BY <1>3, <2>1, <2>3, RegistryUntouched
<1> QED
  BY <1>4, <1>5, <1>6

(* After a restart no stream is registered and no handler is open. *)
LEMMA RestartInv ==
    ASSUME SessionInv, ServerRestart
    PROVE  /\ NoHandlerBeforeStream'
           /\ RegistryHoldsOpenStream'
           /\ MissingOnlyAfterOverlap'
<1>1. /\ \A a \in Agents : registry'[a] = 0
      /\ \A a \in Agents, s \in Sessions :
            handler[a][s] = "none" => handler'[a][s] = "none"
      /\ \A a \in Agents, s \in Sessions : handler'[a][s] # "open"
      /\ UNCHANGED <<sess, conn>>
  BY DEF ServerRestart
<1> QED
  BY <1>1 DEF SessionInv, NoHandlerBeforeStream, RegistryHoldsOpenStream,
              MissingOnlyAfterOverlap

(* Every step of the session keeps the invariant. *)
LEMMA SessionInvStep ==
    ASSUME SessionInv, [SessionNext]_sessionVars
    PROVE  SessionInv'
<1>1. SessionTypeOK'
  BY SessionTypeStep DEF SessionInv
<1>2. CASE UNCHANGED sessionVars
  BY <1>1, <1>2 DEF sessionVars, SessionInv, NoHandlerBeforeStream,
                    RegistryHoldsOpenStream, MissingOnlyAfterOverlap
<1>3. CASE SessionNext
  BY <1>1, <1>3, AgentStepInv, RegisterSaveInv, StreamStepInv,
     RestartInv
  DEF SessionNext, SessionInv
<1> QED
  BY <1>2, <1>3

(* The registry only ever holds the stream of a handler that is waiting on *)
(* its context.                                                            *)
THEOREM RegistryCorrect == SessionSpec => []RegistryHoldsOpenStream
<1>1. SessionInv => RegistryHoldsOpenStream
  BY DEF SessionInv
<1> QED
  BY <1>1, SessionInvInit, SessionInvStep, PTL DEF SessionSpec

(* A stream that is open and unregistered has met another session of its   *)
(* agent.                                                                  *)
THEOREM OverlapCorrect == SessionSpec => []MissingOnlyAfterOverlap
<1>1. SessionInv => MissingOnlyAfterOverlap
  BY DEF SessionInv
<1> QED
  BY <1>1, SessionInvInit, SessionInvStep, PTL DEF SessionSpec

-----------------------------------------------------------------------------
(* Sequences without repetitions.                                          *)

Distinct(q) == \A i, k \in DOMAIN q : q[i] = q[k] => i = k

(* What Append does to membership and repetitions. *)
LEMMA AppendFacts ==
    ASSUME NEW S, NEW q \in Seq(S), NEW e \in S
    PROVE  /\ Append(q, e) \in Seq(S)
           /\ \A x : InSeq(x, Append(q, e)) => InSeq(x, q) \/ x = e
           /\ Distinct(q) /\ ~InSeq(e, q) => Distinct(Append(q, e))
<1>1. /\ Append(q, e) \in Seq(S)
      /\ Len(q) \in Nat
      /\ DOMAIN q = 1 .. Len(q)
      /\ DOMAIN Append(q, e) = 1 .. Len(q) + 1
      /\ Append(q, e)[Len(q) + 1] = e
      /\ \A i \in 1 .. Len(q) : Append(q, e)[i] = q[i]
  OBVIOUS
<1>2. \A x : InSeq(x, Append(q, e)) => InSeq(x, q) \/ x = e
  BY <1>1 DEF InSeq
<1>3. Distinct(q) /\ ~InSeq(e, q) => Distinct(Append(q, e))
  BY <1>1 DEF InSeq, Distinct
<1> QED
  BY <1>1, <1>2, <1>3

(* What Tail does to them. *)
LEMMA TailFacts ==
    ASSUME NEW S, NEW q \in Seq(S), q # <<>>
    PROVE  /\ Head(q) \in S
           /\ Tail(q) \in Seq(S)
           /\ InSeq(Head(q), q)
           /\ \A x : InSeq(x, Tail(q)) => InSeq(x, q)
           /\ Distinct(q) => Distinct(Tail(q)) /\ ~InSeq(Head(q), Tail(q))
<1>1. /\ Tail(q) \in Seq(S)
      /\ Len(q) \in Nat \ {0}
      /\ DOMAIN q = 1 .. Len(q)
      /\ DOMAIN Tail(q) = 1 .. Len(q) - 1
      /\ Head(q) = q[1]
      /\ Head(q) \in S
      /\ \A i \in 1 .. Len(q) - 1 : Tail(q)[i] = q[i + 1]
  OBVIOUS
<1>2. InSeq(Head(q), q)
  BY <1>1 DEF InSeq
<1>3. \A x : InSeq(x, Tail(q)) => InSeq(x, q)
  BY <1>1 DEF InSeq
<1>4. Distinct(q) => Distinct(Tail(q)) /\ ~InSeq(Head(q), Tail(q))
  BY <1>1 DEF InSeq, Distinct
<1> QED
  BY <1>1, <1>2, <1>3, <1>4

(* The empty sequence has no members and no repetitions. *)
LEMMA EmptyFacts == /\ \A S : <<>> \in Seq(S)
                    /\ \A x : ~InSeq(x, <<>>)
                    /\ Distinct(<<>>)
  BY DEF InSeq, Distinct

-----------------------------------------------------------------------------
(* A step of the whole is a step of the session or leaves it alone, so     *)
(* what is proved about sessions holds here too.                           *)
LEMMA NextIsSessionStep ==
    ASSUME [Next]_vars
    PROVE  [SessionNext]_sessionVars
<1>1. CASE UNCHANGED vars
  BY <1>1 DEF vars
<1>2. CASE \E j \in Jobs : JobStep(j)
  BY <1>2 DEF JobStep, CreateJob, DispatchNotConnected, DispatchLookup, DispatchSend
<1>3. CASE \E r \in late : ReportJobStatusLate(r)
  BY <1>3 DEF ReportJobStatusLate
<1>4. CASE RestartServer
  BY <1>4 DEF RestartServer, SessionNext
<1>5. ASSUME NEW a \in Agents,
             \/ Receive(a) \/ ExecutorStep(a) \/ ReportJobStatus(a)
             \/ QuietSessionStep(a) \/ BreakLink(a) \/ EndSession(a)
             \/ StopAgent(a)
             \/ \E s \in Sessions : RecoverOrphans(a, s) \/ RecoveryFails(a, s)
      PROVE  [SessionNext]_sessionVars
  <2>1. CASE Receive(a)
    BY <2>1 DEF Receive
  <2>2. CASE ExecutorStep(a)
    BY <2>2 DEF ExecutorStep, Fetch, RejectPayload, Begin, Finish, Resume
  <2>3. CASE ReportJobStatus(a)
    BY <2>3 DEF ReportJobStatus
  <2>4. CASE QuietSessionStep(a)
    BY <2>4 DEF QuietSessionStep, SessionNext, AgentStep, StreamStep
  <2>5. CASE BreakLink(a)
    BY <2>5 DEF BreakLink, SessionNext, AgentStep
  <2>6. CASE EndSession(a)
    BY <2>6 DEF EndSession, SessionNext, AgentStep
  <2>7. CASE StopAgent(a)
    BY <2>7 DEF StopAgent, SessionNext, AgentStep
  <2>8. CASE \E s \in Sessions : RecoverOrphans(a, s) \/ RecoveryFails(a, s)
    BY <2>8 DEF RecoverOrphans, RecoveryFails, SessionNext, StreamStep
  <2> QED
    BY <1>5, <2>1, <2>2, <2>3, <2>4, <2>5, <2>6, <2>7, <2>8
<1> QED
  BY <1>1, <1>2, <1>3, <1>4, <1>5 DEF Next

(* JobDispatch implements the sessions of AgentSession: the registry is    *)
(* sound while jobs are dispatched, executed and reported.                 *)
THEOREM JobsKeepSessions == Spec => SessionSpec
<1>1. Init => SessionInit
  BY DEF Init
<1> QED
  BY <1>1, NextIsSessionStep, PTL DEF Spec, SessionSpec

(* While jobs run, the registry holds only streams whose handler waits on  *)
(* its context.                                                            *)
THEOREM RegistryUnderJobs == Spec => []RegistryHoldsOpenStream
  BY JobsKeepSessions, RegistryCorrect, PTL

-----------------------------------------------------------------------------
(***************************************************************************)
(* The inductive invariant.  A job exists in at most one place: with the   *)
(* goroutine that dispatches it, on the wire, in the queue or with the     *)
(* executor of its own agent, and nothing has happened to it before the    *)
(* last of them.  Every report, on its way or abandoned, is true of its    *)
(* job, and stays true because a final outcome never changes.              *)
(***************************************************************************)
Unseen(j) == /\ outcome[j] = "none"
             /\ \A a \in Agents : /\ ~InSeq(j, wire[a])
                                  /\ ~InSeq(j, queue[a])
                                  /\ running[a] # j

DispatchFirst == \A j \in Jobs : disp[j] # "done" => Unseen(j)

RowBeforeDispatch == \A j \in Jobs : jobStatus[j] = "none" <=> disp[j] = "idle"

SingleCopy(a, j) ==
    /\ InSeq(j, wire[a]) => /\ AgentOf[j] = a
                            /\ ~InSeq(j, queue[a])
                            /\ running[a] # j
                            /\ outcome[j] = "none"
    /\ InSeq(j, queue[a]) => /\ AgentOf[j] = a
                             /\ running[a] # j
                             /\ outcome[j] = "none"
    /\ running[a] = j => AgentOf[j] = a

OneCopy == \A a \in Agents, j \in Jobs : SingleCopy(a, j)

NoRepetition == \A a \in Agents : Distinct(wire[a]) /\ Distinct(queue[a])

ExecutorSound ==
    \A a \in Agents :
        /\ pc[a] = "idle" <=> running[a] = NoJob
        /\ rpc[a] # "none" <=> pc[a] \in {"starting", "final"}
        /\ pc[a] = "fetched" => outcome[running[a]] = "none"
        /\ pc[a] \in {"starting", "working"} => outcome[running[a]] = "started"
        /\ pc[a] = "final" => outcome[running[a]] \in {"success", "failed"}

True(r) == /\ outcome[r.job] # "none"
           /\ r.status = "succeeded" => outcome[r.job] = "success"
           /\ r.status = "failed" => outcome[r.job] = "failed"

LateSound == \A r \in late : True(r)

JobInv == /\ TypeOK
          /\ DispatchFirst
          /\ RowBeforeDispatch
          /\ OneCopy
          /\ NoRepetition
          /\ ExecutorSound
          /\ LateSound
          /\ RecordSound
          /\ FailureHasCause

(* The invariant holds initially. *)
LEMMA JobInvInit == Init => JobInv
<1> SUFFICES ASSUME Init PROVE JobInv
  OBVIOUS
<1> USE DEF Init
<1>1. TypeOK
  BY SessionInitType, EmptyFacts, SessionBounds
  DEF TypeOK, JobStates, DispStates, ExecStates, RpcStates, Outcomes
<1>2. DispatchFirst /\ OneCopy
  BY EmptyFacts, JobAssumption DEF DispatchFirst, Unseen, OneCopy, SingleCopy
<1>3. NoRepetition
  BY EmptyFacts DEF NoRepetition
<1>4. RowBeforeDispatch /\ ExecutorSound /\ LateSound /\ RecordSound /\ FailureHasCause
  BY DEF RowBeforeDispatch, ExecutorSound, LateSound, RecordSound, FailureHasCause
<1> QED
  BY <1>1, <1>2, <1>3, <1>4 DEF JobInv

-----------------------------------------------------------------------------
(* A step that is not one of the session leaves its variables alone. *)
LEMMA SessionUntouched ==
    ASSUME UNCHANGED sessionVars
    PROVE  UNCHANGED <<conn, sess, up, backoff, regRead, handler, registry,
                       agentRow, restarts>>
  BY DEF sessionVars

(* The steps of the dispatching goroutine.                                 *)

(* A row is created for a job nobody has seen. *)
LEMMA CreateJobInv ==
    ASSUME JobInv, SessionTypeOK', NEW j \in Jobs, CreateJob(j)
    PROVE  JobInv'
<1> USE DEF JobInv, CreateJob
<1>1. TypeOK'
  BY DEF TypeOK, JobStates, DispStates
<1>2. \A k \in Jobs : /\ jobStatus'[k] = IF k = j THEN "pending" ELSE jobStatus[k]
                      /\ disp'[k] = IF k = j THEN "created" ELSE disp[k]
  BY DEF TypeOK
<1>3. DispatchFirst'
  BY <1>2 DEF DispatchFirst, Unseen, RowBeforeDispatch
<1>4. RowBeforeDispatch'
  BY <1>2 DEF RowBeforeDispatch
<1>5. RecordSound' /\ FailureHasCause'
  BY <1>2, SessionUntouched DEF RecordSound, FailureHasCause
<1>6. OneCopy' /\ NoRepetition' /\ ExecutorSound' /\ LateSound'
  BY DEF OneCopy, SingleCopy, NoRepetition, ExecutorSound, LateSound, True
<1> QED
  BY <1>1, <1>3, <1>4, <1>5, <1>6

(* The lookup, successful or not, moves only the goroutine. *)
LEMMA LookupInv ==
    ASSUME JobInv, SessionTypeOK', NEW j \in Jobs,
           DispatchNotConnected(j) \/ DispatchLookup(j)
    PROVE  JobInv'
<1>1. /\ disp[j] = "created"
      /\ \E d \in {"done", "sending"} : disp' = [disp EXCEPT ![j] = d]
      /\ UNCHANGED <<sessionVars, jobStatus, wire, queue, running, pc, rpc,
                     late, outcome>>
  BY DEF DispatchNotConnected, DispatchLookup
<1>2. \A k \in Jobs : /\ disp'[k] # "done" => disp[k] # "done"
                      /\ disp'[k] = "idle" <=> disp[k] = "idle"
  BY <1>1 DEF JobInv, TypeOK
<1>3. TypeOK'
  <2>1. registry[AgentOf[j]] \in 0 .. MaxSessions
    BY JobAssumption DEF JobInv, TypeOK, SessionTypeOK
  <2>2. target' \in [Jobs -> 0 .. MaxSessions]
    BY <2>1 DEF DispatchNotConnected, DispatchLookup, JobInv, TypeOK
  <2> QED
    BY <1>1, <2>2 DEF JobInv, TypeOK, DispStates
<1>4. DispatchFirst' /\ RowBeforeDispatch'
  BY <1>1, <1>2 DEF JobInv, DispatchFirst, Unseen, RowBeforeDispatch
<1>5. RecordSound' /\ FailureHasCause'
  BY <1>1, SessionUntouched DEF JobInv, RecordSound, FailureHasCause
<1>6. OneCopy' /\ NoRepetition' /\ ExecutorSound' /\ LateSound'
  BY <1>1 DEF JobInv, OneCopy, SingleCopy, NoRepetition, ExecutorSound,
                 LateSound, True
<1> QED
  BY <1>3, <1>4, <1>5, <1>6 DEF JobInv

(* The job that is sent was nowhere before. *)
LEMMA DispatchSendInv ==
    ASSUME JobInv, SessionTypeOK', NEW j \in Jobs, DispatchSend(j)
    PROVE  JobInv'
<1> USE DEF JobInv
<1>1. /\ disp[j] = "sending"
      /\ disp' = [disp EXCEPT ![j] = "done"]
      /\ UNCHANGED <<sessionVars, jobStatus, target, queue, running, pc, rpc,
                     late, outcome>>
      /\ AgentOf[j] \in Agents
  BY JobAssumption DEF DispatchSend
<1>2. \A k \in Jobs : disp'[k] = IF k = j THEN "done" ELSE disp[k]
  BY <1>1 DEF TypeOK
<1>3. Unseen(j)
  BY <1>1 DEF DispatchFirst
<1>4. \A a \in Agents : wire[a] \in Seq(Jobs)
  BY DEF TypeOK
<1>5. \A a \in Agents :
         /\ wire'[a] \in Seq(Jobs)
         /\ \A k : InSeq(k, wire'[a]) => InSeq(k, wire[a]) \/ (k = j /\ a = AgentOf[j])
         /\ Distinct(wire'[a])
  <2> SUFFICES ASSUME NEW a \in Agents
               PROVE  /\ wire'[a] \in Seq(Jobs)
                      /\ \A k : InSeq(k, wire'[a])
                            => InSeq(k, wire[a]) \/ (k = j /\ a = AgentOf[j])
                      /\ Distinct(wire'[a])
    OBVIOUS
  <2>1. CASE wire'[a] = wire[a]
    BY <2>1, <1>4 DEF NoRepetition
  <2>2. CASE a = AgentOf[j] /\ wire'[a] = Append(wire[a], j)
    <3>1. Distinct(wire[a]) /\ ~InSeq(j, wire[a])
      BY <1>3 DEF Unseen, NoRepetition
    <3> QED
      BY <1>4, <2>2, <3>1, AppendFacts
  <2>3. \/ wire'[a] = wire[a]
        \/ a = AgentOf[j] /\ wire'[a] = Append(wire[a], j)
    BY <1>1 DEF DispatchSend, TypeOK
  <2> QED
    BY <2>1, <2>2, <2>3
<1>6. wire' \in [Agents -> Seq(Jobs)]
  BY <1>5 DEF DispatchSend, TypeOK
<1>7. TypeOK'
  BY <1>1, <1>6 DEF TypeOK, DispStates
<1>8. DispatchFirst'
  BY <1>1, <1>2, <1>5 DEF DispatchFirst, Unseen
<1>9. RowBeforeDispatch'
  BY <1>1, <1>2 DEF RowBeforeDispatch
<1>10. OneCopy'
  <2> SUFFICES ASSUME NEW a \in Agents, NEW k \in Jobs PROVE SingleCopy(a, k)'
    BY DEF OneCopy
  <2>1. SingleCopy(a, k)
    BY DEF OneCopy
  <2>2. InSeq(k, wire'[a]) => InSeq(k, wire[a]) \/ (k = j /\ a = AgentOf[j])
    BY <1>5
  <2> QED
    BY <1>1, <1>3, <2>1, <2>2 DEF SingleCopy, Unseen
<1>11. NoRepetition'
  BY <1>1, <1>5 DEF NoRepetition
<1>12. RecordSound' /\ FailureHasCause'
  BY <1>1, SessionUntouched DEF RecordSound, FailureHasCause
<1>13. ExecutorSound' /\ LateSound'
  BY <1>1 DEF ExecutorSound, LateSound, True
<1> QED
  BY <1>7, <1>8, <1>9, <1>10, <1>11, <1>12, <1>13

-----------------------------------------------------------------------------
(* The steps of the agent.                                                 *)

(* An assignment moves from the wire to the queue, or is dropped. *)
LEMMA ReceiveInv ==
    ASSUME JobInv, SessionTypeOK', NEW a \in Agents, Receive(a)
    PROVE  JobInv'
<1> DEFINE j == Head(wire[a])
<1> USE DEF JobInv
<1>1. /\ wire[a] # <<>>
      /\ wire' = [wire EXCEPT ![a] = Tail(@)]
      /\ UNCHANGED <<sessionVars, jobStatus, disp, target, running, pc, rpc,
                     late, outcome>>
  BY DEF Receive
<1>2. /\ wire[a] \in Seq(Jobs)
      /\ queue[a] \in Seq(Jobs)
      /\ Distinct(wire[a])
      /\ Distinct(queue[a])
  BY DEF TypeOK, NoRepetition
<1>3. /\ j \in Jobs
      /\ Tail(wire[a]) \in Seq(Jobs)
      /\ InSeq(j, wire[a])
      /\ ~InSeq(j, Tail(wire[a]))
      /\ Distinct(Tail(wire[a]))
      /\ \A x : InSeq(x, Tail(wire[a])) => InSeq(x, wire[a])
  BY <1>1, <1>2, TailFacts
<1>4. \A b \in Agents : wire'[b] = IF b = a THEN Tail(wire[a]) ELSE wire[b]
  BY <1>1 DEF TypeOK
<1>5. /\ AgentOf[j] = a
      /\ ~InSeq(j, queue[a])
      /\ running[a] # j
      /\ outcome[j] = "none"
  BY <1>3 DEF OneCopy, SingleCopy
<1>6. /\ queue' \in [Agents -> Seq(Jobs)]
      /\ \A b \in Agents : \/ queue'[b] = queue[b]
                           \/ b = a /\ queue'[b] = Append(queue[a], j)
  BY <1>2, <1>3, AppendFacts DEF Receive, TypeOK
<1>7. \A b \in Agents :
         /\ Distinct(queue'[b])
         /\ \A x : InSeq(x, queue'[b]) => InSeq(x, queue[b]) \/ (x = j /\ b = a)
  <2> SUFFICES ASSUME NEW b \in Agents
               PROVE  /\ Distinct(queue'[b])
                      /\ \A x : InSeq(x, queue'[b])
                                   => InSeq(x, queue[b]) \/ (x = j /\ b = a)
    OBVIOUS
  <2>1. CASE queue'[b] = queue[b]
    BY <2>1 DEF NoRepetition
  <2>2. CASE b = a /\ queue'[b] = Append(queue[a], j)
    BY <2>2, <1>2, <1>3, <1>5, AppendFacts
  <2> QED
    BY <1>6, <2>1, <2>2
<1>8. TypeOK'
  BY <1>1, <1>3, <1>6 DEF TypeOK
<1>9. DispatchFirst'
  <2>1. disp[j] = "done"
    BY <1>3 DEF DispatchFirst, Unseen
  <2>2. \A k \in Jobs, b \in Agents :
           /\ InSeq(k, wire'[b]) => InSeq(k, wire[b])
           /\ InSeq(k, queue'[b]) => InSeq(k, queue[b]) \/ k = j
    BY <1>3, <1>4, <1>7
  <2> QED
    BY <1>1, <2>1, <2>2 DEF DispatchFirst, Unseen
<1>10. OneCopy'
  <2> SUFFICES ASSUME NEW b \in Agents, NEW k \in Jobs PROVE SingleCopy(b, k)'
    BY DEF OneCopy
  <2>1. SingleCopy(b, k)
    BY DEF OneCopy
  <2>2. InSeq(k, wire'[b]) => InSeq(k, wire[b]) /\ (b = a => k # j)
    BY <1>3, <1>4
  <2>3. InSeq(k, queue'[b]) => InSeq(k, queue[b]) \/ (k = j /\ b = a)
    BY <1>7
  <2> QED
    BY <1>1, <1>5, <2>1, <2>2, <2>3 DEF SingleCopy
<1>11. NoRepetition'
  BY <1>3, <1>4, <1>7 DEF NoRepetition
<1>12. RowBeforeDispatch' /\ RecordSound' /\ FailureHasCause'
  BY <1>1, SessionUntouched DEF RowBeforeDispatch, RecordSound, FailureHasCause
<1>13. ExecutorSound' /\ LateSound'
  BY <1>1 DEF ExecutorSound, LateSound, True
<1> QED
  BY <1>8, <1>9, <1>10, <1>11, <1>12, <1>13

(* A job moves from the queue to the idle worker. *)
LEMMA FetchInv ==
    ASSUME JobInv, SessionTypeOK', NEW a \in Agents, Fetch(a)
    PROVE  JobInv'
<1> DEFINE j == Head(queue[a])
<1> USE DEF JobInv
<1>1. /\ pc[a] = "idle"
      /\ queue[a] # <<>>
      /\ running' = [running EXCEPT ![a] = j]
      /\ queue' = [queue EXCEPT ![a] = Tail(@)]
      /\ pc' = [pc EXCEPT ![a] = "fetched"]
      /\ UNCHANGED <<sessionVars, jobStatus, disp, target, wire, rpc, late,
                     outcome>>
  BY DEF Fetch
<1>2. queue[a] \in Seq(Jobs) /\ Distinct(queue[a])
  BY DEF TypeOK, NoRepetition
<1>3. /\ j \in Jobs
      /\ Tail(queue[a]) \in Seq(Jobs)
      /\ InSeq(j, queue[a])
      /\ ~InSeq(j, Tail(queue[a]))
      /\ Distinct(Tail(queue[a]))
      /\ \A x : InSeq(x, Tail(queue[a])) => InSeq(x, queue[a])
  BY <1>1, <1>2, TailFacts
<1>4. \A b \in Agents :
         /\ queue'[b] = IF b = a THEN Tail(queue[a]) ELSE queue[b]
         /\ running'[b] = IF b = a THEN j ELSE running[b]
         /\ pc'[b] = IF b = a THEN "fetched" ELSE pc[b]
  BY <1>1 DEF TypeOK
<1>5. AgentOf[j] = a /\ outcome[j] = "none" /\ ~InSeq(j, wire[a])
  BY <1>3 DEF OneCopy, SingleCopy
<1>6. TypeOK'
  BY <1>1, <1>3 DEF TypeOK, ExecStates
<1>7. DispatchFirst'
  <2>1. disp[j] = "done"
    BY <1>3 DEF DispatchFirst, Unseen
  <2> QED
    BY <1>1, <1>3, <1>4, <2>1 DEF DispatchFirst, Unseen
<1>8. OneCopy'
  <2> SUFFICES ASSUME NEW b \in Agents, NEW k \in Jobs PROVE SingleCopy(b, k)'
    BY DEF OneCopy
  <2>1. SingleCopy(b, k)
    BY DEF OneCopy
  <2>2. InSeq(k, queue'[b]) => InSeq(k, queue[b]) /\ (b = a => k # j)
    BY <1>3, <1>4
  <2> QED
    BY <1>1, <1>4, <1>5, <2>1, <2>2 DEF SingleCopy
<1>9. NoRepetition'
  BY <1>1, <1>3, <1>4 DEF NoRepetition
<1>10. ExecutorSound'
  <2>1. rpc[a] = "none"
    BY <1>1 DEF ExecutorSound
  <2> QED
    BY <1>1, <1>3, <1>4, <1>5, <2>1, JobAssumption DEF ExecutorSound
<1>11. RowBeforeDispatch' /\ RecordSound' /\ FailureHasCause'
  BY <1>1, SessionUntouched DEF RowBeforeDispatch, RecordSound, FailureHasCause
<1>12. LateSound'
  BY <1>1 DEF LateSound, True
<1> QED
  BY <1>6, <1>7, <1>8, <1>9, <1>10, <1>11, <1>12

(* What RejectPayload, Begin and Finish share: the outcome of the current  *)
(* job advances from one that no report and no final row is about.         *)
LEMMA AdvanceInv ==
    ASSUME JobInv, SessionTypeOK', NEW a \in Agents,
           NEW o \in {"started", "success", "failed"},
           NEW p \in {"starting", "final"}, p = "starting" <=> o = "started",
           pc[a] \in {"fetched", "working"},
           outcome' = [outcome EXCEPT ![running[a]] = o],
           pc' = [pc EXCEPT ![a] = p],
           CallReport(a),
           UNCHANGED <<sessionVars, jobStatus, disp, target, wire, queue,
                       running, late>>
    PROVE  JobInv'
<1> USE DEF JobInv
<1>1. /\ running[a] \in Jobs
      /\ outcome[running[a]] \in {"none", "started"}
  BY DEF ExecutorSound, TypeOK
<1>2. /\ \A k \in Jobs : outcome'[k] = IF k = running[a] THEN o ELSE outcome[k]
      /\ \A b \in Agents : pc'[b] = IF b = a THEN p ELSE pc[b]
      /\ \A b \in Agents : b # a => rpc'[b] = rpc[b]
      /\ rpc'[a] \in {"sent", "returned"}
  BY <1>1 DEF TypeOK, CallReport
<1>3. \A b \in Agents : /\ ~InSeq(running[a], wire[b])
                        /\ ~InSeq(running[a], queue[b])
                        /\ running[b] = running[a] => b = a
  BY <1>1 DEF OneCopy, SingleCopy
<1>4. TypeOK'
  BY <1>1 DEF TypeOK, CallReport, Outcomes, ExecStates, RpcStates
<1>5. DispatchFirst'
  <2>1. disp[running[a]] = "done"
    BY <1>1 DEF DispatchFirst, Unseen
  <2> QED
    BY <1>2, <2>1 DEF DispatchFirst, Unseen
<1>6. OneCopy'
  BY <1>2, <1>3 DEF OneCopy, SingleCopy
<1>7. ExecutorSound'
  <2> SUFFICES ASSUME NEW b \in Agents
               PROVE  (/\ pc[b] = "idle" <=> running[b] = NoJob
                       /\ rpc[b] # "none" <=> pc[b] \in {"starting", "final"}
                       /\ pc[b] = "fetched" => outcome[running[b]] = "none"
                       /\ pc[b] \in {"starting", "working"}
                             => outcome[running[b]] = "started"
                       /\ pc[b] = "final"
                             => outcome[running[b]] \in {"success", "failed"})'
    BY DEF ExecutorSound
  <2>1. CASE b = a
    BY <1>1, <1>2, <2>1, JobAssumption
  <2>2. CASE b # a
    <3>1. running[b] = NoJob \/ outcome'[running[b]] = outcome[running[b]]
      BY <1>2, <1>3, <2>2 DEF TypeOK
    <3> QED
      BY <1>2, <2>2, <3>1 DEF ExecutorSound
  <2> QED
    BY <2>1, <2>2
<1>8. LateSound'
  <2>1. \A r \in late : r.job \in Jobs /\ True(r)
    BY DEF LateSound, TypeOK, Report
  <2> QED
    BY <1>1, <1>2, <2>1 DEF LateSound, True
<1>9. RecordSound' /\ FailureHasCause'
  BY <1>1, <1>2, SessionUntouched DEF RecordSound, FailureHasCause
<1>10. RowBeforeDispatch' /\ NoRepetition'
  BY DEF RowBeforeDispatch, NoRepetition
<1> QED
  BY <1>4, <1>5, <1>6, <1>7, <1>8, <1>9, <1>10

(* A call has returned. *)
LEMMA ResumeInv ==
    ASSUME JobInv, SessionTypeOK', NEW a \in Agents, Resume(a)
    PROVE  JobInv'
<1> USE DEF JobInv
<1>1. /\ rpc[a] = "returned"
      /\ UNCHANGED <<sessionVars, jobStatus, disp, target, wire, queue, late,
                     outcome>>
  BY DEF Resume
<1>2. pc[a] \in {"starting", "final"}
  BY <1>1 DEF ExecutorSound
<1>3. \A b \in Agents :
         /\ rpc'[b] = IF b = a THEN "none" ELSE rpc[b]
         /\ pc'[b] = IF b # a THEN pc[b]
                     ELSE IF pc[a] = "starting" THEN "working" ELSE "idle"
         /\ running'[b] = IF b = a /\ pc[a] # "starting" THEN NoJob ELSE running[b]
  BY DEF Resume, TypeOK
<1>4. TypeOK'
  BY DEF Resume, TypeOK, ExecStates, RpcStates
<1>5. DispatchFirst' /\ OneCopy' /\ NoRepetition'
  BY <1>1, <1>3, JobAssumption
  DEF DispatchFirst, Unseen, OneCopy, SingleCopy, NoRepetition
<1>6. ExecutorSound'
  BY <1>1, <1>2, <1>3 DEF ExecutorSound
<1>7. RowBeforeDispatch' /\ RecordSound' /\ FailureHasCause'
  BY <1>1, SessionUntouched DEF RowBeforeDispatch, RecordSound, FailureHasCause
<1>8. LateSound'
  BY <1>1 DEF LateSound, True
<1> QED
  BY <1>4, <1>5, <1>6, <1>7, <1>8

(* Every step of the executor. *)
LEMMA ExecutorStepInv ==
    ASSUME JobInv, SessionTypeOK', NEW a \in Agents, ExecutorStep(a)
    PROVE  JobInv'
<1>1. CASE RejectPayload(a)
  BY <1>1, AdvanceInv DEF RejectPayload
<1>2. CASE Begin(a)
  BY <1>2, AdvanceInv DEF Begin
<1>3. CASE Finish(a)
  BY <1>3, AdvanceInv DEF Finish
<1> QED
  BY <1>1, <1>2, <1>3, FetchInv, ResumeInv DEF ExecutorStep

-----------------------------------------------------------------------------
(* The server's records.                                                   *)

(* A report on its way says what is true of the job being executed. *)
LEMMA CurrentReportTrue ==
    ASSUME JobInv, NEW a \in Agents, rpc[a] # "none"
    PROVE  CurrentReport(a) \in Report /\ True(CurrentReport(a))
<1> DEFINE o == outcome[running[a]]
<1>1. running[a] \in Jobs /\ o \in {"started", "success", "failed"}
  <2>1. pc[a] \in {"starting", "final"}
    BY DEF JobInv, ExecutorSound
  <2>2. running[a] # NoJob /\ running[a] \in Jobs \cup {NoJob}
    BY <2>1 DEF JobInv, ExecutorSound, TypeOK
  <2>3. o \in {"started", "success", "failed"}
    BY <2>1 DEF JobInv, ExecutorSound
  <2> QED
    BY <2>2, <2>3
<1>2. /\ o = "started" => Written[o] = "running"
      /\ o = "success" => Written[o] = "succeeded"
      /\ o = "failed" => Written[o] = "failed"
  BY <1>1 DEF Written
<1>3. Written[o] \in {"running", "succeeded", "failed"}
  BY <1>1, <1>2
<1> QED
  BY <1>1, <1>2, <1>3 DEF CurrentReport, Report, True

(* Writing a true report over the row keeps what the rows say true. *)
LEMMA RecordInv ==
    ASSUME JobInv, NEW r \in Report, True(r), UNCHANGED <<outcome, disp, handler>>,
           Record(r) \/ UNCHANGED jobStatus
    PROVE  /\ jobStatus' \in [Jobs -> JobStates]
           /\ RowBeforeDispatch'
           /\ RecordSound'
           /\ FailureHasCause'
<1> USE DEF JobInv
<1>1. CASE UNCHANGED jobStatus
  BY <1>1 DEF TypeOK, RowBeforeDispatch, RecordSound, FailureHasCause
<1>2. CASE Record(r)
  <2>1. r.job \in Jobs /\ r.status \in {"running", "succeeded", "failed"}
    BY DEF Report
  <2>2. /\ jobStatus' \in [Jobs -> JobStates]
        /\ \A k \in Jobs : jobStatus'[k] = IF k = r.job THEN r.status ELSE jobStatus[k]
    BY <1>2, <2>1 DEF Record, TypeOK, JobStates
  <2>3. disp[r.job] # "idle"
    BY <2>1 DEF True, DispatchFirst, Unseen
  <2>4. RowBeforeDispatch'
    BY <2>1, <2>2, <2>3 DEF RowBeforeDispatch
  <2>5. RecordSound' /\ FailureHasCause'
    BY <2>1, <2>2 DEF RecordSound, FailureHasCause, True
  <2> QED
    BY <2>2, <2>4, <2>5
<1> QED
  BY <1>1, <1>2

(* The handler of a report, with its caller waiting. *)
LEMMA ReportJobStatusInv ==
    ASSUME JobInv, SessionTypeOK', NEW a \in Agents, ReportJobStatus(a)
    PROVE  JobInv'
<1>1. /\ rpc[a] = "sent"
      /\ rpc' = [rpc EXCEPT ![a] = "returned"]
      /\ UNCHANGED <<sessionVars, disp, target, wire, queue, running, pc, late,
                     outcome>>
      /\ UNCHANGED handler
      /\ Record(CurrentReport(a)) \/ UNCHANGED jobStatus
  BY SessionUntouched DEF ReportJobStatus
<1>2. /\ jobStatus' \in [Jobs -> JobStates]
      /\ RowBeforeDispatch' /\ RecordSound' /\ FailureHasCause'
  BY <1>1, CurrentReportTrue, RecordInv
<1>3. TypeOK'
  BY <1>1, <1>2 DEF JobInv, TypeOK, RpcStates
<1>4. ExecutorSound'
  BY <1>1 DEF JobInv, TypeOK, ExecutorSound
<1>5. DispatchFirst' /\ OneCopy' /\ NoRepetition' /\ LateSound'
  BY <1>1 DEF JobInv, DispatchFirst, Unseen, OneCopy, SingleCopy, NoRepetition,
              LateSound, True
<1> QED
  BY <1>2, <1>3, <1>4, <1>5 DEF JobInv

(* The handler of a report whose caller is gone. *)
LEMMA ReportLateInv ==
    ASSUME JobInv, SessionTypeOK', NEW r \in late, ReportJobStatusLate(r)
    PROVE  JobInv'
<1>1. /\ late' = late \ {r}
      /\ UNCHANGED <<sessionVars, disp, target, wire, queue, running, pc, rpc,
                     outcome>>
      /\ UNCHANGED handler
      /\ Record(r) \/ UNCHANGED jobStatus
  BY SessionUntouched DEF ReportJobStatusLate
<1>2. r \in Report /\ True(r)
  BY DEF JobInv, TypeOK, LateSound
<1>3. /\ jobStatus' \in [Jobs -> JobStates]
      /\ RowBeforeDispatch' /\ RecordSound' /\ FailureHasCause'
  BY <1>1, <1>2, RecordInv
<1>4. TypeOK'
  BY <1>1, <1>3 DEF JobInv, TypeOK
<1>5. LateSound'
  BY <1>1 DEF JobInv, LateSound, True
<1>6. DispatchFirst' /\ OneCopy' /\ NoRepetition' /\ ExecutorSound'
  BY <1>1 DEF JobInv, DispatchFirst, Unseen, OneCopy, SingleCopy, NoRepetition,
              ExecutorSound
<1> QED
  BY <1>3, <1>4, <1>5, <1>6 DEF JobInv

-----------------------------------------------------------------------------
(* The steps of the session.                                               *)

(* A handler that has returned stays so: the next session has another one. *)
LEMMA ClosedStays ==
    ASSUME SessionInv, [SessionNext]_sessionVars,
           NEW a \in Agents, NEW s \in Sessions, handler[a][s] = "closed"
    PROVE  handler'[a][s] = "closed"
<1> USE DEF SessionInv
<1>1. CASE UNCHANGED sessionVars
  BY <1>1 DEF sessionVars
<1>2. CASE ServerRestart
  BY <1>2 DEF ServerRestart
<1>3. ASSUME NEW b \in Agents, AgentStep(b) PROVE handler'[a][s] = "closed"
  <2>1. CASE OpenStream(b)
    <3>1. handler[b][sess[b]] = "none"
      BY <2>1 DEF OpenStream, NoHandlerBeforeStream
    <3> QED
      BY <2>1, <3>1 DEF OpenStream, SessionTypeOK
  <2>2. CASE ~OpenStream(b)
    BY <1>3, <2>2 DEF AgentStep, AgentStart, Dial, RegisterRead, Heartbeat,
                      SessionEnds, Retry, AgentStop, LinkDown
  <2> QED
    BY <2>1, <2>2
<1>4. ASSUME NEW b \in Agents, NEW t \in Sessions, StreamStep(b, t)
      PROVE  handler'[a][s] = "closed"
  <2>1. /\ handler[b][t] # "closed"
        /\ \E h : handler' = [handler EXCEPT ![b][t] = h]
    BY <1>4 DEF StreamStep, StreamLookupFails, StreamMarkOnline, StreamRegister,
                StreamDeregister, StreamMarkOffline, StreamReturn
  <2> QED
    BY <2>1 DEF SessionTypeOK
<1>5. ASSUME NEW b \in Agents, NEW t \in Sessions, RegisterSave(b, t)
      PROVE  handler'[a][s] = "closed"
  BY <1>5 DEF RegisterSave
<1> QED
  BY <1>1, <1>2, <1>3, <1>4, <1>5 DEF SessionNext

(* So a cause of failure never goes away. *)
LEMMA CauseStays ==
    ASSUME JobInv, SessionInv, [SessionNext]_sessionVars, UNCHANGED <<jobStatus, outcome>>
    PROVE  FailureHasCause'
<1> SUFFICES ASSUME NEW j \in Jobs, jobStatus[j] = "failed", outcome[j] # "failed"
             PROVE  \E s \in Sessions : handler'[AgentOf[j]][s] = "closed"
  BY DEF FailureHasCause
<1>1. PICK s \in Sessions : handler[AgentOf[j]][s] = "closed"
  BY DEF JobInv, FailureHasCause
<1> QED
  BY <1>1, ClosedStays, JobAssumption

(* A session step that only the session takes part in. *)
LEMMA QuietInv ==
    ASSUME JobInv, SessionInv, SessionTypeOK', [SessionNext]_sessionVars,
           UNCHANGED jobVars
    PROVE  JobInv'
<1> USE DEF JobInv, jobVars
<1>1. TypeOK'
  BY DEF TypeOK
<1>2. DispatchFirst' /\ RowBeforeDispatch' /\ OneCopy' /\ NoRepetition'
  BY DEF DispatchFirst, Unseen, RowBeforeDispatch, OneCopy, SingleCopy,
         NoRepetition
<1>3. ExecutorSound' /\ LateSound' /\ RecordSound'
  BY DEF ExecutorSound, LateSound, True, RecordSound
<1>4. FailureHasCause'
  BY CauseStays
<1> QED
  BY <1>1, <1>2, <1>3, <1>4

(* The call of the executor is given up when the link breaks. *)
LEMMA BreakLinkInv ==
    ASSUME JobInv, SessionInv, SessionTypeOK', [SessionNext]_sessionVars,
           NEW a \in Agents, BreakLink(a)
    PROVE  JobInv'
<1>1. /\ rpc' = [rpc EXCEPT ![a] = IF @ = "sent" THEN "returned" ELSE @]
      /\ UNCHANGED <<jobStatus, disp, target, wire, queue, running, pc, outcome>>
  BY DEF BreakLink
<1>2. late' = late \/ (late' = late \cup {CurrentReport(a)} /\ rpc[a] # "none")
  BY DEF BreakLink
<1>3. late' \in SUBSET Report /\ LateSound'
  <2>1. \A r \in late' : r \in late \/ (r \in Report /\ True(r))
    BY <1>2, CurrentReportTrue
  <2> QED
    BY <1>1, <2>1 DEF JobInv, TypeOK, LateSound, True
<1>4. TypeOK'
  BY <1>1, <1>3 DEF JobInv, TypeOK, RpcStates
<1>5. DispatchFirst' /\ RowBeforeDispatch' /\ OneCopy' /\ NoRepetition' /\ RecordSound'
  BY <1>1 DEF JobInv, DispatchFirst, Unseen, RowBeforeDispatch, OneCopy,
              SingleCopy, NoRepetition, RecordSound
<1>6. ExecutorSound'
  BY <1>1 DEF JobInv, TypeOK, ExecutorSound
<1>7. FailureHasCause'
  BY <1>1, CauseStays
<1> QED
  BY <1>3, <1>4, <1>5, <1>6, <1>7 DEF JobInv

(* What is lost with the session leaves nothing behind. *)
LEMMA EndSessionInv ==
    ASSUME JobInv, SessionInv, SessionTypeOK', [SessionNext]_sessionVars,
           NEW a \in Agents, EndSession(a)
    PROVE  JobInv'
<1>1. /\ wire' = [wire EXCEPT ![a] = <<>>]
      /\ UNCHANGED <<jobStatus, disp, target, queue, running, pc, rpc, late,
                     outcome>>
  BY DEF EndSession
<1>2. \A b \in Agents : wire'[b] = IF b = a THEN <<>> ELSE wire[b]
  BY <1>1 DEF JobInv, TypeOK
<1>3. TypeOK'
  BY <1>1, EmptyFacts DEF JobInv, TypeOK
<1>4. DispatchFirst' /\ OneCopy' /\ NoRepetition'
  BY <1>1, <1>2, EmptyFacts
  DEF JobInv, DispatchFirst, Unseen, OneCopy, SingleCopy, NoRepetition
<1>5. RowBeforeDispatch' /\ ExecutorSound' /\ LateSound' /\ RecordSound'
  BY <1>1 DEF JobInv, RowBeforeDispatch, ExecutorSound, LateSound, True, RecordSound
<1>6. FailureHasCause'
  BY <1>1, CauseStays
<1> QED
  BY <1>3, <1>4, <1>5, <1>6 DEF JobInv

(* The end of the agent process forgets all jobs it holds. *)
LEMMA StopAgentInv ==
    ASSUME JobInv, SessionInv, SessionTypeOK', [SessionNext]_sessionVars,
           NEW a \in Agents, StopAgent(a)
    PROVE  JobInv'
<1>1. /\ wire' = [wire EXCEPT ![a] = <<>>]
      /\ queue' = [queue EXCEPT ![a] = <<>>]
      /\ running' = [running EXCEPT ![a] = NoJob]
      /\ pc' = [pc EXCEPT ![a] = "idle"]
      /\ rpc' = [rpc EXCEPT ![a] = "none"]
      /\ UNCHANGED <<jobStatus, disp, target, outcome>>
  BY DEF StopAgent
<1>2. late' = late \/ (late' = late \cup {CurrentReport(a)} /\ rpc[a] # "none")
  BY DEF StopAgent
<1>3. late' \in SUBSET Report /\ LateSound'
  <2>1. \A r \in late' : r \in late \/ (r \in Report /\ True(r))
    BY <1>2, CurrentReportTrue
  <2> QED
    BY <1>1, <2>1 DEF JobInv, TypeOK, LateSound, True
<1>4. \A b \in Agents :
         /\ wire'[b] = IF b = a THEN <<>> ELSE wire[b]
         /\ queue'[b] = IF b = a THEN <<>> ELSE queue[b]
         /\ running'[b] = IF b = a THEN NoJob ELSE running[b]
  BY <1>1 DEF JobInv, TypeOK
<1>5. TypeOK'
  BY <1>1, <1>3, EmptyFacts DEF JobInv, TypeOK, ExecStates, RpcStates
<1>6. DispatchFirst' /\ OneCopy' /\ NoRepetition'
  BY <1>1, <1>4, EmptyFacts, JobAssumption
  DEF JobInv, DispatchFirst, Unseen, OneCopy, SingleCopy, NoRepetition
<1>7. ExecutorSound'
  BY <1>1 DEF JobInv, TypeOK, ExecutorSound
<1>8. RowBeforeDispatch' /\ RecordSound'
  BY <1>1 DEF JobInv, RowBeforeDispatch, RecordSound
<1>9. FailureHasCause'
  BY <1>1, CauseStays
<1> QED
  BY <1>3, <1>5, <1>6, <1>7, <1>8, <1>9 DEF JobInv

(* Orphan recovery fails jobs that were taken up, and leaves the closed    *)
(* handler as the cause.                                                   *)
LEMMA RecoverOrphansInv ==
    ASSUME JobInv, SessionInv, SessionTypeOK', [SessionNext]_sessionVars,
           NEW a \in Agents, NEW s \in Sessions, RecoverOrphans(a, s)
    PROVE  JobInv'
<1>1. /\ UNCHANGED <<disp, target, wire, queue, running, pc, rpc, late, outcome>>
      /\ handler'[a][s] = "closed"
  BY DEF RecoverOrphans, StreamReturn, SessionInv, SessionTypeOK
<1>2. \A j \in Jobs :
         jobStatus'[j] = IF AgentOf[j] = a /\ jobStatus[j] = "running"
                         THEN "failed" ELSE jobStatus[j]
  BY DEF RecoverOrphans, FailRunningJobs
<1>3. TypeOK'
  BY <1>1, <1>2 DEF JobInv, TypeOK, JobStates, RecoverOrphans, FailRunningJobs
<1>4. RowBeforeDispatch' /\ RecordSound'
  BY <1>1, <1>2 DEF JobInv, RowBeforeDispatch, RecordSound
<1>5. FailureHasCause'
  <2> SUFFICES ASSUME NEW j \in Jobs, jobStatus'[j] = "failed", outcome[j] # "failed"
               PROVE  \E t \in Sessions : handler'[AgentOf[j]][t] = "closed"
    BY <1>1 DEF FailureHasCause
  <2>1. CASE AgentOf[j] = a
    BY <1>1, <2>1
  <2>2. CASE AgentOf[j] # a
    <3>1. PICK t \in Sessions : handler[AgentOf[j]][t] = "closed"
      BY <1>2, <2>2 DEF JobInv, FailureHasCause
    <3> QED
      BY <3>1, ClosedStays, JobAssumption
  <2> QED
    BY <2>1, <2>2
<1>6. DispatchFirst' /\ OneCopy' /\ NoRepetition' /\ ExecutorSound' /\ LateSound'
  BY <1>1 DEF JobInv, DispatchFirst, Unseen, OneCopy, SingleCopy, NoRepetition,
              ExecutorSound, LateSound, True
<1> QED
  BY <1>3, <1>4, <1>5, <1>6 DEF JobInv

(* A restart of the server ends the calls and the dispatching goroutines. *)
LEMMA RestartServerInv ==
    ASSUME JobInv, SessionInv, SessionTypeOK', [SessionNext]_sessionVars,
           RestartServer
    PROVE  JobInv'
<1>1. /\ disp' = [j \in Jobs |-> IF disp[j] = "idle" THEN "idle" ELSE "done"]
      /\ rpc' = [a \in Agents |-> IF rpc[a] = "sent" THEN "returned" ELSE rpc[a]]
      /\ late' = {}
      /\ UNCHANGED <<jobStatus, target, wire, queue, running, pc, outcome>>
  BY DEF RestartServer
<1>2. TypeOK'
  BY <1>1 DEF JobInv, TypeOK, DispStates, RpcStates
<1>3. DispatchFirst' /\ RowBeforeDispatch' /\ OneCopy' /\ NoRepetition' /\ RecordSound'
  BY <1>1 DEF JobInv, DispatchFirst, Unseen, RowBeforeDispatch, OneCopy,
              SingleCopy, NoRepetition, RecordSound
<1>4. ExecutorSound' /\ LateSound'
  BY <1>1 DEF JobInv, TypeOK, ExecutorSound, LateSound
<1>5. FailureHasCause'
  BY <1>1, CauseStays
<1> QED
  BY <1>2, <1>3, <1>4, <1>5 DEF JobInv

-----------------------------------------------------------------------------
(* Every step keeps the invariant. *)
LEMMA JobInvStep ==
    ASSUME JobInv, SessionInv, [Next]_vars
    PROVE  JobInv'
<1>1. [SessionNext]_sessionVars
  BY NextIsSessionStep
<1>2. SessionTypeOK'
  BY <1>1, SessionTypeStep DEF SessionInv
<1>3. CASE UNCHANGED vars
  BY <1>1, <1>2, <1>3, QuietInv DEF vars
<1>4. ASSUME NEW j \in Jobs, JobStep(j) PROVE JobInv'
  BY <1>2, <1>4, CreateJobInv, LookupInv, DispatchSendInv DEF JobStep
<1>5. ASSUME NEW a \in Agents,
             \/ Receive(a) \/ ExecutorStep(a) \/ ReportJobStatus(a)
             \/ QuietSessionStep(a) \/ BreakLink(a) \/ EndSession(a)
             \/ StopAgent(a)
             \/ \E s \in Sessions : RecoverOrphans(a, s) \/ RecoveryFails(a, s)
      PROVE  JobInv'
  <2>1. CASE QuietSessionStep(a)
    BY <1>1, <1>2, <2>1, QuietInv DEF QuietSessionStep
  <2>2. CASE \E s \in Sessions : RecoveryFails(a, s)
    BY <1>1, <1>2, <2>2, QuietInv DEF RecoveryFails
  <2> QED
    BY <1>1, <1>2, <1>5, <2>1, <2>2, ReceiveInv, ExecutorStepInv, ReportJobStatusInv,
       BreakLinkInv, EndSessionInv, StopAgentInv, RecoverOrphansInv
<1>6. CASE \E r \in late : ReportJobStatusLate(r)
  BY <1>2, <1>6, ReportLateInv
<1>7. CASE RestartServer
  BY <1>1, <1>2, <1>7, RestartServerInv
<1> QED
  BY <1>3, <1>4, <1>5, <1>6, <1>7 DEF Next

(* Both invariants hold of every reachable state. *)
THEOREM JobInvCorrect == Spec => [](JobInv /\ SessionInv)
<1>1. Init => JobInv /\ SessionInv
  BY JobInvInit, SessionInvInit DEF Init
<1>2. JobInv /\ SessionInv /\ [Next]_vars => (JobInv /\ SessionInv)'
  BY JobInvStep, NextIsSessionStep, SessionInvStep
<1> QED
  BY <1>1, <1>2, PTL DEF Spec

(* Type correctness of the jobs and their session. *)
THEOREM TypeCorrect == Spec => []TypeOK
<1>1. JobInv => TypeOK
  BY DEF JobInv
<1> QED
  BY <1>1, JobInvCorrect, PTL

(* No job is ever taken up twice by an executor. *)
THEOREM RunsAtMostOnceCorrect == Spec => []RunsAtMostOnce
<1>1. JobInv => RunsAtMostOnce
  BY DEF JobInv, ExecutorSound, RunsAtMostOnce
<1> QED
  BY <1>1, JobInvCorrect, PTL

(* The jobs table never claims what did not happen. *)
THEOREM RecordSoundCorrect == Spec => []RecordSound
<1>1. JobInv => RecordSound
  BY DEF JobInv
<1> QED
  BY <1>1, JobInvCorrect, PTL

(* A failed row has a cause at the agent of its own job. *)
THEOREM FailureCauseCorrect == Spec => []FailureHasCause
<1>1. JobInv => FailureHasCause
  BY DEF JobInv
<1> QED
  BY <1>1, JobInvCorrect, PTL

-----------------------------------------------------------------------------
(* The jobs table implements JobRecord.                                    *)

(* A step that takes the current job further is an Advance. *)
LEMMA AdvanceRefines ==
    ASSUME JobInv, NEW a \in Agents, UNCHANGED jobStatus,
           \/ /\ pc[a] = "fetched"
              /\ \E o \in {"started", "failed"} :
                    outcome' = [outcome EXCEPT ![running[a]] = o]
           \/ /\ pc[a] = "working"
              /\ \E o \in {"success", "failed"} :
                    outcome' = [outcome EXCEPT ![running[a]] = o]
    PROVE  JobRows!Advance(running[a]) /\ running[a] \in Jobs
<1>1. running[a] \in Jobs
  BY DEF JobInv, ExecutorSound, TypeOK
<1>2. jobStatus[running[a]] # "none"
  BY <1>1 DEF JobInv, DispatchFirst, Unseen, RowBeforeDispatch
<1>3. /\ pc[a] = "fetched" => outcome[running[a]] = "none"
      /\ pc[a] = "working" => outcome[running[a]] = "started"
  BY DEF JobInv, ExecutorSound
<1> QED
  BY <1>1, <1>2, <1>3 DEF JobRows!Advance

(* Writing a true report is a Write. *)
LEMMA RecordRefines ==
    ASSUME JobInv, NEW r \in Report, True(r), UNCHANGED outcome, Record(r)
    PROVE  JobRows!Write(r.job) /\ r.job \in Jobs
<1>1. r.job \in Jobs /\ r.status \in {"running", "succeeded", "failed"}
  BY DEF Report
<1>2. outcome[r.job] \in {"started", "success", "failed"}
  BY <1>1 DEF JobInv, TypeOK, Outcomes, True
<1>3. r.status \in JobRows!Reported(outcome[r.job])
  <2>1. CASE r.status = "running"
    BY <1>2, <2>1 DEF JobRows!Reported
  <2>2. CASE r.status = "succeeded"
    BY <2>2 DEF JobRows!Reported, True
  <2>3. CASE r.status = "failed"
    BY <2>3 DEF JobRows!Reported, True
  <2> QED
    BY <1>1, <2>1, <2>2, <2>3
<1> QED
  BY <1>1, <1>3 DEF JobRows!Write, Record

(* Orphan recovery is a GiveUp. *)
LEMMA RecoveryRefines ==
    ASSUME NEW a \in Agents, UNCHANGED outcome, FailRunningJobs(a)
    PROVE  JobRows!GiveUp
<1> DEFINE S == {j \in Jobs : AgentOf[j] = a /\ jobStatus[j] = "running"}
<1>1. S \in SUBSET {j \in Jobs : jobStatus[j] = "running"}
  OBVIOUS
<1>2. jobStatus' = [j \in Jobs |-> IF j \in S THEN "failed" ELSE jobStatus[j]]
  BY DEF FailRunningJobs
<1> QED
  BY <1>1, <1>2 DEF JobRows!GiveUp

(* Every step is one of the abstract record or leaves it alone. *)
LEMMA StepRefines ==
    ASSUME JobInv, [Next]_vars
    PROVE  [JobRows!Next]_<<jobStatus, outcome>>
<1> DEFINE Goal == [JobRows!Next]_<<jobStatus, outcome>>
<1>1. CASE UNCHANGED vars
  BY <1>1 DEF vars, jobVars
<1>2. ASSUME NEW j \in Jobs, JobStep(j) PROVE Goal
  BY <1>2 DEF JobStep, CreateJob, DispatchNotConnected, DispatchLookup,
              DispatchSend, JobRows!Next, JobRows!Create
<1>3. ASSUME NEW r \in late, ReportJobStatusLate(r) PROVE Goal
  <2>1. r \in Report /\ True(r)
    BY DEF JobInv, TypeOK, LateSound
  <2> QED
    BY <1>3, <2>1, RecordRefines DEF ReportJobStatusLate, JobRows!Next
<1>4. ASSUME NEW a \in Agents,
             \/ Receive(a) \/ ExecutorStep(a) \/ ReportJobStatus(a)
             \/ QuietSessionStep(a) \/ BreakLink(a) \/ EndSession(a)
             \/ StopAgent(a)
             \/ \E s \in Sessions : RecoverOrphans(a, s) \/ RecoveryFails(a, s)
      PROVE  Goal
  <2>1. CASE RejectPayload(a) \/ Begin(a) \/ Finish(a)
    BY <2>1, AdvanceRefines DEF RejectPayload, Begin, Finish, JobRows!Next
  <2>2. CASE ReportJobStatus(a)
    <3>1. CurrentReport(a) \in Report /\ True(CurrentReport(a))
      BY <2>2, CurrentReportTrue DEF ReportJobStatus
    <3> QED
      BY <2>2, <3>1, RecordRefines DEF ReportJobStatus, JobRows!Next
  <2>3. CASE \E s \in Sessions : RecoverOrphans(a, s)
    BY <2>3, RecoveryRefines DEF RecoverOrphans, JobRows!Next
  <2>4. CASE \/ Receive(a) \/ Fetch(a) \/ Resume(a) \/ QuietSessionStep(a)
             \/ BreakLink(a) \/ EndSession(a) \/ StopAgent(a)
             \/ \E s \in Sessions : RecoveryFails(a, s)
    BY <2>4 DEF Receive, Fetch, Resume, QuietSessionStep, jobVars, BreakLink,
                EndSession, StopAgent, RecoveryFails
  <2> QED
    BY <1>4, <2>1, <2>2, <2>3, <2>4 DEF ExecutorStep
<1>5. CASE RestartServer
  BY <1>5 DEF RestartServer
<1> QED
  BY <1>1, <1>2, <1>3, <1>4, <1>5 DEF Next

(* The system implements the abstract record of jobs, whatever happens to  *)
(* its connections and processes.                                          *)
THEOREM Refinement == Spec => ImplementsJobRecord
<1>1. Init => JobRows!Init
  BY DEF Init, JobRows!Init
<1>2. JobInv /\ [Next]_vars => [JobRows!Next]_<<jobStatus, outcome>>
  BY StepRefines
<1> QED
  BY <1>1, <1>2, JobInvCorrect, PTL DEF Spec, ImplementsJobRecord, JobRows!Spec

-----------------------------------------------------------------------------
(* Volume requests.                                                        *)

(* The requests take no part in the sessions: a step of VolumeList is one  *)
(* of the session or leaves it alone.                                      *)
LEMMA VolumesNextIsSessionStep ==
    ASSUME [VolumesNext]_listVars
    PROVE  [SessionNext]_sessionVars
<1>1. CASE UNCHANGED listVars
  BY <1>1 DEF listVars
<1>2. ASSUME NEW q \in Requests,
             \/ CheckConnected(q) \/ WaiterStep(q) \/ ListerStep(q)
             \/ CallLost(q) \/ DeliveryStep(q)
      PROVE  UNCHANGED sessionVars
  BY <1>2 DEF CheckConnected, WaiterStep, LookUpStream, AddPending, SendRequest,
     TakeResult, GiveUp, Leave, ListerStep, ReceiveRequest, TakeClient,
     ListAndReport, CallLost, DeliveryStep, FindWaiter, Deliver
<1>3. ASSUME NEW a \in Agents,
             VolumesQuietStep(a) \/ VolumesEndSession(a) \/ VolumesStopAgent(a)
      PROVE  SessionNext
  <2>1. CASE VolumesQuietStep(a)
    BY <2>1 DEF VolumesQuietStep, SessionNext, AgentStep
  <2>2. CASE VolumesEndSession(a) \/ VolumesStopAgent(a)
    BY <2>2 DEF VolumesEndSession, VolumesStopAgent, SessionNext, AgentStep
  <2> QED
    BY <1>3, <2>1, <2>2
<1>4. CASE VolumesRestartServer
  BY <1>4 DEF VolumesRestartServer, SessionNext
<1> QED
  BY <1>1, <1>2, <1>3, <1>4 DEF VolumesNext

(* A request is asked once, listed once and reported once: each stage is   *)
(* entered from the one before, and none of them is entered twice.         *)
OneReport ==
    \A q \in Requests :
        /\ ask[q] \in {"idle", "checked", "found", "pending"} =>
               q \notin asked /\ lister[q] = "none"
        /\ q \in asked => lister[q] = "none"
        /\ lister[q] # "ended" => delivery[q] = "none" /\ found[q] = "none"
        /\ delivery[q] # "done" => channel[q] = "none"

(* What is under way to the waiter is what Docker answered. *)
ReportTrue ==
    \A q \in Requests :
        /\ delivery[q] \in {"called", "located"} => found[q] # "none"
        /\ channel[q] # "none" => channel[q] = found[q]

VolumesInv == VolumesTypeOK /\ OneReport /\ ReportTrue /\ AnswerIsFound

LEMMA VolumesInvInit == VolumesInit => VolumesInv
<1> SUFFICES ASSUME VolumesInit PROVE VolumesInv
  OBVIOUS
<1>1. SessionTypeOK
  BY SessionInitType DEF VolumesInit
<1>2. VolumesTypeOK
  BY <1>1, SessionBounds DEF VolumesInit, VolumesTypeOK, AskStates, Answers, Findings, Waiting
<1> QED
  BY <1>2 DEF VolumesInit, VolumesInv, OneReport, ReportTrue, AnswerIsFound

(* The REST handler and RequestVolumeList. *)
LEMMA WaiterStepInv ==
    ASSUME VolumesInv, NEW q \in Requests, CheckConnected(q) \/ WaiterStep(q)
    PROVE  VolumesInv'
<1> USE DEF VolumesInv, waiterVars, agentVars, deliveryVars
<1>0. SessionTypeOK /\ SessionTypeOK' /\ AskedOf[q] \in Agents
      /\ UNCHANGED sessionVars
  <2>1. UNCHANGED sessionVars
    BY DEF CheckConnected, WaiterStep, LookUpStream, AddPending, SendRequest,
           TakeResult, GiveUp, Leave
  <2> QED
    BY <2>1, AskedAssumption DEF VolumesTypeOK, sessionVars, SessionTypeOK
<1>1. CASE CheckConnected(q)
  <2>1. VolumesTypeOK'
    BY <1>0, <1>1 DEF CheckConnected, VolumesTypeOK, AskStates, Answers, Waiting
  <2> QED
    BY <1>1, <2>1 DEF CheckConnected, VolumesTypeOK, OneReport, ReportTrue, AnswerIsFound
<1>2. CASE LookUpStream(q)
  <2>1. registry[AskedOf[q]] \in 0 .. MaxSessions
    BY <1>0 DEF SessionTypeOK
  <2>2. VolumesTypeOK'
    BY <1>0, <1>2, <2>1 DEF LookUpStream, VolumesTypeOK, AskStates, Answers, Waiting
  <2> QED
    BY <1>2, <2>2 DEF LookUpStream, VolumesTypeOK, OneReport, ReportTrue, AnswerIsFound
<1>3. CASE AddPending(q)
  <2>1. VolumesTypeOK'
    BY <1>0, <1>3 DEF AddPending, VolumesTypeOK, AskStates, Waiting
  <2> QED
    BY <1>3, <2>1 DEF AddPending, VolumesTypeOK, OneReport, ReportTrue, AnswerIsFound
<1>4. CASE SendRequest(q)
  <2>1. VolumesTypeOK'
    BY <1>0, <1>4 DEF SendRequest, VolumesTypeOK, AskStates, Answers, Waiting
  <2> QED
    BY <1>4, <2>1 DEF SendRequest, VolumesTypeOK, OneReport, ReportTrue, AnswerIsFound
<1>5. CASE TakeResult(q)
  <2>1. VolumesTypeOK'
    BY <1>0, <1>5 DEF TakeResult, VolumesTypeOK, AskStates, Answers, Findings, Waiting
  <2>2. OneReport' /\ ReportTrue'
    BY <1>5 DEF TakeResult, VolumesTypeOK, OneReport, ReportTrue
  <2>3. channel[q] \in {"volumes", "error"} /\ channel[q] = found[q]
    BY <1>5 DEF TakeResult, VolumesTypeOK, Findings, ReportTrue
  <2>4. AnswerIsFound'
    BY <1>5, <2>3 DEF TakeResult, VolumesTypeOK, AnswerIsFound
  <2> QED
    BY <2>1, <2>2, <2>4
<1>6. CASE GiveUp(q)
  <2>1. VolumesTypeOK'
    BY <1>0, <1>6 DEF GiveUp, VolumesTypeOK, AskStates, Answers, Waiting
  <2> QED
    BY <1>6, <2>1 DEF GiveUp, VolumesTypeOK, OneReport, ReportTrue, AnswerIsFound
<1>7. CASE Leave(q)
  <2>1. VolumesTypeOK'
    BY <1>0, <1>7 DEF Leave, VolumesTypeOK, AskStates, Waiting
  <2> QED
    BY <1>7, <2>1 DEF Leave, VolumesTypeOK, OneReport, ReportTrue, AnswerIsFound
<1> QED
  BY <1>1, <1>2, <1>3, <1>4, <1>5, <1>6, <1>7 DEF WaiterStep

(* The agent's goroutine, and the handler of its report. *)
LEMMA ReportStepInv ==
    ASSUME VolumesInv, NEW q \in Requests,
           ListerStep(q) \/ CallLost(q) \/ DeliveryStep(q)
    PROVE  VolumesInv'
<1> USE DEF VolumesInv, waiterVars, agentVars, deliveryVars
<1>0. /\ UNCHANGED <<sessionVars, ask, stream, answer, pending>>
      /\ SessionTypeOK' /\ AskedOf[q] \in Agents
      /\ pending' = {p \in Requests : Waiting(p)'}
  <2>1. UNCHANGED <<sessionVars, ask, stream, answer, pending>>
    BY DEF ListerStep, ReceiveRequest, TakeClient, ListAndReport, CallLost,
           DeliveryStep, FindWaiter, Deliver
  <2> QED
    BY <2>1, AskedAssumption DEF VolumesTypeOK, sessionVars, SessionTypeOK, Waiting
<1>1. CASE ReceiveRequest(q)
  <2>1. VolumesTypeOK'
    BY <1>0, <1>1 DEF ReceiveRequest, VolumesTypeOK
  <2> QED
    BY <1>1, <2>1 DEF ReceiveRequest, VolumesTypeOK, OneReport, ReportTrue, AnswerIsFound
<1>2. CASE TakeClient(q)
  <2>1. sess[AskedOf[q]] \in 0 .. MaxSessions
    BY <1>0 DEF VolumesTypeOK, SessionTypeOK
  <2>2. VolumesTypeOK'
    BY <1>0, <1>2, <2>1 DEF TakeClient, VolumesTypeOK
  <2> QED
    BY <1>2, <2>2 DEF TakeClient, VolumesTypeOK, OneReport, ReportTrue, AnswerIsFound
<1>3. CASE ListAndReport(q)
  <2>1. PICK r \in {"volumes", "error"} : found' = [found EXCEPT ![q] = r]
    BY <1>3 DEF ListAndReport
  <2>2. /\ delivery' \in {delivery, [delivery EXCEPT ![q] = "called"]}
        /\ lister' = [lister EXCEPT ![q] = "ended"] /\ lister[q] = "listing"
        /\ UNCHANGED <<asked, via, channel>>
    BY <1>3 DEF ListAndReport
  <2>3. VolumesTypeOK'
    BY <1>0, <2>1, <2>2 DEF VolumesTypeOK, Findings
  <2>4. delivery[q] = "none" /\ found[q] = "none" /\ channel[q] = "none"
    BY <2>2 DEF OneReport
  <2>5. OneReport'
    BY <1>0, <2>1, <2>2, <2>4 DEF VolumesTypeOK, OneReport
  <2>6. ReportTrue' /\ AnswerIsFound'
    BY <1>0, <2>1, <2>2, <2>4 DEF VolumesTypeOK, ReportTrue, AnswerIsFound
  <2> QED
    BY <2>3, <2>5, <2>6
<1>4. CASE CallLost(q) \/ FindWaiter(q)
  <2>1. /\ delivery' \in {[delivery EXCEPT ![q] = "done"], [delivery EXCEPT ![q] = "located"]}
        /\ delivery[q] = "called"
        /\ UNCHANGED <<asked, lister, via, found, channel>>
    BY <1>4 DEF CallLost, FindWaiter
  <2>2. VolumesTypeOK'
    BY <1>0, <2>1 DEF VolumesTypeOK
  <2> QED
    BY <1>0, <2>1, <2>2 DEF VolumesTypeOK, OneReport, ReportTrue, AnswerIsFound
<1>5. CASE Deliver(q)
  <2>1. /\ delivery' = [delivery EXCEPT ![q] = "done"] /\ delivery[q] = "located"
        /\ channel' = [channel EXCEPT ![q] = found[q]]
        /\ UNCHANGED <<asked, lister, via, found>>
    BY <1>5 DEF Deliver
  <2>2. VolumesTypeOK'
    BY <1>0, <2>1 DEF VolumesTypeOK
  <2> QED
    BY <1>0, <2>1, <2>2 DEF VolumesTypeOK, OneReport, ReportTrue, AnswerIsFound
<1> QED
  BY <1>1, <1>2, <1>3, <1>4, <1>5 DEF ListerStep, DeliveryStep

(* Steps of the session: what was under way is lost, never repeated. *)
LEMMA VolumesSessionInv ==
    ASSUME VolumesInv, SessionTypeOK', NEW a \in Agents,
           VolumesQuietStep(a) \/ VolumesEndSession(a) \/ VolumesStopAgent(a)
    PROVE  VolumesInv'
<1> USE DEF VolumesInv, waiterVars, agentVars, deliveryVars, volumeVars
<1>1. /\ UNCHANGED <<ask, stream, answer, pending, via, found, channel, delivery>>
      /\ asked' \subseteq asked
      /\ lister' \in [Requests -> {"none", "started", "listing", "ended"}]
      /\ \A q \in Requests :
            \/ lister'[q] = lister[q]
            \/ lister[q] # "none" /\ lister'[q] = "ended"
  BY DEF VolumesQuietStep, VolumesEndSession, VolumesStopAgent, VolumesTypeOK
<1>2. pending' = {q \in Requests : Waiting(q)'}
  BY <1>1 DEF VolumesTypeOK, Waiting
<1>3. VolumesTypeOK'
  BY <1>1, <1>2 DEF VolumesTypeOK
<1> QED
  BY <1>1, <1>3 DEF OneReport, ReportTrue, AnswerIsFound

(* A restart of the server empties its map and ends its handlers. *)
LEMMA VolumesRestartInv ==
    ASSUME VolumesInv, SessionTypeOK', VolumesRestartServer
    PROVE  VolumesInv'
<1> USE DEF VolumesInv, agentVars
<1>1. VolumesTypeOK'
  BY DEF VolumesRestartServer, VolumesTypeOK, AskStates, Findings, Waiting
<1> QED
  BY <1>1 DEF VolumesRestartServer, OneReport, ReportTrue, AnswerIsFound

(* The invariant of the requests holds in every reachable state. *)
LEMMA VolumesInvariant == VolumesSpec => []VolumesInv
<1>1. VolumesInv /\ [VolumesNext]_listVars => VolumesInv'
  <2> SUFFICES ASSUME VolumesInv, [VolumesNext]_listVars PROVE VolumesInv'
    OBVIOUS
  <2>1. SessionTypeOK'
    BY VolumesNextIsSessionStep, SessionTypeStep DEF VolumesInv, VolumesTypeOK
  <2>2. CASE UNCHANGED listVars
    <3>1. UNCHANGED <<ask, stream, answer, pending, asked, lister, via, found,
                      channel, delivery>>
      BY <2>2 DEF listVars, volumeVars, waiterVars, agentVars, deliveryVars
    <3> QED
      BY <2>1, <3>1 DEF VolumesInv, VolumesTypeOK, OneReport, ReportTrue,
                        AnswerIsFound, Waiting
  <2> QED
    BY <2>1, <2>2, WaiterStepInv, ReportStepInv, VolumesSessionInv, VolumesRestartInv
    DEF VolumesNext
<1> QED
  BY <1>1, VolumesInvInit, PTL DEF VolumesSpec

(* RequestVolumeList leaves nothing behind: the map holds the channels of  *)
(* the requests that wait and no other, for any number of requests.        *)
THEOREM VolumesTypeCorrect == VolumesSpec => []VolumesTypeOK
  BY VolumesInvariant, PTL DEF VolumesInv

(* DeliverVolumeList never blocks: a buffer of one is enough, over any     *)
(* number of sessions, timeouts and restarts.                              *)
THEOREM ReportFindsRoomCorrect == VolumesSpec => []ReportFindsRoom
<1>1. VolumesInv => ReportFindsRoom
  BY DEF VolumesInv, OneReport, ReportFindsRoom
<1> QED
  BY <1>1, VolumesInvariant, PTL

(* ListVolumes answers with what Docker told the agent that was asked. *)
THEOREM AnswerIsFoundCorrect == VolumesSpec => []AnswerIsFound
  BY VolumesInvariant, PTL DEF VolumesInv

(* VolumeList implements them as well: what is proved of SessionSpec holds *)
(* under volume requests too.                                              *)
THEOREM VolumesKeepSessions == VolumesSpec => SessionSpec
<1>1. VolumesInit => SessionInit
  BY DEF VolumesInit
<1> QED
  BY <1>1, VolumesNextIsSessionStep, PTL DEF VolumesSpec, SessionSpec
=============================================================================
