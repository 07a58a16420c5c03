----------------------------- MODULE JobDispatch -----------------------------
(***************************************************************************)
(* How a job travels: the scheduler (or the restore handler) creates a     *)
(* pending row and dispatches it on the agent's registered stream; the     *)
(* agent receives it, queues it in a bounded channel, runs one job at a    *)
(* time and reports its status with unary RPCs; the server writes each     *)
(* report over the row, and fails the running jobs of an agent whose       *)
(* stream closes.                                                          *)
(*                                                                         *)
(* The session of AgentSession carries all of it: a session step is also a *)
(* step of this module, with what it does to the jobs conjoined to it.     *)
(***************************************************************************)
EXTENDS AgentSession, Sequences

CONSTANTS
    Jobs,       \* job identifiers: a row is created at most once for each
    AgentOf,    \* the agent a job is for (policy.AgentID)
    NoJob,      \* no job
    QueueSize   \* capacity of the executor's channel

ASSUME JobAssumption == AgentOf \in [Jobs -> Agents] /\ NoJob \notin Jobs
ASSUME QueueAssumption == QueueSize \in Nat \ {0}

VARIABLES
    jobStatus,  \* database: status of the row, "none" before it is created
    disp,       \* server: where the goroutine dispatching the job is
    target,     \* server: session whose stream Dispatch looked up
    wire,       \* network: assignments sent and not yet received
    queue,      \* agent: the executor's channel
    running,    \* agent: the job being executed
    pc,         \* agent: where execute is
    rpc,        \* agent: state of the ReportJobStatus call of the executor
    late,       \* server: reports whose caller has given up on the call
    outcome     \* agent: what has really happened to the job

jobVars == <<jobStatus, disp, target, wire, queue, running, pc, rpc, late,
             outcome>>
vars == <<sessionVars, jobVars>>

JobStates == {"none", "pending", "running", "succeeded", "failed"}
DispStates == {"idle", "created", "sending", "done"}
Outcomes == {"none", "started", "success", "failed"}
ExecStates == {"idle", "fetched", "starting", "working", "final"}
RpcStates == {"none", "sent", "returned"}

(* What ReportJobStatus writes for the status an execution reports. *)
Written == [o \in {"started", "success", "failed"} |->
              CASE o = "started" -> "running"
                [] o = "success" -> "succeeded"
                [] o = "failed"  -> "failed"]

Report == [job : Jobs, status : {"running", "succeeded", "failed"}]

(* The report the executor of agent a is sending. *)
CurrentReport(a) == [job |-> running[a], status |-> Written[outcome[running[a]]]]

-----------------------------------------------------------------------------
Init ==
    /\ SessionInit
    /\ jobStatus = [j \in Jobs |-> "none"]
    /\ disp = [j \in Jobs |-> "idle"]
    /\ target = [j \in Jobs |-> 0]
    /\ wire = [a \in Agents |-> <<>>]
    /\ queue = [a \in Agents |-> <<>>]
    /\ running = [a \in Agents |-> NoJob]
    /\ pc = [a \in Agents |-> "idle"]
    /\ rpc = [a \in Agents |-> "none"]
    /\ late = {}
    /\ outcome = [j \in Jobs |-> "none"]

-----------------------------------------------------------------------------
(* The server creates and dispatches.                                      *)

(* Mutant: a failed job is tried again on its old row. *)
CreateJobAgain(j) ==
    /\ jobStatus[j] \in {"none", "failed"}
    /\ jobStatus' = [jobStatus EXCEPT ![j] = "pending"]
    /\ disp' = [disp EXCEPT ![j] = "created"]
    /\ UNCHANGED <<sessionVars, target, wire, queue, running, pc, rpc, late,
                   outcome>>

(* runJob, or Restore, inserts the row with status "pending". *)
CreateJob(j) ==
    /\ jobStatus[j] = "none"
    /\ jobStatus' = [jobStatus EXCEPT ![j] = "pending"]
    /\ disp' = [disp EXCEPT ![j] = "created"]
    /\ UNCHANGED <<sessionVars, target, wire, queue, running, pc, rpc, late,
                   outcome>>

(* Dispatch, lookup under the read lock: no entry, the error is only       *)
(* logged and the job stays pending.                                       *)
DispatchNotConnected(j) ==
    /\ disp[j] = "created"
    /\ registry[AgentOf[j]] = 0
    /\ disp' = [disp EXCEPT ![j] = "done"]
    /\ UNCHANGED <<sessionVars, jobStatus, target, wire, queue, running, pc,
                   rpc, late, outcome>>

DispatchLookup(j) ==
    /\ disp[j] = "created"
    /\ registry[AgentOf[j]] # 0
    /\ disp' = [disp EXCEPT ![j] = "sending"]
    /\ target' = [target EXCEPT ![j] = registry[AgentOf[j]]]
    /\ UNCHANGED <<sessionVars, jobStatus, wire, queue, running, pc, rpc,
                   late, outcome>>

(* stream.Send after the lock is released: on a connection that is gone it *)
(* fails or the message is lost, and nothing tells the job row.            *)
DispatchSend(j) ==
    LET a == AgentOf[j] IN
    /\ disp[j] = "sending"
    /\ disp' = [disp EXCEPT ![j] = "done"]
    /\ wire' = IF Live(a, target[j])
               THEN [wire EXCEPT ![a] = Append(@, j)]
               ELSE wire
    /\ UNCHANGED <<sessionVars, jobStatus, target, queue, running, pc, rpc,
                   late, outcome>>

-----------------------------------------------------------------------------
(* The agent receives, queues and executes.                                *)

(* Mutant: the assignment is delivered again. *)
ReceiveAgain(a) ==
    /\ conn[a] = "streaming"
    /\ wire[a] # <<>>
    /\ Len(queue[a]) < QueueSize
    /\ queue' = [queue EXCEPT ![a] = Append(@, Head(wire[a]))]
    /\ UNCHANGED <<sessionVars, jobStatus, disp, target, wire, running, pc,
                   rpc, late, outcome>>

(* jobStreamLoop receives an assignment; Enqueue rejects it when the       *)
(* channel is full, which is only logged.                                  *)
Receive(a) ==
    /\ conn[a] = "streaming"
    /\ wire[a] # <<>>
    /\ wire' = [wire EXCEPT ![a] = Tail(@)]
    /\ queue' = IF Len(queue[a]) < QueueSize
                THEN [queue EXCEPT ![a] = Append(@, Head(wire[a]))]
                ELSE queue
    /\ UNCHANGED <<sessionVars, jobStatus, disp, target, running, pc, rpc,
                   late, outcome>>

(* The executor's worker takes the next job. *)
Fetch(a) ==
    /\ conn[a] # "stopped"
    /\ pc[a] = "idle"
    /\ queue[a] # <<>>
    /\ running' = [running EXCEPT ![a] = Head(queue[a])]
    /\ queue' = [queue EXCEPT ![a] = Tail(@)]
    /\ pc' = [pc EXCEPT ![a] = "fetched"]
    /\ UNCHANGED <<sessionVars, jobStatus, disp, target, wire, rpc, late,
                   outcome>>

(* ReportStatus calls ReportJobStatus on the current client; without a     *)
(* working connection the call fails at once.                              *)
CallReport(a) == rpc' = [rpc EXCEPT ![a] = IF Dialed(a) /\ up[a]
                                           THEN "sent" ELSE "returned"]

(* The payload does not parse: the job fails without ever running. *)
RejectPayload(a) ==
    /\ pc[a] = "fetched"
    /\ outcome' = [outcome EXCEPT ![running[a]] = "failed"]
    /\ pc' = [pc EXCEPT ![a] = "final"]
    /\ CallReport(a)
    /\ UNCHANGED <<sessionVars, jobStatus, disp, target, wire, queue, running,
                   late>>

(* The job begins: it reports "running" and waits for the call. *)
Begin(a) ==
    /\ pc[a] = "fetched"
    /\ outcome' = [outcome EXCEPT ![running[a]] = "started"]
    /\ pc' = [pc EXCEPT ![a] = "starting"]
    /\ CallReport(a)
    /\ UNCHANGED <<sessionVars, jobStatus, disp, target, wire, queue, running,
                   late>>

(* The work ends well or badly and the terminal status is reported. *)
Finish(a) ==
    /\ pc[a] = "working"
    /\ \E o \in {"success", "failed"} :
          outcome' = [outcome EXCEPT ![running[a]] = o]
    /\ pc' = [pc EXCEPT ![a] = "final"]
    /\ CallReport(a)
    /\ UNCHANGED <<sessionVars, jobStatus, disp, target, wire, queue, running,
                   late>>

(* Mutant: execute waits until the report can be delivered. *)
ResumeWhenConnected(a) ==
    /\ rpc[a] = "returned"
    /\ Dialed(a) /\ up[a]
    /\ rpc' = [rpc EXCEPT ![a] = "none"]
    /\ pc' = [pc EXCEPT ![a] = IF @ = "starting" THEN "working" ELSE "idle"]
    /\ running' = [running EXCEPT ![a] = IF pc[a] = "starting" THEN @ ELSE NoJob]
    /\ UNCHANGED <<sessionVars, jobStatus, disp, target, wire, queue, late,
                   outcome>>

(* The call has returned; an error is only logged.  execute goes on, or    *)
(* returns after the terminal report.                                      *)
Resume(a) ==
    /\ rpc[a] = "returned"
    /\ rpc' = [rpc EXCEPT ![a] = "none"]
    /\ pc' = [pc EXCEPT ![a] = IF @ = "starting" THEN "working" ELSE "idle"]
    /\ running' = [running EXCEPT ![a] = IF pc[a] = "starting" THEN @ ELSE NoJob]
    /\ UNCHANGED <<sessionVars, jobStatus, disp, target, wire, queue, late,
                   outcome>>

-----------------------------------------------------------------------------
(* The server records.                                                     *)

(* UpdateStatus: whatever the row holds, the report replaces it. *)
Record(r) == jobStatus' = [jobStatus EXCEPT ![r.job] = r.status]

(* ReportJobStatus.  If the update fails the agent gets an error instead.  *)
ReportJobStatus(a) ==
    /\ rpc[a] = "sent"
    /\ Record(CurrentReport(a)) \/ UNCHANGED jobStatus
    /\ rpc' = [rpc EXCEPT ![a] = "returned"]
    /\ UNCHANGED <<sessionVars, disp, target, wire, queue, running, pc, late,
                   outcome>>

(* A handler whose caller is gone still completes, or its update fails on  *)
(* the cancelled context.                                                  *)
ReportJobStatusLate(r) ==
    /\ r \in late
    /\ late' = late \ {r}
    /\ Record(r) \/ UNCHANGED jobStatus
    /\ UNCHANGED <<sessionVars, disp, target, wire, queue, running, pc, rpc,
                   outcome>>

(* Mutant: jobs of every status are failed. *)
FailAllJobs(a) ==
    jobStatus' = [j \in Jobs |->
                    IF AgentOf[j] = a /\ jobStatus[j] # "none"
                    THEN "failed" ELSE jobStatus[j]]

(* Mutant: no orphan recovery. *)
FailNoJobs(a) == UNCHANGED jobStatus

(* FailRunningJobsForAgent. *)
FailRunningJobs(a) ==
    jobStatus' = [j \in Jobs |->
                    IF AgentOf[j] = a /\ jobStatus[j] = "running"
                    THEN "failed" ELSE jobStatus[j]]

-----------------------------------------------------------------------------
(* Session steps, with what they do to the jobs.                           *)

(* Steps of the session that no job takes part in. *)
QuietSessionStep(a) ==
    /\ \/ AgentStart(a)
       \/ Dial(a)
       \/ RegisterRead(a)
       \/ OpenStream(a)
       \/ Heartbeat(a)
       \/ Retry(a)
       \/ \E s \in Sessions :
             \/ RegisterSave(a, s)
             \/ StreamLookupFails(a, s)
             \/ StreamMarkOnline(a, s)
             \/ StreamRegister(a, s)
             \/ StreamDeregister(a, s)
             \/ StreamMarkOffline(a, s)
    /\ UNCHANGED jobVars

(* A call on a broken connection returns an error to the executor, while   *)
(* its handler may still be running on the server.                         *)
BreakLink(a) ==
    /\ LinkDown(a)
    /\ late' = IF rpc[a] = "sent" THEN late \cup {CurrentReport(a)} ELSE late
    /\ rpc' = [rpc EXCEPT ![a] = IF @ = "sent" THEN "returned" ELSE @]
    /\ UNCHANGED <<jobStatus, disp, target, wire, queue, running, pc, outcome>>

(* Mutant: the executor's queue is emptied with the session. *)
EndSessionDropsQueue(a) ==
    /\ SessionEnds(a)
    /\ wire' = [wire EXCEPT ![a] = <<>>]
    /\ queue' = [queue EXCEPT ![a] = <<>>]
    /\ UNCHANGED <<jobStatus, disp, target, running, pc, rpc, late, outcome>>

(* The end of a session loses what was sent on it and not received. *)
EndSession(a) ==
    /\ SessionEnds(a)
    /\ wire' = [wire EXCEPT ![a] = <<>>]
    /\ UNCHANGED <<jobStatus, disp, target, queue, running, pc, rpc, late,
                   outcome>>

(* The agent process ends: queue and current job are gone.  The report     *)
(* "cancelled" of a graceful shutdown never leaves the agent, because its  *)
(* context is cancelled too.                                               *)
StopAgent(a) ==
    /\ AgentStop(a)
    /\ late' = IF rpc[a] = "sent" THEN late \cup {CurrentReport(a)} ELSE late
    /\ wire' = [wire EXCEPT ![a] = <<>>]
    /\ queue' = [queue EXCEPT ![a] = <<>>]
    /\ running' = [running EXCEPT ![a] = NoJob]
    /\ pc' = [pc EXCEPT ![a] = "idle"]
    /\ rpc' = [rpc EXCEPT ![a] = "none"]
    /\ UNCHANGED <<jobStatus, disp, target, outcome>>

(* The last step of StreamJobs fails the jobs the agent left running. *)
RecoverOrphans(a, s) ==
    /\ StreamReturn(a, s, "closed")
    /\ FailRunningJobs(a)
    /\ UNCHANGED <<disp, target, wire, queue, running, pc, rpc, late, outcome>>

(* Or the update fails, or runs out of the five seconds of the cleanup.    *)
(* The error is logged and nothing tries again: the jobs stay running.     *)
RecoveryFails(a, s) ==
    /\ StreamReturn(a, s, "unrecovered")
    /\ UNCHANGED jobVars

(* A restart ends every goroutine of the server.  No code looks at pending *)
(* or running jobs when it comes back.                                     *)
RestartServer ==
    /\ ServerRestart
    /\ disp' = [j \in Jobs |-> IF disp[j] = "idle" THEN "idle" ELSE "done"]
    /\ rpc' = [a \in Agents |-> IF rpc[a] = "sent" THEN "returned" ELSE rpc[a]]
    /\ late' = {}
    /\ UNCHANGED <<jobStatus, target, wire, queue, running, pc, outcome>>

-----------------------------------------------------------------------------
JobStep(j) ==
    \/ CreateJob(j)
    \/ DispatchNotConnected(j)
    \/ DispatchLookup(j)
    \/ DispatchSend(j)

ExecutorStep(a) ==
    \/ Fetch(a)
    \/ RejectPayload(a)
    \/ Begin(a)
    \/ Finish(a)
    \/ Resume(a)

Next ==
    \/ \E j \in Jobs : JobStep(j)
    \/ \E a \in Agents :
          \/ Receive(a)
          \/ ExecutorStep(a)
          \/ ReportJobStatus(a)
          \/ QuietSessionStep(a)
          \/ BreakLink(a)
          \/ EndSession(a)
          \/ StopAgent(a)
          \/ \E s \in Sessions : RecoverOrphans(a, s) \/ RecoveryFails(a, s)
    \/ \E r \in late : ReportJobStatusLate(r)
    \/ RestartServer

Spec == Init /\ [][Next]_vars

(***************************************************************************)
(* Goroutines of running processes are scheduled; gRPC fails a call on a   *)
(* broken connection; restic and the hooks terminate.  Nothing forces a    *)
(* job to be created.                                                      *)
(***************************************************************************)
Fairness ==
    /\ SessionFairness
    /\ \A j \in Jobs : WF_vars(DispatchNotConnected(j) \/ DispatchLookup(j)
                                \/ DispatchSend(j))
    /\ \A a \in Agents : /\ WF_vars(Receive(a))
                          /\ WF_vars(ExecutorStep(a))
                          /\ WF_vars(ReportJobStatus(a))

FairSpec == Spec /\ Fairness

-----------------------------------------------------------------------------
(* Properties.                                                             *)

InSeq(j, q) == \E i \in DOMAIN q : q[i] = j

(* Every variable keeps its type. *)
TypeOK ==
    /\ SessionTypeOK
    /\ jobStatus \in [Jobs -> JobStates]
    /\ disp \in [Jobs -> DispStates]
    /\ target \in [Jobs -> 0 .. MaxSessions]
    /\ wire \in [Agents -> Seq(Jobs)]
    /\ queue \in [Agents -> Seq(Jobs)]
    /\ running \in [Agents -> Jobs \cup {NoJob}]
    /\ pc \in [Agents -> ExecStates]
    /\ rpc \in [Agents -> RpcStates]
    /\ late \in SUBSET Report
    /\ outcome \in [Jobs -> Outcomes]

(* However dispatches, reconnects and restarts interleave, the executor    *)
(* never takes up a job that was taken up before: a backup is not repeated *)
(* by a replayed assignment.                                               *)
RunsAtMostOnce ==
    \A a \in Agents : pc[a] = "fetched" => outcome[running[a]] = "none"

(* No interleaving of unguarded updates, late handlers, orphan recovery    *)
(* and restarts makes the jobs table claim what did not happen: succeeded  *)
(* means the agent finished the job well, and running or failed means it   *)
(* had taken it up.                                                        *)
RecordSound ==
    \A j \in Jobs :
        /\ jobStatus[j] = "succeeded" => outcome[j] = "success"
        /\ jobStatus[j] \in {"running", "failed"} => outcome[j] # "none"

(* A failed row has a cause: the agent failed the job, or a stream of that *)
(* same agent was closed.  Trouble with one agent never fails the jobs of  *)
(* another.                                                                *)
FailureHasCause ==
    \A j \in Jobs :
        jobStatus[j] = "failed" =>
            \/ outcome[j] = "failed"
            \/ \E s \in Sessions : handler[AgentOf[j]][s] = "closed"

(* The jobs table implements the abstract record of jobs. *)
JobRows == INSTANCE JobRecord WITH record <- jobStatus, truth <- outcome
ImplementsJobRecord == JobRows!Spec

(* Orphan recovery: a job that is running when a stream of its agent       *)
(* closes stays running only if the one attempt of that stream's handler   *)
(* fails, or the server itself ends before the handler has returned.  What *)
(* an earlier stream's failed attempt has left running is freed with the   *)
(* next stream.                                                            *)
ClosedStreamFreesRunningJobs ==
    \A j \in Jobs, s \in Sessions, r \in 0 .. MaxServerRestarts :
        /\ jobStatus[j] = "running"
        /\ handler[AgentOf[j]][s] = "open"
        /\ CtxDone(AgentOf[j], s)
        /\ restarts = r
        ~> \/ jobStatus[j] # "running"
           \/ handler[AgentOf[j]][s] = "unrecovered"
           \/ restarts > r

(* The executor never waits forever: a broken connection fails the report  *)
(* it waits for, so the worker gets back to its queue.                     *)
ExecutorGetsIdle ==
    \A a \in Agents : running[a] # NoJob ~> running[a] = NoJob

(* A job that made it into the queue is executed, through any number of    *)
(* reconnects, unless the agent process ends.                              *)
QueuedJobIsExecuted ==
    \A j \in Jobs :
        InSeq(j, queue[AgentOf[j]])
            ~> outcome[j] # "none" \/ conn[AgentOf[j]] = "stopped"

=============================================================================
