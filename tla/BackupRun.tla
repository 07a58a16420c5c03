------------------------------ MODULE BackupRun ------------------------------
(***************************************************************************)
(* One backup job from its rows to its end: the server creates the job and *)
(* destination rows and builds the payload; executeBackup resolves the     *)
(* sources, runs the hooks and backs up to one destination after the       *)
(* other; every result is reported on its own, and ReportDestinationStatus *)
(* records it in several steps that can fail one by one.                   *)
(*                                                                         *)
(* JobDispatch has the sessions and the queue that carry such a job; here  *)
(* any report may be lost, and a handler may outlive its caller.           *)
(***************************************************************************)
EXTENDS Integers

CONSTANT N      \* destinations of the policy, in the order of their priority

ASSUME NAssumption == N \in Nat

VARIABLES
    phase,          \* agent: where executeBackup is
    next,           \* agent: destination of the loop
    backupFailed,   \* agent: some destination has failed
    result,         \* agent: result of each destination
    ctxDone,        \* agent: the process is shutting down
    ran,            \* agent: hooks that have run
    repo,           \* repositories that hold a snapshot of this job
    payload,        \* destinations that the assignment contains
    urls,           \* destinations with a repository URL
    hooks,          \* hooks that the policy configures
    jobRow,         \* database: status of the job
    destRow,        \* database: status of each job destination
    snapRows,       \* database: snapshot rows of each destination
    report          \* server: handler of the report on each destination

agentVars == <<phase, next, backupFailed, result, ctxDone, ran, repo>>
inputVars == <<payload, urls, hooks>>
rowVars == <<jobRow, destRow, snapRows, report>>
vars == <<agentVars, inputVars, rowVars>>

Dests == 1 .. N

Phases == {"none", "sent", "resolving", "prehook", "loop", "restic", "report",
           "waiting", "forget", "posthook", "final", "ended"}

-----------------------------------------------------------------------------
Init ==
    /\ phase = "none"
    /\ next = 1
    /\ backupFailed = FALSE
    /\ result = [d \in Dests |-> "none"]
    /\ ctxDone = FALSE
    /\ ran = {}
    /\ repo = {}
    /\ payload = {}
    /\ urls = {}
    /\ hooks = {}
    /\ jobRow = "none"
    /\ destRow = [d \in Dests |-> "none"]
    /\ snapRows = [d \in Dests |-> 0]
    /\ report = [d \in Dests |-> "none"]

(* runJob creates the rows, going on when one of the destinations fails;   *)
(* dispatch leaves out destinations that cannot be loaded.                 *)
CreateAndDispatch ==
    /\ phase = "none"
    /\ phase' = "sent"
    /\ jobRow' = "pending"
    /\ \E created \in SUBSET Dests :
          destRow' = [d \in Dests |-> IF d \in created THEN "pending" ELSE "none"]
    /\ payload' \in SUBSET Dests
    /\ urls' \in SUBSET Dests
    /\ hooks' \in SUBSET {"pre", "post"}
    /\ UNCHANGED <<next, backupFailed, result, ctxDone, ran, repo, snapRows,
                   report>>

-----------------------------------------------------------------------------
(* The agent: executeBackup.                                               *)

(* ReportStatus: the status is recorded or lost; a context that is done    *)
(* fails the call.                                                         *)
ReportStatus(row) == UNCHANGED jobRow \/ (~ctxDone /\ jobRow' = row)

(* fail: the job has failed, and executeBackup returns. *)
Fail == phase' = "ended" /\ ReportStatus("failed")

(* The payload does not parse. *)
RejectPayload ==
    /\ phase = "sent"
    /\ Fail
    /\ UNCHANGED <<next, backupFailed, result, ctxDone, ran, repo, inputVars,
                   destRow, snapRows, report>>

Start ==
    /\ phase = "sent"
    /\ phase' = "resolving"
    /\ ReportStatus("running")
    /\ UNCHANGED <<next, backupFailed, result, ctxDone, ran, repo, inputVars,
                   destRow, snapRows, report>>

(* A source cannot be resolved, or none of them is accessible. *)
ResolveFails ==
    /\ phase = "resolving"
    /\ Fail
    /\ UNCHANGED <<next, backupFailed, result, ctxDone, ran, repo, inputVars,
                   destRow, snapRows, report>>

ResolveSources ==
    /\ phase = "resolving"
    /\ phase' = "prehook"
    /\ UNCHANGED <<next, backupFailed, result, ctxDone, ran, repo, inputVars,
                   rowVars>>

(* The pre-backup hook succeeds, or there is none. *)
PreHook ==
    /\ phase = "prehook"
    /\ phase' = "loop"
    /\ ran' = ran \cup (hooks \cap {"pre"})
    /\ UNCHANGED <<next, backupFailed, result, ctxDone, repo, inputVars, rowVars>>

(* Mutant: the failure of the pre-backup hook is ignored. *)
PreHookFailsIgnored ==
    /\ phase = "prehook"
    /\ "pre" \in hooks
    /\ phase' = "loop"
    /\ ran' \in {ran, ran \cup {"pre"}}
    /\ UNCHANGED <<next, backupFailed, result, ctxDone, repo, inputVars, rowVars>>

(* It cannot be resolved, exits with an error, times out or is killed. *)
PreHookFails ==
    /\ phase = "prehook"
    /\ "pre" \in hooks
    /\ Fail
    /\ ran' \in {ran, ran \cup {"pre"}}
    /\ UNCHANGED <<next, backupFailed, result, ctxDone, repo, inputVars,
                   destRow, snapRows, report>>

(* A destination that is not in the payload is no turn of the loop, and    *)
(* one without a URL is skipped.                                           *)
SkipDestination ==
    /\ phase = "loop"
    /\ ~ctxDone
    /\ next \in Dests \ (payload \cap urls)
    /\ next' = next + 1
    /\ UNCHANGED <<phase, backupFailed, result, ctxDone, ran, repo, inputVars,
                   rowVars>>

BeginDestination ==
    /\ phase = "loop"
    /\ ~ctxDone
    /\ next \in payload \cap urls
    /\ phase' = "restic"
    /\ UNCHANGED <<next, backupFailed, result, ctxDone, ran, repo, inputVars,
                   rowVars>>

(* Init and Backup of the restic wrapper succeed. *)
BackupSucceeds ==
    /\ phase = "restic"
    /\ phase' = "report"
    /\ result' = [result EXCEPT ![next] = "succeeded"]
    /\ repo' = repo \cup {next}
    /\ UNCHANGED <<next, backupFailed, ctxDone, ran, inputVars, rowVars>>

(* Mutant of BackupFails: the failure is only logged. *)
BackupFailsUnnoticed ==
    /\ phase = "restic"
    /\ phase' = "report"
    /\ result' = [result EXCEPT ![next] = "failed"]
    /\ repo' \in {repo, repo \cup {next}}
    /\ UNCHANGED <<next, backupFailed, ctxDone, ran, inputVars, rowVars>>

(* The local path is not writable, or restic exits with an error, which it *)
(* also does after it has written a snapshot that lacks some files.        *)
BackupFails ==
    /\ phase = "restic"
    /\ phase' = "report"
    /\ result' = [result EXCEPT ![next] = "failed"]
    /\ repo' \in {repo, repo \cup {next}}
    /\ backupFailed' = TRUE
    /\ UNCHANGED <<next, ctxDone, ran, inputVars, rowVars>>

(* Mutant of GoOn: a failed destination breaks the loop. *)
GoOnBreaks == IF result[next] = "succeeded"
              THEN phase' = "forget" /\ UNCHANGED next
              ELSE phase' = "posthook" /\ UNCHANGED next

(* After the report: retention if the backup succeeded, else the next      *)
(* destination.                                                            *)
GoOn == IF result[next] = "succeeded"
        THEN phase' = "forget" /\ UNCHANGED next
        ELSE phase' = "loop" /\ next' = next + 1

(* ReportDestinationResult reaches the server, and execute waits for it. *)
ReportDestinationResult ==
    /\ phase = "report"
    /\ ~ctxDone
    /\ phase' = "waiting"
    /\ report' = [report EXCEPT ![next] = "called"]
    /\ UNCHANGED <<next, backupFailed, result, ctxDone, ran, repo, inputVars,
                   jobRow, destRow, snapRows>>

(* There is no client or no connection: the result is lost. *)
LoseDestinationResult ==
    /\ phase = "report"
    /\ GoOn
    /\ UNCHANGED <<backupFailed, result, ctxDone, ran, repo, inputVars, rowVars>>

(* Mutant of DestinationReportReturns: only an answer ends the call. *)
DestinationReportReturnsOnAnswer ==
    /\ phase = "waiting"
    /\ report[next] = "closed"
    /\ GoOn
    /\ UNCHANGED <<backupFailed, result, ctxDone, ran, repo, inputVars, rowVars>>

(* The call returns, with an answer or because the connection broke. *)
DestinationReportReturns ==
    /\ phase = "waiting"
    /\ GoOn
    /\ UNCHANGED <<backupFailed, result, ctxDone, ran, repo, inputVars, rowVars>>

(* Forget: its failure is only logged, and it keeps the latest snapshot. *)
Forget ==
    /\ phase = "forget"
    /\ phase' = "loop"
    /\ next' = next + 1
    /\ UNCHANGED <<backupFailed, result, ctxDone, ran, repo, inputVars, rowVars>>

(* The loop ends after the last destination. *)
LoopEnds ==
    /\ phase = "loop"
    /\ ~ctxDone
    /\ next > N
    /\ phase' = "posthook"
    /\ UNCHANGED <<next, backupFailed, result, ctxDone, ran, repo, inputVars,
                   rowVars>>

(* Shutdown ends it early; the report "cancelled" fails on the done        *)
(* context, and executeBackup returns.                                     *)
Cancelled ==
    /\ phase = "loop"
    /\ ctxDone
    /\ phase' = "ended"
    /\ UNCHANGED <<next, backupFailed, result, ctxDone, ran, repo, inputVars,
                   rowVars>>

(* The post-backup hook, whose failure is ignored.  It does not run when   *)
(* it cannot be parsed.                                                    *)
PostHook ==
    /\ phase = "posthook"
    /\ phase' = "final"
    /\ ran' \in {ran, ran \cup (hooks \cap {"post"})}
    /\ UNCHANGED <<next, backupFailed, result, ctxDone, repo, inputVars, rowVars>>

(* The final status. *)
Finish ==
    /\ phase = "final"
    /\ \/ backupFailed /\ Fail
       \/ ~backupFailed /\ phase' = "ended" /\ ReportStatus("succeeded")
    /\ UNCHANGED <<next, backupFailed, result, ctxDone, ran, repo, inputVars,
                   destRow, snapRows, report>>

(* The process gets a signal. *)
Shutdown ==
    /\ phase \notin {"none", "ended"}
    /\ ~ctxDone
    /\ ctxDone' = TRUE
    /\ UNCHANGED <<phase, next, backupFailed, result, ran, repo, inputVars,
                   rowVars>>

(* The process dies where it is. *)
Crash ==
    /\ phase \notin {"none", "ended"}
    /\ phase' = "ended"
    /\ UNCHANGED <<next, backupFailed, result, ctxDone, ran, repo, inputVars,
                   rowVars>>

-----------------------------------------------------------------------------
(* The server: ReportDestinationStatus and orphan recovery.                *)

(* Mutant of UpdateDestinationStatus: every report goes on to a snapshot. *)
UpdateDestinationStatusOfAny(d) ==
    /\ report[d] = "called"
    /\ destRow[d] # "none"
    /\ destRow' = [destRow EXCEPT ![d] = result[d]]
    /\ report' = [report EXCEPT ![d] = "updated"]
    /\ UNCHANGED <<agentVars, inputVars, jobRow, snapRows>>

(* Mutant of UpdateDestinationStatus: a report without the id of a snapshot *)
(* is recorded as failed.                                                  *)
UpdateDestinationStatusNeedsId(d) ==
    /\ report[d] = "called"
    /\ destRow[d] # "none"
    /\ \/ /\ destRow' = [destRow EXCEPT ![d] = result[d]]
          /\ report' = [report EXCEPT ![d] = IF result[d] = "succeeded"
                                             THEN "updated" ELSE "closed"]
       \/ /\ destRow' = [destRow EXCEPT ![d] = "failed"]
          /\ report' = [report EXCEPT ![d] = "closed"]
    /\ UNCHANGED <<agentVars, inputVars, jobRow, snapRows>>

(* It looks for the row and updates it.  Without a row it answers NotFound *)
(* and with a database error Internal; a succeeded destination goes on to  *)
(* its snapshot.                                                           *)
UpdateDestinationStatus(d) ==
    /\ report[d] = "called"
    /\ \/ /\ destRow[d] # "none"
          /\ destRow' = [destRow EXCEPT ![d] = result[d]]
          /\ report' = [report EXCEPT ![d] = IF result[d] = "succeeded"
                                             THEN "updated" ELSE "closed"]
       \/ /\ report' = [report EXCEPT ![d] = "closed"]
          /\ UNCHANGED destRow
    /\ UNCHANGED <<agentVars, inputVars, jobRow, snapRows>>

(* Mutant of CreateSnapshot: the handler inserts the row again. *)
CreateSnapshotAgain(d) ==
    /\ report[d] = "updated"
    /\ snapRows' = [snapRows EXCEPT ![d] = @ + 1]
    /\ UNCHANGED <<agentVars, inputVars, jobRow, destRow, report>>

(* The snapshot row is created; without an id, or when the job cannot be   *)
(* read or the insert fails, there is none.                                *)
CreateSnapshot(d) ==
    /\ report[d] = "updated"
    /\ report' = [report EXCEPT ![d] = "closed"]
    /\ snapRows' \in {snapRows, [snapRows EXCEPT ![d] = @ + 1]}
    /\ UNCHANGED <<agentVars, inputVars, jobRow, destRow>>

(* The stream of the agent closes: FailRunningJobsForAgent. *)
OrphanRecovery ==
    /\ jobRow = "running"
    /\ jobRow' = "failed"
    /\ UNCHANGED <<agentVars, inputVars, destRow, snapRows, report>>

(* The server restarts: its handlers are gone. *)
ServerRestart ==
    /\ \E d \in Dests : report[d] \in {"called", "updated"}
    /\ report' = [d \in Dests |-> IF report[d] = "none" THEN "none" ELSE "closed"]
    /\ UNCHANGED <<agentVars, inputVars, jobRow, destRow, snapRows>>

-----------------------------------------------------------------------------
ExecuteBackup ==
    \/ RejectPayload
    \/ Start
    \/ ResolveFails
    \/ ResolveSources
    \/ PreHook
    \/ PreHookFails
    \/ SkipDestination
    \/ BeginDestination
    \/ BackupSucceeds
    \/ BackupFails
    \/ ReportDestinationResult
    \/ LoseDestinationResult
    \/ DestinationReportReturns
    \/ Forget
    \/ LoopEnds
    \/ Cancelled
    \/ PostHook
    \/ Finish

ServerStep ==
    \/ \E d \in Dests : UpdateDestinationStatus(d) \/ CreateSnapshot(d)
    \/ OrphanRecovery
    \/ ServerRestart

Next ==
    \/ CreateAndDispatch
    \/ ExecuteBackup
    \/ Shutdown
    \/ Crash
    \/ ServerStep

Spec == Init /\ [][Next]_vars

(* The worker goroutine is scheduled, and restic and the hooks terminate:  *)
(* hooks have a timeout and the process of restic ends.                    *)
FairSpec == Spec /\ WF_vars(ExecuteBackup)

-----------------------------------------------------------------------------
(* Properties.                                                             *)

(* Every variable keeps its type; a destination is reported once, so it    *)
(* gets at most one snapshot row.                                          *)
TypeOK ==
    /\ phase \in Phases
    /\ next \in 1 .. N + 1
    /\ backupFailed \in BOOLEAN
    /\ result \in [Dests -> {"none", "succeeded", "failed"}]
    /\ ctxDone \in BOOLEAN
    /\ ran \in SUBSET {"pre", "post"}
    /\ repo \in SUBSET Dests
    /\ payload \in SUBSET Dests
    /\ urls \in SUBSET Dests
    /\ hooks \in SUBSET {"pre", "post"}
    /\ jobRow \in {"none", "pending", "running", "succeeded", "failed"}
    /\ destRow \in [Dests -> {"none", "pending", "succeeded", "failed"}]
    /\ snapRows \in [Dests -> 0 .. 1]
    /\ report \in [Dests -> {"none", "called", "updated", "closed"}]

(* A job that the jobs table calls succeeded has left a snapshot in every  *)
(* destination it was sent with, whatever happened to the reports.         *)
SuccessMeansStored ==
    jobRow = "succeeded" => payload \cap urls \subseteq repo

(* The two channels of reports never contradict each other: a job that     *)
(* succeeded has no failed destination.                                    *)
NoFailedDestinationOfSuccess ==
    jobRow = "succeeded" => \A d \in Dests : destRow[d] # "failed"

(* A snapshot offered for restore exists in the repository and belongs to  *)
(* a destination that is recorded as succeeded, also when the handler      *)
(* stopped half way or outlived its caller.                                *)
SnapshotRowsAreReal ==
    \A d \in Dests : snapRows[d] > 0 => destRow[d] = "succeeded" /\ d \in repo

(* The failure of one destination does not keep the others from being      *)
(* tried: a run that gets to its final status has tried them all.          *)
EveryDestinationTried ==
    phase \in {"posthook", "final"} =>
        \A d \in payload \cap urls : result[d] # "none"

(* Hooks enclose the backup: the post-backup hook, which may start again   *)
(* what the other one has stopped, runs only after a pre-backup hook that  *)
(* was asked for and after every destination was tried, whatever fails.    *)
HooksEncloseBackup ==
    "post" \in ran => /\ "pre" \in hooks => "pre" \in ran
                      /\ \A d \in payload \cap urls : result[d] # "none"

(* A run ends, whichever of its steps fail. *)
RunEnds == phase = "sent" ~> phase = "ended"
=============================================================================
