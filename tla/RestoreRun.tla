------------------------------ MODULE RestoreRun ------------------------------
(***************************************************************************)
(* The restore of a snapshot, from the request to the report of the agent. *)
(* SnapshotHandler.Restore reads the snapshot, its destination and its     *)
(* policy one after the other, inserts a job and dispatches it;            *)
(* executeRestore works out what an in-place restore must leave alone,     *)
(* runs restic and judges its exit by what it wrote to stderr.  Meanwhile  *)
(* the rows it was built from are edited and deleted, backups of the same  *)
(* policy prune the repository, and containers start and stop.             *)
(*                                                                         *)
(* One policy backs up to one destination.  BackupRun has the backup,      *)
(* JobDispatch the transport: here a backup is one step, and an assignment *)
(* is queued or refused.                                                   *)
(***************************************************************************)
EXTENDS Integers, Sequences

CONSTANTS
    Snapshots,      \* snapshots of the policy
    Volumes,        \* Docker volumes that every snapshot contains
    Requests,       \* restore requests, each made at most once
    MaxFaults,      \* bound on lost calls, crashes and aborts of restic
    MaxEvents,      \* bound on edits, backups, prunes and container starts
    None            \* no request, no snapshot

ASSUME RestoreBoundsAssumption == MaxFaults \in Nat /\ MaxEvents \in Nat
ASSUME RestoreNoneAssumption == None \notin Requests \cup Snapshots

VARIABLES
    catalog,        \* snapshots with a row in the database
    repo,           \* snapshots that the repository holds
    taken,          \* snapshots made so far
    destRow,        \* the destination: its repository, "broken" or "none"
    destEdit,       \* DestinationHandler.Update: the row it is about to save
    policyLive,     \* is the policy not soft-deleted?
    password,       \* does the policy have the password of the repository?
    postgres,       \* PostgreSQL enforces foreign keys, SQLite does not
    request,        \* [Requests -> handler of the request]
    jobRow          \* [Requests -> status of its job]

VARIABLES
    queue,          \* agent: assignments received
    current,        \* agent: the restore that runs
    phase,          \* agent: where executeRestore is
    excluded,       \* agent: volumes that restic is told to leave out
    written,        \* restic: items of the snapshot that it has written
    tried,          \* restic: items that it has dealt with
    complaints,     \* restic: kinds of lines on stderr
    exitOK,         \* restic: exit code 0
    ctxDone,        \* agent: the process is shutting down
    hostRoot,       \* agent: in a container, with the host mounted?
    running,        \* volumes in use by a running container
    late,           \* volumes whose container was started after the listing
    blind,          \* volumes that the listing could not see
    outcome,        \* [Requests -> how the run ended]
    faults,         \* faults so far
    events          \* events so far

catalogVars == <<catalog, repo, taken>>
rowVars == <<destRow, destEdit, policyLive, password>>
resticVars == <<written, tried, complaints, exitOK>>
dockerVars == <<running, late, blind>>
agentVars == <<queue, current, phase, excluded, resticVars, ctxDone>>
vars == <<catalogVars, rowVars, postgres, request, jobRow, agentVars, hostRoot,
          dockerVars, outcome, faults, events>>

Items == Volumes \cup {"files"}

NoURL == ""

Request == [at : {"idle", "destination", "policy", "create", "dispatch", "done", "refused"},
            snap : Snapshots \cup {None}, url : {"here", "moved", NoURL},
            key : BOOLEAN, inPlace : BOOLEAN]

NoRequest == [at |-> "idle", snap |-> None, url |-> NoURL, key |-> FALSE, inPlace |-> FALSE]

NoEdit == "none"

-----------------------------------------------------------------------------
Init ==
    /\ \E s \in Snapshots : catalog = {s}
    /\ repo = catalog
    /\ taken = catalog
    /\ destRow = "here"
    /\ destEdit = NoEdit
    /\ policyLive = TRUE
    /\ password = TRUE
    /\ postgres \in BOOLEAN
    /\ request = [r \in Requests |-> NoRequest]
    /\ jobRow = [r \in Requests |-> "none"]
    /\ queue = <<>>
    /\ current = None
    /\ phase = "idle"
    /\ excluded = {}
    /\ written = {}
    /\ tried = {}
    /\ complaints = {}
    /\ exitOK = FALSE
    /\ ctxDone = FALSE
    /\ hostRoot \in BOOLEAN
    /\ running \in SUBSET Volumes
    /\ late = {}
    /\ blind = {}
    /\ outcome = [r \in Requests |-> "none"]
    /\ faults = 0
    /\ events = 0

Fault == faults < MaxFaults /\ faults' = faults + 1
Event == events < MaxEvents /\ events' = events + 1

-----------------------------------------------------------------------------
(* SnapshotHandler.Restore.                                                *)

Refuse(r) == request' = [request EXCEPT ![r].at = "refused"]

LoadSnapshot(r) ==
    /\ request[r].at = "idle"
    /\ \E s \in catalog, inPlace \in BOOLEAN :
        request' = [request EXCEPT ![r].at = "destination", ![r].snap = s, ![r].inPlace = inPlace]
    /\ UNCHANGED <<catalogVars, rowVars, postgres, jobRow, agentVars, hostRoot,
                   dockerVars, outcome, faults, events>>

(* Where the configuration leads to; nowhere when it does not parse or     *)
(* lacks what its type needs.                                              *)
BuildRepoURL(row) == IF row = "broken" THEN NoURL ELSE row

LoadDestination(r) ==
    /\ request[r].at = "destination"
    /\ IF destRow = "none" THEN Refuse(r)
       ELSE request' = [request EXCEPT ![r].at = "policy", ![r].url = BuildRepoURL(destRow)]
    /\ UNCHANGED <<catalogVars, rowVars, postgres, jobRow, agentVars, hostRoot,
                   dockerVars, outcome, faults, events>>

LoadPolicy(r) ==
    /\ request[r].at = "policy"
    /\ IF ~policyLive THEN Refuse(r)
       ELSE request' = [request EXCEPT ![r].at = "create", ![r].key = password]
    /\ UNCHANGED <<catalogVars, rowVars, postgres, jobRow, agentVars, hostRoot,
                   dockerVars, outcome, faults, events>>

CreateJob(r) ==
    /\ request[r].at = "create"
    /\ \/ /\ request' = [request EXCEPT ![r].at = "dispatch"]
          /\ jobRow' = [jobRow EXCEPT ![r] = "pending"]
          /\ faults' = faults
       \/ Refuse(r) /\ Fault /\ jobRow' = jobRow
    /\ UNCHANGED <<catalogVars, rowVars, postgres, agentVars, hostRoot,
                   dockerVars, outcome, events>>

Dispatch(r) ==
    /\ request[r].at = "dispatch"
    /\ queue' = Append(queue, r)
    /\ request' = [request EXCEPT ![r].at = "done"]
    /\ UNCHANGED <<catalogVars, rowVars, postgres, jobRow, current, phase,
                   excluded, resticVars, ctxDone, hostRoot, dockerVars,
                   outcome, faults, events>>

(* Mutant of DispatchFails: the assignment went out before the error. *)
DispatchFailsAfterSend(r) ==
    /\ request[r].at = "dispatch"
    /\ queue' = Append(queue, r)
    /\ Refuse(r)
    /\ Fault
    /\ UNCHANGED <<catalogVars, rowVars, postgres, jobRow, current, phase,
                   excluded, resticVars, ctxDone, hostRoot, dockerVars,
                   outcome, events>>

(* The agent is not connected: 503, and the job stays pending for good. *)
DispatchFails(r) ==
    /\ request[r].at = "dispatch"
    /\ Refuse(r)
    /\ Fault
    /\ UNCHANGED <<catalogVars, rowVars, postgres, jobRow, agentVars, hostRoot,
                   dockerVars, outcome, events>>

-----------------------------------------------------------------------------
(* The rows that restores are built from.                                  *)

rest == <<postgres, request, jobRow, agentVars, hostRoot, dockerVars, outcome, faults>>

DeleteSnapshot(s) ==
    /\ Event
    /\ s \in catalog
    /\ catalog' = catalog \ {s}
    /\ UNCHANGED <<repo, taken, rowVars, rest>>

(* The policy, its jobs and its snapshots refer to the destination, and a  *)
(* soft-deleted policy keeps its policy_destinations: where foreign keys   *)
(* are enforced the deletion is refused with 409.                          *)
DeleteDestination ==
    /\ Event
    /\ destRow # "none"
    /\ ~postgres
    /\ destRow' = "none"
    /\ UNCHANGED <<catalogVars, destEdit, policyLive, password, rest>>

UpdateDestination ==
    /\ Event
    /\ destRow # "none"
    /\ destEdit = NoEdit
    /\ destEdit' \in {"here", "moved", "broken"}
    /\ UNCHANGED <<catalogVars, destRow, policyLive, password, rest>>

(* Save inserts the row again if it has been deleted meanwhile. *)
SaveDestination ==
    /\ destEdit # NoEdit
    /\ destRow' = destEdit
    /\ destEdit' = NoEdit
    /\ UNCHANGED <<catalogVars, policyLive, password, rest, events>>

DeletePolicy ==
    /\ Event
    /\ policyLive
    /\ policyLive' = FALSE
    /\ UNCHANGED <<catalogVars, destRow, destEdit, password, rest>>

(* PolicyHandler.Update gives the policy another password, not the repository. *)
ChangePassword ==
    /\ Event
    /\ policyLive
    /\ password' = ~password
    /\ UNCHANGED <<catalogVars, destRow, destEdit, policyLive, rest>>

-----------------------------------------------------------------------------
(* Backups of the policy, by the same agent or by another one.             *)

(* A backup adds a snapshot, whose row may get lost; see BackupRun.  It     *)
(* works with the payload it was dispatched with, whatever the rows are now.*)
Backup ==
    /\ Event
    /\ \E s \in Snapshots \ taken :
        /\ taken' = taken \cup {s}
        /\ repo' = repo \cup {s}
        /\ catalog' \in {catalog, catalog \cup {s}}
    /\ UNCHANGED <<rowVars, rest>>

(* restic forget --prune removes a snapshot, never while restic has the    *)
(* repository open to restore.  Its row stays.                             *)
Forget ==
    /\ Event
    /\ phase # "restic"
    /\ \E s \in repo : repo' = repo \ {s}
    /\ UNCHANGED <<catalog, taken, rowVars, rest>>

-----------------------------------------------------------------------------
(* Containers of the host.                                                 *)

StartContainer(v) ==
    /\ v \notin running
    /\ Event
    /\ running' = running \cup {v}
    /\ late' = IF phase = "restic" THEN late \cup {v} ELSE late
    /\ UNCHANGED <<catalogVars, rowVars, postgres, request, jobRow, agentVars,
                   hostRoot, blind, outcome, faults>>

StopContainer(v) ==
    /\ v \in running
    /\ running' = running \ {v}
    /\ UNCHANGED <<catalogVars, rowVars, postgres, request, jobRow, agentVars,
                   hostRoot, late, blind, outcome, faults, events>>
-----------------------------------------------------------------------------
(* The agent: executeRestore.                                              *)

server == <<catalogVars, rowVars, postgres, request>>

(* ReportStatus: recorded or lost; a context that is done fails the call,  *)
(* and the table does not allow "cancelled".                               *)
ReportStatus(status) ==
    \/ UNCHANGED jobRow
    \/ ~ctxDone /\ status # "cancelled" /\ jobRow' = [jobRow EXCEPT ![current] = status]

(* What a run keeps to itself. *)
Fresh ==
    /\ excluded' = {}
    /\ written' = {} /\ tried' = {} /\ complaints' = {} /\ exitOK' = FALSE
    /\ late' = {} /\ blind' = {}

(* executeRestore returns, having reported the result. *)
Return(result, status) ==
    /\ phase' = "idle"
    /\ current' = None
    /\ Fresh
    /\ outcome' = [outcome EXCEPT ![current] = result]
    /\ ReportStatus(status)

Take ==
    /\ phase = "idle"
    /\ ~ctxDone
    /\ queue # <<>>
    /\ current' = Head(queue)
    /\ queue' = Tail(queue)
    /\ phase' = "check"
    /\ UNCHANGED <<server, jobRow, excluded, resticVars, ctxDone, hostRoot,
                   dockerVars, outcome, faults, events>>

(* The payload names no repository. *)
RejectPayload ==
    /\ phase = "check"
    /\ request[current].url = NoURL
    /\ Return("failed", "failed")
    /\ UNCHANGED <<server, queue, ctxDone, hostRoot, running, faults, events>>

(* The restore is reported as running; only one in place has volumes to    *)
(* leave alone.                                                            *)
Start ==
    /\ phase = "check"
    /\ request[current].url # NoURL
    /\ ReportStatus("running")
    /\ phase' = IF request[current].inPlace THEN "excludes" ELSE "restic"
    /\ UNCHANGED <<server, queue, current, excluded, resticVars, ctxDone,
                   hostRoot, dockerVars, outcome, faults, events>>

(* Mutant of ListedVolumes: the filter on the status is inverted. *)
ListedVolumesStopped(unseen) == (Volumes \ running) \ unseen

(* ListRunningContainerVolumes leaves out volumes whose path is not in the *)
(* answer and cannot be inspected.                                         *)
ListedVolumes(unseen) == running \ unseen

(* buildInPlaceExcludes: the volumes are read-only and left out as a whole,*)
(* or those in use are, as far as Docker is there and tells.               *)
BuildInPlaceExcludes ==
    /\ phase = "excludes"
    /\ \/ excluded' = Volumes /\ blind' = {}
       \/ \E unseen \in SUBSET Volumes :
            /\ excluded' = ListedVolumes(unseen)
            /\ blind' = unseen
       \/ excluded' = {} /\ blind' = Volumes
    /\ phase' = "restic"
    /\ UNCHANGED <<server, jobRow, queue, current, resticVars, ctxDone,
                   hostRoot, running, late, outcome, faults, events>>

-----------------------------------------------------------------------------
(* restic, which is not part of this repository.                           *)

Opens == request[current].url = "here" /\ request[current].key /\ request[current].snap \in repo

(* Wrong repository, wrong password or no such snapshot. *)
OpenFails ==
    /\ phase = "restic"
    /\ ~Opens
    /\ complaints' = {"fatal"}
    /\ phase' = "exited"
    /\ UNCHANGED <<server, jobRow, queue, current, excluded, written, tried,
                   exitOK, ctxDone, hostRoot, dockerVars, outcome, faults,
                   events>>

(* An item is written, possibly without its owner or attributes, or it is  *)
(* not; every problem is a line on stderr.                                 *)
RestoreItem(i) ==
    /\ phase = "restic" /\ Opens
    /\ i \in Items \ (excluded \cup tried)
    /\ tried' = tried \cup {i}
    /\ \E line \in {"none", "lchown", "denied", "other"}, done \in {{}, {i}} :
        /\ line \in {"none", "lchown"} => done = {i}
        /\ line = "other" => done = {}
        /\ complaints' = complaints \cup ({line} \ {"none"})
        /\ written' = written \cup done
    /\ UNCHANGED <<server, jobRow, queue, current, phase, excluded, exitOK,
                   ctxDone, hostRoot, dockerVars, outcome, faults, events>>

(* Everything has been dealt with. *)
ResticExits ==
    /\ phase = "restic" /\ Opens
    /\ tried = Items \ excluded
    /\ exitOK' = (complaints = {})
    /\ phase' = "exited"
    /\ UNCHANGED <<server, jobRow, queue, current, excluded, written, tried,
                   complaints, ctxDone, hostRoot, dockerVars, outcome, faults,
                   events>>

(* restic gives up (a fatal message), or is killed by the system or by     *)
(* CommandContext when the agent shuts down (no message).                  *)
ResticAborts ==
    /\ phase = "restic"
    /\ IF ctxDone THEN faults' = faults ELSE Fault
    /\ complaints' \in {complaints, complaints \cup {"fatal"}}
    /\ phase' = "exited"
    /\ UNCHANGED <<server, jobRow, queue, current, excluded, written, tried,
                   exitOK, ctxDone, hostRoot, dockerVars, outcome, events>>

-----------------------------------------------------------------------------
(* isOnlyHostRootLchownErrors: some line is about lchown under the host    *)
(* root and no other one is an error; exit messages are skipped.           *)
OnlyLchownErrors == "lchown" \in complaints /\ complaints \cap {"denied", "other"} = {}

(* Mutant of RestoreReturnsNil: lchown failures are tolerated everywhere. *)
RestoreReturnsNilAnywhere == exitOK \/ OnlyLchownErrors

(* Wrapper.Restore returns no error. *)
RestoreReturnsNil == exitOK \/ (hostRoot /\ OnlyLchownErrors)

(* Mutant of Conclude: a failed restore is tried again. *)
ConcludeTriesAgain ==
    /\ phase = "exited"
    /\ IF RestoreReturnsNil THEN Return("complete", "succeeded")
       ELSE /\ phase' = "restic"
            /\ written' = {} /\ tried' = {} /\ complaints' = {}
            /\ UNCHANGED <<jobRow, current, excluded, exitOK, late, blind,
                           outcome>>
    /\ UNCHANGED <<server, queue, ctxDone, hostRoot, running, faults, events>>

(* What executeRestore makes of it.  Text about denied access anywhere in  *)
(* the error turns a failure into a warning.                               *)
Conclude ==
    /\ phase = "exited"
    /\ \/ /\ RestoreReturnsNil
          /\ Return(IF tried = Items \ excluded /\ tried = written THEN "complete" ELSE "partial",
                    "succeeded")
       \/ /\ ~RestoreReturnsNil /\ ctxDone
          /\ Return("failed", "cancelled")
       \/ /\ ~RestoreReturnsNil /\ ~ctxDone /\ "denied" \in complaints
          /\ Return("warned", "succeeded")
       \/ /\ ~RestoreReturnsNil /\ ~ctxDone /\ "denied" \notin complaints
          /\ Return("failed", "failed")
    /\ UNCHANGED <<server, queue, ctxDone, hostRoot, running, faults, events>>

(* The process gets a signal. *)
Shutdown ==
    /\ ~ctxDone
    /\ Fault
    /\ ctxDone' = TRUE
    /\ UNCHANGED <<server, jobRow, queue, current, phase, excluded, resticVars,
                   hostRoot, dockerVars, outcome, events>>

(* The process is gone, after a signal or without one, and starts again.   *)
(* Its stream closes: FailRunningJobsForAgent.                             *)
AgentRestarts ==
    /\ IF ctxDone THEN phase = "idle" /\ faults' = faults ELSE Fault
    /\ ctxDone' = FALSE
    /\ queue' = <<>>
    /\ phase' = "idle"
    /\ current' = None
    /\ jobRow' = [r \in Requests |-> IF jobRow[r] = "running" THEN "failed" ELSE jobRow[r]]
    /\ Fresh
    /\ UNCHANGED <<server, hostRoot, running, outcome, events>>

-----------------------------------------------------------------------------
ExecuteRestore ==
    \/ Take \/ RejectPayload \/ Start \/ BuildInPlaceExcludes
    \/ OpenFails \/ (\E i \in Items : RestoreItem(i)) \/ ResticExits
    \/ (ctxDone /\ ResticAborts)
    \/ Conclude

Next ==
    \/ \E r \in Requests :
        LoadSnapshot(r) \/ LoadDestination(r) \/ LoadPolicy(r) \/ CreateJob(r)
        \/ Dispatch(r) \/ DispatchFails(r)
    \/ \E s \in Snapshots : DeleteSnapshot(s)
    \/ DeleteDestination \/ UpdateDestination \/ SaveDestination
    \/ DeletePolicy \/ ChangePassword
    \/ Backup \/ Forget
    \/ \E v \in Volumes : StartContainer(v) \/ StopContainer(v)
    \/ ExecuteRestore
    \/ ResticAborts
    \/ Shutdown \/ AgentRestarts

Spec == Init /\ [][Next]_vars

(* The executor's goroutine and the processes it starts run. *)
FairSpec == Spec /\ WF_vars(ExecuteRestore)

-----------------------------------------------------------------------------
(* Every variable keeps its type; restic deals only with items that it was *)
(* not told to leave out.                                                  *)
TypeOK ==
    /\ catalog \subseteq taken /\ repo \subseteq taken /\ taken \subseteq Snapshots
    /\ destRow \in {"here", "moved", "broken", "none"}
    /\ destEdit \in {"here", "moved", "broken", NoEdit}
    /\ policyLive \in BOOLEAN /\ password \in BOOLEAN /\ postgres \in BOOLEAN
    /\ request \in [Requests -> Request]
    /\ jobRow \in [Requests -> {"none", "pending", "running", "succeeded", "failed"}]
    /\ queue \in Seq(Requests)
    /\ current \in Requests \cup {None}
    /\ phase \in {"idle", "check", "excludes", "restic", "exited"}
    /\ excluded \subseteq Volumes
    /\ written \subseteq tried /\ tried \subseteq Items \ excluded
    /\ complaints \subseteq {"lchown", "denied", "other", "fatal"}
    /\ exitOK \in BOOLEAN /\ ctxDone \in BOOLEAN /\ hostRoot \in BOOLEAN
    /\ running \subseteq Volumes /\ late \subseteq Volumes /\ blind \subseteq Volumes
    /\ outcome \in [Requests -> {"none", "complete", "partial", "warned", "failed"}]
    /\ faults \in 0 .. MaxFaults /\ events \in 0 .. MaxEvents

(* A restore that is recorded as succeeded, without the warning about      *)
(* denied access, has written every item of the snapshot that it did not   *)
(* announce to leave out, on an agent that runs natively: restic that is   *)
(* killed, gives up, cannot open the repository or skips an item never     *)
(* counts as a success.                                                    *)
SuccessMeansRestored ==
    \A r \in Requests : jobRow[r] = "succeeded" /\ ~hostRoot => outcome[r] \in {"complete", "warned"}

(* An in-place restore never writes to a volume that a container uses,     *)
(* unless the container was started after the list of running ones was     *)
(* made or Docker did not tell about the volume.                           *)
RunningVolumeUntouched ==
    [][\A v \in Volumes : v \in written' \ written /\ request[current].inPlace
                          => v \notin running \/ v \in late \cup blind]_vars

(* A request that was answered with an error has no effect on the host:    *)
(* its job, if it has one, is never run, so that the user can try again.   *)
RefusedNeverRuns ==
    \A r \in Requests : request[r].at = "refused" =>
        outcome[r] = "none" /\ jobRow[r] \in {"none", "pending"} /\ current # r

(* Every restore that the agent takes up comes to an end, through killed   *)
(* processes, unreachable repositories and shutdown.                       *)
RestoreEnds == phase = "check" ~> phase = "idle"
=============================================================================
