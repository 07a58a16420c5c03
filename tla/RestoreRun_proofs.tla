-------------------------- MODULE RestoreRun_proofs --------------------------
(***************************************************************************)
(* Proofs about RestoreRun, for any snapshots, volumes and requests and    *)
(* any number of faults and events.                                        *)
(***************************************************************************)
EXTENDS RestoreRun, TLAPS

-----------------------------------------------------------------------------
(* The inductive invariant.                                                *)

Queued(r) == \E i \in DOMAIN queue : queue[i] = r

(* A request that was not dispatched is unknown to the agent. *)
Unseen(r) ==
    /\ outcome[r] = "none"
    /\ jobRow[r] \in {"none", "pending"}
    /\ current # r
    /\ ~Queued(r)

DispatchFirst == \A r \in Requests : request[r].at # "done" => Unseen(r)

(* A restore that is still to be run, or runs, has no result yet. *)
Undecided(r) == outcome[r] = "none" /\ jobRow[r] # "succeeded"

RunsOnce ==
    /\ \A i \in DOMAIN queue : queue[i] # current /\ Undecided(queue[i])
    /\ \A i, k \in DOMAIN queue : queue[i] = queue[k] => i = k
    /\ phase # "idle" => current \in Requests /\ Undecided(current)
    /\ phase = "idle" => current = None

(* restic has written what it dealt with as long as it has not complained, *)
(* and exit code 0 means that it has dealt with everything.                *)
ResticSound ==
    /\ phase \in {"idle", "check", "excludes"} =>
        written = {} /\ tried = {} /\ complaints = {}
    /\ complaints = {} => written = tried
    /\ exitOK => phase = "exited" /\ complaints = {} /\ tried = Items \ excluded

(* While an in-place restore runs, whatever is in use is excluded, was not *)
(* seen, or was started since.                                             *)
InUseAccounted ==
    phase = "restic" /\ request[current].inPlace => running \subseteq excluded \cup blind \cup late

RestoreInv ==
    /\ TypeOK
    /\ DispatchFirst
    /\ RunsOnce
    /\ ResticSound
    /\ InUseAccounted
    /\ SuccessMeansRestored

(* The invariant holds at the start. *)
LEMMA RestoreInit == Init => RestoreInv
<1> SUFFICES ASSUME Init PROVE RestoreInv
  OBVIOUS
<1> USE DEF Init
<1>1. TypeOK
  <2>1. catalog \subseteq taken /\ repo \subseteq taken /\ taken \subseteq Snapshots
    OBVIOUS
  <2>2. request \in [Requests -> Request]
    BY DEF NoRequest, Request, NoURL
  <2>3. /\ jobRow \in [Requests -> {"none", "pending", "running", "succeeded", "failed"}]
        /\ outcome \in [Requests -> {"none", "complete", "partial", "warned", "failed"}]
        /\ queue \in Seq(Requests)
    OBVIOUS
  <2>4. faults \in 0 .. MaxFaults /\ events \in 0 .. MaxEvents
    BY RestoreBoundsAssumption
  <2> QED BY <2>1, <2>2, <2>3, <2>4 DEF TypeOK, NoEdit
<1>2. DispatchFirst
  BY RestoreNoneAssumption DEF DispatchFirst, Unseen, Queued
<1>3. RunsOnce /\ ResticSound /\ InUseAccounted /\ SuccessMeansRestored
  BY DEF RunsOnce, ResticSound, InUseAccounted, SuccessMeansRestored
<1> QED BY <1>1, <1>2, <1>3 DEF RestoreInv

-----------------------------------------------------------------------------
(* The steps of the server.                                                *)

(* What a request does before it is dispatched, or instead of it. *)
BeforeDispatch(r) ==
    \/ LoadSnapshot(r) \/ LoadDestination(r) \/ LoadPolicy(r) \/ CreateJob(r)
    \/ DispatchFails(r)

(* It changes only its own request, which was not dispatched and is not    *)
(* now, and its row, which at most gets pending.                           *)
LEMMA BeforeDispatchFrame ==
  ASSUME TypeOK, NEW r \in Requests, BeforeDispatch(r)
  PROVE  /\ request' \in [Requests -> Request]
         /\ request[r].at # "done" /\ request'[r].at # "done"
         /\ \A q \in Requests : q # r => request'[q] = request[q]
         /\ jobRow' \in [Requests -> {"none", "pending", "running", "succeeded", "failed"}]
         /\ jobRow'[r] \in {jobRow[r], "pending"}
         /\ \A q \in Requests : q # r => jobRow'[q] = jobRow[q]
         /\ faults' \in 0 .. MaxFaults
         /\ UNCHANGED <<catalogVars, rowVars, postgres, agentVars, hostRoot,
                        dockerVars, outcome, events>>
<1>a. request \in [Requests -> Request] /\ r \in Requests
  BY DEF TypeOK
<1>b. ASSUME Refuse(r), request[r].at # "done"
      PROVE  /\ request' \in [Requests -> Request]
             /\ request'[r].at # "done"
             /\ \A q \in Requests : q # r => request'[q] = request[q]
  BY <1>a, <1>b DEF Refuse, Request
<1>c. Fault => faults' \in 0 .. MaxFaults
  BY RestoreBoundsAssumption DEF Fault, TypeOK
<1>1. CASE LoadSnapshot(r)
  <2>1. PICK s \in catalog, inPlace \in BOOLEAN :
          request' = [request EXCEPT ![r].at = "destination", ![r].snap = s, ![r].inPlace = inPlace]
    BY <1>1 DEF LoadSnapshot
  <2>2. s \in Snapshots
    BY DEF TypeOK
  <2>3. request' \in [Requests -> Request] /\ request'[r].at # "done"
    <3>1. request'[r] = [request[r] EXCEPT !.at = "destination", !.snap = s, !.inPlace = inPlace]
      BY <1>a, <2>1
    <3>2. request'[r] \in Request /\ request'[r].at # "done"
      BY <1>a, <3>1, <2>2 DEF Request
    <3> QED BY <1>a, <2>1, <3>2
  <2>4. \A q \in Requests : q # r => request'[q] = request[q]
    BY <1>a, <2>1
  <2> QED BY <1>1, <2>3, <2>4 DEF LoadSnapshot, TypeOK
<1>2. CASE LoadDestination(r)
  <2>1. CASE destRow = "none"
    BY <1>2, <2>1, <1>b DEF LoadDestination, TypeOK
  <2>2. CASE destRow # "none"
    <3>1. /\ request' = [request EXCEPT ![r].at = "policy", ![r].url = BuildRepoURL(destRow)]
          /\ BuildRepoURL(destRow) \in {"here", "moved", NoURL}
      BY <1>2, <2>2 DEF LoadDestination, BuildRepoURL, TypeOK
    <3> HIDE DEF BuildRepoURL
    <3>2. request' \in [Requests -> Request] /\ request'[r].at # "done"
      BY <1>a, <3>1 DEF Request
    <3>3. \A q \in Requests : q # r => request'[q] = request[q]
      BY <1>a, <3>1
    <3> QED BY <1>2, <3>2, <3>3 DEF LoadDestination, TypeOK
  <2> QED BY <2>1, <2>2
<1>3. CASE LoadPolicy(r)
  <2>1. CASE ~policyLive
    BY <1>3, <2>1, <1>b DEF LoadPolicy, TypeOK
  <2>2. CASE policyLive
    <3>1. request' = [request EXCEPT ![r].at = "create", ![r].key = password] /\ password \in BOOLEAN
      BY <1>3, <2>2 DEF LoadPolicy, TypeOK
    <3>2. request' \in [Requests -> Request] /\ request'[r].at # "done"
      BY <1>a, <3>1 DEF Request
    <3>3. \A q \in Requests : q # r => request'[q] = request[q]
      BY <1>a, <3>1
    <3> QED BY <1>3, <3>2, <3>3 DEF LoadPolicy, TypeOK
  <2> QED BY <2>1, <2>2
<1>4. CASE CreateJob(r)
  <2>1. CASE request' = [request EXCEPT ![r].at = "dispatch"]
    <3>1. request' \in [Requests -> Request] /\ request'[r].at # "done"
      BY <1>a, <2>1 DEF Request
    <3>2. \A q \in Requests : q # r => request'[q] = request[q]
      BY <1>a, <2>1
    <3> QED BY <1>4, <1>c, <3>1, <3>2 DEF CreateJob, TypeOK
  <2>2. CASE Refuse(r)
    BY <1>4, <2>2, <1>b, <1>c DEF CreateJob, TypeOK
  <2> QED BY <1>4, <2>1, <2>2 DEF CreateJob
<1>5. CASE DispatchFails(r)
  BY <1>5, <1>b, <1>c DEF DispatchFails, TypeOK
<1> QED BY <1>1, <1>2, <1>3, <1>4, <1>5 DEF BeforeDispatch

(* A request that is not dispatched keeps the invariant. *)
LEMMA BeforeDispatchInv ==
  ASSUME RestoreInv, NEW r \in Requests, BeforeDispatch(r)
  PROVE  RestoreInv'
<1> USE DEF RestoreInv
<1>1. /\ request' \in [Requests -> Request]
      /\ request[r].at # "done" /\ request'[r].at # "done"
      /\ \A q \in Requests : q # r => request'[q] = request[q]
      /\ jobRow' \in [Requests -> {"none", "pending", "running", "succeeded", "failed"}]
      /\ jobRow'[r] \in {jobRow[r], "pending"}
      /\ \A q \in Requests : q # r => jobRow'[q] = jobRow[q]
      /\ faults' \in 0 .. MaxFaults
  BY BeforeDispatchFrame
<1>2. UNCHANGED <<catalog, repo, taken, destRow, destEdit, policyLive, password, postgres,
                  queue, current, phase, excluded, written, tried, complaints, exitOK,
                  ctxDone, hostRoot, running, late, blind, outcome, events>>
  BY BeforeDispatchFrame DEF catalogVars, rowVars, agentVars, resticVars, dockerVars
<1>3. Unseen(r)
  BY <1>1 DEF DispatchFirst
<1>4. TypeOK'
  BY <1>1, <1>2 DEF TypeOK
<1>5. DispatchFirst'
  BY <1>1, <1>2, <1>3 DEF DispatchFirst, Unseen, Queued
<1>6. RunsOnce'
  BY <1>1, <1>2, <1>3 DEF RunsOnce, Undecided, Unseen, Queued, TypeOK
<1>7. ResticSound'
  BY <1>2 DEF ResticSound, Items
<1>8. InUseAccounted'
  BY <1>1, <1>2, <1>3 DEF InUseAccounted, RunsOnce, Unseen
<1>9. SuccessMeansRestored'
  BY <1>1, <1>2, <1>3 DEF SuccessMeansRestored, Unseen
<1> QED BY <1>4, <1>5, <1>6, <1>7, <1>8, <1>9

(* An assignment joins the queue: its request was not dispatched before. *)
LEMMA DispatchInv ==
  ASSUME RestoreInv, NEW r \in Requests, Dispatch(r)
  PROVE  RestoreInv'
<1> USE DEF RestoreInv
<1>1. /\ request[r].at = "dispatch"
      /\ queue' = Append(queue, r)
      /\ request' = [request EXCEPT ![r].at = "done"]
      /\ UNCHANGED <<catalog, repo, taken, destRow, destEdit, policyLive, password, postgres,
                  jobRow, current, phase, excluded, written, tried, complaints, exitOK,
                  ctxDone, hostRoot, running, late, blind, outcome, faults, events>>
  BY DEF Dispatch, catalogVars, rowVars, resticVars, dockerVars
<1>2. /\ request' \in [Requests -> Request]
      /\ request'[r].inPlace = request[r].inPlace
      /\ \A q \in Requests : q # r => request'[q] = request[q]
      /\ request'[r].at = "done"
  <2>1. request \in [Requests -> Request] /\ request'[r] = [request[r] EXCEPT !.at = "done"]
    BY <1>1 DEF TypeOK
  <2>2. /\ request'[r] \in Request
        /\ request'[r].inPlace = request[r].inPlace /\ request'[r].at = "done"
    BY <2>1 DEF Request
  <2> QED BY <1>1, <2>1, <2>2
<1>3. Unseen(r)
  BY <1>1 DEF DispatchFirst
<1>4. /\ Len(queue) \in Nat /\ DOMAIN queue = 1 .. Len(queue)
      /\ queue' \in Seq(Requests)
      /\ DOMAIN queue' = 1 .. Len(queue) + 1
      /\ queue'[Len(queue) + 1] = r
      /\ \A i \in 1 .. Len(queue) : queue'[i] = queue[i]
  BY <1>1 DEF TypeOK
<1>5. TypeOK'
  BY <1>1, <1>2, <1>4 DEF TypeOK
<1>6. DispatchFirst'
  BY <1>1, <1>2, <1>4 DEF DispatchFirst, Unseen, Queued
<1>7. RunsOnce'
  <2>1. \A i \in DOMAIN queue' : queue'[i] # current /\ Undecided(queue'[i])
    BY <1>3, <1>4 DEF RunsOnce, Unseen, Undecided
  <2>2. \A i, k \in DOMAIN queue' : queue'[i] = queue'[k] => i = k
    BY <1>3, <1>4 DEF RunsOnce, Unseen, Queued
  <2> QED BY <2>1, <2>2, <1>1 DEF RunsOnce, Undecided
<1>8. ResticSound' /\ SuccessMeansRestored'
  BY <1>1 DEF ResticSound, SuccessMeansRestored, Items
<1>9. InUseAccounted'
  BY <1>1, <1>2, <1>3 DEF InUseAccounted, RunsOnce, Unseen
<1> QED BY <1>5, <1>6, <1>7, <1>8, <1>9

(* What others do to the rows and the repository. *)
RowStep ==
    \/ \E s \in Snapshots : DeleteSnapshot(s)
    \/ DeleteDestination \/ UpdateDestination \/ SaveDestination
    \/ DeletePolicy \/ ChangePassword
    \/ Backup \/ Forget

(* It leaves request, agent and containers alone. *)
LEMMA RowStepInv ==
  ASSUME RestoreInv, RowStep
  PROVE  RestoreInv'
<1> USE DEF RestoreInv
<1>1. /\ catalog' \subseteq taken' /\ repo' \subseteq taken' /\ taken' \subseteq Snapshots
      /\ destRow' \in {"here", "moved", "broken", "none"}
      /\ destEdit' \in {"here", "moved", "broken", NoEdit}
      /\ policyLive' \in BOOLEAN /\ password' \in BOOLEAN
      /\ events' \in 0 .. MaxEvents
      /\ UNCHANGED rest
  <2> USE RestoreBoundsAssumption DEF TypeOK, Event, catalogVars, rowVars
  <2>1. CASE \E s \in Snapshots : DeleteSnapshot(s)
    BY <2>1 DEF DeleteSnapshot
  <2>2. CASE DeleteDestination
    BY <2>2 DEF DeleteDestination
  <2>3. CASE UpdateDestination
    BY <2>3 DEF UpdateDestination
  <2>4. CASE SaveDestination
    BY <2>4 DEF SaveDestination
  <2>5. CASE DeletePolicy
    <3>1. /\ events' \in 0 .. MaxEvents
          /\ UNCHANGED <<catalog, repo, taken, destRow, destEdit, password, rest>>
      BY <2>5 DEF DeletePolicy
    <3>2. policyLive' \in BOOLEAN
      BY <2>5, Zenon DEF DeletePolicy
    <3> QED BY <3>1, <3>2
  <2>6. CASE ChangePassword
    BY <2>6 DEF ChangePassword
  <2>7. CASE Backup
    BY <2>7 DEF Backup
  <2>8. CASE Forget
    BY <2>8 DEF Forget
  <2> QED BY <2>1, <2>2, <2>3, <2>4, <2>5, <2>6, <2>7, <2>8 DEF RowStep
<1>2. UNCHANGED <<postgres, request, jobRow, queue, current, phase, excluded, written, tried,
                  complaints, exitOK, ctxDone, hostRoot, running, late, blind, outcome, faults>>
  BY <1>1 DEF rest, agentVars, resticVars, dockerVars
<1>3. TypeOK'
  BY <1>1, <1>2 DEF TypeOK
<1>4. DispatchFirst'
  BY <1>2 DEF DispatchFirst, Unseen, Queued
<1>5. RunsOnce'
  BY <1>2 DEF RunsOnce, Undecided
<1>6. ResticSound' /\ InUseAccounted' /\ SuccessMeansRestored'
  BY <1>2 DEF ResticSound, InUseAccounted, SuccessMeansRestored, Items
<1> QED BY <1>3, <1>4, <1>5, <1>6

(* Containers start and stop: one that starts under restic is late. *)
LEMMA ContainerInv ==
  ASSUME RestoreInv, NEW v \in Volumes, StartContainer(v) \/ StopContainer(v)
  PROVE  RestoreInv'
<1> USE DEF RestoreInv
<1>1. UNCHANGED <<catalog, repo, taken, destRow, destEdit, policyLive, password, postgres,
                  request, jobRow, queue, current, phase, excluded, written, tried,
                  complaints, exitOK, ctxDone, hostRoot, blind, outcome, faults>>
  BY DEF StartContainer, StopContainer, catalogVars, rowVars, agentVars, resticVars
<1>2. /\ running' \subseteq Volumes /\ late' \subseteq Volumes
      /\ late \subseteq late'
      /\ phase = "restic" => running' \subseteq running \cup late'
      /\ events' \in 0 .. MaxEvents
  BY RestoreBoundsAssumption DEF StartContainer, StopContainer, Event, TypeOK
<1>3. TypeOK'
  BY <1>1, <1>2 DEF TypeOK
<1>4. DispatchFirst'
  BY <1>1 DEF DispatchFirst, Unseen, Queued
<1>5. RunsOnce'
  BY <1>1 DEF RunsOnce, Undecided
<1>6. ResticSound' /\ SuccessMeansRestored'
  BY <1>1 DEF ResticSound, SuccessMeansRestored, Items
<1>7. InUseAccounted'
  BY <1>1, <1>2 DEF InUseAccounted
<1> QED BY <1>3, <1>4, <1>5, <1>6, <1>7

-----------------------------------------------------------------------------
(* The steps of the agent.                                                 *)

Statuses == {"none", "pending", "running", "succeeded", "failed"}

(* ReportStatus writes the row of the current restore, or nothing. *)
LEMMA ReportFrame ==
  ASSUME TypeOK, current \in Requests, NEW status \in {"running", "succeeded", "failed", "cancelled"},
         ReportStatus(status)
  PROVE  /\ jobRow' \in [Requests -> Statuses]
         /\ jobRow'[current] \in {jobRow[current], status}
         /\ \A r \in Requests : r # current => jobRow'[r] = jobRow[r]
<1>1. CASE UNCHANGED jobRow
  BY <1>1 DEF TypeOK, Statuses
<1>2. CASE status # "cancelled" /\ jobRow' = [jobRow EXCEPT ![current] = status]
  BY <1>2 DEF TypeOK, Statuses
<1> QED BY <1>1, <1>2 DEF ReportStatus

(* A restore that the agent has taken up was dispatched. *)
LEMMA CurrentDispatched ==
  ASSUME RestoreInv, phase # "idle"
  PROVE  current \in Requests /\ Undecided(current) /\ request[current].at = "done"
BY DEF RestoreInv, RunsOnce, DispatchFirst, Unseen

(* The next assignment leaves the queue. *)
LEMMA TakeInv ==
  ASSUME RestoreInv, Take
  PROVE  RestoreInv'
<1> USE DEF RestoreInv
<1>1. /\ phase = "idle" /\ queue # <<>> /\ phase' = "check"
      /\ current' = Head(queue) /\ queue' = Tail(queue)
      /\ UNCHANGED <<catalog, repo, taken, destRow, destEdit, policyLive, password, postgres,
                     request, jobRow, excluded, written, tried, complaints, exitOK,
                     ctxDone, hostRoot, running, late, blind, outcome, faults, events>>
  BY DEF Take, server, catalogVars, rowVars, resticVars, dockerVars
<1>2. /\ Len(queue) \in Nat \ {0} /\ DOMAIN queue = 1 .. Len(queue)
      /\ current' = queue[1] /\ current' \in Requests
      /\ queue' \in Seq(Requests)
      /\ DOMAIN queue' = 1 .. Len(queue) - 1
      /\ \A i \in 1 .. Len(queue) - 1 : queue'[i] = queue[i + 1]
  BY <1>1 DEF TypeOK
<1>3. Queued(current') /\ \A r : (Queued(r))' => Queued(r)
  BY <1>2 DEF Queued
<1>4. TypeOK'
  BY <1>1, <1>2 DEF TypeOK
<1>5. DispatchFirst'
  BY <1>1, <1>3 DEF DispatchFirst, Unseen
<1>6. RunsOnce'
  <2>1. \A i \in DOMAIN queue' : queue'[i] # current' /\ Undecided(queue'[i])
    BY <1>2 DEF RunsOnce
  <2>2. \A i, k \in DOMAIN queue' : queue'[i] = queue'[k] => i = k
    BY <1>2 DEF RunsOnce
  <2>3. Undecided(current')
    BY <1>2 DEF RunsOnce
  <2> QED BY <1>1, <1>2, <2>1, <2>2, <2>3 DEF RunsOnce, Undecided
<1>7. ResticSound' /\ InUseAccounted' /\ SuccessMeansRestored'
  BY <1>1 DEF ResticSound, InUseAccounted, SuccessMeansRestored, Items
<1> QED BY <1>4, <1>5, <1>6, <1>7

(* A step of the current restore leaves the queue, the requests and their  *)
(* results alone.                                                          *)
LEMMA RunFrame ==
  ASSUME RestoreInv, phase # "idle", phase' # "idle",
         UNCHANGED <<request, queue, current, outcome>>,
         \A r \in Requests : r # current => jobRow'[r] = jobRow[r],
         jobRow'[current] \in {jobRow[current], "running"}
  PROVE  DispatchFirst' /\ RunsOnce' /\ (hostRoot' = hostRoot => SuccessMeansRestored')
<1> USE DEF RestoreInv
<1>1. current \in Requests /\ Undecided(current) /\ request[current].at = "done"
  BY CurrentDispatched
<1>2. DispatchFirst'
  BY <1>1 DEF DispatchFirst, Unseen, Queued
<1>3. RunsOnce'
  <2>1. \A i \in DOMAIN queue : queue[i] \in Requests
    BY DEF TypeOK
  <2> QED BY <1>1, <2>1 DEF RunsOnce, Undecided
<1>4. hostRoot' = hostRoot => SuccessMeansRestored'
  BY <1>1 DEF SuccessMeansRestored, Undecided
<1> QED BY <1>2, <1>3, <1>4

(* The restore begins. *)
LEMMA StartInv ==
  ASSUME RestoreInv, Start
  PROVE  RestoreInv'
<1>1. /\ phase = "check"
      /\ ReportStatus("running")
      /\ phase' \in {"excludes", "restic"}
      /\ phase' = "restic" => ~request[current].inPlace
      /\ UNCHANGED <<catalog, repo, taken, destRow, destEdit, policyLive, password, postgres,
                     request, queue, current, excluded, written, tried, complaints, exitOK,
                     ctxDone, hostRoot, running, late, blind, outcome, faults, events>>
  BY DEF Start, server, catalogVars, rowVars, resticVars, dockerVars
<1>2. current \in Requests
  BY <1>1, CurrentDispatched
<1>3. /\ jobRow' \in [Requests -> Statuses]
      /\ jobRow'[current] \in {jobRow[current], "running"}
      /\ \A r \in Requests : r # current => jobRow'[r] = jobRow[r]
  BY <1>1, <1>2, ReportFrame DEF RestoreInv
<1>4. TypeOK'
  BY <1>1, <1>3 DEF TypeOK, RestoreInv, Statuses
<1>5. DispatchFirst' /\ RunsOnce' /\ SuccessMeansRestored'
  BY <1>1, <1>3, RunFrame
<1>6. ResticSound'
  BY <1>1 DEF ResticSound, RestoreInv, Items
<1>7. InUseAccounted'
  BY <1>1 DEF InUseAccounted
<1> QED BY <1>4, <1>5, <1>6, <1>7 DEF RestoreInv

(* The exclusions cover what is in use and was seen. *)
LEMMA ExcludesInv ==
  ASSUME RestoreInv, BuildInPlaceExcludes
  PROVE  RestoreInv'
<1> USE DEF RestoreInv
<1>1. /\ phase = "excludes" /\ phase' = "restic"
      /\ UNCHANGED <<catalog, repo, taken, destRow, destEdit, policyLive, password, postgres,
                     request, jobRow, queue, current, written, tried, complaints, exitOK,
                     ctxDone, hostRoot, running, late, outcome, faults, events>>
  BY DEF BuildInPlaceExcludes, server, catalogVars, rowVars, resticVars
<1>2. /\ excluded' \subseteq Volumes /\ blind' \subseteq Volumes
      /\ running \subseteq excluded' \cup blind'
  BY DEF BuildInPlaceExcludes, ListedVolumes, TypeOK
<1>3. TypeOK'
  BY <1>1, <1>2 DEF TypeOK, ResticSound
<1>4. DispatchFirst' /\ RunsOnce' /\ SuccessMeansRestored'
  BY <1>1, RunFrame
<1>5. ResticSound'
  BY <1>1 DEF ResticSound
<1>6. InUseAccounted'
  BY <1>1, <1>2 DEF InUseAccounted
<1> QED BY <1>3, <1>4, <1>5, <1>6

(* restic at work: an item that is written without a complaint is written, *)
(* and exit code 0 comes after the last one.                               *)
LEMMA ResticInv ==
  ASSUME RestoreInv,
         OpenFails \/ (\E i \in Items : RestoreItem(i)) \/ ResticExits \/ ResticAborts
  PROVE  RestoreInv'
<1> USE DEF RestoreInv
<1>1. /\ phase = "restic" /\ phase' \in {"restic", "exited"}
      /\ UNCHANGED <<catalog, repo, taken, destRow, destEdit, policyLive, password, postgres,
                     request, jobRow, queue, current, excluded,
                     ctxDone, hostRoot, running, late, blind, outcome, events>>
  BY DEF OpenFails, RestoreItem, ResticExits, ResticAborts, server, catalogVars, rowVars,
         dockerVars
<1>2. ~exitOK
  BY <1>1 DEF ResticSound
<1>3. /\ written' \subseteq tried' /\ tried' \subseteq Items \ excluded
      /\ complaints' \subseteq {"lchown", "denied", "other", "fatal"}
      /\ faults' \in 0 .. MaxFaults
      /\ exitOK' \in BOOLEAN
      /\ complaints' = {} => written' = tried'
      /\ exitOK' => phase' = "exited" /\ complaints' = {} /\ tried' = Items \ excluded
  <2>1. CASE OpenFails
    BY <2>1, <1>2 DEF OpenFails, TypeOK
  <2>2. ASSUME NEW i \in Items, RestoreItem(i)
        PROVE  /\ written' \subseteq tried' /\ tried' \subseteq Items \ excluded
               /\ complaints' \subseteq {"lchown", "denied", "other", "fatal"}
               /\ complaints' = {} => written' = tried'
               /\ UNCHANGED <<exitOK, faults>>
    BY <2>2, <1>2 DEF RestoreItem, TypeOK, ResticSound
  <2>3. CASE ResticExits
    BY <2>3, <1>2 DEF ResticExits, TypeOK, ResticSound
  <2>4. CASE ResticAborts
    BY <2>4, <1>2, RestoreBoundsAssumption DEF ResticAborts, Fault, TypeOK, ResticSound
  <2>5. CASE \E i \in Items : RestoreItem(i)
    BY <2>2, <2>5, <1>2 DEF TypeOK
  <2> QED BY <2>1, <2>3, <2>4, <2>5
<1>4. TypeOK'
  BY <1>1, <1>3 DEF TypeOK, Items
<1>5. DispatchFirst' /\ RunsOnce' /\ SuccessMeansRestored'
  BY <1>1, RunFrame
<1>6. ResticSound'
  BY <1>1, <1>3 DEF ResticSound, Items
<1>7. InUseAccounted'
  BY <1>1 DEF InUseAccounted
<1> QED BY <1>4, <1>5, <1>6, <1>7

(* A run that returns leaves nothing behind but its result and perhaps its *)
(* status.  The result is complete or a warning when the status is a       *)
(* success on a native agent.                                              *)
LEMMA ReturnInv ==
  ASSUME RestoreInv, phase # "idle",
         NEW result \in {"complete", "partial", "warned", "failed"},
         NEW status \in {"succeeded", "failed", "cancelled"},
         status = "succeeded" /\ ~hostRoot => result \in {"complete", "warned"},
         Return(result, status),
         UNCHANGED <<server, queue, ctxDone, hostRoot, running, faults, events>>
  PROVE  RestoreInv'
<1> USE DEF RestoreInv
<1>1. /\ phase' = "idle" /\ current' = None
      /\ excluded' = {} /\ written' = {} /\ tried' = {} /\ complaints' = {} /\ ~exitOK'
      /\ exitOK' \in BOOLEAN
      /\ late' = {} /\ blind' = {}
      /\ outcome' = [outcome EXCEPT ![current] = result]
  BY DEF Return, Fresh
<1>2. UNCHANGED <<catalog, repo, taken, destRow, destEdit, policyLive, password, postgres,
                  request, queue, ctxDone, hostRoot, running, faults, events>>
  BY DEF server, catalogVars, rowVars
<1>3. current \in Requests /\ Undecided(current) /\ request[current].at = "done"
  BY CurrentDispatched
<1>4. /\ jobRow' \in [Requests -> Statuses]
      /\ jobRow'[current] \in {jobRow[current], status}
      /\ \A r \in Requests : r # current => jobRow'[r] = jobRow[r]
  BY <1>3, ReportFrame DEF Return
<1>5. /\ outcome' \in [Requests -> {"none", "complete", "partial", "warned", "failed"}]
      /\ outcome'[current] = result
      /\ \A r \in Requests : r # current => outcome'[r] = outcome[r]
  BY <1>1, <1>3 DEF TypeOK
<1>6. TypeOK'
  BY <1>1, <1>2, <1>4, <1>5 DEF TypeOK, Statuses, Items
<1>7. DispatchFirst'
  BY <1>1, <1>2, <1>3, <1>4, <1>5, RestoreNoneAssumption DEF DispatchFirst, Unseen, Queued
<1>8. RunsOnce'
  <2>1. \A i \in DOMAIN queue : queue[i] \in Requests
    BY DEF TypeOK
  <2> QED BY <1>1, <1>2, <1>4, <1>5, <2>1, RestoreNoneAssumption DEF RunsOnce, Undecided
<1>9. ResticSound' /\ InUseAccounted'
  BY <1>1 DEF ResticSound, InUseAccounted
<1>10. SuccessMeansRestored'
  BY <1>2, <1>3, <1>4, <1>5 DEF SuccessMeansRestored, Undecided
<1> QED BY <1>6, <1>7, <1>8, <1>9, <1>10

(* executeRestore ends: without an error from restic everything it dealt   *)
(* with is written, unless lchown errors are tolerated under a host root.  *)
LEMMA ConcludeInv ==
  ASSUME RestoreInv, RejectPayload \/ Conclude
  PROVE  RestoreInv'
<1>1. CASE RejectPayload
  BY <1>1, ReturnInv DEF RejectPayload
<1>2. CASE Conclude
  <2>1. phase # "idle" /\ UNCHANGED <<server, queue, ctxDone, hostRoot, running, faults, events>>
    BY <1>2 DEF Conclude
  <2>2. CASE RestoreReturnsNil
    <3> DEFINE result == IF tried = Items \ excluded /\ tried = written
                         THEN "complete" ELSE "partial"
    <3>1. Return(result, "succeeded")
      BY <1>2, <2>2 DEF Conclude
    <3>2. ~hostRoot => result = "complete"
      BY <2>2 DEF RestoreReturnsNil, RestoreInv, ResticSound
    <3>3. result \in {"complete", "partial", "warned", "failed"}
      OBVIOUS
    <3> HIDE DEF result
    <3> QED BY <2>1, <3>1, <3>2, <3>3, ReturnInv
  <2>3. CASE Return("failed", "cancelled")
    BY <2>1, <2>3, ReturnInv
  <2>4. CASE Return("warned", "succeeded")
    BY <2>1, <2>4, ReturnInv
  <2>5. CASE Return("failed", "failed")
    BY <2>1, <2>5, ReturnInv
  <2> QED BY <1>2, <2>2, <2>3, <2>4, <2>5 DEF Conclude
<1> QED BY <1>1, <1>2

(* A signal changes nothing yet. *)
LEMMA ShutdownInv ==
  ASSUME RestoreInv, Shutdown
  PROVE  RestoreInv'
<1> USE DEF RestoreInv
<1>1. /\ ctxDone' \in BOOLEAN
      /\ UNCHANGED <<catalog, repo, taken, destRow, destEdit, policyLive, password, postgres,
                     request, jobRow, queue, current, phase, excluded, written, tried,
                     complaints, exitOK, hostRoot, running, late, blind, outcome, events>>
  BY DEF Shutdown, server, catalogVars, rowVars, resticVars, dockerVars
<1>2. faults' \in 0 .. MaxFaults
  BY RestoreBoundsAssumption DEF Shutdown, Fault, TypeOK
<1>3. TypeOK'
  BY <1>1, <1>2 DEF TypeOK
<1>4. DispatchFirst'
  BY <1>1 DEF DispatchFirst, Unseen, Queued
<1>5. RunsOnce'
  BY <1>1 DEF RunsOnce, Undecided
<1>6. ResticSound' /\ InUseAccounted' /\ SuccessMeansRestored'
  BY <1>1 DEF ResticSound, InUseAccounted, SuccessMeansRestored, Items
<1> QED BY <1>3, <1>4, <1>5, <1>6

(* A restart forgets queue and run; rows only turn from running to failed. *)
LEMMA AgentRestartsInv ==
  ASSUME RestoreInv, AgentRestarts
  PROVE  RestoreInv'
<1> USE DEF RestoreInv
<1>1. /\ ctxDone' \in BOOLEAN /\ exitOK' \in BOOLEAN /\ ~exitOK'
      /\ queue' = <<>> /\ phase' = "idle" /\ current' = None
      /\ excluded' = {} /\ written' = {} /\ tried' = {} /\ complaints' = {}
      /\ late' = {} /\ blind' = {}
      /\ UNCHANGED <<catalog, repo, taken, destRow, destEdit, policyLive, password, postgres,
                     request, hostRoot, running, outcome, events>>
  BY DEF AgentRestarts, Fresh, server, catalogVars, rowVars
<1>2. faults' \in 0 .. MaxFaults
  BY RestoreBoundsAssumption DEF AgentRestarts, Fault, TypeOK
<1>3. /\ jobRow' \in [Requests -> Statuses]
      /\ \A r \in Requests : jobRow'[r] = IF jobRow[r] = "running" THEN "failed" ELSE jobRow[r]
  BY DEF AgentRestarts, TypeOK, Statuses
<1>4. TypeOK'
  <2>1. queue' \in Seq(Requests)
    BY <1>1
  <2> QED BY <1>1, <1>2, <1>3, <2>1 DEF TypeOK, Statuses, Items
<1>5. DispatchFirst'
  BY <1>1, <1>3, RestoreNoneAssumption DEF DispatchFirst, Unseen, Queued
<1>6. RunsOnce'
  BY <1>1 DEF RunsOnce
<1>7. ResticSound' /\ InUseAccounted'
  BY <1>1 DEF ResticSound, InUseAccounted
<1>8. SuccessMeansRestored'
  BY <1>1, <1>3 DEF SuccessMeansRestored
<1> QED BY <1>4, <1>5, <1>6, <1>7, <1>8

-----------------------------------------------------------------------------
(* Every step keeps the invariant. *)
LEMMA RestoreStep == RestoreInv /\ [Next]_vars => RestoreInv'
<1> SUFFICES ASSUME RestoreInv, [Next]_vars PROVE RestoreInv'
  OBVIOUS
<1>1. ASSUME NEW r \in Requests, BeforeDispatch(r) \/ Dispatch(r)
      PROVE  RestoreInv'
  BY <1>1, BeforeDispatchInv, DispatchInv
<1>2. CASE RowStep
  BY <1>2, RowStepInv
<1>3. ASSUME NEW v \in Volumes, StartContainer(v) \/ StopContainer(v)
      PROVE  RestoreInv'
  BY <1>3, ContainerInv
<1>4. CASE ExecuteRestore \/ ResticAborts
  <2>1. CASE Take
    BY <2>1, TakeInv
  <2>2. CASE Start
    BY <2>2, StartInv
  <2>3. CASE BuildInPlaceExcludes
    BY <2>3, ExcludesInv
  <2>4. CASE RejectPayload \/ Conclude
    BY <2>4, ConcludeInv
  <2>5. CASE OpenFails \/ (\E i \in Items : RestoreItem(i)) \/ ResticExits \/ ResticAborts
    BY <2>5, ResticInv
  <2> QED BY <1>4, <2>1, <2>2, <2>3, <2>4, <2>5 DEF ExecuteRestore
<1>5. CASE Shutdown
  BY <1>5, ShutdownInv
<1>6. CASE AgentRestarts
  BY <1>6, AgentRestartsInv
<1>7. CASE UNCHANGED vars
  <2> USE <1>7 DEF RestoreInv, vars, catalogVars, rowVars, agentVars, resticVars, dockerVars
  <2>1. TypeOK'
    BY DEF TypeOK
  <2>2. DispatchFirst' /\ RunsOnce'
    BY DEF DispatchFirst, Unseen, Queued, RunsOnce, Undecided
  <2>3. ResticSound' /\ InUseAccounted' /\ SuccessMeansRestored'
    BY DEF ResticSound, InUseAccounted, SuccessMeansRestored, Items
  <2> QED BY <2>1, <2>2, <2>3
<1> QED
  BY <1>1, <1>2, <1>3, <1>4, <1>5, <1>6, <1>7 DEF Next, BeforeDispatch, RowStep

(* The invariant holds throughout: what the agent has in its queue or runs *)
(* was dispatched once and is undecided, and what restic has done agrees   *)
(* with what it said.                                                      *)
THEOREM RestoreInvCorrect == Spec => []RestoreInv
BY RestoreInit, RestoreStep, PTL DEF Spec

(* Every variable of RestoreRun keeps its type, and restic never deals     *)
(* with an item that it was told to leave out.                             *)
THEOREM RestoreTypeCorrect == Spec => []TypeOK
<1>1. RestoreInv => TypeOK
  BY DEF RestoreInv
<1> QED BY <1>1, RestoreInvCorrect, PTL

(* For any number of requests, and whatever fails: a restore that is       *)
(* recorded as succeeded by a native agent has written everything that it  *)
(* did not announce to leave out, or has warned (executeRestore and        *)
(* Wrapper.Restore).                                                       *)
THEOREM SuccessMeansRestoredCorrect == Spec => []SuccessMeansRestored
<1>1. RestoreInv => SuccessMeansRestored
  BY DEF RestoreInv
<1> QED BY <1>1, RestoreInvCorrect, PTL

(* A request that SnapshotHandler.Restore answered with an error is never  *)
(* run by the agent, also when its job was inserted.                       *)
THEOREM RefusedNeverRunsCorrect == Spec => []RefusedNeverRuns
<1>1. RestoreInv => RefusedNeverRuns
  BY DEF RestoreInv, DispatchFirst, Unseen, RefusedNeverRuns
<1> QED BY <1>1, RestoreInvCorrect, PTL

(* No step of an in-place restore writes to a volume that a container      *)
(* uses, unless the container was started after buildInPlaceExcludes made  *)
(* its list or Docker did not tell about the volume.                       *)
THEOREM RunningVolumeUntouchedCorrect == Spec => RunningVolumeUntouched
<1> DEFINE Untouched ==
      \A v \in Volumes : v \in written' \ written /\ request[current].inPlace
                         => v \notin running \/ v \in late \cup blind
<1>1. RestoreInv /\ [Next]_vars => [Untouched]_vars
  <2> SUFFICES ASSUME RestoreInv, Next PROVE Untouched
    BY DEF vars
  <2>1. ASSUME NEW i \in Items, RestoreItem(i)
        PROVE  Untouched
    <3>1. /\ phase = "restic" /\ i \notin excluded
          /\ written' \subseteq written \cup {i}
      BY <2>1 DEF RestoreItem
    <3> QED BY <3>1 DEF RestoreInv, InUseAccounted
  <2>2. CASE written' \subseteq written
    BY <2>2
  <2>3. (\E i \in Items : RestoreItem(i)) \/ written' \subseteq written
    <3> USE DEF agentVars, resticVars, rest
    <3>1. ASSUME NEW r \in Requests, BeforeDispatch(r) \/ Dispatch(r)
          PROVE  UNCHANGED written
      BY <3>1 DEF BeforeDispatch, LoadSnapshot, LoadDestination, LoadPolicy, CreateJob,
                  DispatchFails, Dispatch
    <3>2. CASE RowStep
      BY <3>2 DEF RowStep, DeleteSnapshot, DeleteDestination, UpdateDestination,
                  SaveDestination, DeletePolicy, ChangePassword, Backup, Forget
    <3>3. ASSUME NEW v \in Volumes, StartContainer(v) \/ StopContainer(v)
          PROVE  UNCHANGED written
      BY <3>3 DEF StartContainer, StopContainer
    <3>4. CASE Take \/ Start \/ BuildInPlaceExcludes \/ OpenFails \/ ResticExits
               \/ ResticAborts \/ Shutdown
      BY <3>4 DEF Take, Start, BuildInPlaceExcludes, OpenFails, ResticExits, ResticAborts,
                  Shutdown
    <3>5. CASE RejectPayload \/ Conclude \/ AgentRestarts
      BY <3>5 DEF RejectPayload, Conclude, AgentRestarts, Return, Fresh
    <3> QED BY <3>1, <3>2, <3>3, <3>4, <3>5 DEF Next, ExecuteRestore, BeforeDispatch, RowStep
  <2> QED BY <2>1, <2>2, <2>3
<1> QED BY <1>1, RestoreInvCorrect, PTL DEF Spec, RunningVolumeUntouched
=============================================================================
