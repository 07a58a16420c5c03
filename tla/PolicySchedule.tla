--------------------------- MODULE PolicySchedule ---------------------------
(***************************************************************************)
(* One backup policy and its timetable: the REST handlers that create,     *)
(* change and delete the row, the scheduler that keeps a gocron entry for  *)
(* an enabled policy, and the runs that turn a tick or a manual trigger    *)
(* into a job.                                                             *)
(*                                                                         *)
(* A handler writes the row and then the scheduler, in separate steps, and *)
(* an entry carries a copy of the policy.  Entries are found by the UUID   *)
(* of the policy, so policies do not disturb each other.                   *)
(***************************************************************************)
EXTENDS Integers, FiniteSets

CONSTANTS
    Handlers,   \* goroutines that serve REST requests about the policy
    Runners,    \* goroutines that execute runJob
    Contents,   \* what a policy says: schedule, sources, hooks, retention
    MaxJobs     \* bound on the jobs created

ASSUME HandlersAssumption == IsFiniteSet(Handlers) /\ Handlers # {}
ASSUME ContentsAssumption == Contents # {}
ASSUME JobsAssumption == MaxJobs \in Nat

VARIABLES
    state,      \* database: the row is absent, live or soft-deleted
    policy,     \* database: the columns of the row
    entries,    \* gocron: how many entries carry a given copy of the policy
    pc,         \* [Handlers -> where its request is]
    copy,       \* [Handlers -> the policy it holds in memory]
    missed,     \* history: the latest attempt to schedule the policy failed
    overlapped, \* history: a request came while another was under way, since
                \* the last start
    run,        \* [Runners -> where runJob is]
    snap,       \* [Runners -> the policy it was given]
    own,        \* [Runners -> it runs for an entry that is still there]
    jobs,       \* jobs created so far
    active      \* jobs neither succeeded nor failed

rowVars == <<state, policy>>
handlerVars == <<pc, copy, missed, overlapped>>
runVars == <<run, snap, own, jobs, active>>
vars == <<rowVars, entries, handlerVars, runVars>>

(* lastRun is last_run_at: the number of the run that wrote it. *)
Policy == [enabled : BOOLEAN, content : Contents, lastRun : 0 .. MaxJobs]

(* What runJob uses of a copy. *)
Snap == [enabled : BOOLEAN, content : Contents]
SnapOf(p) == [enabled |-> p.enabled, content |-> p.content]

NoEntries == [s \in Snap |-> 0]

(* The entries that the row calls for. *)
EntriesOf(st, p) ==
    [s \in Snap |-> IF st = "live" /\ p.enabled /\ s = SnapOf(p) THEN 1 ELSE 0]

-----------------------------------------------------------------------------
Init ==
    /\ state = "absent"
    /\ policy \in [enabled : {TRUE}, content : Contents, lastRun : {0}]
    /\ entries = NoEntries
    /\ pc = [h \in Handlers |-> "idle"]
    /\ copy = [h \in Handlers |-> policy]
    /\ missed = FALSE
    /\ overlapped = FALSE
    /\ run = [r \in Runners |-> "idle"]
    /\ snap = [r \in Runners |-> SnapOf(policy)]
    /\ own = [r \in Runners |-> FALSE]
    /\ jobs = 0
    /\ active = 0

-----------------------------------------------------------------------------
(* REST handlers.                                                          *)

(* A request comes in. *)
Begin(h) ==
    /\ pc[h] = "idle"
    /\ overlapped' = (overlapped \/ \E g \in Handlers : g # h /\ pc[g] # "idle")

(* Create inserts the row, enabled. *)
Create(h) ==
    /\ Begin(h)
    /\ state = "absent"
    /\ state' = "live"
    /\ \E c \in Contents :
          policy' = [enabled |-> TRUE, content |-> c, lastRun |-> 0]
    /\ pc' = [pc EXCEPT ![h] = "created"]
    /\ UNCHANGED <<entries, copy, missed, runVars>>

(* It reads the policy back ... *)
Reload(h) ==
    /\ pc[h] = "created"
    /\ state = "live"
    /\ copy' = [copy EXCEPT ![h] = policy]
    /\ pc' = [pc EXCEPT ![h] = "reloaded"]
    /\ UNCHANGED <<rowVars, entries, missed, overlapped, runVars>>

(* ... or fails to: the policy has been deleted, the request is cancelled  *)
(* or the database fails.  The answer is an error, the row stays, and      *)
(* AddPolicy is not called.                                                *)
ReloadFails(h) ==
    /\ pc[h] = "created"
    /\ pc' = [pc EXCEPT ![h] = "idle"]
    /\ missed' = TRUE
    /\ UNCHANGED <<rowVars, entries, copy, overlapped, runVars>>

(* Update reads the row and applies the fields of the request to its copy. *)
UpdateRead(h) ==
    /\ Begin(h)
    /\ state = "live"
    /\ \E e \in BOOLEAN, c \in Contents :
          copy' = [copy EXCEPT ![h] = [policy EXCEPT !.enabled = e, !.content = c]]
    /\ pc' = [pc EXCEPT ![h] = "read"]
    /\ UNCHANGED <<rowVars, entries, missed, runVars>>

(* The save of gorm: it updates the live row with every column of the      *)
(* copy; if there is none it inserts, and on the conflict with the deleted *)
(* row replaces all columns, a zero enabled by its default TRUE, in the    *)
(* copy too.                                                               *)
Save(p) ==
    /\ state' = "live"
    /\ policy' = IF state = "live" THEN p ELSE [p EXCEPT !.enabled = TRUE]

UpdateSave(h) ==
    /\ pc[h] = "read"
    /\ Save(copy[h])
    /\ copy' = [copy EXCEPT ![h] = policy']
    /\ pc' = [pc EXCEPT ![h] = "saved"]
    /\ UNCHANGED <<entries, missed, overlapped, runVars>>

(* A field is invalid, or the save fails: nothing has changed. *)
UpdateFails(h) ==
    /\ pc[h] = "read"
    /\ pc' = [pc EXCEPT ![h] = "idle"]
    /\ UNCHANGED <<rowVars, entries, copy, missed, overlapped, runVars>>

(* RemoveByTags; a run that is under way goes on. *)
RemoveByTags ==
    /\ entries' = NoEntries
    /\ own' = [r \in Runners |-> FALSE]

(* UpdatePolicy removes the entry; a disabled policy gets no new one. *)
UpdatePolicy(h) ==
    /\ pc[h] = "saved"
    /\ RemoveByTags
    /\ pc' = [pc EXCEPT ![h] = IF copy[h].enabled THEN "removed" ELSE "idle"]
    /\ UNCHANGED <<rowVars, copy, missed, overlapped, run, snap, jobs, active>>

(* AddPolicy: NewJob with the copy.  Create calls it for the policy it has *)
(* read back, without a look at its enabled column.                        *)
AddPolicy(h) ==
    /\ pc[h] \in {"reloaded", "removed"}
    /\ entries' = [entries EXCEPT ![SnapOf(copy[h])] = @ + 1]
    /\ pc' = [pc EXCEPT ![h] = "idle"]
    /\ missed' = FALSE
    /\ UNCHANGED <<rowVars, copy, overlapped, runVars>>

(* NewJob refuses the schedule, say one without a next run.  The handler   *)
(* logs it, keeps the row, and an Update has removed the old entry.        *)
AddPolicyFails(h) ==
    /\ pc[h] \in {"reloaded", "removed"}
    /\ pc' = [pc EXCEPT ![h] = "idle"]
    /\ missed' = TRUE
    /\ UNCHANGED <<rowVars, entries, copy, overlapped, runVars>>

(* Delete marks the row ... *)
Delete(h) ==
    /\ Begin(h)
    /\ state = "live"
    /\ state' = "deleted"
    /\ pc' = [pc EXCEPT ![h] = "deleted"]
    /\ UNCHANGED <<policy, entries, copy, missed, runVars>>

(* ... and then removes the entry. *)
RemovePolicy(h) ==
    /\ pc[h] = "deleted"
    /\ RemoveByTags
    /\ pc' = [pc EXCEPT ![h] = "idle"]
    /\ UNCHANGED <<rowVars, copy, missed, overlapped, run, snap, jobs, active>>

-----------------------------------------------------------------------------
(* Runs.                                                                   *)

(* A tick of an entry that carries s.  Singleton mode skips the tick while *)
(* the entry's last run is under way.  The destinations are read again,    *)
(* the policy is the entry's copy; if it has been deleted the run ends.    *)
Tick(r, s) ==
    /\ run[r] = "idle"
    /\ Cardinality({q \in Runners : own[q] /\ snap[q] = s}) < entries[s]
    /\ jobs < MaxJobs
    /\ state = "live"
    /\ run' = [run EXCEPT ![r] = "given"]
    /\ snap' = [snap EXCEPT ![r] = s]
    /\ own' = [own EXCEPT ![r] = TRUE]
    /\ UNCHANGED <<rowVars, entries, handlerVars, jobs, active>>

(* TriggerNow uses the row as it is. *)
TriggerNow(r) ==
    /\ run[r] = "idle"
    /\ jobs < MaxJobs
    /\ state = "live"
    /\ run' = [run EXCEPT ![r] = "given"]
    /\ snap' = [snap EXCEPT ![r] = SnapOf(policy)]
    /\ UNCHANGED <<rowVars, entries, handlerVars, own, jobs, active>>

(* runJob for a disabled policy: ErrPolicyDisabled. *)
SkipDisabled(r) ==
    /\ run[r] = "given"
    /\ ~snap[r].enabled
    /\ run' = [run EXCEPT ![r] = "idle"]
    /\ own' = [own EXCEPT ![r] = FALSE]
    /\ UNCHANGED <<rowVars, entries, handlerVars, snap, jobs, active>>

(* runJob inserts the job; JobDispatch has its further life. *)
CreateJob(r) ==
    /\ run[r] = "given"
    /\ snap[r].enabled
    /\ jobs < MaxJobs
    /\ jobs' = jobs + 1
    /\ active' = active + 1
    /\ run' = [run EXCEPT ![r] = "created"]
    /\ UNCHANGED <<rowVars, entries, handlerVars, snap, own>>

(* The insert fails: the run ends without a job. *)
CreateJobFails(r) ==
    /\ run[r] = "given"
    /\ snap[r].enabled
    /\ run' = [run EXCEPT ![r] = "idle"]
    /\ own' = [own EXCEPT ![r] = FALSE]
    /\ UNCHANGED <<rowVars, entries, handlerVars, snap, jobs, active>>

(* Mutant: the run never returns to gocron. *)
UpdateScheduleHangs(r) ==
    /\ run[r] = "created"
    /\ policy' = IF state = "live" THEN [policy EXCEPT !.lastRun = jobs] ELSE policy
    /\ run' = [run EXCEPT ![r] = "hanging"]
    /\ UNCHANGED <<state, entries, handlerVars, snap, own, jobs, active>>

(* UpdateSchedule writes the timestamps of a live row, or fails to, which  *)
(* is only logged; the dispatch is attempted and the run is over, whatever *)
(* the job does from now on.                                               *)
UpdateSchedule(r) ==
    /\ run[r] = "created"
    /\ \/ state = "live" /\ policy' = [policy EXCEPT !.lastRun = jobs]
       \/ UNCHANGED policy
    /\ run' = [run EXCEPT ![r] = "idle"]
    /\ own' = [own EXCEPT ![r] = FALSE]
    /\ UNCHANGED <<state, entries, handlerVars, snap, jobs, active>>

(* A job becomes terminal. *)
JobEnds ==
    /\ active > 0
    /\ active' = active - 1
    /\ UNCHANGED <<rowVars, entries, handlerVars, run, snap, own, jobs>>

-----------------------------------------------------------------------------
(* The server process ends: every goroutine is gone, the database stays. *)
Restart ==
    /\ pc' = [h \in Handlers |-> "idle"]
    /\ overlapped' = FALSE
    /\ run' = [r \in Runners |-> "idle"]
    /\ own' = [r \in Runners |-> FALSE]
    /\ UNCHANGED <<rowVars, copy, snap, jobs, active>>

(* Mutant: the timetable is not loaded. *)
StartUnloaded ==
    /\ Restart
    /\ entries' = NoEntries
    /\ missed' = FALSE

(* It starts again, and Start schedules the enabled policies before any    *)
(* request is served ...                                                   *)
Start ==
    /\ Restart
    /\ entries' = EntriesOf(state, policy)
    /\ missed' = FALSE

(* ... but for one that NewJob refuses: Start logs it and goes on. *)
StartSkips ==
    /\ Restart
    /\ state = "live" /\ policy.enabled
    /\ entries' = NoEntries
    /\ missed' = TRUE

-----------------------------------------------------------------------------
HandlerContinues(h) ==
    \/ Reload(h)
    \/ ReloadFails(h)
    \/ UpdateSave(h)
    \/ UpdateFails(h)
    \/ UpdatePolicy(h)
    \/ AddPolicy(h)
    \/ AddPolicyFails(h)
    \/ RemovePolicy(h)

HandlerStep(h) ==
    \/ Create(h)
    \/ UpdateRead(h)
    \/ Delete(h)
    \/ HandlerContinues(h)

RunContinues(r) ==
    \/ SkipDisabled(r)
    \/ CreateJob(r)
    \/ UpdateSchedule(r)

RunStep(r) ==
    \/ \E s \in Snap : Tick(r, s)
    \/ TriggerNow(r)
    \/ RunContinues(r)

Next ==
    \/ \E h \in Handlers : HandlerStep(h)
    \/ \E r \in Runners : RunStep(r) \/ CreateJobFails(r)
    \/ JobEnds
    \/ Start
    \/ StartSkips

Spec == Init /\ [][Next]_vars

(* Requests and runs under way go on, and the clock reaches every tick.    *)
(* A restart, a request or a manual trigger need never come.               *)
FairSpec ==
    /\ Spec
    /\ \A h \in Handlers : WF_vars(HandlerContinues(h))
    /\ \A r \in Runners : WF_vars(RunContinues(r))
    /\ \A r \in Runners, s \in Snap : WF_vars(Tick(r, s))

-----------------------------------------------------------------------------
(* Properties.                                                             *)

(* No request is under way. *)
Quiet == \A h \in Handlers : pc[h] = "idle"

(* Every variable keeps its type. *)
TypeOK ==
    /\ state \in {"absent", "live", "deleted"}
    /\ policy \in Policy
    /\ entries \in [Snap -> Nat]
    /\ pc \in [Handlers -> {"idle", "created", "reloaded", "read", "saved",
                            "removed", "deleted"}]
    /\ copy \in [Handlers -> Policy]
    /\ missed \in BOOLEAN
    /\ overlapped \in BOOLEAN
    /\ run \in [Runners -> {"idle", "given", "created"}]
    /\ snap \in [Runners -> Snap]
    /\ own \in [Runners -> BOOLEAN]
    /\ jobs \in 0 .. MaxJobs
    /\ active \in 0 .. jobs

(* As long as requests come one at a time, the timetable follows the row   *)
(* between them, over restarts and failed requests: no entry is stale,     *)
(* double or left over (scheduler.go:184, policies.go:433), and one is     *)
(* missing only if the latest attempt to schedule this policy has failed,  *)
(* in a Create, an Update or at the start: the next one that works repairs *)
(* it.  A restart repairs what overlapping requests have left behind.      *)
ScheduleFollowsRow ==
    ~overlapped /\ Quiet =>
        entries = IF missed THEN NoEntries ELSE EntriesOf(state, policy)

(* However many requests interleave, the entries of a policy never exceed  *)
(* the requests that can be served at once: each AddPolicy is preceded by  *)
(* a removal of all, but for the first.                                    *)
EntriesBounded ==
    \A s \in Snap : entries[s] <= Cardinality(Handlers)

(* What the row asks for is in the timetable, see ScheduleFollowsRow. *)
Scheduled == state = "live" /\ policy.enabled /\ ~missed /\ ~overlapped

(* Once requests, restarts and failing inserts stop, an enabled policy is  *)
(* run: whatever they did, they leave it an entry unless the latest        *)
(* attempt to schedule it failed, and no run keeps an entry busy.          *)
EnabledPolicyRuns ==
    <>[][(\E r \in Runners : RunStep(r)) \/ JobEnds]_vars
        => \A n \in 0 .. MaxJobs - 1 :
              (Scheduled /\ jobs = n) ~> (~Scheduled \/ jobs > n)

=============================================================================
