------------------------ MODULE PolicySchedule_proofs ------------------------
(***************************************************************************)
(* Proofs about PolicySchedule: the type invariant, the bound on the       *)
(* entries under any interleaving of requests, and that the timetable      *)
(* follows the row as long as requests come one at a time.                 *)
(***************************************************************************)
EXTENDS PolicySchedule, FiniteSetTheorems, TLAPS

(* The copy that an entry gets is one gocron can carry. *)
LEMMA SnapOfType ==
    ASSUME NEW p \in Policy
    PROVE  /\ SnapOf(p) \in Snap
           /\ SnapOf(p).enabled = p.enabled
    BY DEF Policy, SnapOf, Snap

LEMMA EntriesOfType ==
    ASSUME NEW st, NEW p \in Policy
    PROVE  EntriesOf(st, p) \in [Snap -> Nat]
    BY DEF EntriesOf

(* The type invariant holds at the start. *)
LEMMA TypeInit == Init => TypeOK
<1> SUFFICES ASSUME Init PROVE TypeOK
    OBVIOUS
<1>0. policy \in [enabled : {TRUE}, content : Contents, lastRun : {0}]
    BY DEF Init
<1>1. policy \in Policy
    <2>1. {TRUE} \subseteq BOOLEAN /\ {0} \subseteq 0 .. MaxJobs
        BY JobsAssumption
    <2> QED
        BY <1>0, <2>1, Zenon DEF Policy
<1>2. SnapOf(policy) \in Snap
    BY <1>1, SnapOfType
<1>3. own \in [Runners -> BOOLEAN] /\ missed \in BOOLEAN /\ overlapped \in BOOLEAN
    BY Zenon DEF Init
<1>4. entries \in [Snap -> Nat] /\ jobs \in 0 .. MaxJobs /\ active \in 0 .. jobs
    BY JobsAssumption DEF Init, NoEntries
<1>5. /\ copy \in [Handlers -> Policy]
      /\ snap \in [Runners -> Snap]
    BY <1>1, <1>2, Zenon DEF Init
<1>6. /\ state \in {"absent", "live", "deleted"}
      /\ pc \in [Handlers -> {"idle", "created", "reloaded", "read", "saved",
                              "removed", "deleted"}]
      /\ run \in [Runners -> {"idle", "given", "created"}]
    BY DEF Init
<1> QED
    BY <1>1, <1>3, <1>4, <1>5, <1>6 DEF TypeOK

(* Every step of a handler keeps it. *)
LEMMA TypeHandler ==
    ASSUME TypeOK, NEW h \in Handlers, HandlerStep(h)
    PROVE  TypeOK'
<1> USE DEF TypeOK, rowVars, handlerVars, runVars
<1>1. CASE Create(h)
    <2>1. policy' \in Policy
        BY <1>1, JobsAssumption DEF Create, Begin, Policy
    <2> QED
        BY <1>1, <2>1 DEF Create, Begin
<1>2. CASE Reload(h)
    BY <1>2 DEF Reload
<1>3. CASE ReloadFails(h)
    BY <1>3 DEF ReloadFails
<1>4. CASE UpdateRead(h)
    <2>1. PICK e \in BOOLEAN, c \in Contents :
             copy' = [copy EXCEPT ![h] = [policy EXCEPT !.enabled = e, !.content = c]]
        BY <1>4 DEF UpdateRead, Begin
    <2>2. [policy EXCEPT !.enabled = e, !.content = c] \in Policy
        BY DEF Policy
    <2> QED
        BY <1>4, <2>1, <2>2 DEF UpdateRead, Begin
<1>5. CASE UpdateSave(h)
    <2>1. policy' \in Policy
        BY <1>5 DEF UpdateSave, Save, Policy
    <2> QED
        BY <1>5, <2>1 DEF UpdateSave, Save
<1>6. CASE UpdateFails(h)
    BY <1>6 DEF UpdateFails
<1>7. CASE UpdatePolicy(h)
    BY <1>7 DEF UpdatePolicy, RemoveByTags, NoEntries
<1>8. CASE AddPolicy(h)
    <2>1. SnapOf(copy[h]) \in Snap
        BY SnapOfType
    <2>2. entries' \in [Snap -> Nat]
        BY <1>8, <2>1 DEF AddPolicy
    <2> QED
        BY <1>8, <2>2 DEF AddPolicy
<1>9. CASE Delete(h)
    BY <1>9 DEF Delete, Begin
<1>10. CASE RemovePolicy(h)
    BY <1>10 DEF RemovePolicy, RemoveByTags, NoEntries
<1>11. CASE AddPolicyFails(h)
    BY <1>11 DEF AddPolicyFails
<1> QED
    BY <1>1, <1>2, <1>3, <1>4, <1>5, <1>6, <1>7, <1>8, <1>9, <1>10, <1>11
    DEF HandlerStep, HandlerContinues

(* Every step of a run keeps it. *)
LEMMA TypeRun ==
    ASSUME TypeOK, NEW r \in Runners, RunStep(r) \/ CreateJobFails(r)
    PROVE  TypeOK'
<1> USE DEF TypeOK, rowVars, handlerVars, runVars
<1>1. ASSUME NEW s \in Snap, Tick(r, s) PROVE TypeOK'
    BY <1>1 DEF Tick
<1>2. CASE TriggerNow(r)
    <2>1. SnapOf(policy) \in Snap
        BY SnapOfType
    <2> QED
        BY <1>2, <2>1 DEF TriggerNow
<1>3. CASE SkipDisabled(r)
    BY <1>3 DEF SkipDisabled
<1>4. CASE CreateJob(r)
    BY <1>4, JobsAssumption DEF CreateJob
<1>5. CASE UpdateSchedule(r)
    <2>1. policy' \in Policy
        BY <1>5 DEF UpdateSchedule, Policy
    <2> QED
        BY <1>5, <2>1 DEF UpdateSchedule
<1>6. CASE CreateJobFails(r)
    BY <1>6 DEF CreateJobFails
<1> QED
    BY <1>1, <1>2, <1>3, <1>4, <1>5, <1>6 DEF RunStep, RunContinues

(* So do the end of a job, a restart and a stuttering step. *)
LEMMA TypeStep == TypeOK /\ [Next]_vars => TypeOK'
<1> SUFFICES ASSUME TypeOK, [Next]_vars PROVE TypeOK'
    OBVIOUS
<1> USE DEF TypeOK, rowVars, handlerVars, runVars
<1>1. CASE JobEnds
    BY <1>1, JobsAssumption DEF JobEnds
<1>2. CASE Start
    <2>1. EntriesOf(state, policy) \in [Snap -> Nat]
        BY EntriesOfType
    <2> QED
        BY <1>2, <2>1 DEF Start, Restart
<1>3. CASE StartSkips
    BY <1>3 DEF StartSkips, Restart, NoEntries
<1>4. CASE UNCHANGED vars
    BY <1>4 DEF vars
<1> QED
    BY <1>1, <1>2, <1>3, <1>4, TypeHandler, TypeRun DEF Next

(* The type invariant, for any handlers, runners, contents and bound. *)
THEOREM ScheduleTypeCorrect == Spec => []TypeOK
    BY TypeInit, TypeStep, PTL DEF Spec

-----------------------------------------------------------------------------
(* The bound on the entries.                                               *)

(* Requests that will add an entry without a further removal. *)
Adders == {h \in Handlers : pc[h] \in {"created", "reloaded", "removed"}}

(* Every entry is paid for by a handler that will add none.  Before the    *)
(* row exists nothing is under way.                                        *)
BoundInv ==
    /\ \A s \in Snap : entries[s] + Cardinality(Adders) <= Cardinality(Handlers)
    /\ state = "absent" => Quiet /\ entries = NoEntries

(* Cardinalities of the adders are numbers, and at most all are adders. *)
LEMMA AddersFinite ==
    /\ IsFiniteSet(Adders) /\ Cardinality(Adders) \in Nat
    /\ Cardinality(Handlers) \in Nat /\ Cardinality(Handlers) >= 1
    /\ Cardinality(Adders) <= Cardinality(Handlers)
<1>1. Adders \subseteq Handlers
    BY DEF Adders
<1>2. Cardinality(Handlers) # 0
    BY HandlersAssumption, FS_EmptySet
<1> QED
    BY <1>1, <1>2, HandlersAssumption, FS_Subset, FS_CardinalityType

LEMMA AddersFiniteNext ==
    /\ IsFiniteSet(Adders') /\ Cardinality(Adders') \in Nat
    /\ Cardinality(Adders') <= Cardinality(Handlers)
<1>1. Adders' \subseteq Handlers
    BY DEF Adders
<1> QED
    BY <1>1, HandlersAssumption, FS_Subset, FS_CardinalityType

(* A step that makes no handler an adder and adds no entry. *)
LEMMA FewerAdders ==
    ASSUME TypeOK, TypeOK', BoundInv, Adders' \subseteq Adders,
           \A s \in Snap : entries'[s] <= entries[s]
    PROVE  \A s \in Snap : entries'[s] + Cardinality(Adders') <= Cardinality(Handlers)
<1>1. Cardinality(Adders') <= Cardinality(Adders)
    BY AddersFinite, FS_Subset
<1> QED
    BY <1>1, AddersFinite, AddersFiniteNext DEF BoundInv, TypeOK

(* A step that leaves no entry. *)
LEMMA NoEntriesLeft ==
    ASSUME entries' = NoEntries
    PROVE  \A s \in Snap : entries'[s] + Cardinality(Adders') <= Cardinality(Handlers)
    BY AddersFiniteNext DEF NoEntries

LEMMA BoundInit == Init => BoundInv
<1> SUFFICES ASSUME Init PROVE BoundInv
    OBVIOUS
<1>1. \A s \in Snap : entries[s] = 0
    BY DEF Init, NoEntries
<1> QED
    BY <1>1, AddersFinite DEF Init, BoundInv, Quiet

LEMMA BoundStep == TypeOK /\ TypeOK' /\ BoundInv /\ [Next]_vars => BoundInv'
<1> SUFFICES ASSUME TypeOK, TypeOK', BoundInv, [Next]_vars PROVE BoundInv'
    OBVIOUS
<1> USE DEF rowVars, handlerVars, runVars
<1>0. ASSUME state' = state, pc' = pc, entries' = entries PROVE BoundInv'
    BY <1>0 DEF BoundInv, Adders, Quiet
<1>1. ASSUME NEW h \in Handlers, Create(h) PROVE BoundInv'
    <2>1. entries' = NoEntries /\ state' = "live"
        BY <1>1 DEF Create, BoundInv
    <2> QED
        BY <2>1, NoEntriesLeft DEF BoundInv
<1>2. ASSUME NEW h \in Handlers, Reload(h) PROVE BoundInv'
    <2>1. Adders' \subseteq Adders
        BY <1>2 DEF Reload, Adders, TypeOK
    <2>2. /\ state' = "live"
          /\ \A s \in Snap : entries'[s] <= entries[s]
        BY <1>2 DEF Reload, TypeOK
    <2> QED
        BY <2>1, <2>2, FewerAdders DEF BoundInv
<1>3. ASSUME NEW h \in Handlers, pc[h] # "idle", pc' = [pc EXCEPT ![h] = "idle"],
             state' = state, entries' = entries
      PROVE  BoundInv'
    <2>1. Adders' \subseteq Adders
        BY <1>3 DEF Adders, TypeOK
    <2>2. /\ state' # "absent"
          /\ \A s \in Snap : entries'[s] <= entries[s]
        BY <1>3 DEF TypeOK, BoundInv, Quiet
    <2> QED
        BY <2>1, <2>2, FewerAdders DEF BoundInv
<1>4. ASSUME NEW h \in Handlers, NEW l \in {"read", "saved", "deleted"},
             pc' = [pc EXCEPT ![h] = l], state' # "absent", entries' = entries
      PROVE  BoundInv'
    <2>1. Adders' \subseteq Adders
        BY <1>4 DEF Adders, TypeOK
    <2>2. \A s \in Snap : entries'[s] <= entries[s]
        BY <1>4 DEF TypeOK
    <2> QED
        BY <1>4, <2>1, <2>2, FewerAdders DEF BoundInv
<1>5. ASSUME NEW h \in Handlers, pc[h] # "idle", state' = state, entries' = NoEntries
      PROVE  BoundInv'
    <2>1. state' # "absent"
        BY <1>5 DEF BoundInv, Quiet
    <2> QED
        BY <1>5, <2>1, NoEntriesLeft DEF BoundInv
<1>6. ASSUME NEW h \in Handlers, AddPolicy(h) PROVE BoundInv'
    <2>1. h \in Adders /\ Adders' = Adders \ {h}
        BY <1>6 DEF AddPolicy, Adders, TypeOK
    <2>2. Cardinality(Adders') = Cardinality(Adders) - 1
        BY <2>1, AddersFinite, FS_RemoveElement
    <2>3. \A s \in Snap : entries[s] \in Nat /\ entries'[s] \in Nat
        BY DEF TypeOK
    <2>4. \A s \in Snap : entries'[s] <= entries[s] + 1
        BY <1>6, <2>3 DEF AddPolicy, TypeOK
    <2>5. state' # "absent"
        BY <1>6 DEF AddPolicy, BoundInv, Quiet
    <2>6. \A s \in Snap : entries'[s] + Cardinality(Adders') <= Cardinality(Handlers)
        BY <2>2, <2>3, <2>4, AddersFinite DEF BoundInv
    <2> QED
        BY <2>5, <2>6 DEF BoundInv
<1>7. ASSUME Start \/ StartSkips PROVE BoundInv'
    <2>1. Adders' = {}
        BY <1>7 DEF Start, StartSkips, Restart, Adders
    <2>2. Cardinality(Adders') = 0
        BY <2>1, FS_EmptySet
    <2>3. \A s \in Snap : entries'[s] \in {0, 1}
        BY <1>7 DEF Start, StartSkips, EntriesOf, NoEntries
    <2>4. state' = "absent" => Quiet' /\ entries' = NoEntries
        BY <1>7 DEF Start, StartSkips, Restart, Quiet, EntriesOf, NoEntries
    <2> QED
        BY <2>2, <2>3, <2>4, AddersFinite DEF BoundInv
<1>8. ASSUME NEW h \in Handlers, HandlerStep(h) PROVE BoundInv'
    <2>1. CASE Create(h)
        BY <2>1, <1>1
    <2>2. CASE Reload(h)
        BY <2>2, <1>2
    <2>3. CASE ReloadFails(h)
        BY <2>3, <1>3 DEF ReloadFails
    <2>4. CASE UpdateRead(h)
        BY <2>4, <1>4 DEF UpdateRead
    <2>5. CASE UpdateSave(h)
        BY <2>5, <1>4 DEF UpdateSave, Save
    <2>6. CASE UpdateFails(h)
        BY <2>6, <1>3 DEF UpdateFails
    <2>7. CASE UpdatePolicy(h)
        BY <2>7, <1>5 DEF UpdatePolicy, RemoveByTags
    <2>8. CASE AddPolicy(h)
        BY <2>8, <1>6
    <2>9. CASE Delete(h)
        BY <2>9, <1>4 DEF Delete
    <2>10. CASE RemovePolicy(h)
        BY <2>10, <1>5 DEF RemovePolicy, RemoveByTags
    <2>11. CASE AddPolicyFails(h)
        BY <2>11, <1>3 DEF AddPolicyFails
    <2> QED
        BY <1>8, <2>1, <2>2, <2>3, <2>4, <2>5, <2>6, <2>7, <2>8, <2>9, <2>10, <2>11
        DEF HandlerStep, HandlerContinues
<1>9. ASSUME NEW r \in Runners, RunStep(r) \/ CreateJobFails(r) PROVE BoundInv'
    BY <1>9, <1>0 DEF RunStep, RunContinues, Tick, TriggerNow, SkipDisabled,
                      CreateJob, CreateJobFails, UpdateSchedule
<1>10. CASE JobEnds
    BY <1>10, <1>0 DEF JobEnds
<1>11. CASE UNCHANGED vars
    BY <1>11, <1>0 DEF vars
<1> QED
    BY <1>7, <1>8, <1>9, <1>10, <1>11 DEF Next

(* However requests, runs and restarts interleave, a policy has at most as *)
(* many entries as there are requests served at once.                      *)
THEOREM EntriesBoundedCorrect == Spec => []EntriesBounded
<1>1. TypeOK /\ BoundInv => EntriesBounded
    BY AddersFinite DEF TypeOK, BoundInv, EntriesBounded
<1> QED
    BY <1>1, BoundInit, BoundStep, ScheduleTypeCorrect, PTL DEF Spec
-----------------------------------------------------------------------------
(* The timetable follows the row.                                          *)

(* The timetable is right, or empty after an attempt that failed. *)
InSync ==
    entries = IF missed THEN NoEntries ELSE EntriesOf(state, policy)

(* The handler's copy says what the row says. *)
CopyFresh(h) == state = "live" /\ SnapOf(copy[h]) = SnapOf(policy)

(* Nobody else is serving a request. *)
Alone(h) == \A g \in Handlers : g # h => pc[g] = "idle"

(* What a handler that is alone may rely on at each point of its request. *)
PointInv(h) ==
    /\ pc[h] = "idle" => InSync
    /\ pc[h] = "created" => state = "live" /\ policy.enabled /\ entries = NoEntries
    /\ pc[h] = "reloaded" => CopyFresh(h) /\ policy.enabled /\ entries = NoEntries
    /\ pc[h] = "read" => state = "live" /\ InSync
    /\ pc[h] = "saved" => CopyFresh(h)
    /\ pc[h] = "removed" => CopyFresh(h) /\ policy.enabled /\ entries = NoEntries
    /\ pc[h] = "deleted" => state = "deleted"

SyncInv ==
    ~overlapped => /\ \E h \in Handlers : Alone(h)
                   /\ \A h \in Handlers : Alone(h) => PointInv(h)

(* A row that is not live and enabled calls for no entry. *)
LEMMA NothingCalledFor ==
    ASSUME NEW st, NEW p \in Policy, st # "live" \/ ~p.enabled
    PROVE  EntriesOf(st, p) = NoEntries
    BY DEF EntriesOf, NoEntries

(* One that is calls for exactly the entry AddPolicy adds to none. *)
LEMMA OneCalledFor ==
    ASSUME NEW p \in Policy, NEW q \in Policy, p.enabled, SnapOf(q) = SnapOf(p)
    PROVE  [NoEntries EXCEPT ![SnapOf(q)] = @ + 1] = EntriesOf("live", p)
    BY SnapOfType DEF EntriesOf, NoEntries

(* The entries depend on what a snapshot carries, not on last_run_at. *)
LEMMA EntriesOfSnap ==
    ASSUME NEW st, NEW p \in Policy, NEW q \in Policy, SnapOf(p) = SnapOf(q)
    PROVE  /\ p.enabled = q.enabled
           /\ EntriesOf(st, p) = EntriesOf(st, q)
<1>1. SnapOf(p).enabled = p.enabled /\ SnapOf(q).enabled = q.enabled
    BY SnapOfType
<1> QED
    BY <1>1, Zenon DEF EntriesOf

LEMMA SyncInit == Init /\ TypeOK => SyncInv
<1> SUFFICES ASSUME Init, TypeOK PROVE SyncInv
    OBVIOUS
<1>1. EntriesOf(state, policy) = NoEntries
    BY NothingCalledFor DEF Init, TypeOK
<1>2. \A h \in Handlers : PointInv(h) /\ Alone(h)
    BY <1>1 DEF Init, PointInv, InSync, Alone
<1> QED
    BY <1>2, HandlersAssumption DEF SyncInv

(* Steps that leave row, entries and handlers alone but for the times. *)
LEMMA SyncQuietStep ==
    ASSUME TypeOK, TypeOK', SyncInv, SnapOf(policy') = SnapOf(policy),
           UNCHANGED <<state, entries, handlerVars>>
    PROVE  SyncInv'
<1> USE DEF handlerVars
<1>0. \A h \in Handlers : Alone(h)' = Alone(h)
    BY DEF Alone
<1> SUFFICES ASSUME ~overlapped, NEW h \in Handlers, Alone(h) PROVE PointInv(h)'
    BY <1>0 DEF SyncInv
<1>1. PointInv(h)
    BY DEF SyncInv
<1>2. policy \in Policy /\ policy' \in Policy
    BY DEF TypeOK
<1>3. policy'.enabled = policy.enabled
    BY <1>2, EntriesOfSnap
<1>4. EntriesOf(state', policy') = EntriesOf(state, policy)
    BY <1>2, EntriesOfSnap
<1>5. InSync' = InSync
    BY <1>4 DEF InSync
<1>6. CopyFresh(h)' = CopyFresh(h)
    BY DEF CopyFresh
<1> QED
    BY <1>1, <1>3, <1>5, <1>6 DEF PointInv

(* The steps of a request, one by one. *)
LEMMA SyncHandler ==
    ASSUME TypeOK, TypeOK', NEW h \in Handlers, PointInv(h), HandlerStep(h)
    PROVE  PointInv(h)'
<1> USE DEF rowVars, handlerVars, runVars
<1>0. /\ PointInv(h)
      /\ policy \in Policy /\ policy' \in Policy
      /\ copy[h] \in Policy /\ copy'[h] \in Policy
      /\ pc[h] \in {"idle", "created", "reloaded", "read", "saved", "removed", "deleted"}
    BY DEF TypeOK
<1>1. CASE Create(h)
    <2>1. EntriesOf(state, policy) = NoEntries
        BY <1>0, <1>1, NothingCalledFor DEF Create, Begin
    <2>2. entries = NoEntries
        BY <1>0, <1>1, <2>1 DEF Create, Begin, PointInv, InSync
    <2>3. pc'[h] = "created" /\ state' = "live" /\ entries' = entries
        BY <1>1 DEF Create, Begin, TypeOK
    <2>4. policy'.enabled
        BY <1>1 DEF Create, Begin
    <2> QED
        BY <2>2, <2>3, <2>4 DEF PointInv
<1>2. CASE Reload(h)
    <2>1. pc'[h] = "reloaded" /\ CopyFresh(h)'
        BY <1>2 DEF Reload, TypeOK, CopyFresh
    <2>2. policy.enabled /\ entries = NoEntries
        BY <1>0, <1>2 DEF Reload, PointInv
    <2>3. policy' = policy /\ entries' = entries
        BY <1>2 DEF Reload
    <2> QED
        BY <2>1, <2>2, <2>3 DEF PointInv
<1>3. CASE ReloadFails(h)
    <2>1. pc'[h] = "idle" /\ missed' /\ entries' = entries
        BY <1>3 DEF ReloadFails, TypeOK
    <2>2. entries = NoEntries
        BY <1>0, <1>3 DEF ReloadFails, PointInv
    <2> QED
        BY <2>1, <2>2 DEF PointInv, InSync
<1>4. CASE UpdateRead(h)
    <2>1. pc'[h] = "read" /\ state' = "live"
        BY <1>4 DEF UpdateRead, Begin, TypeOK
    <2>2. InSync'
        BY <1>0, <1>4 DEF UpdateRead, Begin, PointInv, InSync
    <2> QED
        BY <2>1, <2>2 DEF PointInv
<1>5. CASE UpdateSave(h)
    <2>1. pc'[h] = "saved" /\ state' = "live" /\ copy'[h] = policy'
        BY <1>5 DEF UpdateSave, Save, TypeOK
    <2> QED
        BY <2>1 DEF PointInv, CopyFresh
<1>6. CASE UpdateFails(h)
    <2>1. pc'[h] = "idle"
        BY <1>6 DEF UpdateFails, TypeOK
    <2>2. InSync'
        BY <1>0, <1>6 DEF UpdateFails, PointInv, InSync
    <2> QED
        BY <2>1, <2>2 DEF PointInv
<1>7. CASE UpdatePolicy(h)
    <2>1. entries' = NoEntries /\ UNCHANGED <<state, policy, copy>>
        BY <1>7 DEF UpdatePolicy, RemoveByTags
    <2>2. CopyFresh(h) /\ CopyFresh(h)'
        BY <1>0, <1>7, <2>1 DEF UpdatePolicy, PointInv, CopyFresh
    <2>3. copy[h].enabled = policy.enabled
        BY <1>0, <2>2, EntriesOfSnap DEF CopyFresh
    <2>4. CASE copy[h].enabled
        <3>1. pc'[h] = "removed"
            BY <1>7, <2>4 DEF UpdatePolicy, TypeOK
        <3> QED
            BY <2>1, <2>2, <2>3, <2>4, <3>1 DEF PointInv
    <2>5. CASE ~copy[h].enabled
        <3>1. pc'[h] = "idle"
            BY <1>7, <2>5 DEF UpdatePolicy, TypeOK
        <3>2. EntriesOf(state, policy) = NoEntries
            BY <1>0, <2>3, <2>5, NothingCalledFor
        <3> QED
            BY <2>1, <3>1, <3>2 DEF PointInv, InSync
    <2> QED
        BY <2>4, <2>5
<1>8. CASE AddPolicy(h)
    <2>1. pc'[h] = "idle" /\ UNCHANGED <<state, policy>> /\ ~missed'
        BY <1>8 DEF AddPolicy, TypeOK
    <2>2. CopyFresh(h) /\ policy.enabled /\ entries = NoEntries
        BY <1>0, <1>8 DEF AddPolicy, PointInv
    <2>3. entries' = [NoEntries EXCEPT ![SnapOf(copy[h])] = @ + 1]
        BY <1>8, <2>2 DEF AddPolicy
    <2>4. entries' = EntriesOf("live", policy)
        BY <1>0, <2>2, <2>3, OneCalledFor DEF CopyFresh
    <2> QED
        BY <2>1, <2>2, <2>4 DEF PointInv, InSync, CopyFresh
<1>9. CASE Delete(h)
    <2>1. pc'[h] = "deleted" /\ state' = "deleted"
        BY <1>9 DEF Delete, Begin, TypeOK
    <2> QED
        BY <2>1 DEF PointInv
<1>10. CASE RemovePolicy(h)
    <2>1. pc'[h] = "idle" /\ entries' = NoEntries /\ UNCHANGED <<state, policy>>
        BY <1>10 DEF RemovePolicy, RemoveByTags, TypeOK
    <2>2. state = "deleted"
        BY <1>0, <1>10 DEF RemovePolicy, PointInv
    <2>3. EntriesOf(state, policy) = NoEntries
        BY <1>0, <2>2, NothingCalledFor
    <2> QED
        BY <2>1, <2>3 DEF PointInv, InSync
<1>11. CASE AddPolicyFails(h)
    <2>1. pc'[h] = "idle" /\ missed' /\ entries' = entries
        BY <1>11 DEF AddPolicyFails, TypeOK
    <2>2. entries = NoEntries
        BY <1>0, <1>11 DEF AddPolicyFails, PointInv
    <2> QED
        BY <2>1, <2>2 DEF PointInv, InSync
<1> QED
    BY <1>1, <1>2, <1>3, <1>4, <1>5, <1>6, <1>7, <1>8, <1>9, <1>10, <1>11
    DEF HandlerStep, HandlerContinues

(* A step of a handler leaves the others where they are. *)
LEMMA OthersStay ==
    ASSUME TypeOK, NEW h \in Handlers, HandlerStep(h), NEW g \in Handlers, g # h
    PROVE  pc'[g] = pc[g]
<1>1. \E x : pc' = [pc EXCEPT ![h] = x]
    BY DEF HandlerStep, HandlerContinues, Create, Reload, ReloadFails, UpdateRead,
           UpdateSave, UpdateFails, UpdatePolicy, AddPolicy, AddPolicyFails,
           Delete, RemovePolicy
<1> QED
    BY <1>1 DEF TypeOK

(* Who takes a step is alone, unless requests have overlapped. *)
LEMMA OnlyHandler ==
    ASSUME TypeOK, SyncInv, NEW h \in Handlers, HandlerStep(h), ~overlapped'
    PROVE  Alone(h) /\ ~overlapped
<1>1. CASE Create(h) \/ UpdateRead(h) \/ Delete(h)
    <2>1. Begin(h)
        BY <1>1 DEF Create, UpdateRead, Delete
    <2> QED
        BY <2>1 DEF Begin, Alone
<1>2. CASE HandlerContinues(h)
    <2>1. pc[h] # "idle" /\ overlapped' = overlapped
        BY <1>2 DEF HandlerContinues, Reload, ReloadFails, UpdateSave, UpdateFails,
                    UpdatePolicy, AddPolicy, AddPolicyFails, RemovePolicy
    <2> QED
        BY <2>1 DEF SyncInv, Alone
<1> QED
    BY <1>1, <1>2 DEF HandlerStep

LEMMA SyncStep == TypeOK /\ TypeOK' /\ SyncInv /\ [Next]_vars => SyncInv'
<1> SUFFICES ASSUME TypeOK, TypeOK', SyncInv, [Next]_vars PROVE SyncInv'
    OBVIOUS
<1> USE DEF rowVars, handlerVars, runVars
<1>1. ASSUME NEW h \in Handlers, HandlerStep(h) PROVE SyncInv'
    <2> SUFFICES ASSUME ~overlapped' PROVE SyncInv'
        BY DEF SyncInv
    <2>1. Alone(h) /\ ~overlapped
        BY <1>1, OnlyHandler
    <2>2. PointInv(h)'
        BY <1>1, <2>1, SyncHandler DEF SyncInv
    <2>3. \A g \in Handlers : g # h => pc'[g] = "idle"
        BY <1>1, <2>1, OthersStay DEF Alone
    <2>4. Alone(h)'
        BY <2>3 DEF Alone
    <2>5. ASSUME NEW g \in Handlers, Alone(g)', g # h PROVE PointInv(g)'
        <3>1. pc'[h] = "idle" /\ pc'[g] = "idle"
            BY <2>3, <2>5 DEF Alone
        <3>2. InSync'
            BY <2>2, <3>1 DEF PointInv
        <3> QED
            BY <3>1, <3>2 DEF PointInv
    <2> QED
        BY <2>2, <2>4, <2>5 DEF SyncInv
<1>2. ASSUME NEW r \in Runners, RunStep(r) \/ CreateJobFails(r) PROVE SyncInv'
    <2>1. SnapOf(policy') = SnapOf(policy)
        <3>1. CASE UpdateSchedule(r)
            BY <3>1 DEF UpdateSchedule, SnapOf, TypeOK, Policy
        <3>2. CASE ~UpdateSchedule(r)
            BY <1>2, <3>2 DEF RunStep, RunContinues, Tick, TriggerNow,
                              SkipDisabled, CreateJob, CreateJobFails
        <3> QED
            BY <3>1, <3>2
    <2>2. UNCHANGED <<state, entries, handlerVars>>
        BY <1>2 DEF RunStep, RunContinues, Tick, TriggerNow, SkipDisabled,
                    CreateJob, CreateJobFails, UpdateSchedule
    <2> QED
        BY <2>1, <2>2, SyncQuietStep
<1>3. CASE JobEnds
    BY <1>3, SyncQuietStep DEF JobEnds
<1>4. CASE Start \/ StartSkips
    <2>1. \A h \in Handlers : pc'[h] = "idle"
        BY <1>4 DEF Start, StartSkips, Restart
    <2>2. InSync'
        BY <1>4 DEF Start, StartSkips, Restart, InSync
    <2> QED
        BY <2>1, <2>2, HandlersAssumption DEF SyncInv, PointInv, Alone
<1>5. CASE UNCHANGED vars
    BY <1>5, SyncQuietStep DEF vars
<1> QED
    BY <1>1, <1>2, <1>3, <1>4, <1>5 DEF Next

(* Coming one at a time, requests leave the timetable as the row wants it, *)
(* or empty if the latest attempt to schedule the policy failed, for any   *)
(* contents and whatever runs, failures and restarts come between.         *)
THEOREM ScheduleFollowsRowCorrect == Spec => []ScheduleFollowsRow
<1>1. SyncInv => ScheduleFollowsRow
    <2> SUFFICES ASSUME SyncInv, ~overlapped, Quiet
                 PROVE  InSync
        BY DEF ScheduleFollowsRow, InSync
    <2>1. PICK h \in Handlers : TRUE
        BY HandlersAssumption
    <2> QED
        BY <2>1 DEF SyncInv, PointInv, Quiet, Alone
<1> QED
    BY <1>1, SyncInit, SyncStep, ScheduleTypeCorrect, PTL DEF Spec
=============================================================================
