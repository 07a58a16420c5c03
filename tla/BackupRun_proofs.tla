--------------------------- MODULE BackupRun_proofs ---------------------------
(***************************************************************************)
(* Proofs about BackupRun, for any number of destinations.  The properties *)
(* are not inductive: that a succeeded job left its snapshots depends on   *)
(* how far the loop is, on the results so far, and on every destination    *)
(* being reported only once.                                               *)
(***************************************************************************)
EXTENDS BackupRun, TLAPS

EarlyPhases == {"none", "sent", "resolving", "prehook"}

(* Where the loop is: results exist for the destinations behind it only.   *)
Position ==
    /\ phase \in EarlyPhases => next = 1
    /\ phase \in {"restic", "report", "waiting", "forget"} => next \in Dests
    /\ phase \in {"report", "waiting", "forget"} => result[next] # "none"
    /\ phase = "report" => report[next] = "none"
    /\ phase \in {"posthook", "final"} => next > N

Behind == \A d \in payload \cap urls : d < next => result[d] # "none"

Ahead ==
    \A d \in Dests :
        d > next \/ (d = next /\ phase \in EarlyPhases \cup {"loop", "restic"})
            => result[d] = "none"

(* What a result means for the repository and for the final status. *)
ResultsMatter ==
    \A d \in Dests : /\ result[d] = "succeeded" => d \in repo
                     /\ result[d] = "failed" => backupFailed

(* What the handlers and the rows know of a destination. *)
RowsMatchResults ==
    \A d \in Dests :
        /\ report[d] # "none" => result[d] # "none"
        /\ report[d] = "updated" => result[d] = "succeeded" /\ destRow[d] = "succeeded"
        /\ destRow[d] \in {"succeeded", "failed"} => destRow[d] = result[d]
        /\ snapRows[d] > 0 => report[d] = "closed" /\ destRow[d] = "succeeded"

SuccessIsComplete ==
    jobRow = "succeeded" =>
        /\ phase = "ended"
        /\ ~backupFailed
        /\ \A d \in payload \cap urls : result[d] # "none"

BackupInv ==
    /\ TypeOK
    /\ Position
    /\ Behind
    /\ Ahead
    /\ ResultsMatter
    /\ RowsMatchResults
    /\ SuccessIsComplete

-----------------------------------------------------------------------------
(* The invariant holds before the job is created. *)
LEMMA BackupInit == Init => BackupInv
<1> SUFFICES ASSUME Init PROVE BackupInv
  OBVIOUS
<1> USE NAssumption DEF Init, Dests, EarlyPhases
<1>1. TypeOK
  <2>1. phase \in Phases /\ next \in 1 .. N + 1
    BY DEF Phases
  <2>2. backupFailed \in BOOLEAN /\ ctxDone \in BOOLEAN
    OBVIOUS
  <2>3. /\ result \in [Dests -> {"none", "succeeded", "failed"}]
        /\ destRow \in [Dests -> {"none", "pending", "succeeded", "failed"}]
        /\ snapRows \in [Dests -> 0 .. 1]
        /\ report \in [Dests -> {"none", "called", "updated", "closed"}]
    OBVIOUS
  <2> QED BY <2>1, <2>2, <2>3 DEF TypeOK
<1>2. Position BY DEF Position
<1>3. Behind /\ Ahead BY DEF Behind, Ahead
<1>4. ResultsMatter /\ RowsMatchResults BY DEF ResultsMatter, RowsMatchResults
<1>5. SuccessIsComplete BY DEF SuccessIsComplete
<1> QED BY <1>1, <1>2, <1>3, <1>4, <1>5 DEF BackupInv

(* Steps that move executeBackup without touching a result, a repository   *)
(* or a row of a destination.                                              *)
LEMMA BackupQuietStep ==
  ASSUME BackupInv,
         RejectPayload \/ Start \/ ResolveFails \/ ResolveSources \/ PreHook
           \/ PreHookFails \/ SkipDestination \/ BeginDestination \/ LoopEnds
           \/ Cancelled \/ PostHook \/ Shutdown \/ Crash
  PROVE  BackupInv'
<1> USE NAssumption DEF BackupInv, TypeOK, Position, Behind, Ahead, ResultsMatter,
     RowsMatchResults, SuccessIsComplete, EarlyPhases, Phases, Dests, Fail, ReportStatus,
     inputVars, rowVars, agentVars
<1>1. CASE RejectPayload BY <1>1 DEF RejectPayload
<1>2. CASE Start BY <1>2 DEF Start
<1>3. CASE ResolveFails BY <1>3 DEF ResolveFails
<1>4. CASE ResolveSources BY <1>4 DEF ResolveSources
<1>5. CASE PreHook BY <1>5 DEF PreHook
<1>6. CASE PreHookFails BY <1>6 DEF PreHookFails
<1>7. CASE SkipDestination BY <1>7 DEF SkipDestination
<1>8. CASE BeginDestination BY <1>8 DEF BeginDestination
<1>9. CASE LoopEnds BY <1>9 DEF LoopEnds
<1>10. CASE Cancelled BY <1>10 DEF Cancelled
<1>11. CASE PostHook BY <1>11 DEF PostHook
<1>12. CASE Shutdown BY <1>12 DEF Shutdown
<1>13. CASE Crash BY <1>13 DEF Crash
<1> QED BY <1>1, <1>2, <1>3, <1>4, <1>5, <1>6, <1>7, <1>8, <1>9, <1>10, <1>11, <1>12, <1>13

(* The rows are created and the payload is built. *)
LEMMA BackupCreated == BackupInv /\ CreateAndDispatch => BackupInv'
<1> SUFFICES ASSUME BackupInv, CreateAndDispatch PROVE BackupInv'
  OBVIOUS
<1> USE NAssumption DEF BackupInv, CreateAndDispatch, Dests
<1>1. \A d \in Dests : destRow'[d] \in {"none", "pending"}
  OBVIOUS
<1>2. \A d \in Dests : d \in Int /\ d >= 1
  OBVIOUS
<1>3. next = 1
  BY DEF Position, EarlyPhases
<1>4. TypeOK' BY DEF TypeOK, Phases
<1>5. Position' /\ Behind' /\ Ahead'
  BY <1>2, <1>3 DEF Position, Behind, Ahead, EarlyPhases
<1>6. ResultsMatter' BY DEF ResultsMatter
<1>7. RowsMatchResults'
  BY <1>1, <1>2, <1>3 DEF RowsMatchResults, Ahead, EarlyPhases, TypeOK
<1>8. SuccessIsComplete' BY DEF SuccessIsComplete
<1> QED BY <1>4, <1>5, <1>6, <1>7, <1>8

(* A destination gets its result, which it has only once. *)
LEMMA BackupResult == BackupInv /\ (BackupSucceeds \/ BackupFails) => BackupInv'
<1> SUFFICES ASSUME BackupInv, BackupSucceeds \/ BackupFails PROVE BackupInv'
  OBVIOUS
<1> USE NAssumption DEF BackupInv, BackupSucceeds, BackupFails, inputVars, rowVars
<1>1. next \in Dests /\ phase = "restic" /\ phase' = "report" /\ result[next] = "none"
  BY DEF Position, Ahead, Dests, TypeOK, EarlyPhases
<1>2. /\ result' \in [Dests -> {"none", "succeeded", "failed"}]
      /\ result'[next] \in {"succeeded", "failed"}
      /\ \A d \in Dests : d # next => result'[d] = result[d]
      /\ \A d \in Dests : d \in repo => d \in repo'
      /\ backupFailed => backupFailed'
      /\ result'[next] = "succeeded" => next \in repo'
      /\ result'[next] = "failed" => backupFailed'
  BY <1>1 DEF TypeOK
<1>3. report[next] = "none"
  BY <1>1 DEF RowsMatchResults
<1>4. TypeOK' BY <1>1 DEF TypeOK, Phases
<1>5. Position' BY <1>1, <1>2, <1>3 DEF Position, EarlyPhases
<1>6. Behind' /\ Ahead'
  <2>1. \A d \in payload \cap urls : d \in Dests
    BY DEF TypeOK
  <2>2. Behind' BY <1>1, <1>2, <2>1 DEF Behind
  <2>3. Ahead' BY <1>1, <1>2 DEF Ahead, EarlyPhases, TypeOK, Dests
  <2> QED BY <2>2, <2>3
<1>7. ResultsMatter' BY <1>1, <1>2 DEF ResultsMatter
<1>8. RowsMatchResults'
  BY <1>1, <1>2, <1>3 DEF RowsMatchResults, TypeOK
<1>9. SuccessIsComplete' BY <1>1 DEF SuccessIsComplete
<1> QED BY <1>4, <1>5, <1>6, <1>7, <1>8, <1>9

(* The report on a destination is sent, lost or over, and the loop goes on. *)
LEMMA BackupReportStep ==
  ASSUME BackupInv,
         ReportDestinationResult \/ LoseDestinationResult
           \/ DestinationReportReturns \/ Forget
  PROVE  BackupInv'
<1> USE NAssumption DEF BackupInv, GoOn, inputVars, rowVars
<1>1. CASE ReportDestinationResult
  <2> USE <1>1 DEF ReportDestinationResult
  <2>1. /\ next \in Dests
        /\ result[next] # "none"
        /\ report[next] = "none"
        /\ snapRows[next] = 0
    BY DEF Position, RowsMatchResults, TypeOK
  <2>2. /\ report'[next] = "called"
        /\ \A d \in Dests : d # next => report'[d] = report[d]
    BY <2>1 DEF TypeOK
  <2>3. TypeOK' BY DEF TypeOK, Phases
  <2>4. Position' /\ Behind' /\ Ahead'
    BY <2>1 DEF Position, Behind, Ahead, EarlyPhases
  <2>5. ResultsMatter' /\ SuccessIsComplete'
    BY DEF ResultsMatter, SuccessIsComplete
  <2>6. RowsMatchResults'
    BY <2>1, <2>2 DEF RowsMatchResults
  <2> QED BY <2>3, <2>4, <2>5, <2>6
<1>2. CASE LoseDestinationResult \/ DestinationReportReturns \/ Forget
  <2> USE <1>2 DEF LoseDestinationResult, DestinationReportReturns, Forget
  <2>1. next \in Dests /\ result[next] # "none" /\ next + 1 \in 1 .. N + 1
    BY DEF Position, Dests
  <2>2. \/ phase' = "forget" /\ next' = next
        \/ phase' = "loop" /\ next' = next + 1
    OBVIOUS
  <2>3. TypeOK' BY <2>1, <2>2 DEF TypeOK, Phases
  <2>4. Position' BY <2>1, <2>2 DEF Position, EarlyPhases
  <2>5. Behind'
    <3>1. \A d \in payload \cap urls : d \in Int
      BY DEF TypeOK, Dests
    <3>2. next \in Int
      BY DEF TypeOK
    <3> QED BY <2>1, <2>2, <3>1, <3>2 DEF Behind
  <2>6. Ahead' BY <2>1, <2>2 DEF Ahead, EarlyPhases, TypeOK, Dests
  <2>7. ResultsMatter' /\ RowsMatchResults' /\ SuccessIsComplete'
    BY DEF ResultsMatter, RowsMatchResults, SuccessIsComplete
  <2> QED BY <2>3, <2>4, <2>5, <2>6, <2>7
<1> QED BY <1>1, <1>2

(* The final status. *)
LEMMA BackupFinished == BackupInv /\ Finish => BackupInv'
<1> SUFFICES ASSUME BackupInv, Finish PROVE BackupInv'
  OBVIOUS
<1> USE NAssumption DEF BackupInv, Finish, Fail, ReportStatus, inputVars
<1>1. TypeOK' BY DEF TypeOK, Phases
<1>2. Position' /\ Behind' /\ Ahead'
  BY DEF Position, Behind, Ahead, EarlyPhases
<1>3. ResultsMatter' /\ RowsMatchResults'
  BY DEF ResultsMatter, RowsMatchResults
<1>4. \A d \in payload \cap urls : result[d] # "none"
  BY DEF Position, Behind, TypeOK, Dests
<1>5. SuccessIsComplete' BY <1>4 DEF SuccessIsComplete
<1> QED BY <1>1, <1>2, <1>3, <1>5

(* The handlers of the server and orphan recovery. *)
LEMMA BackupServerStep == BackupInv /\ ServerStep => BackupInv'
<1> SUFFICES ASSUME BackupInv, ServerStep PROVE BackupInv'
  OBVIOUS
<1> USE NAssumption DEF BackupInv, agentVars, inputVars
<1>1. ASSUME NEW d \in Dests, UpdateDestinationStatus(d) PROVE BackupInv'
  <2> USE <1>1 DEF UpdateDestinationStatus
  <2>1. /\ result[d] \in {"succeeded", "failed"}
        /\ report[d] = "called"
        /\ snapRows[d] = 0
    BY DEF RowsMatchResults, TypeOK
  <2>2. /\ \A e \in Dests : e # d => report'[e] = report[e] /\ destRow'[e] = destRow[e]
        /\ report'[d] \in {"updated", "closed"}
        /\ report'[d] = "updated" => result[d] = "succeeded" /\ destRow'[d] = "succeeded"
        /\ destRow'[d] = result[d] \/ destRow'[d] = destRow[d]
    BY <2>1 DEF TypeOK
  <2>3. TypeOK' BY <2>1 DEF TypeOK
  <2>4. Position' BY <2>1, <2>2 DEF Position
  <2>5. Behind' /\ Ahead' /\ ResultsMatter' /\ SuccessIsComplete'
    BY DEF Behind, Ahead, ResultsMatter, SuccessIsComplete
  <2>6. RowsMatchResults' BY <2>1, <2>2 DEF RowsMatchResults
  <2> QED BY <2>3, <2>4, <2>5, <2>6
<1>2. ASSUME NEW d \in Dests, CreateSnapshot(d) PROVE BackupInv'
  <2> USE <1>2 DEF CreateSnapshot
  <2>1. report[d] = "updated" /\ destRow[d] = "succeeded" /\ snapRows[d] = 0
    BY DEF RowsMatchResults, TypeOK
  <2>2. /\ \A e \in Dests : e # d => report'[e] = report[e] /\ snapRows'[e] = snapRows[e]
        /\ report'[d] = "closed"
        /\ snapRows'[d] \in {0, 1}
    BY <2>1 DEF TypeOK
  <2>3. TypeOK' BY <2>1 DEF TypeOK
  <2>4. Position' BY <2>1, <2>2 DEF Position
  <2>5. Behind' /\ Ahead' /\ ResultsMatter' /\ SuccessIsComplete'
    BY DEF Behind, Ahead, ResultsMatter, SuccessIsComplete
  <2>6. RowsMatchResults' BY <2>1, <2>2 DEF RowsMatchResults
  <2> QED BY <2>3, <2>4, <2>5, <2>6
<1>3. CASE OrphanRecovery
  BY <1>3 DEF OrphanRecovery, TypeOK, Position, Behind, Ahead, ResultsMatter,
     RowsMatchResults, SuccessIsComplete
<1>4. CASE ServerRestart
  <2> USE <1>4 DEF ServerRestart
  <2>1. \A d \in Dests : report'[d] = IF report[d] = "none" THEN "none" ELSE "closed"
    OBVIOUS
  <2>2. TypeOK' BY DEF TypeOK
  <2>3. Position' BY <2>1 DEF Position
  <2>4. Behind' /\ Ahead' /\ ResultsMatter' /\ SuccessIsComplete'
    BY DEF Behind, Ahead, ResultsMatter, SuccessIsComplete
  <2>5. RowsMatchResults' BY <2>1 DEF RowsMatchResults
  <2> QED BY <2>2, <2>3, <2>4, <2>5
<1> QED BY <1>1, <1>2, <1>3, <1>4 DEF ServerStep

(* Every step preserves the invariant. *)
LEMMA BackupStep == BackupInv /\ [Next]_vars => BackupInv'
<1> SUFFICES ASSUME BackupInv, [Next]_vars PROVE BackupInv'
  OBVIOUS
<1>1. CASE UNCHANGED vars
  BY <1>1 DEF vars, agentVars, inputVars, rowVars, BackupInv, TypeOK, Position, Behind,
     Ahead, ResultsMatter, RowsMatchResults, SuccessIsComplete
<1>2. CASE Next
  BY <1>2, BackupCreated, BackupQuietStep, BackupResult, BackupReportStep, BackupFinished,
     BackupServerStep DEF Next, ExecuteBackup
<1> QED BY <1>1, <1>2

(* BackupInv is an invariant of the specification. *)
THEOREM BackupInvCorrect == Spec => []BackupInv
<1>1. Init => BackupInv BY BackupInit
<1>2. BackupInv /\ [Next]_vars => BackupInv' BY BackupStep
<1> QED BY <1>1, <1>2, PTL DEF Spec

(* The types hold; a destination never gets a second snapshot row. *)
THEOREM BackupTypeCorrect == Spec => []TypeOK
<1>1. BackupInv => TypeOK BY DEF BackupInv
<1> QED BY <1>1, BackupInvCorrect, PTL

(* A job recorded as succeeded has left a snapshot in every destination    *)
(* that it was sent with.                                                  *)
THEOREM SuccessMeansStoredCorrect == Spec => []SuccessMeansStored
<1>1. BackupInv => SuccessMeansStored
  BY DEF BackupInv, SuccessMeansStored, SuccessIsComplete, ResultsMatter, TypeOK
<1> QED BY <1>1, BackupInvCorrect, PTL

(* A job recorded as succeeded has no destination recorded as failed. *)
THEOREM NoFailedDestinationCorrect == Spec => []NoFailedDestinationOfSuccess
<1>1. BackupInv => NoFailedDestinationOfSuccess
  BY DEF BackupInv, NoFailedDestinationOfSuccess, SuccessIsComplete, ResultsMatter,
     RowsMatchResults
<1> QED BY <1>1, BackupInvCorrect, PTL

(* A snapshot row belongs to a snapshot that is in its repository and to a *)
(* destination recorded as succeeded.                                      *)
THEOREM SnapshotRowsCorrect == Spec => []SnapshotRowsAreReal
<1>1. BackupInv => SnapshotRowsAreReal
  BY DEF BackupInv, SnapshotRowsAreReal, RowsMatchResults, ResultsMatter
<1> QED BY <1>1, BackupInvCorrect, PTL

(* When the loop is over every destination has a result. *)
LEMMA TriedAtEnd == BackupInv => EveryDestinationTried
<1> SUFFICES ASSUME BackupInv, phase \in {"posthook", "final"}
             PROVE  \A d \in payload \cap urls : result[d] # "none"
  BY DEF EveryDestinationTried
<1>1. \A d \in payload \cap urls : d \in Int /\ d <= N
  BY NAssumption DEF BackupInv, TypeOK, Dests
<1>2. next \in Int /\ next > N
  BY NAssumption DEF BackupInv, TypeOK, Position
<1> QED BY NAssumption, <1>1, <1>2 DEF BackupInv, Behind

(* The loop has tried every destination before the final status. *)
THEOREM EveryDestinationTriedCorrect == Spec => []EveryDestinationTried
  BY TriedAtEnd, BackupInvCorrect, PTL

-----------------------------------------------------------------------------
(* Hooks.  The post-backup hook runs when the loop is over, and a loop is  *)
(* only entered with the pre-backup hook behind it.                        *)
HooksInv ==
    /\ "post" \in ran => phase \in {"final", "ended"}
    /\ phase \in EarlyPhases \/ phase = "ended" \/ ("pre" \in hooks => "pre" \in ran)
    /\ HooksEncloseBackup

LEMMA HooksInit == Init => HooksInv
  BY DEF Init, HooksInv, HooksEncloseBackup, EarlyPhases

(* Steps that run no hook and start no job. *)
LEMMA HooksQuietStep ==
    ASSUME HooksInv, UNCHANGED <<ran, hooks, payload, urls>>,
           phase' \in EarlyPhases => phase \in EarlyPhases,
           phase \in EarlyPhases => phase' \in EarlyPhases \cup {"ended"},
           phase' # phase => phase \notin {"final", "ended"} \/ phase' = "ended",
           \A d \in payload \cap urls : result[d] # "none" => result'[d] # "none"
    PROVE  HooksInv'
<1>1. HooksEncloseBackup'
  BY DEF HooksInv, HooksEncloseBackup
<1> QED BY <1>1 DEF HooksInv, EarlyPhases

(* The steps that run a hook, or create the job. *)
LEMMA HooksHookStep ==
    ASSUME BackupInv, HooksInv,
           CreateAndDispatch \/ PreHook \/ PreHookFails \/ PostHook
    PROVE  HooksInv'
<1> USE DEF EarlyPhases, inputVars, rowVars
<1>1. CASE CreateAndDispatch
  BY <1>1 DEF CreateAndDispatch, HooksInv, HooksEncloseBackup, agentVars
<1>2. CASE PreHook
  BY <1>2 DEF PreHook, HooksInv, HooksEncloseBackup
<1>3. CASE PreHookFails
  BY <1>3 DEF PreHookFails, Fail, HooksInv, HooksEncloseBackup
<1>4. CASE PostHook
  <2>1. \A d \in payload \cap urls : result[d] # "none"
    BY <1>4, TriedAtEnd DEF PostHook, EveryDestinationTried
  <2> QED BY <1>4, <2>1 DEF PostHook, HooksInv, HooksEncloseBackup
<1> QED BY <1>1, <1>2, <1>3, <1>4

LEMMA HooksStep == BackupInv /\ BackupInv' /\ HooksInv /\ [Next]_vars => HooksInv'
<1> SUFFICES ASSUME BackupInv, HooksInv, [Next]_vars PROVE HooksInv'
  OBVIOUS
<1> USE DEF EarlyPhases, agentVars, inputVars, rowVars
<1>1. CASE CreateAndDispatch \/ PreHook \/ PreHookFails \/ PostHook
  BY <1>1, HooksHookStep
<1>2. CASE UNCHANGED vars \/ ServerStep
  BY <1>2, HooksQuietStep DEF vars, ServerStep, UpdateDestinationStatus, CreateSnapshot,
     OrphanRecovery, ServerRestart
<1>3. CASE RejectPayload \/ Start \/ ResolveFails \/ ResolveSources
  BY <1>3, HooksQuietStep DEF RejectPayload, Start, ResolveFails, ResolveSources, Fail
<1>4. CASE SkipDestination \/ BeginDestination
  BY <1>4, HooksQuietStep DEF SkipDestination, BeginDestination
<1>5. CASE BackupSucceeds \/ BackupFails
  <2>1. \A d \in Dests : result[d] # "none" => result'[d] # "none"
    BY <1>5 DEF BackupSucceeds, BackupFails, BackupInv, TypeOK
  <2>2. payload \cap urls \subseteq Dests
    BY DEF BackupInv, TypeOK
  <2> QED BY <1>5, <2>1, <2>2, HooksQuietStep DEF BackupSucceeds, BackupFails
<1>6. CASE ReportDestinationResult \/ LoseDestinationResult \/ DestinationReportReturns
  BY <1>6, HooksQuietStep DEF ReportDestinationResult, LoseDestinationResult,
     DestinationReportReturns, GoOn
<1>7. CASE Forget \/ LoopEnds \/ Cancelled
  BY <1>7, HooksQuietStep DEF Forget, LoopEnds, Cancelled
<1>8. CASE Finish \/ Shutdown \/ Crash
  BY <1>8, HooksQuietStep DEF Finish, Fail, Shutdown, Crash
<1> QED
  BY <1>1, <1>2, <1>3, <1>4, <1>5, <1>6, <1>7, <1>8 DEF Next, ExecuteBackup

(* The post-backup hook runs after the pre-backup hook and after all       *)
(* destinations, for any number of them.                                   *)
THEOREM HooksCorrect == Spec => []HooksEncloseBackup
<1>1. HooksInv => HooksEncloseBackup BY DEF HooksInv
<1> QED BY <1>1, HooksInit, HooksStep, BackupInvCorrect, PTL DEF Spec
=============================================================================
