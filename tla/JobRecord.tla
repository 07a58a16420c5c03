------------------------------ MODULE JobRecord ------------------------------
(***************************************************************************)
(* What the jobs table promises about the jobs it records, whatever        *)
(* happens to connections, processes and reports: a row may be behind or   *)
(* too pessimistic, but it never claims more than what an agent has done.  *)
(***************************************************************************)
CONSTANT Jobs

VARIABLES
    record,     \* status of the row
    truth       \* what has happened to the job on its agent

(* Statuses that a report sent at some point of the execution can carry. *)
Reported(t) == CASE t = "none"    -> {}
                 [] t = "started" -> {"running"}
                 [] t = "success" -> {"running", "succeeded"}
                 [] t = "failed"  -> {"running", "failed"}

Init == /\ record = [j \in Jobs |-> "none"]
        /\ truth = [j \in Jobs |-> "none"]

(* The row is inserted. *)
Create(j) == /\ record[j] = "none"
             /\ record' = [record EXCEPT ![j] = "pending"]
             /\ UNCHANGED truth

(* The agent makes progress with a job that has a row: it starts or ends   *)
(* it, never twice.                                                        *)
Advance(j) == /\ record[j] # "none"
              /\ \/ truth[j] = "none" /\ truth' = [truth EXCEPT ![j] = "started"]
                 \/ truth[j] = "none" /\ truth' = [truth EXCEPT ![j] = "failed"]
                 \/ truth[j] = "started" /\ truth' = [truth EXCEPT ![j] = "success"]
                 \/ truth[j] = "started" /\ truth' = [truth EXCEPT ![j] = "failed"]
              /\ UNCHANGED record

(* A report, current or outdated, is written to the row. *)
Write(j) == /\ \E st \in Reported(truth[j]) :
                  record' = [record EXCEPT ![j] = st]
            /\ UNCHANGED truth

(* Rows that say running are given up. *)
GiveUp == /\ \E S \in SUBSET {j \in Jobs : record[j] = "running"} :
                record' = [j \in Jobs |-> IF j \in S THEN "failed" ELSE record[j]]
          /\ UNCHANGED truth

Next == GiveUp \/ \E j \in Jobs : Create(j) \/ Advance(j) \/ Write(j)

Spec == Init /\ [][Next]_<<record, truth>>

(* The promise: a row that says succeeded is about a job that succeeded,   *)
(* and a row that says running or failed about one that was started.       *)
Honest == \A j \in Jobs :
             /\ record[j] = "succeeded" => truth[j] = "success"
             /\ record[j] \in {"running", "failed"} => truth[j] # "none"
=============================================================================
