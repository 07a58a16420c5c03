---------------------------- MODULE DeliveryQueue ----------------------------
(***************************************************************************)
(* The delivery of notifications by email and webhook.  notify stores an   *)
(* event and then, one channel after the other, creates a delivery row,    *)
(* tries to send and saves its copy of the row.  The retrier, a goroutine  *)
(* of its own, lists the pending rows, sends again and saves its copies.   *)
(* Both save whole rows, and a row is pending while its first send is      *)
(* under way, so each may undo what the other wrote.                       *)
(*                                                                         *)
(* SMTP and webhook are configured and enabled: a sender without           *)
(* configuration returns no error, and there is nothing to deliver.        *)
(***************************************************************************)
EXTENDS Integers, FiniteSets

CONSTANTS
    Events,         \* job results and lost agents to notify of
    BatchLimit,     \* rows that ListPendingDeliveries returns (100)
    MaxFaults       \* bound on database errors and server restarts

ASSUME EventsAssumption == IsFiniteSet(Events)
ASSUME BatchAssumption == BatchLimit \in Nat \ {0}
ASSUME FaultsAssumption == MaxFaults \in Nat

VARIABLES
    notifier,       \* [Events -> where its notify is]
    expired,        \* events whose context of 10 seconds is done
    row,            \* [Deliveries -> delivery row]
    born,           \* [Deliveries -> created_at, as the rank of the insert]
    batch,          \* rows that the retrier still has to process
    copy,           \* [Deliveries -> the retrier's copy of the row]
    saving,         \* the row of the batch that was sent and is to be saved
    recipients,     \* is a list of email recipients configured?
    delivered,      \* deliveries that have reached somebody
    failures,       \* [Deliveries -> failed sends of the retrier]
    faults          \* database errors and restarts so far

notifyVars == <<notifier, expired>>
rowVars == <<row, born>>
retrierVars == <<batch, copy, saving>>
ghostVars == <<delivered, failures>>
vars == <<notifyVars, rowVars, retrierVars, recipients, ghostVars, faults>>

maxRetryAttempts == 3

Channels == {"email", "webhook"}
Deliveries == Events \X Channels

Row == [status : {"none", "pending", "sent", "exhausted"},
        attempts : 0 .. maxRetryAttempts,
        next : {"now", "5min", "30min"}]

(* Mutant of NewRow: the counter includes the optimistic send. *)
NewRowCounted == [status |-> "pending", attempts |-> 1, next |-> "now"]

(* A row as enqueueAndSend creates it. *)
NewRow == [status |-> "pending", attempts |-> 0, next |-> "now"]

Places == [at : {"idle", "create", "send", "sent", "failed", "done"}, channel : Channels]

-----------------------------------------------------------------------------
Init ==
    /\ notifier = [e \in Events |-> [at |-> "idle", channel |-> "email"]]
    /\ expired = {}
    /\ row = [d \in Deliveries |-> [NewRow EXCEPT !.status = "none"]]
    /\ born = [d \in Deliveries |-> 0]
    /\ batch = {}
    /\ copy = row
    /\ saving = {}
    /\ recipients \in BOOLEAN
    /\ delivered = {}
    /\ failures = [d \in Deliveries |-> 0]
    /\ faults = 0

(* A database error: one more of them, within the bound. *)
Fault == faults < MaxFaults /\ faults' = faults + 1

-----------------------------------------------------------------------------
(* notify and enqueueAndSend.                                              *)

At(e, place) == notifier[e].at = place
Delivery(e) == <<e, notifier[e].channel>>

GoTo(e, place) == notifier' = [notifier EXCEPT ![e].at = place]

(* After the email comes the webhook, and then notify returns. *)
NextChannel(e) ==
    notifier' = [notifier EXCEPT ![e] =
        IF @.channel = "email" THEN [at |-> "create", channel |-> "webhook"]
                               ELSE [@ EXCEPT !.at = "done"]]

(* notify stores a notification for every active administrator. *)
Notify(e) ==
    /\ At(e, "idle")
    /\ GoTo(e, "create")
    /\ UNCHANGED <<expired, rowVars, retrierVars, recipients, ghostVars, faults>>

(* There is none, or no notification can be stored. *)
NotifyNobody(e) ==
    /\ At(e, "idle")
    /\ GoTo(e, "done")
    /\ UNCHANGED <<expired, rowVars, retrierVars, recipients, ghostVars, faults>>

(* The caller's context ends 10 seconds after its start. *)
Timeout(e) ==
    /\ notifier[e].at \notin {"idle", "done"}
    /\ e \notin expired
    /\ expired' = expired \cup {e}
    /\ UNCHANGED <<notifier, rowVars, retrierVars, recipients, ghostVars, faults>>

CreateDelivery(e) ==
    /\ At(e, "create")
    /\ e \notin expired
    /\ row' = [row EXCEPT ![Delivery(e)] = NewRow]
    /\ born' = [born EXCEPT ![Delivery(e)] =
                   Cardinality({d \in Deliveries : row[d].status # "none"}) + 1]
    /\ GoTo(e, "send")
    /\ UNCHANGED <<expired, retrierVars, recipients, ghostVars, faults>>

CreateDeliveryFails(e) ==
    /\ At(e, "create")
    /\ (e \in expired /\ UNCHANGED faults) \/ Fault
    /\ NextChannel(e)
    /\ UNCHANGED <<expired, rowVars, retrierVars, recipients, ghostVars>>

(* A send returns an error: it broke off before the message was accepted,  *)
(* or after it, when closing the SMTP conversation fails or the answer to  *)
(* the webhook is lost.                                                    *)
SendFails(d) == delivered' \in {delivered, delivered \cup {d}}

(* The optimistic send.  The email goes to the recipients or else to the   *)
(* administrators; the webhook uses the context.                           *)
Send(e) ==
    /\ At(e, "send")
    /\ \/ /\ notifier[e].channel = "webhook" => e \notin expired
          /\ delivered' = delivered \cup {Delivery(e)}
          /\ GoTo(e, "sent")
       \/ /\ SendFails(Delivery(e))
          /\ GoTo(e, "failed")
    /\ UNCHANGED <<expired, rowVars, retrierVars, recipients, failures, faults>>

(* Mutant of SaveResult: the error of the send is overlooked. *)
SaveResultAsSent(e) ==
    /\ notifier[e].at \in {"sent", "failed"}
    /\ e \notin expired
    /\ row' = [row EXCEPT ![Delivery(e)] = [NewRow EXCEPT !.status = "sent"]]
    /\ NextChannel(e)
    /\ UNCHANGED <<expired, born, retrierVars, recipients, ghostVars, faults>>

(* UpdateDelivery saves the row as it was created, with the new status. *)
SaveResult(e) ==
    /\ notifier[e].at \in {"sent", "failed"}
    /\ e \notin expired
    /\ row' = [row EXCEPT ![Delivery(e)] =
                  [NewRow EXCEPT !.status = IF At(e, "sent") THEN "sent" ELSE "pending"]]
    /\ NextChannel(e)
    /\ UNCHANGED <<expired, born, retrierVars, recipients, ghostVars, faults>>

SaveResultFails(e) ==
    /\ notifier[e].at \in {"sent", "failed"}
    /\ (e \in expired /\ UNCHANGED faults) \/ Fault
    /\ NextChannel(e)
    /\ UNCHANGED <<expired, rowVars, retrierVars, recipients, ghostVars>>

-----------------------------------------------------------------------------
(* The retrier.                                                            *)

(* Mutant of Due: rows without next_retry_at are not listed. *)
DueWithTime == {d \in Deliveries : /\ row[d].status = "pending"
                                   /\ row[d].next = "now"
                                   /\ row[d].attempts > 0}

(* Rows that are pending and whose next_retry_at is NULL or in the past. *)
Due == {d \in Deliveries : row[d].status = "pending" /\ row[d].next = "now"}

(* processDeliveries lists the oldest rows that are due. *)
ProcessDeliveries ==
    /\ batch = {}
    /\ Due # {}
    /\ batch' \in SUBSET Due
    /\ IF Cardinality(Due) <= BatchLimit THEN batch' = Due
       ELSE /\ Cardinality(batch') = BatchLimit
            /\ \A d \in batch', c \in Due \ batch' : born[d] <= born[c]
    /\ copy' = [d \in Deliveries |-> IF d \in batch' THEN row[d] ELSE copy[d]]
    /\ saving' = {}
    /\ UNCHANGED <<notifyVars, rowVars, recipients, ghostVars, faults>>

(* It takes the rows in the order of the list. *)
Turn(d) ==
    /\ saving = {}
    /\ d \in batch
    /\ \A c \in batch : born[d] <= born[c]

Processed(d) == batch' = batch \ {d} /\ saving' = {}

(* The parent notification cannot be loaded. *)
RetrySkips(d) ==
    /\ Turn(d)
    /\ Fault
    /\ Processed(d)
    /\ UNCHANGED <<notifyVars, rowVars, copy, recipients, ghostVars>>

(* When the next try is due, after that many attempts. *)
retryBackoff(attempts) == IF attempts = 0 THEN "5min" ELSE "30min"

(* The row after one more attempt. *)
AfterSuccess(r) == [status |-> "sent", attempts |-> r.attempts + 1, next |-> r.next]

(* Mutant of AfterFailure: one attempt too many. *)
AfterFailureTooMany(r) ==
    IF r.attempts + 1 > maxRetryAttempts
    THEN [status |-> "exhausted", attempts |-> r.attempts + 1, next |-> r.next]
    ELSE [status |-> r.status, attempts |-> r.attempts + 1,
          next |-> retryBackoff(r.attempts + 1)]

AfterFailure(r) ==
    IF r.attempts + 1 >= maxRetryAttempts
    THEN [status |-> "exhausted", attempts |-> r.attempts + 1, next |-> r.next]
    ELSE [status |-> r.status, attempts |-> r.attempts + 1,
          next |-> retryBackoff(r.attempts + 1)]

(* The send of retryDelivery succeeds. *)
RetrySucceeds(d) ==
    /\ Turn(d)
    /\ d[2] = "email" => recipients
    /\ copy' = [copy EXCEPT ![d] = AfterSuccess(@)]
    /\ delivered' = delivered \cup {d}
    /\ saving' = {d}
    /\ UNCHANGED <<notifyVars, rowVars, batch, recipients, failures, faults>>

(* An email to nobody succeeds: no recipients are configured, or reading   *)
(* them fails.                                                             *)
RetryToNobody(d) ==
    /\ Turn(d)
    /\ d[2] = "email"
    /\ (~recipients /\ UNCHANGED faults) \/ Fault
    /\ copy' = [copy EXCEPT ![d] = AfterSuccess(@)]
    /\ saving' = {d}
    /\ UNCHANGED <<notifyVars, rowVars, batch, recipients, ghostVars>>

(* The send fails, perhaps after the message got through. *)
RetryFails(d) ==
    /\ Turn(d)
    /\ d[2] = "email" => recipients
    /\ copy' = [copy EXCEPT ![d] = AfterFailure(@)]
    /\ SendFails(d)
    /\ failures' = [failures EXCEPT ![d] = IF @ < maxRetryAttempts THEN @ + 1 ELSE @]
    /\ saving' = {d}
    /\ UNCHANGED <<notifyVars, rowVars, batch, recipients, faults>>

(* UpdateDelivery saves the whole copy. *)
RetrySave(d) ==
    /\ saving = {d}
    /\ row' = [row EXCEPT ![d] = copy[d]]
    /\ Processed(d)
    /\ UNCHANGED <<notifyVars, born, copy, recipients, ghostVars, faults>>

RetrySaveFails(d) ==
    /\ saving = {d}
    /\ Fault
    /\ Processed(d)
    /\ UNCHANGED <<notifyVars, rowVars, copy, recipients, ghostVars>>

(* next_retry_at gets into the past. *)
BecomesDue(d) ==
    /\ row[d].next # "now"
    /\ row' = [row EXCEPT ![d].next = "now"]
    /\ UNCHANGED <<notifyVars, born, retrierVars, recipients, ghostVars, faults>>

(* The server restarts: the goroutines are gone, the rows are not. *)
ServerRestart ==
    /\ Fault
    /\ notifier' = [e \in Events |-> IF At(e, "idle") THEN notifier[e]
                                     ELSE [notifier[e] EXCEPT !.at = "done"]]
    /\ batch' = {}
    /\ saving' = {}
    /\ UNCHANGED <<expired, rowVars, copy, recipients, ghostVars>>

-----------------------------------------------------------------------------
NotifierStep(e) ==
    \/ CreateDelivery(e)
    \/ CreateDeliveryFails(e)
    \/ Send(e)
    \/ SaveResult(e)
    \/ SaveResultFails(e)

RetryDelivery(d) ==
    \/ RetrySkips(d)
    \/ RetrySucceeds(d)
    \/ RetryToNobody(d)
    \/ RetryFails(d)
    \/ RetrySave(d)
    \/ RetrySaveFails(d)

RetrierStep == ProcessDeliveries \/ \E d \in Deliveries : RetryDelivery(d)

Next ==
    \/ \E e \in Events : Notify(e) \/ NotifyNobody(e) \/ Timeout(e) \/ NotifierStep(e)
    \/ RetrierStep
    \/ \E d \in Deliveries : BecomesDue(d)
    \/ ServerRestart

Spec == Init /\ [][Next]_vars

(* The goroutines are scheduled, the ticker ticks and the clock goes on.   *)
(* Sends end: the webhook client has a timeout; of an SMTP server it is    *)
(* assumed that it answers or that its connection breaks.                  *)
FairSpec ==
    /\ Spec
    /\ \A e \in Events : WF_vars(NotifierStep(e))
    /\ WF_vars(RetrierStep)
    /\ \A d \in Deliveries : WF_vars(BecomesDue(d))

-----------------------------------------------------------------------------
(* Properties.                                                             *)

(* Every variable keeps its type; a row never counts more attempts than    *)
(* maxRetryAttempts, whoever saved it last.                                *)
TypeOK ==
    /\ notifier \in [Events -> Places]
    /\ expired \subseteq Events
    /\ row \in [Deliveries -> Row]
    /\ born \in [Deliveries -> Nat]
    /\ batch \subseteq Deliveries
    /\ copy \in [Deliveries -> Row]
    /\ saving \subseteq batch
    /\ recipients \in BOOLEAN
    /\ delivered \subseteq Deliveries
    /\ failures \in [Deliveries -> 0 .. maxRetryAttempts]
    /\ faults \in 0 .. MaxFaults

(* A webhook row that says sent has been delivered, although two writers   *)
(* save their own copies of it.                                            *)
SentWebhookWasDelivered ==
    \A e \in Events :
        row[<<e, "webhook">>].status = "sent" => <<e, "webhook">> \in delivered

(* A delivery is given up only after maxRetryAttempts sends of the retrier *)
(* have failed, also when a late save sets its counter back.               *)
ExhaustedAfterAllAttempts ==
    \A d \in Deliveries :
        row[d].status = "exhausted" => failures[d] = maxRetryAttempts

(* Every delivery that got a row is decided: it does not stay pending,     *)
(* whatever the restarts and however short the batch.                      *)
DeliveryIsDecided ==
    \A d \in Deliveries :
        row[d].status = "pending" ~> row[d].status \in {"sent", "exhausted"}

=============================================================================
