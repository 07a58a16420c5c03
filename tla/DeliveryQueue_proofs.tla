------------------------- MODULE DeliveryQueue_proofs -------------------------
(***************************************************************************)
(* Proofs about DeliveryQueue, for any finite set of events, any batch     *)
(* limit and any number of faults.  The invariant follows a row into the   *)
(* copies that notify and the retrier hold of it: whichever copy is saved, *)
(* the row it makes is sound.                                              *)
(***************************************************************************)
EXTENDS DeliveryQueue, TLAPS, FiniteSetTheorems

(* What the status and the counter of a row may say of the delivery d. *)
SoundRow(r, d) ==
    /\ r.status = "sent" /\ d[2] = "webhook" => d \in delivered
    /\ r.status = "exhausted" => failures[d] = maxRetryAttempts
    /\ r.status = "pending" => r.attempts <= failures[d] /\ r.attempts < maxRetryAttempts

RowsSound == \A d \in Deliveries : SoundRow(row[d], d)

(* The retrier holds pending rows, except for the one that it has sent. *)
CopiesSound ==
    /\ \A d \in batch : SoundRow(copy[d], d)
    /\ \A d \in batch \ saving : copy[d].status = "pending"

(* A webhook that notify is about to mark as sent has been delivered. *)
SentIsTrue ==
    \A e \in Events :
        notifier[e].at = "sent" /\ notifier[e].channel = "webhook"
            => <<e, "webhook">> \in delivered

DeliveryInv ==
    /\ TypeOK
    /\ RowsSound
    /\ CopiesSound
    /\ SentIsTrue

-----------------------------------------------------------------------------
(* The rank of a new row is a number, since there are finitely many rows. *)
LEMMA RankIsNat == Cardinality({d \in Deliveries : row[d].status # "none"}) \in Nat
<1>1. IsFiniteSet(Channels)
  <2>1. Channels = {"email"} \cup {"webhook"}
    BY DEF Channels
  <2>2. IsFiniteSet({"email"})
    BY FS_Singleton
  <2> QED BY <2>1, <2>2, FS_AddElement
<1>2. IsFiniteSet(Deliveries)
  BY <1>1, EventsAssumption, FS_Product DEF Deliveries
<1>3. IsFiniteSet({d \in Deliveries : row[d].status # "none"})
  BY <1>2, FS_Subset
<1> QED BY <1>3, FS_CardinalityType

(* What an attempt makes of a pending row. *)
LEMMA AttemptedRow ==
  ASSUME NEW r \in Row, r.status = "pending", r.attempts < maxRetryAttempts
  PROVE  /\ AfterSuccess(r) \in Row
         /\ AfterSuccess(r).status = "sent"
         /\ AfterFailure(r) \in Row
         /\ AfterFailure(r).attempts = r.attempts + 1
         /\ \/ AfterFailure(r).status = "exhausted" /\ r.attempts = maxRetryAttempts - 1
            \/ /\ AfterFailure(r).status = "pending"
               /\ AfterFailure(r).attempts < maxRetryAttempts
<1> USE DEF maxRetryAttempts
<1>1. r.attempts \in 0 .. 2 /\ r.next \in {"now", "5min", "30min"}
  BY DEF Row
<1>2. retryBackoff(r.attempts + 1) \in {"5min", "30min"}
  BY DEF retryBackoff
<1>3. AfterSuccess(r) \in Row /\ AfterSuccess(r).status = "sent"
  BY <1>1 DEF AfterSuccess, Row
<1>4. CASE r.attempts = 2
  BY <1>1, <1>3, <1>4 DEF AfterFailure, Row
<1>5. CASE r.attempts # 2
  BY <1>1, <1>2, <1>3, <1>5 DEF AfterFailure, Row
<1> QED BY <1>4, <1>5

(* A row as it is created, or saved by notify, is a row. *)
LEMMA NewRowType ==
  /\ NewRow \in Row
  /\ NewRow.status = "pending" /\ NewRow.attempts = 0
  /\ [NewRow EXCEPT !.status = "none"] \in Row
  /\ [NewRow EXCEPT !.status = "sent"] \in Row
  /\ [NewRow EXCEPT !.status = "pending"] = NewRow
  BY DEF NewRow, Row, maxRetryAttempts

(* The invariant holds before the first event. *)
LEMMA DeliveryInit == Init => DeliveryInv
<1> SUFFICES ASSUME Init PROVE DeliveryInv
  OBVIOUS
<1> USE FaultsAssumption DEF Init
<1>1. [NewRow EXCEPT !.status = "none"].status = "none"
  BY DEF NewRow
<1>2. notifier \in [Events -> Places]
  BY DEF Places, Channels
<1>3. row \in [Deliveries -> Row]
  BY NewRowType
<1>4. recipients \in BOOLEAN
  OBVIOUS
<1>5. failures \in [Deliveries -> 0 .. maxRetryAttempts] /\ faults \in 0 .. MaxFaults
  BY DEF maxRetryAttempts
<1>6. TypeOK
  BY <1>2, <1>3, <1>4, <1>5 DEF TypeOK
<1>7. RowsSound
  BY <1>1 DEF RowsSound, SoundRow
<1>8. CopiesSound /\ SentIsTrue
  BY DEF CopiesSound, SentIsTrue
<1> QED BY <1>6, <1>7, <1>8 DEF DeliveryInv

-----------------------------------------------------------------------------
(* Steps of notify that write no row. *)
LEMMA NotifyMoves ==
  ASSUME DeliveryInv, NEW e \in Events,
         Notify(e) \/ NotifyNobody(e) \/ Timeout(e) \/ CreateDeliveryFails(e)
           \/ SaveResultFails(e)
  PROVE  DeliveryInv'
<1> USE DEF DeliveryInv, Notify, NotifyNobody, Timeout, CreateDeliveryFails,
        SaveResultFails, GoTo, NextChannel, At, Fault, rowVars, retrierVars, ghostVars
<1>1. /\ notifier' \in [Events -> Places]
      /\ \A f \in Events : f # e => notifier'[f] = notifier[f]
      /\ notifier'[e] = notifier[e] \/ notifier'[e].at # "sent"
  BY DEF TypeOK, Places, Channels
<1>2. faults' \in 0 .. MaxFaults
  BY FaultsAssumption DEF TypeOK
<1>3. TypeOK'
  BY <1>1, <1>2 DEF TypeOK
<1>4. RowsSound' /\ CopiesSound'
  BY DEF RowsSound, CopiesSound, SoundRow
<1>5. SentIsTrue'
  BY <1>1 DEF SentIsTrue
<1> QED BY <1>3, <1>4, <1>5

(* A new row is sound. *)
LEMMA DeliveryCreated ==
  ASSUME DeliveryInv, NEW e \in Events, CreateDelivery(e)
  PROVE  DeliveryInv'
<1> USE DEF DeliveryInv, CreateDelivery, GoTo, At, retrierVars, ghostVars
<1>1. Delivery(e) \in Deliveries
  BY DEF Delivery, Deliveries, TypeOK, Places
<1>2. /\ notifier' \in [Events -> Places]
      /\ \A f \in Events : f # e => notifier'[f] = notifier[f]
      /\ notifier'[e].at = "send"
  BY DEF TypeOK, Places
<1>3. /\ row' \in [Deliveries -> Row]
      /\ row'[Delivery(e)] = NewRow
      /\ \A d \in Deliveries : d # Delivery(e) => row'[d] = row[d]
  BY <1>1, NewRowType DEF TypeOK
<1>4. born' \in [Deliveries -> Nat]
  <2> DEFINE rank == Cardinality({d \in Deliveries : row[d].status # "none"})
  <2>1. rank + 1 \in Nat
    BY RankIsNat
  <2>2. born' = [born EXCEPT ![Delivery(e)] = rank + 1]
    OBVIOUS
  <2> HIDE DEF rank
  <2> QED BY <2>1, <2>2 DEF TypeOK
<1>5. TypeOK'
  BY <1>2, <1>3, <1>4 DEF TypeOK
<1>6. RowsSound'
  BY <1>1, <1>3, NewRowType DEF RowsSound, SoundRow, TypeOK, maxRetryAttempts
<1>7. CopiesSound'
  BY DEF CopiesSound, SoundRow
<1>8. SentIsTrue'
  BY <1>2 DEF SentIsTrue
<1> QED BY <1>5, <1>6, <1>7, <1>8

(* The optimistic send; a delivery stays delivered. *)
LEMMA DeliverySent ==
  ASSUME DeliveryInv, NEW e \in Events, Send(e)
  PROVE  DeliveryInv'
<1> USE DEF DeliveryInv, Send, SendFails, GoTo, At, rowVars, retrierVars
<1>1. Delivery(e) \in Deliveries
  BY DEF Delivery, Deliveries, TypeOK, Places
<1>2. /\ notifier' \in [Events -> Places]
      /\ \A f \in Events : f # e => notifier'[f] = notifier[f]
      /\ notifier'[e].channel = notifier[e].channel
      /\ notifier'[e].at = "sent" => Delivery(e) \in delivered'
  BY DEF TypeOK, Places
<1>3. delivered \subseteq delivered' /\ delivered' \subseteq Deliveries
  BY <1>1 DEF TypeOK
<1>4. TypeOK'
  BY <1>2, <1>3 DEF TypeOK
<1>5. RowsSound' /\ CopiesSound'
  BY <1>3 DEF RowsSound, CopiesSound, SoundRow
<1>6. SentIsTrue'
  BY <1>2, <1>3 DEF SentIsTrue, Delivery
<1> QED BY <1>4, <1>5, <1>6

(* notify saves its result over whatever the retrier wrote. *)
LEMMA DeliveryResultSaved ==
  ASSUME DeliveryInv, NEW e \in Events, SaveResult(e)
  PROVE  DeliveryInv'
<1> USE DEF DeliveryInv, SaveResult, NextChannel, At, retrierVars, ghostVars
<1>1. Delivery(e) \in Deliveries /\ Delivery(e)[2] = notifier[e].channel
  BY DEF Delivery, Deliveries, TypeOK, Places
<1>2. /\ notifier' \in [Events -> Places]
      /\ \A f \in Events : f # e => notifier'[f] = notifier[f]
      /\ notifier'[e].at # "sent"
  BY DEF TypeOK, Places, Channels
<1> DEFINE new == [NewRow EXCEPT !.status = IF notifier[e].at = "sent" THEN "sent" ELSE "pending"]
<1>3. /\ new \in Row
      /\ notifier[e].at = "sent" => new.status = "sent"
      /\ notifier[e].at # "sent" => new.status = "pending" /\ new.attempts = 0
  BY DEF NewRow, Row, maxRetryAttempts
<1>4. /\ row' \in [Deliveries -> Row]
      /\ row'[Delivery(e)] = new
      /\ \A d \in Deliveries : d # Delivery(e) => row'[d] = row[d]
  BY <1>1, <1>3 DEF TypeOK
<1>5. TypeOK'
  BY <1>2, <1>4 DEF TypeOK
<1>6. SoundRow(new, Delivery(e))
  <2>1. CASE notifier[e].at = "sent"
    <3>1. new.status = "sent"
      BY <2>1, <1>3
    <3>2. notifier[e].channel = "webhook" => Delivery(e) \in delivered
      BY <2>1 DEF SentIsTrue, Delivery
    <3> HIDE DEF new
    <3> QED BY <3>1, <3>2, <1>1 DEF SoundRow
  <2>2. CASE notifier[e].at # "sent"
    <3>1. new.status = "pending" /\ new.attempts = 0
      BY <2>2, <1>3
    <3>2. failures[Delivery(e)] \in Nat
      BY <1>1 DEF TypeOK
    <3> HIDE DEF new
    <3> QED BY <3>1, <3>2 DEF SoundRow, maxRetryAttempts
  <2> QED BY <2>1, <2>2
<1>7. RowsSound'
  <2> HIDE DEF new
  <2> QED BY <1>1, <1>4, <1>6 DEF RowsSound, SoundRow
<1>8. CopiesSound'
  BY DEF CopiesSound, SoundRow
<1>9. SentIsTrue'
  BY <1>2 DEF SentIsTrue
<1> QED BY <1>5, <1>7, <1>8, <1>9

-----------------------------------------------------------------------------
(* The retrier lists pending rows, which are sound. *)
LEMMA DeliveriesListed ==
  ASSUME DeliveryInv, ProcessDeliveries
  PROVE  DeliveryInv'
<1> USE DEF DeliveryInv, ProcessDeliveries, notifyVars, rowVars, ghostVars
<1>1. batch' \subseteq Due /\ Due \subseteq Deliveries
  BY DEF Due
<1>2. \A d \in batch' : copy'[d] = row[d] /\ row[d].status = "pending"
  BY <1>1 DEF Due
<1>3. copy' \in [Deliveries -> Row]
  BY DEF TypeOK
<1>4. TypeOK'
  BY <1>1, <1>3 DEF TypeOK
<1>5. RowsSound' /\ SentIsTrue'
  BY DEF RowsSound, SoundRow, SentIsTrue
<1>6. CopiesSound'
  BY <1>1, <1>2 DEF CopiesSound, RowsSound, SoundRow
<1> QED BY <1>4, <1>5, <1>6

(* The retrier sends a row and changes its copy. *)
LEMMA DeliveryRetried ==
  ASSUME DeliveryInv, NEW d \in Deliveries,
         RetrySucceeds(d) \/ RetryToNobody(d) \/ RetryFails(d)
  PROVE  DeliveryInv'
<1> USE DEF DeliveryInv, RetrySucceeds, RetryToNobody, RetryFails, SendFails, Turn, Fault,
        notifyVars, rowVars, ghostVars
<1>1. /\ d \in batch /\ saving = {} /\ saving' = {d} /\ batch' = batch
      /\ batch \subseteq Deliveries
      /\ copy[d] \in Row /\ copy[d].status = "pending"
      /\ copy[d].attempts < maxRetryAttempts /\ copy[d].attempts <= failures[d]
  BY DEF CopiesSound, SoundRow, TypeOK
<1>2. /\ delivered \subseteq delivered' /\ delivered' \subseteq Deliveries
      /\ faults' \in 0 .. MaxFaults
  BY FaultsAssumption DEF TypeOK
<1>3. /\ failures' \in [Deliveries -> 0 .. maxRetryAttempts]
      /\ \A c \in Deliveries : failures'[c] \in Nat /\ failures[c] <= failures'[c]
      /\ \A c \in Deliveries : failures[c] = maxRetryAttempts => failures'[c] = maxRetryAttempts
  BY DEF TypeOK, maxRetryAttempts
<1>4. /\ copy' \in [Deliveries -> Row]
      /\ \A c \in Deliveries : c # d => copy'[c] = copy[c]
      /\ copy'[d] = AfterSuccess(copy[d]) \/ copy'[d] = AfterFailure(copy[d])
  BY <1>1, AttemptedRow DEF TypeOK
<1>5. \A c \in Deliveries, r \in Row : SoundRow(r, c) => SoundRow(r, c)'
  BY <1>2, <1>3 DEF SoundRow, TypeOK, Row, maxRetryAttempts
<1>6. SoundRow(copy[d], d)
  BY <1>1 DEF CopiesSound
<1>7. SoundRow(copy[d], d)'
  <2>1. CASE RetrySucceeds(d) \/ RetryToNobody(d)
    <3>1. copy'[d] = AfterSuccess(copy[d])
      BY <2>1 DEF TypeOK
    <3>2. copy'[d].status = "sent"
      BY <3>1, <1>1, AttemptedRow
    <3>3. d[2] = "webhook" => d \in delivered'
      BY <2>1
    <3> QED BY <3>2, <3>3 DEF SoundRow
  <2>2. CASE RetryFails(d)
    <3>1. copy'[d] = AfterFailure(copy[d])
      BY <2>2 DEF TypeOK
    <3>2. copy[d].attempts \in Nat /\ failures[d] \in 0 .. maxRetryAttempts
      BY <1>1 DEF TypeOK, Row
    <3>3. failures'[d] = IF failures[d] < maxRetryAttempts THEN failures[d] + 1
                                                          ELSE failures[d]
      BY <2>2 DEF TypeOK
    <3>4. /\ copy'[d].attempts = copy[d].attempts + 1
          /\ \/ /\ copy'[d].status = "exhausted"
                /\ copy[d].attempts = maxRetryAttempts - 1
             \/ /\ copy'[d].status = "pending"
                /\ copy'[d].attempts < maxRetryAttempts
      BY <3>1, <1>1, AttemptedRow
    <3> QED BY <1>1, <3>2, <3>3, <3>4 DEF SoundRow, maxRetryAttempts
  <2> QED BY <2>1, <2>2
<1>8. TypeOK'
  BY <1>1, <1>2, <1>3, <1>4 DEF TypeOK
<1>9. RowsSound'
  BY <1>5 DEF RowsSound, TypeOK
<1>10. CopiesSound'
  BY <1>1, <1>4, <1>5, <1>7 DEF CopiesSound, TypeOK
<1>11. SentIsTrue'
  BY <1>2 DEF SentIsTrue
<1> QED BY <1>8, <1>9, <1>10, <1>11

(* The retrier is done with a row, which it has saved or not. *)
LEMMA DeliveryProcessed ==
  ASSUME DeliveryInv, NEW d \in Deliveries,
         RetrySkips(d) \/ RetrySave(d) \/ RetrySaveFails(d)
  PROVE  DeliveryInv'
<1> USE DEF DeliveryInv, RetrySkips, RetrySave, RetrySaveFails, Turn, Processed, Fault,
        notifyVars, rowVars, ghostVars
<1>1. /\ batch' = batch \ {d} /\ saving' = {} /\ saving \subseteq {d}
      /\ d \in batch /\ batch \subseteq Deliveries
      /\ faults' \in 0 .. MaxFaults
  BY FaultsAssumption DEF TypeOK
<1>2. /\ row' \in [Deliveries -> Row]
      /\ \A c \in Deliveries : c # d => row'[c] = row[c]
      /\ row'[d] = row[d] \/ row'[d] = copy[d]
  BY DEF TypeOK
<1>3. TypeOK'
  BY <1>1, <1>2 DEF TypeOK
<1>4. RowsSound'
  BY <1>1, <1>2 DEF RowsSound, CopiesSound, SoundRow
<1>5. CopiesSound'
  BY <1>1 DEF CopiesSound, SoundRow
<1>6. SentIsTrue'
  BY DEF SentIsTrue
<1> QED BY <1>3, <1>4, <1>5, <1>6

(* The clock and a restart leave status and counter of a row alone. *)
LEMMA DeliveryRestarted ==
  ASSUME DeliveryInv, ServerRestart \/ (\E d \in Deliveries : BecomesDue(d))
  PROVE  DeliveryInv'
<1> USE DEF DeliveryInv, notifyVars, rowVars, retrierVars, ghostVars
<1>1. CASE ServerRestart
  <2> USE <1>1 DEF ServerRestart, Fault
  <2>1. /\ notifier' \in [Events -> Places]
        /\ \A e \in Events : notifier'[e].at # "sent"
    BY DEF TypeOK, Places, At
  <2>2. faults' \in 0 .. MaxFaults
    BY FaultsAssumption DEF TypeOK
  <2>3. TypeOK'
    BY <2>1, <2>2 DEF TypeOK
  <2> QED BY <2>1, <2>3 DEF RowsSound, CopiesSound, SoundRow, SentIsTrue
<1>2. CASE \E d \in Deliveries : BecomesDue(d)
  <2> PICK d \in Deliveries : BecomesDue(d)
    BY <1>2
  <2> USE DEF BecomesDue
  <2>1. /\ row' \in [Deliveries -> Row]
        /\ \A c \in Deliveries : /\ row'[c].status = row[c].status
                                 /\ row'[c].attempts = row[c].attempts
    BY DEF TypeOK, Row
  <2>2. TypeOK'
    BY <2>1 DEF TypeOK
  <2>3. RowsSound'
    BY <2>1 DEF RowsSound, SoundRow
  <2> QED BY <2>2, <2>3 DEF CopiesSound, SoundRow, SentIsTrue
<1> QED BY <1>1, <1>2

(* Every step preserves the invariant. *)
LEMMA DeliveryStep == DeliveryInv /\ [Next]_vars => DeliveryInv'
<1> SUFFICES ASSUME DeliveryInv, [Next]_vars PROVE DeliveryInv'
  OBVIOUS
<1>1. CASE UNCHANGED vars
  BY <1>1 DEF vars, notifyVars, rowVars, retrierVars, ghostVars, DeliveryInv, TypeOK,
     RowsSound, CopiesSound, SoundRow, SentIsTrue
<1>2. CASE Next
  BY <1>2, NotifyMoves, DeliveryCreated, DeliverySent, DeliveryResultSaved,
     DeliveriesListed, DeliveryRetried, DeliveryProcessed, DeliveryRestarted
     DEF Next, NotifierStep, RetrierStep, RetryDelivery
<1> QED BY <1>1, <1>2

(* DeliveryInv is an invariant of the specification. *)
THEOREM DeliveryInvCorrect == Spec => []DeliveryInv
<1>1. Init => DeliveryInv BY DeliveryInit
<1>2. DeliveryInv /\ [Next]_vars => DeliveryInv' BY DeliveryStep
<1> QED BY <1>1, <1>2, PTL DEF Spec

(* The types hold; no row counts more attempts than the limit. *)
THEOREM DeliveryTypeCorrect == Spec => []TypeOK
<1>1. DeliveryInv => TypeOK BY DEF DeliveryInv
<1> QED BY <1>1, DeliveryInvCorrect, PTL

(* A webhook row that says sent has been delivered. *)
THEOREM SentWebhookCorrect == Spec => []SentWebhookWasDelivered
<1>1. DeliveryInv => SentWebhookWasDelivered
  BY DEF DeliveryInv, RowsSound, SoundRow, SentWebhookWasDelivered, Deliveries, Channels
<1> QED BY <1>1, DeliveryInvCorrect, PTL

(* A delivery is given up only after maxRetryAttempts failed retries. *)
THEOREM ExhaustedCorrect == Spec => []ExhaustedAfterAllAttempts
<1>1. DeliveryInv => ExhaustedAfterAllAttempts
  BY DEF DeliveryInv, RowsSound, SoundRow, ExhaustedAfterAllAttempts
<1> QED BY <1>1, DeliveryInvCorrect, PTL
=============================================================================
