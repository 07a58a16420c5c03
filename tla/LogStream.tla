------------------------------ MODULE LogStream ------------------------------
(***************************************************************************)
(* The log of a running job: the agent opens a StreamLogs call when it     *)
(* reports "running", sends a line at a time, and closes the call after    *)
(* the terminal report; the server publishes each line to the browsers and *)
(* inserts them in batches.                                                *)
(*                                                                         *)
(* Lines are numbered in the order in which the executor writes them.  The *)
(* stream keeps order, and once it has lost a line it delivers none, so    *)
(* what was accepted and received are initial segments.                    *)
(***************************************************************************)
EXTENDS Integers

CONSTANTS
    MaxLines,           \* bound: lines a job writes
    logFlushBatchSize   \* lines per insert (50)

ASSUME LineAssumption == MaxLines \in Nat
ASSUME BatchAssumption == logFlushBatchSize \in Nat \ {0}

VARIABLES
    job,        \* agent: where the job is with its log
    link,       \* network: the connection that carries the stream works
    written,    \* agent: lines the executor has passed to SendLog
    accepted,   \* agent: lines put on the stream while it worked
    handler,    \* server: where StreamLogs is
    received,   \* server: len(entries), each of them published
    flushed,    \* server: index up to which entries were handed to an insert
    stored,     \* database: how often each line is in job_logs
    insertFailed \* history: an insert has failed

agentVars == <<job, written, accepted>>
serverVars == <<handler, received, flushed, stored, insertFailed>>
vars == <<agentVars, link, serverVars>>

Lines == 1 .. MaxLines

-----------------------------------------------------------------------------
Init ==
    /\ job = "starting"
    /\ link = TRUE
    /\ written = 0
    /\ accepted = 0
    /\ handler = "none"
    /\ received = 0
    /\ flushed = 0
    /\ stored = [l \in Lines |-> 0]
    /\ insertFailed = FALSE

-----------------------------------------------------------------------------
(* The agent.                                                              *)

(* openLogStream, before "running" is reported. *)
OpenLogStream ==
    /\ job = "starting"
    /\ link
    /\ job' = "logging"
    /\ handler' = "receiving"
    /\ UNCHANGED <<link, written, accepted, received, flushed, stored, insertFailed>>

(* There is no client, or the call fails: the job runs without a stream. *)
OpenFails ==
    /\ job = "starting"
    /\ ~link
    /\ job' = "silent"
    /\ UNCHANGED <<link, written, accepted, serverVars>>

(* SendLog.  Without a stream the line is dropped; on a broken one Send    *)
(* fails or the line is lost, which is only logged.                        *)
SendLog ==
    /\ job \in {"logging", "silent"}
    /\ written < MaxLines
    /\ written' = written + 1
    /\ accepted' = IF job = "logging" /\ link THEN accepted + 1 ELSE accepted
    /\ UNCHANGED <<job, link, serverVars>>

(* closeLogStream, after the terminal report: CloseAndRecv waits. *)
CloseLogStream ==
    /\ job \in {"logging", "silent"}
    /\ job' = IF job = "logging" THEN "closing" ELSE "closed"
    /\ UNCHANGED <<link, written, accepted, serverVars>>

(* The summary arrives. *)
CloseReturns ==
    /\ job = "closing"
    /\ handler = "answered"
    /\ job' = "acknowledged"
    /\ UNCHANGED <<link, written, accepted, serverVars>>

(* CloseAndRecv fails on the broken connection; the error is only logged. *)
CloseFails ==
    /\ job = "closing"
    /\ ~link
    /\ job' = "closed"
    /\ UNCHANGED <<link, written, accepted, serverVars>>

-----------------------------------------------------------------------------
(* The server's StreamLogs handler.                                        *)

(* Recv returns an entry: it is kept and published, and a full batch is    *)
(* about to be inserted.                                                   *)
Receive ==
    /\ handler = "receiving"
    /\ received < accepted
    /\ received' = received + 1
    /\ handler' = IF received + 1 - flushed >= logFlushBatchSize
                  THEN "flushing" ELSE "receiving"
    /\ UNCHANGED <<agentVars, link, flushed, stored, insertFailed>>

(* Recv returns io.EOF: the agent has closed and all entries are here. *)
ReceiveEOF ==
    /\ handler = "receiving"
    /\ job = "closing"
    /\ received = accepted
    /\ handler' = "finishing"
    /\ UNCHANGED <<agentVars, link, received, flushed, stored, insertFailed>>

(* Recv fails on a broken connection and the handler returns at once. *)
ReceiveError ==
    /\ handler = "receiving"
    /\ ~link
    /\ handler' = "failed"
    /\ UNCHANGED <<agentVars, link, received, flushed, stored, insertFailed>>

(* Mutant: the slice of the batch starts an entry late. *)
FlushBatchSkipsFirst ==
    /\ \/ /\ stored' = [l \in Lines |->
                          IF flushed + 1 < l /\ l <= received THEN stored[l] + 1 ELSE stored[l]]
          /\ UNCHANGED insertFailed
       \/ /\ flushed < received
          /\ insertFailed' = TRUE
          /\ UNCHANGED stored
    /\ flushed' = received

(* flushBatch: one insert of the new entries, which may fail; the error is *)
(* logged and the batch is not tried again.                                *)
FlushBatch ==
    /\ \/ /\ stored' = [l \in Lines |->
                          IF flushed < l /\ l <= received THEN stored[l] + 1 ELSE stored[l]]
          /\ UNCHANGED insertFailed
       \/ /\ flushed < received
          /\ insertFailed' = TRUE
          /\ UNCHANGED stored
    /\ flushed' = received

FlushFull ==
    /\ handler = "flushing"
    /\ FlushBatch
    /\ handler' = "receiving"
    /\ UNCHANGED <<agentVars, link, received>>

(* Mutant: only full batches are inserted. *)
FlushNoRest ==
    /\ handler = "finishing"
    /\ handler' = "answered"
    /\ UNCHANGED <<agentVars, link, received, flushed, stored, insertFailed>>

(* Mutant: the handler returns without its summary. *)
FlushRestSilently ==
    /\ handler = "finishing"
    /\ FlushBatch
    /\ handler' = "failed"
    /\ UNCHANGED <<agentVars, link, received>>

(* The rest is inserted and the summary sent, which may find no reader. *)
FlushRest ==
    /\ handler = "finishing"
    /\ FlushBatch
    /\ handler' = IF link THEN "answered" ELSE "failed"
    /\ UNCHANGED <<agentVars, link, received>>

-----------------------------------------------------------------------------
(* The connection breaks.  A later session brings no new stream: the one   *)
(* of the job stays in logStreams.                                         *)
LinkDown ==
    /\ link
    /\ link' = FALSE
    /\ UNCHANGED <<agentVars, serverVars>>

(* The server dies, and the handler with the lines it holds. *)
ServerCrash ==
    /\ handler \in {"receiving", "flushing", "finishing"}
    /\ handler' = "dead"
    /\ link' = FALSE
    /\ UNCHANGED <<agentVars, received, flushed, stored, insertFailed>>

(* The log is complete on both sides. *)
Over ==
    /\ job \in {"closed", "acknowledged"}
    /\ handler \in {"none", "answered", "failed", "dead"}
    /\ UNCHANGED vars

-----------------------------------------------------------------------------
HandlerStep ==
    \/ Receive
    \/ ReceiveEOF
    \/ ReceiveError
    \/ FlushFull
    \/ FlushRest

AgentStep ==
    \/ OpenLogStream
    \/ OpenFails
    \/ SendLog
    \/ CloseLogStream
    \/ CloseReturns
    \/ CloseFails

Next ==
    \/ AgentStep
    \/ HandlerStep
    \/ LinkDown
    \/ ServerCrash
    \/ Over

Spec == Init /\ [][Next]_vars

(* The server's goroutine is scheduled and its inserts end; the agent's    *)
(* call returns once there is an answer or the connection is broken, which *)
(* its keepalive notices.  The job may take for ever.                      *)
FairSpec ==
    /\ Spec
    /\ WF_vars(HandlerStep)
    /\ WF_vars(CloseReturns)
    /\ WF_vars(CloseFails)

-----------------------------------------------------------------------------
(* Properties.                                                             *)

(* Every variable keeps its type, and no line is in job_logs twice         *)
(* (server.go:617).                                                        *)
TypeOK ==
    /\ job \in {"starting", "logging", "silent", "closing", "closed", "acknowledged"}
    /\ link \in BOOLEAN
    /\ written \in 0 .. MaxLines
    /\ accepted \in 0 .. written
    /\ handler \in {"none", "receiving", "flushing", "finishing", "answered", "failed",
                   "dead"}
    /\ received \in 0 .. accepted
    /\ flushed \in 0 .. received
    /\ stored \in [Lines -> {0, 1}]
    /\ insertFailed \in BOOLEAN

(* A log whose close was acknowledged to the agent is complete: every line *)
(* the executor wrote is stored, unless an insert has failed.              *)
AcknowledgedIsComplete ==
    job = "acknowledged" /\ ~insertFailed => \A l \in 1 .. written : stored[l] = 1

(* What is stored has no gap before a line, unless an insert has failed:   *)
(* whatever breaks, the log loses its end and never its middle.            *)
NoGaps ==
    ~insertFailed => \A l \in Lines : stored[l] = 1 => \A k \in 1 .. l : stored[k] = 1

(* The executor is not held up by its log: the close returns.              *)
CloseEnds == job = "closing" ~> job \in {"closed", "acknowledged"}
=============================================================================
