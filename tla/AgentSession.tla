---------------------------- MODULE AgentSession ----------------------------
(***************************************************************************)
(* The session between an agent and the server: the agent's connection     *)
(* loop (agent/internal/connection), the server's Register, Heartbeat and  *)
(* StreamJobs handlers (server/internal/grpc), the in-memory registry of   *)
(* streams (server/internal/agentmanager) and the status column of the     *)
(* agents table (server/internal/repositories).                            *)
(*                                                                         *)
(* Every call of connect is a session with a number of its own.  The       *)
(* server runs one StreamJobs goroutine per session; the goroutine of an   *)
(* old session may still be cleaning up when the next one registers.       *)
(***************************************************************************)
EXTENDS Integers

CONSTANTS
    Agents,             \* agents that have a row in the agents table
    MaxSessions,        \* bound: sessions one agent opens
    MaxServerRestarts,  \* bound: times the server process restarts
    BackoffInitial,     \* backoffInitial of the reconnect loop
    BackoffMax          \* backoffMax of the reconnect loop

ASSUME SessionBounds == MaxSessions \in Nat \ {0} /\ MaxServerRestarts \in Nat
ASSUME BackoffBounds == /\ BackoffInitial \in Nat \ {0}
                        /\ BackoffMax \in Nat
                        /\ BackoffInitial <= BackoffMax

VARIABLES
    conn,       \* agent: where Run and connect are
    sess,       \* agent: number of the latest session, 0 before the first
    up,         \* network: the connection of the latest session works
    backoff,    \* agent: delay before the next call of connect
    regRead,    \* server: status that the Register handler of a session has
                \* read and not yet saved, "none" if there is no such handler
    handler,    \* server: where the StreamJobs goroutine of a session is
    registry,   \* server: session whose stream is registered, 0 for none
    agentRow,   \* database: status column of the agent
    restarts    \* server restarts so far

sessionVars == <<conn, sess, up, backoff, regRead, handler, registry,
                 agentRow, restarts>>

Sessions == 1 .. MaxSessions

ConnStates == {"stopped", "idle", "waiting", "dialed", "registering",
               "registered", "streaming"}

(* Of the final states, rejected is that of a handler that never           *)
(* registered its stream, closed that of one that did, and unrecovered     *)
(* that of one whose orphan recovery failed.                               *)
HandlerStates == {"none", "accepted", "marked", "rejected", "open",
                  "deregistered", "offline", "closed", "unrecovered"}

RowStates == {"online", "offline"}

(* nextBackoff: double the delay, capped at backoffMax. *)
NextBackoff(b) == IF 2 * b > BackoffMax THEN BackoffMax ELSE 2 * b

(* connect has a client, so RPCs can be attempted. *)
Dialed(a) == conn[a] \in {"dialed", "registering", "registered", "streaming"}

(* The connection of session s of agent a carries messages. *)
Live(a, s) == s = sess[a] /\ up[a]

(* stream.Context() of session s is done. *)
CtxDone(a, s) == ~Live(a, s)

-----------------------------------------------------------------------------
SessionInit ==
    /\ conn = [a \in Agents |-> "stopped"]
    /\ sess = [a \in Agents |-> 0]
    /\ up = [a \in Agents |-> FALSE]
    /\ backoff = [a \in Agents |-> BackoffInitial]
    /\ regRead = [a \in Agents |-> [s \in Sessions |-> "none"]]
    /\ handler = [a \in Agents |-> [s \in Sessions |-> "none"]]
    /\ registry = [a \in Agents |-> 0]
    /\ agentRow = [a \in Agents |-> "offline"]
    /\ restarts = 0

-----------------------------------------------------------------------------
(* The agent's side: Run and connect.                                      *)

(* The process starts and Run enters its loop with the initial backoff. *)
AgentStart(a) ==
    /\ conn[a] = "stopped"
    /\ conn' = [conn EXCEPT ![a] = "idle"]
    /\ backoff' = [backoff EXCEPT ![a] = BackoffInitial]
    /\ UNCHANGED <<sess, up, regRead, handler, registry, agentRow, restarts>>

(* connect dials and publishes the new client before it registers. *)
Dial(a) ==
    /\ conn[a] = "idle"
    /\ sess[a] < MaxSessions
    /\ conn' = [conn EXCEPT ![a] = "dialed"]
    /\ sess' = [sess EXCEPT ![a] = @ + 1]
    /\ up' = [up EXCEPT ![a] = TRUE]
    /\ UNCHANGED <<backoff, regRead, handler, registry, agentRow, restarts>>

(* jobStreamLoop calls StreamJobs once registration has succeeded; the     *)
(* heartbeat loop starts beside it.                                        *)
OpenStream(a) ==
    /\ conn[a] = "registered"
    /\ up[a]
    /\ conn' = [conn EXCEPT ![a] = "streaming"]
    /\ handler' = [handler EXCEPT ![a][sess[a]] = "accepted"]
    /\ UNCHANGED <<sess, up, backoff, regRead, registry, agentRow, restarts>>

(* An RPC or Recv fails: connect closes the connection and returns the     *)
(* error, whatever the session had achieved.                               *)
SessionEnds(a) ==
    /\ Dialed(a)
    /\ ~up[a]
    /\ conn' = [conn EXCEPT ![a] = "waiting"]
    /\ UNCHANGED <<sess, up, backoff, regRead, handler, registry, agentRow,
                   restarts>>

(* Run has slept for the backoff, doubles it and calls connect again. *)
Retry(a) ==
    /\ conn[a] = "waiting"
    /\ conn' = [conn EXCEPT ![a] = "idle"]
    /\ backoff' = [backoff EXCEPT ![a] = NextBackoff(backoff[a])]
    /\ UNCHANGED <<sess, up, regRead, handler, registry, agentRow, restarts>>

(* The agent process is shut down or crashes. *)
AgentStop(a) ==
    /\ conn[a] # "stopped"
    /\ conn' = [conn EXCEPT ![a] = "stopped"]
    /\ up' = [up EXCEPT ![a] = FALSE]
    /\ UNCHANGED <<sess, backoff, regRead, handler, registry, agentRow,
                   restarts>>

(* The connection breaks.  Agent and server notice on their own: the agent *)
(* pings every 30 s, the server has no keepalive of its own.               *)
LinkDown(a) ==
    /\ up[a]
    /\ up' = [up EXCEPT ![a] = FALSE]
    /\ UNCHANGED <<conn, sess, backoff, regRead, handler, registry, agentRow,
                   restarts>>

-----------------------------------------------------------------------------
(* The server's unary handlers.                                            *)

(* Register loads the row of a known agent ... *)
RegisterRead(a) ==
    /\ conn[a] = "dialed"
    /\ up[a]
    /\ conn' = [conn EXCEPT ![a] = "registering"]
    /\ regRead' = [regRead EXCEPT ![a][sess[a]] = agentRow[a]]
    /\ UNCHANGED <<sess, up, backoff, handler, registry, agentRow, restarts>>

(* ... and saves the whole row, with the status it read.  A handler whose  *)
(* caller is gone gets that far too, unless the save fails on its done     *)
(* context; its reply is lost.                                             *)
RegisterSave(a, s) ==
    /\ regRead[a][s] # "none"
    /\ regRead' = [regRead EXCEPT ![a][s] = "none"]
    /\ \/ agentRow' = [agentRow EXCEPT ![a] = regRead[a][s]]
       \/ CtxDone(a, s) /\ UNCHANGED agentRow
    /\ conn' = IF Live(a, s) /\ conn[a] = "registering"
               THEN [conn EXCEPT ![a] = "registered"] ELSE conn
    /\ UNCHANGED <<sess, up, backoff, handler, registry, restarts>>

(* Mutant: a heartbeat leaves the status alone. *)
HeartbeatKeepsStatus(a) ==
    /\ conn[a] = "streaming"
    /\ up[a]
    /\ UNCHANGED sessionVars

(* Heartbeat marks the agent online.  The first tick comes an interval     *)
(* after the loops have started, the stream being called at once.  A       *)
(* heartbeat whose update fails changes nothing and is answered all the    *)
(* same: a stuttering step.                                                *)
Heartbeat(a) ==
    /\ conn[a] = "streaming"
    /\ up[a]
    /\ agentRow' = [agentRow EXCEPT ![a] = "online"]
    /\ UNCHANGED <<conn, sess, up, backoff, regRead, handler, registry,
                   restarts>>

-----------------------------------------------------------------------------
(* The server's StreamJobs handler, step by step.                          *)

(* GetByID fails on a done context: NotFound, nothing is cleaned up. *)
StreamLookupFails(a, s) ==
    /\ handler[a][s] = "accepted"
    /\ CtxDone(a, s)
    /\ handler' = [handler EXCEPT ![a][s] = "rejected"]
    /\ UNCHANGED <<conn, sess, up, backoff, regRead, registry, agentRow,
                   restarts>>

(* UpdateStatus "online"; its failure is only logged. *)
StreamMarkOnline(a, s) ==
    /\ handler[a][s] = "accepted"
    /\ handler' = [handler EXCEPT ![a][s] = "marked"]
    /\ \/ agentRow' = [agentRow EXCEPT ![a] = "online"]
       \/ UNCHANGED agentRow
    /\ UNCHANGED <<conn, sess, up, backoff, regRead, registry, restarts>>

(* agentManager.Register replaces whatever entry the agent has. *)
StreamRegister(a, s) ==
    /\ handler[a][s] = "marked"
    /\ handler' = [handler EXCEPT ![a][s] = "open"]
    /\ registry' = [registry EXCEPT ![a] = s]
    /\ UNCHANGED <<conn, sess, up, backoff, regRead, agentRow, restarts>>

(* Mutant: the entry is not deleted. *)
StreamDeregisterKeepsEntry(a, s) ==
    /\ handler[a][s] = "open"
    /\ CtxDone(a, s)
    /\ handler' = [handler EXCEPT ![a][s] = "deregistered"]
    /\ UNCHANGED <<conn, sess, up, backoff, regRead, registry, agentRow,
                   restarts>>

(* Mutant: a handler whose entry was replaced never gets to its cleanup. *)
StreamDeregisterOwnEntryOnly(a, s) ==
    /\ handler[a][s] = "open"
    /\ CtxDone(a, s)
    /\ registry[a] = s
    /\ handler' = [handler EXCEPT ![a][s] = "deregistered"]
    /\ registry' = [registry EXCEPT ![a] = 0]
    /\ UNCHANGED <<conn, sess, up, backoff, regRead, agentRow, restarts>>

(* agentManager.Deregister deletes the agent's entry, whichever stream it  *)
(* holds.                                                                  *)
StreamDeregister(a, s) ==
    /\ handler[a][s] = "open"
    /\ CtxDone(a, s)
    /\ handler' = [handler EXCEPT ![a][s] = "deregistered"]
    /\ registry' = [registry EXCEPT ![a] = 0]
    /\ UNCHANGED <<conn, sess, up, backoff, regRead, agentRow, restarts>>

(* Cleanup, second step: UpdateStatus "offline".  If it fails, which is    *)
(* only logged, the row goes on saying online.                             *)
StreamMarkOffline(a, s) ==
    /\ handler[a][s] = "deregistered"
    /\ handler' = [handler EXCEPT ![a][s] = "offline"]
    /\ \/ agentRow' = [agentRow EXCEPT ![a] = "offline"]
       \/ UNCHANGED agentRow
    /\ UNCHANGED <<conn, sess, up, backoff, regRead, registry, restarts>>

(* Cleanup, last step: orphan recovery of the agent's jobs, attempted      *)
(* once, and return.  The final state says whether the recovery worked.    *)
StreamReturn(a, s, final) ==
    /\ handler[a][s] = "offline"
    /\ handler' = [handler EXCEPT ![a][s] = final]
    /\ UNCHANGED <<conn, sess, up, backoff, regRead, registry, agentRow,
                   restarts>>

(* The server process stops and starts again: the registry and every       *)
(* handler goroutine are gone, the database stays as it is.                *)
ServerRestart ==
    /\ restarts < MaxServerRestarts
    /\ restarts' = restarts + 1
    /\ up' = [a \in Agents |-> FALSE]
    /\ registry' = [a \in Agents |-> 0]
    /\ handler' = [a \in Agents |-> [s \in Sessions |->
                     CASE handler[a][s] \in {"none", "unrecovered"} -> handler[a][s]
                       [] handler[a][s] \in {"accepted", "marked", "rejected"}
                             -> "rejected"
                       [] OTHER -> "closed"]]
    /\ regRead' = [a \in Agents |-> [s \in Sessions |-> "none"]]
    /\ UNCHANGED <<conn, sess, backoff, agentRow>>

-----------------------------------------------------------------------------
StreamStep(a, s) ==
    \/ StreamLookupFails(a, s)
    \/ StreamMarkOnline(a, s)
    \/ StreamRegister(a, s)
    \/ StreamDeregister(a, s)
    \/ StreamMarkOffline(a, s)
    \/ \E final \in {"closed", "unrecovered"} : StreamReturn(a, s, final)

AgentStep(a) ==
    \/ AgentStart(a)
    \/ Dial(a)
    \/ RegisterRead(a)
    \/ OpenStream(a)
    \/ Heartbeat(a)
    \/ SessionEnds(a)
    \/ Retry(a)
    \/ AgentStop(a)
    \/ LinkDown(a)

SessionNext ==
    \/ \E a \in Agents : AgentStep(a)
    \/ \E a \in Agents, s \in Sessions : RegisterSave(a, s) \/ StreamStep(a, s)
    \/ ServerRestart

SessionSpec == SessionInit /\ [][SessionNext]_sessionVars

(***************************************************************************)
(* Goroutines of a running process are scheduled: the connection loop, the *)
(* heartbeat ticker and every StreamJobs handler keep going.  Nothing      *)
(* forces an agent to be started, a link to break or a process to die.     *)
(***************************************************************************)
SessionFairness ==
    /\ \A a \in Agents :
          /\ WF_sessionVars(Dial(a))
          /\ WF_sessionVars(RegisterRead(a))
          /\ WF_sessionVars(OpenStream(a))
          /\ WF_sessionVars(Heartbeat(a))
          /\ WF_sessionVars(SessionEnds(a))
          /\ WF_sessionVars(Retry(a))
    /\ \A a \in Agents, s \in Sessions : /\ WF_sessionVars(RegisterSave(a, s))
                                         /\ WF_sessionVars(StreamStep(a, s))

FairSessionSpec == SessionSpec /\ SessionFairness

-----------------------------------------------------------------------------
(* Properties.                                                             *)

(* Every variable keeps its type. *)
SessionTypeOK ==
    /\ conn \in [Agents -> ConnStates]
    /\ sess \in [Agents -> 0 .. MaxSessions]
    /\ up \in [Agents -> BOOLEAN]
    /\ backoff \in [Agents -> BackoffInitial .. BackoffMax]
    /\ regRead \in [Agents -> [Sessions -> RowStates \cup {"none"}]]
    /\ handler \in [Agents -> [Sessions -> HandlerStates]]
    /\ registry \in [Agents -> 0 .. MaxSessions]
    /\ agentRow \in [Agents -> RowStates]
    /\ restarts \in 0 .. MaxServerRestarts

(* The registry never hands out the stream of a handler that has started   *)
(* its cleanup: a stream found by Dispatch at lookup time is one whose     *)
(* StreamJobs goroutine is still parked on its context.                    *)
RegistryHoldsOpenStream ==
    \A a \in Agents : registry[a] # 0 => handler[a][registry[a]] = "open"

(* An open stream is missing from the registry only if another session of  *)
(* the same agent got as far as registering: a first session can never be  *)
(* thrown out by anything else.                                            *)
MissingOnlyAfterOverlap ==
    \A a \in Agents, s \in Sessions :
        handler[a][s] = "open" /\ registry[a] # s =>
            \E t \in Sessions \ {s} :
                handler[a][t] \in {"open", "deregistered", "offline", "closed",
                                   "unrecovered"}

(* A stream whose context is done is cleaned up to the end, and no         *)
(* dispatch can find it any more.                                          *)
DeadStreamIsCleanedUp ==
    \A a \in Agents, s \in Sessions :
        handler[a][s] # "none" /\ CtxDone(a, s)
            ~> /\ handler[a][s] \in {"closed", "unrecovered", "rejected"}
               /\ registry[a] # s

(* An agent that stays on a working stream is shown online, even when the  *)
(* cleanup of an older stream marks it offline in between: the heartbeat   *)
(* repairs the row.                                                        *)
StreamingAgentShownOnline ==
    \A a \in Agents :
        conn[a] = "streaming" /\ up[a]
            ~> agentRow[a] = "online" \/ conn[a] # "streaming" \/ ~up[a]

(* The connection loop never gets stuck between sessions: a running agent  *)
(* whose session ended dials again (or the bound on sessions is reached).  *)
AgentReconnects ==
    \A a \in Agents :
        conn[a] = "waiting"
            ~> conn[a] \in {"dialed", "stopped"} \/ sess[a] = MaxSessions
=============================================================================
