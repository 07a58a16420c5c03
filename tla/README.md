# Arkeep: verification project

Arkeep is a self-hosted backup manager: one server, a web interface, and an agent on every
machine that is backed up. This directory holds TLA+ models of the parts of it that carry its
own logic, TLC configurations that check them on small instances, and TLAPS proofs.

## 1. Inventory

| component | state | operations | what makes it correct |
|---|---|---|---|
| agent connection manager (`agent/internal/connection`) | current client, backoff, agent id, log streams | connect, register, heartbeat, receive jobs, report, send logs | it always dials again; a lost report or log line never blocks the executor |
| executor (`agent/internal/executor`) | bounded queue, current job | enqueue, run a backup or a restore, report | one job at a time, each at most once; success means every destination holds a snapshot; hooks enclose the backup |
| gRPC handlers (`server/internal/grpc`) | one goroutine per call | Register, Heartbeat, StreamJobs, ReportJobStatus, ReportDestinationStatus, StreamLogs, ReportVolumeList | late and half-failed handlers leave true rows; every stream is cleaned up |
| agent manager (`server/internal/agentmanager`) | agents to streams, pending volume requests | Register, Deregister, Dispatch, RequestVolumeList, DeliverVolumeList | no dead stream is found; no waiter or report hangs |
| scheduler (`server/internal/scheduler`) | one gocron entry per policy | Start, AddPolicy, UpdatePolicy, RemovePolicy, TriggerNow, runJob | entries follow the policy rows; enabled policies run |
| policy API and repository | policy rows | create, update, delete, trigger | row and timetable agree between requests |
| job, agent, snapshot repositories | rows | create, update, fail running jobs, insert logs | rows never claim what did not happen |
| notification service (`server/internal/notification`) | notification and delivery rows | notify, enqueueAndSend, processDeliveries | sent means delivered; every delivery is decided; none is given up early |
| WebSocket hub and client (`server/internal/websocket`) | clients, subscriptions, send buffers | register, unregister, Publish, read and write pumps | a channel is closed once; connections are released |
| restore and snapshot API (`api/snapshots.go`, `executeRestore`, `restic/wrapper.go`) | snapshot, destination and policy rows, job row | restore, delete; exclude running volumes, run restic, judge its exit | a success has restored what it announced; a refused request has no effect; volumes in use are left alone |
| accounts (`auth`, `api/users.go`, `api/setup.go`, `repositories/user.go`) | users, refresh tokens, denylist, signing keys | login, refresh, logout, OIDC callback, setup, administration | tokens rotate once; revoked tokens stay refused; decisions about accounts stand; one account per subject |
| enrollment (`grpc/certs.go`, `api/enroll.go`, `connection/manager.go`, `grpc/server.go` Register, `restic/extractor.go`) | PKI files, credentials and state file of each agent, agent rows | generate keys, enroll, handshake, register, persist | certificates survive crashes; credentials belong together; only machines with the secret get rows; no duplicates without a cause |
| job API, dashboard, audit, settings, version, metrics, telemetry, database setup, web interface | | | left out, section 8 |

They interact as follows. The agent dials, calls Register and opens StreamJobs; the handler
puts the stream into the agent manager's map and waits for the stream's context. The scheduler
inserts a job row and sends an assignment on the registered stream. The agent queues it, runs it
and reports every transition with a unary call, which the server writes to the row, publishes on
the hub and, when terminal, turns into a notification. Log lines travel on a stream of their
own. When a job stream closes, its handler deregisters it, marks the agent offline and fails the
agent's running jobs. A restore takes the same way, but its job is created by a request that reads
snapshot, destination and policy first. Before its first connection an agent fetches a client
certificate over HTTP, from a server that made its own CA at its first start; every request of a
browser carries a token of its account.

What makes this hard: the goroutine of an old stream cleans up while the next one registers; an
assignment, a report or an answer is lost or late; both processes crash and restart; writes to
the rows are unconditional, or whole rows read earlier; no handler uses a transaction; keys and
identities are kept in several files that are written one after the other. The hazards are listed one by one, at
their lines, in `PROJECT.json`.

## 2. Modules

`JobDispatch` and `VolumeList` extend `AgentSession`: each of their session steps is a step of
`AgentSession` with its effect on jobs or requests conjoined. `JobRecord` is the abstract
specification that `JobDispatch` implements. The other modules stand on their own; what joins
them (a job's rows, its reports) is repeated in each at the level it needs. Every module `M` has
an `MCM` that EXTENDS it for TLC (`MCJobDispatch` serves AgentSession too). The proofs about a
module `M` are in `M_proofs`; `JobDispatch_proofs` also has those about AgentSession and
VolumeList, and `LiveLog_proofs` those about LogStream and WebSocketHub, the two parts that carry
the log of a running job to a browser. Modules that share a proof module keep their names apart
(`SessionSpec`, `VolumesSpec`, `HubSpec`). Definitions marked *Mutant* are
small changes to the definition that follows them, the kind of bug each property is there to
catch; they take no part in the specifications.

- **AgentSession.** `conn`, `sess`, `up`, `backoff` are `Run` and `connect` of the agent;
  `regRead` is a Register handler between its read and its whole-row save; `handler` is the
  StreamJobs goroutine of each session, from the lookup of the agent through Register, the wait
  on the context, Deregister, the status update and the orphan recovery; `registry` is the
  manager's map; `agentRow` the status column, whose updates may fail, which is only logged.
  `ServerRestart` ends all handlers without cleanup. A handler whose orphan recovery failed ends as
  `unrecovered`, the others as `closed`.
- **JobDispatch.** `disp` and `target` are runJob/Dispatch between the insert, the lookup and the
  send; `wire` the assignments in flight; `queue`, `running`, `pc`, `rpc` the executor; `late` the
  ReportJobStatus handlers whose caller has gone; `outcome`, a history variable, what the agent
  really did. Orphan recovery is the last step of a StreamJobs handler: one attempt
  (`RecoverOrphans`), which may fail (`RecoveryFails`) and is not repeated.
- **JobRecord.** A job's status follows what has happened: it starts as pending, may say running
  or failed once the job was taken up, and succeeded only after it succeeded.
- **BackupRun.** `executeBackup` step by step: sources, pre-hook, the loop over destinations with
  restic's outcomes, the report on each, forget, post-hook, final status; and the steps of
  ReportDestinationStatus on the server, which may fail one by one or outlive their caller.
- **DeliveryQueue.** `notify` with its two rows one after the other, and the retrier; both keep
  copies of rows and save them whole. `delivered` and `failures` are history variables.
- **WebSocketHub.** The two channels, the event loop that takes from either, the pumps of each
  client, and publishers between the copy of the subscribers and the sends.
- **VolumeList.** ListVolumes and RequestVolumeList, the goroutine on the agent that asks Docker,
  and ReportVolumeList with DeliverVolumeList between its unlock and its send.
- **PolicySchedule.** One policy: requests that write the row and then the timetable in separate
  steps, ticks that carry a copy of the policy, runs, restarts. gocron may refuse a schedule, in a
  request (`AddPolicyFails`) and at the start (`StartSkips`); the row stays, and on an Update the old
  entry is gone by then. `missed` (the latest attempt to schedule the policy failed) and `overlapped`
  are history variables.
- **LogStream.** The agent's side of StreamLogs and the handler with its batches.
- **RestoreRun.** `request` is `SnapshotHandler.Restore` between its statements: the snapshot, the
  destination, the policy, the job row and the dispatch. `phase` is `executeRestore`: payload,
  running report, `buildInPlaceExcludes`, restic item by item with what it writes to stderr, and the
  verdict (`RestoreReturnsNil`, `Conclude`). Around it rows are edited and deleted, a backup adds a
  snapshot, `forget` prunes the repository without the table, containers start and stop. `late`,
  `blind` and `outcome` are history variables.
- **Accounts.** Every request is a goroutine whose `at` names its next statement and whose `row` is
  the copy it has read. `SaveCopy` is gorm's Save: it writes the whole copy, and inserts it again when
  the row is gone. `pair`, `tokens`, `valid`, `denylist` are what was issued and what is still
  accepted. `dirty`, `overwritten`, `shared` and `twins` record exactly which overlaps happened, so that
  each property can say when it may fail.
- **Enrollment.** `server` and `pki`: EnsureCerts, which writes four files atomically one by one, the
  HTTP server that answers before the gRPC server, crashes in between. `at`, `work`, `files`,
  `stateFile`, `binaries`: an agent from the extraction of its binaries over Enroll, the three
  credential files (truncated, then filled), the handshake and Register to the state file. `buckets`
  is the rate limiter of the enrollment endpoint, `copies` the Register and Update handlers that have
  read a row and will save it. `mode` is how the gRPC port is run: auto-PKI, certificates from
  outside, or plain. AgentSession takes over where it ends.

## 3. Runs

| run | module | shows |
|---|---|---|
| `session` | JobDispatch | the registry holds only streams whose handler waits on its context; dead streams are cleaned up and their running jobs freed, unless the one attempt at it fails; a streaming agent is shown online again after the cleanup of an older stream marked it offline; the executor gets idle; a queued job is executed through reconnects |
| `dispatch` | JobDispatch | no job is taken up twice; the jobs table never claims what did not happen; `JobRecord` is implemented |
| `backup` | BackupRun | succeeded means stored everywhere; snapshot rows are real; all destinations are tried; the hooks enclose the backup; the run ends |
| `restore` | RestoreRun | a recorded success has restored what it announced; a refused request never runs; an in-place restore leaves volumes in use alone; every restore ends |
| `delivery` | DeliveryQueue | a webhook called sent was delivered; three failed retries before a delivery is given up; every row is decided |
| `hub` | WebSocketHub | no registered client has a closed channel, so none is closed twice; lost connections are released |
| `volumes` | VolumeList | requests and reports end, whichever of answer, timeout and disconnection wins |
| `schedule` | PolicySchedule | without overlap the timetable follows the row, and is empty instead only if the latest attempt to schedule the policy failed; enabled policies with their entry run again and again |
| `log` | LogStream | an acknowledged log is complete; a cut log loses only its end; the close returns |
| `accounts` | Accounts | tokens rotate once; revoked tokens stay refused; decisions about accounts stand; one account per subject; tokens go to active accounts with their role |
| `enroll` | Enrollment | issued certificates outlive crashes; credentials belong together; only machines with the secret get rows; duplicates have a cause; an enrolled agent gets into a session for good |
| `enroll_retry` | Enrollment | violated: an agent that starts before the server answers never connects until it is restarted, against `connection/manager.go:274` ("the retry loop will handle it"): the loop only calls connect, Enroll is called once before it |

The type invariants, the inductive invariants and `ReportFindsRoom` and `AnswerIsFound` of VolumeList
are not in the list: they are proved, and hold on the instances of the runs, where a cfg may add them.

The properties of `accounts` carry exceptions (`shared`, `dirty`, `overwritten`, `twins`): they are the
schedules in which the missing transactions show. The run shows that nothing else breaks them.

`ClosedStreamFreesRunningJobs` and `ScheduleFollowsRow` name the failures that the code only logs.
A job stays running only if the recovery by the handler of that very stream failed (or the server
ended first), and the recovery of the agent's next stream frees it; an entry is missing only if the latest
attempt to add it failed, and the next request or start that succeeds adds it.

The models also contain these behaviours, for which no run is kept; each follows from the cited
lines. An orphan recovery that fails leaves the jobs running until the agent's next stream closes,
which may be never (`grpc/server.go:449`); an offline mark that fails leaves a lost agent online
(`grpc/server.go:437`). A recovery also fails jobs that the agent is running and reporting on its new
session. A policy that gocron refuses stays enabled without an entry: "scheduler can be resynced" says
`api/policies.go:277`, but only an update or a restart does so, and an update has already removed the
entry that worked (`scheduler.go:184`). A pending job is not dispatched when its agent reconnects, as scheduler.go:16 says: nothing
calls DispatchPending. A retried email without configured recipients goes to nobody and is marked
sent, against `notification/config.go:32`. A tick creates a job while the policy's previous one is
active, against scheduler.go:8. A cleanup removes the registry entry of the agent's next stream (`manager.go:139`), which
is why the theorem about `MissingOnlyAfterOverlap` has its exception. After a restart of the server an agent that
never returns stays online (`grpc/server.go:437` is the only place that marks it offline). The
reconnect delay is not reset after a good session (`connection/manager.go:303`). A report
recorded after orphan recovery overwrites the terminal status (`repositories/job.go:124`). A
second job is sent to a busy agent (`scheduler.go:353`). A shutdown skips the post-backup hook
(`executor.go:415`). The retrier's stale copy sets a sent row back to pending
(`repositories/notification.go:145`); the delay of five minutes is never used (`service.go:397`);
a slow email keeps the webhook row from being created (`service.go:273`). A client taken from
`unregister` before `register` stays in the hub (`hub.go:83`). A stream that closes under a
volume request gives 500 (`agentmanager/manager.go:266`). Two overlapping updates leave two
entries (`scheduler.go:184`), and an update can bring a deleted policy back
(`repositories/policy.go:82`). A broken log stream loses the lines of the last, partial batch
(`grpc/server.go:657`), although the comment at line 606 says they are flushed. A restore whose
dispatch fails leaves a pending row (`api/snapshots.go:341`). In a container with the host mounted,
restic's errors about ownership are tolerated even when restic gave up early (`restic/wrapper.go:300`),
and "Access is denied" counts as a success with a warning (`executeRestore`). The count and the insert
of the initial setup are separate statements (`api/setup.go:70`). An agent that cannot write its state
file creates a new row at every reconnection (`connection/manager.go:479`): Register looks agents up by id only and nothing calls `GetByHostname`,
although `repositories/agent.go:119-122` says that registration uses it to avoid duplicates. For the same
reason a placeholder row created over REST is never populated when the agent connects, although
`api/agents.go:103-116` says so; the agent gets a row of its own. A provider that was disabled
still completes callbacks, since the lookup by id does not ask (`auth/oidc.go`). An email may have been
accepted although its send is counted as failed, since closing the conversation can fail
(`sender_email.go`), and it is sent again; an SMTP conversation has no deadline. Dispatch and
RequestVolumeList send on one stream without a common lock (`agentmanager/manager.go:162`), where gRPC
asks for one; the model takes Send as atomic.

## 4. Bounds

- `MaxSessions` 2 in all runs with sessions: an old handler meets a new session; more are covered by
  the proofs. `MaxServerRestarts` 1: a restart leaves the same state whenever it comes, apart from the
  rows. `BackoffInitial`..`BackoffMax` is 1..2 in `session` and reaches the cap from below.
- `QueueSize` 1 with two jobs in `dispatch`: the queue overflows while a job runs, and late reports of
  two jobs cross. `session` has one job, to keep the graph of its liveness properties small.
- `N` 2 destinations: one fails before and one after the other. Any subset may be missing from
  rows, payload or URLs.
- One event (two delivery rows), `BatchLimit` 1 so that a row must wait for the next batch,
  `MaxFaults` 2 database errors or restarts.
- Two clients, two publishers, `SendBuffer` 1, `ChanSize` 2, `MaxPublishes` 3: buffers and channel
  fill up, and one client can be queued for removal by several goroutines.
- One volume request: requests share nothing but the map, where each has a key of its own.
- Two handlers, one runner, one content, `MaxJobs` 2: two runs of an entry in a row; contents and
  more handlers are covered by the proofs.
- `MaxLines` 7 with `logFlushBatchSize` 3: two full batches and a rest.
- One restore request, one volume, two snapshots, `MaxFaults` 1 and `MaxEvents` 2: the snapshot can be
  pruned and its destination edited under the request, or a container started and stopped. Requests
  share only the queue, which JobDispatch checks.
- `accounts`: three users, two addresses, one subject, three requests of any kind, one database error or
  restart. Two requests make a race, the third is the administrator or the next use of what the race
  left. The requests are symmetric. Every request is made once, so a user acts through several.
- `enroll`: a machine with the secret and one without, all three modes, `EnrollLimit` 1, two versions of
  the agent, `MaxFaults` 2 (a crash in the recovery from a crash), `MaxEvents` 1. `enroll_retry`: one
  machine, no faults, no events, so that the counterexample has no other cause.

Runs of DeliveryQueue, BackupRun, WebSocketHub, RestoreRun, Accounts and Enrollment say
CHECK_DEADLOCK FALSE: when the job, the events, the connections or the requests are over, and the
bounds are used up, nothing is left to do.

## 5. Fairness

Weak fairness only, on steps of goroutines that are ready: Go schedules them, their calls have
timeouts or end when the connection does (gRPC keepalive notices a dead peer). In JobDispatch and
AgentSession that covers the loops of agent and server; a heartbeat whose update fails is a stuttering
step, so that fairness of the heartbeat says that they do not fail for ever, while the other
status updates and the orphan recovery may fail whenever they are tried; in VolumeList only the server's side, so
an agent that never answers cannot keep a request open; in BackupRun restic and hooks are
assumed to end; in DeliveryQueue sends end and time passes; in PolicySchedule ticks come, and
`EnabledPolicyRuns` supposes that requests, restarts and failing inserts of jobs stop at last; in
LogStream the handler runs and the agent notices a broken connection; in RestoreRun the executor's
goroutine runs and restic ends; in Enrollment the steps of a server that was started, of an agent that
was started and of the Register handlers. Accounts has safety properties only. Nothing forces a process to
start, a window of the rate limiter to end, a link to break, a process to crash or an administrator to do anything.

## 6. Proofs

All theorems hold for every value of the constants that satisfies the named ASSUMEs: natural bounds,
positive capacities, finite sets where counted, `AgentOf` and `AskedOf` functions to agents, a `None`
outside the sets it stands beside, at least one address, and the tables a server starts from in
Accounts well formed, with one account per subject. Every inductive invariant was checked by TLC
before it was proved, those of Accounts, RestoreRun (with two requests), Enrollment, WebSocketHub and
VolumeList on the instances of section 4. Each proof has one step or lemma per action.

- **JobDispatch_proofs.** Of AgentSession: types, `RegistryHoldsOpenStream` and
  `MissingOnlyAfterOverlap`, by the invariant `SessionInv`, which adds that a session has no handler
  before it opens its stream: otherwise a new session could meet a handler that is already there.
  `JobsKeepSessions` and `VolumesKeepSessions`: JobDispatch and VolumeList implement AgentSession, so
  these results carry over. Of JobDispatch, `JobInv`: a job is on the wire or in a queue only after
  its dispatch (`DispatchFirst`), its row exists by then (`RowBeforeDispatch`), there is one copy of it
  (`OneCopy`) and none once it was taken up (`NoRepetition`), what the executor holds and is
  about to report agrees with `outcome` (`ExecutorSound`), and so does every late report
  (`LateSound`). From it follow `RunsAtMostOnce`, `RecordSound`, `FailureHasCause`, for any number
  of agents, and `Refinement`, the implementation of `JobRecord`. Of VolumeList, `VolumesInv`: a request
  is sent, listed and reported at most once, each stage entered only from the one before (`OneReport`), and
  what is under way is what Docker said (`ReportTrue`). So the buffer of one is enough, the map keeps
  nothing of a request that is over, and an answer is true.
- **BackupRun_proofs.** `BackupInv` ties results to the position of the loop (`Position`, `Behind`,
  `Ahead`), results to repositories and `backupFailed`, and rows to results; the invariants of
  the run `backup` follow. `HooksInv`, on top of it, gives `HooksEncloseBackup`.
- **RestoreRun_proofs.** `RestoreInv`: an assignment is queued or run only for a request that was
  dispatched (`DispatchFirst`), and once (`RunsOnce`); what restic has written, tried and complained
  about agree, and an exit code of 0 means that everything was written (`ResticSound`); while restic
  runs in place, every volume in use is excluded, `late` or `blind` (`InUseAccounted`). The first gives
  `RefusedNeverRuns`; `RunsOnce` keeps the outcome of one run from being overwritten by another and
  `ResticSound` makes the verdict right, so that `SuccessMeansRestored` follows; the last gives the
  action property `RunningVolumeUntouched`.
- **DeliveryQueue_proofs.** `DeliveryInv` says of every copy in memory what it says of the rows,
  since either may be saved last.
- **PolicySchedule_proofs.** `BoundInv` counts, with the entries, the handlers that are about to
  add one. `SyncInv` says that without overlap some handler is alone, and what a handler that is
  alone may rely on at each point of its request: in particular that no entry is left when it comes to
  add one, so that a refused schedule leaves none and a good one exactly one.
- **LiveLog_proofs.** `LogInv`: what is stored is determined by the flushed index, and as long as
  the connection works everything written was accepted. `HubInv`: a client waits in `register` once,
  with an open channel and not yet registered (`RegisterOnce`), and the hub does not know a client
  whose Run has not called Subscribe (`UnknownBefore`). Without it, a client could be registered again
  after its channel was closed, and closed twice.
- **Accounts_proofs.** `Inv` says what a handler holds at each of its statements (`InHand`), and has a
  part for tokens and one for accounts. `SessionInv`: only pairs that were issued are tokens, listed or
  read, and a request issues one pair, at its end (`NamesOnce`); of the requests that exchange a
  refresh token or have exchanged it there is one, and the token is in the table only until that one
  deletes it, unless the token is `shared` (`ClaimedOnce`); a revoked token that has not expired is on
  the denylist (`RevokedListed`). `AccountInv`: the copy of a handler agrees with the row in state, role
  and subject, unless the handler is `dirty` (`CopyIsCurrent`); some copies have properties of their
  own whatever becomes of the row (`CopyIsPrepared`); decisions are about accounts that existed
  (`DecidedIsKnown`); and one callback at most may give a subject an account, and only while it has
  none, unless the subject is among the `twins` (`LinkedOnce`). So the exceptions in the properties
  are the only ones, for any number of requests.
- **Enrollment_proofs.** Four invariants, for any machines, modes and numbers of faults. `PKIInv`:
  `server.key` is written last, so once it is there all four files are of one generation; nothing is
  signed before, and whatever was signed since the data directory was last lost was signed by that
  generation. So a start after a crash either finds all four files or has issued nothing yet.
  `CredentialInv`: `grpc-client.key` is written last and enrollment only starts without it; the files
  before the one being written are of the enrollment in hand, and `mtls` needs the key. `TrustInv`: a
  machine without the secret has no credential file, no connection and no id in hand, which carries
  what was asked for at enrollment over to Register. `StraysCounted`: leaving aside the row whose id
  is in its state file, a machine has no more live rows than `unsaved` counts; a lemma on
  cardinalities per action carries the count, and `DuplicatesHaveCause` follows.

Some theorems are about properties that no run checks because a stronger one, or a theorem, took their
place: the type invariants, `MissingOnlyAfterOverlap`, `FailureHasCause`,
`NoFailedDestinationOfSuccess`, `EntriesBounded`, `ReportFindsRoom`, `AnswerIsFound`.

Only model-checked: the liveness properties (fairness is out of the prover's reach) and the violation.
Every invariant and action property of a passing run is also proved.

## 7. Abstractions

- Names, payloads, messages and times are reduced to what the steps distinguish. `stream.Send` is
  atomic. A heartbeat is one step; one whose caller has gone is left out.
- In JobDispatch a job whose payload cannot be built stays pending, like one that cannot be
  dispatched. In BackupRun reports of the job's status are atomic and may be lost; JobDispatch has
  their steps.
- DeliveryQueue assumes both channels configured; the list of recipients may be empty.
- WebSocketHub has one topic, since the maps of all topics change under one lock.
- PolicySchedule takes gorm's Save (update of the live row, else insert with replacement) and
  gocron's RemoveByTags, NewJob and singleton mode from how the code uses them. Which schedules NewJob
  refuses is left open, as a choice at every call. A tick or a trigger whose reads fail does nothing.
- LogStream: once the connection is broken no further line arrives, and a later session brings no
  new stream for the job.
- RestoreRun: a backup is one step and dispatch either queues or fails (BackupRun and JobDispatch have
  their steps). stderr is a set of kinds of lines: about ownership, about access, other, fatal. A
  snapshot contains every volume and one item for all other files.
- Accounts: a request that is refused changes nothing and is not a step. Passwords are set or not; a
  login knows its password. SQLite does not enforce the foreign key of refresh tokens, PostgreSQL does;
  both are initial states.
- Enrollment: a key pair and its certificate share a number; validity periods are left out. The CA an
  agent pins is compared with the server's by that number. A CA given with `--grpc-tls-ca`, which wins
  over the enrolled one (`agent/cmd/agent/main.go:185`), is configuration and left out. A row is a number,
  its owner a history variable.

## 8. Not modelled, and the plan

Left out for good: the job API, dashboard, audit and version (queries), settings (single-row upserts,
one key after the other), metrics and telemetry (counters for observation), database, encryption and
migration setup (library configuration), generated protocol code, the pages of the web interface.
Inside the components marked partly: listing and validation of fields, formats of messages, tokens,
certificates and emails, hook texts, flags and logging.

Possible extensions, in this order:

1. BackupRun and RestoreRun as implementations of `JobRecord`, which JobDispatch is shown to be. Their
   steps advance a job and record the report at once, so `JobRecord` needs an action that does both,
   and RestoreRun a history of runs that a restart has cut off.
2. *Browser side*: reconnection of `services/websocket.ts` against the hub, single-flight refresh in
   `services/api.ts` against Accounts.
3. An abstract specification of a delivery (created, decided once) for DeliveryQueue to implement
   where the code does, and one of the stream registry for AgentSession.
