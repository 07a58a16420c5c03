------------------------------ MODULE Enrollment ------------------------------
(***************************************************************************)
(* How a machine becomes an agent: the certificates that the server makes  *)
(* for itself at its first start, the client certificate that an agent     *)
(* gets over HTTP and keeps in its state directory, the TLS handshake and  *)
(* the Register call that gives it a row.  Both processes keep what they   *)
(* got in files that they write one after the other, and both look at the  *)
(* next start only at which files exist.                                   *)
(*                                                                         *)
(* A key pair and the certificate made for it have the same number: the    *)
(* generation for the CA and the server, the number of the enrollment for  *)
(* an agent.  AgentSession has what happens once an agent is registered.   *)
(***************************************************************************)
EXTENDS Integers, Sequences, FiniteSets

CONSTANTS
    Machines,       \* hosts on which the agent is installed
    Trusted,        \* machines configured with the secret of the server
    Modes,          \* ways to run the gRPC port, see ModeAssumption
    EnrollLimit,    \* enrollments per window and address
    Versions,       \* versions of the agent program
    SizeOf,         \* [Versions -> size of the binaries embedded in it]
    MaxFaults,      \* bound on crashes, lost answers and failed writes
    MaxEvents       \* bound on what administrators do

ASSUME TrustedAssumption == Trusted \subseteq Machines
ASSUME ModeAssumption == Modes \subseteq {"auto", "external", "plain"}
ASSUME EnrollBoundsAssumption ==
    EnrollLimit \in Nat \ {0} /\ MaxFaults \in Nat /\ MaxEvents \in Nat
ASSUME NamesAssumption == {"placeholder", "update"} \cap Machines = {}
ASSUME VersionsAssumption == Versions \subseteq Nat \ {0} /\ Versions # {}

VARIABLES
    mode,           \* TLS of the gRPC port: auto-PKI, external or none
    pki,            \* server: [PKIFiles -> generation of the file]
    server,         \* server: where run is, and the keys that it holds
    generations,    \* server: CAs generated so far
    signer,         \* the CA that signed the certificate of each enrollment
    buckets,        \* server: [Machines -> requests in the current window]
    live,           \* database: agents that are not deleted
    owner,          \* for whom each row was created, in that order
    copies          \* server: handlers that have read a row and will save it

VARIABLES
    at,             \* [Machines -> where run, Run and connect are]
    mtls,           \* machines whose configuration names a client certificate
    up,             \* machines whose connection works
    work,           \* [Machines -> what the step under way has in hand]
    files,          \* [Machines -> [Credentials -> enrollment of the file]]
    stateFile,      \* [Machines -> id in agent-state.json]
    version,        \* [Machines -> version of the installed program]
    binaries        \* [Machines -> [Binaries -> version of the file]]

VARIABLES
    lost,           \* newest generation that went with the data directory
    unsaved,        \* [Machines -> ids that were given and not recorded]
    revived,        \* rows that a save brought back after their deletion
    faults,         \* faults so far
    events          \* events so far

pkiVars == <<pki, server, generations, lost>>
rowVars == <<live, owner, copies, revived>>
agentVars == <<at, mtls, up, work>>
hostVars == <<version, binaries>>
vars == <<mode, pkiVars, signer, buckets, rowVars, agentVars, files, stateFile,
          hostVars, unsaved, faults, events>>

Absent == 0
Torn == -1
NoRow == 0

(* In the order in which they are written. *)
PKIOrder == <<"ca.crt", "ca.key", "server.crt", "server.key">>
CredentialOrder == <<"grpc-ca.crt", "grpc-client.crt", "grpc-client.key">>

PKIFiles == {PKIOrder[i] : i \in DOMAIN PKIOrder}
Credentials == {CredentialOrder[i] : i \in DOMAIN CredentialOrder}
Binaries == {"restic", "rclone"}

(* ca and key are the generations of the CA certificate and of the key it  *)
(* signs with, next is the file that EnsureCerts writes next.              *)
Down == [at |-> "down", ca |-> 0, key |-> 0, next |-> 0]
Ready(ca, key) == [at |-> "ready", ca |-> ca, key |-> key, next |-> 0]

(* cert is the certificate that an enrollment got, next the file to write, *)
(* row the id that Register answered.                                      *)
NoWork == [cert |-> 0, next |-> 0, row |-> NoRow]

Init ==
    /\ mode \in Modes
    /\ pki = [f \in PKIFiles |-> Absent]
    /\ server = Down
    /\ generations = 0
    /\ signer = <<>>
    /\ buckets = [m \in Machines |-> 0]
    /\ live = {}
    /\ owner = <<>>
    /\ copies = {}
    /\ at = [m \in Machines |-> "off"]
    /\ mtls = {}
    /\ up = {}
    /\ work = [m \in Machines |-> NoWork]
    /\ files = [m \in Machines |-> [f \in Credentials |-> Absent]]
    /\ stateFile = [m \in Machines |-> NoRow]
    /\ version \in [Machines -> Versions]
    /\ binaries = [m \in Machines |-> [b \in Binaries |-> Absent]]
    /\ lost = 0
    /\ unsaved = [m \in Machines |-> 0]
    /\ revived = {}
    /\ faults = 0
    /\ events = 0

Fault == faults < MaxFaults /\ faults' = faults + 1 /\ UNCHANGED events
Event == events < MaxEvents /\ events' = events + 1 /\ UNCHANGED faults
NoFault == UNCHANGED <<faults, events>>

At(m, place) == at[m] = place

(* The agent of m goes to place; with Move it keeps all else it has. *)
Goto(m, place) == at' = [at EXCEPT ![m] = place]
Move(m, place) == Goto(m, place) /\ UNCHANGED <<mtls, up, work>>

-----------------------------------------------------------------------------
(* The server starts: run and EnsureCerts.                                 *)

(* Mutant: the names of the files are not those they are written to. *)
PKIExistsNever == FALSE

(* All four files exist. *)
PKIExists == \A f \in PKIFiles : pki[f] # Absent

(* loadCerts: the CA certificate and its key, whether they match or not. *)
LoadCerts == Ready(pki["ca.crt"], pki["ca.key"])

(* A new CA, and a server certificate that it signs. *)
GenerateCerts ==
    [at |-> "writing", ca |-> generations + 1, key |-> generations + 1, next |-> 1]

(* Without auto-PKI there is nothing to prepare. *)
ServerStart ==
    /\ server.at = "down"
    /\ \/ /\ mode # "auto"
          /\ server' = Ready(0, 0)
          /\ UNCHANGED generations
       \/ /\ mode = "auto" /\ PKIExists
          /\ server' = LoadCerts
          /\ UNCHANGED generations
       \/ /\ mode = "auto" /\ ~PKIExists
          /\ generations' = generations + 1
          /\ server' = GenerateCerts
    /\ NoFault
    /\ UNCHANGED <<mode, pki, lost, signer, buckets, rowVars, agentVars, files,
                   stateFile, hostVars, unsaved>>

(* Each file is written to a temporary one that is renamed over it. *)
WriteFileAtomic ==
    /\ server.at = "writing"
    /\ pki' = [pki EXCEPT ![PKIOrder[server.next]] = server.ca]
    /\ server' = IF server.next = Len(PKIOrder)
                 THEN Ready(server.ca, server.key)
                 ELSE [server EXCEPT !.next = @ + 1]
    /\ NoFault
    /\ UNCHANGED <<mode, generations, lost, signer, buckets, rowVars,
                   agentVars, files, stateFile, hostVars, unsaved>>

(* The server's key pair is read from its files again. *)
TLSConfigLoads ==
    pki["server.key"] # Absent /\ pki["server.crt"] = pki["server.key"]

(* Without it Serve fails and main shuts down.  By now HTTP answers. *)
Serve ==
    /\ server.at = "ready"
    /\ server' = IF mode = "auto" => TLSConfigLoads
                 THEN [server EXCEPT !.at = "up"] ELSE Down
    /\ NoFault
    /\ UNCHANGED <<mode, pki, generations, lost, signer, buckets, rowVars,
                   agentVars, files, stateFile, hostVars, unsaved>>

(* The server dies, or one of its writes fails and run returns: handlers,  *)
(* buckets and connections go with it.                                     *)
ServerCrash ==
    /\ server.at # "down"
    /\ Fault
    /\ server' = Down
    /\ buckets' = [m \in Machines |-> 0]
    /\ copies' = {}
    /\ up' = {}
    /\ UNCHANGED <<mode, pki, generations, lost, signer, live, owner, revived,
                   at, mtls, work, files, stateFile, hostVars, unsaved>>

(* The data directory is lost, and comes back empty. *)
LoseDataDir ==
    /\ server.at = "down"
    /\ Event
    /\ pki' = [f \in PKIFiles |-> Absent]
    /\ lost' = generations
    /\ UNCHANGED <<mode, server, generations, signer, buckets, rowVars,
                   agentVars, files, stateFile, hostVars, unsaved>>

-----------------------------------------------------------------------------
(* The agent starts: run and Manager.Run.                                  *)

AgentStart(m) ==
    /\ At(m, "off")
    /\ Move(m, "extract")
    /\ NoFault
    /\ UNCHANGED <<mode, pkiVars, signer, buckets, rowVars, files, stateFile,
                   hostVars, unsaved>>

(* extract looks at the size of the file only. *)
NeedsExtract(m, b) ==
    IF binaries[m][b] = Absent THEN TRUE
    ELSE SizeOf[binaries[m][b]] # SizeOf[version[m]]

(* The embedded binary goes to a temporary file, which is renamed. *)
Extract(m, b) ==
    /\ At(m, "extract")
    /\ NeedsExtract(m, b)
    /\ binaries' = [binaries EXCEPT ![m][b] = version[m]]
    /\ NoFault
    /\ UNCHANGED <<mode, pkiVars, signer, buckets, rowVars, agentVars, files,
                   stateFile, version, unsaved>>

(* Mutant: the key is not looked for. *)
CredentialsExistButKey(m) ==
    \A f \in Credentials \ {"grpc-client.key"} : files[m][f] # Absent

CredentialsExist(m) == \A f \in Credentials : files[m][f] # Absent

(* Run enrolls here and never again in the life of the process. *)
MustEnroll(m) == mode # "plain" /\ ~CredentialsExist(m)

(* With both binaries in place run looks for credentials. *)
LoadCredentials(m) ==
    /\ At(m, "extract")
    /\ \A b \in Binaries : ~NeedsExtract(m, b)
    /\ mtls' = IF CredentialsExist(m) THEN mtls \cup {m} ELSE mtls
    /\ Goto(m, IF MustEnroll(m) THEN "enroll" ELSE "dial")
    /\ NoFault
    /\ UNCHANGED <<up, work, mode, pkiVars, signer, buckets, rowVars, files,
                   stateFile, hostVars, unsaved>>

(* RateLimiter.Allow, and the window of an address that ends. *)
Allow(m) == buckets[m] < EnrollLimit

WindowEnds(m) ==
    /\ buckets[m] > 0
    /\ buckets' = [buckets EXCEPT ![m] = 0]
    /\ NoFault
    /\ UNCHANGED <<mode, pkiVars, signer, rowVars, agentVars, files, stateFile,
                   hostVars, unsaved>>

(* The router has the endpoint only with auto-PKI. *)
EnrollAnswers == mode = "auto" /\ server.at \in {"ready", "up"}

(* Mutant: the secret is not compared. *)
MayEnrollAnyone(m) == EnrollAnswers /\ Allow(m)

(* IssueCertificate fails if the key is not that of the CA certificate. *)
MayEnroll(m) ==
    /\ EnrollAnswers
    /\ Allow(m)
    /\ m \in Trusted
    /\ server.ca = server.key

(* A refused request counts as well, unless it is refused for the limit. *)
Counted(m) ==
    buckets' = IF EnrollAnswers /\ Allow(m)
               THEN [buckets EXCEPT ![m] = @ + 1] ELSE buckets

IssueCertificate == signer' = Append(signer, server.key)

(* The answer arrives. *)
Enroll(m) ==
    /\ At(m, "enroll")
    /\ MayEnroll(m)
    /\ Counted(m)
    /\ IssueCertificate
    /\ Goto(m, "truncate")
    /\ work' = [work EXCEPT ![m] =
                    [cert |-> Len(signer) + 1, next |-> 1, row |-> NoRow]]
    /\ NoFault
    /\ UNCHANGED <<mtls, up, mode, pkiVars, rowVars, files, stateFile,
                   hostVars, unsaved>>

(* No server, or an answer that is not 200: Run goes on without mTLS. *)
EnrollRefused(m) ==
    /\ At(m, "enroll")
    /\ ~MayEnroll(m)
    /\ Counted(m)
    /\ Move(m, "dial")
    /\ NoFault
    /\ UNCHANGED <<mode, pkiVars, signer, rowVars, files, stateFile, hostVars,
                   unsaved>>

(* The certificate is issued and the answer does not arrive. *)
EnrollAnswerLost(m) ==
    /\ At(m, "enroll")
    /\ MayEnroll(m)
    /\ Fault
    /\ Counted(m)
    /\ IssueCertificate
    /\ Move(m, "dial")
    /\ UNCHANGED <<mode, pkiVars, rowVars, files, stateFile, hostVars,
                   unsaved>>

(* os.WriteFile empties the file and then writes to it. *)
TruncateCredential(m) ==
    /\ At(m, "truncate")
    /\ files' = [files EXCEPT ![m][CredentialOrder[work[m].next]] = Torn]
    /\ Move(m, "fill")
    /\ NoFault
    /\ UNCHANGED <<mode, pkiVars, signer, buckets, rowVars, stateFile,
                   hostVars, unsaved>>

FillCredential(m) ==
    /\ At(m, "fill")
    /\ files' = [files EXCEPT ![m][CredentialOrder[work[m].next]] = work[m].cert]
    /\ IF work[m].next = Len(CredentialOrder)
       THEN /\ Goto(m, "dial")
            /\ mtls' = mtls \cup {m}
            /\ work' = [work EXCEPT ![m] = NoWork]
       ELSE /\ Goto(m, "truncate")
            /\ work' = [work EXCEPT ![m].next = @ + 1]
            /\ UNCHANGED mtls
    /\ NoFault
    /\ UNCHANGED <<up, mode, pkiVars, signer, buckets, rowVars, stateFile,
                   hostVars, unsaved>>

(* A write fails: Enroll returns an error and Run goes on without mTLS. *)
CredentialWriteFails(m) ==
    /\ at[m] \in {"truncate", "fill"}
    /\ Fault
    /\ Goto(m, "dial")
    /\ work' = [work EXCEPT ![m] = NoWork]
    /\ UNCHANGED <<mtls, up, mode, pkiVars, signer, buckets, rowVars, files,
                   stateFile, hostVars, unsaved>>

-----------------------------------------------------------------------------
(* The connection loop: connect and register.                              *)

(* buildTransportCredentials can read what the configuration names. *)
Loads(m) ==
    m \in mtls =>
        /\ \A f \in Credentials : files[m][f] \notin {Absent, Torn}
        /\ files[m]["grpc-client.crt"] = files[m]["grpc-client.key"]

(* Each side verifies the other: the agent has the CA of its enrollment    *)
(* and asks for the name in the generated certificate, the server has its  *)
(* CA and requires a certificate that it signed.                           *)
Handshake(m) ==
    CASE mode = "auto" ->
            /\ m \in mtls
            /\ signer[files[m]["grpc-ca.crt"]] = pki["server.crt"]
            /\ signer[files[m]["grpc-client.crt"]] = server.ca
      [] mode = "external" -> m \notin mtls
      [] mode = "plain" -> TRUE

(* The interceptors: behind mTLS the secret is not asked for again. *)
ValidateToken(m) == mode = "auto" \/ m \in Trusted

Connects(m) == server.at = "up" /\ Loads(m) /\ Handshake(m) /\ ValidateToken(m)

Connect(m) ==
    /\ At(m, "dial")
    /\ IF Connects(m) THEN Goto(m, "register") /\ up' = up \cup {m}
                      ELSE Goto(m, "waiting") /\ UNCHANGED up
    /\ NoFault
    /\ UNCHANGED <<mtls, work, mode, pkiVars, signer, buckets, rowVars, files,
                   stateFile, hostVars, unsaved>>

(* The backoff of Run is over. *)
Retry(m) ==
    /\ At(m, "waiting")
    /\ Move(m, "dial")
    /\ NoFault
    /\ UNCHANGED <<mode, pkiVars, signer, buckets, rowVars, files, stateFile,
                   hostVars, unsaved>>

(* INSERT of a row under a new id. *)
CreateRow(for) ==
    /\ owner' = Append(owner, for)
    /\ live' = live \cup {Len(owner')}

(* loadState: the id that Register sends, if any. *)
LoadState(m) == stateFile[m]

(* The server finds the row of the id that was sent, and will save it. *)
RegisterFound(m) ==
    /\ At(m, "register") /\ m \in up
    /\ LoadState(m) \in live
    /\ copies' = copies \cup {[row |-> LoadState(m), for |-> m]}
    /\ Move(m, "registering")
    /\ NoFault
    /\ UNCHANGED <<mode, pkiVars, signer, buckets, live, owner, revived, files,
                   stateFile, hostVars, unsaved>>

(* Mutant: no row for the id that was sent is an error. *)
RegisterNewOnlyFirst(m) ==
    /\ At(m, "register") /\ m \in up
    /\ LoadState(m) = NoRow
    /\ CreateRow(m)
    /\ Goto(m, "persist")
    /\ work' = [work EXCEPT ![m].row = Len(owner')]
    /\ NoFault
    /\ UNCHANGED <<mtls, up, mode, pkiVars, signer, buckets, copies, revived,
                   files, stateFile, hostVars, unsaved>>

(* No id was sent, or none that the server knows: a new row. *)
RegisterNew(m) ==
    /\ At(m, "register") /\ m \in up
    /\ LoadState(m) \notin live
    /\ CreateRow(m)
    /\ Goto(m, "persist")
    /\ work' = [work EXCEPT ![m].row = Len(owner')]
    /\ NoFault
    /\ UNCHANGED <<mtls, up, mode, pkiVars, signer, buckets, copies, revived,
                   files, stateFile, hostVars, unsaved>>

(* The row is created and the connection lost before the answer arrives. *)
RegisterAnswerLost(m) ==
    /\ At(m, "register") /\ m \in up
    /\ LoadState(m) \notin live
    /\ Fault
    /\ CreateRow(m)
    /\ unsaved' = [unsaved EXCEPT ![m] = @ + 1]
    /\ Goto(m, "waiting")
    /\ up' = up \ {m}
    /\ UNCHANGED <<mtls, work, mode, pkiVars, signer, buckets, copies, revived,
                   files, stateFile, hostVars>>

(* Save of a whole row that was read earlier: it inserts the row again if  *)
(* it was deleted meanwhile.  An agent that still waits gets its answer.   *)
SaveRow(c) ==
    /\ copies' = copies \ {c}
    /\ live' = live \cup {c.row}
    /\ revived' = IF c.row \in live THEN revived ELSE revived \cup {c.row}
    /\ IF c.for \in up /\ At(c.for, "registering")
       THEN Goto(c.for, "session") ELSE UNCHANGED at
    /\ NoFault
    /\ UNCHANGED <<mtls, up, work, mode, pkiVars, signer, buckets, owner,
                   files, stateFile, hostVars, unsaved>>

(* Mutant: an id is recorded only if there was none. *)
PersistFirst(m) ==
    /\ At(m, "persist")
    /\ stateFile' = [stateFile EXCEPT ![m] = IF @ = NoRow THEN work[m].row ELSE @]
    /\ Goto(m, "session")
    /\ work' = [work EXCEPT ![m] = NoWork]
    /\ NoFault
    /\ UNCHANGED <<mtls, up, mode, pkiVars, signer, buckets, rowVars, files,
                   hostVars, unsaved>>

(* saveState replaces the file in one step. *)
Persist(m) ==
    /\ At(m, "persist")
    /\ stateFile' = [stateFile EXCEPT ![m] = work[m].row]
    /\ Goto(m, "session")
    /\ work' = [work EXCEPT ![m] = NoWork]
    /\ NoFault
    /\ UNCHANGED <<mtls, up, mode, pkiVars, signer, buckets, rowVars, files,
                   hostVars, unsaved>>

(* It fails: a warning, and the session goes on. *)
PersistFails(m) ==
    /\ At(m, "persist")
    /\ Fault
    /\ unsaved' = [unsaved EXCEPT ![m] = @ + 1]
    /\ Goto(m, "session")
    /\ work' = [work EXCEPT ![m] = NoWork]
    /\ UNCHANGED <<mtls, up, mode, pkiVars, signer, buckets, rowVars, files,
                   stateFile, hostVars>>

(* The connection breaks. *)
LinkDown(m) ==
    /\ m \in up
    /\ Fault
    /\ up' = up \ {m}
    /\ UNCHANGED <<at, mtls, work, mode, pkiVars, signer, buckets, rowVars,
                   files, stateFile, hostVars, unsaved>>

(* connect returns when a call or a loop fails. *)
SessionEnds(m) ==
    /\ at[m] \in {"register", "registering", "session"}
    /\ m \notin up
    /\ Move(m, "waiting")
    /\ NoFault
    /\ UNCHANGED <<mode, pkiVars, signer, buckets, rowVars, files, stateFile,
                   hostVars, unsaved>>

(* The context of a call whose client is gone may end it before the save. *)
HandlerGivesUp(c) ==
    /\ c.for \in Machines
    /\ ~(At(c.for, "registering") /\ c.for \in up)
    /\ copies' = copies \ {c}
    /\ NoFault
    /\ UNCHANGED <<mode, pkiVars, signer, buckets, live, owner, revived,
                   agentVars, files, stateFile, hostVars, unsaved>>

(* The agent process ends: a crash, a shutdown, or a failed extraction. *)
AgentCrash(m) ==
    /\ ~At(m, "off")
    /\ Fault
    /\ unsaved' = IF At(m, "persist") THEN [unsaved EXCEPT ![m] = @ + 1] ELSE unsaved
    /\ Goto(m, "off")
    /\ mtls' = mtls \ {m}
    /\ up' = up \ {m}
    /\ work' = [work EXCEPT ![m] = NoWork]
    /\ UNCHANGED <<mode, pkiVars, signer, buckets, rowVars, files, stateFile,
                   hostVars>>

-----------------------------------------------------------------------------
(* Administrators.                                                         *)

(* A new version of the agent is installed. *)
Upgrade(m, v) ==
    /\ At(m, "off") /\ v # version[m]
    /\ Event
    /\ version' = [version EXCEPT ![m] = v]
    /\ UNCHANGED <<mode, pkiVars, signer, buckets, rowVars, agentVars, files,
                   stateFile, binaries, unsaved>>

(* The old certificates are deleted on the machine. *)
ClearCredentials(m) ==
    /\ At(m, "off")
    /\ Event
    /\ files' = [files EXCEPT ![m] = [f \in Credentials |-> Absent]]
    /\ UNCHANGED <<mode, pkiVars, signer, buckets, rowVars, agentVars,
                   stateFile, hostVars, unsaved>>

(* AgentHandler.Create: a placeholder, which no Register will ever match. *)
CreatePlaceholder ==
    /\ server.at \in {"ready", "up"}
    /\ Event
    /\ CreateRow("placeholder")
    /\ UNCHANGED <<mode, pkiVars, signer, buckets, copies, revived, agentVars,
                   files, stateFile, hostVars, unsaved>>

(* AgentHandler.Update reads the row; SaveRow is its second half. *)
UpdateAgent(r) ==
    /\ server.at \in {"ready", "up"}
    /\ Event
    /\ copies' = copies \cup {[row |-> r, for |-> "update"]}
    /\ UNCHANGED <<mode, pkiVars, signer, buckets, live, owner, revived,
                   agentVars, files, stateFile, hostVars, unsaved>>

(* AgentHandler.Delete: a soft delete. *)
DeleteAgent(r) ==
    /\ server.at \in {"ready", "up"}
    /\ Event
    /\ live' = live \ {r}
    /\ UNCHANGED <<mode, pkiVars, signer, buckets, owner, copies, revived,
                   agentVars, files, stateFile, hostVars, unsaved>>

-----------------------------------------------------------------------------
ServerStep == WriteFileAtomic \/ Serve

ConnectionStep(m) ==
    \/ Connect(m)
    \/ Retry(m)
    \/ RegisterFound(m)
    \/ RegisterNew(m)
    \/ Persist(m)
    \/ SessionEnds(m)

AgentStep(m) ==
    \/ \E b \in Binaries : Extract(m, b)
    \/ LoadCredentials(m)
    \/ Enroll(m)
    \/ EnrollRefused(m)
    \/ TruncateCredential(m)
    \/ FillCredential(m)
    \/ ConnectionStep(m)

AgentFault(m) ==
    \/ EnrollAnswerLost(m)
    \/ CredentialWriteFails(m)
    \/ RegisterAnswerLost(m)
    \/ PersistFails(m)
    \/ LinkDown(m)
    \/ AgentCrash(m)

Administration ==
    \/ LoseDataDir
    \/ \E m \in Machines : ClearCredentials(m)
    \/ \E m \in Machines, v \in Versions : Upgrade(m, v)
    \/ CreatePlaceholder
    \/ \E r \in live : UpdateAgent(r) \/ DeleteAgent(r)

Next ==
    \/ ServerStart
    \/ ServerStep
    \/ ServerCrash
    \/ \E m \in Machines :
          AgentStart(m) \/ AgentStep(m) \/ AgentFault(m) \/ WindowEnds(m)
    \/ \E c \in copies : SaveRow(c) \/ HandlerGivesUp(c)
    \/ Administration

Spec == Init /\ [][Next]_vars

(***************************************************************************)
(* A process that runs goes on, and a handler that has read a row finishes.*)
(* Nothing starts a process, and time need not end a window.               *)
(***************************************************************************)
Fairness ==
    /\ WF_vars(ServerStep)
    /\ \A m \in Machines : WF_vars(AgentStep(m))
    /\ WF_vars(\E c \in copies : SaveRow(c) \/ HandlerGivesUp(c))

FairSpec == Spec /\ Fairness

-----------------------------------------------------------------------------
(* Types.                                                                  *)

Server == [at : {"down", "writing", "ready", "up"}, ca : Nat, key : Nat, next : Nat]

Places == {"off", "extract", "enroll", "truncate", "fill", "dial", "waiting",
           "register", "registering", "persist", "session"}

Work == [cert : Nat, next : Nat, row : Nat]

ServerTypeOK ==
    /\ mode \in Modes
    /\ pki \in [PKIFiles -> Nat]
    /\ server \in Server
    /\ generations \in Nat /\ lost \in Nat
    /\ signer \in Seq(Nat)
    /\ buckets \in [Machines -> Nat]

RowTypeOK ==
    /\ owner \in Seq(Machines \cup {"placeholder"})
    /\ live \subseteq DOMAIN owner /\ revived \subseteq DOMAIN owner
    /\ copies \subseteq [row : DOMAIN owner, for : Machines \cup {"update"}]

HostTypeOK ==
    /\ at \in [Machines -> Places]
    /\ mtls \subseteq Machines /\ up \subseteq Machines
    /\ work \in [Machines -> Work]
    /\ files \in [Machines -> [Credentials -> Nat \cup {Torn}]]
    /\ stateFile \in [Machines -> Nat]
    /\ version \in [Machines -> Versions]
    /\ binaries \in [Machines -> [Binaries -> Versions \cup {Absent}]]
    /\ unsaved \in [Machines -> Nat]

(* Every variable keeps its type; the parts name the process it belongs to. *)
TypeOK ==
    /\ ServerTypeOK
    /\ RowTypeOK
    /\ HostTypeOK
    /\ faults \in 0 .. MaxFaults
    /\ events \in 0 .. MaxEvents

-----------------------------------------------------------------------------
(* Properties.                                                             *)

(* A certificate that was issued stays good: however often the server dies *)
(* and starts again, also while it generates its keys, it comes up with    *)
(* the CA that signed every certificate handed out, unless the data        *)
(* directory was lost since.                                               *)
IssuedStayValid ==
    server.at = "up" /\ mode = "auto" =>
        \A i \in DOMAIN signer : signer[i] > lost => signer[i] = server.ca

(* Credentials that an agent uses belong together, through crashes in the  *)
(* middle of an enrollment: unless a write was cut short, the certificate  *)
(* goes with the key, and the CA it trusts is the one that signed it.      *)
CredentialsMatch ==
    \A m \in Machines :
        m \in mtls /\ (\A f \in Credentials : files[m][f] # Torn) =>
            \A f, g \in Credentials : /\ files[m][f] = files[m][g]
                                      /\ files[m][f] # Absent

(* Only a machine that knows the secret gets a row: the secret is asked    *)
(* for when a certificate is issued or else at every call, and there is no *)
(* way round both.                                                         *)
OnlyTrustedRegister ==
    \A r \in DOMAIN owner : owner[r] \in Machines => owner[r] \in Trusted

(* A machine has a second live row only if an id it was given never        *)
(* reached its state file, or if a save brought a deleted row back.        *)
DuplicatesHaveCause ==
    \A m \in Machines :
        Cardinality({r \in live \ revived : owner[r] = m}) <= 1 + unsaved[m]

Running(m) == at[m] \notin {"off", "extract"}
InSession(m) == At(m, "session") /\ m \in up

(* An agent with complete credentials gets into a session and stays there, *)
(* whatever was done to its row, once nothing ends the processes and the   *)
(* data directory has not been lost.                                       *)
EnrolledConnects ==
    \A m \in Machines :
        <>[](/\ Running(m) /\ m \in mtls /\ server.at = "up"
             /\ \A f \in Credentials : files[m][f] # Torn
             /\ lost = 0)
            => <>[]InSession(m)

(* Claim of manager.go:274, "If mTLS is enforced the gRPC handshake will   *)
(* fail and the retry loop will handle it": an agent whose enrollment      *)
(* failed gets into a session once the server is up and stays up.          *)
RetryLoopHandlesIt ==
    \A m \in Trusted : <>[](Running(m) /\ server.at = "up") => <>InSession(m)
=============================================================================
