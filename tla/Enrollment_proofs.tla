-------------------------- MODULE Enrollment_proofs --------------------------
(***************************************************************************)
(* Proofs about Enrollment, for any machines, modes and bounds.  Four      *)
(* inductive invariants beside the types, each about a few variables:      *)
(*   PKIInv         what the four files of the server can be after a crash *)
(*   CredentialInv  what the three files of an agent can be                *)
(*   TrustInv       how far a machine without the secret gets              *)
(*   StraysCounted  how many rows a machine has that its agent forgot      *)
(***************************************************************************)
EXTENDS Enrollment, FiniteSetTheorems, TLAPS

ClientKey == "grpc-client.key"

(* server.key is written last: with it all files are of one CA, and        *)
(* without it no certificate has been issued since the directory was lost. *)
PKIInv ==
    /\ \A f \in PKIFiles : pki[f] <= generations
    /\ pki["server.key"] # Absent => \A f \in PKIFiles : pki[f] = pki["server.key"]
    /\ server.at = "writing" =>
        /\ server.ca = generations /\ server.key = generations /\ generations > 0
        /\ server.next \in 1 .. 4
        /\ \A i \in 1 .. 4 : i < server.next => pki[PKIOrder[i]] = generations
        /\ pki["server.key"] = Absent
    /\ mode = "auto" /\ server.at \in {"ready", "up"} =>
        /\ pki["server.key"] # Absent
        /\ server.ca = pki["ca.crt"] /\ server.key = pki["ca.key"]
    /\ \A i \in DOMAIN signer :
        /\ signer[i] <= generations
        /\ signer[i] > lost => pki["server.key"] # Absent /\ signer[i] = pki["ca.key"]

(* grpc-client.key is written last, and an enrollment only starts without. *)
CredentialOK(m) ==
    /\ files[m][ClientKey] # Absent =>
        /\ files[m]["grpc-ca.crt"] = files[m]["grpc-client.crt"]
        /\ files[m]["grpc-ca.crt"] \notin {Absent, Torn}
        /\ files[m][ClientKey] \in {Torn, files[m]["grpc-ca.crt"]}
    /\ m \in mtls => files[m][ClientKey] # Absent
    /\ at[m] \in {"off", "extract", "enroll", "truncate", "fill"} => m \notin mtls
    /\ at[m] = "enroll" => files[m][ClientKey] = Absent
    /\ at[m] \in {"truncate", "fill"} =>
        /\ work[m].cert > 0
        /\ work[m].next \in 1 .. 3
        /\ \A i \in 1 .. 3 :
              i < work[m].next => files[m][CredentialOrder[i]] = work[m].cert
    /\ at[m] = "truncate" => files[m][ClientKey] = Absent
    /\ at[m] = "fill" =>
        files[m][ClientKey] = IF work[m].next = 3 THEN Torn ELSE Absent

CredentialInv == \A m \in Machines : CredentialOK(m)

(* Without the secret there is no certificate, no connection and no row. *)
TrustOK(m) ==
    /\ \A f \in Credentials : files[m][f] = Absent
    /\ m \notin mtls /\ m \notin up
    /\ at[m] \notin {"truncate", "fill", "persist"}

TrustInv ==
    /\ \A m \in Machines \ Trusted : TrustOK(m)
    /\ OnlyTrustedRegister
-----------------------------------------------------------------------------
(* What the steps leave alone.                                             *)

(* The names of the files. *)
LEMMA FileNames ==
    /\ PKIFiles = {"ca.crt", "ca.key", "server.crt", "server.key"}
    /\ Credentials = {"grpc-ca.crt", "grpc-client.crt", ClientKey}
    /\ Len(PKIOrder) = 4 /\ Len(CredentialOrder) = 3
    /\ PKIOrder[1] = "ca.crt" /\ PKIOrder[2] = "ca.key"
    /\ PKIOrder[3] = "server.crt" /\ PKIOrder[4] = "server.key"
    /\ CredentialOrder[1] = "grpc-ca.crt" /\ CredentialOrder[2] = "grpc-client.crt"
    /\ CredentialOrder[3] = ClientKey
BY SMT DEF PKIFiles, Credentials, PKIOrder, CredentialOrder, ClientKey

(* The steps that change what the server has: its start and end, and the  *)
(* enrollments it answers.                                                *)
LEMMA ServerFrame ==
    Next => \/ ServerStart \/ WriteFileAtomic \/ Serve \/ ServerCrash \/ LoseDataDir
            \/ \E m \in Machines : \/ WindowEnds(m) \/ Enroll(m)
                                  \/ EnrollRefused(m) \/ EnrollAnswerLost(m)
            \/ UNCHANGED <<mode, pki, server, generations, lost, signer, buckets>>
BY DEF Next, ServerStep, AgentStep, ConnectionStep, AgentFault, Administration,
       pkiVars, AgentStart, Extract, LoadCredentials, TruncateCredential,
       FillCredential, CredentialWriteFails, Connect, Retry, RegisterFound,
       RegisterNew, RegisterAnswerLost, SaveRow, Persist, PersistFails, LinkDown,
       SessionEnds, HandlerGivesUp, AgentCrash, Upgrade, ClearCredentials,
       CreatePlaceholder, UpdateAgent, DeleteAgent

(* The steps that change the rows of agents and the handlers that hold one.*)
LEMMA RowFrame ==
    Next => \/ ServerCrash \/ CreatePlaceholder
            \/ \E m \in Machines :
                  RegisterFound(m) \/ RegisterNew(m) \/ RegisterAnswerLost(m)
            \/ \E c \in copies : SaveRow(c) \/ HandlerGivesUp(c)
            \/ \E r \in live : UpdateAgent(r) \/ DeleteAgent(r)
            \/ UNCHANGED <<live, owner, copies, revived>>
BY DEF Next, ServerStep, AgentStep, ConnectionStep, AgentFault, Administration,
       rowVars, ServerStart, WriteFileAtomic, Serve, LoseDataDir, AgentStart,
       Extract, LoadCredentials, WindowEnds, Enroll, EnrollRefused,
       EnrollAnswerLost, TruncateCredential, FillCredential,
       CredentialWriteFails, Connect, Retry, Persist, PersistFails, LinkDown,
       SessionEnds, AgentCrash, Upgrade, ClearCredentials
-----------------------------------------------------------------------------
(* Types.                                                                  *)

LEMMA ServerTypes ==
    ASSUME TypeOK, Next
    PROVE  ServerTypeOK'
<1>a. ServerTypeOK
  BY DEF TypeOK
<1>f. PKIFiles = {"ca.crt", "ca.key", "server.crt", "server.key"}
  BY FileNames
<1>1. CASE ServerStart
  <2>1. pki["ca.crt"] \in Nat /\ pki["ca.key"] \in Nat
    BY <1>a, <1>f, SMT DEF ServerTypeOK
  <2>2. /\ server' \in {Ready(0, 0), LoadCerts, GenerateCerts}
        /\ generations' \in {generations, generations + 1}
    BY <1>1 DEF ServerStart
  <2>3. server' \in Server /\ generations' \in Nat
    BY <1>a, <2>1, <2>2, SMT DEF ServerTypeOK, Server, LoadCerts, GenerateCerts, Ready
  <2> QED
    BY <1>a, <1>1, <2>3 DEF ServerStart, ServerTypeOK
<1>2. CASE WriteFileAtomic
  <2>0. server' \in {Ready(server.ca, server.key), [server EXCEPT !.next = @ + 1]}
    BY <1>2 DEF WriteFileAtomic
  <2>1. server' \in Server
    BY <1>a, <2>0, SMT DEF ServerTypeOK, Server, Ready
  <2>2. server.ca \in Nat
    BY <1>a, SMT DEF ServerTypeOK, Server
  <2>3. pki' \in [PKIFiles -> Nat]
    BY <1>a, <1>2, <2>2 DEF WriteFileAtomic, ServerTypeOK
  <2> QED
    BY <1>a, <1>2, <2>1, <2>3 DEF WriteFileAtomic, ServerTypeOK
<1>3. CASE Serve
  <2>1. server' \in {[server EXCEPT !.at = "up"], Down}
    BY <1>3 DEF Serve
  <2>2. server' \in Server
    BY <1>a, <2>1, SMT DEF ServerTypeOK, Server, Down
  <2> QED
    BY <1>a, <1>3, <2>2 DEF Serve, ServerTypeOK
<1>4. CASE ServerCrash
  BY <1>a, <1>4, SMT DEF ServerCrash, ServerTypeOK, Server, Down
<1>5. CASE LoseDataDir
  BY <1>a, <1>5, SMT DEF LoseDataDir, ServerTypeOK, Absent
<1>6. ASSUME NEW m \in Machines,
             WindowEnds(m) \/ Enroll(m) \/ EnrollRefused(m) \/ EnrollAnswerLost(m)
      PROVE  ServerTypeOK'
  <2>1. buckets' \in [Machines -> Nat]
    <3>1. buckets' \in {buckets, [buckets EXCEPT ![m] = 0], [buckets EXCEPT ![m] = @ + 1]}
      BY <1>6 DEF WindowEnds, Enroll, EnrollRefused, EnrollAnswerLost, Counted
    <3> QED
      BY <1>a, <3>1, SMT DEF ServerTypeOK
  <2>2. signer' \in Seq(Nat)
    <3>1. signer' \in {signer, Append(signer, server.key)}
      BY <1>6 DEF WindowEnds, Enroll, EnrollRefused, EnrollAnswerLost, IssueCertificate
    <3>2. QED
      <4>1. server.key \in Nat
        BY <1>a, SMT DEF ServerTypeOK, Server
      <4> QED
        BY <1>a, <3>1, <4>1 DEF ServerTypeOK
  <2>3. UNCHANGED <<mode, pki, server, generations, lost>>
    BY <1>6 DEF WindowEnds, Enroll, EnrollRefused, EnrollAnswerLost, pkiVars
  <2> QED
    BY <1>a, <2>1, <2>2, <2>3 DEF ServerTypeOK
<1>7. CASE UNCHANGED <<mode, pki, server, generations, lost, signer, buckets>>
  BY <1>a, <1>7 DEF ServerTypeOK
<1> QED
  BY <1>1, <1>2, <1>3, <1>4, <1>5, <1>6, <1>7, ServerFrame

(* A row more: ids stay ids. *)
LEMMA RowAdded ==
    ASSUME RowTypeOK, NEW for \in Machines \cup {"placeholder"}, CreateRow(for)
    PROVE  /\ owner' \in Seq(Machines \cup {"placeholder"})
           /\ DOMAIN owner' = 1 .. Len(owner) + 1
           /\ DOMAIN owner = 1 .. Len(owner) /\ Len(owner) \in Nat
           /\ live' \subseteq DOMAIN owner'
           /\ \A r \in DOMAIN owner : owner'[r] = owner[r]
           /\ owner'[Len(owner) + 1] = for
           /\ Len(owner') = Len(owner) + 1
BY SMT DEF RowTypeOK, CreateRow

LEMMA RowTypes ==
    ASSUME TypeOK, Next
    PROVE  RowTypeOK'
<1>a. RowTypeOK /\ HostTypeOK
  BY DEF TypeOK
<1>1. CASE ServerCrash
  BY <1>a, <1>1 DEF ServerCrash, RowTypeOK
<1>2. ASSUME NEW for \in Machines \cup {"placeholder"}, CreateRow(for),
             UNCHANGED <<copies, revived>>
      PROVE  RowTypeOK'
  <2>1. DOMAIN owner \subseteq DOMAIN owner'
    BY <1>a, <1>2, RowAdded, SMT
  <2> QED
    BY <1>a, <1>2, <2>1, RowAdded DEF RowTypeOK
<1>3. CASE CreatePlaceholder
  BY <1>2, <1>3 DEF CreatePlaceholder
<1>4. ASSUME NEW m \in Machines, RegisterNew(m) \/ RegisterAnswerLost(m)
      PROVE  RowTypeOK'
  BY <1>2, <1>4 DEF RegisterNew, RegisterAnswerLost
<1>5. ASSUME NEW m \in Machines, RegisterFound(m)
      PROVE  RowTypeOK'
  BY <1>a, <1>5 DEF RegisterFound, RowTypeOK
<1>6. ASSUME NEW c \in copies, SaveRow(c) \/ HandlerGivesUp(c)
      PROVE  RowTypeOK'
  <2>1. c.row \in DOMAIN owner
    BY <1>a DEF RowTypeOK
  <2> QED
    BY <1>a, <1>6, <2>1 DEF SaveRow, HandlerGivesUp, RowTypeOK
<1>7. ASSUME NEW r \in live, UpdateAgent(r) \/ DeleteAgent(r)
      PROVE  RowTypeOK'
  BY <1>a, <1>7 DEF UpdateAgent, DeleteAgent, RowTypeOK
<1>8. CASE UNCHANGED <<live, owner, copies, revived>>
  BY <1>a, <1>8 DEF RowTypeOK
<1> QED
  BY <1>1, <1>3, <1>4, <1>5, <1>6, <1>7, <1>8, RowFrame

(* The steps that change the place of an agent, or what it has in hand. *)
LEMMA AgentFrame ==
    Next => \/ \E m \in Machines : AgentStart(m) \/ AgentStep(m) \/ AgentFault(m)
            \/ \E c \in copies : SaveRow(c)
            \/ ServerCrash
            \/ UNCHANGED <<at, mtls, up, work>>
BY DEF Next, ServerStep, Administration, agentVars, ServerStart, WriteFileAtomic,
       Serve, LoseDataDir, WindowEnds, HandlerGivesUp, Upgrade, ClearCredentials,
       CreatePlaceholder, UpdateAgent, DeleteAgent

LEMMA AgentTypes ==
    ASSUME TypeOK, Next
    PROVE  /\ at' \in [Machines -> Places]
           /\ mtls' \subseteq Machines /\ up' \subseteq Machines
           /\ work' \in [Machines -> Work]
<1> DEFINE OK == /\ at' \in [Machines -> Places]
                 /\ mtls' \subseteq Machines /\ up' \subseteq Machines
                 /\ work' \in [Machines -> Work]
<1>a. /\ at \in [Machines -> Places]
      /\ mtls \subseteq Machines /\ up \subseteq Machines
      /\ work \in [Machines -> Work]
      /\ NoWork \in Work
  BY DEF TypeOK, HostTypeOK, NoWork, Work, NoRow
<1>1. ASSUME NEW m \in Machines, NEW place \in Places, Goto(m, place)
      PROVE  at' \in [Machines -> Places]
  BY <1>a, <1>1 DEF Goto
<1>2. ASSUME NEW m \in Machines, NEW place \in Places, Move(m, place)
      PROVE  OK
  BY <1>a, <1>1, <1>2 DEF Move
<1>3. ASSUME NEW m \in Machines, NEW w \in Work, work' = [work EXCEPT ![m] = w]
      PROVE  work' \in [Machines -> Work]
  BY <1>a, <1>3
<1>4. ASSUME NEW m \in Machines, AgentStep(m)
      PROVE  OK
  <2>1. CASE \E b \in Binaries : Extract(m, b)
    BY <1>a, <2>1 DEF Extract, agentVars
  <2>2. CASE LoadCredentials(m)
    BY <1>a, <1>1, <2>2 DEF LoadCredentials, Places
  <2>3. CASE Enroll(m)
    <3>1. [cert |-> Len(signer) + 1, next |-> 1, row |-> NoRow] \in Work
      BY SMT DEF TypeOK, ServerTypeOK, Work, NoRow
    <3> QED
      BY <1>a, <1>1, <1>3, <2>3, <3>1 DEF Enroll, Places
  <2>4. CASE EnrollRefused(m)
    BY <1>2, <2>4 DEF EnrollRefused, Places
  <2>5. CASE TruncateCredential(m)
    BY <1>2, <2>5 DEF TruncateCredential, Places
  <2>6. CASE FillCredential(m)
    <3>1. [work EXCEPT ![m].next = @ + 1] \in [Machines -> Work]
      BY <1>a, SMT DEF Work
    <3> QED
      BY <1>a, <1>1, <1>3, <2>6, <3>1 DEF FillCredential, Places
  <2>7. CASE Connect(m)
    BY <1>a, <1>1, <2>7 DEF Connect, Places
  <2>8. CASE Retry(m) \/ RegisterFound(m) \/ SessionEnds(m)
    BY <1>2, <2>8 DEF Retry, RegisterFound, SessionEnds, Places
  <2>9. CASE RegisterNew(m)
    <3>1. Len(owner') \in Nat
      BY <2>9, RowAdded, SMT DEF TypeOK, RegisterNew
    <3>2. \A n \in Nat : [work EXCEPT ![m].row = n] \in [Machines -> Work]
      BY <1>a, SMT DEF Work
    <3> QED
      BY <1>a, <1>1, <2>9, <3>1, <3>2 DEF RegisterNew, Places
  <2>10. CASE Persist(m)
    BY <1>a, <1>1, <1>3, <2>10 DEF Persist, Places
  <2> QED
    BY <1>4, <2>1, <2>2, <2>3, <2>4, <2>5, <2>6, <2>7, <2>8, <2>9, <2>10
       DEF AgentStep, ConnectionStep
<1>5. ASSUME NEW m \in Machines, AgentFault(m)
      PROVE  OK
  <2>1. CASE EnrollAnswerLost(m)
    BY <1>2, <2>1 DEF EnrollAnswerLost, Places
  <2>2. CASE CredentialWriteFails(m)
    BY <1>a, <1>1, <1>3, <2>2 DEF CredentialWriteFails, Places
  <2>3. CASE RegisterAnswerLost(m)
    BY <1>a, <1>1, <2>3 DEF RegisterAnswerLost, Places
  <2>4. CASE PersistFails(m)
    BY <1>a, <1>1, <1>3, <2>4 DEF PersistFails, Places
  <2>5. CASE LinkDown(m)
    BY <1>a, <2>5 DEF LinkDown
  <2>6. CASE AgentCrash(m)
    BY <1>a, <1>1, <1>3, <2>6 DEF AgentCrash, Places
  <2> QED
    BY <1>5, <2>1, <2>2, <2>3, <2>4, <2>5, <2>6 DEF AgentFault
<1>6. ASSUME NEW m \in Machines, AgentStart(m)
      PROVE  OK
  BY <1>2, <1>6 DEF AgentStart, Places
<1>7. ASSUME NEW c \in copies, SaveRow(c)
      PROVE  OK
  <2>1. UNCHANGED <<mtls, up, work>>
    BY <1>7 DEF SaveRow
  <2>2. at' = at \/ (c.for \in Machines /\ Goto(c.for, "session"))
    BY <1>a, <1>7 DEF SaveRow
  <2> QED
    BY <1>a, <1>1, <2>1, <2>2 DEF Places
<1>8. CASE ServerCrash
  BY <1>a, <1>8 DEF ServerCrash
<1>9. CASE UNCHANGED <<at, mtls, up, work>>
  BY <1>a, <1>9
<1> QED
  BY <1>4, <1>5, <1>6, <1>7, <1>8, <1>9, AgentFrame

(* The steps that change the files of a machine, or what is counted there. *)
LEMMA HostFrame ==
    Next => \/ \E m \in Machines :
                 \/ \E b \in Binaries : Extract(m, b)
                 \/ TruncateCredential(m) \/ FillCredential(m) \/ ClearCredentials(m)
                 \/ RegisterAnswerLost(m) \/ Persist(m) \/ PersistFails(m)
                 \/ AgentCrash(m)
                 \/ \E v \in Versions : Upgrade(m, v)
            \/ UNCHANGED <<files, stateFile, version, binaries, unsaved>>
BY DEF Next, ServerStep, AgentStep, ConnectionStep, AgentFault, Administration,
       hostVars, ServerStart, WriteFileAtomic, Serve, ServerCrash, LoseDataDir,
       AgentStart, LoadCredentials, WindowEnds, Enroll, EnrollRefused,
       EnrollAnswerLost, CredentialWriteFails, Connect, Retry, RegisterFound,
       RegisterNew, SaveRow, LinkDown, SessionEnds, HandlerGivesUp,
       CreatePlaceholder, UpdateAgent, DeleteAgent

LEMMA HostTypes ==
    ASSUME TypeOK, Next
    PROVE  HostTypeOK'
<1> DEFINE Disk == /\ files \in [Machines -> [Credentials -> Nat \cup {Torn}]]
                   /\ stateFile \in [Machines -> Nat]
                   /\ version \in [Machines -> Versions]
                   /\ binaries \in [Machines -> [Binaries -> Versions \cup {Absent}]]
                   /\ unsaved \in [Machines -> Nat]
<1>a. /\ Disk
      /\ work \in [Machines -> Work]
  BY DEF TypeOK, HostTypeOK
<1>1. ASSUME NEW m \in Machines,
             \/ \E b \in Binaries : Extract(m, b)
             \/ TruncateCredential(m) \/ FillCredential(m) \/ ClearCredentials(m)
             \/ RegisterAnswerLost(m) \/ Persist(m) \/ PersistFails(m)
             \/ AgentCrash(m)
             \/ \E v \in Versions : Upgrade(m, v)
      PROVE  Disk'
  <2>w. work[m].cert \in Nat /\ work[m].row \in Nat
    BY <1>a DEF Work
  <2>1. ASSUME NEW f, NEW n \in Nat \cup {Torn}, files' = [files EXCEPT ![m][f] = n]
        PROVE  files' \in [Machines -> [Credentials -> Nat \cup {Torn}]]
    BY <1>a, <2>1
  <2>3. CASE \E b \in Binaries : Extract(m, b)
    BY <1>a, <2>3 DEF Extract
  <2>4. CASE TruncateCredential(m)
    BY <1>a, <2>1, <2>4 DEF TruncateCredential, hostVars
  <2>5. CASE FillCredential(m)
    BY <1>a, <2>1, <2>5, <2>w DEF FillCredential, hostVars
  <2>6. CASE ClearCredentials(m)
    BY <1>a, <2>6 DEF ClearCredentials, hostVars, Absent
  <2>7. CASE RegisterAnswerLost(m)
    <3>1. unsaved' = [unsaved EXCEPT ![m] = @ + 1]
      BY <2>7 DEF RegisterAnswerLost
    <3>2. unsaved' \in [Machines -> Nat]
      BY <1>a, <3>1, SMT
    <3> QED
      BY <1>a, <2>7, <3>2 DEF RegisterAnswerLost, hostVars
  <2>8. CASE Persist(m)
    BY <1>a, <2>8, <2>w DEF Persist, hostVars
  <2>9. CASE PersistFails(m)
    <3>1. unsaved' = [unsaved EXCEPT ![m] = @ + 1]
      BY <2>9 DEF PersistFails
    <3>2. unsaved' \in [Machines -> Nat]
      BY <1>a, <3>1, SMT
    <3> QED
      BY <1>a, <2>9, <3>2 DEF PersistFails, hostVars
  <2>10. CASE AgentCrash(m)
    <3>1. unsaved' \in {unsaved, [unsaved EXCEPT ![m] = @ + 1]}
      BY <2>10 DEF AgentCrash
    <3>2. unsaved' \in [Machines -> Nat]
      BY <1>a, <3>1, SMT
    <3> QED
      BY <1>a, <2>10, <3>2 DEF AgentCrash, hostVars
  <2>11. CASE \E v \in Versions : Upgrade(m, v)
    BY <1>a, <2>11 DEF Upgrade
  <2> QED
    BY <1>1, <2>3, <2>4, <2>5, <2>6, <2>7, <2>8, <2>9, <2>10, <2>11
<1>2. ASSUME UNCHANGED <<files, stateFile, version, binaries, unsaved>>
      PROVE  Disk'
  BY <1>a, <1>2
<1>3. Disk'
  BY <1>1, <1>2, HostFrame
<1> QED
  BY <1>3, AgentTypes DEF HostTypeOK

(* Faults and events stay within their bounds. *)
LEMMA CounterTypes ==
    ASSUME TypeOK, Next
    PROVE  faults' \in 0 .. MaxFaults /\ events' \in 0 .. MaxEvents
<1>1. Fault \/ Event \/ NoFault
  BY DEF Next, ServerStep, AgentStep, ConnectionStep, AgentFault, Administration,
         ServerStart, WriteFileAtomic, Serve, ServerCrash, LoseDataDir, AgentStart,
         Extract, LoadCredentials, WindowEnds, Enroll, EnrollRefused,
         EnrollAnswerLost, TruncateCredential, FillCredential,
         CredentialWriteFails, Connect, Retry, RegisterFound, RegisterNew,
         RegisterAnswerLost, SaveRow, Persist, PersistFails, LinkDown,
         SessionEnds, HandlerGivesUp, AgentCrash, Upgrade, ClearCredentials,
         CreatePlaceholder, UpdateAgent, DeleteAgent
<1> QED
  BY <1>1, EnrollBoundsAssumption, SMT DEF TypeOK, Fault, Event, NoFault

LEMMA TypeStep ==
    ASSUME TypeOK, [Next]_vars
    PROVE  TypeOK'
<1>1. CASE Next
  BY <1>1, ServerTypes, RowTypes, HostTypes, CounterTypes DEF TypeOK
<1>2. CASE UNCHANGED vars
  BY <1>2 DEF vars, pkiVars, rowVars, agentVars, hostVars, TypeOK, ServerTypeOK,
              RowTypeOK, HostTypeOK
<1> QED
  BY <1>1, <1>2

LEMMA TypeInit ==
    Init => TypeOK
<1> SUFFICES ASSUME Init PROVE TypeOK
  OBVIOUS
<1>1. Down \in Server /\ NoWork \in Work
  BY DEF Down, Server, NoWork, Work, NoRow
<1>2. ServerTypeOK
  BY <1>1 DEF Init, ServerTypeOK, Absent
<1>3. RowTypeOK
  BY DEF Init, RowTypeOK
<1>4. HostTypeOK
  BY <1>1 DEF Init, HostTypeOK, Absent, NoRow, Places
<1>5. faults \in 0 .. MaxFaults /\ events \in 0 .. MaxEvents
  BY EnrollBoundsAssumption DEF Init
<1> QED
  BY <1>2, <1>3, <1>4, <1>5 DEF TypeOK

(* Every variable keeps its type: rows that handlers hold, that are live   *)
(* or were revived exist, a PKI file is never torn (writeFileAtomic), and  *)
(* a credential file may be (os.WriteFile).                                *)
THEOREM EnrollTypeCorrect == Spec => []TypeOK
BY TypeInit, TypeStep, PTL DEF Spec
-----------------------------------------------------------------------------
(* The keys of the server.                                                 *)

LEMMA PKIStep ==
    ASSUME TypeOK, PKIInv, Next
    PROVE  PKIInv'
<1>a. ServerTypeOK
  BY DEF TypeOK
<1>f. /\ PKIFiles = {"ca.crt", "ca.key", "server.crt", "server.key"}
      /\ Len(PKIOrder) = 4
      /\ PKIOrder[1] = "ca.crt" /\ PKIOrder[2] = "ca.key"
      /\ PKIOrder[3] = "server.crt" /\ PKIOrder[4] = "server.key"
  BY FileNames
<1>t. /\ generations \in Nat /\ lost \in Nat
      /\ server.ca \in Nat /\ server.key \in Nat /\ server.next \in Nat
      /\ pki \in [PKIFiles -> Nat]
      /\ \A i \in DOMAIN signer : signer[i] \in Nat
  BY <1>a, SMT DEF ServerTypeOK, Server
<1>1. CASE ServerStart
  <2>1. UNCHANGED <<mode, pki, lost, signer>>
    BY <1>1 DEF ServerStart
  <2>2. CASE mode # "auto" /\ server' = Ready(0, 0) /\ UNCHANGED generations
    BY <2>1, <2>2 DEF PKIInv, Ready
  <2>3. CASE mode = "auto" /\ PKIExists /\ server' = LoadCerts /\ UNCHANGED generations
    BY <1>f, <2>1, <2>3 DEF PKIInv, PKIExists, LoadCerts, Ready
  <2>4. CASE /\ ~PKIExists
             /\ generations' = generations + 1
             /\ server' = GenerateCerts
    <3>1. pki["server.key"] = Absent
      BY <2>4 DEF PKIInv, PKIExists
    <3>2. /\ server'.at = "writing" /\ server'.next = 1
          /\ server'.ca = generations' /\ server'.key = generations'
      BY <2>4 DEF GenerateCerts
    <3>3. /\ \A f \in PKIFiles : pki[f] <= generations'
          /\ \A i \in DOMAIN signer : signer[i] <= generations'
          /\ generations' > 0
      BY <1>t, <2>4, SMT DEF PKIInv
    <3> QED
      BY <2>1, <3>1, <3>2, <3>3, SMT DEF PKIInv
  <2> QED
    BY <1>1, <2>2, <2>3, <2>4 DEF ServerStart
<1>2. CASE WriteFileAtomic
  <2>1. /\ UNCHANGED <<mode, generations, lost, signer>>
        /\ pki' = [pki EXCEPT ![PKIOrder[server.next]] = server.ca]
        /\ server.ca = generations /\ server.key = generations /\ generations > 0
        /\ server.next \in 1 .. 4
        /\ \A i \in 1 .. 4 : i < server.next => pki[PKIOrder[i]] = generations
        /\ pki["server.key"] = Absent
    BY <1>2 DEF WriteFileAtomic, PKIInv
  <2>2. \A f \in PKIFiles : pki'[f] <= generations
    BY <1>t, <2>1, SMT DEF PKIInv
  <2>3. \A i \in DOMAIN signer : signer[i] <= generations /\ signer[i] <= lost
    BY <1>t, <2>1, SMT DEF PKIInv
  <2>4. CASE server.next = 4
    <3>1. server' = Ready(generations, generations)
      BY <1>f, <1>2, <2>1, <2>4 DEF WriteFileAtomic
    <3>2. \A f \in PKIFiles : pki'[f] = generations
      BY <1>f, <1>t, <2>1, <2>4, SMT
    <3> QED
      BY <1>f, <1>t, <2>1, <2>2, <2>3, <3>1, <3>2, SMT DEF PKIInv, Ready, Absent
  <2>5. CASE server.next # 4
    <3>1. server' = [server EXCEPT !.next = @ + 1]
      BY <1>f, <1>2, <2>5 DEF WriteFileAtomic
    <3>2. /\ server'.ca = generations /\ server'.key = generations
          /\ server'.next = server.next + 1 /\ server'.at = "writing"
      BY <1>a, <1>2, <2>1, <3>1, SMT DEF ServerTypeOK, Server, WriteFileAtomic
    <3>3. /\ server'.next \in 1 .. 4
          /\ \A i \in 1 .. 4 : i < server'.next => pki'[PKIOrder[i]] = generations
          /\ pki'["server.key"] = Absent
      BY <1>f, <1>t, <2>1, <2>5, <3>2, SMT
    <3> QED
      BY <1>t, <2>1, <2>2, <2>3, <3>2, <3>3, SMT DEF PKIInv
  <2> QED
    BY <2>4, <2>5
<1>3. CASE Serve
  <2>1. /\ server.at = "ready"
        /\ server' = Down \/ server' = [server EXCEPT !.at = "up"]
        /\ UNCHANGED <<mode, pki, generations, lost, signer>>
    BY <1>3 DEF Serve
  <2>2. CASE server' = Down
    BY <2>1, <2>2 DEF PKIInv, Down
  <2>3. CASE server' = [server EXCEPT !.at = "up"]
    <3>1. server'.at = "up" /\ server'.ca = server.ca /\ server'.key = server.key
      BY <1>a, <2>3, SMT DEF ServerTypeOK, Server
    <3> QED
      BY <2>1, <3>1 DEF PKIInv
  <2> QED
    BY <2>1, <2>2, <2>3
<1>4. CASE ServerCrash
  BY <1>4 DEF ServerCrash, PKIInv, Down
<1>5. CASE LoseDataDir
  BY <1>f, <1>t, <1>5, SMT DEF LoseDataDir, PKIInv, Absent
<1>6. ASSUME NEW m \in Machines, Enroll(m) \/ EnrollAnswerLost(m)
      PROVE  PKIInv'
  <2>1. /\ mode = "auto" /\ server.at \in {"ready", "up"}
        /\ signer' = Append(signer, server.key)
        /\ UNCHANGED <<mode, pki, server, generations, lost>>
    BY <1>6 DEF Enroll, EnrollAnswerLost, MayEnroll, EnrollAnswers,
                IssueCertificate, pkiVars
  <2>2. \A i \in DOMAIN signer' : \/ i \in DOMAIN signer /\ signer'[i] = signer[i]
                                 \/ signer'[i] = server.key
    BY <1>a, <2>1, SMT DEF ServerTypeOK
  <2>3. /\ pki["server.key"] # Absent /\ server.key = pki["ca.key"]
        /\ pki["ca.key"] <= generations
    BY <1>f, <2>1 DEF PKIInv
  <2> QED
    BY <2>1, <2>2, <2>3 DEF PKIInv
<1>7. CASE UNCHANGED <<mode, pki, server, generations, lost, signer>>
  BY <1>7 DEF PKIInv
<1>8. ASSUME NEW m \in Machines, WindowEnds(m) \/ EnrollRefused(m)
      PROVE  UNCHANGED <<mode, pki, server, generations, lost, signer>>
  BY <1>8 DEF WindowEnds, EnrollRefused, pkiVars
<1> QED
  BY <1>1, <1>2, <1>3, <1>4, <1>5, <1>6, <1>7, <1>8, ServerFrame

(* The server comes up with the CA that signed what it handed out, however *)
(* often it dies between two of its files: EnsureCerts starts again as     *)
(* long as the last one is missing, and no certificate was issued until    *)
(* it is there.                                                            *)
THEOREM IssuedStayValidCorrect == Spec => []IssuedStayValid
<1>1. Init => PKIInv
  BY FileNames DEF Init, PKIInv, Down, Absent
<1>2. TypeOK /\ PKIInv /\ [Next]_vars => PKIInv'
  <2>1. CASE UNCHANGED vars
    BY <2>1 DEF vars, pkiVars, PKIInv
  <2> QED
    BY <2>1, PKIStep
<1>3. PKIInv => IssuedStayValid
  BY FileNames DEF PKIInv, IssuedStayValid
<1> QED
  BY <1>1, <1>2, <1>3, EnrollTypeCorrect, PTL DEF Spec
-----------------------------------------------------------------------------
(* What a step does to one machine.                                        *)

(* Nothing, but that its connection may break. *)
AgentStill(m) ==
    /\ at'[m] = at[m] /\ work'[m] = work[m]
    /\ m \in mtls' <=> m \in mtls
    /\ m \in up' => m \in up

Still(m) == AgentStill(m) /\ files'[m] = files[m]

(* Where its agent is once it is done with its credentials. *)
Late == {"dial", "waiting", "register", "registering", "persist", "session"}

(* Its agent goes on there.  Only Connect makes a connection, and only a   *)
(* call over one creates a row.                                            *)
LateStep(m) ==
    /\ at[m] \in Late /\ at'[m] \in Late
    /\ m \in mtls' <=> m \in mtls
    /\ m \in up' => m \in up \/ Connects(m)
    /\ at'[m] = "persist" => m \in up
    /\ files'[m] = files[m]

(* Or its agent starts, ends, or is about its credentials. *)
EarlyStep(m) ==
    \/ AgentStart(m) \/ LoadCredentials(m)
    \/ Enroll(m) \/ EnrollRefused(m) \/ EnrollAnswerLost(m)
    \/ TruncateCredential(m) \/ FillCredential(m) \/ CredentialWriteFails(m)
    \/ ClearCredentials(m)
    \/ AgentCrash(m)

LEMMA OtherMachine ==
    ASSUME TypeOK, NEW m \in Machines, NEW n \in Machines, n # m,
           AgentStart(n) \/ AgentStep(n) \/ AgentFault(n)
    PROVE  AgentStill(m)
<1>a. /\ at \in [Machines -> Places] /\ work \in [Machines -> Work]
      /\ mtls \subseteq Machines /\ up \subseteq Machines
  BY DEF TypeOK, HostTypeOK
<1>1. /\ \E place : Goto(n, place) \/ UNCHANGED at
      /\ \E w : work' = [work EXCEPT ![n] = w] \/ UNCHANGED work
      /\ mtls' \in {mtls, mtls \cup {n}, mtls \ {n}}
      /\ up' \in {up, up \cup {n}, up \ {n}}
  <2>1. CASE AgentStart(n)
    BY <2>1 DEF AgentStart, Move
  <2>2. CASE \E b \in Binaries : Extract(n, b)
    BY <2>2 DEF Extract, agentVars
  <2>3. CASE LoadCredentials(n) \/ Enroll(n) \/ EnrollRefused(n) \/ EnrollAnswerLost(n)
    BY <2>3 DEF LoadCredentials, Enroll, EnrollRefused, EnrollAnswerLost, Move
  <2>4. CASE TruncateCredential(n) \/ FillCredential(n) \/ CredentialWriteFails(n)
    BY <2>4 DEF TruncateCredential, FillCredential, CredentialWriteFails, Move
  <2>5. CASE Connect(n) \/ Retry(n) \/ RegisterFound(n) \/ SessionEnds(n)
    BY <2>5 DEF Connect, Retry, RegisterFound, SessionEnds, Move
  <2>6. CASE RegisterNew(n) \/ RegisterAnswerLost(n)
    BY <2>6 DEF RegisterNew, RegisterAnswerLost
  <2>7. CASE Persist(n) \/ PersistFails(n) \/ LinkDown(n) \/ AgentCrash(n)
    BY <2>7 DEF Persist, PersistFails, LinkDown, AgentCrash
  <2> QED
    BY <2>1, <2>2, <2>3, <2>4, <2>5, <2>6, <2>7
       DEF AgentStep, ConnectionStep, AgentFault
<1> QED
  BY <1>a, <1>1 DEF AgentStill, Goto

(* The files of a machine change only by steps of its own. *)
LEMMA FilesFrame ==
    ASSUME TypeOK, Next, NEW m \in Machines
    PROVE  \/ TruncateCredential(m) \/ FillCredential(m) \/ ClearCredentials(m)
           \/ files'[m] = files[m]
<1>a. files \in [Machines -> [Credentials -> Nat \cup {Torn}]]
  BY DEF TypeOK, HostTypeOK
<1>1. ASSUME NEW n \in Machines, n # m,
             TruncateCredential(n) \/ FillCredential(n) \/ ClearCredentials(n)
      PROVE  files'[m] = files[m]
  BY <1>a, <1>1 DEF TruncateCredential, FillCredential, ClearCredentials
<1>2. ASSUME NEW n \in Machines,
             \/ \E b \in Binaries : Extract(n, b)
             \/ RegisterAnswerLost(n) \/ Persist(n) \/ PersistFails(n)
             \/ AgentCrash(n)
             \/ \E v \in Versions : Upgrade(n, v)
      PROVE  files' = files
  BY <1>2 DEF Extract, RegisterAnswerLost, Persist, PersistFails, AgentCrash, Upgrade
<1> QED
  BY <1>1, <1>2, HostFrame

LEMMA MachineFrame ==
    ASSUME TypeOK, Next, NEW m \in Machines
    PROVE  Still(m) \/ LateStep(m) \/ EarlyStep(m)
<1>a. /\ at \in [Machines -> Places] /\ work \in [Machines -> Work]
      /\ mtls \subseteq Machines /\ up \subseteq Machines
  BY DEF TypeOK, HostTypeOK
<1>f. SUFFICES ASSUME ~EarlyStep(m), files'[m] = files[m]
               PROVE  Still(m) \/ LateStep(m)
  BY FilesFrame DEF EarlyStep
<1>1. ASSUME NEW n \in Machines, n # m, AgentStart(n) \/ AgentStep(n) \/ AgentFault(n)
      PROVE  Still(m)
  BY <1>1, <1>f, OtherMachine DEF Still
<1>2. CASE \E b \in Binaries : Extract(m, b)
  BY <1>f, <1>2 DEF Extract, agentVars, Still, AgentStill
<1>3. CASE Connect(m) \/ Retry(m) \/ RegisterFound(m) \/ SessionEnds(m)
  BY <1>a, <1>f, <1>3 DEF Connect, Retry, RegisterFound, SessionEnds, Move, Goto, At,
                          Late, LateStep
<1>4. CASE RegisterNew(m) \/ RegisterAnswerLost(m)
  BY <1>a, <1>f, <1>4 DEF RegisterNew, RegisterAnswerLost, Goto, At, Late, LateStep
<1>5. CASE Persist(m) \/ PersistFails(m)
  BY <1>a, <1>f, <1>5 DEF Persist, PersistFails, Goto, At, Late, LateStep
<1>6. CASE LinkDown(m)
  BY <1>a, <1>f, <1>6 DEF LinkDown, Still, AgentStill
<1>7. ASSUME NEW c \in copies, SaveRow(c)
      PROVE  Still(m) \/ LateStep(m)
  <2>1. CASE c.for = m /\ m \in up /\ At(m, "registering")
    BY <1>a, <1>f, <1>7, <2>1 DEF SaveRow, Goto, At, Late, LateStep
  <2>2. CASE ~(c.for = m /\ m \in up /\ At(m, "registering"))
    BY <1>a, <1>f, <1>7, <2>2 DEF SaveRow, Goto, Still, AgentStill
  <2> QED
    BY <2>1, <2>2
<1>8. CASE ServerCrash
  BY <1>f, <1>8 DEF ServerCrash, Still, AgentStill
<1>9. CASE UNCHANGED <<at, mtls, up, work>>
  BY <1>f, <1>9 DEF Still, AgentStill
<1>10. ASSUME AgentStart(m) \/ AgentStep(m) \/ AgentFault(m)
       PROVE  Still(m) \/ LateStep(m)
  BY <1>f, <1>2, <1>3, <1>4, <1>5, <1>6, <1>10
     DEF EarlyStep, AgentStep, ConnectionStep, AgentFault
<1> QED
  BY <1>1, <1>7, <1>8, <1>9, <1>10, AgentFrame
-----------------------------------------------------------------------------
(* The credentials of a machine.                                           *)

LEMMA CredentialStep ==
    ASSUME TypeOK, CredentialInv, Next, NEW m \in Machines
    PROVE  CredentialOK(m)'
<1>a. /\ at \in [Machines -> Places] /\ work \in [Machines -> Work]
      /\ mtls \subseteq Machines
      /\ files \in [Machines -> [Credentials -> Nat \cup {Torn}]]
      /\ work[m].cert \in Nat /\ work[m].next \in Nat
  BY DEF TypeOK, HostTypeOK, Work
<1>c. CredentialOK(m)
  BY DEF CredentialInv
<1>f. /\ Credentials = {"grpc-ca.crt", "grpc-client.crt", ClientKey}
      /\ Len(CredentialOrder) = 3
      /\ CredentialOrder[1] = "grpc-ca.crt" /\ CredentialOrder[2] = "grpc-client.crt"
      /\ CredentialOrder[3] = ClientKey
      /\ ClientKey \notin {"grpc-ca.crt", "grpc-client.crt"}
  BY FileNames DEF ClientKey
<1>1. CASE Still(m)
  BY <1>c, <1>1 DEF Still, AgentStill, CredentialOK
<1>2. CASE LateStep(m)
  BY <1>c, <1>2 DEF LateStep, Late, CredentialOK
<1>3. CASE AgentStart(m)
  BY <1>a, <1>c, <1>3 DEF AgentStart, Move, Goto, At, CredentialOK
<1>4. CASE LoadCredentials(m)
  <2>1. /\ m \notin mtls /\ files' = files
        /\ at'[m] = IF MustEnroll(m) THEN "enroll" ELSE "dial"
        /\ m \in mtls' <=> CredentialsExist(m)
    BY <1>a, <1>c, <1>4 DEF LoadCredentials, Goto, At, CredentialOK
  <2>2. CredentialsExist(m) <=> files[m][ClientKey] # Absent
    BY <1>c, <1>f DEF CredentialsExist, CredentialOK
  <2>3. at'[m] = "enroll" => files[m][ClientKey] = Absent
    BY <2>1, <2>2 DEF MustEnroll
  <2> QED
    BY <1>c, <2>1, <2>2, <2>3 DEF CredentialOK
<1>5. CASE Enroll(m)
  <2>1. /\ files[m][ClientKey] = Absent /\ m \notin mtls
        /\ at'[m] = "truncate" /\ mtls' = mtls /\ files' = files
        /\ work'[m] = [cert |-> Len(signer) + 1, next |-> 1, row |-> NoRow]
    BY <1>a, <1>c, <1>5 DEF Enroll, Goto, At, CredentialOK
  <2>2. Len(signer) + 1 > 0
    BY SMT DEF TypeOK, ServerTypeOK
  <2>3. /\ work'[m].cert > 0 /\ work'[m].next = 1
    BY <2>1, <2>2
  <2> QED
    BY <2>1, <2>3, SMT DEF CredentialOK
<1>6. CASE EnrollRefused(m) \/ EnrollAnswerLost(m)
  BY <1>a, <1>c, <1>6 DEF EnrollRefused, EnrollAnswerLost, Move, Goto, At, CredentialOK
<1>7. CASE TruncateCredential(m)
  <2>1. /\ files[m][ClientKey] = Absent /\ m \notin mtls
        /\ at'[m] = "fill" /\ mtls' = mtls /\ work' = work
        /\ files'[m] = [files[m] EXCEPT ![CredentialOrder[work[m].next]] = Torn]
        /\ work[m].cert > 0 /\ work[m].next \in 1 .. 3
        /\ \A i \in 1 .. 3 :
              i < work[m].next => files[m][CredentialOrder[i]] = work[m].cert
    BY <1>a, <1>c, <1>7 DEF TruncateCredential, Move, Goto, At, CredentialOK
  <2>2. CASE work[m].next = 3
    <3>1. /\ files'[m]["grpc-ca.crt"] = work[m].cert
          /\ files'[m]["grpc-client.crt"] = work[m].cert
          /\ files'[m][ClientKey] = Torn
      BY <1>a, <1>f, <2>1, <2>2, SMT
    <3>2. work[m].cert \notin {Absent, Torn}
      BY <1>a, <2>1, SMT DEF Absent, Torn
    <3> QED
      BY <1>a, <1>f, <2>1, <2>2, <3>1, <3>2, SMT DEF CredentialOK
  <2>3. CASE work[m].next # 3
    <3>1. /\ files'[m][ClientKey] = Absent
          /\ \A i \in 1 .. 3 :
                i < work[m].next => files'[m][CredentialOrder[i]] = work[m].cert
      BY <1>a, <1>f, <2>1, <2>3, SMT
    <3> QED
      BY <1>a, <2>1, <2>3, <3>1, SMT DEF CredentialOK
  <2> QED
    BY <2>2, <2>3
<1>8. CASE FillCredential(m)
  <2>1. /\ files[m][ClientKey] = IF work[m].next = 3 THEN Torn ELSE Absent
        /\ m \notin mtls
        /\ files'[m] = [files[m] EXCEPT ![CredentialOrder[work[m].next]] = work[m].cert]
        /\ work[m].cert > 0 /\ work[m].next \in 1 .. 3
        /\ \A i \in 1 .. 3 :
              i < work[m].next => files[m][CredentialOrder[i]] = work[m].cert
    BY <1>a, <1>c, <1>8 DEF FillCredential, At, CredentialOK
  <2>2. CASE work[m].next = 3
    <3>1. \A f \in Credentials : files'[m][f] = work[m].cert
      BY <1>a, <1>f, <2>1, <2>2, SMT
    <3>2. work[m].cert \notin {Absent, Torn}
      BY <1>a, <2>1, SMT DEF Absent, Torn
    <3>3. at'[m] = "dial"
      BY <1>a, <1>f, <1>8, <2>2 DEF FillCredential, Goto
    <3> QED
      BY <1>f, <3>1, <3>2, <3>3 DEF CredentialOK
  <2>3. CASE work[m].next # 3
    <3>1. /\ at'[m] = "truncate" /\ mtls' = mtls
          /\ work' = [work EXCEPT ![m].next = @ + 1]
      BY <1>a, <1>f, <1>8, <2>3 DEF FillCredential, Goto
    <3>2. work'[m].cert = work[m].cert /\ work'[m].next = work[m].next + 1
      BY <1>a, <3>1, SMT DEF Work
    <3>3. /\ files'[m][ClientKey] = Absent
          /\ work'[m].next \in 1 .. 3
          /\ \A i \in 1 .. 3 :
                i < work'[m].next => files'[m][CredentialOrder[i]] = work[m].cert
      BY <1>a, <1>f, <2>1, <2>3, <3>2, SMT
    <3> QED
      BY <2>1, <3>1, <3>2, <3>3 DEF CredentialOK
  <2> QED
    BY <2>2, <2>3
<1>9. CASE CredentialWriteFails(m)
  BY <1>a, <1>c, <1>9 DEF CredentialWriteFails, Goto, CredentialOK
<1>10. CASE ClearCredentials(m)
  <2>1. /\ at'[m] = "off" /\ m \notin mtls'
        /\ files'[m] = [f \in Credentials |-> Absent]
    BY <1>a, <1>c, <1>10 DEF ClearCredentials, agentVars, At, CredentialOK
  <2> QED
    BY <1>f, <2>1 DEF CredentialOK
<1>11. CASE AgentCrash(m)
  BY <1>a, <1>c, <1>11 DEF AgentCrash, Goto, CredentialOK
<1> QED
  BY <1>1, <1>2, <1>3, <1>4, <1>5, <1>6, <1>7, <1>8, <1>9, <1>10, <1>11, MachineFrame
     DEF EarlyStep

(* The credentials that an agent uses are those of one enrollment, or one  *)
(* of the files is visibly cut short: the key is the last that Enroll      *)
(* writes, and an agent that has a key never enrolls again.                *)
THEOREM CredentialsMatchCorrect == Spec => []CredentialsMatch
<1>1. Init => CredentialInv
  BY FileNames DEF Init, CredentialInv, CredentialOK
<1>2. TypeOK /\ CredentialInv /\ [Next]_vars => CredentialInv'
  <2>1. CASE UNCHANGED vars
    BY <2>1 DEF vars, agentVars, CredentialInv, CredentialOK
  <2> QED
    BY <2>1, CredentialStep DEF CredentialInv
<1>3. CredentialInv => CredentialsMatch
  BY FileNames DEF CredentialInv, CredentialOK, CredentialsMatch
<1> QED
  BY <1>1, <1>2, <1>3, EnrollTypeCorrect, PTL DEF Spec
-----------------------------------------------------------------------------
(* Machines without the secret.                                            *)

LEMMA TrustStep ==
    ASSUME TypeOK, TrustInv, Next, NEW m \in Machines \ Trusted
    PROVE  TrustOK(m)'
<1>a. /\ at \in [Machines -> Places]
      /\ mtls \subseteq Machines /\ up \subseteq Machines
      /\ files \in [Machines -> [Credentials -> Nat \cup {Torn}]]
  BY DEF TypeOK, HostTypeOK
<1>t. TrustOK(m)
  BY DEF TrustInv
<1>c. ~Connects(m)
  BY <1>t DEF Connects, ValidateToken, Handshake, TrustOK
<1>1. CASE Still(m)
  BY <1>t, <1>1 DEF Still, AgentStill, TrustOK
<1>2. CASE LateStep(m)
  BY <1>t, <1>c, <1>2 DEF LateStep, Late, TrustOK
<1>3. CASE AgentStart(m)
  BY <1>a, <1>t, <1>3 DEF AgentStart, Move, Goto, TrustOK
<1>4. CASE LoadCredentials(m)
  <2>1. ~CredentialsExist(m)
    BY <1>t, FileNames DEF CredentialsExist, TrustOK
  <2> QED
    BY <1>a, <1>t, <1>4, <2>1 DEF LoadCredentials, Goto, TrustOK
<1>5. ~Enroll(m) /\ ~EnrollAnswerLost(m)
  BY DEF Enroll, EnrollAnswerLost, MayEnroll
<1>6. CASE EnrollRefused(m)
  BY <1>a, <1>t, <1>6 DEF EnrollRefused, Move, Goto, TrustOK
<1>7. ~TruncateCredential(m) /\ ~FillCredential(m) /\ ~CredentialWriteFails(m)
  BY <1>t DEF TruncateCredential, FillCredential, CredentialWriteFails, At, TrustOK
<1>8. CASE ClearCredentials(m)
  BY <1>a, <1>t, <1>8 DEF ClearCredentials, agentVars, TrustOK
<1>9. CASE AgentCrash(m)
  BY <1>a, <1>t, <1>9 DEF AgentCrash, Goto, TrustOK
<1> QED
  BY <1>1, <1>2, <1>3, <1>4, <1>5, <1>6, <1>7, <1>8, <1>9, MachineFrame DEF EarlyStep

LEMMA OwnerStep ==
    ASSUME TypeOK, TrustInv, Next
    PROVE  OnlyTrustedRegister'
<1>o. OnlyTrustedRegister
  BY DEF TrustInv
<1>1. ASSUME NEW for \in Trusted \cup {"placeholder"}, CreateRow(for)
      PROVE  OnlyTrustedRegister'
  <2>1. /\ for \in Machines \cup {"placeholder"}
        /\ for \in Machines => for \in Trusted
    BY TrustedAssumption, NamesAssumption
  <2>2. /\ DOMAIN owner' = 1 .. Len(owner) + 1
        /\ DOMAIN owner = 1 .. Len(owner) /\ Len(owner) \in Nat
        /\ \A r \in DOMAIN owner : owner'[r] = owner[r]
        /\ owner'[Len(owner) + 1] = for
    BY <1>1, <2>1, RowAdded DEF TypeOK
  <2>3. \A r \in DOMAIN owner' : r \in DOMAIN owner \/ r = Len(owner) + 1
    BY <2>2, SMT
  <2> QED
    BY <1>o, <2>1, <2>2, <2>3 DEF OnlyTrustedRegister
<1>2. ASSUME NEW m \in Machines, RegisterNew(m) \/ RegisterAnswerLost(m)
      PROVE  OnlyTrustedRegister'
  <2>1. m \in up /\ CreateRow(m)
    BY <1>2 DEF RegisterNew, RegisterAnswerLost
  <2>2. m \in Trusted
    BY <2>1 DEF TrustInv, TrustOK
  <2> QED
    BY <1>1, <2>1, <2>2
<1>3. CASE CreatePlaceholder
  BY <1>1, <1>3 DEF CreatePlaceholder
<1>4. CASE owner' = owner
  BY <1>o, <1>4 DEF OnlyTrustedRegister
<1>5. \/ CreatePlaceholder \/ owner' = owner
      \/ \E m \in Machines : RegisterNew(m) \/ RegisterAnswerLost(m)
  BY RowFrame DEF ServerCrash, RegisterFound, SaveRow, HandlerGivesUp, UpdateAgent,
                  DeleteAgent
<1> QED
  BY <1>2, <1>3, <1>4, <1>5

(* Without the secret a machine gets no row: it gets no certificate with   *)
(* auto-PKI, and without auto-PKI every call is asked for the secret.      *)
THEOREM OnlyTrustedRegisterCorrect == Spec => []OnlyTrustedRegister
<1>1. Init => TrustInv
  BY TrustedAssumption DEF Init, TrustInv, TrustOK, OnlyTrustedRegister
<1>2. TypeOK /\ TrustInv /\ [Next]_vars => TrustInv'
  <2>1. CASE UNCHANGED vars
    BY <2>1 DEF vars, agentVars, rowVars, TrustInv, TrustOK, OnlyTrustedRegister
  <2>2. CASE Next
    <3> SUFFICES ASSUME TypeOK, TrustInv PROVE TrustInv'
      OBVIOUS
    <3> QED
      BY <2>2, TrustStep, OwnerStep DEF TrustInv
  <2> QED
    BY <2>1, <2>2
<1>3. TrustInv => OnlyTrustedRegister
  BY DEF TrustInv
<1> QED
  BY <1>1, <1>2, <1>3, EnrollTypeCorrect, PTL DEF Spec
-----------------------------------------------------------------------------
(***************************************************************************)
(* Rows of a machine.  Apart from the one whose id its agent has recorded, *)
(* or is about to, there are no more than ids that were not recorded.      *)
(***************************************************************************)
RowsOf(m) == {r \in live \ revived : owner[r] = m}

Recorded(m) == IF at[m] = "persist" THEN work[m].row ELSE stateFile[m]

StraysCounted ==
    \A m \in Machines : Cardinality(RowsOf(m) \ {Recorded(m)}) <= unsaved[m]

(* A row that is gone only comes back as one that a save has revived, and  *)
(* new rows of a machine come from its Register calls.                     *)
LEMMA RowsOfFrame ==
    ASSUME TypeOK, Next, NEW m \in Machines
    PROVE  \/ RowsOf(m)' \subseteq RowsOf(m)
           \/ /\ RegisterNew(m) \/ RegisterAnswerLost(m)
              /\ RowsOf(m)' \subseteq RowsOf(m) \cup {Len(owner')}
<1>a. RowTypeOK
  BY DEF TypeOK
<1>1. ASSUME NEW for \in Machines \cup {"placeholder"}, CreateRow(for), revived' = revived
      PROVE  /\ RowsOf(m)' \subseteq RowsOf(m) \cup {Len(owner')}
             /\ for # m => RowsOf(m)' \subseteq RowsOf(m)
  <2>1. /\ DOMAIN owner = 1 .. Len(owner) /\ Len(owner) \in Nat
        /\ \A r \in DOMAIN owner : owner'[r] = owner[r]
        /\ owner'[Len(owner) + 1] = for
        /\ Len(owner') = Len(owner) + 1
    BY <1>a, <1>1, RowAdded
  <2>2. live' = live \cup {Len(owner')} /\ live \subseteq DOMAIN owner
    BY <1>a, <1>1 DEF CreateRow, RowTypeOK
  <2> QED
    BY <1>1, <2>1, <2>2 DEF RowsOf
<1>2. CASE CreatePlaceholder
  <2>1. CreateRow("placeholder") /\ revived' = revived /\ m # "placeholder"
    BY <1>2, NamesAssumption DEF CreatePlaceholder
  <2> QED
    BY <1>1, <2>1
<1>3. ASSUME NEW n \in Machines, RegisterNew(n) \/ RegisterAnswerLost(n)
      PROVE  \/ RowsOf(m)' \subseteq RowsOf(m)
             \/ n = m /\ RowsOf(m)' \subseteq RowsOf(m) \cup {Len(owner')}
  <2>1. CreateRow(n) /\ revived' = revived
    BY <1>3 DEF RegisterNew, RegisterAnswerLost
  <2> QED
    BY <1>1, <2>1
<1>4. CASE owner' = owner /\ live' \ revived' \subseteq live \ revived
  BY <1>4 DEF RowsOf
<1>5. \/ CreatePlaceholder
      \/ \E n \in Machines : RegisterNew(n) \/ RegisterAnswerLost(n)
      \/ owner' = owner /\ live' \ revived' \subseteq live \ revived
  BY RowFrame DEF ServerCrash, RegisterFound, SaveRow, HandlerGivesUp, UpdateAgent,
                  DeleteAgent
<1> QED
  BY <1>2, <1>3, <1>4, <1>5

(* What is recorded changes by the end of a Register call or of the agent. *)
LEMMA RecordedFrame ==
    ASSUME TypeOK, Next, NEW m \in Machines
    PROVE  \/ RegisterNew(m) \/ RegisterAnswerLost(m)
           \/ Persist(m) \/ PersistFails(m) \/ AgentCrash(m)
           \/ Recorded(m)' = Recorded(m) /\ unsaved'[m] = unsaved[m]
<1>a. /\ at \in [Machines -> Places] /\ work \in [Machines -> Work]
      /\ stateFile \in [Machines -> Nat] /\ unsaved \in [Machines -> Nat]
      /\ mtls \subseteq Machines /\ up \subseteq Machines
  BY DEF TypeOK, HostTypeOK
<1> SUFFICES ASSUME ~RegisterNew(m), ~RegisterAnswerLost(m), ~Persist(m), ~PersistFails(m), ~AgentCrash(m)
             PROVE  Recorded(m)' = Recorded(m) /\ unsaved'[m] = unsaved[m]
  OBVIOUS
<1>1. stateFile'[m] = stateFile[m] /\ unsaved'[m] = unsaved[m]
  <2>1. ASSUME NEW n \in Machines, n # m,
               RegisterAnswerLost(n) \/ Persist(n) \/ PersistFails(n) \/ AgentCrash(n)
        PROVE  stateFile'[m] = stateFile[m] /\ unsaved'[m] = unsaved[m]
    BY <1>a, <2>1 DEF RegisterAnswerLost, Persist, PersistFails, AgentCrash
  <2>2. ASSUME NEW n \in Machines,
               \/ TruncateCredential(n) \/ FillCredential(n) \/ ClearCredentials(n)
               \/ \E b \in Binaries : Extract(n, b)
               \/ \E v \in Versions : Upgrade(n, v)
        PROVE  stateFile'[m] = stateFile[m] /\ unsaved'[m] = unsaved[m]
    BY <2>2 DEF TruncateCredential, FillCredential, ClearCredentials, Extract, Upgrade
  <2> QED
    BY <2>1, <2>2, HostFrame
<1> DEFINE Same == \/ at'[m] = at[m] /\ work'[m] = work[m]
                   \/ at'[m] # "persist" /\ at[m] # "persist"
<1>2. Same
  <2>1. ASSUME NEW n \in Machines, n # m, AgentStart(n) \/ AgentStep(n) \/ AgentFault(n)
        PROVE  Same
    BY <2>1, OtherMachine DEF AgentStill
  <2>2. CASE AgentStart(m) \/ LoadCredentials(m) \/ Enroll(m) \/ EnrollRefused(m) \/ EnrollAnswerLost(m)
    BY <1>a, <2>2 DEF AgentStart, LoadCredentials, Enroll, EnrollRefused, EnrollAnswerLost, Move, Goto, At
  <2>3. CASE \/ TruncateCredential(m) \/ FillCredential(m) \/ CredentialWriteFails(m)
             \/ Connect(m) \/ Retry(m) \/ RegisterFound(m) \/ SessionEnds(m)
    BY <1>a, <2>3 DEF TruncateCredential, FillCredential, CredentialWriteFails, Connect, Retry,
                      RegisterFound, SessionEnds, Move, Goto, At
  <2>4. CASE LinkDown(m) \/ \E b \in Binaries : Extract(m, b)
    BY <2>4 DEF LinkDown, Extract, agentVars
  <2>5. ASSUME NEW c \in copies, SaveRow(c)
        PROVE  Same
    BY <1>a, <2>5 DEF SaveRow, Goto, At
  <2>6. CASE ServerCrash \/ UNCHANGED <<at, mtls, up, work>>
    BY <2>6 DEF ServerCrash
  <2>7. ASSUME AgentStart(m) \/ AgentStep(m) \/ AgentFault(m)
        PROVE  Same
    BY <2>2, <2>3, <2>4, <2>7 DEF AgentStep, ConnectionStep, AgentFault
  <2> QED
    BY <2>1, <2>5, <2>6, <2>7, AgentFrame
<1> QED
  BY <1>1, <1>2 DEF Recorded

(* The rows of a machine are finitely many. *)
LEMMA RowsOfFinite == ASSUME TypeOK, NEW m PROVE IsFiniteSet(RowsOf(m))
<1>1. RowsOf(m) \subseteq 1 .. Len(owner) /\ Len(owner) \in Nat
  BY DEF TypeOK, RowTypeOK, RowsOf
<1>2. IsFiniteSet(1 .. Len(owner))
  BY <1>1, FS_Interval
<1> QED
  BY <1>1, <1>2, FS_Subset

(* One element more. *)
LEMMA OneMore ==
    ASSUME NEW S, IsFiniteSet(S), NEW T, NEW x, T \subseteq S \cup {x}
    PROVE  Cardinality(T) \in Nat /\ Cardinality(S) \in Nat /\ Cardinality(T) <= Cardinality(S) + 1
<1>1. IsFiniteSet(S \cup {x}) /\ Cardinality(S \cup {x}) \in {Cardinality(S), Cardinality(S) + 1}
  BY FS_AddElement
<1>2. IsFiniteSet(T) /\ Cardinality(T) <= Cardinality(S \cup {x})
  BY <1>1, FS_Subset
<1>3. Cardinality(T) \in Nat /\ Cardinality(S) \in Nat
  BY <1>2, FS_CardinalityType
<1> QED
  BY <1>1, <1>2, <1>3

(* Whoever adds a stray counts it. *)
LEMMA StraysStep ==
    ASSUME TypeOK, StraysCounted, Next
    PROVE  StraysCounted'
<1> SUFFICES ASSUME NEW m \in Machines
             PROVE  Cardinality(RowsOf(m)' \ {Recorded(m)'}) <= unsaved'[m]
  BY DEF StraysCounted
<1> DEFINE S == RowsOf(m) \ {Recorded(m)}
           T == RowsOf(m)' \ {Recorded(m)'}
<1>a. /\ at \in [Machines -> Places] /\ work \in [Machines -> Work]
      /\ stateFile \in [Machines -> Nat] /\ unsaved \in [Machines -> Nat]
  BY DEF TypeOK, HostTypeOK
<1>b. IsFiniteSet(S) /\ Cardinality(S) \in Nat /\ Cardinality(S) <= unsaved[m]
  BY RowsOfFinite, FS_Subset, FS_CardinalityType DEF StraysCounted
<1>1. ASSUME T \subseteq S, unsaved'[m] = unsaved[m]
      PROVE  Cardinality(T) <= unsaved'[m]
  <2>1. Cardinality(T) <= Cardinality(S) /\ Cardinality(T) \in Nat
    BY <1>b, <1>1, FS_Subset, FS_CardinalityType
  <2> QED
    BY <1>a, <1>b, <1>1, <2>1
<1>2. ASSUME NEW x, T \subseteq S \cup {x}, unsaved'[m] = unsaved[m] + 1
      PROVE  Cardinality(T) <= unsaved'[m]
  <2>1. Cardinality(T) <= Cardinality(S) + 1 /\ Cardinality(T) \in Nat
    BY <1>b, <1>2, OneMore
  <2> QED
    BY <1>a, <1>b, <1>2, <2>1
<1>3. CASE RegisterNew(m)
  <2>1. /\ RowsOf(m)' \subseteq RowsOf(m) \cup {Len(owner')}
        /\ Recorded(m) = stateFile[m] /\ stateFile[m] \notin RowsOf(m)
    BY <1>3, RowsOfFrame DEF RegisterNew, At, LoadState, Recorded, RowsOf
  <2>2. Recorded(m)' = Len(owner') /\ unsaved'[m] = unsaved[m]
    BY <1>a, <1>3 DEF RegisterNew, Goto, Recorded, Work
  <2> QED
    BY <1>1, <2>1, <2>2
<1>4. CASE RegisterAnswerLost(m)
  <2>1. /\ RowsOf(m)' \subseteq RowsOf(m) \cup {Len(owner')}
        /\ Recorded(m) = stateFile[m] /\ stateFile[m] \notin RowsOf(m)
    BY <1>4, RowsOfFrame DEF RegisterAnswerLost, At, LoadState, Recorded, RowsOf
  <2>2. unsaved'[m] = unsaved[m] + 1
    BY <1>a, <1>4 DEF RegisterAnswerLost
  <2> QED
    BY <1>2, <2>1, <2>2
<1>5. RegisterNew(m) \/ RegisterAnswerLost(m) \/ RowsOf(m)' \subseteq RowsOf(m)
  BY RowsOfFrame
<1>6. CASE RowsOf(m)' \subseteq RowsOf(m) /\ Persist(m)
  <2>1. Recorded(m)' = Recorded(m) /\ unsaved'[m] = unsaved[m]
    BY <1>a, <1>6 DEF Persist, Goto, At, Recorded
  <2> QED
    BY <1>1, <1>6, <2>1
<1>7. CASE RowsOf(m)' \subseteq RowsOf(m) /\ (PersistFails(m) \/ AgentCrash(m))
  <2>1. \/ unsaved'[m] = unsaved[m] + 1
        \/ Recorded(m)' = Recorded(m) /\ unsaved'[m] = unsaved[m]
    BY <1>a, <1>7 DEF PersistFails, AgentCrash, Goto, At, Recorded
  <2>2. T \subseteq S \cup {Recorded(m)}
    BY <1>7
  <2> QED
    BY <1>1, <1>2, <1>7, <2>1, <2>2
<1>8. CASE /\ RowsOf(m)' \subseteq RowsOf(m)
           /\ Recorded(m)' = Recorded(m) /\ unsaved'[m] = unsaved[m]
  BY <1>1, <1>8
<1> QED
  BY <1>3, <1>4, <1>5, <1>6, <1>7, <1>8, RecordedFrame

(* Register: a machine has a second live row only if an id it was given    *)
(* was not recorded, or if a save brought a deleted row back.              *)
THEOREM DuplicatesHaveCauseCorrect == Spec => []DuplicatesHaveCause
<1>1. Init => StraysCounted
  <2> SUFFICES ASSUME Init, NEW m \in Machines
               PROVE  Cardinality(RowsOf(m) \ {Recorded(m)}) <= unsaved[m]
    BY DEF StraysCounted
  <2>1. RowsOf(m) \ {Recorded(m)} = {} /\ unsaved[m] = 0
    BY DEF Init, RowsOf
  <2> QED
    BY <2>1, FS_EmptySet
<1>2. TypeOK /\ StraysCounted /\ [Next]_vars => StraysCounted'
  <2>1. CASE UNCHANGED vars
    BY <2>1 DEF vars, agentVars, rowVars, StraysCounted, RowsOf, Recorded
  <2> QED
    BY <2>1, StraysStep
<1>3. TypeOK /\ StraysCounted => DuplicatesHaveCause
  <2> SUFFICES ASSUME TypeOK, StraysCounted, NEW m \in Machines
               PROVE  Cardinality(RowsOf(m)) <= 1 + unsaved[m]
    BY DEF DuplicatesHaveCause, RowsOf
  <2> DEFINE S == RowsOf(m) \ {Recorded(m)}
  <2>1. IsFiniteSet(S) /\ Cardinality(S) <= unsaved[m] /\ unsaved[m] \in Nat
    BY RowsOfFinite, FS_Subset DEF StraysCounted, TypeOK, HostTypeOK
  <2>2. RowsOf(m) \subseteq S \cup {Recorded(m)}
    OBVIOUS
  <2>3. Cardinality(RowsOf(m)) \in Nat /\ Cardinality(S) \in Nat /\ Cardinality(RowsOf(m)) <= Cardinality(S) + 1
    BY <2>1, <2>2, OneMore
  <2> QED
    BY <2>1, <2>3
<1> QED
  BY <1>1, <1>2, <1>3, EnrollTypeCorrect, PTL DEF Spec
=============================================================================
