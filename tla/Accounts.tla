------------------------------- MODULE Accounts -------------------------------
(***************************************************************************)
(* User accounts and their sessions: local login, refresh, logout, login   *)
(* through an OIDC provider, the initial setup and the administration of   *)
(* users.  Every HTTP request runs in a goroutine of its own and none of   *)
(* these handlers uses a transaction, so requests interleave between any   *)
(* two statements, and gorm's Save writes back the whole row that a        *)
(* request read earlier.  An action is one statement of a handler with the *)
(* checks around it; a request that is refused changes nothing and is not  *)
(* a step.                                                                 *)
(*                                                                         *)
(* A password is abstracted to being set; a request that logs in knows it. *)
(* Display names, the audit log and the time of the last login are left    *)
(* out, but not the saves that carry them.                                 *)
(***************************************************************************)
EXTENDS Integers, FiniteSets

CONSTANTS
    Users,          \* ids of accounts, never used twice
    Emails,         \* addresses, unique in the table
    Subjects,       \* subject claims of the OIDC provider
    Requests,       \* HTTP requests, each made at most once
    InitialTables,  \* users tables to start from, see Table
    KeysOnDisk,     \* are the signing keys read from files, or generated?
    MaxFaults,      \* bound on database errors and server restarts
    None            \* no user, subject or pair

ASSUME NoneAssumption == None \notin Users \cup Subjects \cup Requests
ASSUME AccountFaultsAssumption == MaxFaults \in Nat
ASSUME KeysAssumption == KeysOnDisk \in BOOLEAN
ASSUME IdsAssumption == Users \cap Requests = {}
ASSUME EmailsAssumption == Emails # {}

VARIABLES
    present,        \* ids with a row in users
    known,          \* ids handed out so far
    rows,           \* [Users -> row], of those present
    request,        \* [Requests -> where its handler is and what it has read]
    pair,           \* [Pairs -> the token pair that was issued under this name]
    tokens,         \* pairs with a row in refresh_tokens
    lapsed,         \* pairs whose refresh token is past its 7 days
    valid,          \* pairs whose access token verifies and has not expired
    denylist,       \* entries of the denylist
    postgres,       \* PostgreSQL enforces foreign keys, SQLite does not
    faults          \* database errors and restarts so far

VARIABLES
    dirty,          \* requests whose account was changed after they read it
    overwritten,    \* accounts that a dirty request saved
    decided,        \* [Users -> what an administrator decided about it last]
    revoked,        \* pairs that Logout revoked in this life of the server
    shared,         \* refresh tokens that two requests had read at once
    twins           \* subjects of which two callbacks were under way at once

tableVars == <<present, known, rows>>
sessionVars == <<pair, tokens, lapsed, valid, denylist>>
decisionVars == <<dirty, overwritten, decided>>
ghostVars == <<decisionVars, revoked, shared, twins>>
vars == <<tableVars, request, sessionVars, postgres, faults, ghostVars>>

Roles == {"admin", "user"}

Row == [email : Emails, password : BOOLEAN, role : Roles, active : BOOLEAN,
        sub : Subjects \cup {None}]

Table == [present : SUBSET Users, rows : [Users -> Row]]

(* The tables to start from are ones in which a subject has one account.  *)
ASSUME TablesAssumption ==
    \A table \in InitialTables :
        /\ table \in Table
        /\ \A u, v \in table.present :
              table.rows[u].sub = table.rows[v].sub /\ table.rows[u].sub # None => u = v

(* A pair is named after the request that got it; Users name the pairs of  *)
(* the sessions that are open in the initial state.                        *)
Pairs == Users \cup Requests

Pair == [user : Users \cup {None}, role : Roles, from : Pairs \cup {None}]

NoPair == [user |-> None, role |-> "user", from |-> None]

Places == {"idle", "done", "loginSave", "issue", "refreshDelete", "refreshUser",
           "authenticated", "logoutDelete", "updateSave", "setupCreate",
           "oidcByEmail", "oidcCreate", "oidcSave"}

SomeRow == CHOOSE row \in Row : row.sub = None

Request == [at : Places, user : Users \cup {None}, row : Row, pair : Pairs \cup {None}]

Idle == [at |-> "idle", user |-> None, row |-> SomeRow, pair |-> None]
Done == [Idle EXCEPT !.at = "done"]

-----------------------------------------------------------------------------
Init ==
    /\ \E table \in InitialTables :
        /\ present = table.present
        /\ rows = table.rows
        /\ pair = [n \in Pairs |-> IF n \in table.present
                                   THEN [user |-> n, role |-> table.rows[n].role, from |-> None]
                                   ELSE NoPair]
    /\ known = present
    /\ request = [r \in Requests |-> Idle]
    /\ tokens = present
    /\ lapsed = {}
    /\ valid = present
    /\ denylist = {}
    /\ postgres \in BOOLEAN
    /\ faults = 0
    /\ dirty = {}
    /\ overwritten = {}
    /\ decided = [u \in Users |-> "none"]
    /\ revoked = {}
    /\ shared = {}
    /\ twins = {}

At(r, place) == request[r].at = place
Goto(r, place) == request' = [request EXCEPT ![r].at = place]
Finish(r) == request' = [request EXCEPT ![r] = Done]

(* A database error: one more of them, within the bound. *)
Fault == faults < MaxFaults /\ faults' = faults + 1

(* The unique index on email. *)
EmailFree(u, row) == \A v \in present \ {u} : rows[v].email # row.email

(* What gorm's Save puts in the table: an UPDATE of every column or, if no *)
(* row has the id, an INSERT, in which the default of is_active replaces   *)
(* FALSE.                                                                  *)
Written(u, row) == IF u \in present THEN row ELSE [row EXCEPT !.active = TRUE]

(* Bookkeeping of a write by r: the requests that hold another version of  *)
(* the account are now dirty; if r itself was, it has overwritten a change.*)
Changed(r, u) ==
    /\ dirty' = dirty \cup
                {q \in Requests \ {r} : /\ request[q].user = u
                                        /\ \/ (u \in present) # (u \in present')
                                           \/ rows'[u] # rows[u]}
    /\ overwritten' = IF r \in dirty THEN overwritten \cup {u} ELSE overwritten

(* Save of the copy that r made of account u. *)
SaveCopy(r, u, row) ==
    /\ EmailFree(u, row)
    /\ present' = present \cup {u}
    /\ rows' = [rows EXCEPT ![u] = Written(u, row)]
    /\ known' = known
    /\ Changed(r, u)

(* Create of an account with a fresh id u. *)
InsertRow(u, row) ==
    /\ u \notin known
    /\ EmailFree(u, row)
    /\ present' = present \cup {u}
    /\ known' = known \cup {u}
    /\ rows' = [rows EXCEPT ![u] = row]

(* A write of account u fails, on the unique index or on a fault. *)
WriteFails(u, row) ==
    /\ faults' = IF EmailFree(u, row) THEN faults + 1 ELSE faults
    /\ faults' <= MaxFaults
    /\ UNCHANGED tableVars

-----------------------------------------------------------------------------
(* Local login: LocalAuthProvider.Login.                                   *)

(* verifyPassword: an account without a password, which came from the      *)
(* provider, has a hash that does not parse.                               *)
Verifies(row) == row.password

LoginRead(r) ==
    /\ At(r, "idle")
    /\ \E u \in present :
        /\ rows[u].active
        /\ Verifies(rows[u])
        /\ request' = [request EXCEPT ![r] = [Idle EXCEPT !.at = "loginSave", !.user = u,
                                                          !.row = rows[u]]]
    /\ UNCHANGED <<tableVars, sessionVars, postgres, faults, ghostVars>>

(* The save of LastLoginAt; a failure is only logged. *)
RecordLogin(r) ==
    LET u == request[r].user
        row == request[r].row
    IN  /\ At(r, "loginSave")
        /\ Goto(r, "issue")
        /\ \/ SaveCopy(r, u, row) /\ faults' = faults
           \/ WriteFails(u, row) /\ UNCHANGED <<dirty, overwritten>>
        /\ UNCHANGED <<sessionVars, postgres, decided, revoked, shared, twins>>

(* The claims are those of the copy, not of the account as it is now. *)
GenerateAccessToken(r) ==
    [user |-> request[r].user, role |-> request[r].row.role, from |-> request[r].pair]

(* issueTokenPair: with foreign keys the refresh token needs its user. *)
Issue(r) ==
    /\ At(r, "issue")
    /\ postgres => request[r].user \in present
    /\ pair' = [pair EXCEPT ![r] = GenerateAccessToken(r)]
    /\ tokens' = tokens \cup {r}
    /\ valid' = valid \cup {r}
    /\ Finish(r)
    /\ UNCHANGED <<tableVars, lapsed, denylist, postgres, faults, ghostVars>>

IssueFails(r) ==
    /\ At(r, "issue")
    /\ IF postgres /\ request[r].user \notin present THEN faults' = faults ELSE Fault
    /\ Finish(r)
    /\ UNCHANGED <<tableVars, sessionVars, postgres, ghostVars>>

-----------------------------------------------------------------------------
(* LocalAuthProvider.RefreshToken.                                         *)

(* Deleting a token that is gone is no error. *)
DeleteByHash(n) == tokens' = tokens \ {n}

RefreshRead(r) ==
    /\ At(r, "idle")
    /\ \E n \in tokens :
        /\ request' = [request EXCEPT ![r] = [Idle EXCEPT !.at = "refreshDelete", !.pair = n]]
        /\ shared' = IF \E q \in Requests : At(q, "refreshDelete") /\ request[q].pair = n
                     THEN shared \cup {n} ELSE shared
    /\ UNCHANGED <<tableVars, sessionVars, postgres, faults, decisionVars,
                   revoked, twins>>

(* Mutant of RefreshDelete: the old token is left to expire. *)
RefreshDeleteKeeps(r) ==
    /\ At(r, "refreshDelete")
    /\ IF request[r].pair \in lapsed THEN Finish(r) ELSE Goto(r, "refreshUser")
    /\ UNCHANGED <<tableVars, sessionVars, postgres, faults, ghostVars>>

(* The old token is deleted, found or not, and only then its age matters. *)
RefreshDelete(r) ==
    /\ At(r, "refreshDelete")
    /\ DeleteByHash(request[r].pair)
    /\ IF request[r].pair \in lapsed THEN Finish(r) ELSE Goto(r, "refreshUser")
    /\ UNCHANGED <<tableVars, pair, lapsed, valid, denylist, postgres, faults,
                   ghostVars>>

(* Mutant of RefreshUser: the account is not checked again. *)
RefreshUserAny(r) ==
    LET u == pair[request[r].pair].user
    IN  /\ At(r, "refreshUser")
        /\ request' = [request EXCEPT ![r] = IF u \in present
                                             THEN [@ EXCEPT !.at = "issue", !.user = u, !.row = rows[u]]
                                             ELSE Done]
        /\ UNCHANGED <<tableVars, sessionVars, postgres, faults, ghostVars>>

RefreshUser(r) ==
    LET u == pair[request[r].pair].user
    IN  /\ At(r, "refreshUser")
        /\ request' = [request EXCEPT ![r] = IF u \in present /\ rows[u].active
                                             THEN [@ EXCEPT !.at = "issue", !.user = u, !.row = rows[u]]
                                             ELSE Done]
        /\ UNCHANGED <<tableVars, sessionVars, postgres, faults, ghostVars>>

(* A statement of a refresh fails; the token may be gone by then. *)
RefreshFails(r) ==
    /\ \E place \in {"refreshDelete", "refreshUser"} : At(r, place)
    /\ Fault
    /\ Finish(r)
    /\ UNCHANGED <<tableVars, sessionVars, postgres, ghostVars>>

-----------------------------------------------------------------------------
(* The middleware Authenticate, and AuthHandler.Logout behind it.          *)

(* ValidateAccessToken: tokens that verify and were not revoked. *)
Accepted == valid \ denylist

Authenticate(r) ==
    /\ At(r, "idle")
    /\ \E n \in Accepted :
        request' = [request EXCEPT ![r] = [Idle EXCEPT !.at = "authenticated", !.pair = n]]
    /\ UNCHANGED <<tableVars, sessionVars, postgres, faults, ghostVars>>

(* RequireRole looks at the claims, not at the account. *)
Admin(r) == At(r, "authenticated") /\ pair[request[r].pair].role = "admin"

(* The access token joins the denylist; the cookie, if the browser sends   *)
(* one, holds a refresh token of the same user.                            *)
Logout(r) ==
    LET n == request[r].pair
    IN  /\ At(r, "authenticated")
        /\ denylist' = denylist \cup {n}
        /\ revoked' = revoked \cup {n}
        /\ \/ Finish(r)
           \/ \E c \in Pairs :
                /\ pair[c].user = pair[n].user
                /\ request' = [request EXCEPT ![r].at = "logoutDelete", ![r].pair = c]
        /\ UNCHANGED <<tableVars, pair, tokens, lapsed, valid, postgres,
                       faults, decisionVars, shared, twins>>

(* A failure to delete the token is only logged. *)
LogoutDelete(r) ==
    /\ At(r, "logoutDelete")
    /\ \/ DeleteByHash(request[r].pair) /\ faults' = faults
       \/ Fault /\ tokens' = tokens
    /\ Finish(r)
    /\ UNCHANGED <<tableVars, pair, lapsed, valid, denylist, postgres,
                   ghostVars>>

-----------------------------------------------------------------------------
(* UserHandler: administration of accounts.                                *)

(* An administrator changes the role, the state and the password, or any   *)
(* of them.                                                                *)
Edits(row) ==
    {new \in Row : /\ new.email = row.email
                   /\ new.sub = row.sub
                   /\ row.password => new.password}

(* Users change their own name, and a password unless the provider has it. *)
OwnEdits(row) ==
    {row} \cup {[row EXCEPT !.password = TRUE] : none \in {row.sub} \cap {None}}

Update(r) ==
    /\ Admin(r)
    /\ \E u \in present : \E row \in Edits(rows[u]) :
        request' = [request EXCEPT ![r].at = "updateSave", ![r].user = u, ![r].row = row]
    /\ UNCHANGED <<tableVars, sessionVars, postgres, faults, ghostVars>>

UpdateMe(r) ==
    LET u == pair[request[r].pair].user
    IN  /\ At(r, "authenticated")
        /\ u \in present
        /\ \E row \in OwnEdits(rows[u]) :
            request' = [request EXCEPT ![r].at = "updateSave", ![r].user = u, ![r].row = row]
        /\ UNCHANGED <<tableVars, sessionVars, postgres, faults, ghostVars>>

(* What the administrator decided, when the save changes the state. *)
Decision(u, row) ==
    IF u \in present /\ rows[u].active = row.active THEN decided[u]
    ELSE IF row.active THEN "none" ELSE "disabled"

UpdateSave(r) ==
    LET u == request[r].user
        row == request[r].row
    IN  /\ At(r, "updateSave")
        /\ Finish(r)
        /\ \/ /\ SaveCopy(r, u, row)
              /\ decided' = IF r \in dirty THEN decided
                            ELSE [decided EXCEPT ![u] = Decision(u, row)]
              /\ faults' = faults
           \/ WriteFails(u, row) /\ UNCHANGED decisionVars
        /\ UNCHANGED <<sessionVars, postgres, revoked, shared, twins>>

Create(r) ==
    /\ Admin(r)
    /\ \E u \in Users, email \in Emails, role \in Roles :
        InsertRow(u, [email |-> email, password |-> TRUE, role |-> role, active |-> TRUE, sub |-> None])
    /\ Finish(r)
    /\ UNCHANGED <<sessionVars, postgres, faults, ghostVars>>

(* A row is really deleted; with foreign keys its refresh tokens go too. *)
RemoveRow(u) ==
    /\ present' = present \ {u}
    /\ tokens' = IF postgres THEN {n \in tokens : pair[n].user # u} ELSE tokens

(* Nobody deletes the account they are logged in with. *)
Delete(r) ==
    /\ Admin(r)
    /\ \E u \in present \ {pair[request[r].pair].user} :
        /\ RemoveRow(u)
        /\ decided' = [decided EXCEPT ![u] = "deleted"]
        /\ Changed(r, u)
    /\ Finish(r)
    /\ UNCHANGED <<known, rows, pair, lapsed, valid, denylist, postgres,
                   faults, revoked, shared, twins>>

-----------------------------------------------------------------------------
(* setupHandler.Complete: counts the users, then creates an administrator. *)

UserCount == Cardinality(present)

SetupCount(r) ==
    /\ At(r, "idle")
    /\ UserCount = 0
    /\ \E email \in Emails :
        request' = [request EXCEPT ![r] = [Idle EXCEPT !.at = "setupCreate",
            !.row = [email |-> email, password |-> TRUE, role |-> "admin", active |-> TRUE, sub |-> None]]]
    /\ UNCHANGED <<tableVars, sessionVars, postgres, faults, ghostVars>>

SetupCreate(r) ==
    /\ At(r, "setupCreate")
    /\ \/ \E u \in Users : InsertRow(u, request[r].row) /\ faults' = faults
       \/ WriteFails(None, request[r].row)
    /\ Finish(r)
    /\ UNCHANGED <<sessionVars, postgres, ghostVars>>

-----------------------------------------------------------------------------
(* OIDCAuthProvider.ExchangeCode and findOrProvisionUser.                  *)

(* What a callback knows once the state, the code and the ID token have    *)
(* been verified; an answer without an address is refused.                 *)
IDTokens == [sub : Subjects, email : Emails]

Provisioned(claims) ==
    [email |-> claims.email, password |-> FALSE, role |-> "user", active |-> TRUE,
     sub |-> claims.sub]

HasSubject(sub) == {u \in present : rows[u].sub = sub}
HasEmail(email) == {u \in present : rows[u].email = email}

(* Callbacks of the subject that still have an account to save it in. *)
Provisioning(sub) ==
    {q \in Requests : /\ request[q].at \in {"oidcByEmail", "oidcCreate", "oidcSave", "loginSave"}
                      /\ request[q].row.sub = sub}

(* Mutant of FindSubject: the email is what identifies an account. *)
FindSubjectByEmail(r) ==
    /\ At(r, "idle")
    /\ \E claims \in IDTokens :
        request' = [request EXCEPT ![r] = [Idle EXCEPT !.at = "oidcByEmail",
                                                       !.row = Provisioned(claims)]]
    /\ UNCHANGED <<tableVars, sessionVars, postgres, faults, ghostVars>>

(* Mutant of FindSubject: the row is made anew from the claims. *)
FindSubjectRebuilds(r) ==
    /\ At(r, "idle")
    /\ \E claims \in IDTokens : \E u \in HasSubject(claims.sub) :
        request' = [request EXCEPT ![r] = [Idle EXCEPT !.at = "oidcSave", !.user = u,
                                                       !.row = Provisioned(claims)]]
    /\ UNCHANGED <<tableVars, sessionVars, postgres, faults, ghostVars>>

FindSubject(r) ==
    /\ At(r, "idle")
    /\ \E claims \in IDTokens :
        \/ \E u \in HasSubject(claims.sub) :
            /\ request' = [request EXCEPT ![r] = [Idle EXCEPT !.at = "oidcSave", !.user = u,
                                                  !.row = [rows[u] EXCEPT !.email = claims.email]]]
            /\ twins' = twins
        \/ /\ HasSubject(claims.sub) = {}
           /\ request' = [request EXCEPT ![r] = [Idle EXCEPT !.at = "oidcByEmail",
                                                             !.row = Provisioned(claims)]]
           /\ twins' = IF Provisioning(claims.sub) = {} THEN twins ELSE twins \cup {claims.sub}
    /\ UNCHANGED <<tableVars, sessionVars, postgres, faults, decisionVars,
                   revoked, shared>>

(* An account with the address is linked, otherwise one will be created. *)
FindEmail(r) ==
    LET row == request[r].row
    IN  /\ At(r, "oidcByEmail")
        /\ \/ \E u \in HasEmail(row.email) :
                request' = [request EXCEPT ![r].at = "oidcSave", ![r].user = u,
                                           ![r].row = [rows[u] EXCEPT !.sub = row.sub]]
           \/ HasEmail(row.email) = {} /\ Goto(r, "oidcCreate")
        /\ UNCHANGED <<tableVars, sessionVars, postgres, faults, ghostVars>>

Provision(r) ==
    /\ At(r, "oidcCreate")
    /\ \/ \E u \in Users :
            /\ InsertRow(u, request[r].row)
            /\ request' = [request EXCEPT ![r].at = "loginSave", ![r].user = u]
            /\ faults' = faults
       \/ WriteFails(None, request[r].row) /\ Finish(r)
    /\ UNCHANGED <<sessionVars, postgres, ghostVars>>

(* A disabled user is turned away, after the save. *)
Admit(r, copy) ==
    request' = [request EXCEPT ![r] = IF copy.active
                                      THEN [@ EXCEPT !.at = "loginSave", !.row = copy] ELSE Done]

(* The profile is saved; a failure is only logged. *)
SyncProfile(r) ==
    LET u == request[r].user
        row == request[r].row
    IN  /\ At(r, "oidcSave")
        /\ \/ SaveCopy(r, u, row) /\ Admit(r, Written(u, row)) /\ faults' = faults
           \/ /\ WriteFails(u, row) /\ UNCHANGED <<dirty, overwritten>>
              /\ Admit(r, IF EmailFree(u, row) THEN row ELSE Written(u, row))
        /\ UNCHANGED <<sessionVars, postgres, decided, revoked, shared, twins>>

-----------------------------------------------------------------------------
(* Time, the cleanup of the denylist and restarts.                         *)

AccessExpires(n) ==
    /\ n \in valid
    /\ valid' = valid \ {n}
    /\ UNCHANGED <<tableVars, request, pair, tokens, lapsed, denylist,
                   postgres, faults, ghostVars>>

(* Access tokens live for minutes, refresh tokens for days. *)
RefreshLapses(n) ==
    /\ n \in tokens \ (lapsed \cup valid)
    /\ lapsed' = lapsed \cup {n}
    /\ UNCHANGED <<tableVars, request, pair, tokens, valid, denylist, postgres,
                   faults, ghostVars>>

(* Mutant of Cleanup: the sign of the comparison. *)
CleanupInverted ==
    /\ denylist \cap valid # {}
    /\ denylist' = denylist \ valid
    /\ UNCHANGED <<tableVars, request, pair, tokens, lapsed, valid, postgres,
                   faults, ghostVars>>

(* cleanupLoop removes the entries of expired tokens. *)
Cleanup ==
    /\ denylist \ valid # {}
    /\ denylist' = denylist \cap valid
    /\ UNCHANGED <<tableVars, request, pair, tokens, lapsed, valid, postgres,
                   faults, ghostVars>>

(* Keys that were generated go with the process, and every access token    *)
(* with them.                                                              *)
StillVerify == IF KeysOnDisk THEN valid ELSE {}

(* The server restarts: requests are lost and the denylist is empty again. *)
Restart ==
    /\ Fault
    /\ request' = [r \in Requests |-> IF At(r, "idle") THEN Idle ELSE Done]
    /\ denylist' = {}
    /\ valid' = StillVerify
    /\ revoked' = {}
    /\ UNCHANGED <<tableVars, pair, tokens, lapsed, postgres, decisionVars,
                   shared, twins>>

-----------------------------------------------------------------------------
(* AuthHandler: requests that end with a pair of tokens, and Logout.       *)

Login(r) == LoginRead(r) \/ RecordLogin(r)

Refresh(r) == RefreshRead(r) \/ RefreshDelete(r) \/ RefreshUser(r) \/ RefreshFails(r)

OIDCCallback(r) == FindSubject(r) \/ FindEmail(r) \/ Provision(r) \/ SyncProfile(r)

Session(r) ==
    \/ Login(r) \/ Refresh(r) \/ OIDCCallback(r)
    \/ Issue(r) \/ IssueFails(r)
    \/ Authenticate(r) \/ Logout(r) \/ LogoutDelete(r)

Administration(r) ==
    \/ Update(r) \/ UpdateMe(r) \/ UpdateSave(r) \/ Create(r) \/ Delete(r)
    \/ SetupCount(r) \/ SetupCreate(r)

Next ==
    \/ \E r \in Requests : Session(r) \/ Administration(r)
    \/ \E n \in Pairs : AccessExpires(n) \/ RefreshLapses(n)
    \/ Cleanup
    \/ Restart

Spec == Init /\ [][Next]_vars

-----------------------------------------------------------------------------
(* Every variable keeps its type. *)
TypeOK ==
    /\ present \subseteq known /\ known \subseteq Users
    /\ rows \in [Users -> Row]
    /\ request \in [Requests -> Request]
    /\ pair \in [Pairs -> Pair]
    /\ tokens \subseteq Pairs /\ lapsed \subseteq Pairs /\ valid \subseteq Pairs
    /\ denylist \subseteq Pairs
    /\ postgres \in BOOLEAN
    /\ faults \in 0 .. MaxFaults
    /\ dirty \subseteq Requests /\ overwritten \subseteq Users
    /\ decided \in [Users -> {"none", "disabled", "deleted"}]
    /\ revoked \subseteq Pairs /\ shared \subseteq Pairs /\ twins \subseteq Subjects

(* RefreshToken rotates: a refresh token that can still be used has not    *)
(* been exchanged, and it is exchanged for one pair only, unless two       *)
(* requests had both read it before either deleted it.                     *)
RotatedOnce ==
    \A n \in Pairs \ shared :
        LET heirs == {m \in Pairs : pair[m].user # None /\ pair[m].from = n}
        IN  /\ n \in tokens => heirs = {}
            /\ \A m1, m2 \in heirs : m1 = m2

(* Logout: an access token that was revoked is not accepted again before   *)
(* the next restart, through expiry and the cleanup of the denylist.       *)
RevokedIsRefused == revoked \cap Accepted = {}

(* What an administrator decided about an account stands: one that was     *)
(* deleted has no row and one that was disabled stays disabled, whatever   *)
(* logins and updates are under way, unless a request saved a copy that    *)
(* was read before the decision.                                           *)
DecisionStands ==
    \A u \in Users \ overwritten :
        /\ decided[u] = "deleted" => u \notin present
        /\ decided[u] = "disabled" => u \notin present \/ ~rows[u].active

(* Login, refresh and OIDC callback alike hand out tokens to accounts that *)
(* exist, are active and have the role in the claims, unless the account   *)
(* was changed while the request was under way.                            *)
IssuedToActive ==
    [][\A r \in Requests \ dirty :
        pair[r].user = None /\ pair'[r].user # None =>
            /\ pair'[r].user \in present
            /\ rows[pair'[r].user].active
            /\ rows[pair'[r].user].role = pair'[r].role]_vars

(* findOrProvisionUser: a subject of the provider has one account, however *)
(* often it logs in and whatever address it comes with, unless two of its  *)
(* first callbacks overlapped or a stale copy was saved.                   *)
OneAccountPerSubject ==
    \A sub \in Subjects \ twins : \A u, v \in HasSubject(sub) \ overwritten : u = v
=============================================================================
