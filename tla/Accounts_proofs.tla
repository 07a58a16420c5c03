---------------------------- MODULE Accounts_proofs ----------------------------
(***************************************************************************)
(* Proofs about Accounts, for any sets of accounts, addresses, subjects    *)
(* and requests, any tables to start from and any number of faults.        *)
(***************************************************************************)
EXTENDS Accounts, TLAPS

-----------------------------------------------------------------------------
(***************************************************************************)
(* What a request has in hand: a handler that is about to write an account *)
(* or to issue tokens for it has read it, and one that works on a session  *)
(* has a pair.                                                             *)
(***************************************************************************)
HasAccount == {"loginSave", "oidcSave", "updateSave", "issue"}

HasPair == {"refreshDelete", "refreshUser", "authenticated", "logoutDelete"}

InHand ==
    \A r \in Requests :
        /\ request[r].user # None => request[r].user \in known
        /\ request[r].at \in HasAccount => request[r].user # None
        /\ request[r].at \in HasPair => request[r].pair # None

(***************************************************************************)
(* Sessions.  A name becomes a pair once, when its request ends; only      *)
(* pairs that were issued are tokens, revoked or read by a request.        *)
(***************************************************************************)
Issued == {n \in Pairs : pair[n].user # None}

NamesOnce ==
    /\ tokens \cup valid \cup denylist \cup revoked \cup shared \subseteq Issued
    /\ \A r \in Requests :
        /\ request[r].at # "done" => r \notin Issued
        /\ request[r].pair # None => request[r].pair \in Issued
        /\ request[r].at \in {"loginSave", "oidcByEmail", "oidcCreate", "oidcSave", "setupCreate"}
              => request[r].pair = None
    /\ \A n \in Pairs : pair[n].from # None => {n, pair[n].from} \subseteq Issued /\ n \in Requests

(* r is exchanging the refresh token n, or has exchanged it. *)
Exchanging(r, n) ==
    request[r].at \in {"refreshDelete", "refreshUser", "issue"} /\ request[r].pair = n

Claims(r, n) == Exchanging(r, n) \/ pair[r].from = n

(* At most one request has anything to do with a token that is not shared, *)
(* and it has not deleted it as long as it is there.                       *)
ClaimedOnce ==
    \A n \in Pairs \ shared :
        /\ \A q, r \in Requests : Claims(q, n) /\ Claims(r, n) => q = r
        /\ \A r \in Requests : n \in tokens /\ Claims(r, n) => request[r].at = "refreshDelete"

RevokedListed == revoked \cap valid \subseteq denylist

SessionInv == NamesOnce /\ ClaimedOnce /\ RevokedListed

(***************************************************************************)
(* Accounts.  As long as nobody changed the account, the copy that a       *)
(* request holds has its state and role; only a callback that is about to  *)
(* link or create an account has a subject that the account has not.       *)
(***************************************************************************)
Current(place, u, row) ==
    /\ place \in HasAccount => u \in present
    /\ place \in {"loginSave", "oidcSave", "issue"}
          => row.active = rows[u].active /\ row.role = rows[u].role
    /\ place = "updateSave" => row.sub = rows[u].sub

CopyIsCurrent ==
    \A r \in Requests \ dirty : Current(request[r].at, request[r].user, request[r].row)

(* Whatever becomes of the account meanwhile. *)
Prepared(place, row) ==
    /\ place \in {"loginSave", "issue", "oidcByEmail", "oidcCreate"} => row.active
    /\ place = "setupCreate" => row.sub = None

CopyIsPrepared == \A r \in Requests : Prepared(request[r].at, request[r].row)

DecidedIsKnown == \A u \in Users : decided[u] # "none" => u \in known

(* Callbacks that may give the subject an account which it did not have. *)
Linking(sub) ==
    {q \in Provisioning(sub) :
        \/ request[q].at \in {"oidcByEmail", "oidcCreate"}
        \/ q \notin dirty /\ rows[request[q].user].sub # sub}

LinkedOnce ==
    \A sub \in Subjects \ twins :
        /\ \A q, r \in Linking(sub) : q = r
        /\ Linking(sub) # {} => HasSubject(sub) \subseteq overwritten

AccountInv == /\ CopyIsCurrent
              /\ CopyIsPrepared
              /\ DecidedIsKnown
              /\ DecisionStands
              /\ LinkedOnce
              /\ OneAccountPerSubject

Inv == TypeOK /\ InHand /\ SessionInv /\ AccountInv

-----------------------------------------------------------------------------
(***************************************************************************)
(* The ways in which a handler moves on, in one form: r is at place, with  *)
(* the account u, the copy row and the pair n, and no other request moved. *)
(***************************************************************************)
Becomes(r, place, u, row, n) ==
    /\ request' \in [Requests -> Request]
    /\ \A q \in Requests \ {r} : request'[q] = request[q]
    /\ request'[r].at = place
    /\ request'[r].user = u
    /\ request'[r].row = row
    /\ request'[r].pair = n

(* There is a row without a subject. *)
LEMMA SomeRowType == SomeRow \in Row /\ SomeRow.sub = None
<1>1. PICK e \in Emails : TRUE
  BY EmailsAssumption
<1>2. /\ [email |-> e, password |-> TRUE, role |-> "user", active |-> TRUE, sub |-> None] \in Row
      /\ [email |-> e, password |-> TRUE, role |-> "user", active |-> TRUE, sub |-> None].sub = None
  BY <1>1 DEF Row, Roles
<1>3. \E row \in Row : row.sub = None
  BY <1>2
<1> QED
  BY <1>3 DEF SomeRow

(* A handler that has read nothing. *)
LEMMA IdleType ==
    /\ Idle \in Request
    /\ Idle.at = "idle" /\ Idle.user = None /\ Idle.row = SomeRow /\ Idle.pair = None
  BY SomeRowType DEF Idle, Request, Places

(* A handler starts on an account or a pair, or ends. *)
LEMMA EnterBecomes ==
    ASSUME TypeOK, NEW r \in Requests, NEW x \in Request,
           request' = [request EXCEPT ![r] = x]
    PROVE  Becomes(r, x.at, x.user, x.row, x.pair)
<1>1. request \in [Requests -> Request]
  BY DEF TypeOK
<1>2. /\ request' \in [Requests -> Request]
      /\ request'[r] = x
      /\ \A q \in Requests \ {r} : request'[q] = request[q]
  BY <1>1
<1> QED
  BY <1>2 DEF Becomes

(* A handler returns. *)
LEMMA FinishBecomes ==
    ASSUME TypeOK, NEW r \in Requests, Finish(r)
    PROVE  Becomes(r, "done", None, SomeRow, None)
<1>1. /\ Done \in Request
      /\ Done.at = "done" /\ Done.user = None /\ Done.row = SomeRow /\ Done.pair = None
  BY IdleType DEF Done, Request, Places
<1>2. Becomes(r, Done.at, Done.user, Done.row, Done.pair)
  BY <1>1, EnterBecomes DEF Finish
<1> QED
  BY <1>1, <1>2

(* A handler goes on with what it has. *)
LEMMA GotoBecomes ==
    ASSUME TypeOK, NEW r \in Requests, NEW place \in Places, Goto(r, place)
    PROVE  Becomes(r, place, request[r].user, request[r].row, request[r].pair)
<1>1. request \in [Requests -> Request] /\ request[r] \in Request
  BY DEF TypeOK
<1>2. request'[r] = [request[r] EXCEPT !.at = place]
  BY <1>1 DEF Goto
<1>3. [request[r] EXCEPT !.at = place] \in Request
  BY <1>1 DEF Request
<1>4. /\ [request[r] EXCEPT !.at = place].at = place
      /\ [request[r] EXCEPT !.at = place].user = request[r].user
      /\ [request[r] EXCEPT !.at = place].row = request[r].row
      /\ [request[r] EXCEPT !.at = place].pair = request[r].pair
  BY <1>1 DEF Request
<1>5. request' = [request EXCEPT ![r] = [request[r] EXCEPT !.at = place]]
  BY <1>1 DEF Goto
<1>6. request' \in [Requests -> Request]
  BY <1>1, <1>3, <1>5
<1>7. \A q \in Requests \ {r} : request'[q] = request[q]
  BY <1>1, <1>5
<1> QED
  BY <1>2, <1>4, <1>6, <1>7 DEF Becomes

(* A handler goes on with an account that it just read. *)
LEMMA LoadBecomes ==
    ASSUME TypeOK, NEW r \in Requests, NEW place \in Places,
           NEW u \in Users, NEW row \in Row,
           request' = [request EXCEPT ![r] = [request[r] EXCEPT !.at = place, !.user = u, !.row = row]]
    PROVE  Becomes(r, place, u, row, request[r].pair)
<1>1. request \in [Requests -> Request] /\ request[r] \in Request
  BY DEF TypeOK
<1> DEFINE x == [request[r] EXCEPT !.at = place, !.user = u, !.row = row]
<1>2. /\ x \in Request
      /\ x.at = place /\ x.user = u /\ x.row = row /\ x.pair = request[r].pair
  BY <1>1 DEF Request
<1>3. request' = [request EXCEPT ![r] = x]
  OBVIOUS
<1> HIDE DEF x
<1>4. /\ request' \in [Requests -> Request]
      /\ request'[r] = x
      /\ \A q \in Requests \ {r} : request'[q] = request[q]
  BY <1>1, <1>2, <1>3
<1> QED
  BY <1>2, <1>4 DEF Becomes

-----------------------------------------------------------------------------
(* What is left to show when only the request r has moved.                 *)

(* What the request has in hand afterwards is all there is to check. *)
LEMMA InHandMoves ==
    ASSUME InHand, NEW r \in Requests, NEW place, NEW u, NEW row, NEW n,
           Becomes(r, place, u, row, n),
           known \subseteq known',
           u # None => u \in known',
           place \in HasAccount => u # None,
           place \in HasPair => n # None
    PROVE  InHand'
  BY DEF InHand, Becomes

(* A request that neither reads nor exchanges a refresh token claims none. *)
LEMMA SessionMoves ==
    ASSUME TypeOK, SessionInv, NEW r \in Requests, NEW place, NEW u, NEW row, NEW n,
           Becomes(r, place, u, row, n),
           request[r].at # "done",
           n # None => n \in Issued,
           n # None => place \notin {"refreshDelete", "refreshUser", "issue",
                                     "loginSave", "oidcByEmail", "oidcCreate", "oidcSave", "setupCreate"},
           tokens' \subseteq tokens,
           valid' \cup denylist' \cup revoked' \subseteq Issued,
           RevokedListed',
           UNCHANGED <<pair, shared>>
    PROVE  SessionInv'
<1>1. Issued' = Issued
  BY DEF Issued
<1>2. NamesOnce'
  BY <1>1 DEF SessionInv, NamesOnce, Becomes
<1>3. \A q \in Requests, m \in Pairs : Claims(q, m)' => Claims(q, m) /\ q # r
  <2>1. \A m \in Pairs : pair[r].from # m
    BY NoneAssumption DEF SessionInv, NamesOnce, Pairs
  <2> QED
    BY <2>1, NoneAssumption DEF Becomes, Claims, Exchanging, Pairs
<1>5. ClaimedOnce'
  <2> SUFFICES ASSUME NEW m \in Pairs \ shared
               PROVE  /\ \A p, q \in Requests : Claims(p, m)' /\ Claims(q, m)' => p = q
                      /\ \A q \in Requests : m \in tokens' /\ Claims(q, m)' => request'[q].at = "refreshDelete"
    BY DEF ClaimedOnce
  <2>1. \A p, q \in Requests : Claims(p, m)' /\ Claims(q, m)' => p = q
    BY <1>3 DEF SessionInv, ClaimedOnce
  <2>2. ASSUME NEW q \in Requests, m \in tokens', Claims(q, m)'
        PROVE  request'[q].at = "refreshDelete"
    BY <1>3, <2>2 DEF SessionInv, ClaimedOnce, Becomes
  <2> QED
    BY <2>1, <2>2
<1> QED
  BY <1>2, <1>5 DEF SessionInv

(* Such a request leaves the sessions as they are. *)
LEMMA SessionQuiet ==
    ASSUME TypeOK, SessionInv, NEW r \in Requests, NEW place, NEW u, NEW row, NEW n,
           Becomes(r, place, u, row, n),
           request[r].at # "done",
           n # None => n \in Issued,
           n # None => place \notin {"refreshDelete", "refreshUser", "issue",
                                     "loginSave", "oidcByEmail", "oidcCreate", "oidcSave", "setupCreate"},
           tokens' \subseteq tokens,
           UNCHANGED <<pair, valid, denylist, revoked, shared>>
    PROVE  SessionInv'
<1>1. valid' \cup denylist' \cup revoked' \subseteq Issued /\ RevokedListed'
  BY DEF SessionInv, NamesOnce, RevokedListed
<1> QED
  BY <1>1, SessionMoves


(* A request that writes no account leaves the accounts as they are, if    *)
(* its copy is as current as it should be and it links no account that it  *)
(* was not linking.                                                        *)
LEMMA AccountQuiet ==
    ASSUME TypeOK, AccountInv, NEW r \in Requests, NEW place, NEW u, NEW row, NEW n,
           Becomes(r, place, u, row, n),
           r \notin dirty => Current(place, u, row),
           Prepared(place, row),
           \A sub \in Subjects : r \in Linking(sub)' => r \in Linking(sub),
           UNCHANGED <<present, known, rows, dirty, overwritten, decided, twins>>
    PROVE  AccountInv'
<1>1. CopyIsCurrent'
  BY DEF AccountInv, CopyIsCurrent, Becomes, Current
<1>2. CopyIsPrepared'
  BY DEF AccountInv, CopyIsPrepared, Becomes, Prepared
<1>3. DecidedIsKnown' /\ DecisionStands'
  BY DEF AccountInv, DecidedIsKnown, DecisionStands
<1>4. OneAccountPerSubject' /\ \A sub \in Subjects : HasSubject(sub)' = HasSubject(sub)
  BY DEF AccountInv, OneAccountPerSubject, HasSubject
<1>5. \A sub \in Subjects : Linking(sub)' \subseteq Linking(sub)
  <2> SUFFICES ASSUME NEW sub \in Subjects, NEW q \in Linking(sub)'
               PROVE  q \in Linking(sub)
    OBVIOUS
  <2>1. q \in Requests
    BY DEF Linking, Provisioning
  <2>2. CASE q = r
    BY <2>2
  <2>3. CASE q # r
    BY <2>1, <2>3 DEF Linking, Provisioning, Becomes
  <2> QED
    BY <2>2, <2>3
<1>6. LinkedOnce'
  BY <1>4, <1>5 DEF AccountInv, LinkedOnce
<1> QED
  BY <1>1, <1>2, <1>3, <1>4, <1>6 DEF AccountInv

-----------------------------------------------------------------------------
(* Writes of accounts.                                                     *)

(* What gorm has written is the row, but for its state. *)
LEMMA WrittenFacts ==
    ASSUME NEW u, NEW row \in Row
    PROVE  /\ Written(u, row) \in Row
           /\ Written(u, row).sub = row.sub
           /\ u \in present => Written(u, row) = row
<1>1. /\ [row EXCEPT !.active = TRUE] \in Row
      /\ [row EXCEPT !.active = TRUE].sub = row.sub
  BY DEF Row
<1> QED
  BY <1>1 DEF Written

(* What a save does to the account, to the other requests that hold a copy *)
(* of it and to the bookkeeping.                                           *)
LEMMA SaveEffect ==
    ASSUME TypeOK, InHand, AccountInv, NEW r \in Requests,
           request[r].at \in {"loginSave", "oidcSave", "updateSave"},
           SaveCopy(r, request[r].user, request[r].row)
    PROVE  LET u == request[r].user
               row == request[r].row
           IN  /\ u \in known /\ u \in Users /\ row \in Row
               /\ Written(u, row) \in Row
               /\ Written(u, row).sub = row.sub
               /\ r \notin dirty => u \in present /\ Written(u, row) = row
               /\ present' = present \cup {u}
               /\ known' = known
               /\ rows' \in [Users -> Row]
               /\ rows'[u] = Written(u, row)
               /\ \A v \in Users \ {u} : rows'[v] = rows[v]
               /\ dirty \subseteq dirty' /\ dirty' \subseteq Requests
               /\ r \in dirty' => r \in dirty
               /\ \A q \in Requests \ (dirty' \cup {r}) :
                     request[q].user = u => u \in present /\ rows'[u] = rows[u]
               /\ overwritten \subseteq overwritten' /\ overwritten' \subseteq overwritten \cup {u}
               /\ r \in dirty => u \in overwritten'
<1> DEFINE u == request[r].user
           row == request[r].row
<1>1. u \in known /\ u \in Users
  BY DEF InHand, HasAccount, TypeOK
<1>2. row \in Row
  BY DEF TypeOK, Request
<1>5. /\ Written(u, row) \in Row
      /\ Written(u, row).sub = row.sub
      /\ u \in present => Written(u, row) = row
  BY <1>2, WrittenFacts
<1>6. r \notin dirty => u \in present
  BY DEF AccountInv, CopyIsCurrent, Current, HasAccount
<1>7. /\ present' = present \cup {u} /\ known' = known
      /\ rows' = [rows EXCEPT ![u] = Written(u, row)]
      /\ Changed(r, u)
  BY DEF SaveCopy
<1>8. /\ rows' \in [Users -> Row] /\ rows'[u] = Written(u, row)
      /\ \A v \in Users \ {u} : rows'[v] = rows[v]
  BY <1>1, <1>5, <1>7 DEF TypeOK
<1>9. /\ dirty' = dirty \cup {q \in Requests \ {r} : /\ request[q].user = u
                                                     /\ \/ (u \in present) # (u \in present')
                                                        \/ rows'[u] # rows[u]}
      /\ overwritten' = IF r \in dirty THEN overwritten \cup {u} ELSE overwritten
  BY <1>7 DEF Changed
<1>10. /\ dirty \subseteq dirty' /\ dirty' \subseteq Requests
       /\ r \in dirty' => r \in dirty
  BY <1>9 DEF TypeOK
<1>11. \A q \in Requests \ (dirty' \cup {r}) :
          request[q].user = u => u \in present /\ rows'[u] = rows[u]
  <2> SUFFICES ASSUME NEW q \in Requests \ (dirty' \cup {r}), request[q].user = u
               PROVE  u \in present /\ rows'[u] = rows[u]
    OBVIOUS
  <2>1. ~((u \in present) # (u \in present')) /\ ~(rows'[u] # rows[u])
    BY <1>9
  <2>2. u \in present'
    BY <1>7
  <2> QED
    BY <2>1, <2>2
<1>12. /\ overwritten \subseteq overwritten' /\ overwritten' \subseteq overwritten \cup {u}
       /\ r \in dirty => u \in overwritten'
  BY <1>9
<1> QED
  BY <1>1, <1>2, <1>5, <1>6, <1>7, <1>8, <1>10, <1>11, <1>12

(* A save keeps what is true of the accounts, if the request goes on with  *)
(* a copy as current as it should be, links no account any more and the    *)
(* decision is the one that was taken.                                     *)
LEMMA SaveAccounts ==
    ASSUME TypeOK, InHand, AccountInv, NEW r \in Requests,
           request[r].at \in {"loginSave", "oidcSave", "updateSave"},
           SaveCopy(r, request[r].user, request[r].row),
           NEW place, NEW w, NEW copy, NEW n, Becomes(r, place, w, copy, n),
           r \notin dirty => Current(place, w, copy)',
           Prepared(place, copy),
           \A sub \in Subjects : r \notin Linking(sub)',
           \/ request[r].at # "updateSave" /\ decided' = decided
           \/ decided' = IF r \in dirty THEN decided
                         ELSE [decided EXCEPT ![request[r].user] = Decision(request[r].user, request[r].row)],
           twins' = twins
    PROVE  AccountInv'
<1> DEFINE u == request[r].user
           row == request[r].row
<1>1. /\ u \in known /\ u \in Users
      /\ Written(u, row).sub = row.sub
      /\ r \notin dirty => u \in present /\ Written(u, row) = row
      /\ present' = present \cup {u} /\ known' = known
      /\ rows'[u] = Written(u, row)
      /\ \A v \in Users \ {u} : rows'[v] = rows[v]
      /\ dirty \subseteq dirty'
      /\ r \in dirty' => r \in dirty
      /\ \A q \in Requests \ (dirty' \cup {r}) : request[q].user = u => u \in present /\ rows'[u] = rows[u]
      /\ overwritten \subseteq overwritten'
      /\ r \in dirty => u \in overwritten'
  BY SaveEffect
<1>2. \A q \in Requests : request[q].at \in HasAccount => request[q].user \in Users
  BY DEF InHand, TypeOK
<1>3. \A q \in Requests \ {r} : request'[q] = request[q]
  BY DEF Becomes
<1>4. CopyIsCurrent'
  <2> SUFFICES ASSUME NEW q \in Requests \ dirty'
               PROVE  Current(request[q].at, request[q].user, request[q].row)'
    BY DEF CopyIsCurrent
  <2>1. CASE q = r
    BY <1>1, <2>1 DEF Becomes, Current
  <2>2. CASE q # r
    <3>1. Current(request[q].at, request[q].user, request[q].row)
      BY <1>1 DEF AccountInv, CopyIsCurrent
    <3>2. request[q].at \in HasAccount => rows'[request[q].user] = rows[request[q].user]
      BY <1>1, <1>2, <2>2
    <3> QED
      BY <1>1, <1>3, <2>2, <3>1, <3>2 DEF Current, HasAccount
  <2> QED
    BY <2>1, <2>2
<1>5. CopyIsPrepared'
  BY <1>3 DEF AccountInv, CopyIsPrepared, Becomes, Prepared
<1>6. /\ \A v \in Users \ {u} : decided'[v] = decided[v]
      /\ r \in dirty => decided' = decided
      /\ r \notin dirty /\ request[r].at = "updateSave" => decided'[u] = Decision(u, row)
      /\ r \notin dirty /\ request[r].at # "updateSave" => decided'[u] \in {decided[u], Decision(u, row)}
  BY <1>1 DEF TypeOK
<1>7. DecidedIsKnown'
  BY <1>1, <1>6 DEF AccountInv, DecidedIsKnown
<1>8. DecisionStands'
  <2> SUFFICES ASSUME NEW v \in Users \ overwritten'
               PROVE  /\ decided'[v] = "deleted" => v \notin present'
                      /\ decided'[v] = "disabled" => v \notin present' \/ ~rows'[v].active
    BY DEF DecisionStands
  <2>1. CASE v # u
    BY <1>1, <1>6, <2>1 DEF AccountInv, DecisionStands
  <2>2. CASE v = u
    <3>1. r \notin dirty /\ u \notin overwritten
      BY <1>1, <2>2
    <3>2. u \in present /\ rows'[u] = row
      BY <1>1, <3>1
    <3>3. decided[u] # "deleted" /\ (decided[u] = "disabled" => ~rows[u].active)
      BY <1>1, <3>1, <3>2 DEF AccountInv, DecisionStands
    <3>4. request[r].at # "updateSave" => row.active = rows[u].active
      BY <3>1 DEF AccountInv, CopyIsCurrent, Current
    <3>5. CASE decided'[u] = decided[u] /\ request[r].at # "updateSave"
      BY <2>2, <3>2, <3>3, <3>4, <3>5
    <3>6. CASE decided'[u] = Decision(u, row)
      BY <2>2, <3>2, <3>3, <3>6 DEF Decision
    <3> QED
      BY <1>6, <3>1, <3>5, <3>6
  <2> QED
    BY <2>1, <2>2
<1>9. \A sub \in Subjects : Linking(sub)' \subseteq Linking(sub) \ {r}
  <2> SUFFICES ASSUME NEW sub \in Subjects, NEW q \in Linking(sub)'
               PROVE  q \in Linking(sub) /\ q # r
    OBVIOUS
  <2>1. q \in Requests /\ q # r
    BY DEF Linking, Provisioning
  <2>2. request'[q] = request[q]
    BY <1>3, <2>1
  <2>3. CASE request[q].at \in {"oidcByEmail", "oidcCreate"}
    BY <2>1, <2>2, <2>3 DEF Linking, Provisioning
  <2>4. CASE request[q].at \in {"oidcSave", "loginSave"}
    <3>1. q \notin dirty' /\ rows'[request[q].user].sub # sub /\ request[q].row.sub = sub
      BY <2>2, <2>4 DEF Linking, Provisioning
    <3>2. rows'[request[q].user] = rows[request[q].user]
      BY <1>1, <1>2, <2>1, <2>4, <3>1 DEF HasAccount
    <3> QED
      BY <1>1, <2>1, <2>4, <3>1, <3>2 DEF Linking, Provisioning
  <2> QED
    BY <2>2, <2>3, <2>4 DEF Linking, Provisioning
<1>10. ASSUME NEW sub \in Subjects \ twins
       PROVE  /\ \A x, y \in HasSubject(sub)' \ overwritten' : x = y
              /\ \A p, q \in Linking(sub)' : p = q
              /\ Linking(sub)' # {} => HasSubject(sub)' \subseteq overwritten'
  <2>1. /\ \A x, y \in HasSubject(sub) \ overwritten : x = y
        /\ \A p, q \in Linking(sub) : p = q
        /\ Linking(sub) # {} => HasSubject(sub) \subseteq overwritten
    BY DEF AccountInv, OneAccountPerSubject, LinkedOnce
  <2>2. \A v \in HasSubject(sub)' \ overwritten' : v # u => v \in HasSubject(sub) \ overwritten
    BY <1>1 DEF HasSubject, TypeOK
  <2>3. CASE u \in HasSubject(sub)' \ overwritten' /\ u \notin HasSubject(sub)
    <3>1. r \notin dirty /\ u \in present /\ row.sub = sub /\ rows[u].sub # sub
      BY <1>1, <2>3 DEF HasSubject
    <3>2. request[r].at \in {"loginSave", "oidcSave"}
      BY <3>1 DEF AccountInv, CopyIsCurrent, Current
    <3>3. r \in Linking(sub)
      BY <3>1, <3>2 DEF Linking, Provisioning
    <3>4. Linking(sub)' = {} /\ HasSubject(sub) \subseteq overwritten
      BY <1>9, <2>1, <3>3
    <3> QED
      BY <2>2, <3>4
  <2>4. CASE ~(u \in HasSubject(sub)' \ overwritten' /\ u \notin HasSubject(sub))
    <3>1. HasSubject(sub)' \ overwritten' \subseteq HasSubject(sub) \ overwritten
      BY <1>1, <2>2, <2>4
    <3> QED
      BY <1>9, <2>1, <3>1
  <2> QED
    BY <2>3, <2>4
<1>11. OneAccountPerSubject' /\ LinkedOnce'
  BY <1>10 DEF OneAccountPerSubject, LinkedOnce
<1> QED
  BY <1>4, <1>5, <1>7, <1>8, <1>11 DEF AccountInv

(* An insert gives an id that nobody holds a row; if that has a subject,   *)
(* the request was linking it.                                             *)
LEMMA InsertAccounts ==
    ASSUME TypeOK, InHand, AccountInv, NEW r \in Requests,
           NEW u \in Users, NEW row \in Row, InsertRow(u, row),
           NEW place, NEW w, NEW copy, NEW n, Becomes(r, place, w, copy, n),
           r \notin dirty => Current(place, w, copy)',
           Prepared(place, copy),
           \A sub \in Subjects : r \notin Linking(sub)',
           row.sub \in Subjects => r \in Linking(row.sub),
           UNCHANGED <<dirty, overwritten, decided, twins>>
    PROVE  AccountInv'
<1>1. /\ u \notin known /\ u \notin present
      /\ present' = present \cup {u}
      /\ known' = known \cup {u}
      /\ rows'[u] = row
      /\ \A v \in Users \ {u} : rows'[v] = rows[v]
  BY DEF InsertRow, TypeOK
<1>2. \A q \in Requests : request[q].at \in HasAccount => request[q].user \in Users \ {u}
  BY <1>1 DEF InHand, TypeOK
<1>3. \A q \in Requests \ {r} : request'[q] = request[q]
  BY DEF Becomes
<1>4. CopyIsCurrent'
  <2> SUFFICES ASSUME NEW q \in Requests \ dirty
               PROVE  Current(request[q].at, request[q].user, request[q].row)'
    BY DEF CopyIsCurrent
  <2>1. CASE q = r
    BY <2>1 DEF Becomes, Current
  <2>2. CASE q # r
    <3>1. Current(request[q].at, request[q].user, request[q].row)
      BY DEF AccountInv, CopyIsCurrent
    <3>2. request[q].at \in HasAccount => rows'[request[q].user] = rows[request[q].user]
      BY <1>1, <1>2
    <3> QED
      BY <1>1, <1>3, <2>2, <3>1, <3>2 DEF Current, HasAccount
  <2> QED
    BY <2>1, <2>2
<1>5. CopyIsPrepared'
  BY <1>3 DEF AccountInv, CopyIsPrepared, Becomes, Prepared
<1>6. DecidedIsKnown' /\ DecisionStands'
  <2>1. decided[u] = "none"
    BY <1>1 DEF AccountInv, DecidedIsKnown
  <2> QED
    BY <1>1, <2>1 DEF AccountInv, DecidedIsKnown, DecisionStands
<1>7. \A sub \in Subjects : Linking(sub)' \subseteq Linking(sub) \ {r}
  <2> SUFFICES ASSUME NEW sub \in Subjects, NEW q \in Linking(sub)'
               PROVE  q \in Linking(sub) /\ q # r
    OBVIOUS
  <2>1. q \in Requests /\ q # r
    BY DEF Linking, Provisioning
  <2>2. request'[q] = request[q]
    BY <1>3, <2>1
  <2>3. request[q].at \in {"oidcSave", "loginSave"} => rows'[request[q].user] = rows[request[q].user]
    BY <1>1, <1>2, <2>1 DEF HasAccount
  <2> QED
    BY <2>1, <2>2, <2>3 DEF Linking, Provisioning
<1>8. ASSUME NEW sub \in Subjects \ twins
      PROVE  /\ \A x, y \in HasSubject(sub)' \ overwritten : x = y
             /\ \A p, q \in Linking(sub)' : p = q
             /\ Linking(sub)' # {} => HasSubject(sub)' \subseteq overwritten
  <2>1. /\ \A x, y \in HasSubject(sub) \ overwritten : x = y
        /\ \A p, q \in Linking(sub) : p = q
        /\ Linking(sub) # {} => HasSubject(sub) \subseteq overwritten
    BY DEF AccountInv, OneAccountPerSubject, LinkedOnce
  <2>2. \A v \in HasSubject(sub)' : v # u => v \in HasSubject(sub)
    BY <1>1 DEF HasSubject, TypeOK
  <2>3. CASE row.sub = sub
    <3>1. r \in Linking(sub)
      BY <2>3
    <3>2. Linking(sub)' = {} /\ HasSubject(sub) \subseteq overwritten
      BY <1>7, <2>1, <3>1
    <3> QED
      BY <2>2, <3>2
  <2>4. CASE row.sub # sub
    <3>1. HasSubject(sub)' \subseteq HasSubject(sub)
      BY <1>1, <2>2, <2>4 DEF HasSubject
    <3> QED
      BY <1>7, <2>1, <3>1
  <2> QED
    BY <2>3, <2>4
<1>9. OneAccountPerSubject' /\ LinkedOnce'
  BY <1>8 DEF OneAccountPerSubject, LinkedOnce
<1> QED
  BY <1>4, <1>5, <1>6, <1>9 DEF AccountInv

(* A deletion outdates every copy of the account. *)
LEMMA DeleteAccounts ==
    ASSUME TypeOK, InHand, AccountInv, NEW r \in Requests, Delete(r)
    PROVE  AccountInv'
<1>1. PICK u \in present :
         /\ present' = present \ {u}
         /\ decided' = [decided EXCEPT ![u] = "deleted"]
         /\ Changed(r, u)
  BY DEF Delete, RemoveRow
<1>2. UNCHANGED <<known, rows, twins>>
  BY DEF Delete
<1>3. u \in Users /\ u \in known /\ u \notin present'
  BY <1>1 DEF TypeOK
<1>4. Becomes(r, "done", None, SomeRow, None)
  BY FinishBecomes DEF Delete
<1>5. /\ dirty' = dirty \cup {q \in Requests \ {r} : /\ request[q].user = u
                                                     /\ \/ (u \in present) # (u \in present')
                                                        \/ rows'[u] # rows[u]}
      /\ overwritten' = IF r \in dirty THEN overwritten \cup {u} ELSE overwritten
  BY <1>1 DEF Changed
<1>6. \A q \in Requests \ {r} : q \notin dirty' => q \notin dirty /\ request[q].user # u
  <2>1. (u \in present) # (u \in present')
    BY <1>3
  <2> QED
    BY <1>5, <2>1
<1>7. \A q \in Requests \ {r} : request'[q] = request[q]
  BY <1>4 DEF Becomes
<1>8. request'[r].at = "done"
  BY <1>4 DEF Becomes
<1>9. CopyIsCurrent'
  <2> SUFFICES ASSUME NEW q \in Requests \ dirty'
               PROVE  Current(request[q].at, request[q].user, request[q].row)'
    BY DEF CopyIsCurrent
  <2>1. CASE q = r
    BY <1>8, <2>1 DEF Current, HasAccount
  <2>2. CASE q # r
    <3>1. Current(request[q].at, request[q].user, request[q].row)
      BY <1>6, <2>2 DEF AccountInv, CopyIsCurrent
    <3> QED
      BY <1>1, <1>2, <1>6, <1>7, <2>2, <3>1 DEF Current
  <2> QED
    BY <2>1, <2>2
<1>10. CopyIsPrepared'
  BY <1>7, <1>8 DEF AccountInv, CopyIsPrepared, Prepared
<1>11. overwritten \subseteq overwritten'
  BY <1>5
<1>12. DecidedIsKnown' /\ DecisionStands'
  <2>1. decided'[u] = "deleted" /\ \A v \in Users \ {u} : decided'[v] = decided[v]
    BY <1>1, <1>3 DEF TypeOK
  <2> QED
    BY <1>1, <1>2, <1>3, <1>11, <2>1 DEF AccountInv, DecidedIsKnown, DecisionStands
<1>13. \A sub \in Subjects : Linking(sub)' \subseteq Linking(sub)
  <2> SUFFICES ASSUME NEW sub \in Subjects, NEW q \in Linking(sub)'
               PROVE  q \in Linking(sub)
    OBVIOUS
  <2>1. q \in Requests /\ q # r
    BY <1>8 DEF Linking, Provisioning
  <2> QED
    BY <1>2, <1>6, <1>7, <2>1 DEF Linking, Provisioning
<1>14. \A sub \in Subjects : HasSubject(sub)' \subseteq HasSubject(sub)
  BY <1>1, <1>2 DEF HasSubject
<1>15. OneAccountPerSubject' /\ LinkedOnce'
  BY <1>2, <1>11, <1>13, <1>14 DEF AccountInv, OneAccountPerSubject, LinkedOnce
<1> QED
  BY <1>9, <1>10, <1>12, <1>15 DEF AccountInv

-----------------------------------------------------------------------------
(* The handlers.  First those steps that change nothing but the request    *)
(* and perhaps the number of faults.                                       *)
LEMMA MoveInv ==
    ASSUME Inv, NEW r \in Requests, NEW place, NEW u, NEW row, NEW n,
           Becomes(r, place, u, row, n),
           request[r].at # "done",
           u # None => u \in known,
           place \in HasAccount => u # None,
           place \in HasPair => n # None,
           n # None => n \in Issued,
           n # None => place \notin {"refreshDelete", "refreshUser", "issue",
                                     "loginSave", "oidcByEmail", "oidcCreate", "oidcSave", "setupCreate"},
           r \notin dirty => Current(place, u, row),
           Prepared(place, row),
           \A sub \in Subjects : r \in Linking(sub)' => r \in Linking(sub),
           faults' \in 0 .. MaxFaults,
           UNCHANGED <<tableVars, sessionVars, postgres, ghostVars>>
    PROVE  Inv'
<1>1. UNCHANGED <<present, known, rows, pair, tokens, lapsed, valid, denylist, postgres,
                  dirty, overwritten, decided, revoked, shared, twins>>
  BY DEF tableVars, sessionVars, ghostVars, decisionVars
<1>2. TypeOK'
  BY <1>1 DEF Inv, TypeOK, Becomes
<1>3. InHand'
  BY <1>1, InHandMoves DEF Inv
<1>4. SessionInv'
  BY <1>1, SessionQuiet DEF Inv
<1>5. AccountInv'
  BY <1>1, AccountQuiet DEF Inv
<1> QED
  BY <1>2, <1>3, <1>4, <1>5 DEF Inv

(* A handler that gives up. *)
LEMMA GiveUpInv ==
    ASSUME Inv, NEW r \in Requests, request[r].at # "done", Finish(r),
           faults' \in 0 .. MaxFaults,
           UNCHANGED <<tableVars, sessionVars, postgres, ghostVars>>
    PROVE  Inv'
<1>1. Becomes(r, "done", None, SomeRow, None)
  BY FinishBecomes DEF Inv
<1>2. \A sub \in Subjects : r \notin Linking(sub)'
  BY <1>1 DEF Becomes, Linking, Provisioning
<1> QED
  BY <1>1, <1>2, MoveInv DEF HasAccount, HasPair, Current, Prepared

(* A fault stays within its bound. *)
LEMMA FaultBounded == TypeOK /\ Fault => faults' \in 0 .. MaxFaults
  BY AccountFaultsAssumption DEF TypeOK, Fault

(* So does a write that fails. *)
LEMMA WriteFailsBounded ==
    ASSUME TypeOK, NEW u, NEW row, WriteFails(u, row)
    PROVE  faults' \in 0 .. MaxFaults
  BY AccountFaultsAssumption DEF TypeOK, WriteFails

(* A copy of an account that has just been read. *)
LEMMA LoginReadInv ==
    ASSUME Inv, NEW r \in Requests, LoginRead(r)
    PROVE  Inv'
<1>1. PICK u \in present :
         /\ rows[u].active
         /\ request' = [request EXCEPT ![r] = [Idle EXCEPT !.at = "loginSave", !.user = u, !.row = rows[u]]]
  BY DEF LoginRead
<1>2. TypeOK /\ u \in Users /\ u \in known /\ rows[u] \in Row
  BY DEF Inv, TypeOK
<1>3. Becomes(r, "loginSave", u, rows[u], None)
  <2> DEFINE x == [Idle EXCEPT !.at = "loginSave", !.user = u, !.row = rows[u]]
  <2>1. x \in Request /\ x.at = "loginSave" /\ x.user = u /\ x.row = rows[u] /\ x.pair = None
    BY <1>2, IdleType DEF Request, Places
  <2>2. Becomes(r, x.at, x.user, x.row, x.pair)
    BY <1>1, <1>2, <2>1, EnterBecomes
  <2> QED
    BY <2>1, <2>2
<1>4. /\ request[r].at # "done"
      /\ faults' \in 0 .. MaxFaults
      /\ UNCHANGED <<tableVars, sessionVars, postgres, ghostVars>>
  BY DEF LoginRead, At, Inv, TypeOK
<1>5. \A sub \in Subjects : r \notin Linking(sub)'
  BY <1>3, <1>4 DEF Becomes, Linking, Provisioning, tableVars
<1> QED
  BY <1>1, <1>2, <1>3, <1>4, <1>5, NoneAssumption, MoveInv DEF HasAccount, HasPair, Current, Prepared

(* A request that authenticates reads a pair that was issued. *)
LEMMA AuthenticateInv ==
    ASSUME Inv, NEW r \in Requests, Authenticate(r)
    PROVE  Inv'
<1>1. PICK n \in valid :
         request' = [request EXCEPT ![r] = [Idle EXCEPT !.at = "authenticated", !.pair = n]]
  BY DEF Authenticate, Accepted
<1>2. TypeOK /\ n \in Pairs /\ n \in Issued
  BY DEF Inv, TypeOK, SessionInv, NamesOnce
<1>3. Becomes(r, "authenticated", None, SomeRow, n)
  <2> DEFINE x == [Idle EXCEPT !.at = "authenticated", !.pair = n]
  <2>1. x \in Request /\ x.at = "authenticated" /\ x.user = None /\ x.row = SomeRow /\ x.pair = n
    BY <1>2, IdleType DEF Request, Places
  <2>2. Becomes(r, x.at, x.user, x.row, x.pair)
    BY <1>1, <1>2, <2>1, EnterBecomes
  <2> QED
    BY <2>1, <2>2
<1>4. /\ request[r].at # "done"
      /\ faults' \in 0 .. MaxFaults
      /\ UNCHANGED <<tableVars, sessionVars, postgres, ghostVars>>
  BY DEF Authenticate, At, Inv, TypeOK
<1>5. \A sub \in Subjects : r \notin Linking(sub)'
  BY <1>3 DEF Becomes, Linking, Provisioning
<1>6. n # None
  BY <1>2, NoneAssumption DEF Pairs
<1> QED
  BY <1>2, <1>3, <1>4, <1>5, <1>6, MoveInv DEF HasAccount, HasPair, Current, Prepared

(* An update, by an administrator or by the user, starts from the account  *)
(* as it is and keeps its subject.                                         *)
LEMMA EditInv ==
    ASSUME Inv, NEW r \in Requests, At(r, "authenticated"),
           NEW u \in present, NEW row \in Row, row.sub = rows[u].sub,
           request' = [request EXCEPT ![r].at = "updateSave", ![r].user = u, ![r].row = row],
           UNCHANGED <<tableVars, sessionVars, postgres, faults, ghostVars>>
    PROVE  Inv'
<1>1. TypeOK /\ u \in Users /\ u \in known /\ request \in [Requests -> Request]
  BY DEF Inv, TypeOK
<1>2. request' = [request EXCEPT ![r] = [request[r] EXCEPT !.at = "updateSave", !.user = u, !.row = row]]
  BY <1>1
<1>3. Becomes(r, "updateSave", u, row, request[r].pair)
  BY <1>1, <1>2, LoadBecomes DEF Places
<1>4. request[r].at # "done" /\ faults' \in 0 .. MaxFaults
  BY DEF At, Inv, TypeOK
<1>5. \A sub \in Subjects : r \notin Linking(sub)'
  BY <1>3 DEF Becomes, Linking, Provisioning
<1>6. request[r].pair # None => request[r].pair \in Issued
  BY DEF Inv, SessionInv, NamesOnce
<1> QED
  BY <1>1, <1>3, <1>4, <1>5, <1>6, NoneAssumption, MoveInv DEF HasAccount, HasPair, Current, Prepared

(* Both kinds of update start from the row as it is. *)
LEMMA UpdateInv ==
    ASSUME Inv, NEW r \in Requests, Update(r) \/ UpdateMe(r)
    PROVE  Inv'
<1>1. rows \in [Users -> Row] /\ present \subseteq Users
  BY DEF Inv, TypeOK
<1>2. CASE Update(r)
  <2>1. PICK u \in present : \E row \in Edits(rows[u]) :
           request' = [request EXCEPT ![r].at = "updateSave", ![r].user = u, ![r].row = row]
    BY <1>2 DEF Update
  <2>2. PICK row \in Edits(rows[u]) :
           request' = [request EXCEPT ![r].at = "updateSave", ![r].user = u, ![r].row = row]
    BY <2>1
  <2>3. row \in Row /\ row.sub = rows[u].sub
    BY <2>2 DEF Edits
  <2> QED
    BY <1>2, <2>2, <2>3, EditInv DEF Update, Admin
<1>3. CASE UpdateMe(r)
  <2> DEFINE u == pair[request[r].pair].user
  <2>1. u \in present
    BY <1>3 DEF UpdateMe
  <2>2. PICK row \in OwnEdits(rows[u]) :
           request' = [request EXCEPT ![r].at = "updateSave", ![r].user = u, ![r].row = row]
    BY <1>3 DEF UpdateMe
  <2>3. rows[u] \in Row
    BY <1>1, <2>1
  <2>4. row = rows[u] \/ row = [rows[u] EXCEPT !.password = TRUE]
    BY <2>2 DEF OwnEdits
  <2>5. row \in Row /\ row.sub = rows[u].sub
    BY <2>3, <2>4 DEF Row
  <2> QED
    BY <1>3, <2>1, <2>2, <2>5, EditInv DEF UpdateMe
<1> QED
  BY <1>2, <1>3

(* The initial setup has not read any account. *)
LEMMA SetupCountInv ==
    ASSUME Inv, NEW r \in Requests, SetupCount(r)
    PROVE  Inv'
<1>1. PICK email \in Emails :
         request' = [request EXCEPT ![r] = [Idle EXCEPT !.at = "setupCreate",
            !.row = [email |-> email, password |-> TRUE, role |-> "admin", active |-> TRUE, sub |-> None]]]
  BY DEF SetupCount
<1> DEFINE row == [email |-> email, password |-> TRUE, role |-> "admin", active |-> TRUE, sub |-> None]
<1>2. row \in Row /\ row.sub = None
  BY DEF Row, Roles
<1>3. request' = [request EXCEPT ![r] = [Idle EXCEPT !.at = "setupCreate", !.row = row]]
  BY <1>1
<1> HIDE DEF row
<1> DEFINE x == [Idle EXCEPT !.at = "setupCreate", !.row = row]
<1>4. x \in Request /\ x.at = "setupCreate" /\ x.user = None /\ x.row = row /\ x.pair = None
  BY <1>2, IdleType DEF Request, Places
<1>5. Becomes(r, "setupCreate", None, row, None)
  <2>1. Becomes(r, x.at, x.user, x.row, x.pair)
    BY <1>3, <1>4, EnterBecomes DEF Inv
  <2> QED
    BY <1>4, <2>1
<1>6. /\ request[r].at # "done"
      /\ faults' \in 0 .. MaxFaults
      /\ UNCHANGED <<tableVars, sessionVars, postgres, ghostVars>>
  BY DEF SetupCount, At, Inv, TypeOK
<1>7. \A sub \in Subjects : r \notin Linking(sub)'
  BY <1>5 DEF Becomes, Linking, Provisioning
<1> QED
  BY <1>2, <1>5, <1>6, <1>7, MoveInv DEF HasAccount, HasPair, Current, Prepared

(* The steps that save an account. *)
LEMMA SaveInv ==
    ASSUME Inv, NEW r \in Requests,
           request[r].at \in {"loginSave", "oidcSave", "updateSave"},
           SaveCopy(r, request[r].user, request[r].row),
           NEW place, NEW w, NEW copy, Becomes(r, place, w, copy, None),
           w # None => w \in known,
           place \in HasAccount => w # None,
           place \notin HasPair,
           r \notin dirty => Current(place, w, copy)',
           Prepared(place, copy),
           \A sub \in Subjects : r \notin Linking(sub)',
           \/ request[r].at # "updateSave" /\ decided' = decided
           \/ decided' = IF r \in dirty THEN decided
                         ELSE [decided EXCEPT ![request[r].user] = Decision(request[r].user, request[r].row)],
           UNCHANGED <<sessionVars, postgres, faults, revoked, shared, twins>>
    PROVE  Inv'
<1> DEFINE u == request[r].user
           row == request[r].row
<1>1. UNCHANGED <<pair, tokens, lapsed, valid, denylist, postgres, faults, revoked, shared, twins>>
  BY DEF sessionVars
<1>2. /\ u \in known /\ u \in Users
      /\ present' = present \cup {u} /\ known' = known
      /\ rows' \in [Users -> Row]
      /\ dirty' \subseteq Requests
      /\ overwritten' \subseteq overwritten \cup {u}
  BY SaveEffect DEF Inv
<1>3. decided' \in [Users -> {"none", "disabled", "deleted"}]
  <2>1. decided \in [Users -> {"none", "disabled", "deleted"}]
    BY DEF Inv, TypeOK
  <2>2. Decision(u, row) \in {"none", "disabled", "deleted"}
    BY <1>2, <2>1 DEF Decision
  <2> QED
    BY <1>2, <2>1, <2>2
<1>4. TypeOK'
  BY <1>1, <1>2, <1>3 DEF Inv, TypeOK, Becomes
<1>5. InHand'
  BY <1>2, InHandMoves DEF Inv
<1>6. SessionInv'
  BY <1>1, SessionQuiet DEF Inv
<1>7. AccountInv'
  BY SaveAccounts DEF Inv
<1> QED
  BY <1>4, <1>5, <1>6, <1>7 DEF Inv

(* The steps that create an account. *)
LEMMA InsertInv ==
    ASSUME Inv, NEW r \in Requests, request[r].at # "done",
           NEW u \in Users, NEW row \in Row, InsertRow(u, row),
           NEW place, NEW w, NEW copy, Becomes(r, place, w, copy, None),
           w # None => w \in known',
           place \in HasAccount => w # None,
           place \notin HasPair,
           r \notin dirty => Current(place, w, copy)',
           Prepared(place, copy),
           \A sub \in Subjects : r \notin Linking(sub)',
           row.sub \in Subjects => r \in Linking(row.sub),
           UNCHANGED <<sessionVars, postgres, faults, ghostVars>>
    PROVE  Inv'
<1>1. UNCHANGED <<pair, tokens, lapsed, valid, denylist, postgres, faults,
                  dirty, overwritten, decided, revoked, shared, twins>>
  BY DEF sessionVars, ghostVars, decisionVars
<1>2. TypeOK'
  BY <1>1 DEF Inv, TypeOK, Becomes, InsertRow
<1>3. InHand'
  BY InHandMoves DEF Inv, InsertRow
<1>4. SessionInv'
  BY <1>1, SessionQuiet DEF Inv
<1>5. AccountInv'
  BY <1>1, InsertAccounts DEF Inv
<1> QED
  BY <1>2, <1>3, <1>4, <1>5 DEF Inv

(* The end of a login saves the copy, or fails to. *)
LEMMA RecordLoginInv ==
    ASSUME Inv, NEW r \in Requests, RecordLogin(r)
    PROVE  Inv'
<1> SUFFICES ASSUME NEW u, NEW row, u = request[r].user, row = request[r].row
             PROVE  Inv'
  OBVIOUS
<1>1. request[r].at = "loginSave" /\ Goto(r, "issue")
  BY DEF RecordLogin, At
<1>2. /\ u # None /\ u \in known /\ u \in Users
      /\ request[r].pair = None
      /\ row.active
      /\ r \notin dirty => Current("issue", u, row)
  <2>1. u # None /\ u \in known /\ u \in Users
    BY <1>1 DEF Inv, InHand, HasAccount, TypeOK
  <2>2. request[r].pair = None
    BY <1>1 DEF Inv, SessionInv, NamesOnce
  <2>3. row.active
    BY <1>1 DEF Inv, AccountInv, CopyIsPrepared, Prepared
  <2>4. r \notin dirty => Current("issue", u, row)
    BY <1>1 DEF Inv, AccountInv, CopyIsCurrent, Current, HasAccount
  <2> QED
    BY <2>1, <2>2, <2>3, <2>4
<1>3. Becomes(r, "issue", u, row, None)
  BY <1>1, <1>2, GotoBecomes DEF Inv, Places
<1>4. \A sub \in Subjects : r \notin Linking(sub)'
  BY <1>3 DEF Becomes, Linking, Provisioning
<1>5. CASE SaveCopy(r, u, row) /\ faults' = faults
  <2>1. r \notin dirty => u \in present /\ rows'[u] = row /\ u \in present'
    BY <1>1, <1>5, SaveEffect DEF Inv
  <2>2. r \notin dirty => Current("issue", u, row)'
    BY <1>2, <2>1 DEF Current, HasAccount
  <2>3. UNCHANGED <<sessionVars, postgres, faults, decided, revoked, shared, twins>>
    BY <1>5 DEF RecordLogin
  <2> QED
    BY <1>1, <1>2, <1>3, <1>4, <1>5, <2>2, <2>3, SaveInv DEF HasPair, Prepared
<1>6. CASE WriteFails(u, row) /\ UNCHANGED <<dirty, overwritten>>
  <2>1. UNCHANGED <<tableVars, sessionVars, postgres, ghostVars>>
    BY <1>6 DEF RecordLogin, WriteFails, ghostVars, decisionVars
  <2>2. faults' \in 0 .. MaxFaults
    BY <1>6, WriteFailsBounded DEF Inv
  <2> QED
    BY <1>1, <1>2, <1>3, <1>4, <2>1, <2>2, MoveInv DEF HasPair, HasAccount, Prepared
<1> QED
  BY <1>5, <1>6 DEF RecordLogin

(* The end of an update. *)
LEMMA UpdateSaveInv ==
    ASSUME Inv, NEW r \in Requests, UpdateSave(r)
    PROVE  Inv'
<1> DEFINE u == request[r].user
           row == request[r].row
<1>1. request[r].at = "updateSave" /\ Finish(r)
  BY DEF UpdateSave, At
<1>2. Becomes(r, "done", None, SomeRow, None)
  BY <1>1, FinishBecomes DEF Inv
<1>3. \A sub \in Subjects : r \notin Linking(sub)'
  BY <1>2 DEF Becomes, Linking, Provisioning
<1>4. CASE /\ SaveCopy(r, u, row)
           /\ decided' = IF r \in dirty THEN decided ELSE [decided EXCEPT ![u] = Decision(u, row)]
           /\ faults' = faults
  <2>1. UNCHANGED <<sessionVars, postgres, faults, revoked, shared, twins>>
    BY <1>4 DEF UpdateSave
  <2>2. Current("done", None, SomeRow)' /\ Prepared("done", SomeRow)
    BY DEF Current, Prepared, HasAccount
  <2> QED
    BY <1>1, <1>2, <1>3, <1>4, <2>1, <2>2, SaveInv DEF HasPair, HasAccount
<1>5. CASE WriteFails(u, row) /\ UNCHANGED decisionVars
  <2>1. UNCHANGED <<tableVars, sessionVars, postgres, ghostVars>>
    BY <1>5 DEF UpdateSave, WriteFails, ghostVars
  <2>2. faults' \in 0 .. MaxFaults
    BY <1>5, WriteFailsBounded DEF Inv
  <2> QED
    BY <1>1, <2>1, <2>2, GiveUpInv
<1> QED
  BY <1>4, <1>5 DEF UpdateSave

(* The accounts that an administrator or the initial setup creates have no *)
(* subject.                                                                *)
LEMMA CreateInv ==
    ASSUME Inv, NEW r \in Requests, Create(r) \/ SetupCreate(r)
    PROVE  Inv'
<1>1. request[r].at # "done" /\ Finish(r)
  BY DEF Create, SetupCreate, Admin, At
<1>2. Becomes(r, "done", None, SomeRow, None)
  BY <1>1, FinishBecomes DEF Inv
<1>3. \A sub \in Subjects : r \notin Linking(sub)'
  BY <1>2 DEF Becomes, Linking, Provisioning
<1>4. ASSUME NEW u \in Users, NEW row \in Row, InsertRow(u, row), row.sub = None,
             UNCHANGED <<sessionVars, postgres, faults, ghostVars>>
      PROVE  Inv'
  <2>1. Current("done", None, SomeRow)' /\ Prepared("done", SomeRow)
    BY DEF Current, Prepared, HasAccount
  <2>2. row.sub \notin Subjects
    BY <1>4, NoneAssumption
  <2> QED
    BY <1>1, <1>2, <1>3, <1>4, <2>1, <2>2, InsertInv DEF HasPair, HasAccount
<1>5. CASE Create(r)
  <2>1. PICK u \in Users, email \in Emails, role \in Roles :
           InsertRow(u, [email |-> email, password |-> TRUE, role |-> role, active |-> TRUE, sub |-> None])
    BY <1>5 DEF Create
  <2> DEFINE row == [email |-> email, password |-> TRUE, role |-> role, active |-> TRUE, sub |-> None]
  <2>2. row \in Row /\ row.sub = None
    BY DEF Row
  <2>3. InsertRow(u, row)
    BY <2>1
  <2> HIDE DEF row
  <2> QED
    BY <1>4, <1>5, <2>2, <2>3 DEF Create
<1>6. CASE SetupCreate(r)
  <2>1. request[r].row \in Row /\ request[r].row.sub = None
    BY <1>6 DEF SetupCreate, At, Inv, TypeOK, Request, AccountInv, CopyIsPrepared, Prepared
  <2>2. CASE \E u \in Users : InsertRow(u, request[r].row) /\ faults' = faults
    BY <1>4, <1>6, <2>1, <2>2 DEF SetupCreate
  <2>3. CASE WriteFails(None, request[r].row)
    <3>1. faults' \in 0 .. MaxFaults
      BY <2>3, WriteFailsBounded DEF Inv
    <3> QED
      BY <1>1, <1>6, <2>3, <3>1, GiveUpInv DEF SetupCreate, WriteFails
  <2> QED
    BY <1>6, <2>2, <2>3 DEF SetupCreate
<1> QED
  BY <1>5, <1>6

(* A callback whose subject has an account, which it will only refresh. *)
LEMMA FoundInv ==
    ASSUME Inv, NEW r \in Requests, At(r, "idle"),
           NEW email \in Emails, NEW u \in present,
           request' = [request EXCEPT ![r] = [Idle EXCEPT !.at = "oidcSave", !.user = u,
                                                          !.row = [rows[u] EXCEPT !.email = email]]],
           UNCHANGED <<tableVars, sessionVars, postgres, faults, ghostVars>>
    PROVE  Inv'
<1> SUFFICES ASSUME NEW row, row = [rows[u] EXCEPT !.email = email]
             PROVE  Inv'
  OBVIOUS
<1>1. TypeOK /\ u \in Users /\ u \in known /\ rows[u] \in Row
  BY DEF Inv, TypeOK
<1>2. row \in Row /\ row.sub = rows[u].sub /\ row.role = rows[u].role /\ row.active = rows[u].active
  BY <1>1 DEF Row
<1> DEFINE x == [Idle EXCEPT !.at = "oidcSave", !.user = u, !.row = row]
<1>3. x \in Request /\ x.at = "oidcSave" /\ x.user = u /\ x.row = row /\ x.pair = None
  BY <1>1, <1>2, IdleType DEF Request, Places
<1>4. Becomes(r, "oidcSave", u, row, None)
  <2>1. Becomes(r, x.at, x.user, x.row, x.pair)
    BY <1>1, <1>3, EnterBecomes
  <2> QED
    BY <1>3, <2>1
<1>5. request[r].at # "done" /\ faults' \in 0 .. MaxFaults
  BY DEF At, Inv, TypeOK
<1>6. \A sub \in Subjects : r \notin Linking(sub)'
  BY <1>2, <1>4 DEF Becomes, Linking, Provisioning, tableVars
<1> QED
  BY <1>1, <1>2, <1>4, <1>5, <1>6, NoneAssumption, MoveInv DEF HasAccount, HasPair, Current, Prepared

(* A callback whose subject has no account starts linking: alone, or the   *)
(* subject is one of twins.                                                *)
LEMMA NotFoundInv ==
    ASSUME Inv, NEW r \in Requests, At(r, "idle"), NEW claims \in IDTokens,
           HasSubject(claims.sub) = {},
           request' = [request EXCEPT ![r] = [Idle EXCEPT !.at = "oidcByEmail", !.row = Provisioned(claims)]],
           twins' = IF Provisioning(claims.sub) = {} THEN twins ELSE twins \cup {claims.sub},
           UNCHANGED <<tableVars, sessionVars, postgres, faults, decisionVars, revoked, shared>>
    PROVE  Inv'
<1>1. UNCHANGED <<present, known, rows, pair, tokens, lapsed, valid, denylist, postgres, faults,
                  dirty, overwritten, decided, revoked, shared>>
  BY DEF tableVars, sessionVars, decisionVars
<1>2. claims.sub \in Subjects /\ claims.email \in Emails
  BY DEF IDTokens
<1> SUFFICES ASSUME NEW row, row = Provisioned(claims)
             PROVE  Inv'
  OBVIOUS
<1>3. row \in Row /\ row.active /\ row.sub = claims.sub
  BY <1>2 DEF Provisioned, Row, Roles
<1> DEFINE x == [Idle EXCEPT !.at = "oidcByEmail", !.row = row]
<1>4. x \in Request /\ x.at = "oidcByEmail" /\ x.user = None /\ x.row = row /\ x.pair = None
  BY <1>3, IdleType DEF Request, Places
<1>5. Becomes(r, "oidcByEmail", None, row, None)
  <2>1. Becomes(r, x.at, x.user, x.row, x.pair)
    BY <1>4, EnterBecomes DEF Inv
  <2> QED
    BY <1>4, <2>1
<1>6. request[r].at # "done"
  BY DEF At
<1>7. twins \subseteq twins' /\ twins' \subseteq Subjects
  BY <1>2 DEF Inv, TypeOK
<1>8. TypeOK'
  BY <1>1, <1>5, <1>7 DEF Inv, TypeOK, Becomes
<1>9. InHand'
  BY <1>1, <1>5, InHandMoves DEF Inv, HasAccount, HasPair
<1>10. SessionInv'
  BY <1>1, <1>5, <1>6, SessionQuiet DEF Inv
<1>11. CopyIsCurrent' /\ CopyIsPrepared'
  BY <1>1, <1>3, <1>5
  DEF Inv, AccountInv, CopyIsCurrent, CopyIsPrepared, Becomes, Current, Prepared, HasAccount
<1>12. DecidedIsKnown' /\ DecisionStands'
  BY <1>1 DEF Inv, AccountInv, DecidedIsKnown, DecisionStands
<1>13. \A sub \in Subjects : HasSubject(sub)' = HasSubject(sub)
  BY <1>1 DEF HasSubject
<1>14. OneAccountPerSubject'
  BY <1>1, <1>7, <1>13 DEF Inv, AccountInv, OneAccountPerSubject
<1>15. /\ \A sub \in Subjects : Linking(sub)' \subseteq Linking(sub) \cup {r}
       /\ \A sub \in Subjects \ {claims.sub} : Linking(sub)' \subseteq Linking(sub)
  BY <1>1, <1>3, <1>5 DEF Linking, Provisioning, Becomes
<1>16. LinkedOnce'
  <2> SUFFICES ASSUME NEW sub \in Subjects \ twins'
               PROVE  /\ \A p, q \in Linking(sub)' : p = q
                      /\ Linking(sub)' # {} => HasSubject(sub) \subseteq overwritten
    BY <1>1, <1>13 DEF LinkedOnce
  <2>1. CASE sub = claims.sub
    <3>1. Provisioning(sub) = {}
      BY <2>1
    <3>2. Linking(sub) = {}
      BY <3>1 DEF Linking
    <3> QED
      BY <1>15, <2>1, <3>2
  <2>2. CASE sub # claims.sub
    BY <1>7, <1>15, <2>2 DEF Inv, AccountInv, LinkedOnce
  <2> QED
    BY <2>1, <2>2
<1> QED
  BY <1>8, <1>9, <1>10, <1>11, <1>12, <1>14, <1>16 DEF Inv, AccountInv

(* The first lookup of a callback. *)
LEMMA FindSubjectInv ==
    ASSUME Inv, NEW r \in Requests, FindSubject(r)
    PROVE  Inv'
<1>1. PICK claims \in IDTokens :
        \/ \E u \in HasSubject(claims.sub) :
            /\ request' = [request EXCEPT ![r] = [Idle EXCEPT !.at = "oidcSave", !.user = u,
                                                  !.row = [rows[u] EXCEPT !.email = claims.email]]]
            /\ twins' = twins
        \/ /\ HasSubject(claims.sub) = {}
           /\ request' = [request EXCEPT ![r] = [Idle EXCEPT !.at = "oidcByEmail",
                                                             !.row = Provisioned(claims)]]
           /\ twins' = IF Provisioning(claims.sub) = {} THEN twins ELSE twins \cup {claims.sub}
  BY DEF FindSubject
<1>2. /\ At(r, "idle")
      /\ UNCHANGED <<tableVars, sessionVars, postgres, faults, decisionVars, revoked, shared>>
  BY DEF FindSubject
<1>3. claims.email \in Emails
  BY DEF IDTokens
<1>4. ASSUME NEW u \in HasSubject(claims.sub),
             request' = [request EXCEPT ![r] = [Idle EXCEPT !.at = "oidcSave", !.user = u,
                                                !.row = [rows[u] EXCEPT !.email = claims.email]]],
             twins' = twins
      PROVE  Inv'
  BY <1>2, <1>3, <1>4, FoundInv DEF HasSubject, ghostVars
<1> QED
  BY <1>1, <1>2, <1>4, NotFoundInv

(* The account with the address is about to be linked. *)
LEMMA FindEmailInv ==
    ASSUME Inv, NEW r \in Requests, FindEmail(r)
    PROVE  Inv'
<1>1. /\ request[r].at = "oidcByEmail"
      /\ faults' \in 0 .. MaxFaults
      /\ UNCHANGED <<tableVars, sessionVars, postgres, ghostVars>>
  BY DEF FindEmail, At, Inv, TypeOK
<1>2. UNCHANGED <<rows, dirty>>
  BY <1>1 DEF tableVars, ghostVars, decisionVars
<1>3. /\ TypeOK /\ request \in [Requests -> Request] /\ request[r].row \in Row
      /\ request[r].row.sub \in Subjects \cup {None}
      /\ request[r].user # None => request[r].user \in known
      /\ request[r].pair = None
      /\ request[r].row.active
  BY <1>1 DEF Inv, TypeOK, Request, Row, InHand, SessionInv, NamesOnce,
              AccountInv, CopyIsPrepared, Prepared
<1>4. \A sub \in Subjects : request[r].row.sub = sub => r \in Linking(sub)
  BY <1>1 DEF Linking, Provisioning
<1>5. ASSUME NEW u \in HasEmail(request[r].row.email),
             request' = [request EXCEPT ![r].at = "oidcSave", ![r].user = u,
                                        ![r].row = [rows[u] EXCEPT !.sub = request[r].row.sub]]
      PROVE  Inv'
  <2> SUFFICES ASSUME NEW row, row = [rows[u] EXCEPT !.sub = request[r].row.sub]
               PROVE  Inv'
    OBVIOUS
  <2>1. u \in present /\ u \in Users /\ u \in known /\ rows[u] \in Row
    BY <1>3 DEF HasEmail, TypeOK
  <2>2. row \in Row /\ row.sub = request[r].row.sub /\ row.role = rows[u].role /\ row.active = rows[u].active
    BY <1>3, <2>1 DEF Row
  <2>3. request' = [request EXCEPT ![r] = [request[r] EXCEPT !.at = "oidcSave", !.user = u, !.row = row]]
    BY <1>3, <1>5
  <2>4. Becomes(r, "oidcSave", u, row, None)
    BY <1>3, <2>1, <2>2, <2>3, LoadBecomes DEF Places
  <2>5. \A sub \in Subjects : r \in Linking(sub)' => r \in Linking(sub)
    BY <1>4, <2>2, <2>4 DEF Becomes, Linking, Provisioning
  <2> QED
    BY <1>1, <2>1, <2>2, <2>4, <2>5, NoneAssumption, MoveInv DEF HasAccount, HasPair, Current, Prepared
<1>6. CASE Goto(r, "oidcCreate")
  <2>1. Becomes(r, "oidcCreate", request[r].user, request[r].row, None)
    BY <1>3, <1>6, GotoBecomes DEF Places
  <2>2. \A sub \in Subjects : r \in Linking(sub)' => r \in Linking(sub)
    BY <1>4, <2>1 DEF Becomes, Linking, Provisioning
  <2> QED
    BY <1>1, <1>3, <2>1, <2>2, MoveInv DEF HasAccount, HasPair, Current, Prepared
<1> QED
  BY <1>5, <1>6 DEF FindEmail

(* The account of a callback that found none. *)
LEMMA ProvisionInv ==
    ASSUME Inv, NEW r \in Requests, Provision(r)
    PROVE  Inv'
<1> SUFFICES ASSUME NEW row, row = request[r].row
             PROVE  Inv'
  OBVIOUS
<1>1. request[r].at = "oidcCreate"
  BY DEF Provision, At
<1>2. /\ TypeOK /\ request[r] \in Request /\ row \in Row
      /\ request[r].pair = None
      /\ row.active
  BY <1>1 DEF Inv, TypeOK, Request, SessionInv, NamesOnce, AccountInv, CopyIsPrepared, Prepared
<1>3. ASSUME NEW u \in Users, InsertRow(u, row),
             request' = [request EXCEPT ![r].at = "loginSave", ![r].user = u],
             faults' = faults
      PROVE  Inv'
  <2> DEFINE x == [request[r] EXCEPT !.at = "loginSave", !.user = u]
  <2>1. x \in Request /\ x.at = "loginSave" /\ x.user = u /\ x.row = row /\ x.pair = None
    BY <1>2 DEF Request, Places
  <2>2. request' = [request EXCEPT ![r] = x]
    BY <1>2, <1>3 DEF TypeOK
  <2>3. Becomes(r, "loginSave", u, row, None)
    <3>1. Becomes(r, x.at, x.user, x.row, x.pair)
      BY <1>2, <2>1, <2>2, EnterBecomes
    <3> QED
      BY <2>1, <3>1
  <2>4. rows'[u] = row /\ u \in present' /\ u \in known' /\ u # None
    BY <1>2, <1>3, NoneAssumption DEF InsertRow, TypeOK
  <2>5. Current("loginSave", u, row)' /\ Prepared("loginSave", row)
    BY <1>2, <2>4 DEF Current, Prepared
  <2>6. \A sub \in Subjects : r \notin Linking(sub)'
    BY <2>3, <2>4 DEF Becomes, Linking, Provisioning
  <2>7. row.sub \in Subjects => r \in Linking(row.sub)
    BY <1>1 DEF Linking, Provisioning
  <2>8. UNCHANGED <<sessionVars, postgres, faults, ghostVars>>
    BY <1>3 DEF Provision
  <2> QED
    BY <1>1, <1>2, <1>3, <2>3, <2>4, <2>5, <2>6, <2>7, <2>8, InsertInv DEF HasPair
<1>4. CASE WriteFails(None, row) /\ Finish(r)
  <2>1. faults' \in 0 .. MaxFaults
    BY <1>4, WriteFailsBounded DEF Inv
  <2> QED
    BY <1>1, <1>4, <2>1, GiveUpInv DEF Provision, WriteFails
<1> QED
  BY <1>3, <1>4 DEF Provision

(* A callback goes on to the end of the login, or turns the user away. *)
LEMMA AdmitBecomes ==
    ASSUME TypeOK, NEW r \in Requests, request[r].user \in Users, request[r].pair = None,
           NEW copy \in Row, Admit(r, copy)
    PROVE  \/ copy.active /\ Becomes(r, "loginSave", request[r].user, copy, None)
           \/ Finish(r)
<1>1. request[r] \in Request
  BY DEF TypeOK
<1>2. CASE copy.active
  <2> DEFINE x == [request[r] EXCEPT !.at = "loginSave", !.row = copy]
  <2>1. x \in Request /\ x.at = "loginSave" /\ x.user = request[r].user /\ x.row = copy /\ x.pair = None
    BY <1>1 DEF Request, Places
  <2>2. request' = [request EXCEPT ![r] = x]
    BY <1>2 DEF Admit, TypeOK
  <2>3. Becomes(r, x.at, x.user, x.row, x.pair)
    BY <2>1, <2>2, EnterBecomes
  <2> QED
    BY <1>2, <2>1, <2>3
<1>3. CASE ~copy.active
  BY <1>3 DEF Admit, Finish
<1> QED
  BY <1>2, <1>3

(* The profile is saved, or not, before the user is admitted. *)
LEMMA SyncProfileInv ==
    ASSUME Inv, NEW r \in Requests, SyncProfile(r)
    PROVE  Inv'
<1> SUFFICES ASSUME NEW u, NEW row, u = request[r].user, row = request[r].row
             PROVE  Inv'
  OBVIOUS
<1>1. request[r].at = "oidcSave"
  BY DEF SyncProfile, At
<1>2. TypeOK /\ u # None /\ u \in known /\ u \in Users /\ row \in Row
  BY <1>1 DEF Inv, InHand, HasAccount, TypeOK, Request
<1>3. request[r].pair = None
  BY <1>1 DEF Inv, SessionInv, NamesOnce
<1>4. r \notin dirty => u \in present /\ row.active = rows[u].active /\ row.role = rows[u].role
  BY <1>1 DEF Inv, AccountInv, CopyIsCurrent, Current, HasAccount
<1>5. CASE SaveCopy(r, u, row) /\ Admit(r, Written(u, row)) /\ faults' = faults
  <2> SUFFICES ASSUME NEW copy, copy = Written(u, row)
               PROVE  Inv'
    OBVIOUS
  <2>1. copy \in Row /\ rows'[u] = copy /\ u \in present'
    BY <1>1, <1>5, SaveEffect DEF Inv
  <2>2. UNCHANGED <<sessionVars, postgres, faults, decided, revoked, shared, twins>>
    BY <1>5 DEF SyncProfile
  <2>3. CASE copy.active /\ Becomes(r, "loginSave", u, copy, None)
    <3>1. Current("loginSave", u, copy)' /\ Prepared("loginSave", copy)
      BY <2>1, <2>3 DEF Current, Prepared
    <3>2. \A sub \in Subjects : r \notin Linking(sub)'
      BY <2>1, <2>3 DEF Becomes, Linking, Provisioning
    <3> QED
      BY <1>1, <1>2, <1>5, <2>2, <2>3, <3>1, <3>2, SaveInv DEF HasPair
  <2>4. CASE Finish(r)
    <3>1. Becomes(r, "done", None, SomeRow, None)
      BY <1>2, <2>4, FinishBecomes
    <3>2. Current("done", None, SomeRow)' /\ Prepared("done", SomeRow)
      BY DEF Current, Prepared, HasAccount
    <3>3. \A sub \in Subjects : r \notin Linking(sub)'
      BY <3>1 DEF Becomes, Linking, Provisioning
    <3> QED
      BY <1>1, <1>5, <2>2, <3>1, <3>2, <3>3, SaveInv DEF HasPair, HasAccount
  <2> QED
    BY <1>2, <1>3, <1>5, <2>1, <2>3, <2>4, AdmitBecomes
<1>6. CASE /\ WriteFails(u, row) /\ UNCHANGED <<dirty, overwritten>>
           /\ Admit(r, IF EmailFree(u, row) THEN row ELSE Written(u, row))
  <2> SUFFICES ASSUME NEW copy, copy = IF EmailFree(u, row) THEN row ELSE Written(u, row)
               PROVE  Inv'
    OBVIOUS
  <2>1. copy \in Row /\ copy.sub = row.sub /\ (u \in present => copy = row)
    BY <1>2, WrittenFacts
  <2>2. UNCHANGED <<tableVars, sessionVars, postgres, ghostVars>>
    BY <1>6 DEF SyncProfile, WriteFails, ghostVars, decisionVars
  <2>3. faults' \in 0 .. MaxFaults
    BY <1>6, WriteFailsBounded DEF Inv
  <2>4. CASE copy.active /\ Becomes(r, "loginSave", u, copy, None)
    <3>1. r \notin dirty => Current("loginSave", u, copy)
      BY <1>4, <2>1 DEF Current
    <3>2. Prepared("loginSave", copy)
      BY <2>4 DEF Prepared
    <3>3. \A sub \in Subjects : r \in Linking(sub)' => r \in Linking(sub)
      BY <1>1, <1>6, <2>1, <2>2, <2>4 DEF Becomes, Linking, Provisioning, tableVars
    <3> QED
      BY <1>1, <1>2, <2>2, <2>3, <2>4, <3>1, <3>2, <3>3, MoveInv DEF HasPair
  <2>5. CASE Finish(r)
    BY <1>1, <2>2, <2>3, <2>5, GiveUpInv
  <2> QED
    BY <1>2, <1>3, <1>6, <2>1, <2>4, <2>5, AdmitBecomes
<1> QED
  BY <1>5, <1>6 DEF SyncProfile

-----------------------------------------------------------------------------
(* The steps that touch sessions.                                          *)

(* They leave the accounts alone. *)
LEMMA AccountsUntouched ==
    ASSUME Inv, NEW r \in Requests, NEW place, NEW u, NEW row, NEW n,
           Becomes(r, place, u, row, n),
           place \notin {"loginSave", "oidcByEmail", "oidcCreate", "oidcSave", "setupCreate", "updateSave"},
           r \notin dirty => Current(place, u, row),
           Prepared(place, row),
           UNCHANGED <<tableVars, decisionVars, twins>>
    PROVE  AccountInv'
<1>1. UNCHANGED <<present, known, rows, dirty, overwritten, decided, twins>>
  BY DEF tableVars, decisionVars
<1>2. \A sub \in Subjects : r \notin Linking(sub)'
  BY DEF Becomes, Linking, Provisioning
<1> QED
  BY <1>1, <1>2, AccountQuiet DEF Inv

(* A second reader of a refresh token makes it shared. *)
LEMMA RefreshReadInv ==
    ASSUME Inv, NEW r \in Requests, RefreshRead(r)
    PROVE  Inv'
<1>1. PICK n \in tokens :
        /\ request' = [request EXCEPT ![r] = [Idle EXCEPT !.at = "refreshDelete", !.pair = n]]
        /\ shared' = IF \E q \in Requests : At(q, "refreshDelete") /\ request[q].pair = n
                     THEN shared \cup {n} ELSE shared
  BY DEF RefreshRead
<1>2. /\ request[r].at = "idle"
      /\ UNCHANGED <<tableVars, sessionVars, postgres, faults, decisionVars, revoked, twins>>
  BY DEF RefreshRead, At
<1>3. UNCHANGED <<present, known, rows, pair, tokens, lapsed, valid, denylist, postgres, faults,
                  dirty, overwritten, decided, revoked, twins>>
  BY <1>2 DEF tableVars, sessionVars, decisionVars
<1>4. TypeOK /\ n \in Pairs /\ n \in Issued /\ n # None
  BY NoneAssumption DEF Inv, TypeOK, SessionInv, NamesOnce, Pairs
<1>5. Becomes(r, "refreshDelete", None, SomeRow, n)
  <2> DEFINE x == [Idle EXCEPT !.at = "refreshDelete", !.pair = n]
  <2>1. x \in Request /\ x.at = "refreshDelete" /\ x.user = None /\ x.row = SomeRow /\ x.pair = n
    BY <1>4, IdleType DEF Request, Places
  <2>2. Becomes(r, x.at, x.user, x.row, x.pair)
    BY <1>1, <1>4, <2>1, EnterBecomes
  <2> QED
    BY <2>1, <2>2
<1>6. shared \subseteq shared' /\ shared' \subseteq shared \cup {n}
  BY <1>1
<1>7. TypeOK'
  BY <1>3, <1>4, <1>5, <1>6 DEF TypeOK, Becomes
<1>8. InHand'
  BY <1>3, <1>4, <1>5, InHandMoves DEF Inv, HasAccount, HasPair
<1>9. AccountInv'
  BY <1>2, <1>5, AccountsUntouched DEF Current, Prepared, HasAccount
<1>10. Issued' = Issued
  BY <1>3 DEF Issued
<1>11. NamesOnce'
  BY <1>2, <1>3, <1>4, <1>5, <1>6, <1>10 DEF Inv, SessionInv, NamesOnce, Becomes
<1>12. ASSUME NEW m \in Pairs \ shared', NEW q \in Requests, Claims(q, m)'
       PROVE  (q = r /\ m = n) \/ (q # r /\ Claims(q, m))
  <2>1. pair[r].from # m
    BY <1>2, NoneAssumption DEF Inv, SessionInv, NamesOnce, Pairs
  <2> QED
    BY <1>3, <1>5, <1>12, <2>1 DEF Claims, Exchanging, Becomes
<1>13. n \notin shared' => \A q \in Requests : ~Claims(q, n)
  <2> SUFFICES ASSUME n \notin shared', NEW q \in Requests, Claims(q, n)
               PROVE  FALSE
    OBVIOUS
  <2>1. request[q].at = "refreshDelete"
    BY <1>4, <1>6 DEF Inv, SessionInv, ClaimedOnce
  <2>2. request[q].pair # n
    BY <1>1, <2>1 DEF At
  <2>3. pair[q].from = n /\ q \in Issued
    BY <1>4, <2>2 DEF Claims, Exchanging, Inv, SessionInv, NamesOnce, Pairs
  <2> QED
    BY <2>1, <2>3 DEF Inv, SessionInv, NamesOnce
<1>14. ClaimedOnce'
  <2> SUFFICES ASSUME NEW m \in Pairs \ shared'
               PROVE  /\ \A p, q \in Requests : Claims(p, m)' /\ Claims(q, m)' => p = q
                      /\ \A q \in Requests : m \in tokens /\ Claims(q, m)' => request'[q].at = "refreshDelete"
    BY <1>3 DEF ClaimedOnce
  <2>1. CASE m = n
    BY <1>5, <1>12, <1>13, <2>1 DEF Becomes
  <2>2. CASE m # n
    BY <1>5, <1>6, <1>12, <2>2 DEF Inv, SessionInv, ClaimedOnce, Becomes
  <2> QED
    BY <2>1, <2>2
<1>15. RevokedListed'
  BY <1>3 DEF Inv, SessionInv, RevokedListed
<1> QED
  BY <1>7, <1>8, <1>9, <1>11, <1>14, <1>15 DEF Inv, SessionInv

(* A refresh goes on with the token that it has claimed; it is not there   *)
(* any more.                                                               *)
LEMMA ClaimKept ==
    ASSUME TypeOK, SessionInv, NEW r \in Requests, NEW place, NEW u, NEW row,
           Becomes(r, place, u, row, request[r].pair),
           request[r].at \in {"refreshDelete", "refreshUser"},
           place \in {"refreshUser", "issue"},
           tokens' \subseteq tokens,
           request[r].pair \in tokens' => request[r].pair \in shared,
           UNCHANGED <<pair, valid, denylist, revoked, shared>>
    PROVE  SessionInv'
<1>1. Issued' = Issued
  BY DEF Issued
<1>2. NamesOnce'
  BY <1>1 DEF SessionInv, NamesOnce, Becomes
<1>3. \A q \in Requests, m \in Pairs : Claims(q, m)' => Claims(q, m)
  BY DEF Becomes, Claims, Exchanging
<1>4. \A m \in Pairs : pair[r].from # m
  BY NoneAssumption DEF SessionInv, NamesOnce, Pairs
<1>5. ClaimedOnce'
  <2> SUFFICES ASSUME NEW m \in Pairs \ shared
               PROVE  /\ \A p, q \in Requests : Claims(p, m)' /\ Claims(q, m)' => p = q
                      /\ \A q \in Requests : m \in tokens' /\ Claims(q, m)' => request'[q].at = "refreshDelete"
    BY DEF ClaimedOnce
  <2>1. \A p, q \in Requests : Claims(p, m)' /\ Claims(q, m)' => p = q
    BY <1>3 DEF SessionInv, ClaimedOnce
  <2>2. ASSUME NEW q \in Requests, m \in tokens', Claims(q, m)'
        PROVE  request'[q].at = "refreshDelete"
    <3>1. CASE q = r
      <4>1. m = request[r].pair
        BY <1>4, <2>2, <3>1 DEF Claims, Exchanging, Becomes
      <4> QED
        BY <2>2, <4>1
    <3>2. CASE q # r
      BY <1>3, <2>2, <3>2 DEF SessionInv, ClaimedOnce, Becomes
    <3> QED
      BY <3>1, <3>2
  <2> QED
    BY <2>1, <2>2
<1>6. RevokedListed'
  BY DEF SessionInv, RevokedListed
<1> QED
  BY <1>2, <1>5, <1>6 DEF SessionInv

(* The old token is deleted; the refresh ends if it was too old. *)
LEMMA RefreshDeleteInv ==
    ASSUME Inv, NEW r \in Requests, RefreshDelete(r)
    PROVE  Inv'
<1>1. /\ request[r].at = "refreshDelete"
      /\ tokens' = tokens \ {request[r].pair}
      /\ Finish(r) \/ Goto(r, "refreshUser")
  BY DEF RefreshDelete, At, DeleteByHash
<1>2. UNCHANGED <<tableVars, pair, lapsed, valid, denylist, postgres, faults, ghostVars>>
  BY DEF RefreshDelete
<1>3. UNCHANGED <<present, known, rows, pair, lapsed, valid, denylist, postgres, faults,
                  dirty, overwritten, decided, revoked, shared, twins>>
  BY <1>2 DEF tableVars, ghostVars, decisionVars
<1>4. /\ TypeOK /\ request[r].pair # None
      /\ request[r].user # None => request[r].user \in known
  BY <1>1 DEF Inv, InHand, HasPair
<1>5. CASE Finish(r)
  <2>1. Becomes(r, "done", None, SomeRow, None)
    BY <1>4, <1>5, FinishBecomes
  <2>2. TypeOK'
    BY <1>1, <1>3, <2>1 DEF Inv, TypeOK, Becomes
  <2>3. InHand'
    BY <1>3, <2>1, InHandMoves DEF Inv, HasAccount, HasPair
  <2>4. SessionInv'
    BY <1>1, <1>3, <1>4, <2>1, SessionQuiet DEF Inv
  <2>5. AccountInv'
    BY <1>2, <2>1, AccountsUntouched DEF Current, Prepared, HasAccount, ghostVars
  <2> QED
    BY <2>2, <2>3, <2>4, <2>5 DEF Inv
<1>6. CASE Goto(r, "refreshUser")
  <2>1. Becomes(r, "refreshUser", request[r].user, request[r].row, request[r].pair)
    BY <1>4, <1>6, GotoBecomes DEF Places
  <2>2. TypeOK'
    BY <1>1, <1>3, <2>1 DEF Inv, TypeOK, Becomes
  <2>3. InHand'
    BY <1>3, <1>4, <2>1, InHandMoves DEF Inv, HasAccount, HasPair
  <2>4. SessionInv'
    BY <1>1, <1>3, <1>4, <2>1, ClaimKept DEF Inv
  <2>5. AccountInv'
    BY <1>2, <2>1, AccountsUntouched DEF Current, Prepared, HasAccount, ghostVars
  <2> QED
    BY <2>2, <2>3, <2>4, <2>5 DEF Inv
<1> QED
  BY <1>1, <1>5, <1>6

(* The account of a refresh is looked up again. *)
LEMMA RefreshUserInv ==
    ASSUME Inv, NEW r \in Requests, RefreshUser(r)
    PROVE  Inv'
<1> SUFFICES ASSUME NEW n, NEW u, n = request[r].pair, u = pair[n].user
             PROVE  Inv'
  OBVIOUS
<1>1. /\ request[r].at = "refreshUser"
      /\ request' = [request EXCEPT ![r] = IF u \in present /\ rows[u].active
                                           THEN [@ EXCEPT !.at = "issue", !.user = u, !.row = rows[u]]
                                           ELSE Done]
      /\ UNCHANGED <<tableVars, sessionVars, postgres, faults, ghostVars>>
  BY DEF RefreshUser, At
<1>2. UNCHANGED <<present, known, rows, pair, tokens, lapsed, valid, denylist, postgres, faults,
                  dirty, overwritten, decided, revoked, shared, twins>>
  BY <1>1 DEF tableVars, sessionVars, ghostVars, decisionVars
<1>3. CASE u \in present /\ rows[u].active
  <2>1. TypeOK /\ u \in Users /\ u \in known /\ u # None /\ rows[u] \in Row
    BY <1>3, NoneAssumption DEF Inv, TypeOK
  <2>2. request' = [request EXCEPT ![r] = [request[r] EXCEPT !.at = "issue", !.user = u, !.row = rows[u]]]
    BY <1>1, <1>3, <2>1 DEF TypeOK
  <2>3. Becomes(r, "issue", u, rows[u], request[r].pair)
    BY <2>1, <2>2, LoadBecomes DEF Places
  <2>4. TypeOK'
    BY <1>2, <2>3 DEF Inv, TypeOK, Becomes
  <2>5. InHand'
    BY <1>2, <2>1, <2>3, InHandMoves DEF Inv, HasAccount, HasPair
  <2>6. request[r].pair \in tokens => request[r].pair \in shared
    <3>1. Claims(r, request[r].pair)
      BY <1>1 DEF Claims, Exchanging
    <3> QED
      BY <1>1, <2>1, <3>1 DEF Inv, SessionInv, ClaimedOnce, TypeOK
  <2>7. SessionInv'
    BY <1>1, <1>2, <2>1, <2>3, <2>6, ClaimKept DEF Inv
  <2>8. AccountInv'
    BY <1>1, <1>3, <2>3, AccountsUntouched DEF Current, Prepared, HasAccount, ghostVars
  <2> QED
    BY <2>4, <2>5, <2>7, <2>8 DEF Inv
<1>4. CASE ~(u \in present /\ rows[u].active)
  <2>1. Finish(r)
    BY <1>1, <1>4 DEF Finish
  <2>2. faults' \in 0 .. MaxFaults
    BY <1>2 DEF Inv, TypeOK
  <2> QED
    BY <1>1, <2>1, <2>2, GiveUpInv
<1> QED
  BY <1>3, <1>4

(* A handler that fails on the database, before it has issued anything. *)
LEMMA FailsInv ==
    ASSUME Inv, NEW r \in Requests, RefreshFails(r) \/ IssueFails(r)
    PROVE  Inv'
<1>1. request[r].at # "done" /\ Finish(r)
  BY DEF RefreshFails, IssueFails, At
<1>2. UNCHANGED <<tableVars, sessionVars, postgres, ghostVars>>
  BY DEF RefreshFails, IssueFails
<1>3. faults' = faults \/ Fault
  BY DEF RefreshFails, IssueFails
<1>4. faults' \in 0 .. MaxFaults
  BY <1>3, FaultBounded DEF Inv, TypeOK
<1> QED
  BY <1>1, <1>2, <1>4, GiveUpInv

(* A pair is issued under a name that was not used before; what its        *)
(* request claimed is what it came from.                                   *)
LEMMA IssueInv ==
    ASSUME Inv, NEW r \in Requests, Issue(r)
    PROVE  Inv'
<1>1. /\ request[r].at = "issue"
      /\ pair' = [pair EXCEPT ![r] = GenerateAccessToken(r)]
      /\ tokens' = tokens \cup {r}
      /\ valid' = valid \cup {r}
      /\ Finish(r)
      /\ UNCHANGED <<tableVars, lapsed, denylist, postgres, faults, ghostVars>>
  BY DEF Issue, At
<1>2. UNCHANGED <<present, known, rows, lapsed, denylist, postgres, faults,
                  dirty, overwritten, decided, revoked, shared, twins>>
  BY <1>1 DEF tableVars, ghostVars, decisionVars
<1>3. Becomes(r, "done", None, SomeRow, None)
  BY <1>1, FinishBecomes DEF Inv
<1>4. r \in Pairs /\ request[r] \in Request /\ request[r].row \in Row /\ pair \in [Pairs -> Pair]
  BY DEF Pairs, Inv, TypeOK, Request
<1>5. /\ GenerateAccessToken(r) \in Pair
      /\ GenerateAccessToken(r).user = request[r].user
      /\ GenerateAccessToken(r).from = request[r].pair
  BY <1>4 DEF GenerateAccessToken, Pair, Request, Row
<1>6. /\ pair' \in [Pairs -> Pair]
      /\ pair'[r].user = request[r].user /\ pair'[r].from = request[r].pair
      /\ \A n \in Pairs \ {r} : pair'[n] = pair[n]
  BY <1>1, <1>4, <1>5
<1>7. request[r].user # None
  BY <1>1 DEF Inv, InHand, HasAccount
<1>8. Issued' = Issued \cup {r} /\ r \notin Issued
  BY <1>1, <1>4, <1>6, <1>7 DEF Issued, Inv, SessionInv, NamesOnce
<1>9. TypeOK'
  BY <1>1, <1>2, <1>3, <1>4, <1>6 DEF Inv, TypeOK, Becomes
<1>10. InHand'
  BY <1>2, <1>3, InHandMoves DEF Inv, HasAccount, HasPair
<1>11. AccountInv'
  BY <1>1, <1>3, AccountsUntouched DEF Current, Prepared, HasAccount, ghostVars
<1>12. NamesOnce'
  <2>1. (tokens \cup valid \cup denylist \cup revoked \cup shared)' \subseteq Issued'
    BY <1>1, <1>2, <1>8 DEF Inv, SessionInv, NamesOnce
  <2>2. \A q \in Requests :
           /\ request'[q].at # "done" => q \notin Issued'
           /\ request'[q].pair # None => request'[q].pair \in Issued'
           /\ request'[q].at \in {"loginSave", "oidcByEmail", "oidcCreate", "oidcSave", "setupCreate"}
                 => request'[q].pair = None
    BY <1>3, <1>8 DEF Inv, SessionInv, NamesOnce, Becomes
  <2>3. \A n \in Pairs : pair'[n].from # None => {n, pair'[n].from} \subseteq Issued' /\ n \in Requests
    BY <1>6, <1>8 DEF Inv, SessionInv, NamesOnce
  <2> QED
    BY <2>1, <2>2, <2>3 DEF NamesOnce
<1>13. \A q \in Requests, m \in Pairs : Claims(q, m)' => Claims(q, m)
  <2> SUFFICES ASSUME NEW q \in Requests, NEW m \in Pairs, Claims(q, m)'
               PROVE  Claims(q, m)
    OBVIOUS
  <2>1. CASE q = r
    BY <1>1, <1>3, <1>6, <2>1 DEF Claims, Exchanging, Becomes
  <2>2. CASE q # r
    <3>1. q \in Pairs \ {r}
      BY <2>2 DEF Pairs
    <3> QED
      BY <1>3, <1>6, <2>2, <3>1 DEF Claims, Exchanging, Becomes
  <2> QED
    BY <2>1, <2>2
<1>14. \A q \in Requests : ~Claims(q, r)
  BY <1>4, <1>8, NoneAssumption DEF Claims, Exchanging, Inv, SessionInv, NamesOnce, Pairs
<1>15. ClaimedOnce'
  <2> SUFFICES ASSUME NEW m \in Pairs \ shared
               PROVE  /\ \A p, q \in Requests : Claims(p, m)' /\ Claims(q, m)' => p = q
                      /\ \A q \in Requests : m \in tokens' /\ Claims(q, m)' => request'[q].at = "refreshDelete"
    BY <1>2 DEF ClaimedOnce
  <2>1. \A p, q \in Requests : Claims(p, m)' /\ Claims(q, m)' => p = q
    BY <1>13 DEF Inv, SessionInv, ClaimedOnce
  <2>2. ASSUME NEW q \in Requests, m \in tokens', Claims(q, m)'
        PROVE  request'[q].at = "refreshDelete"
    <3>1. m \in tokens /\ Claims(q, m)
      BY <1>1, <1>13, <1>14, <2>2
    <3>2. request[q].at = "refreshDelete"
      BY <3>1 DEF Inv, SessionInv, ClaimedOnce
    <3> QED
      BY <1>1, <1>3, <3>2 DEF Becomes
  <2> QED
    BY <2>1, <2>2
<1>16. RevokedListed'
  BY <1>1, <1>2, <1>8 DEF Inv, SessionInv, NamesOnce, RevokedListed
<1> QED
  BY <1>9, <1>10, <1>11, <1>12, <1>15, <1>16 DEF Inv, SessionInv

(* A pair that is revoked is on the denylist from then on. *)
LEMMA LogoutInv ==
    ASSUME Inv, NEW r \in Requests, Logout(r)
    PROVE  Inv'
<1> SUFFICES ASSUME NEW n, n = request[r].pair
             PROVE  Inv'
  OBVIOUS
<1>1. /\ request[r].at = "authenticated"
      /\ denylist' = denylist \cup {n}
      /\ revoked' = revoked \cup {n}
      /\ \/ Finish(r)
         \/ \E c \in Pairs :
              /\ pair[c].user = pair[n].user
              /\ request' = [request EXCEPT ![r].at = "logoutDelete", ![r].pair = c]
      /\ UNCHANGED <<tableVars, pair, tokens, lapsed, valid, postgres, faults, decisionVars, shared, twins>>
  BY DEF Logout, At
<1>2. UNCHANGED <<present, known, rows, pair, tokens, lapsed, valid, postgres, faults,
                  dirty, overwritten, decided, shared, twins>>
  BY <1>1 DEF tableVars, decisionVars
<1>3. /\ TypeOK /\ request[r] \in Request
      /\ n \in Issued /\ n \in Pairs /\ pair[n].user # None
      /\ request[r].user # None => request[r].user \in known
  BY <1>1 DEF Inv, TypeOK, InHand, HasPair, SessionInv, NamesOnce, Issued
<1>4. valid' \cup denylist' \cup revoked' \subseteq Issued /\ RevokedListed'
  BY <1>1, <1>2, <1>3 DEF Inv, SessionInv, NamesOnce, RevokedListed
<1>5. ASSUME NEW place \in {"done", "logoutDelete"}, NEW u, NEW row, NEW c,
             Becomes(r, place, u, row, c),
             u # None => u \in known, c # None => c \in Issued,
             place = "logoutDelete" => c # None
      PROVE  Inv'
  <2>1. TypeOK'
    BY <1>1, <1>2, <1>3, <1>5 DEF TypeOK, Becomes
  <2>2. InHand'
    BY <1>2, <1>5, InHandMoves DEF Inv, HasAccount, HasPair
  <2>3. SessionInv'
    BY <1>1, <1>2, <1>3, <1>4, <1>5, SessionMoves DEF Inv
  <2>4. AccountInv'
    BY <1>1, <1>5, AccountsUntouched DEF Current, Prepared, HasAccount
  <2> QED
    BY <2>1, <2>2, <2>3, <2>4 DEF Inv
<1>6. CASE Finish(r)
  BY <1>3, <1>5, <1>6, FinishBecomes
<1>7. ASSUME NEW c \in Pairs, pair[c].user = pair[n].user,
             request' = [request EXCEPT ![r].at = "logoutDelete", ![r].pair = c]
      PROVE  Inv'
  <2> DEFINE x == [request[r] EXCEPT !.at = "logoutDelete", !.pair = c]
  <2>1. /\ x \in Request /\ x.at = "logoutDelete"
        /\ x.user = request[r].user /\ x.row = request[r].row /\ x.pair = c
    BY <1>3 DEF Request, Places
  <2>2. request' = [request EXCEPT ![r] = x]
    BY <1>3, <1>7 DEF TypeOK
  <2>3. Becomes(r, "logoutDelete", request[r].user, request[r].row, c)
    <3>1. Becomes(r, x.at, x.user, x.row, x.pair)
      BY <1>3, <2>1, <2>2, EnterBecomes
    <3> QED
      BY <2>1, <3>1
  <2>4. c \in Issued /\ c # None
    BY <1>3, <1>7, NoneAssumption DEF Issued, Pairs
  <2> QED
    BY <1>3, <1>5, <2>3, <2>4
<1> QED
  BY <1>1, <1>6, <1>7

(* Deleting a refresh token, alone or with the account. *)
LEMMA TokensGoInv ==
    ASSUME Inv, NEW r \in Requests, LogoutDelete(r) \/ Delete(r)
    PROVE  Inv'
<1>1. request[r].at # "done" /\ Finish(r) /\ tokens' \subseteq tokens
  BY DEF LogoutDelete, Delete, At, Admin, DeleteByHash, RemoveRow
<1>2. Becomes(r, "done", None, SomeRow, None)
  BY <1>1, FinishBecomes DEF Inv
<1>3. UNCHANGED <<known, pair, lapsed, valid, denylist, postgres, revoked, shared, twins>>
  BY DEF LogoutDelete, Delete, tableVars, ghostVars
<1>4. InHand'
  BY <1>2, <1>3, InHandMoves DEF Inv, HasAccount, HasPair
<1>5. SessionInv'
  BY <1>1, <1>2, <1>3, SessionQuiet DEF Inv
<1>6. CASE LogoutDelete(r)
  <2>1. UNCHANGED <<present, rows, dirty, overwritten, decided, tableVars, decisionVars>>
    BY <1>6 DEF LogoutDelete, tableVars, ghostVars, decisionVars
  <2>2. faults' = faults \/ Fault
    BY <1>6 DEF LogoutDelete
  <2>3. faults' \in 0 .. MaxFaults
    BY <2>2, FaultBounded DEF Inv, TypeOK
  <2>4. TypeOK'
    BY <1>1, <1>2, <1>3, <2>1, <2>3 DEF Inv, TypeOK, Becomes
  <2>5. AccountInv'
    BY <1>2, <1>3, <2>1, AccountsUntouched DEF Current, Prepared, HasAccount
  <2> QED
    BY <1>4, <1>5, <2>4, <2>5 DEF Inv
<1>7. CASE Delete(r)
  <2>1. PICK u \in present :
           /\ present' = present \ {u}
           /\ decided' = [decided EXCEPT ![u] = "deleted"]
           /\ Changed(r, u)
    BY <1>7 DEF Delete, RemoveRow
  <2>2. UNCHANGED <<rows, faults>>
    BY <1>7 DEF Delete
  <2>3. dirty' \subseteq Requests /\ overwritten' \subseteq Users
    BY <2>1 DEF Changed, Inv, TypeOK
  <2>4. decided' \in [Users -> {"none", "disabled", "deleted"}]
    BY <2>1 DEF Inv, TypeOK
  <2>5. TypeOK'
    BY <1>1, <1>2, <1>3, <2>1, <2>2, <2>3, <2>4 DEF Inv, TypeOK, Becomes
  <2>6. AccountInv'
    BY <1>7, DeleteAccounts DEF Inv
  <2> QED
    BY <1>4, <1>5, <2>5, <2>6 DEF Inv
<1> QED
  BY <1>6, <1>7

-----------------------------------------------------------------------------
(* Time, the cleanup and restarts.                                         *)

(* An expired entry is not needed on the denylist. *)
LEMMA TimeInv ==
    ASSUME Inv, Cleanup \/ \E n \in Pairs : AccessExpires(n) \/ RefreshLapses(n)
    PROVE  Inv'
<1>1. UNCHANGED <<tableVars, request, pair, tokens, postgres, faults, ghostVars>>
  BY DEF Cleanup, AccessExpires, RefreshLapses
<1>2. UNCHANGED <<present, known, rows, request, pair, tokens, postgres, faults,
                  dirty, overwritten, decided, revoked, shared, twins>>
  BY <1>1 DEF tableVars, ghostVars, decisionVars
<1>3. /\ valid' \subseteq valid /\ denylist' \subseteq denylist
      /\ denylist \cap valid' \subseteq denylist'
      /\ lapsed' \subseteq lapsed \cup tokens
  BY DEF Cleanup, AccessExpires, RefreshLapses
<1>4. TypeOK'
  BY <1>2, <1>3 DEF Inv, TypeOK
<1>5. InHand'
  BY <1>2 DEF Inv, InHand
<1>6. Issued' = Issued
  BY <1>2 DEF Issued
<1>7. NamesOnce'
  BY <1>2, <1>3, <1>6 DEF Inv, SessionInv, NamesOnce
<1>8. ClaimedOnce'
  BY <1>2 DEF Inv, SessionInv, ClaimedOnce, Claims, Exchanging
<1>9. RevokedListed'
  BY <1>2, <1>3 DEF Inv, SessionInv, RevokedListed
<1>10. AccountInv'
  BY <1>2 DEF Inv, AccountInv, CopyIsCurrent, Current, CopyIsPrepared, DecidedIsKnown, DecisionStands,
              LinkedOnce, Linking, Provisioning, HasSubject, OneAccountPerSubject
<1> QED
  BY <1>4, <1>5, <1>7, <1>8, <1>9, <1>10 DEF Inv, SessionInv

(* After a restart nothing is under way and nothing is revoked. *)
LEMMA RestartInv ==
    ASSUME Inv, Restart
    PROVE  Inv'
<1>1. UNCHANGED <<present, known, rows, pair, tokens, lapsed, postgres,
                  dirty, overwritten, decided, shared, twins>>
  BY DEF Restart, tableVars, decisionVars
<1>2. /\ request' = [r \in Requests |-> IF At(r, "idle") THEN Idle ELSE Done]
      /\ denylist' = {} /\ revoked' = {}
      /\ valid' \subseteq valid
  BY DEF Restart, StillVerify
<1>3. /\ Idle \in Request /\ Idle.at = "idle" /\ Idle.user = None /\ Idle.pair = None
      /\ Done \in Request /\ Done.at = "done" /\ Done.user = None /\ Done.pair = None
  BY IdleType DEF Done, Request, Places
<1>4. /\ request' \in [Requests -> Request]
      /\ \A r \in Requests : /\ request'[r].at \in {"idle", "done"}
                             /\ request'[r].user = None /\ request'[r].pair = None
                             /\ request'[r].at = "idle" => request[r].at = "idle"
  BY <1>2, <1>3 DEF At
<1>5. faults' \in 0 .. MaxFaults
  BY FaultBounded DEF Inv, Restart
<1>6. TypeOK'
  BY <1>1, <1>2, <1>4, <1>5 DEF Inv, TypeOK
<1>7. InHand'
  BY <1>4 DEF InHand, HasAccount, HasPair
<1>8. Issued' = Issued
  BY <1>1 DEF Issued
<1>9. NamesOnce'
  BY <1>1, <1>2, <1>4, <1>8 DEF Inv, SessionInv, NamesOnce
<1>10. ClaimedOnce'
  <2> SUFFICES ASSUME NEW m \in Pairs \ shared
               PROVE  /\ \A p, q \in Requests : Claims(p, m)' /\ Claims(q, m)' => p = q
                      /\ \A q \in Requests : m \in tokens /\ Claims(q, m)' => request'[q].at = "refreshDelete"
    BY <1>1 DEF ClaimedOnce
  <2>1. \A q \in Requests : Claims(q, m)' => pair[q].from = m
    BY <1>1, <1>4 DEF Claims, Exchanging
  <2>2. \A q \in Requests : Claims(q, m)' => Claims(q, m)
    BY <2>1 DEF Claims
  <2>3. ASSUME NEW q \in Requests, m \in tokens, Claims(q, m)'
        PROVE  FALSE
    <3>1. request[q].at = "refreshDelete"
      BY <2>2, <2>3 DEF Inv, SessionInv, ClaimedOnce
    <3>2. q \in Issued
      BY <2>1, <2>3, NoneAssumption DEF Inv, SessionInv, NamesOnce, Pairs
    <3> QED
      BY <3>1, <3>2 DEF Inv, SessionInv, NamesOnce
  <2> QED
    BY <2>2, <2>3 DEF Inv, SessionInv, ClaimedOnce
<1>11. RevokedListed'
  BY <1>2 DEF RevokedListed
<1>12. CopyIsCurrent' /\ CopyIsPrepared'
  BY <1>4 DEF CopyIsCurrent, Current, CopyIsPrepared, Prepared, HasAccount
<1>13. DecidedIsKnown' /\ DecisionStands'
  BY <1>1 DEF Inv, AccountInv, DecidedIsKnown, DecisionStands
<1>14. OneAccountPerSubject'
  BY <1>1 DEF Inv, AccountInv, OneAccountPerSubject, HasSubject
<1>15. \A sub \in Subjects : Linking(sub)' = {}
  BY <1>4 DEF Linking, Provisioning
<1>16. LinkedOnce'
  BY <1>15 DEF LinkedOnce
<1> QED
  BY <1>6, <1>7, <1>9, <1>10, <1>11, <1>12, <1>13, <1>14, <1>16 DEF Inv, SessionInv, AccountInv

-----------------------------------------------------------------------------
(* The invariant and what follows from it.                                 *)

(* The tables to start from satisfy the invariant. *)
LEMMA InvInit == Init => Inv
<1> SUFFICES ASSUME Init PROVE Inv
  OBVIOUS
<1>1. PICK table \in InitialTables :
        /\ present = table.present
        /\ rows = table.rows
        /\ pair = [n \in Pairs |-> IF n \in table.present
                                   THEN [user |-> n, role |-> table.rows[n].role, from |-> None]
                                   ELSE NoPair]
  BY DEF Init
<1>2. /\ present \subseteq Users /\ rows \in [Users -> Row]
      /\ \A u, v \in present : rows[u].sub = rows[v].sub /\ rows[u].sub # None => u = v
  BY <1>1, TablesAssumption DEF Table
<1>3. \A n \in Pairs : /\ n \in present => pair[n] \in Pair /\ pair[n].user = n
                       /\ n \notin present => pair[n] \in Pair /\ pair[n].user = None
                       /\ pair[n].from = None
  <2> SUFFICES ASSUME NEW n \in Pairs
               PROVE  /\ n \in present => pair[n] \in Pair /\ pair[n].user = n
                      /\ n \notin present => pair[n] \in Pair /\ pair[n].user = None
                      /\ pair[n].from = None
    OBVIOUS
  <2>1. CASE n \in present
    <3>1. pair[n] = [user |-> n, role |-> rows[n].role, from |-> None]
      BY <1>1, <2>1
    <3>2. n \in Users /\ rows[n].role \in Roles
      BY <1>2, <2>1 DEF Row
    <3> QED
      BY <2>1, <3>1, <3>2 DEF Pair
  <2>2. CASE n \notin present
    <3>1. pair[n] = NoPair
      BY <1>1, <2>2
    <3> QED
      BY <2>2, <3>1 DEF NoPair, Pair, Roles
  <2> QED
    BY <2>1, <2>2
<1>4. pair \in [Pairs -> Pair]
  BY <1>1, <1>3
<1>5. /\ request \in [Requests -> Request]
      /\ \A r \in Requests : request[r].at = "idle" /\ request[r].user = None /\ request[r].pair = None
  BY IdleType DEF Init
<1>6. Issued = present
  BY <1>2, <1>3, NoneAssumption DEF Issued, Pairs
<1>7. TypeOK
  BY <1>2, <1>4, <1>5, AccountFaultsAssumption DEF Init, TypeOK, Pairs
<1>8. InHand
  BY <1>5 DEF InHand, HasAccount, HasPair
<1>9. SessionInv
  <2>1. NamesOnce
    BY <1>2, <1>3, <1>5, <1>6, IdsAssumption DEF Init, NamesOnce
  <2>2. \A q \in Requests, m \in Pairs : ~Claims(q, m)
    BY <1>3, <1>5, NoneAssumption DEF Claims, Exchanging, Pairs
  <2>3. ClaimedOnce /\ RevokedListed
    BY <2>2 DEF ClaimedOnce, RevokedListed, Init
  <2> QED
    BY <2>1, <2>3 DEF SessionInv
<1>10. AccountInv
  <2>1. CopyIsCurrent /\ CopyIsPrepared
    BY <1>5 DEF CopyIsCurrent, Current, CopyIsPrepared, Prepared, HasAccount
  <2>2. DecidedIsKnown /\ DecisionStands
    BY DEF Init, DecidedIsKnown, DecisionStands
  <2>3. \A sub \in Subjects : Linking(sub) = {}
    BY <1>5 DEF Linking, Provisioning
  <2>4. LinkedOnce
    BY <2>3 DEF LinkedOnce
  <2>5. OneAccountPerSubject
    BY <1>2, NoneAssumption DEF OneAccountPerSubject, HasSubject
  <2> QED
    BY <2>1, <2>2, <2>4, <2>5 DEF AccountInv
<1> QED
  BY <1>7, <1>8, <1>9, <1>10 DEF Inv

(* Every step keeps the invariant. *)
LEMMA InvStep ==
    ASSUME Inv, [Next]_vars
    PROVE  Inv'
<1>1. CASE UNCHANGED vars
  BY <1>1 DEF vars, tableVars, sessionVars, ghostVars, decisionVars, Inv, TypeOK, InHand,
     SessionInv, NamesOnce, Issued, ClaimedOnce, Claims, Exchanging, RevokedListed,
     AccountInv, CopyIsCurrent, Current, CopyIsPrepared, DecidedIsKnown, DecisionStands,
     LinkedOnce, Linking, Provisioning, HasSubject, OneAccountPerSubject
<1>2. ASSUME NEW r \in Requests, Session(r)
      PROVE  Inv'
  BY <1>2, LoginReadInv, RecordLoginInv, RefreshReadInv, RefreshDeleteInv, RefreshUserInv,
     FailsInv, FindSubjectInv, FindEmailInv, ProvisionInv, SyncProfileInv, IssueInv,
     AuthenticateInv, LogoutInv, TokensGoInv
  DEF Session, Login, Refresh, OIDCCallback
<1>3. ASSUME NEW r \in Requests, Administration(r)
      PROVE  Inv'
  BY <1>3, UpdateInv, UpdateSaveInv, CreateInv, TokensGoInv, SetupCountInv DEF Administration
<1> QED
  BY <1>1, <1>2, <1>3, TimeInv, RestartInv DEF Next

(* The invariant of accounts and sessions holds in every reachable state. *)
THEOREM AccountsCorrect == Spec => []Inv
  BY InvInit, InvStep, PTL DEF Spec

(* Type correctness. *)
THEOREM AccountsTypeCorrect == Spec => []TypeOK
<1>1. Inv => TypeOK
  BY DEF Inv
<1> QED
  BY <1>1, AccountsCorrect, PTL

(* RefreshToken: a refresh token is exchanged for one pair only, and is    *)
(* gone by then, unless two requests had read it.                          *)
THEOREM RotatedOnceCorrect == Spec => []RotatedOnce
<1>1. ASSUME Inv
      PROVE  RotatedOnce
  <2> SUFFICES ASSUME NEW n \in Pairs \ shared,
                      NEW m1 \in Pairs, NEW m2 \in Pairs, pair[m1].from = n, pair[m2].from = n
               PROVE  n \notin tokens /\ m1 = m2
    BY <1>1 DEF RotatedOnce
  <2>1. m1 \in Requests /\ m2 \in Requests /\ m1 \in Issued
    BY <1>1, NoneAssumption DEF Inv, SessionInv, NamesOnce, Pairs
  <2>2. Claims(m1, n) /\ Claims(m2, n)
    BY DEF Claims
  <2>3. request[m1].at = "done"
    BY <1>1, <2>1 DEF Inv, SessionInv, NamesOnce
  <2> QED
    BY <1>1, <2>1, <2>2, <2>3 DEF Inv, SessionInv, ClaimedOnce
<1> QED
  BY <1>1, AccountsCorrect, PTL

(* Logout: a revoked access token is refused until the next restart. *)
THEOREM RevokedIsRefusedCorrect == Spec => []RevokedIsRefused
<1>1. Inv => RevokedIsRefused
  BY DEF Inv, SessionInv, RevokedListed, RevokedIsRefused, Accepted
<1> QED
  BY <1>1, AccountsCorrect, PTL

(* Update and Delete: what was decided about an account stands. *)
THEOREM DecisionStandsCorrect == Spec => []DecisionStands
<1>1. Inv => DecisionStands
  BY DEF Inv, AccountInv
<1> QED
  BY <1>1, AccountsCorrect, PTL

(* findOrProvisionUser: a subject has one account. *)
THEOREM OneAccountPerSubjectCorrect == Spec => []OneAccountPerSubject
<1>1. Inv => OneAccountPerSubject
  BY DEF Inv, AccountInv
<1> QED
  BY <1>1, AccountsCorrect, PTL

(* Only issueTokenPair makes a pair. *)
LEMMA OnlyIssue ==
    ASSUME [Next]_vars
    PROVE  pair' = pair \/ \E r \in Requests : Issue(r)
<1>1. CASE UNCHANGED vars
  BY <1>1 DEF vars, sessionVars
<1>2. ASSUME NEW r \in Requests, Session(r)
      PROVE  pair' = pair \/ Issue(r)
  BY <1>2 DEF Session, Login, Refresh, OIDCCallback, LoginRead, RecordLogin, RefreshRead,
     RefreshDelete, RefreshUser, RefreshFails, FindSubject, FindEmail, Provision, SyncProfile,
     IssueFails, Authenticate, Logout, LogoutDelete, sessionVars
<1>3. ASSUME NEW r \in Requests, Administration(r)
      PROVE  pair' = pair
  BY <1>3 DEF Administration, Update, UpdateMe, UpdateSave, Create, Delete, SetupCount,
     SetupCreate, sessionVars
<1> QED
  BY <1>1, <1>2, <1>3 DEF Next, AccessExpires, RefreshLapses, Cleanup, Restart

(* issueTokenPair: tokens go to accounts that exist, are active and have   *)
(* the role in the claims, unless the account changed meanwhile.           *)
THEOREM IssuedToActiveCorrect == Spec => IssuedToActive
<1> DEFINE Step == \A r \in Requests \ dirty :
                      pair[r].user = None /\ pair'[r].user # None =>
                          /\ pair'[r].user \in present
                          /\ rows[pair'[r].user].active
                          /\ rows[pair'[r].user].role = pair'[r].role
<1>1. ASSUME Inv, [Next]_vars
      PROVE  Step
  <2> SUFFICES ASSUME NEW q \in Requests \ dirty, pair[q].user = None, pair'[q].user # None
               PROVE  /\ pair'[q].user \in present
                      /\ rows[pair'[q].user].active
                      /\ rows[pair'[q].user].role = pair'[q].role
    OBVIOUS
  <2>1. PICK r \in Requests : Issue(r)
    BY <1>1, OnlyIssue
  <2>2. pair' = [pair EXCEPT ![r] = GenerateAccessToken(r)] /\ request[r].at = "issue"
    BY <2>1 DEF Issue, At
  <2>3. q \in Pairs /\ r \in Pairs /\ pair \in [Pairs -> Pair]
    BY <1>1 DEF Pairs, Inv, TypeOK
  <2>4. q = r
    BY <2>2, <2>3
  <2>5. pair'[q] = GenerateAccessToken(q)
    BY <2>2, <2>3, <2>4
  <2>6. pair'[q].user = request[q].user /\ pair'[q].role = request[q].row.role
    BY <2>5 DEF GenerateAccessToken
  <2>7. /\ request[q].user \in present
        /\ request[q].row.active = rows[request[q].user].active
        /\ request[q].row.role = rows[request[q].user].role
    BY <1>1, <2>2, <2>4 DEF Inv, AccountInv, CopyIsCurrent, Current, HasAccount
  <2>8. request[q].row.active
    BY <1>1, <2>2, <2>4 DEF Inv, AccountInv, CopyIsPrepared, Prepared
  <2> QED
    BY <2>6, <2>7, <2>8
<1> QED
  BY <1>1, AccountsCorrect, PTL DEF Spec, IssuedToActive

=============================================================================
