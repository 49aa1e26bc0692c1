------------------------------ MODULE Accounts ------------------------------
(***************************************************************************)
(* The users of mrauth: registration, login, change of address and of      *)
(* settings.  src/mrauth/usecase/auth opens the operations of signup and   *)
(* login, src/mrauth/usecase/security those of a change of address; the    *)
(* confirmed operation is turned into a user, a membership of a realm and  *)
(* a session by src/mrauth/usecase/session/session_open.go with            *)
(* src/mrauth/service/authuser, or into a new address.                     *)
(*                                                                         *)
(* A request is a sequence of steps, one per transaction or read, and any  *)
(* other request may come between two of them.  How an operation is        *)
(* confirmed is in module SecureOperation: here one that is in the table   *)
(* may have been confirmed by now.  How tokens are exchanged and how many  *)
(* sessions a user may have is in module Session: here a session is the    *)
(* settings that its next pair will carry.                                 *)
(***************************************************************************)
EXTENDS Integers, FiniteSets

CONSTANTS User,        \* user IDs a registration may generate
          Email, Phone, \* addresses
          None,        \* uuid.Nil, a phone that is NULL, what is not carried
          Realm,       \* realms of the registry
          Lang,        \* languages (with the time zone: the settings)
          Op,          \* tokens of operations, each given out once (a bound)
          Request,     \* requests served at the same time
          Idle,        \* a request that serves nothing
          MaxEvents    \* bound: faults, changes of settings and memberships
                       \* withdrawn, together

Address == Email \cup Phone
Member == User \X Realm
Name == {"create", "authorize", "email", "phone"}

(* Rows of users and of secure_operations, and sessions. *)
Profiles == [email : Email, phone : Phone \cup {None}, lang : Lang]
Operations == [name : Name, owner : User \cup {None}, realm : Realm \cup {None}, address : Address,
               lang : Lang \cup {None}]
Sessions == [user : User, realm : Realm, address : Address, lang : Lang, late : BOOLEAN, since : Nat,
             renewing : BOOLEAN]

(* What a request that opens an operation, one that serves a confirmed     *)
(* login and one that changes settings carry.                              *)
Openings == [kind : Name, step : {"owner", "open"}, realm : Realm \cup {None}, address : Address,
             owner : User \cup {None}, lang : Lang \cup {None}]
Logins == [kind : {"login"}, op : Op, owner : User \cup {None}, realm : Realm, address : Address,
           lang : Lang \cup {None}, late : BOOLEAN, since : Nat,
           step : {"lookup", "register", "bind", "prepare", "commit"}]
Changes == [kind : {"settings"}, step : {"scopes"}, owner : User, lang : Lang, seen : SUBSET Op]

ASSUME AccountsAssumption ==
  /\ None \notin User \cup Address \cup Realm \cup Lang \cup Name \cup {"gone"}
  /\ Email \cap Phone = {}
  /\ Idle \notin Openings \cup Logins \cup Changes
  /\ MaxEvents \in Nat

VARIABLES user,      \* rows of users: email, phone, language
          member,    \* rows of users_realms
          throttle,  \* locks of signup: realm and email
          op,        \* rows of secure_operations
          session,   \* per operation: the session it opened
          req,       \* per request: where it is
          owned,     \* history: who has had which address
          bound,     \* history: how often a user was bound to a realm
          welcomed,  \* history: notices of registration sent to the user
          codes,     \* history: codes of signup sent since the lock was taken
          crashed,   \* history: locks whose request was lost
          events

vars == <<user, member, throttle, op, session, req, owned, bound, welcomed, codes, crashed, events>>
history == <<owned, bound, welcomed>>

NoUser == [email |-> None]
NoOp == [name |-> None]
Gone == [name |-> "gone"]
NoSession == [user |-> None]

Exists(u) == user[u] # NoUser
Has(u, a) == Exists(u) /\ (a = user[u].email \/ a = user[u].phone)
Free(a) == \A u \in User : ~Has(u, a)
(* CheckAvailabilityRealm finds the login in the realm. *)
Registered(realm, a) == \E u \in User : Has(u, a) /\ <<u, realm>> \in member
Kind(a) == IF a \in Email THEN "email" ELSE "phone"
InTable(o) == op[o] \notin {NoOp, Gone}
IsOpen(o) == session[o] # NoSession

Opens(r) == req[r] # Idle /\ req[r].step \in {"owner", "open"}
At(r, step) == req[r] # Idle /\ req[r].step = step
Fresh(o) == op[o] = NoOp
Goes(r, step) == req' = [req EXCEPT ![r].step = step]
Ends(r) == req' = [req EXCEPT ![r] = Idle]
(* The lock a request of signup has taken. *)
Locks(r) == IF req[r] # Idle /\ req[r].kind = "create" THEN {<<req[r].realm, req[r].address>>} ELSE {}
(* An error of a request: signup gives its lock back. *)
Fails(r) == Ends(r) /\ throttle' = throttle \ Locks(r)
Event == events < MaxEvents /\ events' = events + 1

Begins(r, kind, realm, a, u, l) ==
  /\ Cardinality({q \in Request : Opens(q)}) < Cardinality({o \in Op : Fresh(o)})
  /\ req' = [req EXCEPT ![r] = [kind |-> kind, step |-> "owner", realm |-> realm, address |-> a, owner |-> u, lang |-> l]]

(***************************************************************************)
(* Opening an operation: signup, login and change of an address.  A        *)
(* request that is refused at once changes nothing.                        *)
(***************************************************************************)
(* The lock is taken, then the login must not be in the realm.             *)
Signup(r, realm, e, l) ==
  /\ req[r] = Idle /\ <<realm, e>> \notin throttle /\ ~Registered(realm, e)
  /\ throttle' = throttle \cup {<<realm, e>>}
  /\ Begins(r, "create", realm, e, None, l)
  /\ UNCHANGED <<user, member, op, session, history, codes, crashed, events>>

Signin(r, realm, a) ==
  /\ req[r] = Idle /\ Registered(realm, a)
  /\ Begins(r, "authorize", realm, a, None, None)
  /\ UNCHANGED <<user, member, throttle, op, session, history, codes, crashed, events>>

ChangeAddress(r, u, a) ==
  /\ req[r] = Idle /\ Exists(u) /\ Free(a)
  /\ Begins(r, Kind(a), None, a, u, None)
  /\ UNCHANGED <<user, member, throttle, op, session, history, codes, crashed, events>>

(* A login by phone is confirmed at the email of its owner.                *)
ConfirmedAt(u, a) == IF a \in Phone THEN user[u].email ELSE a

(* The owner is read after the check and may have changed since.           *)
FetchOwner(r) ==
  /\ At(r, "owner")
  /\ LET q == req[r] IN
     \/ /\ q.owner # None
        /\ Goes(r, "open") /\ UNCHANGED throttle
     \/ \E u \in User :
        /\ q.owner = None /\ Has(u, q.address)
        /\ req' = [req EXCEPT ![r].step = "open", ![r].owner = u,
                              ![r].address = ConfirmedAt(u, @)]
        /\ UNCHANGED throttle
     \/ /\ q.owner = None /\ Free(q.address)
        /\ IF q.kind = "create" THEN Goes(r, "open") /\ UNCHANGED throttle ELSE Fails(r)
  /\ UNCHANGED <<user, member, op, session, history, codes, crashed, events>>

(* What the operation carries in its payload.                              *)
Opened(q) == [name |-> q.kind, owner |-> q.owner, realm |-> q.realm, address |-> q.address, lang |-> q.lang]

(* DeleteByUserIDAndName; an operation without an owner replaces none.     *)
Superseded(o, q) == InTable(o) /\ q.owner # None /\ op[o].owner = q.owner /\ op[o].name = q.kind

(* Mutant of OpenOperation: the lock is given back on success, too.        *)
OpenOperationUnlocks(r, o) ==
  /\ At(r, "open") /\ Fresh(o)
  /\ op' = [p \in Op |-> IF p = o THEN Opened(req[r]) ELSE IF Superseded(p, req[r]) THEN Gone ELSE op[p]]
  /\ codes' = [k \in DOMAIN codes |-> codes[k] + IF k \in Locks(r) THEN 1 ELSE 0]
  /\ Fails(r)
  /\ UNCHANGED <<user, member, session, history, crashed, events>>

(* The owner's earlier operations of the same name are deleted; the lock   *)
(* of signup stays until it expires.                                       *)
OpenOperation(r, o) ==
  /\ At(r, "open") /\ Fresh(o)
  /\ op' = [p \in Op |-> IF p = o THEN Opened(req[r]) ELSE IF Superseded(p, req[r]) THEN Gone ELSE op[p]]
  /\ codes' = [k \in DOMAIN codes |-> codes[k] + IF k \in Locks(r) THEN 1 ELSE 0]
  /\ Ends(r)
  /\ UNCHANGED <<user, member, throttle, session, history, crashed, events>>

(* The lock of mrlock runs out: its term is that of the code, longer than  *)
(* a request.  Bound: not after the last token, when nobody asks for it.   *)
ThrottleExpires(k) ==
  /\ k \in throttle /\ \A r \in Request : k \notin Locks(r)
  /\ \E o \in Op : Fresh(o)
  /\ throttle' = throttle \ {k} /\ crashed' = crashed \ {k}
  /\ codes' = [codes EXCEPT ![k] = 0]
  /\ UNCHANGED <<user, member, op, session, req, history, events>>

(* Superseded by another, revoked or expired. *)
OperationExpires(o) ==
  /\ InTable(o)
  /\ op' = [op EXCEPT ![o] = Gone]
  /\ UNCHANGED <<user, member, throttle, session, req, history, codes, crashed, events>>

(***************************************************************************)
(* OpenSession: the confirmed operation becomes a user, a membership and a *)
(* session                                                                 *)
(***************************************************************************)
(* Bindings of the user that have been withdrawn by now.                   *)
Withdrawn(u, realm) ==
  IF u = None THEN 0
  ELSE bound[<<u, realm>>] - (IF <<u, realm>> \in member THEN 1 ELSE 0)

OpenSession(r, o) ==
  /\ req[r] = Idle
  /\ op[o].name \in {"create", "authorize"}
  /\ req' = [req EXCEPT ![r] =
       [kind |-> "login", op |-> o, owner |-> op[o].owner, realm |-> op[o].realm,
        address |-> op[o].address, lang |-> op[o].lang, late |-> FALSE,
        since |-> Withdrawn(op[o].owner, op[o].realm),
        step |-> IF op[o].name = "authorize" THEN "prepare"
                 ELSE IF op[o].owner = None THEN "lookup" ELSE "bind"]]
  /\ UNCHANGED <<user, member, throttle, op, session, history, codes, crashed, events>>

(* The email had no owner when the operation was opened; it may have one   *)
(* by now.                                                                 *)
LookUp(r) ==
  /\ At(r, "lookup")
  /\ LET a == req[r].address IN
     \/ \E u \in User : Has(u, a) /\ req' = [req EXCEPT ![r].step = "bind", ![r].owner = u]
     \/ Free(a) /\ Goes(r, "register")
  /\ UNCHANGED <<user, member, throttle, op, session, history, codes, crashed, events>>

NewUser(o) == [email |-> o.address, phone |-> None, lang |-> o.lang]

InsertUserRealm(m) == member' = member \cup {m} /\ bound' = [bound EXCEPT ![m] = @ + 1]

(* The notice of registration: its failure is only logged.                 *)
Welcome(m) ==
  \/ welcomed' = [welcomed EXCEPT ![m] = @ + 1] /\ UNCHANGED events
  \/ Event /\ UNCHANGED welcomed

(* Mutant of Register: the membership is left to the retry of the request. *)
RegisterUserOnly(r, u) ==
  /\ At(r, "register") /\ ~Exists(u)
  /\ LET o == req[r] IN
     IF Free(o.address)
     THEN /\ user' = [user EXCEPT ![u] = NewUser(o)]
          /\ owned' = owned \cup {<<u, o.address>>}
          /\ req' = [req EXCEPT ![r].step = "bind", ![r].owner = u]
          /\ UNCHANGED <<member, bound, welcomed, events>>
     ELSE Ends(r) /\ UNCHANGED <<user, member, history, events>>
  /\ UNCHANGED <<throttle, op, session, codes, crashed>>

(* Mutant of Register: no unique index refuses the email.                  *)
RegisterUnchecked(r, u) ==
  /\ At(r, "register") /\ ~Exists(u)
  /\ LET o == req[r] IN
     /\ user' = [user EXCEPT ![u] = NewUser(o)]
     /\ owned' = owned \cup {<<u, o.address>>}
     /\ InsertUserRealm(<<u, o.realm>>)
     /\ Welcome(<<u, o.realm>>)
     /\ req' = [req EXCEPT ![r].step = "prepare", ![r].owner = u]
  /\ UNCHANGED <<throttle, op, session, codes, crashed>>

(* The user and the membership in one transaction; the unique index of     *)
(* users refuses an email that has an owner by now.                        *)
Register(r, u) ==
  /\ At(r, "register") /\ ~Exists(u)
  /\ LET o == req[r] IN
     IF Free(o.address)
     THEN /\ user' = [user EXCEPT ![u] = NewUser(o)]
          /\ owned' = owned \cup {<<u, o.address>>}
          /\ InsertUserRealm(<<u, o.realm>>)
          /\ Welcome(<<u, o.realm>>)
          /\ req' = [req EXCEPT ![r].step = "prepare", ![r].owner = u]
     ELSE Ends(r) /\ UNCHANGED <<user, member, history, events>>
  /\ UNCHANGED <<throttle, op, session, codes, crashed>>

(* An existing user is bound to the realm of the operation, once.          *)
Bind(r) ==
  /\ At(r, "bind") /\ Goes(r, "prepare")
  /\ LET m == <<req[r].owner, req[r].realm>> IN
     IF m \in member THEN UNCHANGED <<member, bound, welcomed, events>>
     ELSE InsertUserRealm(m) /\ Welcome(m)
  /\ UNCHANGED <<user, owned, throttle, op, session, codes, crashed>>

(* Mutant of PrepareAuthorization: the membership is not asked for.        *)
PrepareAuthorizationAnyRealm(r) ==
  /\ At(r, "prepare")
  /\ IF Exists(req[r].owner)
     THEN req' = [req EXCEPT ![r].step = "commit", ![r].lang = user[req[r].owner].lang]
     ELSE Ends(r)
  /\ UNCHANGED <<user, member, throttle, op, session, history, codes, crashed, events>>

(* The profile and the membership are read before the transaction.         *)
PrepareAuthorization(r) ==
  /\ At(r, "prepare")
  /\ IF Exists(req[r].owner) /\ <<req[r].owner, req[r].realm>> \in member
     THEN req' = [req EXCEPT ![r].step = "commit", ![r].lang = user[req[r].owner].lang]
     ELSE Ends(r)
  /\ UNCHANGED <<user, member, throttle, op, session, history, codes, crashed, events>>

(* One transaction: the session and its tokens, and the operation deleted  *)
(* last; if it is in the table no more, everything is rolled back.         *)
CommitSession(r) ==
  /\ At(r, "commit") /\ Ends(r)
  /\ LET q == req[r] IN
     IF InTable(q.op)
     THEN /\ op' = [op EXCEPT ![q.op] = Gone]
          /\ session' = [session EXCEPT ![q.op] =
               [user |-> q.owner, realm |-> q.realm, address |-> q.address, since |-> q.since,
                lang |-> q.lang, late |-> q.late, renewing |-> FALSE]]
     ELSE UNCHANGED <<op, session>>
  /\ UNCHANGED <<user, member, throttle, history, codes, crashed, events>>

(***************************************************************************)
(* A confirmed change of address, applied in one transaction; when the     *)
(* unique index refuses it, the operation stays                            *)
(***************************************************************************)
UpdateAddress(u, a) == IF a \in Email THEN [user EXCEPT ![u].email = a] ELSE [user EXCEPT ![u].phone = a]

ApplyAddress(o) ==
  /\ op[o].name \in {"email", "phone"}
  /\ LET u == op[o].owner
         a == op[o].address
     IN /\ Free(a) \/ Has(u, a)
        /\ user' = UpdateAddress(u, a)
        /\ owned' = owned \cup {<<u, a>>}
  /\ op' = [op EXCEPT ![o] = Gone]
  /\ UNCHANGED <<member, throttle, session, req, bound, welcomed, codes, crashed, events>>

(***************************************************************************)
(* Settings of the profile and the scopes of the sessions                  *)
(***************************************************************************)
(* The transaction of ChangeSettings holds the row of the user from its    *)
(* first statement; its second sees the tokens committed by then.          *)
ChangeSettings(r, u, l) ==
  /\ req[r] = Idle /\ Exists(u) /\ user[u].lang # l /\ Event
  /\ \A p \in Request : At(p, "scopes") => req[p].owner # u
  /\ req' = [req EXCEPT ![r] = [kind |-> "settings", step |-> "scopes", owner |-> u, lang |-> l,
                                seen |-> {o \in Op : IsOpen(o) /\ session[o].user = u}]]
  /\ UNCHANGED <<user, member, throttle, op, session, history, codes, crashed>>

(* The sessions this change misses: renewed or opened since its statement  *)
(* began.                                                                  *)
Missed(r, o) == IsOpen(o) /\ session[o].user = req[r].owner /\ o \notin req[r].seen

(* Logins of the user that have read the profile.                          *)
LoginsOf(u) == {q \in Request : At(q, "commit") /\ req[q].owner = u}

(* Mutant of CommitSettings: only the profile is written.                  *)
CommitSettingsProfileOnly(r) ==
  /\ At(r, "scopes") /\ \A o \in req[r].seen : ~session[o].renewing
  /\ LET u == req[r].owner IN
     /\ user' = [user EXCEPT ![u].lang = req[r].lang]
     /\ session' = [o \in Op |-> IF Missed(r, o) THEN [session[o] EXCEPT !.late = TRUE] ELSE session[o]]
     /\ req' = [q \in Request |-> IF q = r THEN Idle
                                  ELSE IF q \in LoginsOf(u) THEN [req[q] EXCEPT !.late = TRUE] ELSE req[q]]
  /\ UNCHANGED <<member, throttle, op, history, codes, crashed, events>>

(* The statement waits for the rows a renewal holds, and commits.          *)
CommitSettings(r) ==
  /\ At(r, "scopes") /\ \A o \in req[r].seen : ~session[o].renewing
  /\ LET u == req[r].owner IN
     /\ user' = [user EXCEPT ![u].lang = req[r].lang]
     /\ session' = [o \in Op |-> IF o \in req[r].seen THEN [session[o] EXCEPT !.lang = req[r].lang, !.late = FALSE]
                                 ELSE IF Missed(r, o) THEN [session[o] EXCEPT !.late = TRUE] ELSE session[o]]
     /\ req' = [q \in Request |-> IF q = r THEN Idle
                                  ELSE IF q \in LoginsOf(u) THEN [req[q] EXCEPT !.late = TRUE] ELSE req[q]]
  /\ UNCHANGED <<member, throttle, op, history, codes, crashed, events>>

(* A renewal revokes the refresh token; its scopes go to the next pair,    *)
(* which a statement begun before does not see.  Bound: no renewal begins  *)
(* when there is no change of settings to come.                            *)
RenewBegin(o) ==
  /\ IsOpen(o) /\ ~session[o].renewing
  /\ events < MaxEvents \/ \E r \in Request : At(r, "scopes")
  /\ session' = [session EXCEPT ![o].renewing = TRUE]
  /\ UNCHANGED <<user, member, throttle, op, req, history, codes, crashed, events>>

RenewCommit(o) ==
  /\ IsOpen(o) /\ session[o].renewing
  /\ session' = [session EXCEPT ![o].renewing = FALSE]
  /\ req' = [r \in Request |-> IF At(r, "scopes") THEN [req[r] EXCEPT !.seen = @ \ {o}] ELSE req[r]]
  /\ UNCHANGED <<user, member, throttle, op, history, codes, crashed, events>>

RenewRollback(o) ==
  /\ IsOpen(o) /\ session[o].renewing
  /\ session' = [session EXCEPT ![o].renewing = FALSE]
  /\ UNCHANGED <<user, member, throttle, op, req, history, codes, crashed, events>>

(* UserRealmPostgres.Delete: the administrator withdraws a membership.     *)
Withdraw(m) ==
  /\ m \in member /\ Event
  /\ member' = member \ {m}
  /\ UNCHANGED <<user, throttle, op, session, req, history, codes, crashed>>

(***************************************************************************)
(* Faults: a statement fails, or the process is lost with the request      *)
(***************************************************************************)
RequestFails(r) ==
  /\ req[r] # Idle /\ Event /\ Fails(r)
  /\ UNCHANGED <<user, member, op, session, history, codes, crashed>>

RequestLost(r) ==
  /\ req[r] # Idle /\ Event /\ Ends(r)
  /\ crashed' = crashed \cup Locks(r)
  /\ UNCHANGED <<user, member, throttle, op, session, history, codes>>

(* No users yet, or one that is registered in a realm.                     *)
Init ==
  /\ op = [o \in Op |-> NoOp] /\ session = [o \in Op |-> NoSession]
  /\ req = [r \in Request |-> Idle]
  /\ throttle = {} /\ crashed = {} /\ events = 0
  /\ codes = [k \in Realm \X Email |-> 0]
  /\ \/ /\ user = [u \in User |-> NoUser] /\ member = {} /\ owned = {}
     \/ \E u \in User, e \in Email, realm \in Realm, l \in Lang :
        /\ user = [v \in User |-> IF v = u THEN [email |-> e, phone |-> None, lang |-> l] ELSE NoUser]
        /\ member = {<<u, realm>>} /\ owned = {<<u, e>>}
  /\ bound = [m \in Member |-> IF m \in member THEN 1 ELSE 0] /\ welcomed = bound

Next ==
  \/ \E r \in Request, realm \in Realm, e \in Email, l \in Lang : Signup(r, realm, e, l)
  \/ \E r \in Request, realm \in Realm, a \in Address : Signin(r, realm, a)
  \/ \E r \in Request, u \in User, a \in Address : ChangeAddress(r, u, a)
  \/ \E r \in Request : \/ FetchOwner(r)
                        \/ LookUp(r)
                        \/ Bind(r)
                        \/ PrepareAuthorization(r)
                        \/ CommitSession(r)
                        \/ CommitSettings(r)
                        \/ RequestFails(r)
                        \/ RequestLost(r)
  \/ \E r \in Request, o \in Op : OpenOperation(r, o) \/ OpenSession(r, o)
  \/ \E r \in Request, u \in User : Register(r, u) \/ \E l \in Lang : ChangeSettings(r, u, l)
  \/ \E o \in Op : \/ OperationExpires(o)
                   \/ ApplyAddress(o)
                   \/ RenewBegin(o)
                   \/ RenewCommit(o)
                   \/ RenewRollback(o)
  \/ \E k \in Realm \X Email : ThrottleExpires(k)
  \/ \E m \in Member : Withdraw(m)

Spec == Init /\ [][Next]_vars

(***************************************************************************)
(* Properties                                                              *)
(***************************************************************************)
(* Types; only existing users are members, and addresses are unique.       *)
TypeOK ==
  /\ user \in [User -> {NoUser} \cup Profiles]
  /\ member \subseteq {m \in Member : Exists(m[1])}
  /\ \A u, v \in User, a \in Address : Has(u, a) /\ Has(v, a) => u = v
  /\ throttle \subseteq Realm \X Email /\ crashed \subseteq throttle
  /\ op \in [Op -> {NoOp, Gone} \cup Operations]
  /\ session \in [Op -> {NoSession} \cup Sessions]
  /\ req \in [Request -> {Idle} \cup Openings \cup Logins \cup Changes]
  /\ owned \subseteq User \X Address
  /\ bound \in [Member -> Nat] /\ welcomed \in [Member -> Nat]
  /\ codes \in [Realm \X Email -> Nat]
  /\ events \in 0 .. MaxEvents

(* authuser.ResolveUser, "registers the user with the realm in one         *)
(* transaction", and the retries it is made for: whatever fails, every     *)
(* user there is has been bound to a realm, and a binding is announced to  *)
(* its user at most once, however often the operation is retried and       *)
(* however many operations of the same email run side by side.             *)
RegisteredWhole ==
  /\ \A u \in User : Exists(u) => \E realm \in Realm : bound[<<u, realm>>] > 0
  /\ \A m \in Member : welcomed[m] <= bound[m]

(* OpenSession.Execute over AuthFlow and a check, an owner and a profile   *)
(* read at four different times: a session belongs to an existing user who *)
(* has had the address the operation was confirmed at, and whose           *)
(* membership of its realm was not withdrawn before the request began.     *)
SessionOfAddressee ==
  \A o \in Op : IsOpen(o) =>
    /\ Exists(session[o].user)
    /\ <<session[o].user, session[o].address>> \in owned
    /\ bound[<<session[o].user, session[o].realm>>] > session[o].since

(* CreateUser.Execute, the lock as a throttle: between two locks of an     *)
(* email in a realm at most one code is sent, and a lock that stays means  *)
(* that a code was sent, that signup is at work, or that its process was   *)
(* lost: an error gives the lock back.                                     *)
OneCodePerLock ==
  \A k \in Realm \X Email :
    /\ codes[k] <= 1
    /\ k \in throttle => codes[k] = 1 \/ k \in crashed \/ \E r \in Request : k \in Locks(r)

(* ChangeSettings.Execute, "the profile must not diverge from the scopes   *)
(* of the tokens": a session has the settings of the profile, unless its   *)
(* renewal or its opening was under way when they last changed.            *)
ScopesFollowProfile ==
  \A o \in Op : IsOpen(o) /\ ~session[o].late => session[o].lang = user[session[o].user].lang
=============================================================================
