--------------------------- MODULE AccountsProofs ---------------------------
(***************************************************************************)
(* Proofs about the users of mrauth: registration, login, change of        *)
(* address and of settings, for any number of users, addresses, realms,    *)
(* operations and requests.                                                *)
(*                                                                         *)
(* Between two steps of a request anything may happen.  Inv says what      *)
(* still holds then of what the request has read: about users (UsersOK),   *)
(* operations (OpsOK), requests (RequestsOK), sessions (SessionsOK) and    *)
(* the locks of signup (LocksOK).                                          *)
(***************************************************************************)
EXTENDS Accounts, TLAPS

\* What an operation carries: its realm, and an owner who has had its address.
Whole(p) ==
  /\ p.name \in {"create", "authorize"} => p.realm \in Realm
  /\ p.name = "create" => p.address \in Email /\ p.lang \in Lang
  /\ p.name # "create" => p.owner \in User
  /\ p.owner \in User => Exists(p.owner)
  /\ p.owner \in User /\ p.name \in {"create", "authorize"} => <<p.owner, p.address>> \in owned

\* What a request that opens an operation has read.
OpeningFits(q) ==
  /\ q.step = "open" => Whole(Opened(q))
  /\ q.step = "owner" =>
       IF q.kind \in {"create", "authorize"}
       THEN /\ q.realm \in Realm /\ q.owner = None
            /\ q.kind = "create" => q.address \in Email /\ q.lang \in Lang
       ELSE q.owner \in User /\ Exists(q.owner)

\* What a login has read: bindings of its owner are only added to those withdrawn.
LoginFits(q) ==
  /\ q.step \in {"lookup", "register"} =>
       q.owner = None /\ q.address \in Email /\ q.lang \in Lang /\ q.since = 0
  /\ q.step \in {"bind", "prepare", "commit"} =>
       /\ q.owner \in User /\ Exists(q.owner)
       /\ <<q.owner, q.address>> \in owned
       /\ q.since <= Withdrawn(q.owner, q.realm)
  /\ q.step = "commit" =>
       /\ q.lang \in Lang
       /\ q.since < bound[<<q.owner, q.realm>>]
       /\ ~q.late => q.lang = user[q.owner].lang

\* What a change of settings has read: the sessions it sees are the user's.
ChangeFits(q) ==
  /\ Exists(q.owner)
  /\ \A o \in q.seen : IsOpen(o) /\ session[o].user = q.owner

Fits(q) ==
  /\ q \in Openings => OpeningFits(q)
  /\ q \in Logins => LoginFits(q)
  /\ q \in Changes => ChangeFits(q)

UsersOK ==
  /\ \A u \in User, a \in Address : Has(u, a) => <<u, a>> \in owned
  /\ \A m \in member : bound[m] > 0
  /\ RegisteredWhole

OpOK(o) == InTable(o) => Whole(op[o])
OpsOK == \A o \in Op : OpOK(o)

RequestOK(r) == Fits(req[r])
RequestsOK == \A r \in Request : RequestOK(r)

\* The operation of an open session is deleted, and its user was bound to the realm.
SessionOK(o) == IsOpen(o) =>
  /\ op[o] = Gone
  /\ Exists(session[o].user)
  /\ <<session[o].user, session[o].address>> \in owned
  /\ bound[<<session[o].user, session[o].realm>>] > session[o].since
SessionsOK == \A o \in Op : SessionOK(o)

LocksOK ==
  /\ \A r \in Request : Locks(r) \subseteq throttle \ crashed
  /\ \A q, r \in Request : q # r => Locks(q) \cap Locks(r) = {}
  /\ \A k \in Realm \X Email : k \notin throttle => codes[k] = 0
  /\ \A r \in Request : \A k \in Locks(r) : codes[k] = 0
  /\ OneCodePerLock

Inv == TypeOK /\ UsersOK /\ OpsOK /\ RequestsOK /\ SessionsOK /\ ScopesFollowProfile /\ LocksOK

----------------------------------------------------------------------------
(* Facts about rows and requests *)

Works == Openings \cup Logins \cup Changes

\* The step of a request tells what it carries, and only signup holds a lock.
LEMMA RequestFacts ==
  ASSUME TypeOK, NEW r \in Request
  PROVE  /\ req[r] \in {Idle} \cup Works
         /\ \A s \in {"owner", "open"} : At(r, s) => req[r] \in Openings
         /\ \A s \in {"lookup", "register", "bind", "prepare", "commit"} : At(r, s) => req[r] \in Logins
         /\ At(r, "scopes") => req[r] \in Changes
         /\ Locks(r) # {} => req[r] \in Openings /\ req[r].kind = "create"
<1>1. req[r] \in {Idle} \cup Works
  BY DEF TypeOK, Works
<1>2. \A q \in Openings : q.kind \in Name /\ q.step \in {"owner", "open"}
  BY DEF Openings
<1>3. \A q \in Logins : q.kind = "login" /\ q.step \in {"lookup", "register", "bind", "prepare", "commit"}
  BY DEF Logins
<1>4. \A q \in Changes : q.kind = "settings" /\ q.step = "scopes"
  BY DEF Changes
<1> QED
  BY <1>1, <1>2, <1>3, <1>4 DEF At, Locks, Works, Name

\* Only one of the three kinds of request has a given step.
LEMMA KindsDiffer ==
  /\ \A q \in Openings : q \notin Logins /\ q \notin Changes /\ q # Idle
  /\ \A q \in Logins : q \notin Openings /\ q \notin Changes /\ q # Idle
  /\ \A q \in Changes : q \notin Openings /\ q \notin Logins /\ q # Idle
  /\ Idle \notin Openings /\ Idle \notin Logins /\ Idle \notin Changes
<1>1. \A q \in Openings : q.step \in {"owner", "open"}
  BY DEF Openings
<1>2. \A q \in Logins : q.step \in {"lookup", "register", "bind", "prepare", "commit"}
  BY DEF Logins
<1>3. \A q \in Changes : q.step = "scopes"
  BY DEF Changes
<1> QED
  BY <1>1, <1>2, <1>3, AccountsAssumption

\* The fields of rows that are there.
LEMMA RowFacts ==
  ASSUME TypeOK
  PROVE  /\ \A u \in User : Exists(u) => user[u] \in Profiles
         /\ \A o \in Op : InTable(o) => op[o] \in Operations
         /\ \A o \in Op : op[o].name \in Name => InTable(o)
         /\ \A o \in Op : IsOpen(o) => session[o] \in Sessions
<1>1. \A u \in User : Exists(u) => user[u] \in Profiles
  BY DEF TypeOK, Exists
<1>2. \A o \in Op : InTable(o) => op[o] \in Operations
  BY DEF TypeOK, InTable
<1>3. \A o \in Op : op[o].name \in Name => InTable(o)
  BY AccountsAssumption DEF InTable, NoOp, Gone, Name
<1>4. \A o \in Op : IsOpen(o) => session[o] \in Sessions
  BY DEF TypeOK, IsOpen
<1> QED
  BY <1>1, <1>2, <1>3, <1>4

\* Rows and records that are written are not the marks of a missing row.
LEMMA RecordsExist ==
  /\ \A x \in Profiles : x # NoUser
  /\ \A x \in Sessions : x # NoSession
  /\ NoOp # Gone
<1>1. \A x \in Profiles : x.email # None
  BY AccountsAssumption DEF Address, Profiles
<1>2. \A x \in Sessions : x.user # None
  BY AccountsAssumption DEF Sessions
<1>3. NoUser.email = None /\ NoSession.user = None
  BY DEF NoUser, NoSession
<1>4. NoOp # Gone
  <2>1. NoOp.name = None /\ Gone.name = "gone" /\ None # "gone"
    BY AccountsAssumption DEF NoOp, Gone
  <2> QED
    BY <2>1
<1> QED
  BY <1>1, <1>2, <1>3, <1>4

----------------------------------------------------------------------------
(* What every step keeps *)

\* Users, addresses that were had, bindings and sessions are only added to.
Grows ==
  /\ \A u \in User : Exists(u) => Exists(u)'
  /\ owned \subseteq owned'
  /\ \A m \in Member : bound[m] <= bound'[m]
  /\ \A u \in User, realm \in Realm : Withdrawn(u, realm) <= Withdrawn(u, realm)'
  /\ \A o \in Op : IsOpen(o) => IsOpen(o)' /\ session'[o].user = session[o].user

\* Only a change of settings disturbs what a login has read of the profile.
KeepsLang == \A u \in User : Exists(u) => user'[u].lang = user[u].lang

\* Memberships withdrawn are counted by integers.
LEMMA WithdrawnType ==
  /\ TypeOK => \A u \in User, realm \in Realm : Withdrawn(u, realm) \in Int
  /\ TypeOK' => \A u \in User, realm \in Realm : Withdrawn(u, realm)' \in Int
<1>1. TypeOK => bound \in [Member -> Nat]
  BY DEF TypeOK
<1>2. TypeOK' => bound' \in [Member -> Nat]
  BY DEF TypeOK
<1> QED
  BY <1>1, <1>2 DEF Withdrawn, Member

\* A step that writes no table only grows.
LEMMA SameGrows ==
  ASSUME TypeOK, UNCHANGED <<user, member, session, history>>
  PROVE  Grows /\ KeepsLang
<1>1. \A m \in Member : bound[m] \in Nat
  BY DEF TypeOK
<1>2. \A u \in User, realm \in Realm : Withdrawn(u, realm) \in Int
  BY <1>1 DEF Withdrawn, Member
<1>3. \A u \in User, realm \in Realm : Withdrawn(u, realm)' = Withdrawn(u, realm)
  BY DEF Withdrawn, history
<1> QED
  BY <1>1, <1>2, <1>3 DEF Grows, KeepsLang, Exists, IsOpen, history

\* An operation keeps what it carries while the tables grow.
LEMMA OperationKept ==
  ASSUME Grows, NEW o \in Op, OpOK(o), op'[o] = op[o]
  PROVE  OpOK(o)'
  BY DEF OpOK, Grows, InTable, Whole

\* What a request has read stays true while the tables grow.
LEMMA OpeningKept ==
  ASSUME Grows, NEW q \in Openings, OpeningFits(q)
  PROVE  OpeningFits(q)'
<1>1. Whole(Opened(q)) => Whole(Opened(q))'
  BY DEF Whole, Grows, Opened
<1>2. q.owner \in User /\ Exists(q.owner) => Exists(q.owner)'
  BY DEF Grows
<1> QED
  BY <1>1, <1>2 DEF OpeningFits

\* So does what a login has read, but for the settings of the profile.
LEMMA LoginKept ==
  ASSUME TypeOK, TypeOK', Grows, NEW q \in Logins, LoginFits(q),
         q.step = "commit" => user'[q.owner].lang = user[q.owner].lang
  PROVE  LoginFits(q)'
<1>1. q.realm \in Realm /\ q.since \in Nat
  BY DEF Logins
<1>2. CASE q.step \in {"lookup", "register"}
  BY <1>2 DEF LoginFits
<1>3. CASE q.step \in {"bind", "prepare", "commit"}
  <2>1. q.owner \in User /\ Exists(q.owner) /\ <<q.owner, q.address>> \in owned /\ q.since <= Withdrawn(q.owner, q.realm)
    BY <1>3 DEF LoginFits
  <2>2. Exists(q.owner)' /\ <<q.owner, q.address>> \in owned'
    BY <2>1 DEF Grows
  <2>3. Withdrawn(q.owner, q.realm) <= Withdrawn(q.owner, q.realm)'
    BY <2>1, <1>1 DEF Grows
  <2>4. <<q.owner, q.realm>> \in Member
    BY <2>1, <1>1 DEF Member
  <2>5. bound[<<q.owner, q.realm>>] <= bound'[<<q.owner, q.realm>>]
    BY <2>4 DEF Grows
  <2>6. /\ Withdrawn(q.owner, q.realm) \in Int /\ Withdrawn(q.owner, q.realm)' \in Int
        /\ bound[<<q.owner, q.realm>>] \in Nat /\ bound'[<<q.owner, q.realm>>] \in Nat
    BY <2>1, <2>4, <1>1, WithdrawnType DEF TypeOK
  <2>7. q.since <= Withdrawn(q.owner, q.realm)'
    BY <2>1, <2>3, <2>6, <1>1
  <2>8. q.step = "commit" => q.since < bound'[<<q.owner, q.realm>>]
    BY <2>5, <2>6, <1>1 DEF LoginFits
  <2> QED
    BY <2>1, <2>2, <2>7, <2>8, <1>3 DEF LoginFits
<1> QED
  BY <1>2, <1>3 DEF Logins

\* So does what a change of settings has read.
LEMMA ChangeKept ==
  ASSUME Grows, NEW q \in Changes, ChangeFits(q)
  PROVE  ChangeFits(q)'
<1>1. q.owner \in User /\ q.seen \subseteq Op
  BY DEF Changes
<1> QED
  BY <1>1 DEF ChangeFits, Grows

\* A request that does nothing keeps what it has read.
LEMMA RequestKept ==
  ASSUME TypeOK, TypeOK', Grows, NEW r \in Request, RequestOK(r), req'[r] = req[r],
         At(r, "commit") => user'[req[r].owner].lang = user[req[r].owner].lang
  PROVE  RequestOK(r)'
<1>1. PICK q : q = req[r]
  OBVIOUS
<1>2. Fits(q)
  BY <1>1 DEF RequestOK
<1>3. q \in Openings => OpeningFits(q)'
  BY <1>2, OpeningKept DEF Fits
<1>4. q \in Logins => LoginFits(q)'
  <2>1. q \in Logins /\ q.step = "commit" => At(r, "commit")
    BY <1>1, KindsDiffer DEF At
  <2> QED
    BY <1>1, <1>2, <2>1, LoginKept DEF Fits
<1>5. q \in Changes => ChangeFits(q)'
  BY <1>2, ChangeKept DEF Fits
<1>6. Fits(q)'
  BY <1>3, <1>4, <1>5 DEF Fits
<1> QED
  BY <1>1, <1>6 DEF RequestOK, Fits, OpeningFits, LoginFits, ChangeFits, Whole, Opened

\* A request that ends has nothing to keep.
LEMMA RequestEnds ==
  ASSUME NEW r \in Request, req'[r] = Idle
  PROVE  RequestOK(r)'
  BY KindsDiffer DEF RequestOK, Fits

\* So one request at a time is looked at.
LEMMA RequestsKept ==
  ASSUME TypeOK, TypeOK', RequestsOK, Grows, KeepsLang, NEW r \in Request,
         \A q \in Request \ {r} : req'[q] = req[q], RequestOK(r)'
  PROVE  RequestsOK'
<1>1. ASSUME NEW q \in Request \ {r} PROVE RequestOK(q)'
  <2>1. req'[q] = req[q]
    OBVIOUS
  <2>2. At(q, "commit") => req[q].owner \in User /\ Exists(req[q].owner)
    BY RequestFacts DEF RequestsOK, RequestOK, Fits, LoginFits, At
  <2>3. At(q, "commit") => user'[req[q].owner].lang = user[req[q].owner].lang
    BY <2>2 DEF KeepsLang
  <2>4. RequestOK(q)
    BY DEF RequestsOK
  <2> QED
    BY <2>1, <2>3, <2>4, RequestKept
<1> QED
  BY <1>1 DEF RequestsOK

\* A session that is not opened or moved keeps its user and its binding.
LEMMA SessionKept ==
  ASSUME TypeOK, TypeOK', Grows, NEW o \in Op, SessionOK(o),
         op[o] = Gone => op'[o] = Gone,
         IsOpen(o)' => /\ IsOpen(o)
                       /\ session'[o].user = session[o].user /\ session'[o].realm = session[o].realm
                       /\ session'[o].address = session[o].address /\ session'[o].since = session[o].since
  PROVE  SessionOK(o)'
<1> SUFFICES ASSUME IsOpen(o)' PROVE SessionOK(o)'
  BY DEF SessionOK
<1> DEFINE u == session[o].user
           m == <<session[o].user, session[o].realm>>
<1>1. u \in User /\ m \in Member /\ session[o].since \in Nat
  BY RowFacts DEF Member, Sessions
<1>2. Exists(u) /\ <<u, session[o].address>> \in owned /\ bound[m] > session[o].since /\ op[o] = Gone
  BY DEF SessionOK
<1>3. Exists(u)' /\ <<u, session[o].address>> \in owned' /\ bound[m] <= bound'[m]
  <2>1. \A v \in User : Exists(v) => user'[v] # NoUser
    BY DEF Grows, Exists
  <2> QED
    BY <1>1, <1>2, <2>1 DEF Grows, Exists
<1>4. bound[m] \in Nat /\ bound'[m] \in Nat
  BY <1>1 DEF TypeOK
<1>5. bound'[m] > session[o].since
  <2> HIDE DEF m
  <2> QED BY <1>1, <1>2, <1>3, <1>4
<1> QED
  BY <1>2, <1>3, <1>5 DEF SessionOK, Exists

\* Locks that nobody takes, gives back or uses are as they were.
LEMMA LocksKept ==
  ASSUME LocksOK, UNCHANGED <<throttle, codes, crashed>>, \A r \in Request : Locks(r)' = Locks(r)
  PROVE  LocksOK'
  BY DEF LocksOK, OneCodePerLock

\* Types of a step that leaves the users alone.
LEMMA TypeKept ==
  ASSUME TypeOK, UNCHANGED <<user, member, history>>,
         throttle' \subseteq Realm \X Email, crashed' \subseteq throttle',
         codes' \in [Realm \X Email -> Nat],
         op' \in [Op -> {NoOp, Gone} \cup Operations],
         session' \in [Op -> {NoSession} \cup Sessions],
         req' \in [Request -> {Idle} \cup Works],
         events' \in 0 .. MaxEvents
  PROVE  TypeOK'
<1>1. user' = user /\ member' = member /\ owned' = owned /\ bound' = bound /\ welcomed' = welcomed
  BY DEF history
<1>2. user' \in [User -> {NoUser} \cup Profiles]
  BY <1>1 DEF TypeOK
<1>3. member' \subseteq {m \in Member : Exists(m[1])'}
  BY <1>1 DEF TypeOK, Exists
<1>4. \A u, v \in User, a \in Address : Has(u, a)' /\ Has(v, a)' => u = v
  <2>1. \A u \in User, a \in Address : Has(u, a)' <=> Has(u, a)
    BY <1>1 DEF Has, Exists
  <2> QED
    BY <2>1 DEF TypeOK
<1>5. owned' \subseteq User \X Address /\ bound' \in [Member -> Nat] /\ welcomed' \in [Member -> Nat]
  BY <1>1 DEF TypeOK
<1>6. req' \in [Request -> {Idle} \cup Openings \cup Logins \cup Changes]
  BY DEF Works
<1> QED
  BY <1>2, <1>3, <1>4, <1>5, <1>6 DEF TypeOK

\* Types of a step that changes one request, and perhaps a lock.
LEMMA TypeOfRequest ==
  ASSUME TypeOK, UNCHANGED <<user, member, op, session, history>>,
         throttle' \subseteq Realm \X Email, crashed' \subseteq throttle', codes' = codes,
         NEW r \in Request, NEW x \in {Idle} \cup Works, req' = [req EXCEPT ![r] = x],
         events' \in 0 .. MaxEvents
  PROVE  TypeOK' /\ req'[r] = x /\ \A q \in Request \ {r} : req'[q] = req[q]
<1>1. req' \in [Request -> {Idle} \cup Works] /\ req'[r] = x /\ \A q \in Request \ {r} : req'[q] = req[q]
  BY DEF TypeOK, Works
<1>2. /\ op' \in [Op -> {NoOp, Gone} \cup Operations]
      /\ session' \in [Op -> {NoSession} \cup Sessions]
      /\ codes' \in [Realm \X Email -> Nat]
  BY DEF TypeOK
<1> QED
  BY <1>1, <1>2, TypeKept

\* What users have had and where they are bound does not change with other tables.
LEMMA UsersKept ==
  ASSUME UsersOK, UNCHANGED <<user, member, history>>
  PROVE  UsersOK'
<1>1. user' = user /\ member' = member /\ owned' = owned /\ bound' = bound /\ welcomed' = welcomed
  BY DEF history
<1> QED
  BY <1>1 DEF UsersOK, RegisteredWhole, Has, Exists

\* A request that writes no table disturbs only what it has read itself.
LEMMA OwnStep ==
  ASSUME Inv, TypeOK', UNCHANGED <<user, member, op, session, history>>, NEW r \in Request,
         \A q \in Request \ {r} : req'[q] = req[q], RequestOK(r)'
  PROVE  UsersOK' /\ OpsOK' /\ RequestsOK' /\ SessionsOK' /\ ScopesFollowProfile'
<1>1. Grows /\ KeepsLang
  BY SameGrows DEF Inv
<1>2. UsersOK'
  BY UsersKept DEF Inv
<1>3. OpsOK'
  <2>1. \A o \in Op : OpOK(o) /\ op'[o] = op[o]
    BY DEF Inv, OpsOK
  <2>2. \A o \in Op : OpOK(o)'
    BY <2>1, <1>1, OperationKept
  <2> QED
    BY <2>2 DEF OpsOK
<1>4. RequestsOK'
  BY <1>1, RequestsKept DEF Inv
<1>5. SessionsOK'
  <2>1. ASSUME NEW o \in Op PROVE SessionOK(o)'
    <3>1. SessionOK(o)
      BY DEF Inv, SessionsOK
    <3> QED
      BY <1>1, <3>1, SessionKept DEF Inv, IsOpen
  <2> QED
    BY <2>1 DEF SessionsOK
<1>6. ScopesFollowProfile'
  BY DEF Inv, ScopesFollowProfile, IsOpen
<1> QED
  BY <1>2, <1>3, <1>4, <1>5, <1>6

\* Locks of a step that changes one request but not what it holds.
LEMMA SameLock ==
  ASSUME LocksOK, UNCHANGED <<throttle, codes, crashed>>, NEW r \in Request, Locks(r)' = Locks(r),
         \A q \in Request \ {r} : req'[q] = req[q]
  PROVE  LocksOK'
<1>1. \A q \in Request \ {r} : Locks(q)' = Locks(q)
  BY DEF Locks
<1> QED
  BY <1>1, LocksKept

\* A request of another kind than signup holds no lock.
LEMMA NoLock ==
  ASSUME NEW r \in Request
  PROVE  /\ req[r] \in {Idle} \cup Logins \cup Changes => Locks(r) = {}
         /\ req'[r] \in {Idle} \cup Logins \cup Changes => Locks(r)' = {}
  BY DEF Locks, Logins, Changes

----------------------------------------------------------------------------
(* Opening an operation *)

\* A request begins with what the opener of its operation was given.
LEMMA BeginsFacts ==
  ASSUME TypeOK, NEW r \in Request, NEW kind \in Name, NEW realm \in Realm \cup {None}, NEW a \in Address,
         NEW u \in User \cup {None}, NEW l \in Lang \cup {None}, Begins(r, kind, realm, a, u, l),
         IF kind \in {"create", "authorize"}
         THEN realm \in Realm /\ u = None /\ (kind = "create" => a \in Email /\ l \in Lang)
         ELSE u \in User /\ Exists(u)',
         UNCHANGED <<user, member, op, session, history, codes, crashed, events>>,
         throttle' \subseteq Realm \X Email, crashed' \subseteq throttle'
  PROVE  /\ TypeOK' /\ RequestOK(r)'
         /\ \A q \in Request \ {r} : req'[q] = req[q]
         /\ req'[r] # Idle /\ req'[r].kind = kind /\ req'[r].realm = realm /\ req'[r].address = a
<1> DEFINE x == [kind |-> kind, step |-> "owner", realm |-> realm, address |-> a, owner |-> u, lang |-> l]
<1>1. x \in Openings
  BY DEF Openings
<1>2. req' = [req EXCEPT ![r] = x]
  BY DEF Begins
<1>3. events' \in 0 .. MaxEvents /\ codes' = codes
  BY DEF TypeOK
<1>4. TypeOK' /\ req'[r] = x /\ \A q \in Request \ {r} : req'[q] = req[q]
  <2> HIDE DEF x
  <2>1. x \in {Idle} \cup Works
    BY <1>1 DEF Works
  <2> QED
    BY <1>2, <1>3, <2>1, TypeOfRequest
<1>5. x # Idle /\ x \notin Logins /\ x \notin Changes
  <2> HIDE DEF x
  <2> QED
    BY <1>1, KindsDiffer
<1>6. OpeningFits(x)'
  BY DEF OpeningFits, Exists
<1>7. RequestOK(r)'
  BY <1>4, <1>5, <1>6 DEF RequestOK, Fits, OpeningFits
<1> QED
  BY <1>4, <1>5, <1>7

\* Signup takes a lock that nobody holds.
LEMMA SignupStep ==
  ASSUME Inv, NEW r \in Request, NEW realm \in Realm, NEW e \in Email, NEW l \in Lang, Signup(r, realm, e, l)
  PROVE  Inv'
<1>1. <<realm, e>> \in Realm \X Email /\ <<realm, e>> \notin throttle
  BY DEF Signup
<1>2. throttle' = throttle \cup {<<realm, e>>} /\ codes' = codes /\ crashed' = crashed
  BY DEF Signup
<1>3. throttle' \subseteq Realm \X Email /\ crashed' \subseteq throttle'
  BY <1>1, <1>2 DEF Inv, TypeOK
<1>4. /\ TypeOK' /\ RequestOK(r)'
      /\ \A q \in Request \ {r} : req'[q] = req[q]
      /\ req'[r] # Idle /\ req'[r].kind = "create" /\ req'[r].realm = realm /\ req'[r].address = e
  BY <1>3, BeginsFacts DEF Inv, Signup, Name, Address
<1>5. UsersOK' /\ OpsOK' /\ RequestsOK' /\ SessionsOK' /\ ScopesFollowProfile'
  BY <1>4, OwnStep DEF Signup
<1>6. LocksOK'
  <2>1. Locks(r) = {} /\ Locks(r)' = {<<realm, e>>}
    BY <1>4 DEF Locks, Signup
  <2>2. \A q \in Request \ {r} : Locks(q)' = Locks(q) /\ <<realm, e>> \notin Locks(q)
    BY <1>1, <1>4 DEF Locks, Inv, LocksOK
  <2>3. <<realm, e>> \notin crashed
    BY <1>1 DEF Inv, TypeOK
  <2>4. codes[<<realm, e>>] = 0
    BY <1>1 DEF Inv, LocksOK
  <2>5. \A q \in Request : Locks(q)' \subseteq throttle' \ crashed'
    BY <2>1, <2>2, <2>3, <1>2 DEF Inv, LocksOK
  <2>6. \A p, q \in Request : p # q => Locks(p)' \cap Locks(q)' = {}
    BY <2>1, <2>2 DEF Inv, LocksOK
  <2>7. \A k \in Realm \X Email : k \notin throttle' => codes'[k] = 0
    BY <1>2 DEF Inv, LocksOK
  <2>8. \A q \in Request : \A k \in Locks(q)' : codes'[k] = 0
    BY <2>1, <2>2, <2>4, <1>2 DEF Inv, LocksOK
  <2>9. OneCodePerLock'
    BY <2>1, <2>2, <1>2 DEF Inv, LocksOK, OneCodePerLock
  <2> QED
    BY <2>5, <2>6, <2>7, <2>8, <2>9 DEF LocksOK
<1> QED
  BY <1>4, <1>5, <1>6 DEF Inv

\* A login takes no lock.
LEMMA SigninStep ==
  ASSUME Inv, NEW r \in Request, NEW realm \in Realm, NEW a \in Address, Signin(r, realm, a)
  PROVE  Inv'
<1>1. throttle' \subseteq Realm \X Email /\ crashed' \subseteq throttle'
  BY DEF Inv, TypeOK, Signin
<1>2. /\ TypeOK' /\ RequestOK(r)'
      /\ \A q \in Request \ {r} : req'[q] = req[q]
      /\ req'[r] # Idle /\ req'[r].kind = "authorize"
  BY <1>1, BeginsFacts DEF Inv, Signin, Name
<1>3. UsersOK' /\ OpsOK' /\ RequestsOK' /\ SessionsOK' /\ ScopesFollowProfile'
  BY <1>2, OwnStep DEF Signin
<1>4. Locks(r)' = Locks(r)
  BY <1>2 DEF Locks, Signin
<1>5. LocksOK'
  BY <1>2, <1>4, SameLock DEF Inv, Signin
<1> QED
  BY <1>2, <1>3, <1>5 DEF Inv

\* Nor does a change of address.
LEMMA ChangeAddressStep ==
  ASSUME Inv, NEW r \in Request, NEW u \in User, NEW a \in Address, ChangeAddress(r, u, a)
  PROVE  Inv'
<1>1. throttle' \subseteq Realm \X Email /\ crashed' \subseteq throttle'
  BY DEF Inv, TypeOK, ChangeAddress
<1>2. Kind(a) \in Name \ {"create", "authorize"} /\ Exists(u)'
  BY DEF Kind, Name, ChangeAddress, Exists
<1>3. /\ TypeOK' /\ RequestOK(r)'
      /\ \A q \in Request \ {r} : req'[q] = req[q]
      /\ req'[r] # Idle /\ req'[r].kind = Kind(a)
  BY <1>1, <1>2, BeginsFacts DEF Inv, ChangeAddress
<1>4. UsersOK' /\ OpsOK' /\ RequestsOK' /\ SessionsOK' /\ ScopesFollowProfile'
  BY <1>3, OwnStep DEF ChangeAddress
<1>5. Locks(r)' = Locks(r)
  BY <1>2, <1>3 DEF Locks, ChangeAddress
<1>6. LocksOK'
  BY <1>3, <1>5, SameLock DEF Inv, ChangeAddress
<1> QED
  BY <1>3, <1>4, <1>6 DEF Inv

\* A request that changes only what it carries, and no lock.
LEMMA CarriesStep ==
  ASSUME Inv, UNCHANGED <<user, member, throttle, op, session, history, codes, crashed, events>>,
         NEW r \in Request, NEW x \in {Idle} \cup Works, req' = [req EXCEPT ![r] = x], RequestOK(r)',
         Locks(r)' = Locks(r)
  PROVE  Inv'
<1>1. throttle' \subseteq Realm \X Email /\ crashed' \subseteq throttle' /\ events' \in 0 .. MaxEvents
  BY DEF Inv, TypeOK
<1>2. TypeOK' /\ \A q \in Request \ {r} : req'[q] = req[q]
  BY <1>1, TypeOfRequest DEF Inv
<1>3. UsersOK' /\ OpsOK' /\ RequestsOK' /\ SessionsOK' /\ ScopesFollowProfile'
  BY <1>2, OwnStep
<1>4. LocksOK'
  BY <1>2, SameLock DEF Inv
<1> QED
  BY <1>2, <1>3, <1>4 DEF Inv

\* The owner is read: what is opened then is whole.
LEMMA FetchOwnerStep ==
  ASSUME Inv, NEW r \in Request, FetchOwner(r)
  PROVE  Inv'
<1> DEFINE q == req[r]
<1>0. q \in Openings /\ q # Idle /\ q.step = "owner"
  BY RequestFacts DEF Inv, FetchOwner, At
<1>1. IF q.kind \in {"create", "authorize"}
      THEN q.realm \in Realm /\ q.owner = None /\ (q.kind = "create" => q.address \in Email /\ q.lang \in Lang)
      ELSE q.owner \in User /\ Exists(q.owner)
  BY <1>0 DEF Inv, RequestsOK, RequestOK, Fits, OpeningFits
<1>2. /\ q.kind \in Name /\ q.realm \in Realm \cup {None} /\ q.address \in Address
      /\ q.owner \in User \cup {None} /\ q.lang \in Lang \cup {None}
  BY <1>0 DEF Openings
<1>3. UNCHANGED <<user, member, op, session, history, codes, crashed, events>>
  BY DEF FetchOwner
<1>4. ASSUME NEW u \in User \cup {None}, NEW a \in Address,
             req' = [req EXCEPT ![r] = [q EXCEPT !.step = "open", !.owner = u, !.address = a]],
             throttle' = throttle,
             u # None => Exists(u) /\ (q.kind \in {"create", "authorize"} => <<u, a>> \in owned),
             u = None => q.kind = "create",
             q.kind = "create" => a = q.address
      PROVE  Inv'
  <2>1. PICK x : x = [q EXCEPT !.step = "open", !.owner = u, !.address = a]
    OBVIOUS
  <2>2. /\ x \in Openings
        /\ x.kind = q.kind /\ x.step = "open" /\ x.realm = q.realm /\ x.address = a
        /\ x.owner = u /\ x.lang = q.lang
    BY <1>0, <2>1 DEF Openings
  <2>3. req' = [req EXCEPT ![r] = x] /\ req'[r] = x
    BY <1>4, <2>1 DEF Inv, TypeOK
  <2>4. x # Idle /\ x \notin Logins /\ x \notin Changes /\ x \in {Idle} \cup Works
    BY <2>2, KindsDiffer DEF Works
  <2>5. u \in User <=> u # None
    BY AccountsAssumption
  <2>6. Whole(Opened(x))'
    BY <1>1, <1>2, <1>3, <1>4, <2>2, <2>5 DEF Whole, Opened, Name, Exists, history
  <2>7. RequestOK(r)'
    BY <2>2, <2>3, <2>4, <2>6 DEF RequestOK, Fits, OpeningFits, Whole, Opened
  <2>8. Locks(r)' = Locks(r)
    BY <1>0, <1>4, <2>2, <2>3, <2>4 DEF Locks
  <2> QED
    BY <1>3, <1>4, <2>3, <2>4, <2>7, <2>8, CarriesStep
<1>5. CASE q.owner # None /\ Goes(r, "open") /\ UNCHANGED throttle
  <2>1. req' = [req EXCEPT ![r] = [q EXCEPT !.step = "open", !.owner = q.owner, !.address = q.address]]
    BY <1>0, <1>5 DEF Goes, Openings
  <2> QED
    BY <1>1, <1>2, <1>4, <1>5, <2>1 DEF Name
<1>6. ASSUME NEW u \in User, q.owner = None, Has(u, q.address),
             req' = [req EXCEPT ![r].step = "open", ![r].owner = u, ![r].address = ConfirmedAt(u, @)],
             UNCHANGED throttle
      PROVE  Inv'
  <2>1. Exists(u) /\ user[u] \in Profiles
    BY <1>6, RowFacts DEF Inv, Has
  <2>2. ConfirmedAt(u, q.address) \in Address /\ Has(u, ConfirmedAt(u, q.address))
    BY <1>2, <1>6, <2>1 DEF ConfirmedAt, Has, Address, Profiles
  <2>3. <<u, ConfirmedAt(u, q.address)>> \in owned
    BY <2>2 DEF Inv, UsersOK
  <2>4. q.kind = "create" => ConfirmedAt(u, q.address) = q.address
    BY <1>1, AccountsAssumption DEF ConfirmedAt
  <2>5. req' = [req EXCEPT ![r] = [q EXCEPT !.step = "open", !.owner = u, !.address = ConfirmedAt(u, q.address)]]
    BY <1>0, <1>6 DEF Openings, Inv, TypeOK
  <2>6. u # None
    BY AccountsAssumption
  <2> QED
    BY <1>4, <1>6, <2>1, <2>2, <2>3, <2>4, <2>5, <2>6
<1>7. CASE /\ q.owner = None /\ Free(q.address)
           /\ IF q.kind = "create" THEN Goes(r, "open") /\ UNCHANGED throttle ELSE Fails(r)
  <2>1. CASE q.kind = "create"
    <3>1. req' = [req EXCEPT ![r] = [q EXCEPT !.step = "open", !.owner = q.owner, !.address = q.address]]
      BY <1>0, <1>7, <2>1 DEF Goes, Openings
    <3> QED
      BY <1>2, <1>4, <1>7, <2>1, <3>1
  <2>2. CASE q.kind # "create"
    <3>1. Locks(r) = {}
      BY <2>2 DEF Locks
    <3>2. req' = [req EXCEPT ![r] = Idle] /\ req'[r] = Idle /\ throttle' = throttle
      BY <1>7, <2>2, <3>1 DEF Fails, Ends, Inv, TypeOK
    <3>3. RequestOK(r)' /\ Locks(r)' = Locks(r)
      BY <3>1, <3>2, RequestEnds DEF Locks
    <3>4. UNCHANGED <<user, member, throttle, op, session, history, codes, crashed, events>>
      BY <1>3, <3>2
    <3>5. Idle \in {Idle} \cup Works
      OBVIOUS
    <3> QED
      BY <3>2, <3>3, <3>4, <3>5, CarriesStep
  <2> QED
    BY <2>1, <2>2
<1> QED
  BY <1>5, <1>6, <1>7 DEF FetchOwner

\* Sessions stay with their users while operations are opened and deleted.
LEMMA SessionsKept ==
  ASSUME TypeOK, TypeOK', Grows, SessionsOK, session' = session,
         \A o \in Op : op[o] = Gone => op'[o] = Gone
  PROVE  SessionsOK'
<1>1. ASSUME NEW o \in Op PROVE SessionOK(o)'
  <2>1. SessionOK(o)
    BY DEF SessionsOK
  <2> QED
    BY <2>1, SessionKept DEF IsOpen
<1> QED
  BY <1>1 DEF SessionsOK

\* What is opened is whole, and the code of signup is the first of its lock.
LEMMA OpenOperationStep ==
  ASSUME Inv, NEW r \in Request, NEW o \in Op, OpenOperation(r, o)
  PROVE  Inv'
<1> DEFINE q == req[r]
<1>1. q \in Openings /\ Whole(Opened(q))
  <2>1. q \in Openings /\ q.step = "open"
    BY RequestFacts DEF Inv, OpenOperation, At
  <2> QED
    BY <2>1 DEF Inv, RequestsOK, RequestOK, Fits, OpeningFits
<1>2. /\ UNCHANGED <<user, member, throttle, session, history, crashed, events>>
      /\ req' = [req EXCEPT ![r] = Idle]
  BY DEF OpenOperation, Ends
<1>3. \A k \in Realm \X Email : codes'[k] = codes[k] + IF k \in Locks(r) THEN 1 ELSE 0
  BY DEF OpenOperation, Inv, TypeOK
<1>4. /\ op'[o] = Opened(q) /\ op[o] = NoOp
      /\ \A p \in Op \ {o} : op'[p] = op[p] \/ op'[p] = Gone
  BY DEF OpenOperation, Fresh
<1>5. TypeOK'
  <2>1. Opened(q) \in Operations
    BY <1>1 DEF Opened, Operations, Openings
  <2>2. op' \in [Op -> {NoOp, Gone} \cup Operations]
    BY <2>1, <1>4 DEF OpenOperation, Inv, TypeOK
  <2>3. codes' \in [Realm \X Email -> Nat]
    <3>1. codes \in [Realm \X Email -> Nat]
      BY DEF Inv, TypeOK
    <3>2. codes' = [k \in Realm \X Email |-> codes[k] + IF k \in Locks(r) THEN 1 ELSE 0]
      BY <3>1 DEF OpenOperation
    <3> QED
      BY <3>1, <3>2
  <2>4. req' \in [Request -> {Idle} \cup Works]
    BY <1>2 DEF Inv, TypeOK, Works
  <2>5. /\ throttle' \subseteq Realm \X Email /\ crashed' \subseteq throttle'
        /\ session' \in [Op -> {NoSession} \cup Sessions] /\ events' \in 0 .. MaxEvents
    BY <1>2 DEF Inv, TypeOK
  <2> QED
    BY <1>2, <2>2, <2>3, <2>4, <2>5, TypeKept DEF Inv
<1>6. Grows /\ KeepsLang
  BY <1>2, SameGrows DEF Inv
<1>7. UsersOK'
  BY <1>2, UsersKept DEF Inv
<1>8. OpsOK'
  <2>1. OpOK(o)'
    BY <1>1, <1>2, <1>4 DEF OpOK, Whole, Exists, history
  <2>2. ASSUME NEW p \in Op \ {o} PROVE OpOK(p)'
    <3>1. CASE op'[p] = Gone
      BY <3>1 DEF OpOK, InTable
    <3>2. CASE op'[p] = op[p]
      BY <1>6, <3>2, OperationKept DEF Inv, OpsOK
    <3> QED
      BY <3>1, <3>2, <1>4
  <2> QED
    BY <2>1, <2>2 DEF OpsOK
<1>9. req'[r] = Idle /\ \A p \in Request \ {r} : req'[p] = req[p]
  BY <1>2 DEF Inv, TypeOK
<1>10. RequestsOK'
  BY <1>5, <1>6, <1>9, RequestEnds, RequestsKept DEF Inv
<1>11. SessionsOK'
  <2>1. \A p \in Op : op[p] = Gone => op'[p] = Gone
    BY <1>4, RecordsExist
  <2> QED
    BY <1>2, <1>5, <1>6, <2>1, SessionsKept DEF Inv
<1>12. ScopesFollowProfile'
  BY <1>2 DEF Inv, ScopesFollowProfile, IsOpen
<1>13. LocksOK'
  <2>1. Locks(r)' = {} /\ \A p \in Request \ {r} : Locks(p)' = Locks(p)
    BY <1>9 DEF Locks
  <2>2. \A k \in Locks(r) : k \in Realm \X Email /\ k \in throttle /\ codes[k] = 0
    BY DEF Inv, LocksOK, TypeOK
  <2>3. \A k \in Realm \X Email : codes[k] \in Nat
    BY DEF Inv, TypeOK
  <2>4. \A k \in Realm \X Email : IF k \in Locks(r) THEN codes'[k] = 1 ELSE codes'[k] = codes[k]
    BY <1>3, <2>2, <2>3
  <2>5. \A p \in Request : Locks(p)' \subseteq throttle' \ crashed'
    BY <1>2, <2>1 DEF Inv, LocksOK
  <2>6. \A p, s \in Request : p # s => Locks(p)' \cap Locks(s)' = {}
    BY <2>1 DEF Inv, LocksOK
  <2>7. \A k \in Realm \X Email : k \notin throttle' => codes'[k] = 0
    BY <1>2, <2>2, <2>4 DEF Inv, LocksOK
  <2>8. ASSUME NEW p \in Request \ {r}, NEW k \in Locks(p) PROVE codes'[k] = 0
    <3>1. k \notin Locks(r) /\ codes[k] = 0 /\ k \in Realm \X Email
      BY DEF Inv, LocksOK, TypeOK
    <3> QED
      BY <3>1, <2>4
  <2>9. OneCodePerLock'
    <3>1. ASSUME NEW k \in Realm \X Email
          PROVE  codes'[k] <= 1 /\ (k \in throttle' => codes'[k] = 1 \/ k \in crashed' \/ \E p \in Request : k \in Locks(p)')
      <4>1. CASE k \in Locks(r)
        BY <2>4, <4>1
      <4>2. CASE k \notin Locks(r)
        BY <1>2, <2>1, <2>4, <4>2 DEF Inv, LocksOK, OneCodePerLock
      <4> QED
        BY <4>1, <4>2
    <3> QED
      BY <3>1 DEF OneCodePerLock
  <2>10. \A p \in Request : \A k \in Locks(p)' : codes'[k] = 0
    BY <2>1, <2>8
  <2> QED
    BY <2>5, <2>6, <2>7, <2>9, <2>10 DEF LocksOK
<1> QED
  BY <1>5, <1>7, <1>8, <1>10, <1>11, <1>12, <1>13 DEF Inv

\* A lock runs out with the code it was taken for.
LEMMA ThrottleExpiresStep ==
  ASSUME Inv, NEW k \in Realm \X Email, ThrottleExpires(k)
  PROVE  Inv'
<1>1. /\ UNCHANGED <<user, member, op, session, req, history, events>>
      /\ throttle' = throttle \ {k} /\ crashed' = crashed \ {k} /\ codes' = [codes EXCEPT ![k] = 0]
      /\ \A r \in Request : k \notin Locks(r)
  BY DEF ThrottleExpires
<1>2. TypeOK'
  <2>1. /\ throttle' \subseteq Realm \X Email /\ crashed' \subseteq throttle'
        /\ codes' \in [Realm \X Email -> Nat]
    BY <1>1 DEF Inv, TypeOK
  <2>2. /\ op' \in [Op -> {NoOp, Gone} \cup Operations]
        /\ session' \in [Op -> {NoSession} \cup Sessions]
        /\ req' \in [Request -> {Idle} \cup Works]
        /\ events' \in 0 .. MaxEvents
    BY <1>1 DEF Inv, TypeOK, Works
  <2> QED
    BY <1>1, <2>1, <2>2, TypeKept DEF Inv
<1>3. Grows /\ KeepsLang
  BY <1>1, SameGrows DEF Inv
<1>4. UsersOK'
  BY <1>1, UsersKept DEF Inv
<1>5. OpsOK'
  BY <1>1, <1>3, OperationKept DEF Inv, OpsOK
<1>6. RequestsOK'
  <2>1. ASSUME NEW r \in Request PROVE RequestOK(r)'
    BY <1>1, <1>2, <1>3, RequestKept DEF Inv, RequestsOK
  <2> QED
    BY <2>1 DEF RequestsOK
<1>7. SessionsOK'
  BY <1>1, <1>2, <1>3, SessionsKept DEF Inv
<1>8. ScopesFollowProfile'
  BY <1>1 DEF Inv, ScopesFollowProfile, IsOpen
<1>9. LocksOK'
  <2>1. \A r \in Request : Locks(r)' = Locks(r) /\ k \notin Locks(r)
    BY <1>1 DEF Locks
  <2>2. \A j \in Realm \X Email : codes'[j] = IF j = k THEN 0 ELSE codes[j]
    BY <1>1 DEF Inv, TypeOK
  <2>3. \A r \in Request : Locks(r) \subseteq Realm \X Email
    BY DEF Inv, LocksOK, TypeOK
  <2>4. \A r \in Request : Locks(r)' \subseteq throttle' \ crashed'
    BY <1>1, <2>1 DEF Inv, LocksOK
  <2>5. \A r \in Request : \A j \in Locks(r)' : codes'[j] = 0
    BY <2>1, <2>2, <2>3 DEF Inv, LocksOK
  <2>6. OneCodePerLock'
    BY <1>1, <2>1, <2>2 DEF Inv, LocksOK, OneCodePerLock
  <2>7. \A j \in Realm \X Email : j \notin throttle' => codes'[j] = 0
    BY <1>1, <2>2 DEF Inv, LocksOK
  <2>8. \A p, q \in Request : p # q => Locks(p)' \cap Locks(q)' = {}
    BY <2>1 DEF Inv, LocksOK
  <2> QED
    BY <2>4, <2>5, <2>6, <2>7, <2>8 DEF LocksOK
<1> QED
  BY <1>2, <1>4, <1>5, <1>6, <1>7, <1>8, <1>9 DEF Inv

\* An operation that is revoked or expires is one less to keep.
LEMMA OperationExpiresStep ==
  ASSUME Inv, NEW o \in Op, OperationExpires(o)
  PROVE  Inv'
<1>1. /\ UNCHANGED <<user, member, throttle, session, req, history, codes, crashed, events>>
      /\ op'[o] = Gone /\ \A p \in Op \ {o} : op'[p] = op[p]
      /\ op' \in [Op -> {NoOp, Gone} \cup Operations]
  BY DEF OperationExpires, Inv, TypeOK
<1>2. TypeOK'
  <2>1. /\ throttle' \subseteq Realm \X Email /\ crashed' \subseteq throttle'
        /\ codes' \in [Realm \X Email -> Nat]
        /\ session' \in [Op -> {NoSession} \cup Sessions]
        /\ req' \in [Request -> {Idle} \cup Works]
        /\ events' \in 0 .. MaxEvents
    BY <1>1 DEF Inv, TypeOK, Works
  <2> QED
    BY <1>1, <2>1, TypeKept DEF Inv
<1>3. Grows /\ KeepsLang
  BY <1>1, SameGrows DEF Inv
<1>4. UsersOK'
  BY <1>1, UsersKept DEF Inv
<1>5. OpsOK'
  <2>1. OpOK(o)'
    BY <1>1 DEF OpOK, InTable
  <2>2. \A p \in Op \ {o} : OpOK(p)'
    BY <1>1, <1>3, OperationKept DEF Inv, OpsOK
  <2> QED
    BY <2>1, <2>2 DEF OpsOK
<1>6. RequestsOK'
  <2>1. ASSUME NEW r \in Request PROVE RequestOK(r)'
    BY <1>1, <1>2, <1>3, RequestKept DEF Inv, RequestsOK
  <2> QED
    BY <2>1 DEF RequestsOK
<1>7. SessionsOK'
  <2>1. \A p \in Op : op[p] = Gone => op'[p] = Gone
    BY <1>1
  <2> QED
    BY <1>1, <1>2, <1>3, <2>1, SessionsKept DEF Inv
<1>8. ScopesFollowProfile'
  BY <1>1 DEF Inv, ScopesFollowProfile, IsOpen
<1>9. LocksOK'
  <2>1. \A r \in Request : Locks(r)' = Locks(r)
    BY <1>1 DEF Locks
  <2> QED
    BY <1>1, <2>1, LocksKept DEF Inv
<1> QED
  BY <1>2, <1>4, <1>5, <1>6, <1>7, <1>8, <1>9 DEF Inv

----------------------------------------------------------------------------
(* Opening a session *)

\* No more memberships are there than bindings.
LEMMA WithdrawnFacts ==
  ASSUME Inv, NEW u \in User, NEW realm \in Realm
  PROVE  /\ <<u, realm>> \in Member /\ bound[<<u, realm>>] \in Nat
         /\ Withdrawn(u, realm) \in Nat
         /\ Withdrawn(u, realm) = bound[<<u, realm>>] - IF <<u, realm>> \in member THEN 1 ELSE 0
<1>1. <<u, realm>> \in Member /\ bound[<<u, realm>>] \in Nat
  BY DEF Inv, TypeOK, Member
<1>2. <<u, realm>> \in member => bound[<<u, realm>>] > 0
  BY DEF Inv, UsersOK
<1>3. u # None
  BY AccountsAssumption
<1> QED
  BY <1>1, <1>2, <1>3 DEF Withdrawn

\* The steps of a login take no lock and leave the tables alone.
LEMMA LoginCarries ==
  ASSUME Inv, UNCHANGED <<user, member, throttle, op, session, history, codes, crashed, events>>,
         NEW r \in Request, req[r] \in {Idle} \cup Logins \cup Changes,
         NEW x \in Logins, req' = [req EXCEPT ![r] = x], LoginFits(x)'
  PROVE  Inv'
<1>1. req'[r] = x
  BY DEF Inv, TypeOK
<1>2. x \in {Idle} \cup Works
  BY DEF Works
<1>3. RequestOK(r)'
  BY <1>1, KindsDiffer DEF RequestOK, Fits, LoginFits
<1>4. Locks(r) = {} /\ Locks(r)' = {}
  BY <1>1, NoLock
<1> QED
  BY <1>2, <1>3, <1>4, CarriesStep

\* The confirmed operation tells the owner, the realm and the address.
LEMMA OpenSessionStep ==
  ASSUME Inv, NEW r \in Request, NEW o \in Op, OpenSession(r, o)
  PROVE  Inv'
<1> DEFINE p == op[o]
<1>1. /\ UNCHANGED <<user, member, throttle, op, session, history, codes, crashed, events>>
      /\ req[r] = Idle /\ p.name \in {"create", "authorize"}
  BY DEF OpenSession
<1>2. p \in Operations /\ Whole(p)
  BY <1>1, RowFacts DEF Inv, OpsOK, OpOK, Name
<1>3. /\ p.realm \in Realm /\ p.address \in Address /\ p.owner \in User \cup {None} /\ p.lang \in Lang \cup {None}
      /\ p.name = "create" => p.address \in Email /\ p.lang \in Lang
      /\ p.name = "authorize" => p.owner \in User
      /\ p.owner \in User => Exists(p.owner) /\ <<p.owner, p.address>> \in owned
  BY <1>1, <1>2 DEF Operations, Whole
<1>4. /\ Withdrawn(p.owner, p.realm) \in Nat
      /\ p.owner = None => Withdrawn(p.owner, p.realm) = 0
  <2>1. CASE p.owner = None
    BY <2>1 DEF Withdrawn
  <2>2. CASE p.owner \in User
    BY <1>3, <2>2, WithdrawnFacts, AccountsAssumption
  <2> QED
    BY <1>3, <2>1, <2>2
<1> DEFINE s == IF p.name = "authorize" THEN "prepare" ELSE IF p.owner = None THEN "lookup" ELSE "bind"
           w == Withdrawn(p.owner, p.realm)
<1>5. PICK x : x = [kind |-> "login", op |-> o, owner |-> p.owner, realm |-> p.realm, address |-> p.address,
                    lang |-> p.lang, late |-> FALSE, since |-> w, step |-> s]
  OBVIOUS
<1>6. /\ x \in Logins /\ x.owner = p.owner /\ x.realm = p.realm /\ x.address = p.address /\ x.lang = p.lang
      /\ x.since = w /\ x.step = s
  <2>1. s \in {"lookup", "bind", "prepare"}
    OBVIOUS
  <2> HIDE DEF s, w
  <2> QED
    BY <1>3, <1>4, <1>5, <2>1 DEF Logins, w
<1>7. req' = [req EXCEPT ![r] = x]
  BY <1>5 DEF OpenSession
<1>8. LoginFits(x)
  <2>1. s = "lookup" => p.owner = None /\ p.address \in Email /\ p.lang \in Lang /\ w = 0
    BY <1>1, <1>3, <1>4
  <2>2. s \in {"bind", "prepare"} => p.owner \in User /\ Exists(p.owner) /\ <<p.owner, p.address>> \in owned
    BY <1>1, <1>3
  <2>3. s \in {"lookup", "bind", "prepare"}
    OBVIOUS
  <2>4. w <= Withdrawn(p.owner, p.realm)
    BY <1>4
  <2> HIDE DEF s, w
  <2> QED
    BY <1>6, <2>1, <2>2, <2>3, <2>4 DEF LoginFits
<1>9. LoginFits(x)'
  BY <1>1, <1>8 DEF LoginFits, Withdrawn, Exists, history
<1> QED
  BY <1>1, <1>6, <1>7, <1>9, LoginCarries

\* The owner found now has had the address.
LEMMA LookUpStep ==
  ASSUME Inv, NEW r \in Request, LookUp(r)
  PROVE  Inv'
<1> DEFINE q == req[r]
<1>1. /\ q \in Logins /\ q.step = "lookup" /\ LoginFits(q)
      /\ UNCHANGED <<user, member, throttle, op, session, history, codes, crashed, events>>
  BY RequestFacts DEF Inv, LookUp, At, RequestsOK, RequestOK, Fits
<1>2. q.address \in Email /\ q.lang \in Lang /\ q.since = 0 /\ q.realm \in Realm /\ q.owner = None
  BY <1>1 DEF LoginFits, Logins
<1>3. ASSUME NEW u \in User, Has(u, q.address), req' = [req EXCEPT ![r].step = "bind", ![r].owner = u]
      PROVE  Inv'
  <2>1. PICK x : x = [q EXCEPT !.step = "bind", !.owner = u]
    OBVIOUS
  <2>2. /\ x \in Logins /\ x.step = "bind" /\ x.owner = u
        /\ x.realm = q.realm /\ x.address = q.address /\ x.since = q.since
    BY <1>1, <2>1 DEF Logins
  <2>3. req' = [req EXCEPT ![r] = x]
    BY <1>3, <2>1 DEF Inv, TypeOK
  <2>4. Exists(u) /\ <<u, q.address>> \in owned
    BY <1>2, <1>3 DEF Inv, UsersOK, Has, Address
  <2>5. 0 <= Withdrawn(u, q.realm)
    <3>1. Withdrawn(u, q.realm) \in Nat
      BY <1>2, WithdrawnFacts
    <3> QED
      BY <3>1
  <2>6. LoginFits(x)
    BY <1>2, <2>2, <2>4, <2>5 DEF LoginFits
  <2>7. LoginFits(x)'
    BY <1>1, <2>6 DEF LoginFits, Withdrawn, Exists, history
  <2> QED
    BY <1>1, <2>2, <2>3, <2>7, LoginCarries
<1>4. ASSUME Goes(r, "register")
      PROVE  Inv'
  <2>1. PICK x : x = [q EXCEPT !.step = "register"]
    OBVIOUS
  <2>2. /\ x \in Logins /\ x.step = "register" /\ x.owner = q.owner
        /\ x.address = q.address /\ x.since = q.since /\ x.lang = q.lang
    BY <1>1, <2>1 DEF Logins
  <2>3. req' = [req EXCEPT ![r] = x]
    BY <1>4, <2>1 DEF Goes
  <2>4. LoginFits(x)'
    BY <1>2, <2>2 DEF LoginFits
  <2> QED
    BY <1>1, <2>2, <2>3, <2>4, LoginCarries
<1> QED
  BY <1>3, <1>4 DEF LookUp

\* The profile is read while the user is a member.
LEMMA PrepareAuthorizationStep ==
  ASSUME Inv, NEW r \in Request, PrepareAuthorization(r)
  PROVE  Inv'
<1> DEFINE q == req[r]
<1>1. /\ q \in Logins /\ q.step = "prepare" /\ LoginFits(q)
      /\ UNCHANGED <<user, member, throttle, op, session, history, codes, crashed, events>>
  BY RequestFacts DEF Inv, PrepareAuthorization, At, RequestsOK, RequestOK, Fits
<1>2. /\ q.owner \in User /\ Exists(q.owner) /\ q.realm \in Realm /\ q.since \in Nat
      /\ <<q.owner, q.address>> \in owned /\ q.since <= Withdrawn(q.owner, q.realm)
  BY <1>1 DEF LoginFits, Logins
<1>3. ASSUME <<q.owner, q.realm>> \in member,
             req' = [req EXCEPT ![r].step = "commit", ![r].lang = user[req[r].owner].lang]
      PROVE  Inv'
  <2>1. PICK x : x = [q EXCEPT !.step = "commit", !.lang = user[q.owner].lang]
    OBVIOUS
  <2>2. user[q.owner].lang \in Lang
    BY <1>2, RowFacts DEF Inv, Profiles
  <2>3. /\ x \in Logins /\ x.step = "commit" /\ x.owner = q.owner /\ x.lang = user[q.owner].lang
        /\ x.realm = q.realm /\ x.address = q.address /\ x.since = q.since
    BY <1>1, <2>1, <2>2 DEF Logins
  <2>4. req' = [req EXCEPT ![r] = x]
    BY <1>3, <2>1 DEF Inv, TypeOK
  <2>5. q.since < bound[<<q.owner, q.realm>>]
    BY <1>2, <1>3, WithdrawnFacts
  <2>6. LoginFits(x)
    BY <1>2, <2>2, <2>3, <2>5 DEF LoginFits
  <2>7. LoginFits(x)'
    BY <1>1, <2>6 DEF LoginFits, Withdrawn, Exists, history
  <2> QED
    BY <1>1, <2>3, <2>4, <2>7, LoginCarries
<1>4. ASSUME Ends(r)
      PROVE  Inv'
  <2>1. req' = [req EXCEPT ![r] = Idle] /\ req'[r] = Idle
    BY <1>4 DEF Ends, Inv, TypeOK
  <2>2. RequestOK(r)' /\ Locks(r)' = Locks(r)
    BY <1>1, <2>1, RequestEnds, NoLock
  <2>3. Idle \in {Idle} \cup Works
    OBVIOUS
  <2> QED
    BY <1>1, <2>1, <2>2, <2>3, CarriesStep
<1> QED
  BY <1>3, <1>4 DEF PrepareAuthorization

----------------------------------------------------------------------------
(* Steps that write users, memberships and sessions *)

\* Operations and sessions that are not written keep up with tables that grow.
LEMMA TablesGrow ==
  ASSUME Inv, TypeOK', Grows, KeepsLang, UNCHANGED <<op, session>>
  PROVE  OpsOK' /\ SessionsOK' /\ ScopesFollowProfile'
<1>1. OpsOK'
  BY OperationKept DEF Inv, OpsOK
<1>2. SessionsOK'
  BY SessionsKept DEF Inv
<1>3. ScopesFollowProfile'
  <2>1. ASSUME NEW o \in Op, IsOpen(o)', ~session'[o].late PROVE session'[o].lang = user'[session'[o].user].lang
    <3>1. IsOpen(o) /\ session'[o] = session[o] /\ session[o].user \in User /\ Exists(session[o].user)
      BY <2>1, RowFacts DEF Inv, SessionsOK, SessionOK, IsOpen, Sessions
    <3> QED
      BY <2>1, <3>1 DEF KeepsLang, Inv, ScopesFollowProfile
  <2> QED
    BY <2>1 DEF ScopesFollowProfile
<1> QED
  BY <1>1, <1>2, <1>3

\* An error gives the lock of signup back, and no code was sent under it.
LEMMA RequestFailsStep ==
  ASSUME Inv, NEW r \in Request, RequestFails(r)
  PROVE  Inv'
<1>1. /\ UNCHANGED <<user, member, op, session, history, codes, crashed>>
      /\ req' = [req EXCEPT ![r] = Idle] /\ throttle' = throttle \ Locks(r)
      /\ events < MaxEvents /\ events' = events + 1
  BY DEF RequestFails, Fails, Ends, Event
<1>2. throttle' \subseteq Realm \X Email /\ crashed' \subseteq throttle' /\ events' \in 0 .. MaxEvents
  BY <1>1, AccountsAssumption DEF Inv, TypeOK, LocksOK
<1>3. TypeOK' /\ req'[r] = Idle /\ \A q \in Request \ {r} : req'[q] = req[q]
  BY <1>1, <1>2, TypeOfRequest DEF Inv
<1>4. UsersOK' /\ OpsOK' /\ RequestsOK' /\ SessionsOK' /\ ScopesFollowProfile'
  BY <1>1, <1>3, RequestEnds, OwnStep
<1>5. LocksOK'
  <2>1. Locks(r)' = {} /\ \A q \in Request \ {r} : Locks(q)' = Locks(q) /\ Locks(q) \cap Locks(r) = {}
    BY <1>3 DEF Locks, Inv, LocksOK
  <2>2. \A q \in Request : Locks(q)' \subseteq throttle' \ crashed'
    BY <1>1, <2>1 DEF Inv, LocksOK
  <2>3. \A p, q \in Request : p # q => Locks(p)' \cap Locks(q)' = {}
    BY <2>1 DEF Inv, LocksOK
  <2>4. \A k \in Realm \X Email : k \notin throttle' => codes'[k] = 0
    BY <1>1 DEF Inv, LocksOK
  <2>5. \A q \in Request : \A k \in Locks(q)' : codes'[k] = 0
    BY <1>1, <2>1 DEF Inv, LocksOK
  <2>6. OneCodePerLock'
    BY <1>1, <2>1 DEF Inv, LocksOK, OneCodePerLock
  <2> QED
    BY <2>2, <2>3, <2>4, <2>5, <2>6 DEF LocksOK
<1> QED
  BY <1>3, <1>4, <1>5 DEF Inv

\* A lock whose request is lost stays and says so.
LEMMA RequestLostStep ==
  ASSUME Inv, NEW r \in Request, RequestLost(r)
  PROVE  Inv'
<1>1. /\ UNCHANGED <<user, member, throttle, op, session, history, codes>>
      /\ req' = [req EXCEPT ![r] = Idle] /\ crashed' = crashed \cup Locks(r)
      /\ events < MaxEvents /\ events' = events + 1
  BY DEF RequestLost, Ends, Event
<1>2. throttle' \subseteq Realm \X Email /\ crashed' \subseteq throttle' /\ events' \in 0 .. MaxEvents
  BY <1>1, AccountsAssumption DEF Inv, TypeOK, LocksOK
<1>3. TypeOK' /\ req'[r] = Idle /\ \A q \in Request \ {r} : req'[q] = req[q]
  BY <1>1, <1>2, TypeOfRequest DEF Inv
<1>4. UsersOK' /\ OpsOK' /\ RequestsOK' /\ SessionsOK' /\ ScopesFollowProfile'
  BY <1>1, <1>3, RequestEnds, OwnStep
<1>5. LocksOK'
  <2>1. Locks(r)' = {} /\ \A q \in Request \ {r} : Locks(q)' = Locks(q) /\ Locks(q) \cap Locks(r) = {}
    BY <1>3 DEF Locks, Inv, LocksOK
  <2>2. \A q \in Request : Locks(q)' \subseteq throttle' \ crashed'
    BY <1>1, <2>1 DEF Inv, LocksOK
  <2>3. \A p, q \in Request : p # q => Locks(p)' \cap Locks(q)' = {}
    BY <2>1 DEF Inv, LocksOK
  <2>4. \A k \in Realm \X Email : k \notin throttle' => codes'[k] = 0
    BY <1>1 DEF Inv, LocksOK
  <2>5. \A q \in Request : \A k \in Locks(q)' : codes'[k] = 0
    BY <1>1, <2>1 DEF Inv, LocksOK
  <2>6. OneCodePerLock'
    BY <1>1, <2>1 DEF Inv, LocksOK, OneCodePerLock
  <2> QED
    BY <2>2, <2>3, <2>4, <2>5, <2>6 DEF LocksOK
<1> QED
  BY <1>3, <1>4, <1>5 DEF Inv

\* A membership that is withdrawn is a binding more that was.
LEMMA WithdrawStep ==
  ASSUME Inv, NEW m \in Member, Withdraw(m)
  PROVE  Inv'
<1>1. /\ UNCHANGED <<user, throttle, op, session, req, history, codes, crashed>>
      /\ member' = member \ {m} /\ events < MaxEvents /\ events' = events + 1
  BY DEF Withdraw, Event
<1>2. user' = user /\ owned' = owned /\ bound' = bound /\ welcomed' = welcomed
  BY <1>1 DEF history
<1>3. /\ \A u \in User : Exists(u)' <=> Exists(u)
      /\ \A u \in User, a \in Address : Has(u, a)' <=> Has(u, a)
  BY <1>2 DEF Exists, Has
<1>4. TypeOK'
  <2>1. member' \subseteq {n \in Member : Exists(n[1])'}
    BY <1>1, <1>2 DEF Inv, TypeOK, Exists
  <2>2. \A u, v \in User, a \in Address : Has(u, a)' /\ Has(v, a)' => u = v
    BY <1>3 DEF Inv, TypeOK
  <2>3. events' \in 0 .. MaxEvents
    BY <1>1, AccountsAssumption DEF Inv, TypeOK
  <2>4. /\ user \in [User -> {NoUser} \cup Profiles] /\ throttle \subseteq Realm \X Email /\ crashed \subseteq throttle
        /\ op \in [Op -> {NoOp, Gone} \cup Operations] /\ session \in [Op -> {NoSession} \cup Sessions]
        /\ req \in [Request -> {Idle} \cup Openings \cup Logins \cup Changes]
        /\ owned \subseteq User \X Address /\ bound \in [Member -> Nat] /\ welcomed \in [Member -> Nat]
        /\ codes \in [Realm \X Email -> Nat]
    BY DEF Inv, TypeOK
  <2> QED
    BY <1>1, <1>2, <2>1, <2>2, <2>3, <2>4 DEF TypeOK
<1>5. Grows /\ KeepsLang
  <2>1. \A n \in Member : bound[n] \in Nat
    BY DEF Inv, TypeOK
  <2>2. \A u \in User, realm \in Realm : Withdrawn(u, realm) <= Withdrawn(u, realm)'
    BY <1>1, <1>2, <2>1 DEF Withdrawn, Member
  <2> QED
    BY <1>1, <1>2, <1>3, <2>1, <2>2 DEF Grows, KeepsLang, IsOpen
<1>6. UsersOK'
  BY <1>1, <1>2, <1>3 DEF Inv, UsersOK, RegisteredWhole
<1>7. OpsOK' /\ SessionsOK' /\ ScopesFollowProfile'
  BY <1>1, <1>4, <1>5, TablesGrow
<1>8. RequestsOK'
  <2>1. ASSUME NEW r \in Request PROVE RequestOK(r)'
    BY <1>1, <1>2, <1>4, <1>5, RequestKept DEF Inv, RequestsOK
  <2> QED
    BY <2>1 DEF RequestsOK
<1>9. LocksOK'
  <2>1. \A r \in Request : Locks(r)' = Locks(r)
    BY <1>1 DEF Locks
  <2> QED
    BY <1>1, <2>1, LocksKept DEF Inv
<1> QED
  BY <1>4, <1>6, <1>7, <1>8, <1>9 DEF Inv

\* A binding adds one to the bindings and one to the memberships.
LEMMA InsertFacts ==
  ASSUME Inv, NEW m \in Member, m \notin member, InsertUserRealm(m), Welcome(m)
  PROVE  /\ bound' \in [Member -> Nat] /\ welcomed' \in [Member -> Nat] /\ events' \in 0 .. MaxEvents
         /\ member' = member \cup {m}
         /\ \A n \in Member : bound[n] <= bound'[n] /\ welcomed'[n] <= bound'[n]
         /\ bound'[m] > 0 /\ \A n \in member' : bound'[n] > 0
         /\ \A u \in User, realm \in Realm : Withdrawn(u, realm) <= Withdrawn(u, realm)'
<1>1. /\ bound \in [Member -> Nat] /\ welcomed \in [Member -> Nat] /\ member \subseteq Member
      /\ events \in 0 .. MaxEvents
  BY DEF Inv, TypeOK
<1>2. /\ member' = member \cup {m} /\ bound' = [bound EXCEPT ![m] = bound[m] + 1]
      /\ bound' \in [Member -> Nat]
  BY <1>1 DEF InsertUserRealm
<1>3. \A n \in Member : bound'[n] = IF n = m THEN bound[n] + 1 ELSE bound[n]
  BY <1>1, <1>2
<1>4. /\ welcomed' \in [Member -> Nat] /\ events' \in 0 .. MaxEvents
      /\ \A n \in Member : welcomed'[n] <= welcomed[n] + (IF n = m THEN 1 ELSE 0)
  <2>1. CASE welcomed' = [welcomed EXCEPT ![m] = welcomed[m] + 1] /\ UNCHANGED events
    BY <1>1, <2>1
  <2>2. CASE Event /\ UNCHANGED welcomed
    BY <1>1, <2>2, AccountsAssumption DEF Event
  <2> QED
    BY <2>1, <2>2 DEF Welcome
<1>5. \A n \in Member : bound[n] <= bound'[n]
  BY <1>1, <1>3
<1>6. \A n \in Member : welcomed[n] <= bound[n]
  BY DEF Inv, UsersOK, RegisteredWhole
<1>7. ASSUME NEW n \in Member PROVE welcomed'[n] <= bound'[n]
  <2>1. welcomed'[n] \in Nat /\ bound[n] \in Nat /\ welcomed[n] \in Nat
    BY <1>1, <1>4
  <2>2. welcomed[n] <= bound[n] /\ bound'[n] = bound[n] + (IF n = m THEN 1 ELSE 0)
    BY <1>3, <1>6, <2>1
  <2>3. welcomed'[n] <= welcomed[n] + (IF n = m THEN 1 ELSE 0)
    BY <1>4
  <2> QED
    BY <2>1, <2>2, <2>3
<1>8. bound'[m] > 0 /\ \A n \in member' : bound'[n] > 0
  <2>1. \A n \in member : bound[n] > 0
    BY DEF Inv, UsersOK
  <2> QED
    BY <1>1, <1>2, <1>3, <2>1
<1>9. ASSUME NEW u \in User, NEW realm \in Realm PROVE Withdrawn(u, realm) <= Withdrawn(u, realm)'
  <2>1. <<u, realm>> \in Member /\ u # None
    BY AccountsAssumption DEF Member
  <2>2. bound[<<u, realm>>] \in Nat
    BY <1>1, <2>1
  <2>3. <<u, realm>> \in member' <=> <<u, realm>> \in member \/ <<u, realm>> = m
    BY <1>2
  <2> QED
    BY <1>3, <2>1, <2>2, <2>3 DEF Withdrawn
<1> QED
  BY <1>2, <1>4, <1>5, <1>7, <1>8, <1>9

\* Types of a step that binds a user, or does not.
LEMMA TypeOfBinding ==
  ASSUME TypeOK, UNCHANGED <<throttle, op, session, codes, crashed>>,
         user' \in [User -> {NoUser} \cup Profiles], owned' \subseteq User \X Address,
         \A u, v \in User, a \in Address : Has(u, a)' /\ Has(v, a)' => u = v,
         member' \subseteq {m \in Member : Exists(m[1])'},
         bound' \in [Member -> Nat], welcomed' \in [Member -> Nat], events' \in 0 .. MaxEvents,
         NEW r \in Request, NEW x \in {Idle} \cup Works, req' = [req EXCEPT ![r] = x]
  PROVE  TypeOK' /\ req'[r] = x /\ \A q \in Request \ {r} : req'[q] = req[q]
<1>1. req' \in [Request -> {Idle} \cup Openings \cup Logins \cup Changes]
      /\ req'[r] = x /\ \A q \in Request \ {r} : req'[q] = req[q]
  BY DEF TypeOK, Works
<1>2. /\ throttle' \subseteq Realm \X Email /\ crashed' \subseteq throttle'
      /\ op' \in [Op -> {NoOp, Gone} \cup Operations]
      /\ session' \in [Op -> {NoSession} \cup Sessions]
      /\ codes' \in [Realm \X Email -> Nat]
  BY DEF TypeOK
<1> QED
  BY <1>1, <1>2 DEF TypeOK

\* A user is bound to a realm once, however many requests ask for it.
LEMMA BindStep ==
  ASSUME Inv, NEW r \in Request, Bind(r)
  PROVE  Inv'
<1> DEFINE q == req[r]
<1>1. /\ q \in Logins /\ q.step = "bind" /\ LoginFits(q)
      /\ UNCHANGED <<user, owned, throttle, op, session, codes, crashed>>
  BY RequestFacts DEF Inv, Bind, At, RequestsOK, RequestOK, Fits
<1>2. /\ q.owner \in User /\ Exists(q.owner) /\ q.realm \in Realm /\ q.since \in Nat
      /\ <<q.owner, q.address>> \in owned /\ q.since <= Withdrawn(q.owner, q.realm)
  BY <1>1 DEF LoginFits, Logins
<1>3. PICK m \in Member : m = <<q.owner, q.realm>>
  BY <1>2 DEF Member
<1>4. PICK x : x = [q EXCEPT !.step = "prepare"]
  OBVIOUS
<1>5. /\ x \in Logins /\ x.step = "prepare" /\ x.owner = q.owner
      /\ x.realm = q.realm /\ x.address = q.address /\ x.since = q.since
  BY <1>1, <1>4 DEF Logins
<1>6. req' = [req EXCEPT ![r] = x] /\ x \in {Idle} \cup Works
  BY <1>4, <1>5 DEF Bind, Goes, Works
<1>7. CASE m \in member
  <2>1. UNCHANGED <<user, member, throttle, op, session, history, codes, crashed, events>>
    BY <1>1, <1>3, <1>7 DEF Bind, history
  <2>2. LoginFits(x)
    BY <1>2, <1>5 DEF LoginFits
  <2>3. LoginFits(x)'
    BY <2>1, <2>2 DEF LoginFits, Withdrawn, Exists, history
  <2> QED
    BY <1>1, <1>5, <1>6, <2>1, <2>3, LoginCarries
<1>8. CASE m \notin member
  <2>1. InsertUserRealm(m) /\ Welcome(m)
    BY <1>3, <1>8 DEF Bind
  <2>2. Exists(m[1])'
    BY <1>1, <1>2, <1>3 DEF Exists
  <2>3. /\ bound' \in [Member -> Nat] /\ welcomed' \in [Member -> Nat] /\ events' \in 0 .. MaxEvents
        /\ member' = member \cup {m}
        /\ \A n \in Member : bound[n] <= bound'[n] /\ welcomed'[n] <= bound'[n]
        /\ bound'[m] > 0 /\ \A n \in member' : bound'[n] > 0
        /\ \A u \in User, realm \in Realm : Withdrawn(u, realm) <= Withdrawn(u, realm)'
    BY <1>8, <2>1, InsertFacts
  <2>4. /\ \A u \in User : Exists(u)' <=> Exists(u)
        /\ \A u \in User, a \in Address : Has(u, a)' <=> Has(u, a)
    BY <1>1 DEF Exists, Has
  <2>5. TypeOK' /\ req'[r] = x /\ \A p \in Request \ {r} : req'[p] = req[p]
    <3>1. user' \in [User -> {NoUser} \cup Profiles] /\ owned' \subseteq User \X Address
      BY <1>1 DEF Inv, TypeOK
    <3>2. \A u, v \in User, a \in Address : Has(u, a)' /\ Has(v, a)' => u = v
      BY <2>4 DEF Inv, TypeOK
    <3>3. member' \subseteq {n \in Member : Exists(n[1])'}
      <4>1. \A n \in member : n \in Member /\ n[1] \in User /\ Exists(n[1])
        BY DEF Inv, TypeOK, Member
      <4> QED
        BY <2>2, <2>3, <2>4, <4>1
    <3> QED
      BY <1>1, <1>6, <2>3, <3>1, <3>2, <3>3, TypeOfBinding DEF Inv
  <2>6. Grows /\ KeepsLang
    BY <1>1, <2>3, <2>4 DEF Grows, KeepsLang, IsOpen, Inv, TypeOK
  <2>7. UsersOK'
    <3>1. \A u \in User : Exists(u)' => \E realm \in Realm : bound'[<<u, realm>>] > 0
      <4>1. ASSUME NEW u \in User, Exists(u) PROVE \E realm \in Realm : bound'[<<u, realm>>] > 0
        <5>1. PICK realm \in Realm : bound[<<u, realm>>] > 0
          BY <4>1 DEF Inv, UsersOK, RegisteredWhole
        <5>2. <<u, realm>> \in Member
          BY DEF Member
        <5>3. bound[<<u, realm>>] \in Nat /\ bound'[<<u, realm>>] \in Nat /\ bound[<<u, realm>>] <= bound'[<<u, realm>>]
          BY <2>3, <5>2 DEF Inv, TypeOK
        <5> QED
          BY <5>1, <5>3
      <4> QED
        BY <2>4, <4>1
    <3> QED
      BY <1>1, <2>3, <2>4, <3>1 DEF Inv, UsersOK, RegisteredWhole
  <2>8. OpsOK' /\ SessionsOK' /\ ScopesFollowProfile'
    BY <1>1, <2>5, <2>6, TablesGrow
  <2>9. RequestsOK'
    <3>1. Exists(x.owner)' /\ <<x.owner, x.address>> \in owned'
      BY <1>1, <1>2, <1>5, <2>4
    <3>2. x.since <= Withdrawn(x.owner, x.realm)'
      <4>1. x.owner \in User /\ x.realm \in Realm /\ x.since \in Nat /\ x.since <= Withdrawn(x.owner, x.realm)
        BY <1>2, <1>5
      <4>2. Withdrawn(x.owner, x.realm) <= Withdrawn(x.owner, x.realm)'
        BY <2>3, <4>1
      <4>3. Withdrawn(x.owner, x.realm) \in Int /\ Withdrawn(x.owner, x.realm)' \in Int
        BY <2>5, <4>1, WithdrawnType DEF Inv
      <4> QED
        BY <4>1, <4>2, <4>3
    <3>3. LoginFits(x)'
      BY <1>2, <1>5, <3>1, <3>2 DEF LoginFits
    <3>4. RequestOK(r)'
      BY <1>5, <2>5, <3>3, KindsDiffer DEF RequestOK, Fits, LoginFits
    <3> QED
      BY <2>5, <2>6, <3>4, RequestsKept DEF Inv
  <2>10. LocksOK'
    BY <1>1, <1>5, <2>5, NoLock, SameLock DEF Inv
  <2> QED
    BY <2>5, <2>7, <2>8, <2>9, <2>10 DEF Inv
<1> QED
  BY <1>7, <1>8

\* The user and the membership come at once, and the address had no owner.
LEMMA RegisterStep ==
  ASSUME Inv, NEW r \in Request, NEW u \in User, Register(r, u)
  PROVE  Inv'
<1> DEFINE q == req[r]
<1>1. /\ q \in Logins /\ q.step = "register" /\ LoginFits(q) /\ ~Exists(u)
      /\ UNCHANGED <<throttle, op, session, codes, crashed>>
  BY RequestFacts DEF Inv, Register, At, RequestsOK, RequestOK, Fits
<1>2. /\ q.address \in Email /\ q.address \in Address /\ q.lang \in Lang /\ q.since = 0 /\ q.realm \in Realm
      /\ u # None
  BY <1>1, AccountsAssumption DEF LoginFits, Logins, Address
<1>3. CASE Free(q.address)
  <2>1. PICK m \in Member : m = <<u, q.realm>>
    BY <1>2 DEF Member
  <2>2. /\ user' = [user EXCEPT ![u] = NewUser(q)] /\ owned' = owned \cup {<<u, q.address>>}
        /\ InsertUserRealm(m) /\ Welcome(m)
        /\ req' = [req EXCEPT ![r].step = "prepare", ![r].owner = u]
    BY <1>3, <2>1 DEF Register
  <2>3. m \notin member
    BY <1>1, <2>1 DEF Inv, TypeOK
  <2>4. /\ bound' \in [Member -> Nat] /\ welcomed' \in [Member -> Nat] /\ events' \in 0 .. MaxEvents
        /\ member' = member \cup {m}
        /\ \A n \in Member : bound[n] <= bound'[n] /\ welcomed'[n] <= bound'[n]
        /\ bound'[m] > 0 /\ \A n \in member' : bound'[n] > 0
        /\ \A v \in User, realm \in Realm : Withdrawn(v, realm) <= Withdrawn(v, realm)'
    BY <2>2, <2>3, InsertFacts
  <2>5. /\ user'[u] \in Profiles /\ user'[u].email = q.address /\ user'[u].phone = None
        /\ \A v \in User \ {u} : user'[v] = user[v]
        /\ user' \in [User -> {NoUser} \cup Profiles]
    <3>1. NewUser(q) \in Profiles /\ NewUser(q).email = q.address /\ NewUser(q).phone = None
      BY <1>2 DEF NewUser, Profiles
    <3>2. user \in [User -> {NoUser} \cup Profiles]
      BY DEF Inv, TypeOK
    <3> HIDE DEF q
    <3> QED
      BY <2>2, <3>1, <3>2
  <2>6. /\ Exists(u)' /\ \A v \in User \ {u} : Exists(v)' <=> Exists(v)
        /\ \A a \in Address : Has(u, a)' <=> a = q.address
        /\ \A v \in User \ {u}, a \in Address : Has(v, a)' <=> Has(v, a)
    <3>1. Exists(u)' /\ \A v \in User \ {u} : Exists(v)' <=> Exists(v)
      BY <2>5, RecordsExist DEF Exists
    <3>2. \A v \in User \ {u}, a \in Address : Has(v, a)' <=> Has(v, a)
      BY <2>5, <3>1 DEF Has
    <3>3. \A a \in Address : a # None
      BY AccountsAssumption
    <3>4. ASSUME NEW a \in Address PROVE Has(u, a)' <=> a = q.address
      BY <2>5, <3>1, <3>3 DEF Has
    <3> QED
      BY <3>1, <3>2, <3>4
  <2>7. PICK x : x = [q EXCEPT !.step = "prepare", !.owner = u]
    OBVIOUS
  <2>8. /\ x \in Logins /\ x.step = "prepare" /\ x.owner = u
        /\ x.realm = q.realm /\ x.address = q.address /\ x.since = 0
    BY <1>1, <1>2, <2>7 DEF Logins
  <2>9. req' = [req EXCEPT ![r] = x] /\ x \in {Idle} \cup Works
    BY <2>2, <2>7, <2>8 DEF Inv, TypeOK, Works
  <2>10. TypeOK' /\ req'[r] = x /\ \A p \in Request \ {r} : req'[p] = req[p]
    <3>1. owned' \subseteq User \X Address
      BY <1>2, <2>2 DEF Inv, TypeOK
    <3>2. \A v, w \in User, a \in Address : Has(v, a)' /\ Has(w, a)' => v = w
      <4>1. \A v \in User : ~Has(v, q.address)
        BY <1>3 DEF Free
      <4>2. \A v, w \in User, a \in Address : Has(v, a) /\ Has(w, a) => v = w
        BY DEF Inv, TypeOK
      <4> HIDE DEF q
      <4> QED
        BY <2>6, <4>1, <4>2, <1>2
    <3>3. member' \subseteq {n \in Member : Exists(n[1])'}
      <4>1. \A n \in member : n \in Member /\ n[1] \in User /\ Exists(n[1])
        BY DEF Inv, TypeOK, Member
      <4>2. m[1] = u
        BY <2>1
      <4> QED
        BY <2>4, <2>6, <4>1, <4>2
    <3> QED
      BY <1>1, <2>4, <2>5, <2>9, <3>1, <3>2, <3>3, TypeOfBinding DEF Inv
  <2>11. Grows /\ KeepsLang
    <3>1. \A v \in User : Exists(v) => Exists(v)' /\ user'[v] = user[v]
      BY <1>1, <2>5, <2>6
    <3> QED
      BY <1>1, <2>2, <2>4, <3>1 DEF Grows, KeepsLang, IsOpen
  <2>12. UsersOK'
    <3>1. \A v \in User, a \in Address : Has(v, a)' => <<v, a>> \in owned'
      BY <2>2, <2>6 DEF Inv, UsersOK
    <3>2. ASSUME NEW v \in User, Exists(v)' PROVE \E realm \in Realm : bound'[<<v, realm>>] > 0
      <4>1. CASE v = u
        BY <1>2, <2>1, <2>4, <4>1
      <4>2. CASE v # u
        <5>1. PICK realm \in Realm : bound[<<v, realm>>] > 0
          BY <2>6, <3>2, <4>2 DEF Inv, UsersOK, RegisteredWhole
        <5>2. <<v, realm>> \in Member
          BY DEF Member
        <5>3. bound[<<v, realm>>] \in Nat /\ bound'[<<v, realm>>] \in Nat /\ bound[<<v, realm>>] <= bound'[<<v, realm>>]
          BY <2>4, <5>2 DEF Inv, TypeOK
        <5> QED
          BY <5>1, <5>3
      <4> QED
        BY <4>1, <4>2
    <3> QED
      BY <2>4, <3>1, <3>2 DEF UsersOK, RegisteredWhole
  <2>13. OpsOK' /\ SessionsOK' /\ ScopesFollowProfile'
    BY <1>1, <2>10, <2>11, TablesGrow
  <2>14. RequestsOK'
    <3>1. Exists(x.owner)' /\ <<x.owner, x.address>> \in owned'
      BY <2>2, <2>6, <2>8
    <3>2. x.since <= Withdrawn(x.owner, x.realm)'
      <4>1. x.owner \in User /\ x.realm \in Realm /\ x.since = 0
        BY <1>2, <2>8
      <4>2. Withdrawn(x.owner, x.realm) <= Withdrawn(x.owner, x.realm)'
        BY <2>4, <4>1
      <4>3. Withdrawn(x.owner, x.realm) \in Nat /\ Withdrawn(x.owner, x.realm)' \in Int
        BY <2>10, <4>1, WithdrawnFacts, WithdrawnType DEF Inv
      <4> QED
        BY <4>1, <4>2, <4>3
    <3>3. LoginFits(x)'
      BY <2>8, <3>1, <3>2 DEF LoginFits
    <3>4. RequestOK(r)'
      BY <2>8, <2>10, <3>3, KindsDiffer DEF RequestOK, Fits, LoginFits
    <3> QED
      BY <2>10, <2>11, <3>4, RequestsKept DEF Inv
  <2>15. LocksOK'
    BY <1>1, <2>8, <2>10, NoLock, SameLock DEF Inv
  <2> QED
    BY <2>10, <2>12, <2>13, <2>14, <2>15 DEF Inv
<1>4. CASE ~Free(q.address)
  <2>1. UNCHANGED <<user, member, throttle, op, session, history, codes, crashed, events>> /\ Ends(r)
    BY <1>1, <1>4 DEF Register
  <2>2. req' = [req EXCEPT ![r] = Idle] /\ req'[r] = Idle
    BY <2>1 DEF Ends, Inv, TypeOK
  <2>3. RequestOK(r)' /\ Locks(r)' = Locks(r)
    BY <1>1, <2>2, RequestEnds, NoLock
  <2>4. Idle \in {Idle} \cup Works
    OBVIOUS
  <2> QED
    BY <2>1, <2>2, <2>3, <2>4, CarriesStep
<1> QED
  BY <1>3, <1>4

\* The session is opened and its operation deleted in one transaction.
LEMMA CommitSessionStep ==
  ASSUME Inv, NEW r \in Request, CommitSession(r)
  PROVE  Inv'
<1> DEFINE q == req[r]
           o == q.op
<1>1. /\ q \in Logins /\ q.step = "commit" /\ LoginFits(q)
      /\ UNCHANGED <<user, member, throttle, history, codes, crashed, events>>
      /\ req' = [req EXCEPT ![r] = Idle]
  BY RequestFacts DEF Inv, CommitSession, At, RequestsOK, RequestOK, Fits, Ends
<1>2. /\ q.owner \in User /\ Exists(q.owner) /\ <<q.owner, q.address>> \in owned
      /\ q.realm \in Realm /\ q.address \in Address /\ q.lang \in Lang /\ q.since \in Nat /\ q.late \in BOOLEAN
      /\ q.since < bound[<<q.owner, q.realm>>] /\ (~q.late => q.lang = user[q.owner].lang)
      /\ o \in Op
  BY <1>1 DEF LoginFits, Logins
<1>3. req'[r] = Idle /\ req' \in [Request -> {Idle} \cup Works] /\ \A p \in Request \ {r} : req'[p] = req[p]
  BY <1>1 DEF Inv, TypeOK, Works
<1>4. CASE ~InTable(o)
  <2>1. UNCHANGED <<user, member, throttle, op, session, history, codes, crashed, events>>
    BY <1>1, <1>4 DEF CommitSession
  <2>2. RequestOK(r)' /\ Locks(r)' = Locks(r)
    BY <1>1, <1>3, RequestEnds, NoLock
  <2>3. Idle \in {Idle} \cup Works
    OBVIOUS
  <2> QED
    BY <1>1, <2>1, <2>2, <2>3, CarriesStep
<1>5. CASE InTable(o)
  <2>1. PICK x : x = [user |-> q.owner, realm |-> q.realm, address |-> q.address, since |-> q.since,
                      lang |-> q.lang, late |-> q.late, renewing |-> FALSE]
    OBVIOUS
  <2>2. /\ x \in Sessions /\ x.user = q.owner /\ x.realm = q.realm /\ x.address = q.address
        /\ x.since = q.since /\ x.lang = q.lang /\ x.late = q.late
    BY <1>2, <2>1 DEF Sessions
  <2>3. op' = [op EXCEPT ![o] = Gone] /\ session' = [session EXCEPT ![o] = x]
    BY <1>5, <2>1 DEF CommitSession
  <2>4. ~IsOpen(o)
    BY <1>2, <1>5 DEF Inv, SessionsOK, SessionOK, InTable
  <2>5. /\ op'[o] = Gone /\ session'[o] = x
        /\ \A p \in Op \ {o} : op'[p] = op[p] /\ session'[p] = session[p]
        /\ op' \in [Op -> {NoOp, Gone} \cup Operations]
        /\ session' \in [Op -> {NoSession} \cup Sessions]
    <3>1. op \in [Op -> {NoOp, Gone} \cup Operations] /\ session \in [Op -> {NoSession} \cup Sessions]
      BY DEF Inv, TypeOK
    <3> HIDE DEF o
    <3> QED
      BY <1>2, <2>2, <2>3, <3>1
  <2>6. TypeOK'
    <3>1. /\ throttle' \subseteq Realm \X Email /\ crashed' \subseteq throttle'
          /\ codes' \in [Realm \X Email -> Nat] /\ events' \in 0 .. MaxEvents
      BY <1>1 DEF Inv, TypeOK
    <3> QED
      BY <1>1, <1>3, <2>5, <3>1, TypeKept DEF Inv
  <2>7. x # NoSession
    BY <2>2, RecordsExist
  <2>8. user' = user /\ member' = member /\ owned' = owned /\ bound' = bound
    BY <1>1 DEF history
  <2>9. Grows /\ KeepsLang
    <3>1. \A u \in User, realm \in Realm : Withdrawn(u, realm) \in Int /\ Withdrawn(u, realm)' = Withdrawn(u, realm)
      BY <2>8, WithdrawnType DEF Inv, Withdrawn
    <3>2. \A m \in Member : bound[m] \in Nat
      BY DEF Inv, TypeOK
    <3>3. \A p \in Op : IsOpen(p) => IsOpen(p)' /\ session'[p].user = session[p].user
      BY <2>4, <2>5 DEF IsOpen
    <3> QED
      BY <2>8, <3>1, <3>2, <3>3 DEF Grows, KeepsLang, Exists
  <2>10. UsersOK'
    BY <1>1, UsersKept DEF Inv
  <2>11. OpsOK'
    <3>1. ASSUME NEW p \in Op PROVE OpOK(p)'
      <4>1. CASE op'[p] = Gone
        BY <4>1 DEF OpOK, InTable
      <4>2. CASE op'[p] = op[p]
        BY <2>9, <4>2, OperationKept DEF Inv, OpsOK
      <4> QED
        BY <2>5, <4>1, <4>2
    <3> QED
      BY <3>1 DEF OpsOK
  <2>12. RequestsOK'
    BY <1>3, <2>6, <2>9, RequestEnds, RequestsKept DEF Inv
  <2>13. SessionsOK'
    <3>1. ASSUME NEW p \in Op \ {o} PROVE SessionOK(p)'
      <4>1. SessionOK(p)
        BY DEF Inv, SessionsOK
      <4> QED
        BY <2>5, <2>6, <2>9, <4>1, SessionKept DEF Inv, IsOpen
    <3>2. ASSUME NEW p \in Op, p = o PROVE SessionOK(p)'
      <4>1. session'[p] = x /\ op'[p] = Gone
        BY <2>5, <3>2
      <4>2. Exists(x.user)'
        BY <1>2, <2>2, <2>8 DEF Exists
      <4>3. <<x.user, x.address>> \in owned' /\ bound'[<<x.user, x.realm>>] > x.since
        BY <1>2, <2>2, <2>8
      <4> QED
        BY <4>1, <4>2, <4>3 DEF SessionOK, Exists
    <3> QED
      BY <3>1, <3>2 DEF SessionsOK
  <2>14. ScopesFollowProfile'
    <3>1. ASSUME NEW p \in Op, p # o, IsOpen(p)', ~session'[p].late PROVE session'[p].lang = user'[session'[p].user].lang
      BY <2>5, <2>8, <3>1 DEF Inv, ScopesFollowProfile, IsOpen
    <3>2. ~x.late => x.lang = user[x.user].lang
      BY <1>2, <2>2
    <3> QED
      BY <2>5, <2>8, <3>1, <3>2 DEF ScopesFollowProfile
  <2>15. LocksOK'
    BY <1>1, <1>3, NoLock, SameLock DEF Inv
  <2> QED
    BY <2>6, <2>10, <2>11, <2>12, <2>13, <2>14, <2>15 DEF Inv
<1> QED
  BY <1>4, <1>5

\* A new address is one more that its user has had, and it had no other owner.
LEMMA ApplyAddressStep ==
  ASSUME Inv, NEW o \in Op, ApplyAddress(o)
  PROVE  Inv'
<1>1. PICK u, a : u = op[o].owner /\ a = op[o].address
  OBVIOUS
<1>2. /\ UNCHANGED <<member, throttle, session, req, bound, welcomed, codes, crashed, events>>
      /\ Free(a) \/ Has(u, a)
      /\ user' = UpdateAddress(u, a) /\ owned' = owned \cup {<<u, a>>}
      /\ op' = [op EXCEPT ![o] = Gone]
      /\ op[o].name \in {"email", "phone"}
  BY <1>1 DEF ApplyAddress
<1>3. op[o] \in Operations /\ Whole(op[o])
  BY <1>2, RowFacts DEF Inv, OpsOK, OpOK, Name
<1>4. u \in User /\ Exists(u) /\ a \in Address /\ user[u] \in Profiles
  BY <1>1, <1>2, <1>3, RowFacts DEF Operations, Whole, Inv
<1>5. /\ user' \in [User -> {NoUser} \cup Profiles] /\ \A v \in User \ {u} : user'[v] = user[v]
      /\ user'[u] \in Profiles /\ user'[u].lang = user[u].lang
      /\ user'[u].email \in {user[u].email, a} /\ user'[u].phone \in {user[u].phone, a}
  <2>1. user \in [User -> {NoUser} \cup Profiles]
    BY DEF Inv, TypeOK
  <2>2. CASE a \in Email
    <3>1. PICK x : x = [user[u] EXCEPT !.email = a]
      OBVIOUS
    <3>2. x \in Profiles /\ x.lang = user[u].lang /\ x.email = a /\ x.phone = user[u].phone
      BY <1>4, <2>2, <3>1 DEF Profiles
    <3>3. user' = [user EXCEPT ![u] = x]
      BY <1>2, <2>2, <3>1 DEF UpdateAddress
    <3> QED
      BY <1>4, <2>1, <3>2, <3>3
  <2>3. CASE a \notin Email
    <3>1. PICK x : x = [user[u] EXCEPT !.phone = a]
      OBVIOUS
    <3>2. x \in Profiles /\ x.lang = user[u].lang /\ x.email = user[u].email /\ x.phone = a
      BY <1>4, <2>3, <3>1 DEF Profiles, Address
    <3>3. user' = [user EXCEPT ![u] = x]
      BY <1>2, <2>3, <3>1 DEF UpdateAddress
    <3> QED
      BY <1>4, <2>1, <3>2, <3>3
  <2> QED
    BY <2>2, <2>3
<1>6. /\ \A v \in User : Exists(v)' <=> Exists(v)
      /\ \A v \in User \ {u}, b \in Address : Has(v, b)' <=> Has(v, b)
      /\ \A b \in Address : Has(u, b)' => b = a \/ Has(u, b)
  <2>1. \A v \in User : Exists(v)' <=> Exists(v)
    BY <1>4, <1>5, RecordsExist DEF Exists
  <2>2. \A v \in User \ {u}, b \in Address : Has(v, b)' <=> Has(v, b)
    BY <1>5, <2>1 DEF Has
  <2>3. \A b \in Address : Has(u, b)' => b = a \/ Has(u, b)
    BY <1>4, <1>5 DEF Has
  <2> QED
    BY <2>1, <2>2, <2>3
<1>7. /\ op'[o] = Gone /\ \A p \in Op \ {o} : op'[p] = op[p]
      /\ op' \in [Op -> {NoOp, Gone} \cup Operations]
  BY <1>2 DEF Inv, TypeOK
<1>8. TypeOK'
  <2>1. member' \subseteq {n \in Member : Exists(n[1])'}
    <3>1. \A n \in member : n \in Member /\ n[1] \in User /\ Exists(n[1])
      BY DEF Inv, TypeOK, Member
    <3> QED
      BY <1>2, <1>6, <3>1
  <2>2. \A v, w \in User, b \in Address : Has(v, b)' /\ Has(w, b)' => v = w
    <3>1. \A v, w \in User, b \in Address : Has(v, b) /\ Has(w, b) => v = w
      BY DEF Inv, TypeOK
    <3>2. \A v \in User : Has(v, a) => v = u
      BY <1>2, <1>4, <3>1 DEF Free
    <3>3. \A v \in User, b \in Address : Has(v, b)' => Has(v, b) \/ (v = u /\ b = a)
      BY <1>6
    <3> QED
      BY <3>1, <3>2, <3>3
  <2>3. owned' \subseteq User \X Address
    BY <1>2, <1>4 DEF Inv, TypeOK
  <2>4. /\ throttle' \subseteq Realm \X Email /\ crashed' \subseteq throttle'
        /\ session' \in [Op -> {NoSession} \cup Sessions]
        /\ req' \in [Request -> {Idle} \cup Openings \cup Logins \cup Changes]
        /\ bound' \in [Member -> Nat] /\ welcomed' \in [Member -> Nat]
        /\ codes' \in [Realm \X Email -> Nat] /\ events' \in 0 .. MaxEvents
    BY <1>2 DEF Inv, TypeOK
  <2> QED
    BY <1>5, <1>7, <2>1, <2>2, <2>3, <2>4 DEF TypeOK
<1>9. Grows /\ KeepsLang
  <2>1. \A v \in User, realm \in Realm : Withdrawn(v, realm) \in Int /\ Withdrawn(v, realm)' = Withdrawn(v, realm)
    BY <1>2, WithdrawnType DEF Inv, Withdrawn
  <2>2. \A m \in Member : bound[m] \in Nat
    BY DEF Inv, TypeOK
  <2>3. \A v \in User : user'[v].lang = user[v].lang
    BY <1>5
  <2> QED
    BY <1>2, <1>6, <2>1, <2>2, <2>3 DEF Grows, KeepsLang, IsOpen
<1>10. UsersOK'
  <2>1. \A v \in User, b \in Address : Has(v, b)' => <<v, b>> \in owned'
    BY <1>2, <1>6 DEF Inv, UsersOK
  <2> QED
    BY <1>2, <1>6, <2>1 DEF Inv, UsersOK, RegisteredWhole
<1>11. OpsOK'
  <2>1. ASSUME NEW p \in Op PROVE OpOK(p)'
    <3>1. CASE op'[p] = Gone
      BY <3>1 DEF OpOK, InTable
    <3>2. CASE op'[p] = op[p]
      BY <1>9, <3>2, OperationKept DEF Inv, OpsOK
    <3> QED
      BY <1>7, <3>1, <3>2
  <2> QED
    BY <2>1 DEF OpsOK
<1>12. RequestsOK'
  <2>1. \A r \in Request : At(r, "commit") => req[r].owner \in User
    BY RequestFacts DEF Inv, RequestsOK, RequestOK, Fits, LoginFits, At
  <2>2. ASSUME NEW r \in Request PROVE RequestOK(r)'
    BY <1>2, <1>5, <1>8, <1>9, <2>1, RequestKept DEF Inv, RequestsOK
  <2> QED
    BY <2>2 DEF RequestsOK
<1>13. SessionsOK'
  <2>1. \A p \in Op : op[p] = Gone => op'[p] = Gone
    BY <1>7
  <2> QED
    BY <1>2, <1>8, <1>9, <2>1, SessionsKept DEF Inv
<1>14. ScopesFollowProfile'
  <2>1. \A p \in Op : IsOpen(p) => session[p].user \in User
    BY RowFacts DEF Inv, Sessions
  <2>2. \A v \in User : user'[v].lang = user[v].lang
    BY <1>5
  <2> QED
    BY <1>2, <2>1, <2>2 DEF Inv, ScopesFollowProfile, IsOpen
<1>15. LocksOK'
  <2>1. \A r \in Request : Locks(r)' = Locks(r)
    BY <1>2 DEF Locks
  <2> QED
    BY <1>2, <2>1, LocksKept DEF Inv
<1> QED
  BY <1>8, <1>10, <1>11, <1>12, <1>13, <1>14, <1>15 DEF Inv

----------------------------------------------------------------------------
(* Settings and renewals *)

\* A change of settings sees the sessions its user has.
LEMMA ChangeSettingsStep ==
  ASSUME Inv, NEW r \in Request, NEW u \in User, NEW l \in Lang, ChangeSettings(r, u, l)
  PROVE  Inv'
<1>1. PICK x : x = [kind |-> "settings", step |-> "scopes", owner |-> u, lang |-> l,
                    seen |-> {o \in Op : IsOpen(o) /\ session[o].user = u}]
  OBVIOUS
<1>2. /\ UNCHANGED <<user, member, throttle, op, session, history, codes, crashed>>
      /\ req[r] = Idle /\ Exists(u) /\ req' = [req EXCEPT ![r] = x]
      /\ events < MaxEvents /\ events' = events + 1
  BY <1>1 DEF ChangeSettings, Event
<1>3. x \in Changes /\ x.owner = u /\ x.seen = {o \in Op : IsOpen(o) /\ session[o].user = u}
  BY <1>1 DEF Changes
<1>4. x \in {Idle} \cup Works
  BY <1>3 DEF Works
<1>5. throttle' \subseteq Realm \X Email /\ crashed' \subseteq throttle' /\ events' \in 0 .. MaxEvents
  BY <1>2, AccountsAssumption DEF Inv, TypeOK
<1>6. TypeOK' /\ req'[r] = x /\ \A q \in Request \ {r} : req'[q] = req[q]
  BY <1>2, <1>4, <1>5, TypeOfRequest DEF Inv
<1>7. ChangeFits(x)'
  BY <1>2, <1>3 DEF ChangeFits, Exists, IsOpen
<1>8. RequestOK(r)'
  BY <1>3, <1>6, <1>7, KindsDiffer DEF RequestOK, Fits, ChangeFits
<1>9. UsersOK' /\ OpsOK' /\ RequestsOK' /\ SessionsOK' /\ ScopesFollowProfile'
  BY <1>2, <1>6, <1>8, OwnStep
<1>10. LocksOK'
  <2>1. Locks(r) = {} /\ Locks(r)' = {}
    BY <1>2, <1>3, <1>6, NoLock
  <2> QED
    BY <1>2, <1>6, <2>1, SameLock DEF Inv
<1> QED
  BY <1>6, <1>9, <1>10 DEF Inv

\* A session whose settings or state change keeps its user and its binding.
LEMMA SessionsMoved ==
  ASSUME Inv, TypeOK', UNCHANGED <<member, op, history>>,
         \A u \in User : Exists(u)' <=> Exists(u),
         \A o \in Op : IsOpen(o)' <=> IsOpen(o),
         \A o \in Op : IsOpen(o) => /\ session'[o].user = session[o].user /\ session'[o].realm = session[o].realm
                                  /\ session'[o].address = session[o].address /\ session'[o].since = session[o].since
  PROVE  Grows /\ OpsOK' /\ SessionsOK'
<1>1. member' = member /\ owned' = owned /\ bound' = bound
  BY DEF history
<1>2. Grows
  <2>1. \A u \in User, realm \in Realm : Withdrawn(u, realm) \in Int /\ Withdrawn(u, realm)' = Withdrawn(u, realm)
    BY <1>1, WithdrawnType DEF Inv, Withdrawn
  <2>2. \A m \in Member : bound[m] \in Nat
    BY DEF Inv, TypeOK
  <2> QED
    BY <1>1, <2>1, <2>2 DEF Grows
<1>3. OpsOK'
  BY <1>2, OperationKept DEF Inv, OpsOK
<1>4. SessionsOK'
  <2>1. ASSUME NEW o \in Op PROVE SessionOK(o)'
    <3>1. SessionOK(o) /\ op'[o] = op[o]
      BY DEF Inv, SessionsOK
    <3> QED
      BY <1>2, <3>1, SessionKept DEF Inv
  <2> QED
    BY <2>1 DEF SessionsOK
<1> QED
  BY <1>2, <1>3, <1>4

\* What a renewal does to its session.
LEMMA RenewStep ==
  ASSUME Inv, NEW o \in Op, IsOpen(o), NEW b \in BOOLEAN, session' = [session EXCEPT ![o].renewing = b],
         UNCHANGED <<user, member, throttle, op, history, codes, crashed, events>>,
         req' \in [Request -> {Idle} \cup Works],
         \A r \in Request : req'[r] = req[r] \/ (req[r] \in Changes /\ req'[r] = [req[r] EXCEPT !.seen = @ \ {o}])
  PROVE  Inv'
<1>1. PICK x : x = [session[o] EXCEPT !.renewing = b]
  OBVIOUS
<1>2. /\ x \in Sessions /\ x.user = session[o].user /\ x.realm = session[o].realm /\ x.address = session[o].address
      /\ x.since = session[o].since /\ x.lang = session[o].lang /\ x.late = session[o].late
  <2>1. session[o] \in Sessions
    BY RowFacts DEF Inv
  <2> QED
    BY <1>1, <2>1 DEF Sessions
<1>3. /\ session' = [session EXCEPT ![o] = x] /\ session' \in [Op -> {NoSession} \cup Sessions]
      /\ session'[o] = x /\ \A p \in Op \ {o} : session'[p] = session[p]
  BY <1>1, <1>2 DEF Inv, TypeOK
<1>4. TypeOK'
  <2>1. /\ throttle' \subseteq Realm \X Email /\ crashed' \subseteq throttle'
        /\ op' \in [Op -> {NoOp, Gone} \cup Operations]
        /\ codes' \in [Realm \X Email -> Nat] /\ events' \in 0 .. MaxEvents
    BY DEF Inv, TypeOK
  <2> QED
    BY <1>3, <2>1, TypeKept DEF Inv
<1>5. \A p \in Op : IsOpen(p)' <=> IsOpen(p)
  <2>1. x # NoSession
    BY <1>2, RecordsExist
  <2> QED
    BY <1>3, <2>1 DEF IsOpen
<1>6. \A u \in User : Exists(u)' <=> Exists(u)
  BY DEF Exists
<1>7. \A p \in Op : IsOpen(p) => /\ session'[p].user = session[p].user /\ session'[p].realm = session[p].realm
                                /\ session'[p].address = session[p].address /\ session'[p].since = session[p].since
                                /\ session'[p].lang = session[p].lang /\ session'[p].late = session[p].late
  BY <1>2, <1>3
<1>8. Grows /\ OpsOK' /\ SessionsOK'
  BY <1>4, <1>5, <1>6, <1>7, SessionsMoved
<1>9. UsersOK'
  BY UsersKept DEF Inv
<1>10. RequestsOK'
  <2>1. ASSUME NEW r \in Request, req'[r] = req[r] PROVE RequestOK(r)'
    BY <1>4, <1>8, <2>1, RequestKept DEF Inv, RequestsOK
  <2>2. ASSUME NEW r \in Request, req[r] \in Changes, req'[r] = [req[r] EXCEPT !.seen = @ \ {o}]
        PROVE  RequestOK(r)'
    <3>1. PICK y : y = req'[r]
      OBVIOUS
    <3>2. y \in Changes /\ y.owner = req[r].owner /\ y.seen \subseteq req[r].seen
      BY <2>2, <3>1 DEF Changes
    <3>3. ChangeFits(req[r]) /\ req[r].owner \in User /\ req[r].seen \subseteq Op
      BY <2>2 DEF Inv, RequestsOK, RequestOK, Fits, Changes
    <3>4. ChangeFits(y)'
      BY <1>5, <1>6, <1>7, <3>2, <3>3 DEF ChangeFits
    <3> QED
      BY <3>1, <3>2, <3>4, KindsDiffer DEF RequestOK, Fits, ChangeFits
  <2> QED
    BY <2>1, <2>2 DEF RequestsOK
<1>11. ScopesFollowProfile'
  BY <1>5, <1>7 DEF Inv, ScopesFollowProfile
<1>12. LocksOK'
  <2>1. ASSUME NEW r \in Request, req[r] \in Changes, req'[r] = [req[r] EXCEPT !.seen = @ \ {o}]
        PROVE  Locks(r) = {} /\ Locks(r)' = {}
    <3>1. req'[r] \in Changes
      BY <2>1 DEF Changes
    <3> QED
      BY <2>1, <3>1, NoLock
  <2>2. \A r \in Request : Locks(r)' = Locks(r)
    BY <2>1 DEF Locks
  <2> QED
    BY <2>2, LocksKept DEF Inv
<1> QED
  BY <1>4, <1>8, <1>9, <1>10, <1>11, <1>12 DEF Inv

\* A renewal that begins or is rolled back hides nothing from a change of settings.
LEMMA RenewBeginStep ==
  ASSUME Inv, NEW o \in Op, RenewBegin(o) \/ RenewRollback(o)
  PROVE  Inv'
<1>1. req' \in [Request -> {Idle} \cup Works] /\ \A r \in Request : req'[r] = req[r]
  BY DEF RenewBegin, RenewRollback, Inv, TypeOK, Works
<1>2. CASE RenewBegin(o)
  BY <1>1, <1>2, RenewStep DEF RenewBegin
<1>3. CASE RenewRollback(o)
  BY <1>1, <1>3, RenewStep DEF RenewRollback
<1> QED
  BY <1>2, <1>3

\* The pair of a renewal that commits is not seen by a statement begun before.
LEMMA RenewCommitStep ==
  ASSUME Inv, NEW o \in Op, RenewCommit(o)
  PROVE  Inv'
<1>1. \A r \in Request : At(r, "scopes") => req[r] \in Changes /\ [req[r] EXCEPT !.seen = @ \ {o}] \in Changes
  <2>1. \A q \in Changes : [q EXCEPT !.seen = @ \ {o}] \in Changes
    BY DEF Changes
  <2> QED
    BY <2>1, RequestFacts DEF Inv
<1>2. /\ req' \in [Request -> {Idle} \cup Works]
      /\ \A r \in Request : req'[r] = req[r] \/ (req[r] \in Changes /\ req'[r] = [req[r] EXCEPT !.seen = @ \ {o}])
  BY <1>1 DEF RenewCommit, Inv, TypeOK, Works
<1> QED
  BY <1>2, RenewStep DEF RenewCommit

\* The profile and the sessions seen change together; what was missed is marked.
LEMMA CommitSettingsStep ==
  ASSUME Inv, NEW r \in Request, CommitSettings(r)
  PROVE  Inv'
<1>1. PICK u, l, seen : u = req[r].owner /\ l = req[r].lang /\ seen = req[r].seen
  OBVIOUS
<1>2. /\ UNCHANGED <<member, throttle, op, history, codes, crashed, events>>
      /\ user' = [user EXCEPT ![u].lang = l]
      /\ session' = [o \in Op |-> IF o \in seen THEN [session[o] EXCEPT !.lang = l, !.late = FALSE]
                                  ELSE IF Missed(r, o) THEN [session[o] EXCEPT !.late = TRUE] ELSE session[o]]
      /\ req' = [q \in Request |-> IF q = r THEN Idle
                                   ELSE IF q \in LoginsOf(u) THEN [req[q] EXCEPT !.late = TRUE] ELSE req[q]]
  BY <1>1 DEF CommitSettings
<1>3. /\ u \in User /\ l \in Lang /\ seen \subseteq Op /\ Exists(u)
      /\ \A o \in seen : IsOpen(o) /\ session[o].user = u
      /\ req[r] \in Changes
  <2>1. req[r] \in Changes
    BY RequestFacts DEF Inv, CommitSettings
  <2>2. ChangeFits(req[r])
    BY <2>1 DEF Inv, RequestsOK, RequestOK, Fits
  <2> QED
    BY <1>1, <2>1, <2>2 DEF Changes, ChangeFits
<1>4. /\ user' \in [User -> {NoUser} \cup Profiles] /\ user'[u].lang = l
      /\ \A v \in User \ {u} : user'[v] = user[v]
      /\ user'[u] \in Profiles /\ user'[u].email = user[u].email /\ user'[u].phone = user[u].phone
  <2>1. PICK x : x = [user[u] EXCEPT !.lang = l]
    OBVIOUS
  <2>2. user[u] \in Profiles
    BY <1>3, RowFacts DEF Inv
  <2>3. x \in Profiles /\ x.lang = l /\ x.email = user[u].email /\ x.phone = user[u].phone
    BY <1>3, <2>1, <2>2 DEF Profiles
  <2>4. user' = [user EXCEPT ![u] = x] /\ user \in [User -> {NoUser} \cup Profiles]
    BY <1>2, <2>1 DEF Inv, TypeOK
  <2> QED
    BY <1>3, <2>3, <2>4
<1>5. /\ \A v \in User : Exists(v)' <=> Exists(v)
      /\ \A v \in User, a \in Address : Has(v, a)' <=> Has(v, a)
  <2>1. \A v \in User : Exists(v)' <=> Exists(v)
    BY <1>3, <1>4, RecordsExist DEF Exists
  <2> QED
    BY <1>4, <2>1 DEF Has
<1>6. ASSUME NEW o \in Op
      PROVE  /\ session'[o] \in {NoSession} \cup Sessions
             /\ IsOpen(o)' <=> IsOpen(o)
             /\ IsOpen(o) =>
                  /\ session'[o].user = session[o].user /\ session'[o].realm = session[o].realm
                  /\ session'[o].address = session[o].address /\ session'[o].since = session[o].since
                  /\ IF session[o].user = u THEN session'[o].late \/ session'[o].lang = l
                     ELSE session'[o] = session[o]
  <2>1. IsOpen(o) => session[o] \in Sessions
    BY RowFacts DEF Inv
  <2>2. ~IsOpen(o) => session[o] = NoSession
    BY DEF IsOpen
  <2>3. CASE o \in seen
    <3>1. session'[o] = [session[o] EXCEPT !.lang = l, !.late = FALSE] /\ IsOpen(o) /\ session[o].user = u
      BY <1>2, <1>3, <2>3
    <3>2. PICK x : x = session'[o]
      OBVIOUS
    <3>3. /\ x \in Sessions /\ x.user = session[o].user /\ x.realm = session[o].realm /\ x.lang = l
          /\ x.address = session[o].address /\ x.since = session[o].since
      BY <1>3, <2>1, <3>1, <3>2 DEF Sessions
    <3>4. IsOpen(o)'
      BY <3>2, <3>3, RecordsExist DEF IsOpen
    <3> QED
      BY <3>1, <3>2, <3>3, <3>4
  <2>4. CASE o \notin seen /\ Missed(r, o)
    <3>1. session'[o] = [session[o] EXCEPT !.late = TRUE] /\ IsOpen(o) /\ session[o].user = u
      BY <1>1, <1>2, <2>4 DEF Missed
    <3>2. PICK x : x = session'[o]
      OBVIOUS
    <3>3. /\ x \in Sessions /\ x.user = session[o].user /\ x.realm = session[o].realm /\ x.late = TRUE
          /\ x.address = session[o].address /\ x.since = session[o].since
      BY <2>1, <3>1, <3>2 DEF Sessions
    <3>4. IsOpen(o)'
      BY <3>2, <3>3, RecordsExist DEF IsOpen
    <3> QED
      BY <3>1, <3>2, <3>3, <3>4
  <2>5. CASE o \notin seen /\ ~Missed(r, o)
    <3>1. session'[o] = session[o] /\ (IsOpen(o) => session[o].user # u)
      BY <1>1, <1>2, <2>5 DEF Missed
    <3> QED
      BY <2>1, <2>2, <3>1 DEF IsOpen
  <2> QED
    BY <2>3, <2>4, <2>5
<1>7. ASSUME NEW q \in Request \ {r}
      PROVE  \/ req'[q] = req[q] /\ ~(At(q, "commit") /\ req[q].owner = u)
             \/ /\ req[q] \in Logins /\ req[q].step = "commit" /\ req[q].owner = u
                /\ req'[q] = [req[q] EXCEPT !.late = TRUE]
  <2>1. CASE q \in LoginsOf(u)
    <3>1. At(q, "commit") /\ req[q].owner = u /\ req'[q] = [req[q] EXCEPT !.late = TRUE]
      BY <1>2, <2>1 DEF LoginsOf
    <3>2. req[q] \in Logins /\ req[q].step = "commit"
      BY <3>1, RequestFacts DEF Inv, At
    <3> QED
      BY <3>1, <3>2
  <2>2. CASE q \notin LoginsOf(u)
    BY <1>2, <2>2 DEF LoginsOf
  <2> QED
    BY <2>1, <2>2
<1>8. /\ req'[r] = Idle /\ req' \in [Request -> {Idle} \cup Openings \cup Logins \cup Changes]
      /\ \A q \in Request \ {r} : req[q] \in Logins /\ req'[q] = [req[q] EXCEPT !.late = TRUE] => req'[q] \in Logins
  <2>1. \A q \in Logins : [q EXCEPT !.late = TRUE] \in Logins
    BY DEF Logins
  <2>2. \A q \in Request : req'[q] \in {Idle} \cup Openings \cup Logins \cup Changes
    <3>1. \A q \in Request : req[q] \in {Idle} \cup Openings \cup Logins \cup Changes
      BY DEF Inv, TypeOK
    <3>2. req'[r] = Idle
      BY <1>2
    <3>3. ASSUME NEW q \in Request \ {r} PROVE req'[q] \in {Idle} \cup Openings \cup Logins \cup Changes
      <4>1. CASE req'[q] = req[q]
        BY <3>1, <4>1
      <4>2. CASE req[q] \in Logins /\ req'[q] = [req[q] EXCEPT !.late = TRUE]
        BY <2>1, <4>2
      <4> QED
        BY <1>7, <4>1, <4>2
    <3> QED
      BY <3>2, <3>3
  <2>3. req' = [q \in Request |-> req'[q]]
    BY <1>2
  <2> QED
    BY <1>2, <2>1, <2>2, <2>3
<1>9. TypeOK'
  <2>1. member' \subseteq {n \in Member : Exists(n[1])'}
    <3>1. \A n \in member : n \in Member /\ n[1] \in User /\ Exists(n[1])
      BY DEF Inv, TypeOK, Member
    <3> QED
      BY <1>2, <1>5, <3>1
  <2>2. \A v, w \in User, a \in Address : Has(v, a)' /\ Has(w, a)' => v = w
    BY <1>5 DEF Inv, TypeOK
  <2>3. session' \in [Op -> {NoSession} \cup Sessions]
    <3>1. \A o \in Op : session'[o] \in {NoSession} \cup Sessions
      BY <1>6
    <3>2. session' = [o \in Op |-> session'[o]]
      BY <1>2
    <3> QED
      BY <3>1, <3>2
  <2>4. /\ throttle' \subseteq Realm \X Email /\ crashed' \subseteq throttle'
        /\ op' \in [Op -> {NoOp, Gone} \cup Operations]
        /\ owned' \subseteq User \X Address
        /\ bound' \in [Member -> Nat] /\ welcomed' \in [Member -> Nat]
        /\ codes' \in [Realm \X Email -> Nat] /\ events' \in 0 .. MaxEvents
    BY <1>2 DEF Inv, TypeOK, history
  <2> QED
    BY <1>4, <1>8, <2>1, <2>2, <2>3, <2>4 DEF TypeOK
<1>10. Grows /\ OpsOK' /\ SessionsOK'
  BY <1>2, <1>5, <1>6, <1>9, SessionsMoved
<1>11. UsersOK'
  <2>1. member' = member /\ owned' = owned /\ bound' = bound /\ welcomed' = welcomed
    BY <1>2 DEF history
  <2> QED
    BY <1>5, <2>1 DEF Inv, UsersOK, RegisteredWhole
<1>12. RequestsOK'
  <2>1. RequestOK(r)'
    BY <1>8, RequestEnds
  <2>2. ASSUME NEW q \in Request \ {r}, req'[q] = req[q], ~(At(q, "commit") /\ req[q].owner = u)
        PROVE  RequestOK(q)'
    <3>1. At(q, "commit") => req[q].owner \in User
      BY RequestFacts DEF Inv, RequestsOK, RequestOK, Fits, LoginFits, At
    <3>2. At(q, "commit") => user'[req[q].owner].lang = user[req[q].owner].lang
      BY <1>4, <2>2, <3>1
    <3> QED
      BY <1>9, <1>10, <2>2, <3>2, RequestKept DEF Inv, RequestsOK
  <2>3. ASSUME NEW q \in Request \ {r}, req[q] \in Logins, req[q].step = "commit", req[q].owner = u,
               req'[q] = [req[q] EXCEPT !.late = TRUE]
        PROVE  RequestOK(q)'
    <3>1. PICK x : x = req'[q]
      OBVIOUS
    <3>2. /\ x \in Logins /\ x.owner = u /\ x.realm = req[q].realm /\ x.address = req[q].address /\ x.step = "commit"
          /\ x.since = req[q].since /\ x.lang = req[q].lang /\ x.late = TRUE
      BY <2>3, <3>1 DEF Logins
    <3>3. LoginFits(req[q])
      BY <2>3 DEF Inv, RequestsOK, RequestOK, Fits
    <3>4. /\ <<x.owner, x.address>> \in owned /\ x.since <= Withdrawn(x.owner, x.realm) /\ x.lang \in Lang
          /\ x.since < bound[<<x.owner, x.realm>>]
      BY <2>3, <3>2, <3>3 DEF LoginFits
    <3>5. member' = member /\ owned' = owned /\ bound' = bound
      BY <1>2 DEF history
    <3>6. LoginFits(x)'
      BY <1>3, <1>5, <3>2, <3>4, <3>5 DEF LoginFits, Withdrawn
    <3> QED
      BY <3>1, <3>2, <3>6, KindsDiffer DEF RequestOK, Fits, LoginFits
  <2> QED
    BY <1>7, <2>1, <2>2, <2>3 DEF RequestsOK
<1>13. ScopesFollowProfile'
  <2>1. ASSUME NEW o \in Op, IsOpen(o)', ~session'[o].late
        PROVE  session'[o].lang = user'[session'[o].user].lang
    <3>1. IsOpen(o) /\ session'[o].user = session[o].user /\ session[o].user \in User
      BY <1>6, <2>1, RowFacts DEF Inv, Sessions
    <3>2. CASE session[o].user = u
      BY <1>4, <1>6, <2>1, <3>1, <3>2
    <3>3. CASE session[o].user # u
      BY <1>4, <1>6, <2>1, <3>1, <3>3 DEF Inv, ScopesFollowProfile
    <3> QED
      BY <3>2, <3>3
  <2> QED
    BY <2>1 DEF ScopesFollowProfile
<1>14. LocksOK'
  <2>1. ASSUME NEW q \in Request PROVE Locks(q)' = Locks(q)
    <3>1. CASE q = r
      BY <1>3, <1>8, <3>1, NoLock
    <3>2. CASE q # r /\ req'[q] = req[q]
      BY <3>2 DEF Locks
    <3>3. CASE q # r /\ req[q] \in Logins /\ req'[q] = [req[q] EXCEPT !.late = TRUE]
      <4>1. req'[q] \in Logins
        BY <1>8, <3>3
      <4> QED
        BY <3>3, <4>1, NoLock
    <3> QED
      BY <1>7, <3>1, <3>2, <3>3
  <2> QED
    BY <1>2, <2>1, LocksKept DEF Inv
<1> QED
  BY <1>9, <1>10, <1>11, <1>12, <1>13, <1>14 DEF Inv

----------------------------------------------------------------------------
(* The invariant and the properties *)

\* The tables are empty, or hold one user who is registered.
LEMMA InitInv == Init => Inv
<1> SUFFICES ASSUME Init PROVE Inv
  OBVIOUS
<1>1. /\ op = [o \in Op |-> NoOp] /\ session = [o \in Op |-> NoSession] /\ req = [r \in Request |-> Idle]
      /\ throttle = {} /\ crashed = {} /\ events = 0 /\ codes = [k \in Realm \X Email |-> 0]
      /\ bound = [m \in Member |-> IF m \in member THEN 1 ELSE 0] /\ welcomed = bound
  BY DEF Init
<1>2. /\ user \in [User -> {NoUser} \cup Profiles]
      /\ member \subseteq Member /\ owned \subseteq User \X Address
      /\ \A m \in member : m[1] \in User /\ Exists(m[1])
      /\ \A u, v \in User, a \in Address : Has(u, a) /\ Has(v, a) => u = v
      /\ \A u \in User, a \in Address : Has(u, a) => <<u, a>> \in owned
      /\ \A u \in User : Exists(u) => \E realm \in Realm : <<u, realm>> \in member
  <2>1. CASE user = [u \in User |-> NoUser] /\ member = {} /\ owned = {}
    BY <2>1 DEF Exists, Has
  <2>2. CASE \E u \in User, e \in Email, realm \in Realm, l \in Lang :
               /\ user = [v \in User |-> IF v = u THEN [email |-> e, phone |-> None, lang |-> l] ELSE NoUser]
               /\ member = {<<u, realm>>} /\ owned = {<<u, e>>}
    <3>1. PICK u \in User, e \in Email, realm \in Realm, l \in Lang :
               /\ user = [v \in User |-> IF v = u THEN [email |-> e, phone |-> None, lang |-> l] ELSE NoUser]
               /\ member = {<<u, realm>>} /\ owned = {<<u, e>>}
      BY <2>2
    <3>2. PICK x : x = [email |-> e, phone |-> None, lang |-> l]
      OBVIOUS
    <3>3. x \in Profiles /\ x.email = e /\ x.phone = None
      BY <3>2 DEF Profiles
    <3>4. /\ user = [v \in User |-> IF v = u THEN x ELSE NoUser] /\ user[u] = x
          /\ \A v \in User \ {u} : user[v] = NoUser
          /\ user \in [User -> {NoUser} \cup Profiles]
      BY <3>1, <3>2, <3>3
    <3>5. Exists(u) /\ \A v \in User \ {u} : ~Exists(v)
      BY <3>3, <3>4, RecordsExist DEF Exists
    <3>6. \A v \in User, a \in Address : Has(v, a) => v = u /\ a = e
      BY <3>3, <3>4, <3>5, AccountsAssumption DEF Has
    <3> QED
      BY <3>1, <3>4, <3>5, <3>6 DEF Member, Address
  <2> QED
    BY <2>1, <2>2 DEF Init
<1>3. \A m \in Member : bound[m] = (IF m \in member THEN 1 ELSE 0) /\ welcomed[m] = bound[m]
  BY <1>1
<1>4. \A o \in Op : op[o] = NoOp /\ ~InTable(o) /\ ~IsOpen(o)
  BY <1>1 DEF InTable, IsOpen
<1>5. TypeOK
  <2>1. /\ bound \in [Member -> Nat] /\ welcomed \in [Member -> Nat] /\ codes \in [Realm \X Email -> Nat]
        /\ events \in 0 .. MaxEvents
    BY <1>1, AccountsAssumption
  <2>2. /\ op \in [Op -> {NoOp, Gone} \cup Operations] /\ session \in [Op -> {NoSession} \cup Sessions]
        /\ req \in [Request -> {Idle} \cup Openings \cup Logins \cup Changes]
        /\ throttle \subseteq Realm \X Email /\ crashed \subseteq throttle
    BY <1>1
  <2>3. member \subseteq {m \in Member : Exists(m[1])}
    BY <1>2
  <2> QED
    BY <1>2, <2>1, <2>2, <2>3 DEF TypeOK
<1>6. UsersOK
  <2>1. \A u \in User : Exists(u) => \E realm \in Realm : bound[<<u, realm>>] > 0
    <3>1. \A m \in member : m \in Member /\ bound[m] > 0
      BY <1>2, <1>3
    <3> QED
      BY <1>2, <3>1
  <2>2. \A m \in Member : welcomed[m] <= bound[m]
    BY <1>3
  <2> QED
    BY <1>2, <1>3, <2>1, <2>2 DEF UsersOK, RegisteredWhole
<1>7. OpsOK /\ SessionsOK /\ ScopesFollowProfile
  BY <1>4 DEF OpsOK, OpOK, SessionsOK, SessionOK, ScopesFollowProfile
<1>8. RequestsOK
  BY <1>1, KindsDiffer DEF RequestsOK, RequestOK, Fits
<1>9. LocksOK
  BY <1>1 DEF LocksOK, OneCodePerLock, Locks
<1> QED
  BY <1>5, <1>6, <1>7, <1>8, <1>9 DEF Inv

\* Every step keeps the invariant.
LEMMA NextInv == Inv /\ [Next]_vars => Inv'
<1> SUFFICES ASSUME Inv, [Next]_vars PROVE Inv'
  OBVIOUS
<1>1. ASSUME NEW r \in Request, NEW realm \in Realm, NEW e \in Email, NEW l \in Lang, Signup(r, realm, e, l)
      PROVE  Inv'
  BY <1>1, SignupStep
<1>2. ASSUME NEW r \in Request, NEW realm \in Realm, NEW a \in Address, Signin(r, realm, a)
      PROVE  Inv'
  BY <1>2, SigninStep
<1>3. ASSUME NEW r \in Request, NEW u \in User, NEW a \in Address, ChangeAddress(r, u, a)
      PROVE  Inv'
  BY <1>3, ChangeAddressStep
<1>4. ASSUME NEW r \in Request,
             \/ FetchOwner(r) \/ LookUp(r) \/ Bind(r) \/ PrepareAuthorization(r)
             \/ CommitSession(r) \/ CommitSettings(r) \/ RequestFails(r) \/ RequestLost(r)
      PROVE  Inv'
  BY <1>4, FetchOwnerStep, LookUpStep, BindStep, PrepareAuthorizationStep, CommitSessionStep,
     CommitSettingsStep, RequestFailsStep, RequestLostStep
<1>5. ASSUME NEW r \in Request, NEW o \in Op, OpenOperation(r, o) \/ OpenSession(r, o)
      PROVE  Inv'
  BY <1>5, OpenOperationStep, OpenSessionStep
<1>6. ASSUME NEW r \in Request, NEW u \in User, Register(r, u) \/ \E l \in Lang : ChangeSettings(r, u, l)
      PROVE  Inv'
  BY <1>6, RegisterStep, ChangeSettingsStep
<1>7. ASSUME NEW o \in Op,
             OperationExpires(o) \/ ApplyAddress(o) \/ RenewBegin(o) \/ RenewCommit(o) \/ RenewRollback(o)
      PROVE  Inv'
  BY <1>7, OperationExpiresStep, ApplyAddressStep, RenewBeginStep, RenewCommitStep
<1>8. ASSUME NEW k \in Realm \X Email, ThrottleExpires(k)
      PROVE  Inv'
  BY <1>8, ThrottleExpiresStep
<1>9. ASSUME NEW m \in Member, Withdraw(m)
      PROVE  Inv'
  BY <1>9, WithdrawStep
<1>10. CASE UNCHANGED vars
  <2>1. UNCHANGED <<user, member, throttle, op, session, req, history, codes, crashed, events>>
    BY <1>10 DEF vars, history
  <2>2. TypeOK'
    <3>1. /\ throttle' \subseteq Realm \X Email /\ crashed' \subseteq throttle'
          /\ codes' \in [Realm \X Email -> Nat] /\ events' \in 0 .. MaxEvents
          /\ op' \in [Op -> {NoOp, Gone} \cup Operations]
          /\ session' \in [Op -> {NoSession} \cup Sessions]
          /\ req' \in [Request -> {Idle} \cup Works]
      BY <2>1 DEF Inv, TypeOK, Works
    <3> QED
      BY <2>1, <3>1, TypeKept DEF Inv
  <2>3. Grows /\ KeepsLang
    BY <2>1, SameGrows DEF Inv
  <2>4. UsersOK'
    BY <2>1, UsersKept DEF Inv
  <2>5. OpsOK' /\ SessionsOK' /\ ScopesFollowProfile'
    BY <2>1, <2>2, <2>3, TablesGrow
  <2>6. RequestsOK'
    <3>1. ASSUME NEW r \in Request PROVE RequestOK(r)'
      BY <2>1, <2>2, <2>3, RequestKept DEF Inv, RequestsOK
    <3> QED
      BY <3>1 DEF RequestsOK
  <2>7. LocksOK'
    <3>1. \A r \in Request : Locks(r)' = Locks(r)
      BY <2>1 DEF Locks
    <3> QED
      BY <2>1, <3>1, LocksKept DEF Inv
  <2> QED
    BY <2>2, <2>4, <2>5, <2>6, <2>7 DEF Inv
<1> QED
  BY <1>1, <1>2, <1>3, <1>4, <1>5, <1>6, <1>7, <1>8, <1>9, <1>10 DEF Next

\* Inv holds in every reachable state.
THEOREM Invariance == Spec => []Inv
<1>1. Init => Inv
  BY InitInv
<1>2. Inv /\ [Next]_vars => Inv'
  BY NextInv
<1> QED
  BY <1>1, <1>2, PTL DEF Spec

\* The unique indexes and foreign keys of users and users_realms: an address
\* has one owner, and only users that exist are members of a realm.
THEOREM TypeIsKept == Spec => []TypeOK
<1>1. Inv => TypeOK
  BY DEF Inv
<1> QED
  BY <1>1, Invariance, PTL

\* ResolveUser: every user there is has been bound to a realm, and a binding
\* is announced once, however many requests of an operation run side by side.
THEOREM RegistrationIsWhole == Spec => []RegisteredWhole
<1>1. Inv => RegisteredWhole
  BY DEF Inv, UsersOK
<1> QED
  BY <1>1, Invariance, PTL

\* OpenSession.Execute: a session belongs to a user who has had the address the
\* operation was confirmed at, and who was a member since its request began.
THEOREM SessionGoesToAddressee == Spec => []SessionOfAddressee
<1>1. Inv => SessionOfAddressee
  BY DEF Inv, SessionsOK, SessionOK, SessionOfAddressee
<1> QED
  BY <1>1, Invariance, PTL

\* CreateUser.Execute: one code per lock of signup, and no lock stays without
\* one but that of a request at work or lost.
THEOREM LockThrottlesSignup == Spec => []OneCodePerLock
<1>1. Inv => OneCodePerLock
  BY DEF Inv, LocksOK
<1> QED
  BY <1>1, Invariance, PTL

\* ChangeSettings.Execute: a session has the settings of the profile unless it
\* was opened or renewed while they changed.
THEOREM ScopesAreTheProfiles == Spec => []ScopesFollowProfile
<1>1. Inv => ScopesFollowProfile
  BY DEF Inv
<1> QED
  BY <1>1, Invariance, PTL
=============================================================================
