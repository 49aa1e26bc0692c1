--------------------------- MODULE ActivityProofs ---------------------------
(***************************************************************************)
(* Proofs about Activity, for any sessions, members, workers and bounds.   *)
(***************************************************************************)
EXTENDS Activity, FiniteSetsExt, WellFoundedInduction, TLAPS

(* A set of times that is not empty has a latest one. *)
LEMMA MaxIs ==
  ASSUME NEW N \in Nat, NEW S \in SUBSET (0..N), S # {}
  PROVE  Max(S) \in S /\ \A y \in S : y <= Max(S)
<1> DEFINE T == {n \in Nat : N - n \in S}
           R == OpToRel(<, Nat)
<1>1. T \subseteq Nat /\ T # {}
  <2>1. PICK s \in S : TRUE
    OBVIOUS
  <2>2. N - s \in Nat /\ N - (N - s) = s
    OBVIOUS
  <2> QED BY <2>2
<1>2. IsWellFoundedOn(R, Nat)
  BY NatLessThanWellFounded
<1>3. PICK x \in T : \A y \in T : ~ (<<y, x>> \in R)
  <2> HIDE DEF T, R
  <2> QED BY <1>1, <1>2, WFMin
<1>4. \A y \in T : ~ (y < x)
  BY <1>3 DEF OpToRel
<1>5. N - x \in S /\ \A y \in S : y <= N - x
  <2>1. ASSUME NEW y \in S PROVE y <= N - x
    <3>1. N - y \in Nat /\ N - (N - y) = y
      OBVIOUS
    <3>2. N - y \in T
      BY <3>1
    <3> QED BY <3>1, <3>2, <1>4
  <2> QED BY <2>1
<1>6. \E m \in S : \A y \in S : m >= y
  BY <1>5
<1>7. Max(S) \in S /\ \A y \in S : Max(S) >= y
  BY <1>6, Zenon DEF Max
<1> QED BY <1>7

(* It is the only member that none exceeds. *)
LEMMA MaxEq ==
  ASSUME NEW N \in Nat, NEW S \in SUBSET (0..N), NEW m \in S, \A y \in S : y <= m
  PROVE  Max(S) = m
<1>1. Max(S) \in S /\ \A y \in S : y <= Max(S)
  BY MaxIs
<1>2. \A x, y \in S : x <= y /\ y <= x => x = y
  OBVIOUS
<1>3. Max(S) <= m /\ m <= Max(S)
  BY <1>1, Zenon
<1> QED BY <1>1, <1>2, <1>3, Zenon

(* The parts of the inductive invariant *)

(* A worker is idle or has a batch of messages that were sent. *)
WorkOK ==
  work \in [Worker -> {Idle} \cup [batch : SUBSET Sent, step : {"sessions", "stat", "log"}]]

(* A message is in one place at a time, and one that waits to be written was
   logged only by statements that reported an error. *)
Unlogged ==
  /\ \A w \in Worker : work[w] # Idle =>
       work[w].batch \cap queue = {} /\ \A n \in work[w].batch : copies[n] = unheard[n]
  /\ \A v, w \in Worker : v # w /\ work[v] # Idle /\ work[w] # Idle =>
       work[v].batch \cap work[w].batch = {}
  /\ \A n \in Number : n \in queue \/ n \notin Sent => copies[n] = unheard[n]

(* A session is visited after it was opened. *)
Opened ==
  /\ \A s \in Session : session[s].created <= clock
  /\ \A n \in Sent, s \in Session : message[n].session = s =>
       login[s].open /\ session[s].created <= message[n].at

(* RowIsLatestVisit of one session, row by row: its last visit is one of
   those written, or its opening, and no other is later. *)
IsLatest(s) ==
  HasRow(s) =>
    /\ session[s].created <= session[s].updated
    /\ \A n \in Visits(flushed, s) : message[n].at <= session[s].updated
    /\ \/ /\ session[s].ip \in Visits(flushed, s)
          /\ message[session[s].ip].at = session[s].updated
       \/ /\ session[s].ip = 0 /\ Visits(flushed, s) = {}
          /\ session[s].updated = session[s].created

StatOK == \A m \in Member : stat[m].logged <= stat[m].visited

Inv ==
  /\ TypeOK
  /\ WorkOK
  /\ Unlogged
  /\ LoggedOnceUnlessUnheard
  /\ Opened
  /\ \A s \in Session : IsLatest(s)
  /\ StatOK

-----------------------------------------------------------------------------
(* The messages are numbered from 1. *)
LEMMA SentIs ==
  ASSUME TypeOK
  PROVE  /\ Sent = 1..Len(message) /\ Sent \subseteq Number /\ Len(message) \in Nat
         /\ \A n \in Sent : message[n] \in Messages
BY Activity_Assumption DEF TypeOK, Sent, Number

(* The rows of a table: one that is none, and the types of the others. *)
LEMMA RowIs ==
  ASSUME TypeOK, NEW s \in Session
  PROVE  /\ session[s].created \in Int /\ session[s].updated \in Int
         /\ HasRow(s) => session[s] \in [created : Time, updated : Time, ip : 0 .. MaxMessages]
         /\ ~HasRow(s) => session[s] = NoRow
BY Activity_Assumption DEF TypeOK, NoRow, NoTime, HasRow, Time

(* What is to be shown follows from the invariant. *)
LEMMA InvImplies == Inv => LoggedOnceUnlessUnheard /\ RowIsLatestVisit
<1> SUFFICES ASSUME Inv PROVE LoggedOnceUnlessUnheard /\ RowIsLatestVisit
  OBVIOUS
<1>1. ASSUME NEW s \in Session, HasRow(s)
      PROVE  LET seen == Visits(flushed, s)
             IN /\ session[s].updated = Max({session[s].created} \cup {message[n].at : n \in seen})
                /\ session[s].ip \in seen \/ (session[s].ip = 0 /\ seen = {})
                /\ session[s].ip # 0 => message[session[s].ip].at = session[s].updated
  <2> DEFINE seen == Visits(flushed, s)
             S == {session[s].created} \cup {message[n].at : n \in seen}
  <2>1. IsLatest(s) /\ TypeOK
    BY DEF Inv
  <2>2. MaxClock \in Nat /\ Time = 0..MaxClock
    BY Activity_Assumption DEF Time
  <2>3. session[s].created \in Time /\ session[s].updated \in Time
    BY <1>1, <2>1, RowIs
  <2>4. \A n \in seen : message[n].at \in Time
    BY <2>1, SentIs DEF TypeOK, Visits, Messages
  <2>5. S \in SUBSET (0..MaxClock)
    BY <2>2, <2>3, <2>4
  <2>6. session[s].updated \in S
    BY <1>1, <2>1 DEF IsLatest
  <2>7. \A y \in S : y <= session[s].updated
    BY <1>1, <2>1 DEF IsLatest
  <2>8. Max(S) = session[s].updated
    <3> HIDE DEF S
    <3> QED BY <2>2, <2>5, <2>6, <2>7, MaxEq
  <2> QED BY <1>1, <2>1, <2>8 DEF IsLatest
<1>2. LoggedOnceUnlessUnheard /\ \A m \in Member : stat[m].logged <= stat[m].visited
  BY DEF Inv, StatOK
<1> QED BY <1>1, <1>2 DEF RowIsLatestVisit

(* Nothing has been sent to begin with. *)
LEMMA InvInit == Init => Inv
<1> SUFFICES ASSUME Init PROVE Inv
  OBVIOUS
<1> USE Activity_Assumption DEF Init
<1>1. Sent = {} /\ message \in Seq(Messages) /\ Len(message) = 0
  BY DEF Sent
<1>2. PICK m \in [Session -> Member] :
        login = [s \in Session |-> [member |-> m[s], now |-> NoTime, open |-> FALSE]]
  OBVIOUS
<1>3. login \in [Session -> [member : Member, now : Time \cup {NoTime}, open : BOOLEAN]]
  BY <1>2
<1>4. TypeOK
  BY <1>1, <1>3 DEF TypeOK, Time
<1>5. \A s \in Session : ~HasRow(s) /\ session[s].created <= clock
  BY DEF HasRow, NoRow, NoTime
<1>6. StatOK
  BY DEF StatOK, NoStat, NoTime
<1> QED BY <1>1, <1>4, <1>5, <1>6 DEF Inv, WorkOK, Unlogged, LoggedOnceUnlessUnheard, Opened, IsLatest

-----------------------------------------------------------------------------
(* Steps *)

(* Opening a session gives it a row as old as the session itself. *)
LEMMA OpenSessionStep ==
  ASSUME Inv, NEW s \in Session, OpenSession(s)
  PROVE  Inv'
<1> USE Activity_Assumption DEF OpenSession
<1>1. clock \in Time /\ Time \subseteq Nat /\ Time = 0..MaxClock
  BY DEF Inv, TypeOK, Time
<1>2. TypeOK'
  <2>1. session' \in [Session -> [created : Time, updated : Time, ip : 0 .. MaxMessages] \cup {NoRow}]
    BY <1>1 DEF Inv, TypeOK
  <2>2. login' \in [Session -> [member : Member, now : Time \cup {NoTime}, open : BOOLEAN]]
    <3>1. login[s] \in [member : Member, now : Time \cup {NoTime}, open : BOOLEAN]
      BY DEF Inv, TypeOK
    <3>2. [[login[s] EXCEPT !.now = clock] EXCEPT !.open = TRUE]
            \in [member : Member, now : Time \cup {NoTime}, open : BOOLEAN]
      BY <3>1, <1>1
    <3> QED BY <3>2 DEF Inv, TypeOK
  <2> QED BY <2>1, <2>2 DEF Inv, TypeOK, Sent
<1>3. /\ \A t \in Session \ {s} : session'[t] = session[t]
      /\ \A t \in Session \ {s} : login'[t].open = login[t].open
      /\ session'[s] = [created |-> clock, updated |-> clock, ip |-> 0]
  BY DEF Inv, TypeOK
<1>4. \A n \in Sent : message[n].session # s
  BY DEF Inv, Opened
<1>5. Opened'
  <2>1. \A t \in Session : session'[t].created <= clock
    BY <1>1, <1>3 DEF Inv, Opened
  <2>2. ASSUME NEW n \in Sent, NEW t \in Session, message[n].session = t
        PROVE  login'[t].open /\ session'[t].created <= message[n].at
    <3>1. t # s
      BY <1>4, <2>2
    <3>2. login[t].open /\ session[t].created <= message[n].at
      BY <2>2 DEF Inv, Opened
    <3>3. login'[t].open = login[t].open /\ session'[t] = session[t]
      BY <1>3, <3>1
    <3> QED BY <3>2, <3>3, Zenon
  <2> QED BY <2>1, <2>2 DEF Opened, Sent
<1>6. Visits(flushed, s) = {}
  BY <1>4 DEF Inv, TypeOK, Visits
<1>7. ASSUME NEW t \in Session PROVE IsLatest(t)'
  <2>1. Visits(flushed, t)' = Visits(flushed, t)
    BY DEF Visits
  <2>2. message' = message
    OBVIOUS
  <2>3. CASE t = s
    BY <1>1, <1>3, <1>6, <2>1, <2>3 DEF IsLatest
  <2>4. CASE t # s
    <3>1. IsLatest(t) /\ session'[t] = session[t]
      BY <1>3, <2>4 DEF Inv
    <3> QED BY <2>1, <2>2, <3>1 DEF IsLatest, HasRow
  <2> QED BY <2>3, <2>4
<1>8. WorkOK' /\ Unlogged' /\ LoggedOnceUnlessUnheard' /\ StatOK'
  BY DEF Inv, WorkOK, Unlogged, LoggedOnceUnlessUnheard, StatOK, Sent
<1> QED BY <1>2, <1>5, <1>7, <1>8 DEF Inv

(* A step that leaves messages, sessions and the visits written alone keeps
   what is said about them. *)
LEMMA RowsKept ==
  ASSUME Inv, UNCHANGED <<message, session, flushed>>,
         clock' \in Time, clock <= clock',
         \A s \in Session : login'[s].open = login[s].open
  PROVE  Opened' /\ \A s \in Session : IsLatest(s)'
<1>1. Opened'
  <2>1. clock \in Int /\ clock' \in Int /\ \A s \in Session : session[s].created \in Int
    BY RowIs, Activity_Assumption DEF Inv, TypeOK, Time
  <2> QED BY <2>1 DEF Inv, Opened, Sent
<1>2. \A s \in Session : IsLatest(s)'
  BY DEF Inv, IsLatest, HasRow, Visits
<1> QED BY <1>1, <1>2

(* A step that leaves the queue, the batches and the log alone keeps what
   waits to be logged. *)
LEMMA PlacesKept ==
  ASSUME Inv, UNCHANGED <<message, queue, work, copies, unheard>>
  PROVE  WorkOK' /\ Unlogged' /\ LoggedOnceUnlessUnheard'
BY DEF Inv, WorkOK, Unlogged, LoggedOnceUnlessUnheard, Sent

(* The statistics of a login are as old as the login. *)
LEMMA LoginStatStep ==
  ASSUME Inv, NEW s \in Session, LoginStat(s)
  PROVE  Inv'
<1> USE DEF LoginStat
<1>1. /\ login[s] \in [member : Member, now : Time \cup {NoTime}, open : BOOLEAN]
      /\ login[s].now \in Time /\ NoTime \in Int /\ Time \subseteq Nat
  BY Activity_Assumption DEF Inv, TypeOK, Time, NoTime
<1>2. login' \in [Session -> [member : Member, now : Time \cup {NoTime}, open : BOOLEAN]]
      /\ \A t \in Session : login'[t].open = login[t].open
  <2>1. [login[s] EXCEPT !.now = NoTime] \in [member : Member, now : Time \cup {NoTime}, open : BOOLEAN]
        /\ [login[s] EXCEPT !.now = NoTime].open = login[s].open
    BY <1>1
  <2> QED BY <2>1 DEF Inv, TypeOK
<1>3. stat' \in [Member -> [logged : Time, visited : Time] \cup {NoStat}] /\ StatOK'
  <2>1. CASE stat' = stat
    BY <2>1 DEF Inv, TypeOK, StatOK
  <2>2. CASE \E now \in login[s].now .. clock : stat' = InsertOrUpdate(login[s].member, now)
    <3>1. PICK now \in login[s].now .. clock : stat' = InsertOrUpdate(login[s].member, now)
      BY <2>2
    <3>2. now \in Time
      BY <1>1, Activity_Assumption DEF Inv, TypeOK, Time
    <3> QED BY <1>1, <3>1, <3>2 DEF Inv, TypeOK, StatOK, InsertOrUpdate
  <2> QED BY <2>1, <2>2
<1>4. TypeOK'
  <2>1. faults' \in 0..MaxFaults
    BY Activity_Assumption DEF Inv, TypeOK, Fault
  <2> QED BY <1>2, <1>3, <2>1 DEF Inv, TypeOK, Sent
<1>5. clock' \in Time /\ clock <= clock'
  BY <1>1 DEF Inv, TypeOK
<1> QED BY <1>2, <1>3, <1>4, <1>5, RowsKept, PlacesKept DEF Inv

(* A deleted row says nothing. *)
LEMMA DeleteSessionStep ==
  ASSUME Inv, NEW s \in Session, DeleteSession(s)
  PROVE  Inv'
<1> USE DEF DeleteSession
<1>1. TypeOK'
  BY DEF Inv, TypeOK, Sent
<1>2. session'[s] = NoRow /\ \A t \in Session \ {s} : session'[t] = session[t]
  BY DEF Inv, TypeOK
<1>3. Opened'
  <2>1. NoRow.created = -1 /\ clock \in Nat
    BY Activity_Assumption DEF NoRow, NoTime, Inv, TypeOK, Time
  <2>2. \A n \in Sent : message[n].at \in Nat
    BY SentIs, Activity_Assumption DEF Inv, Messages, Time
  <2> QED BY <1>2, <2>1, <2>2 DEF Inv, Opened, Sent
<1>4. \A t \in Session : IsLatest(t)'
  BY <1>2 DEF Inv, IsLatest, HasRow, Visits
<1>5. StatOK'
  BY DEF Inv, StatOK
<1> QED BY <1>1, <1>3, <1>4, <1>5, PlacesKept DEF Inv

(* Nor does a deleted row of statistics. *)
LEMMA DeleteMemberStep ==
  ASSUME Inv, NEW m \in Member, DeleteMember(m)
  PROVE  Inv'
<1> USE DEF DeleteMember
<1>1. TypeOK'
  BY DEF Inv, TypeOK, Sent
<1>2. StatOK'
  BY DEF Inv, TypeOK, StatOK, NoStat, NoTime
<1>3. clock' \in Time /\ clock <= clock'
  BY Activity_Assumption DEF Inv, TypeOK, Time
<1> QED BY <1>1, <1>2, <1>3, RowsKept, PlacesKept DEF Inv

(* A message is numbered when it is emitted, no earlier than its session was
   opened, and waits. *)
LEMMA EmitStep ==
  ASSUME Inv, NEW s \in Session, NEW sid \in {s, NoSession}, NEW known \in BOOLEAN,
         Emit(s, sid, known)
  PROVE  Inv'
<1> DEFINE k == Len(message) + 1
           m == [member |-> login[s].member, session |-> sid, realmKnown |-> known, at |-> clock]
<1>1. /\ login[s].open /\ Len(message) < MaxMessages
      /\ message' = Append(message, m) /\ queue' = queue \cup {Len(message')}
      /\ UNCHANGED <<clock, work, session, login, stat, log, copies, unheard, flushed, faults>>
  BY DEF Emit
<1>2. m \in Messages /\ m.session = sid /\ m.at = clock
  BY DEF Inv, TypeOK, Messages
<1> HIDE DEF m
<1>3. /\ message \in Seq(Messages) /\ Len(message) \in Nat /\ Sent = 1..Len(message)
      /\ MaxMessages \in Nat
  BY SentIs, Activity_Assumption DEF Inv, TypeOK
<1>4. /\ message' \in Seq(Messages) /\ Len(message') = k /\ k <= MaxMessages
      /\ message'[k] = m /\ \A n \in Sent : message'[n] = message[n]
  BY <1>1, <1>2, <1>3
<1>5. Sent' = 1..k /\ Sent' = Sent \cup {k} /\ k \notin Sent /\ queue' = queue \cup {k}
  BY <1>1, <1>3, <1>4 DEF Sent
<1> HIDE DEF k
<1>6. TypeOK'
  BY <1>1, <1>4, <1>5 DEF Inv, TypeOK
<1>7. WorkOK' /\ Unlogged' /\ LoggedOnceUnlessUnheard'
  <2>1. WorkOK'
    BY <1>1, <1>5 DEF Inv, WorkOK
  <2>2. \A w \in Worker : work[w] # Idle => k \notin work[w].batch
    BY <1>5 DEF Inv, TypeOK
  <2>3. Unlogged'
    BY <1>1, <1>5, <2>2 DEF Inv, Unlogged
  <2> QED BY <1>1, <2>1, <2>3 DEF Inv, LoggedOnceUnlessUnheard
<1>8. Opened'
  <2>1. \A t \in Session : m.session = t => t = s
    BY <1>2, Activity_Assumption
  <2> QED BY <1>1, <1>2, <1>4, <1>5, <2>1 DEF Inv, Opened
<1>9. ASSUME NEW t \in Session PROVE IsLatest(t)'
  <2>1. flushed \subseteq Sent /\ flushed' = flushed /\ session' = session
    BY <1>1 DEF Inv, TypeOK
  <2>2. Visits(flushed, t)' = Visits(flushed, t) /\ Visits(flushed, t) \subseteq Sent
    BY <1>4, <2>1 DEF Visits
  <2> QED BY <1>4, <2>1, <2>2 DEF Inv, IsLatest, HasRow
<1>10. StatOK'
  BY <1>1 DEF Inv, StatOK
<1> QED BY <1>6, <1>7, <1>8, <1>9, <1>10 DEF Inv

(* A batch is taken out of the queue. *)
LEMMA TakeBatchStep ==
  ASSUME Inv, NEW w \in Worker, NEW B \in SUBSET queue, TakeBatch(w, B)
  PROVE  Inv'
<1> DEFINE b == [batch |-> B, step |-> "sessions"]
<1>1. /\ work' = [work EXCEPT ![w] = b] /\ queue' = queue \ B
      /\ UNCHANGED <<clock, message, session, login, stat, log, copies, unheard, flushed, faults>>
  BY DEF TakeBatch
<1>2. B \subseteq Sent /\ B \subseteq Number
  BY SentIs DEF Inv, TypeOK
<1>3. /\ work' \in [Worker -> {Idle} \cup [batch : SUBSET Sent, step : {"sessions", "stat", "log"}]]
      /\ work'[w] = b /\ \A v \in Worker \ {w} : work'[v] = work[v]
  BY <1>1, <1>2 DEF Inv, WorkOK
<1>4. b.batch = B /\ b.step = "sessions"
  OBVIOUS
<1> HIDE DEF b
<1>5. WorkOK' /\ Sent' = Sent
  BY <1>1, <1>3 DEF WorkOK, Sent
<1>6. TypeOK'
  BY <1>1, <1>2, <1>3, <1>4, <1>5 DEF Inv, TypeOK
<1>7. Unlogged'
  <2>1. \A n \in B : copies[n] = unheard[n]
    BY <1>2 DEF Inv, Unlogged
  <2> QED BY <1>1, <1>3, <1>4, <1>5, <2>1 DEF Inv, Unlogged
<1>8. LoggedOnceUnlessUnheard' /\ StatOK'
  BY <1>1 DEF Inv, LoggedOnceUnlessUnheard, StatOK
<1>9. clock' \in Time /\ clock <= clock'
  BY <1>1, Activity_Assumption DEF Inv, TypeOK, Time
<1> QED BY <1>1, <1>5, <1>6, <1>7, <1>8, <1>9, RowsKept DEF Inv

(* A step that lets one worker go idle, with its batch or part of the queue
   put where no other worker has it. *)
LEMMA WorkerFreed ==
  ASSUME Inv, NEW w \in Worker, work' = [work EXCEPT ![w] = Idle], message' = message
  PROVE  /\ WorkOK' /\ Sent' = Sent
         /\ work'[w] = Idle /\ \A v \in Worker \ {w} : work'[v] = work[v]
         /\ \A v \in Worker : work'[v] # Idle =>
              v # w /\ work'[v].batch \subseteq Sent /\ work'[v].step \in {"sessions", "stat", "log"}
<1>1. Sent' = Sent
  BY DEF Sent
<1>2. work' \in [Worker -> {Idle} \cup [batch : SUBSET Sent, step : {"sessions", "stat", "log"}]]
      /\ work'[w] = Idle /\ \A v \in Worker \ {w} : work'[v] = work[v]
  BY DEF Inv, WorkOK
<1> QED BY <1>1, <1>2 DEF Inv, TypeOK, WorkOK

(* A batch that is given back goes to the queue as it is, if what it has left
   in the log were statements that reported an error. *)
LEMMA GivenBackKeeps ==
  ASSUME Inv, NEW w \in Worker, work[w] # Idle, GivenBack(w), message' = message,
         \A n \in Number \ work[w].batch : copies'[n] = copies[n] /\ unheard'[n] = unheard[n],
         \A n \in work[w].batch : copies'[n] = unheard'[n]
  PROVE  /\ WorkOK' /\ Unlogged' /\ Sent' = Sent /\ queue' \subseteq Sent
         /\ \A v \in Worker : work'[v] # Idle =>
              /\ work'[v].batch \subseteq Sent
              /\ work'[v].step \in {"sessions", "stat", "log"}
<1> DEFINE B == work[w].batch
<1>1. work' = [work EXCEPT ![w] = Idle] /\ queue' \in {queue, queue \cup B}
  BY DEF GivenBack
<1>2. B \subseteq Sent /\ B \subseteq Number /\ \A n \in B : copies[n] = unheard[n]
      /\ \A v \in Worker \ {w} : work[v] # Idle => work[v].batch \cap B = {}
  BY SentIs DEF Inv, TypeOK, Unlogged
<1>3. \A n \in Number : copies[n] = unheard[n] => copies'[n] = unheard'[n]
  BY <1>2
<1> HIDE DEF B
<1>4. /\ WorkOK' /\ Sent' = Sent /\ work'[w] = Idle
      /\ \A v \in Worker \ {w} : work'[v] = work[v]
      /\ \A v \in Worker : work'[v] # Idle =>
           v # w /\ work'[v].batch \subseteq Sent /\ work'[v].step \in {"sessions", "stat", "log"}
  BY <1>1, WorkerFreed
<1>5. queue' \subseteq queue \cup B /\ queue \subseteq Sent /\ Sent \subseteq Number
  BY <1>1, SentIs DEF Inv, TypeOK
<1>6. Unlogged'
  <2>1. ASSUME NEW v \in Worker, work'[v] # Idle
        PROVE  work'[v].batch \cap queue' = {} /\ \A n \in work'[v].batch : copies'[n] = unheard'[n]
    <3>1. v # w /\ work'[v] = work[v] /\ work[v].batch \subseteq Number
      BY <1>4, <1>5, <2>1
    <3>2. work[v].batch \cap queue = {} /\ \A n \in work[v].batch : copies[n] = unheard[n]
      BY <2>1, <3>1 DEF Inv, Unlogged
    <3>3. work[v].batch \cap B = {}
      BY <1>2, <2>1, <3>1
    <3> QED BY <1>3, <1>5, <3>1, <3>2, <3>3
  <2>2. \A u, v \in Worker : u # v /\ work'[u] # Idle /\ work'[v] # Idle =>
          work'[u].batch \cap work'[v].batch = {}
    BY <1>4 DEF Inv, Unlogged
  <2>3. \A n \in Number : n \in queue' \/ n \notin Sent' => copies'[n] = unheard'[n]
    BY <1>2, <1>3, <1>4, <1>5 DEF Inv, Unlogged
  <2> QED BY <2>1, <2>2, <2>3 DEF Unlogged
<1> QED BY <1>2, <1>4, <1>5, <1>6

(* A statement before the last one leaves the batch what it is, or gives it
   back. *)
LEMMA StatementKeeps ==
  ASSUME Inv, NEW w \in Worker, work[w] # Idle, work[w].step # "log",
         Proceeds(w) \/ Unheard(w), UNCHANGED <<message, copies, unheard>>
  PROVE  /\ WorkOK' /\ Unlogged' /\ LoggedOnceUnlessUnheard'
         /\ Sent' = Sent /\ queue' \subseteq Sent /\ faults' \in 0..MaxFaults
         /\ \A v \in Worker : work'[v] # Idle =>
              /\ work'[v].batch \subseteq Sent
              /\ work'[v].step \in {"sessions", "stat", "log"}
<1>1. LoggedOnceUnlessUnheard'
  BY DEF Inv, LoggedOnceUnlessUnheard
<1>2. CASE Proceeds(w)
  <2> DEFINE step == Following(work[w].step)
  <2>1. work[w] \in [batch : SUBSET Sent, step : {"sessions", "stat", "log"}]
    BY DEF Inv, WorkOK
  <2>2. step \in {"stat", "log"} /\ step # "done"
    BY <2>1 DEF Following
  <2>3. work' = [work EXCEPT ![w] = [@ EXCEPT !.step = step]] /\ UNCHANGED <<queue, faults>>
    BY <1>2, <2>2, Zenon DEF Proceeds
  <2> HIDE DEF step
  <2>4. /\ work'[w] = [work[w] EXCEPT !.step = step]
        /\ \A v \in Worker \ {w} : work'[v] = work[v]
    BY <2>3 DEF Inv, WorkOK
  <2>5. work'[w] \in [batch : SUBSET Sent, step : {"sessions", "stat", "log"}]
        /\ work'[w].batch = work[w].batch
    BY <2>1, <2>2, <2>4
  <2>6. work' \in [Worker -> {Idle} \cup [batch : SUBSET Sent, step : {"sessions", "stat", "log"}]]
    BY <2>3, <2>4, <2>5 DEF Inv, WorkOK
  <2>7. Sent' = Sent
    BY DEF Sent
  <2>8. WorkOK'
    BY <2>6, <2>7 DEF WorkOK
  <2>9. Unlogged'
    BY <2>3, <2>4, <2>5, <2>7 DEF Inv, Unlogged
  <2> QED BY <1>1, <2>3, <2>6, <2>7, <2>8, <2>9 DEF Inv, TypeOK
<1>3. CASE Unheard(w)
  <2>1. GivenBack(w) /\ faults' \in 0..MaxFaults
    BY <1>3, Activity_Assumption DEF Unheard, Fault, Inv, TypeOK
  <2>2. \A n \in work[w].batch : copies'[n] = unheard'[n]
    BY DEF Inv, Unlogged
  <2> QED BY <1>1, <2>1, <2>2, GivenBackKeeps
<1> QED BY <1>2, <1>3

(* Of the visits of a session in a batch the latest is chosen. *)
LEMMA LatestVisitIs ==
  ASSUME TypeOK, NEW B \in SUBSET Sent, NEW last \in LatestVisits(B), NEW s \in Touched(B),
         s \in Session
  PROVE  /\ last[s] \in Visits(B, s)
         /\ \A n \in Visits(B, s) : message[n].at <= message[last[s]].at
<1> DEFINE S == {message[n].at : n \in Visits(B, s)}
<1>1. last[s] \in Visits(B, s) /\ message[last[s]].at = Max(S)
  BY DEF LatestVisits, LastVisit
<1>2. S \in SUBSET (0..MaxClock) /\ MaxClock \in Nat
  BY SentIs, Activity_Assumption DEF Visits, Messages, Time
<1>3. S # {}
  BY <1>1
<1>4. \A y \in S : y <= Max(S)
  <2> HIDE DEF S
  <2> QED BY <1>2, <1>3, MaxIs
<1> QED BY <1>1, <1>4

(* UpdateLastActivity: the later of it and the row stays. *)
LEMMA UpdateLastActivityStep ==
  ASSUME Inv, NEW w \in Worker, UpdateLastActivity(w)
  PROVE  Inv'
<1> DEFINE B == work[w].batch
<1>1. PICK last \in LatestVisits(B) :
        session' = [s \in Session |-> IF s \in Touched(B) THEN Visited(session[s], last[s])
                                       ELSE session[s]]
  BY DEF UpdateLastActivity
<1>2. /\ work[w] # Idle /\ work[w].step # "log" /\ flushed' = flushed \cup B
      /\ (Proceeds(w) \/ Unheard(w))
      /\ UNCHANGED <<clock, message, login, stat, log, copies, unheard>>
  BY DEF UpdateLastActivity
<1>3. TypeOK /\ B \in SUBSET Sent /\ MaxMessages \in Nat /\ Time = 0..MaxClock /\ MaxClock \in Nat
  BY <1>2, Activity_Assumption DEF Inv, TypeOK, Time
<1> HIDE DEF B
<1>4. Sent \subseteq Number /\ \A n \in Sent : n \in 1..MaxMessages /\ message[n].at \in Time
  BY <1>3, SentIs DEF Messages, Number
<1>5. ASSUME NEW s \in Session, s \in Touched(B)
      PROVE  /\ last[s] \in Visits(B, s) /\ last[s] \in Sent
             /\ \A n \in Visits(B, s) : message[n].at <= message[last[s]].at
             /\ session'[s] = Visited(session[s], last[s])
  BY <1>1, <1>3, <1>5, LatestVisitIs DEF Visits
<1>6. ASSUME NEW s \in Session, s \notin Touched(B)
      PROVE  session'[s] = session[s] /\ Visits(B, s) = {}
  BY <1>1, <1>6, Activity_Assumption DEF Visits, Touched
<1>7. ASSUME NEW s \in Session
      PROVE  /\ session'[s] \in [created : Time, updated : Time, ip : 0 .. MaxMessages] \cup {NoRow}
             /\ session'[s].created = session[s].created
             /\ IsLatest(s)'
  <2>1. Visits(flushed, s)' = Visits(flushed, s) \cup Visits(B, s)
        /\ Visits(flushed, s) \subseteq Sent /\ Visits(B, s) \subseteq Sent
    BY <1>2, <1>3 DEF Visits, TypeOK
  <2>2. session[s] \in [created : Time, updated : Time, ip : 0 .. MaxMessages] \cup {NoRow}
    BY <1>3 DEF TypeOK
  <2>3. message' = message
    BY <1>2
  <2>4. CASE s \notin Touched(B) \/ session[s] = NoRow
    <3>1. session'[s] = session[s]
      BY <1>5, <1>6, <2>4 DEF Visited
    <3>2. HasRow(s) => Visits(B, s) = {}
      BY <1>6, <2>4 DEF HasRow
    <3> QED BY <2>1, <2>2, <2>3, <3>1, <3>2 DEF Inv, IsLatest, HasRow
  <2>5. CASE s \in Touched(B) /\ session[s] # NoRow
    <3> DEFINE n == last[s]
               row == session[s]
    <3>1. /\ n \in Visits(B, s) /\ n \in Sent
          /\ \A k \in Visits(B, s) : message[k].at <= message[n].at
          /\ session'[s] = [created |-> row.created,
                            updated |-> Later(row.updated, message[n].at),
                            ip |-> IF message[n].at >= row.updated THEN n ELSE row.ip]
      BY <1>5, <2>5 DEF Visited
    <3>2. row.created \in Time /\ row.updated \in Time /\ row.ip \in 0..MaxMessages
          /\ message[n].at \in Time /\ n \in 1..MaxMessages
      BY <1>4, <2>2, <2>5, <3>1
    <3>3. \A k \in Sent : message[k].at \in Int
      BY <1>3, <1>4
    <3>4. /\ row.created <= row.updated
          /\ \A k \in Visits(flushed, s) : message[k].at <= row.updated
          /\ \/ row.ip \in Visits(flushed, s) /\ message[row.ip].at = row.updated
             \/ row.ip = 0 /\ Visits(flushed, s) = {} /\ row.updated = row.created
      BY <2>5 DEF Inv, IsLatest, HasRow
    <3>5. row.created <= message[n].at
      BY <3>1 DEF Inv, Opened, Visits
    <3> HIDE DEF n, row
    <3>6. session'[s].created = row.created
      BY <3>1
    <3>7. CASE message[n].at >= row.updated
      <4>1. session'[s] = [created |-> row.created, updated |-> message[n].at, ip |-> n]
        BY <1>3, <3>1, <3>2, <3>7 DEF Later
      <4>2. session'[s].created = row.created /\ session'[s].updated = message[n].at
            /\ session'[s].ip = n
        BY <4>1
      <4>3. ASSUME NEW k \in Visits(flushed, s)' PROVE message[k].at <= message[n].at
        <5>1. CASE k \in Visits(B, s)
          BY <3>1, <5>1
        <5>2. CASE k \in Visits(flushed, s)
          <6>1. message[k].at <= row.updated /\ message[k].at \in Int
            BY <2>1, <3>3, <3>4, <5>2
          <6> QED BY <1>3, <3>2, <3>7, <6>1
        <5> QED BY <2>1, <5>1, <5>2
      <4>4. n \in Visits(flushed, s)'
        BY <2>1, <3>1
      <4>5. IsLatest(s)'
        BY <2>3, <3>5, <4>2, <4>3, <4>4 DEF IsLatest
      <4> QED BY <3>2, <4>1, <4>5 DEF row
    <3>8. CASE ~ (message[n].at >= row.updated)
      <4>1. session'[s] = [created |-> row.created, updated |-> row.updated, ip |-> row.ip]
        BY <1>3, <3>1, <3>2, <3>8 DEF Later
      <4>2. row.ip \in Visits(flushed, s) /\ message[row.ip].at = row.updated
        BY <1>3, <3>2, <3>4, <3>5, <3>8
      <4>3. session'[s].created = row.created /\ session'[s].updated = row.updated
            /\ session'[s].ip = row.ip
        BY <4>1
      <4>4. ASSUME NEW k \in Visits(flushed, s)' PROVE message[k].at <= row.updated
        <5>1. CASE k \in Visits(flushed, s)
          BY <3>4, <5>1
        <5>2. CASE k \in Visits(B, s)
          <6>1. message[k].at <= message[n].at /\ message[k].at \in Int
            BY <2>1, <3>1, <3>3, <5>2
          <6> QED BY <1>3, <3>2, <3>8, <6>1
        <5> QED BY <2>1, <5>1, <5>2
      <4>5. IsLatest(s)'
        BY <2>1, <2>3, <3>4, <4>2, <4>3, <4>4 DEF IsLatest
      <4> QED BY <3>2, <4>1, <4>5 DEF row
    <3> QED BY <3>7, <3>8
  <2> QED BY <2>4, <2>5
<1>8. /\ WorkOK' /\ Unlogged' /\ LoggedOnceUnlessUnheard'
      /\ Sent' = Sent /\ queue' \subseteq Sent /\ faults' \in 0..MaxFaults
      /\ \A v \in Worker : work'[v] # Idle =>
           work'[v].batch \subseteq Sent /\ work'[v].step \in {"sessions", "stat", "log"}
  BY <1>2, StatementKeeps
<1>9. TypeOK'
  <2>1. session' \in [Session -> [created : Time, updated : Time, ip : 0 .. MaxMessages] \cup {NoRow}]
    BY <1>1, <1>7
  <2> QED BY <1>2, <1>3, <1>8, <2>1 DEF TypeOK
<1>10. Opened'
  BY <1>2, <1>7, <1>8 DEF Inv, Opened
<1>11. StatOK'
  BY <1>2 DEF Inv, StatOK
<1> QED BY <1>7, <1>8, <1>9, <1>10, <1>11 DEF Inv

(* UpdateLastVisited: no row of statistics goes back. *)
LEMMA UpdateLastVisitedStep ==
  ASSUME Inv, NEW w \in Worker, UpdateLastVisited(w)
  PROVE  Inv'
<1> DEFINE B == work[w].batch
           Of(m) == {n \in B : message[n].member = m /\ message[n].realmKnown}
<1>1. /\ work[w] # Idle /\ work[w].step # "log" /\ (Proceeds(w) \/ Unheard(w))
      /\ stat' = [m \in Member |->
                   IF m \in VisitedMembers(B) /\ stat[m] # NoStat
                   THEN [stat[m] EXCEPT !.visited = Later(stat[m].visited, LastVisit(Of(m)))]
                   ELSE stat[m]]
      /\ UNCHANGED <<clock, message, session, login, log, copies, unheard, flushed>>
  BY DEF UpdateLastVisited
<1>2. TypeOK /\ B \in SUBSET Sent /\ Time = 0..MaxClock /\ MaxClock \in Nat
  BY <1>1, Activity_Assumption DEF Inv, TypeOK, Time
<1>3. \A n \in Sent : message[n].at \in Time
  BY <1>2, SentIs DEF Messages
<1> HIDE DEF B
<1>4. ASSUME NEW m \in Member, m \in VisitedMembers(B)
      PROVE  LastVisit(Of(m)) \in Time
  <2> DEFINE S == {message[n].at : n \in Of(m)}
  <2>1. S \in SUBSET (0..MaxClock) /\ S # {}
    BY <1>2, <1>3, <1>4 DEF VisitedMembers
  <2>2. Max(S) \in S
    <3> HIDE DEF S
    <3> QED BY <1>2, <2>1, MaxIs
  <2> QED BY <1>2, <2>1, <2>2 DEF LastVisit
<1> HIDE DEF Of
<1>5. ASSUME NEW m \in Member
      PROVE  /\ stat'[m] \in [logged : Time, visited : Time] \cup {NoStat}
             /\ stat'[m].logged <= stat'[m].visited
  <2>1. stat[m].logged <= stat[m].visited
        /\ stat[m] \in [logged : Time, visited : Time] \cup {NoStat}
    BY <1>2 DEF Inv, StatOK, TypeOK
  <2>2. CASE ~ (m \in VisitedMembers(B) /\ stat[m] # NoStat)
    BY <1>1, <2>1, <2>2
  <2>3. CASE m \in VisitedMembers(B) /\ stat[m] # NoStat
    <3> DEFINE t == LastVisit(Of(m))
    <3>1. stat'[m] = [stat[m] EXCEPT !.visited = Later(stat[m].visited, t)]
      BY <1>1, <2>3
    <3>2. t \in Time /\ stat[m] \in [logged : Time, visited : Time]
      BY <1>4, <2>1, <2>3
    <3> HIDE DEF t
    <3>3. Later(stat[m].visited, t) \in Time /\ stat[m].visited <= Later(stat[m].visited, t)
      BY <1>2, <3>2 DEF Later
    <3> QED BY <1>2, <2>1, <3>1, <3>2, <3>3
  <2> QED BY <2>2, <2>3
<1>6. /\ WorkOK' /\ Unlogged' /\ LoggedOnceUnlessUnheard'
      /\ Sent' = Sent /\ queue' \subseteq Sent /\ faults' \in 0..MaxFaults
      /\ \A v \in Worker : work'[v] # Idle =>
           work'[v].batch \subseteq Sent /\ work'[v].step \in {"sessions", "stat", "log"}
  BY <1>1, StatementKeeps
<1>7. TypeOK'
  <2>1. stat' \in [Member -> [logged : Time, visited : Time] \cup {NoStat}]
    BY <1>1, <1>5
  <2> QED BY <1>1, <1>2, <1>6, <2>1 DEF TypeOK
<1>8. clock' \in Time /\ clock <= clock'
  BY <1>1, <1>2 DEF TypeOK
<1> QED BY <1>1, <1>5, <1>6, <1>7, <1>8, RowsKept DEF Inv, StatOK

(* One more of each message of a batch. *)
LEMMA PlusIs ==
  ASSUME NEW count \in [Number -> Nat], NEW B \in SUBSET Number
  PROVE  /\ Plus(count, B) \in [Number -> Nat]
         /\ \A n \in Number \ B : Plus(count, B)[n] = count[n]
         /\ \A n \in B : Plus(count, B)[n] = count[n] + 1
BY DEF Plus

(* The log takes a batch that is nowhere else, or one that comes again with
   an error to account for it. *)
LEMMA InsertLogStep ==
  ASSUME Inv, NEW w \in Worker, InsertLog(w)
  PROVE  Inv'
<1> DEFINE B == work[w].batch
<1>1. /\ work[w] # Idle /\ work[w].step = "log" /\ log' = log \cup B
      /\ copies' = Plus(copies, B)
      /\ \/ Proceeds(w) /\ UNCHANGED unheard
         \/ Unheard(w) /\ unheard' = Plus(unheard, B)
      /\ UNCHANGED <<clock, message, session, login, stat, flushed>>
  BY DEF InsertLog
<1>2. B \subseteq Sent /\ B \subseteq Number /\ B \cap queue = {}
      /\ \A n \in B : copies[n] = unheard[n]
      /\ \A v \in Worker \ {w} : work[v] # Idle => work[v].batch \cap B = {}
  BY <1>1, SentIs DEF Inv, TypeOK, Unlogged
<1>3. copies \in [Number -> Nat] /\ unheard \in [Number -> Nat]
  BY DEF Inv, TypeOK
<1> HIDE DEF B
<1>4. /\ copies' \in [Number -> Nat]
      /\ \A n \in Number \ B : copies'[n] = copies[n]
      /\ \A n \in B : copies'[n] = copies[n] + 1
  BY <1>1, <1>2, <1>3, PlusIs
<1>5. /\ WorkOK' /\ Unlogged' /\ LoggedOnceUnlessUnheard' /\ Sent' = Sent
      /\ queue' \subseteq Sent /\ faults' \in 0..MaxFaults /\ unheard' \in [Number -> Nat]
      /\ \A v \in Worker : work'[v] # Idle =>
           /\ work'[v].batch \subseteq Sent
           /\ work'[v].step \in {"sessions", "stat", "log"}
  <2>1. CASE Proceeds(w) /\ UNCHANGED unheard
    <3>1. work' = [work EXCEPT ![w] = Idle] /\ UNCHANGED <<queue, faults>>
      BY <1>1, <2>1 DEF Proceeds, Following
    <3>2. /\ WorkOK' /\ Sent' = Sent /\ work'[w] = Idle
          /\ \A v \in Worker \ {w} : work'[v] = work[v]
          /\ \A v \in Worker : work'[v] # Idle =>
               v # w /\ work'[v].batch \subseteq Sent /\ work'[v].step \in {"sessions", "stat", "log"}
      BY <1>1, <3>1, WorkerFreed
    <3>3. LoggedOnceUnlessUnheard'
      <4>1. ASSUME NEW n \in Number PROVE copies'[n] <= 1 + unheard[n]
        <5>1. copies[n] \in Nat /\ unheard[n] \in Nat /\ copies[n] <= 1 + unheard[n]
          BY <1>3 DEF Inv, LoggedOnceUnlessUnheard
        <5> QED BY <1>2, <1>4, <5>1
      <4> QED BY <2>1, <4>1 DEF LoggedOnceUnlessUnheard
    <3>4. Unlogged'
      <4>1. ASSUME NEW v \in Worker, work'[v] # Idle
            PROVE  /\ work'[v].batch \cap queue' = {}
                   /\ \A n \in work'[v].batch : copies'[n] = unheard'[n]
        <5>1. work'[v] = work[v] /\ v # w
          BY <3>2, <4>1
        <5>2. work[v].batch \subseteq Number /\ work[v].batch \cap B = {}
          BY <1>2, <4>1, <5>1, SentIs DEF Inv, TypeOK
        <5>3. work[v].batch \cap queue = {} /\ \A n \in work[v].batch : copies[n] = unheard[n]
          BY <4>1, <5>1 DEF Inv, Unlogged
        <5> QED BY <1>4, <2>1, <3>1, <5>1, <5>2, <5>3
      <4>2. \A u, v \in Worker : u # v /\ work'[u] # Idle /\ work'[v] # Idle =>
              work'[u].batch \cap work'[v].batch = {}
        BY <3>2 DEF Inv, Unlogged
      <4>3. \A n \in Number : n \in queue' \/ n \notin Sent' => copies'[n] = unheard'[n]
        BY <1>2, <1>4, <2>1, <3>1, <3>2 DEF Inv, Unlogged
      <4> QED BY <4>1, <4>2, <4>3 DEF Unlogged
    <3> QED BY <1>3, <2>1, <3>1, <3>2, <3>3, <3>4 DEF Inv, TypeOK
  <2>2. CASE Unheard(w) /\ unheard' = Plus(unheard, B)
    <3>1. /\ unheard' \in [Number -> Nat]
          /\ \A n \in Number \ B : unheard'[n] = unheard[n]
          /\ \A n \in B : unheard'[n] = unheard[n] + 1
      BY <1>2, <1>3, <2>2, PlusIs
    <3>2. GivenBack(w) /\ faults' \in 0..MaxFaults
      BY <2>2, Activity_Assumption DEF Unheard, Fault, Inv, TypeOK
    <3>3. \A n \in B : copies'[n] = unheard'[n]
      BY <1>2, <1>4, <3>1
    <3>4. /\ WorkOK' /\ Unlogged' /\ Sent' = Sent /\ queue' \subseteq Sent
          /\ \A v \in Worker : work'[v] # Idle =>
               /\ work'[v].batch \subseteq Sent
               /\ work'[v].step \in {"sessions", "stat", "log"}
      BY <1>1, <1>4, <3>1, <3>2, <3>3, GivenBackKeeps DEF B
    <3>5. ASSUME NEW n \in Number PROVE copies'[n] <= 1 + unheard'[n]
      <4>1. copies[n] \in Nat /\ unheard[n] \in Nat /\ copies[n] <= 1 + unheard[n]
        BY <1>3 DEF Inv, LoggedOnceUnlessUnheard
      <4> QED BY <1>4, <3>1, <4>1
    <3> QED BY <3>1, <3>2, <3>4, <3>5 DEF LoggedOnceUnlessUnheard
  <2> QED BY <1>1, <2>1, <2>2
<1>6. TypeOK'
  BY <1>1, <1>2, <1>4, <1>5 DEF Inv, TypeOK
<1>7. clock' \in Time /\ clock <= clock'
  BY <1>1, Activity_Assumption DEF Inv, TypeOK, Time
<1> QED BY <1>1, <1>5, <1>6, <1>7, RowsKept DEF Inv, StatOK

(* A batch whose statement has changed nothing goes back as it is. *)
LEMMA BatchFailsStep ==
  ASSUME Inv, NEW w \in Worker, BatchFails(w)
  PROVE  Inv'
<1>1. /\ work[w] # Idle /\ GivenBack(w)
      /\ UNCHANGED <<clock, message, session, login, stat, log, copies, unheard, flushed>>
  BY DEF BatchFails
<1>2. faults' \in 0..MaxFaults
  BY Activity_Assumption DEF BatchFails, Fault, Inv, TypeOK
<1>3. \A n \in work[w].batch : copies'[n] = unheard'[n]
  BY <1>1 DEF Inv, Unlogged
<1>4. /\ WorkOK' /\ Unlogged' /\ Sent' = Sent /\ queue' \subseteq Sent
      /\ \A v \in Worker : work'[v] # Idle =>
           /\ work'[v].batch \subseteq Sent
           /\ work'[v].step \in {"sessions", "stat", "log"}
  BY <1>1, <1>3, GivenBackKeeps
<1>5. TypeOK'
  BY <1>1, <1>2, <1>4 DEF Inv, TypeOK
<1>6. LoggedOnceUnlessUnheard' /\ StatOK'
  BY <1>1 DEF Inv, LoggedOnceUnlessUnheard, StatOK
<1>7. clock' \in Time /\ clock <= clock'
  BY <1>1, Activity_Assumption DEF Inv, TypeOK, Time
<1> QED BY <1>1, <1>4, <1>5, <1>6, <1>7, RowsKept DEF Inv

(* A crash leaves nothing that waits. *)
LEMMA CrashStep ==
  ASSUME Inv, Crash
  PROVE  Inv'
<1>1. /\ queue' = {} /\ work' = [w \in Worker |-> Idle]
      /\ login' = [s \in Session |-> [login[s] EXCEPT !.now = NoTime]]
      /\ UNCHANGED <<clock, message, session, stat, log, copies, unheard, flushed>>
  BY DEF Crash
<1>2. login' \in [Session -> [member : Member, now : Time \cup {NoTime}, open : BOOLEAN]]
      /\ \A s \in Session : login'[s].open = login[s].open
  <2>1. ASSUME NEW s \in Session
        PROVE  /\ [login[s] EXCEPT !.now = NoTime]
                    \in [member : Member, now : Time \cup {NoTime}, open : BOOLEAN]
               /\ [login[s] EXCEPT !.now = NoTime].open = login[s].open
    <3>1. login[s] \in [member : Member, now : Time \cup {NoTime}, open : BOOLEAN]
      BY DEF Inv, TypeOK
    <3> QED BY <3>1
  <2> QED BY <1>1, <2>1
<1>3. faults' \in 0..MaxFaults
  BY Activity_Assumption DEF Crash, Fault, Inv, TypeOK
<1>4. Sent' = Sent /\ \A w \in Worker : work'[w] = Idle
  BY <1>1 DEF Sent
<1>5. TypeOK'
  BY <1>1, <1>2, <1>3, <1>4 DEF Inv, TypeOK
<1>6. WorkOK' /\ Unlogged' /\ LoggedOnceUnlessUnheard' /\ StatOK'
  BY <1>1, <1>4 DEF Inv, WorkOK, Unlogged, LoggedOnceUnlessUnheard, StatOK
<1>7. clock' \in Time /\ clock <= clock'
  BY <1>1, Activity_Assumption DEF Inv, TypeOK, Time
<1> QED BY <1>1, <1>2, <1>5, <1>6, <1>7, RowsKept DEF Inv

(* The cleaner only takes rows out of the log. *)
LEMMA CleanLogStep ==
  ASSUME Inv, CleanLog
  PROVE  Inv'
<1>1. PICK B \in SUBSET Expired :
        /\ log' = log \ B
        /\ UNCHANGED <<clock, message, queue, work, session, login, stat, copies, unheard, flushed, faults>>
  BY DEF CleanLog
<1>2. TypeOK'
  BY <1>1 DEF Inv, TypeOK, Sent
<1>3. clock' \in Time /\ clock <= clock'
  BY <1>1, Activity_Assumption DEF Inv, TypeOK, Time
<1> QED BY <1>1, <1>2, <1>3, RowsKept, PlacesKept DEF Inv, StatOK

(* The time goes on. *)
LEMMA TickStep ==
  ASSUME Inv, Tick
  PROVE  Inv'
<1>1. clock' \in Time /\ clock <= clock'
  BY Activity_Assumption DEF Inv, TypeOK, Time, Tick
<1>2. TypeOK'
  BY <1>1 DEF Inv, TypeOK, Sent, Tick
<1> QED BY <1>1, <1>2, RowsKept, PlacesKept DEF Inv, StatOK, Tick

(* Every step keeps the invariant. *)
LEMMA InvNext == Inv /\ [Next]_vars => Inv'
<1> SUFFICES ASSUME Inv, [Next]_vars PROVE Inv'
  OBVIOUS
<1>1. ASSUME NEW s \in Session, OpenSession(s) PROVE Inv'
  BY <1>1, OpenSessionStep
<1>2. ASSUME NEW s \in Session, LoginStat(s) PROVE Inv'
  BY <1>2, LoginStatStep
<1>3. ASSUME NEW s \in Session, DeleteSession(s) PROVE Inv'
  BY <1>3, DeleteSessionStep
<1>4. ASSUME NEW s \in Session, NEW sid \in {s, NoSession}, NEW known \in BOOLEAN,
             Emit(s, sid, known)
      PROVE  Inv'
  BY <1>4, EmitStep
<1>5. ASSUME NEW m \in Member, DeleteMember(m) PROVE Inv'
  BY <1>5, DeleteMemberStep
<1>6. ASSUME NEW w \in Worker, NEW B \in SUBSET queue, TakeBatch(w, B) PROVE Inv'
  BY <1>6, TakeBatchStep
<1>7. ASSUME NEW w \in Worker,
             UpdateLastActivity(w) \/ UpdateLastVisited(w) \/ InsertLog(w) \/ BatchFails(w)
      PROVE  Inv'
  BY <1>7, UpdateLastActivityStep, UpdateLastVisitedStep, InsertLogStep, BatchFailsStep
<1>8. CASE Crash \/ CleanLog \/ Tick
  BY <1>8, CrashStep, CleanLogStep, TickStep
<1>9. CASE UNCHANGED vars
  <2>1. UNCHANGED <<clock, message, queue, work, session, login, stat, log, copies, unheard, flushed, faults>>
    BY <1>9 DEF vars
  <2>2. TypeOK'
    BY <2>1 DEF Inv, TypeOK, Sent
  <2>3. clock' \in Time /\ clock <= clock'
    BY <2>1, Activity_Assumption DEF Inv, TypeOK, Time
  <2> QED BY <2>1, <2>2, <2>3, RowsKept, PlacesKept DEF Inv, StatOK
<1> QED BY <1>1, <1>2, <1>3, <1>4, <1>5, <1>6, <1>7, <1>8, <1>9 DEF Next

(* Whatever batches overtake each other, fail half way, come again or are
   lost: the row of a session holds its latest visit among those written, the
   last visit of a member is never before his last login, and a request is
   logged at most once, not counting INSERTs that reported an error. *)
THEOREM ActivityIsKept == Spec => [](TypeOK /\ RowIsLatestVisit /\ LoggedOnceUnlessUnheard)
<1>1. Inv => TypeOK /\ RowIsLatestVisit /\ LoggedOnceUnlessUnheard
  BY InvImplies DEF Inv
<1> QED BY <1>1, InvInit, InvNext, PTL DEF Spec

(* Add, Login and the statements of the workers keep the columns to their types:
   a row of statistics has both of its times or is not there. *)
THEOREM TypeIsKept == Spec => []TypeOK
BY ActivityIsKept, PTL

(* InsertOrUpdate of the sessions keeps the latest of the visits written, and
   last_visited_at is never before last_logged_at. *)
THEOREM RowsAreLatestVisits == Spec => []RowIsLatestVisit
BY ActivityIsKept, PTL

(* A batch that is written again from its first statement puts a request into
   the log once more only when an INSERT of it was applied and reported an error:
   whatever was acknowledged does not come again. *)
THEOREM RequestsLoggedOnceUnlessUnheard == Spec => []LoggedOnceUnlessUnheard
BY ActivityIsKept, PTL
=============================================================================
