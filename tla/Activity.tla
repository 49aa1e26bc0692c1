------------------------------ MODULE Activity ------------------------------
(***************************************************************************)
(* The activity of users: src/mrauth/usecase/auth/user_statistic.go, fed   *)
(* by the tracer src/mrauth/component/produce/user_request.go through the  *)
(* collector of src/wire/mrauth/userstat/collector, and what opening a     *)
(* session writes beside it.  A batch of messages is written by three      *)
(* statements without a transaction; batches overtake each other, fail     *)
(* half way, come again or are lost with the process, while sessions are   *)
(* opened and deleted.                                                     *)
(*                                                                         *)
(* A member is a user in a realm, the key of users_activity_stat.  The     *)
(* address of a request is represented by the number of its message.       *)
(***************************************************************************)
EXTENDS Integers, Sequences, FiniteSets, FiniteSetsExt

CONSTANTS Member,       \* pairs (user_id, realm_id)
          Session,      \* rows of sessions
          Worker,       \* workers of the collector
          BatchSize,    \* WithBatchSize
          LifeTime,     \* UserCleaner.logLifeTime
          NoSession,    \* SessionID = 0: a token without 'sid'
          Idle,         \* a worker without a batch
          MaxMessages,  \* bound: requests traced
          MaxClock,     \* bound: time
          MaxFaults     \* bound: failed statements and crashes

ASSUME Activity_Assumption ==
  /\ BatchSize \in Nat \ {0} /\ LifeTime \in Nat
  /\ MaxMessages \in Nat /\ MaxClock \in Nat /\ MaxFaults \in Nat
  /\ NoSession \notin Session

VARIABLES clock,    \* time, of the process and of the database
          message,  \* sequence of the messages emitted so far
          queue,    \* messages in the collector's channel
          work,     \* per worker: its batch and the statement that is next
          session,  \* rows of sessions: created_at, updated_at, last_ip
          login,    \* per session: the member, and the time of the commit until the login ends
          stat,     \* rows of users_activity_stat: last_logged_at, last_visited_at
          log,      \* rows of users_activity_log, by the message each came from
          copies,   \* history: how often each message was inserted into the log
          unheard,  \* history: how often an INSERT with it was applied and reported an error
          flushed,  \* history: messages whose visit was written to sessions
          faults    \* number of faults so far

vars == <<clock, message, queue, work, session, login, stat, log, copies, unheard, flushed, faults>>

Number == 1 .. MaxMessages
Sent == DOMAIN message
NoTime == -1    \* no row, or nothing left to write
NoRow == [created |-> NoTime, updated |-> NoTime, ip |-> 0]
NoStat == [logged |-> NoTime, visited |-> NoTime]
HasRow(s) == session[s] # NoRow
Later(x, y) == IF x < y THEN y ELSE x
Fault == faults < MaxFaults /\ faults' = faults + 1

Init ==
  /\ clock = 0 /\ faults = 0
  /\ message = <<>>
  /\ queue = {} /\ log = {} /\ flushed = {}
  /\ work = [w \in Worker |-> Idle]
  /\ session = [s \in Session |-> NoRow]
  /\ login \in {[s \in Session |-> [member |-> m[s], now |-> NoTime, open |-> FALSE]] :
                  m \in [Session -> Member]}
  /\ stat = [m \in Member |-> NoStat]
  /\ copies = [n \in Number |-> 0] /\ unheard = [n \in Number |-> 0]

-----------------------------------------------------------------------------
(* Opening a session.  The row is committed first, the statistics are       *)
(* written after that.                                                      *)
OpenSession(s) ==
  /\ ~login[s].open
  /\ session' = [session EXCEPT ![s] = [created |-> clock, updated |-> clock, ip |-> 0]]
  /\ login' = [login EXCEPT ![s].now = clock, ![s].open = TRUE]
  /\ UNCHANGED <<clock, message, queue, work, stat, log, copies, unheard, flushed, faults>>

InsertOrUpdate(m, now) == [stat EXCEPT ![m] = [logged |-> now, visited |-> now]]

(* The time was read at some moment since the commit.  A failure to write    *)
(* them is logged, and the login succeeds all the same.                      *)
LoginStat(s) ==
  /\ login[s].now # NoTime
  /\ \/ /\ \E now \in login[s].now .. clock : stat' = InsertOrUpdate(login[s].member, now)
        /\ UNCHANGED faults
     \/ Fault /\ UNCHANGED stat
  /\ login' = [login EXCEPT ![s].now = NoTime]
  /\ UNCHANGED <<clock, message, queue, work, session, log, copies, unheard, flushed>>

(* The drainer deletes the row of a closed session.  A JWT of the session   *)
(* is accepted on until it expires.                                         *)
DeleteSession(s) ==
  /\ HasRow(s) /\ login[s].now = NoTime
  /\ session' = [session EXCEPT ![s] = NoRow]
  /\ UNCHANGED <<clock, message, queue, work, login, stat, log, copies, unheard, flushed, faults>>

(* ON DELETE CASCADE, when the user is taken out of the realm. *)
DeleteMember(m) ==
  /\ stat[m] # NoStat
  /\ stat' = [stat EXCEPT ![m] = NoStat]
  /\ UNCHANGED <<clock, message, queue, work, session, login, log, copies, unheard, flushed, faults>>

-----------------------------------------------------------------------------
(* UserRequest.Emit, for a client that has got its tokens: the session is    *)
(* missing in a token without 'sid', the realm (RealmID = 0) when the        *)
(* registry of realms does not know it.                                      *)
Emit(s, sid, realmKnown) ==
  /\ login[s].open /\ login[s].now = NoTime
  /\ Len(message) < MaxMessages
  /\ message' = Append(message, [member |-> login[s].member, session |-> sid,
                                 realmKnown |-> realmKnown, at |-> clock])
  /\ queue' = queue \cup {Len(message')}
  /\ UNCHANGED <<clock, work, session, login, stat, log, copies, unheard, flushed, faults>>

(* The collector gives a worker any part of what it has collected. *)
TakeBatch(w, B) ==
  /\ work[w] = Idle
  /\ B # {} /\ B \subseteq queue /\ Cardinality(B) <= BatchSize
  /\ queue' = queue \ B
  /\ work' = [work EXCEPT ![w] = [batch |-> B, step |-> "sessions"]]
  /\ UNCHANGED <<clock, message, session, login, stat, log, copies, unheard, flushed, faults>>

-----------------------------------------------------------------------------
(* UserStatistic.Execute: three statements, each committed on its own, and   *)
(* the log the last of them.                                                 *)

(* Mutant of Following: the log is written before the statistics. *)
FollowingLogEarly(step) ==
  CASE step = "sessions" -> "log"
    [] step = "log" -> "stat"
    [] OTHER -> "done"

Following(step) ==
  CASE step = "sessions" -> "stat"
    [] step = "stat" -> "log"
    [] OTHER -> "done"

(* A statement was applied, and the next one is due. *)
Proceeds(w) ==
  LET step == Following(work[w].step)
  IN /\ work' = [work EXCEPT ![w] = IF step = "done" THEN Idle ELSE [@ EXCEPT !.step = step]]
     /\ UNCHANGED <<queue, faults>>

(* What the collector does with a batch that failed is up to it: it is given *)
(* again, with other messages or without, or it is dropped.                  *)
GivenBack(w) ==
  /\ work' = [work EXCEPT ![w] = Idle]
  /\ queue' \in {queue, queue \cup work[w].batch}

(* A statement was applied and reports an error all the same: its reply is   *)
(* lost, or the handler's timeout comes after the commit.                    *)
Unheard(w) == Fault /\ GivenBack(w)

Visits(B, s) == {n \in B : message[n].session = s}
VisitedMembers(B) == {message[n].member : n \in {k \in B : message[k].realmKnown}}
LastVisit(B) == Max({message[n].at : n \in B})

(* sessionsLastActivity: for every session its latest visit in the batch; of  *)
(* visits at the same time any may be the one.                               *)
Touched(B) == {message[n].session : n \in B} \ {NoSession}
LatestVisits(B) ==
  {f \in [Touched(B) -> B] :
     \A s \in Touched(B) : f[s] \in Visits(B, s) /\ message[f[s]].at = LastVisit(Visits(B, s))}

(* Mutant of Visited: GREATEST for the time, and no CASE for the address. *)
VisitedFromAnywhere(row, n) ==
  IF row = NoRow THEN row
  ELSE [created |-> row.created, updated |-> Later(row.updated, message[n].at), ip |-> n]

(* UpdateLastActivity: never back in time, and the address with the time. *)
Visited(row, n) ==
  IF row = NoRow THEN row
  ELSE [created |-> row.created,
        updated |-> Later(row.updated, message[n].at),
        ip |-> IF message[n].at >= row.updated THEN n ELSE row.ip]

UpdateLastActivity(w) ==
  LET B == work[w].batch
  IN /\ work[w] # Idle /\ work[w].step = "sessions"
     /\ Touched(B) = {} \/ \E s \in Touched(B) : HasRow(s)
     /\ \E last \in LatestVisits(B) :
          session' = [s \in Session |-> IF s \in Touched(B) THEN Visited(session[s], last[s])
                                         ELSE session[s]]
     /\ flushed' = flushed \cup B
     /\ Proceeds(w) \/ Unheard(w)
     /\ UNCHANGED <<clock, message, login, stat, log, copies, unheard>>

(* Mutant of UpdateLastVisited: an upsert that knows the visit only. *)
UpdateLastVisitedUpsert(w) ==
  LET B == work[w].batch
      Of(m) == {n \in B : message[n].member = m /\ message[n].realmKnown}
  IN /\ work[w] # Idle /\ work[w].step = "stat"
     /\ stat' = [m \in Member |->
                   IF m \in VisitedMembers(B)
                   THEN [stat[m] EXCEPT !.visited = Later(stat[m].visited, LastVisit(Of(m)))]
                   ELSE stat[m]]
     /\ Proceeds(w) \/ Unheard(w)
     /\ UNCHANGED <<clock, message, session, login, log, copies, unheard, flushed>>

(* UpdateLastVisited; a batch that finds no row at all is only warned about. *)
UpdateLastVisited(w) ==
  LET B == work[w].batch
      Of(m) == {n \in B : message[n].member = m /\ message[n].realmKnown}
  IN /\ work[w] # Idle /\ work[w].step = "stat"
     /\ stat' = [m \in Member |->
                   IF m \in VisitedMembers(B) /\ stat[m] # NoStat
                   THEN [stat[m] EXCEPT !.visited = Later(stat[m].visited, LastVisit(Of(m)))]
                   ELSE stat[m]]
     /\ Proceeds(w) \/ Unheard(w)
     /\ UNCHANGED <<clock, message, session, login, log, copies, unheard, flushed>>

Plus(count, B) == [n \in Number |-> IF n \in B THEN count[n] + 1 ELSE count[n]]

(* Nothing in the log tells a record from its repetition. *)
InsertLog(w) ==
  LET B == work[w].batch
  IN /\ work[w] # Idle /\ work[w].step = "log"
     /\ log' = log \cup B
     /\ copies' = Plus(copies, B)
     /\ \/ Proceeds(w) /\ UNCHANGED unheard
        \/ Unheard(w) /\ unheard' = Plus(unheard, B)
     /\ UNCHANGED <<clock, message, session, login, stat, flushed>>

(* UpdateLastActivity reports an error when it finds none of the sessions:   *)
(* they were all closed, and their rows deleted, before the batch came.      *)
AllSessionsGone(w) ==
  /\ work[w].step = "sessions"
  /\ Touched(work[w].batch) # {}
  /\ \A s \in Touched(work[w].batch) : ~HasRow(s)

(* A statement fails and has changed nothing. *)
BatchFails(w) ==
  /\ work[w] # Idle
  /\ \/ AllSessionsGone(w) /\ UNCHANGED faults
     \/ Fault
  /\ GivenBack(w)
  /\ UNCHANGED <<clock, message, session, login, stat, log, copies, unheard, flushed>>

(* The process dies with what it has in memory. *)
Crash ==
  /\ Fault
  /\ queue' = {} /\ work' = [w \in Worker |-> Idle]
  /\ login' = [s \in Session |-> [login[s] EXCEPT !.now = NoTime]]
  /\ UNCHANGED <<clock, message, session, stat, log, copies, unheard, flushed>>

-----------------------------------------------------------------------------
(* UserCleaner: a batch of the oldest records over the life time. *)
Expired == {n \in log : message[n].at < clock - LifeTime}

CleanLog ==
  \E B \in SUBSET Expired :
    /\ B # {}
    /\ \A n \in B, k \in Expired \ B : message[n].at <= message[k].at
    /\ log' = log \ B
    /\ UNCHANGED <<clock, message, queue, work, session, login, stat, copies, unheard, flushed, faults>>

Tick ==
  /\ clock < MaxClock
  /\ clock' = clock + 1
  /\ UNCHANGED <<message, queue, work, session, login, stat, log, copies, unheard, flushed, faults>>

Next ==
  \/ \E s \in Session :
       \/ OpenSession(s) \/ LoginStat(s) \/ DeleteSession(s)
       \/ \E sid \in {s, NoSession}, known \in BOOLEAN : Emit(s, sid, known)
  \/ \E m \in Member : DeleteMember(m)
  \/ \E w \in Worker :
       \/ \E B \in SUBSET queue : TakeBatch(w, B)
       \/ UpdateLastActivity(w) \/ UpdateLastVisited(w) \/ InsertLog(w) \/ BatchFails(w)
  \/ Crash \/ CleanLog \/ Tick

Spec == Init /\ [][Next]_vars

-----------------------------------------------------------------------------
Time == 0 .. MaxClock
Messages == [member : Member, session : Session \cup {NoSession}, realmKnown : BOOLEAN, at : Time]

(* Types; a row of statistics is written whole, by a login, and only then
   touched (last_logged_at is NOT NULL). *)
TypeOK ==
  /\ clock \in Time /\ faults \in 0 .. MaxFaults
  /\ message \in Seq(Messages) /\ Len(message) <= MaxMessages
  /\ queue \subseteq Sent /\ log \subseteq Sent /\ flushed \subseteq Sent
  /\ \A w \in Worker : work[w] # Idle => /\ work[w].batch \subseteq Sent
                                         /\ work[w].step \in {"sessions", "stat", "log"}
  /\ session \in [Session -> [created : Time, updated : Time, ip : 0 .. MaxMessages] \cup {NoRow}]
  /\ login \in [Session -> [member : Member, now : Time \cup {NoTime}, open : BOOLEAN]]
  /\ stat \in [Member -> [logged : Time, visited : Time] \cup {NoStat}]
  /\ copies \in [Number -> Nat] /\ unheard \in [Number -> Nat]

(* sessions keep the time and the address of one and the same visit, the
   latest of those that were written, in whatever order the batches came and
   however often; and last_visited_at is never before last_logged_at, although
   a visit before the login may be written after it. *)
RowIsLatestVisit ==
  /\ \A s \in Session : HasRow(s) =>
       LET seen == Visits(flushed, s)
       IN /\ session[s].updated = Max({session[s].created} \cup {message[n].at : n \in seen})
          /\ session[s].ip \in seen \/ (session[s].ip = 0 /\ seen = {})
          /\ session[s].ip # 0 => message[session[s].ip].at = session[s].updated
  /\ \A m \in Member : stat[m].logged <= stat[m].visited

(* A batch that failed at any of its statements is written again from the first
   one, and still a request gets into the log a second time only for an INSERT
   that was applied and reported an error: the log comes last, and what it has
   acknowledged never comes again. *)
LoggedOnceUnlessUnheard == \A n \in Number : copies[n] <= 1 + unheard[n]
=============================================================================
