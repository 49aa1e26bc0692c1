------------------------------- MODULE Settings -------------------------------
(***************************************************************************)
(* mrsettings: the table of settings and the log of their changes, the     *)
(* setter that writes both, the getter that reads the table and the cached *)
(* getter with the task that reloads it.                                   *)
(*                                                                         *)
(* Writers run concurrently, each in a transaction whose NOW() is the time *)
(* it began at; the reloader is one task of one instance of the program,   *)
(* which may be restarted.  Times are natural numbers; 0 is the zero time. *)
(***************************************************************************)
EXTENDS Integers, FiniteSets, FiniteSetsExt

CONSTANTS Ids,          \* SettingIDs
          TypeOf,       \* setting_type of each: nothing changes it
          Texts,        \* values no number can be parsed from
          Numbers,      \* values that parse as a number, a list of them, a bool
          Initial,      \* the values of the rows to begin with
          Writers,      \* callers of the setter
          Calls,        \* the calls they make
          Seeded,       \* settings the log holds rows of to begin with
          Free,         \* no writer
          MaxClock,     \* bound: moments told apart
          MaxChanges,   \* bound: changes begun
          MaxFaults     \* bound: restarts, and failures of the reloader

Types == {"String", "StringList", "Integer", "IntegerList", "Boolean"}
Setters == {"Set", "SetList", "SetInt64", "SetInt64List", "SetBool"}
Values == Texts \cup Numbers

ASSUME TypesAssumption == TypeOf \in [Ids -> Types]
ASSUME ValuesAssumption == Texts \cap Numbers = {} /\ Initial \in [Ids -> Values]
ASSUME WritersAssumption == Free \notin Writers
ASSUME IdsAssumption == IsFiniteSet(Ids) /\ Seeded \subseteq Ids
ASSUME CallsAssumption == Calls \subseteq Setters
ASSUME BoundsAssumption == MaxClock \in Nat \ {0} /\ {MaxChanges, MaxFaults} \subseteq Nat

VARIABLES clock,
          rows,         \* setting_id -> setting_value and updated_at
          log,          \* setting_id -> the new values in the rows of the log
          lock,         \* setting_id -> the writer whose transaction updated it
          writer,       \* what each caller of the setter is doing
          cache,        \* SettingsGetter.cache: id -> the row it was made from
          lastUpdated,  \* SettingsGetter.lastUpdated
          fetched       \* rows the reloader has fetched, by id

(* History. *)
VARIABLES late,         \* settings whose row was committed with an updated_at
                        \* that is not above all those committed before
          latest,       \* the latest updated_at ever committed
          assigned,     \* value the last Set of each setting committed
          changes,
          faults

tables == <<rows, log, lock>>
getter == <<cache, lastUpdated, fetched>>
history == <<late, latest, assigned>>
vars == <<clock, tables, writer, getter, history, changes, faults>>

Row == [value : Values, at : 1..MaxClock]
NoRows == [i \in {} |-> Free]
Partial == UNION {[S -> Row] : S \in SUBSET Ids}

Idle == [step |-> "idle"]

(* The type the setter gives the row, and the WHERE clause asks for. *)
WrittenType == [Set |-> "String", SetList |-> "IntegerList", SetInt64 |-> "Integer",
                SetInt64List |-> "IntegerList", SetBool |-> "Boolean"]

(* FieldFormatter: what each call can write. *)
Formatted(call) == IF call \in {"Set", "SetList"} THEN Values ELSE Numbers

(* FieldParser for a type; makeItem has no case for a string. *)
Parses(type, v) == type \in {"String", "StringList"} \/ v \in Numbers
MakesItem(type, v) == type # "String" /\ Parses(type, v)

(* The rows makeItem makes an item of. *)
Cacheable(R) == {i \in DOMAIN R : MakesItem(TypeOf[i], R[i].value)}

-----------------------------------------------------------------------------
Init ==
  /\ clock = 1
  /\ rows = [i \in Ids |-> [value |-> Initial[i], at |-> 1]]
  /\ log = [i \in Ids |-> IF i \in Seeded THEN {Initial[i]} ELSE {}]
  /\ lock = [i \in Ids |-> Free]
  /\ writer = [w \in Writers |-> Idle]
  /\ cache = NoRows
  /\ lastUpdated = 0
  /\ fetched = [step |-> "idle", rows |-> NoRows]
  /\ late = {}
  /\ latest = 1
  /\ assigned = [i \in Ids |-> Free]
  /\ changes = 0
  /\ faults = 0

(* The time goes on, or two transactions get the same time. *)
Now(t) == t \in clock..MaxClock /\ t <= clock + 1 /\ clock' = t

(* A row is committed with the value v and the time t. *)
Committed(i, v, t) ==
  /\ rows' = [rows EXCEPT ![i] = [value |-> v, at |-> t]]
  /\ late' = IF t <= latest THEN late \cup {i} ELSE late \ {i}
  /\ latest' = Max({latest, t})

-----------------------------------------------------------------------------
(* SettingsSetter *)

(* A call opens its transaction: the NOW() of both its statements. *)
SetBegin(w, call, i, v) ==
  /\ writer[w] = Idle
  /\ changes < MaxChanges /\ changes' = changes + 1
  /\ v \in Formatted(call)
  /\ \E t \in 1..MaxClock :
       /\ Now(t)
       /\ writer' = [writer EXCEPT ![w] = [step |-> "begun", call |-> call,
                                           id |-> i, value |-> v, at |-> t]]
  /\ UNCHANGED <<tables, getter, history, faults>>

(* The transaction is rolled back: its caller gets the error. *)
Rollback(w) ==
  /\ writer' = [writer EXCEPT ![w] = Idle]
  /\ lock' = [i \in Ids |-> IF lock[i] = w THEN Free ELSE lock[i]]
  /\ UNCHANGED <<clock, rows, log, getter, history, changes, faults>>

(* UPDATE of the row of that id and type: it waits for a row another
   transaction has updated. *)
SetUpdate(w) ==
  LET c == writer[w] IN
  /\ c.step = "begun"
  /\ IF TypeOf[c.id] # WrittenType[c.call]
     THEN Rollback(w)
     ELSE /\ lock[c.id] = Free
          /\ lock' = [lock EXCEPT ![c.id] = w]
          /\ writer' = [writer EXCEPT ![w].step = "updated"]
          /\ UNCHANGED <<clock, rows, log, getter, history, changes, faults>>

(* Mutant of SetLog: no row of the log is not an error. *)
SetLogLenient(w) ==
  LET c == writer[w] IN
  /\ c.step = "updated"
  /\ log' = [log EXCEPT ![c.id] = IF @ = {} THEN {} ELSE @ \cup {c.value}]
  /\ Committed(c.id, c.value, c.at)
  /\ lock' = [lock EXCEPT ![c.id] = Free]
  /\ assigned' = [assigned EXCEPT ![c.id] = c.value]
  /\ writer' = [writer EXCEPT ![w] = Idle]
  /\ UNCHANGED <<clock, getter, changes, faults>>

(* The INSERT selects from the log itself: every row of the setting gives
   one more, none gives an error; then the transaction commits. *)
SetLog(w) ==
  LET c == writer[w] IN
  /\ c.step = "updated"
  /\ IF log[c.id] = {}
     THEN Rollback(w)
     ELSE /\ log' = [log EXCEPT ![c.id] = @ \cup {c.value}]
          /\ Committed(c.id, c.value, c.at)
          /\ lock' = [lock EXCEPT ![c.id] = Free]
          /\ assigned' = [assigned EXCEPT ![c.id] = c.value]
          /\ writer' = [writer EXCEPT ![w] = Idle]
          /\ UNCHANGED <<clock, getter, changes, faults>>

(* The database or the caller's context gives up on an open transaction. *)
SetFails(w) == writer[w] # Idle /\ Rollback(w)

(* External: a row is edited by hand, the only way to change the settings
   of a type no call of the setter writes. *)
Edit(i, v) ==
  /\ lock[i] = Free
  /\ changes < MaxChanges /\ changes' = changes + 1
  /\ \E t \in 1..MaxClock : Now(t) /\ Committed(i, v, t)
  /\ assigned' = [assigned EXCEPT ![i] = Free]
  /\ UNCHANGED <<log, lock, writer, getter, faults>>

-----------------------------------------------------------------------------
(* SettingsGetter with its cache *)

(* SettingPostgres.Fetch. *)
Changed == {i \in Ids : rows[i].at > lastUpdated}

(* Reload reads the rows changed since the last update. *)
ReloadFetch ==
  /\ fetched.step = "idle"
  /\ Changed # {}
  /\ fetched' = [step |-> "fetched", rows |-> [i \in Changed |-> rows[i]]]
  /\ UNCHANGED <<clock, tables, writer, cache, lastUpdated, history, changes, faults>>

(* Mutants of ReloadStore: the time of the reload is kept as the last update;
   one row that makes no item stops the reload. *)
ReloadStoreNow ==
  LET R == fetched.rows
      S == Cacheable(R)
  IN
  /\ fetched.step = "fetched"
  /\ IF S = {}
     THEN UNCHANGED <<cache, lastUpdated>>
     ELSE /\ cache' = [i \in S |-> R[i]]
          /\ lastUpdated' = clock
  /\ fetched' = [step |-> "idle", rows |-> NoRows]
  /\ UNCHANGED <<clock, tables, writer, history, changes, faults>>

ReloadStoreStrict ==
  LET R == fetched.rows
      S == Cacheable(R)
  IN
  /\ fetched.step = "fetched"
  /\ IF S # DOMAIN R
     THEN UNCHANGED <<cache, lastUpdated>>
     ELSE /\ cache' = [i \in S |-> R[i]]
          /\ lastUpdated' = Max({R[i].at : i \in S})
  /\ fetched' = [step |-> "idle", rows |-> NoRows]
  /\ UNCHANGED <<clock, tables, writer, history, changes, faults>>

(* The items made of them become the cache, and the latest of their times
   the last update; when there are none, nothing changes. *)
ReloadStore ==
  LET R == fetched.rows
      S == Cacheable(R)
  IN
  /\ fetched.step = "fetched"
  /\ IF S = {}
     THEN UNCHANGED <<cache, lastUpdated>>
     ELSE /\ cache' = [i \in S |-> R[i]]
          /\ lastUpdated' = Max({R[i].at : i \in S})
  /\ fetched' = [step |-> "idle", rows |-> NoRows]
  /\ UNCHANGED <<clock, tables, writer, history, changes, faults>>

(* The task is cut off by its timeout or by an error of the database. *)
ReloadFails ==
  /\ fetched.step = "fetched"
  /\ faults < MaxFaults /\ faults' = faults + 1
  /\ fetched' = [step |-> "idle", rows |-> NoRows]
  /\ UNCHANGED <<clock, tables, writer, cache, lastUpdated, history, changes>>

(* The program is started anew: NewSettingsGetter. *)
Restart ==
  /\ faults < MaxFaults /\ faults' = faults + 1
  /\ cache' = NoRows
  /\ lastUpdated' = 0
  /\ fetched' = [step |-> "idle", rows |-> NoRows]
  /\ UNCHANGED <<clock, tables, writer, history, changes>>

Set(w) ==
  \/ \E call \in Calls, i \in Ids, v \in Values : SetBegin(w, call, i, v)
  \/ SetUpdate(w)
  \/ SetLog(w)
  \/ SetFails(w)

Next ==
  \/ \E w \in Writers : Set(w)
  \/ \E i \in Ids, v \in Values : Edit(i, v)
  \/ ReloadFetch
  \/ ReloadStore
  \/ ReloadFails
  \/ Restart

Spec == Init /\ [][Next]_vars

(* The scheduler starts the reload again and again. *)
FairSpec == Spec /\ WF_vars(ReloadFetch) /\ WF_vars(ReloadStore)

-----------------------------------------------------------------------------
(* The getters.  A value is given as the row holds it, with the way it was
   parsed; Nothing stands for an error. *)

Nothing == [form |-> "error"]
Gets == {"Get", "GetList", "GetInt64", "GetInt64List", "GetBool"}
AskedType == [Get |-> "String", GetList |-> "StringList", GetInt64 |-> "Integer",
              GetInt64List |-> "IntegerList", GetBool |-> "Boolean"]

(* The type the cached getter compares with: a list of strings is asked of
   the settings that hold integers, and is empty there. *)
CachedType == [AskedType EXCEPT !["GetList"] = "IntegerList"]

(* SettingPostgres.FetchOne *)
FetchOne(i) == [type |-> TypeOf[i], value |-> rows[i].value]

(* service.SettingsGetter: from the table; a string is read of any type. *)
DirectGet(get, i) ==
  LET r == FetchOne(i) IN
  IF (get = "Get" \/ r.type = AskedType[get]) /\ Parses(AskedType[get], r.value)
  THEN [form |-> AskedType[get], value |-> r.value]
  ELSE Nothing

(* cacheget.SettingsGetter: from the cache. *)
CachedGet(get, i) ==
  IF i \notin DOMAIN cache
  THEN Nothing
  ELSE CASE get = "Get" -> [form |-> "String", value |-> cache[i].value]
         [] get = "GetList" /\ TypeOf[i] = CachedType[get] -> [form |-> "empty"]
         [] get \notin {"Get", "GetList"} /\ TypeOf[i] = CachedType[get] ->
              [form |-> AskedType[get], value |-> cache[i].value]
         [] OTHER -> Nothing

-----------------------------------------------------------------------------
(* Properties *)

(* Type invariant of the tables, the getter and the callers of the setter. *)
TypeOK ==
  /\ clock \in 1..MaxClock
  /\ rows \in [Ids -> Row]
  /\ log \in [Ids -> SUBSET Values]
  /\ lock \in [Ids -> Writers \cup {Free}]
  /\ writer \in [Writers -> {Idle} \cup
       [step : {"begun", "updated"}, call : Calls, id : Ids,
        value : Values, at : 1..MaxClock]]
  /\ cache \in Partial
  /\ lastUpdated \in 0..MaxClock
  /\ fetched \in [step : {"idle", "fetched"}, rows : Partial]
  /\ late \subseteq Ids
  /\ latest \in 1..MaxClock
  /\ assigned \in [Ids -> Values \cup {Free}]

(* A setting that the cache serves is served as the table holds it, once the
   reload has passed the time of the row, unless the row was committed with
   a time that was already passed. *)
FreshUnlessLate ==
  \A i \in Ids \ late, get \in Gets \ {"GetList"} :
    rows[i].at <= lastUpdated /\ CachedGet(get, i) # Nothing =>
      CachedGet(get, i) = DirectGet(get, i)

(* Whoever reads the value a Set has committed also finds it in the log: the
   two statements are one transaction, also when both callers write at once
   or one of them is cut off. *)
EveryChangeLogged ==
  \A i \in Ids : assigned[i] # Free =>
    /\ rows[i].value = assigned[i]
    /\ assigned[i] \in log[i]

(* A row that can be cached and was not committed too late. *)
Served(i) == i \in DOMAIN cache /\ cache[i] = rows[i]
Waiting(i) == i \in Cacheable(rows) \ late /\ rows[i].at > lastUpdated

(* Every change of a setting is served in the end, whatever other rows hold
   and however the reload was interrupted, unless the setting changes into
   something that cannot be cached or is committed too late. *)
ChangeIsServed ==
  \A i \in Ids :
    Waiting(i) ~> Served(i) \/ i \in late \/ i \notin Cacheable(rows)

(* The cache is where "the settings loaded from the storage" are kept: one
   that was loaded and has not changed since is there. *)
LoadedStaysCached ==
  \A i \in Cacheable(rows) \ late : rows[i].at <= lastUpdated => i \in DOMAIN cache
=============================================================================
