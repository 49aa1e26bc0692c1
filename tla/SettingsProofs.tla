--------------------------- MODULE SettingsProofs ---------------------------
(***************************************************************************)
(* Proofs about Settings, for any settings, callers, values and bounds.    *)
(***************************************************************************)
EXTENDS Settings, FiniteSetsExt, WellFoundedInduction, TLAPS

(* A set of times that is not empty has a latest one. *)
LEMMA MaxIs ==
  ASSUME NEW N \in Nat, NEW S \in SUBSET (0..N), S # {}
  PROVE  Max(S) \in S /\ \A y \in S : y <= Max(S)
<1> DEFINE T == {n \in Nat : N - n \in S}
           R == OpToRel(<, Nat)
<1>1. T \subseteq Nat /\ T # {}
  <2>1. PICK s \in S : TRUE
    OBVIOUS
  <2>2. N - s \in Nat /\ N - (N - s) = s
    OBVIOUS
  <2> QED BY <2>2
<1>2. IsWellFoundedOn(R, Nat)
  BY NatLessThanWellFounded
<1>3. PICK x \in T : \A y \in T : ~ (<<y, x>> \in R)
  <2> HIDE DEF T, R
  <2> QED BY <1>1, <1>2, WFMin
<1>4. \A y \in T : ~ (y < x)
  BY <1>3 DEF OpToRel
<1>5. N - x \in S /\ \A y \in S : y <= N - x
  <2>1. ASSUME NEW y \in S PROVE y <= N - x
    <3>1. N - y \in Nat /\ N - (N - y) = y
      OBVIOUS
    <3>2. N - y \in T
      BY <3>1
    <3> QED BY <3>1, <3>2, <1>4
  <2> QED BY <2>1
<1>6. \E m \in S : \A y \in S : m >= y
  BY <1>5
<1>7. Max(S) \in S /\ \A y \in S : Max(S) >= y
  BY <1>6, Zenon DEF Max
<1> QED BY <1>7

-----------------------------------------------------------------------------
(* The parts of the inductive invariant *)

(* No row that was read is later than the latest commit, and none of the
   cache is later than the last update. *)
Times ==
  /\ lastUpdated <= latest
  /\ \A i \in Ids : rows[i].at <= latest
  /\ \A i \in DOMAIN cache : cache[i].at <= lastUpdated
  /\ \A i \in DOMAIN fetched.rows : fetched.rows[i].at <= latest

(* The cache holds what makeItem has made. *)
Parsed == \A i \in DOMAIN cache : MakesItem(TypeOf[i], cache[i].value)

(* A row of the cache is the row of the table, or the next reload asks for
   the one of the table. *)
CacheCurrent ==
  \A i \in DOMAIN cache \ late : cache[i] = rows[i] \/ rows[i].at > lastUpdated

(* A row on its way to the cache is the row of the table, or the one of the
   table is later than whatever is on its way. *)
FetchedCurrent ==
  \A i \in DOMAIN fetched.rows \ late :
    \/ fetched.rows[i] = rows[i]
    \/ \A j \in DOMAIN fetched.rows : rows[i].at > fetched.rows[j].at

Inv ==
  /\ TypeOK
  /\ Times
  /\ Parsed
  /\ CacheCurrent
  /\ FetchedCurrent
  /\ EveryChangeLogged

-----------------------------------------------------------------------------
(* Partial functions to rows *)

(* A selection of rows is a partial function. *)
LEMMA PartialIs ==
  ASSUME NEW S \in SUBSET Ids, NEW f, f \in [S -> Row]
  PROVE  f \in Partial /\ DOMAIN f = S
BY DEF Partial

(* ... and takes rows as its values. *)
LEMMA PartialHas ==
  ASSUME NEW f \in Partial
  PROVE  /\ DOMAIN f \subseteq Ids
         /\ f \in [DOMAIN f -> Row]
         /\ \A i \in DOMAIN f : f[i] \in Row
BY DEF Partial

(* No rows are a partial function without a domain. *)
LEMMA NoRowsIs == NoRows \in Partial /\ DOMAIN NoRows = {}
<1>1. NoRows \in [{} -> Row] /\ {} \in SUBSET Ids
  BY DEF NoRows
<1> QED BY <1>1, PartialIs

-----------------------------------------------------------------------------
(* The invariant *)

(* It holds to begin with. *)
LEMMA InvInit == Init => Inv
<1> SUFFICES ASSUME Init PROVE Inv
  OBVIOUS
<1> USE DEF Init
<1>1. rows \in [Ids -> Row]
  <2>1. \A i \in Ids : [value |-> Initial[i], at |-> 1] \in Row
    BY BoundsAssumption, ValuesAssumption DEF Row
  <2> QED BY <2>1
<1>2. TypeOK
  <2>1. clock \in 1..MaxClock /\ lastUpdated \in 0..MaxClock /\ latest \in 1..MaxClock
    BY BoundsAssumption
  <2>2. log \in [Ids -> SUBSET Values]
    BY ValuesAssumption DEF Values
  <2>3. lock \in [Ids -> Writers \cup {Free}] /\ assigned \in [Ids -> Values \cup {Free}]
        /\ late \subseteq Ids
    OBVIOUS
  <2>4. writer \in [Writers -> {Idle} \cup
          [step : {"begun", "updated"}, call : Calls, id : Ids,
           value : Values, at : 1..MaxClock]]
    OBVIOUS
  <2>5. cache \in Partial /\ fetched \in [step : {"idle", "fetched"}, rows : Partial]
    BY NoRowsIs
  <2> QED BY <1>1, <2>1, <2>2, <2>3, <2>4, <2>5 DEF TypeOK
<1>3. DOMAIN cache = {} /\ DOMAIN fetched.rows = {}
  BY NoRowsIs
<1>4. Times
  BY <1>3 DEF Times
<1> QED BY <1>2, <1>3, <1>4 DEF Inv, Parsed, CacheCurrent, FetchedCurrent, EveryChangeLogged

(* A commit after all others, or one that makes its setting late, keeps what
   the cache and the rows on their way are worth. *)
LEMMA CommittedKeeps ==
  ASSUME Inv, NEW i \in Ids, NEW v \in Values, NEW t \in 1..MaxClock,
         Committed(i, v, t), UNCHANGED getter
  PROVE  /\ rows' \in [Ids -> Row] /\ late' \subseteq Ids /\ latest' \in 1..MaxClock
         /\ rows'[i].value = v /\ \A j \in Ids \ {i} : rows'[j] = rows[j]
         /\ Times' /\ Parsed' /\ CacheCurrent' /\ FetchedCurrent'
<1> USE DEF Inv, TypeOK
<1>1. latest' \in {latest, t} /\ latest' >= latest /\ latest' >= t
  <2>1. {latest, t} \in SUBSET (0..MaxClock) /\ {latest, t} # {} /\ MaxClock \in Nat
    BY BoundsAssumption
  <2>2. latest' = Max({latest, t})
    BY DEF Committed
  <2> HIDE DEF Inv, TypeOK
  <2>3. Max({latest, t}) \in {latest, t} /\ \A y \in {latest, t} : y <= Max({latest, t})
    BY <2>1, MaxIs
  <2>4. latest \in Nat /\ t \in Nat
    BY DEF Inv, TypeOK
  <2> QED BY <2>2, <2>3, <2>4
<1>2. [value |-> v, at |-> t] \in Row
  BY DEF Row
<1>3. rows' = [rows EXCEPT ![i] = [value |-> v, at |-> t]]
  BY DEF Committed
<1>4. /\ rows' \in [Ids -> Row]
      /\ rows'[i] = [value |-> v, at |-> t]
      /\ \A j \in Ids \ {i} : rows'[j] = rows[j]
  BY <1>2, <1>3
<1>5. rows'[i].at = t /\ rows'[i].value = v
  BY <1>4
<1>6. /\ t <= latest => late' = late \cup {i}
      /\ t > latest => late' = late \ {i}
  BY DEF Committed
<1>7. late' \subseteq Ids /\ \A j \in Ids \ late' : j # i => j \notin late
  BY <1>6, <1>1
<1>8. (i \notin late' => t > latest) /\ latest' \in 1..MaxClock
  BY <1>6, <1>1
<1>9. cache' = cache /\ lastUpdated' = lastUpdated /\ fetched' = fetched
  BY DEF getter
<1>10. /\ DOMAIN cache \subseteq Ids /\ DOMAIN fetched.rows \subseteq Ids
       /\ \A j \in DOMAIN cache : cache[j].at \in Int
       /\ \A j \in DOMAIN fetched.rows : fetched.rows[j].at \in Int
       /\ \A j \in Ids : rows[j].at \in Int /\ rows'[j].at \in Int
       /\ latest \in Int /\ t \in Int /\ lastUpdated \in Int
  BY PartialHas, <1>4 DEF Row
<1> HIDE DEF TypeOK
<1>11. Times'
  BY <1>1, <1>4, <1>5, <1>9, <1>10 DEF Times
<1>12. Parsed'
  BY <1>9 DEF Parsed
<1>13. CacheCurrent'
  BY <1>4, <1>5, <1>7, <1>8, <1>9, <1>10 DEF CacheCurrent, Times
<1>14. FetchedCurrent'
  BY <1>4, <1>5, <1>7, <1>8, <1>9, <1>10 DEF FetchedCurrent, Times
<1> QED BY <1>4, <1>5, <1>7, <1>8, <1>11, <1>12, <1>13, <1>14

(* A step that leaves the tables and the getter alone keeps all but the
   types. *)
LEMMA NothingSeen ==
  ASSUME Inv, UNCHANGED <<rows, log, getter, history>>
  PROVE  Times' /\ Parsed' /\ CacheCurrent' /\ FetchedCurrent' /\ EveryChangeLogged'
BY DEF Inv, getter, history, Times, Parsed, CacheCurrent, FetchedCurrent, EveryChangeLogged

(* A rollback frees what the transaction had locked. *)
LEMMA RollbackStep ==
  ASSUME Inv, NEW w \in Writers, Rollback(w)
  PROVE  Inv'
<1>1. TypeOK'
  <2> USE DEF Inv, TypeOK, Rollback, getter, history
  <2>1. lock' \in [Ids -> Writers \cup {Free}]
    OBVIOUS
  <2>2. writer' \in [Writers -> {Idle} \cup
          [step : {"begun", "updated"}, call : Calls, id : Ids,
           value : Values, at : 1..MaxClock]]
    OBVIOUS
  <2> QED BY <2>1, <2>2
<1>2. UNCHANGED <<rows, log, getter, history>>
  BY DEF Rollback
<1> QED BY <1>1, <1>2, NothingSeen DEF Inv

(* A call that opens its transaction touches nothing that others see. *)
LEMMA SetBeginStep ==
  ASSUME Inv, NEW w \in Writers, NEW call \in Calls, NEW i \in Ids, NEW v \in Values,
         SetBegin(w, call, i, v)
  PROVE  Inv'
<1>1. PICK t \in 1..MaxClock :
        /\ Now(t)
        /\ writer' = [writer EXCEPT ![w] = [step |-> "begun", call |-> call,
                                            id |-> i, value |-> v, at |-> t]]
  BY DEF SetBegin
<1>2. TypeOK'
  <2>1. clock' \in 1..MaxClock
    BY <1>1 DEF Now
  <2>2. writer' \in [Writers -> {Idle} \cup
          [step : {"begun", "updated"}, call : Calls, id : Ids,
           value : Values, at : 1..MaxClock]]
    BY <1>1 DEF Inv, TypeOK
  <2> QED BY <2>1, <2>2 DEF Inv, TypeOK, SetBegin, tables, getter, history
<1>3. UNCHANGED <<rows, log, getter, history>>
  BY DEF SetBegin, tables
<1> QED BY <1>2, <1>3, NothingSeen DEF Inv

(* Nor does its UPDATE before the commit, but for the lock of the row. *)
LEMMA SetUpdateStep ==
  ASSUME Inv, NEW w \in Writers, SetUpdate(w)
  PROVE  Inv'
<1>1. CASE Rollback(w)
  BY <1>1, RollbackStep
<1>2. CASE ~ Rollback(w)
  <2>1. /\ writer[w].step = "begun"
        /\ lock' = [lock EXCEPT ![writer[w].id] = w]
        /\ writer' = [writer EXCEPT ![w].step = "updated"]
        /\ UNCHANGED <<clock, rows, log, getter, history, changes, faults>>
    BY <1>2 DEF SetUpdate
  <2>2. writer[w] \in [step : {"begun", "updated"}, call : Calls, id : Ids,
                       value : Values, at : 1..MaxClock]
    BY <2>1 DEF Inv, TypeOK, Idle
  <2>3. TypeOK'
    <3>1. lock' \in [Ids -> Writers \cup {Free}]
      BY <2>1, <2>2 DEF Inv, TypeOK
    <3>2. writer' \in [Writers -> {Idle} \cup
            [step : {"begun", "updated"}, call : Calls, id : Ids,
             value : Values, at : 1..MaxClock]]
      BY <2>1, <2>2 DEF Inv, TypeOK
    <3> QED BY <2>1, <3>1, <3>2 DEF Inv, TypeOK, getter, history
  <2> QED BY <2>1, <2>3, NothingSeen DEF Inv
<1> QED BY <1>1, <1>2

(* The transaction that commits leaves its value in the row and in the log. *)
LEMMA SetLogStep ==
  ASSUME Inv, NEW w \in Writers, SetLog(w)
  PROVE  Inv'
<1>1. CASE Rollback(w)
  BY <1>1, RollbackStep
<1>2. CASE ~ Rollback(w)
  <2> DEFINE c == writer[w]
  <2>1. /\ c.step = "updated"
        /\ log' = [log EXCEPT ![c.id] = @ \cup {c.value}]
        /\ Committed(c.id, c.value, c.at)
        /\ lock' = [lock EXCEPT ![c.id] = Free]
        /\ assigned' = [assigned EXCEPT ![c.id] = c.value]
        /\ writer' = [writer EXCEPT ![w] = Idle]
        /\ UNCHANGED <<clock, getter, changes, faults>>
    BY <1>2 DEF SetLog
  <2>2. c.id \in Ids /\ c.value \in Values /\ c.at \in 1..MaxClock
    BY <2>1 DEF Inv, TypeOK, Idle
  <2> HIDE DEF c
  <2>3. /\ rows' \in [Ids -> Row] /\ late' \subseteq Ids /\ latest' \in 1..MaxClock
        /\ rows'[c.id].value = c.value /\ \A j \in Ids \ {c.id} : rows'[j] = rows[j]
        /\ Times' /\ Parsed' /\ CacheCurrent' /\ FetchedCurrent'
    BY <2>1, <2>2, CommittedKeeps
  <2>4. TypeOK'
    <3>1. log' \in [Ids -> SUBSET Values] /\ lock' \in [Ids -> Writers \cup {Free}]
          /\ assigned' \in [Ids -> Values \cup {Free}]
      BY <2>1, <2>2 DEF Inv, TypeOK
    <3>2. writer' \in [Writers -> {Idle} \cup
            [step : {"begun", "updated"}, call : Calls, id : Ids,
             value : Values, at : 1..MaxClock]]
      BY <2>1 DEF Inv, TypeOK
    <3> QED BY <2>1, <2>3, <3>1, <3>2 DEF Inv, TypeOK, getter
  <2>5. EveryChangeLogged'
    BY <2>1, <2>2, <2>3 DEF Inv, TypeOK, EveryChangeLogged
  <2> QED BY <2>3, <2>4, <2>5 DEF Inv
<1> QED BY <1>1, <1>2

(* A row edited by hand has no assigned value. *)
LEMMA EditStep ==
  ASSUME Inv, NEW i \in Ids, NEW v \in Values, Edit(i, v)
  PROVE  Inv'
<1>1. PICK t \in 1..MaxClock : Now(t) /\ Committed(i, v, t)
  BY DEF Edit
<1>2. assigned' = [assigned EXCEPT ![i] = Free] /\ UNCHANGED <<log, lock, writer, getter>>
  BY DEF Edit
<1>3. /\ rows' \in [Ids -> Row] /\ late' \subseteq Ids /\ latest' \in 1..MaxClock
      /\ rows'[i].value = v /\ \A j \in Ids \ {i} : rows'[j] = rows[j]
      /\ Times' /\ Parsed' /\ CacheCurrent' /\ FetchedCurrent'
  BY <1>1, <1>2, CommittedKeeps
<1>4. TypeOK'
  <2>1. clock' \in 1..MaxClock
    BY <1>1 DEF Now
  <2>2. assigned' \in [Ids -> Values \cup {Free}]
    BY <1>2 DEF Inv, TypeOK
  <2> QED BY <1>2, <1>3, <2>1, <2>2 DEF Inv, TypeOK, getter
<1>5. EveryChangeLogged'
  BY <1>2, <1>3 DEF Inv, TypeOK, EveryChangeLogged
<1> QED BY <1>3, <1>4, <1>5 DEF Inv

(* The rows that a reload fetches are those of the table. *)
LEMMA ReloadFetchStep ==
  ASSUME Inv, ReloadFetch
  PROVE  Inv'
<1> DEFINE F == [i \in Changed |-> rows[i]]
<1>1. /\ fetched' = [step |-> "fetched", rows |-> F]
      /\ UNCHANGED <<clock, tables, writer, cache, lastUpdated, history>>
  BY DEF ReloadFetch
<1>2. Changed \in SUBSET Ids /\ F \in [Changed -> Row]
  BY DEF Changed, Inv, TypeOK
<1>3. F \in Partial /\ DOMAIN F = Changed
  BY <1>2, PartialIs
<1>4. \A i \in DOMAIN F : i \in Ids /\ F[i] = rows[i]
  BY <1>2
<1> HIDE DEF F
<1>5. fetched'.rows = F /\ fetched' \in [step : {"idle", "fetched"}, rows : Partial]
  BY <1>1, <1>3
<1>6. TypeOK'
  BY <1>1, <1>5 DEF Inv, TypeOK, tables, history
<1>7. Times'
  BY <1>1, <1>4, <1>5 DEF Inv, Times, tables, history
<1>8. FetchedCurrent'
  BY <1>1, <1>4, <1>5 DEF FetchedCurrent, tables, history
<1>9. Parsed' /\ CacheCurrent' /\ EveryChangeLogged'
  BY <1>1 DEF Inv, Parsed, CacheCurrent, EveryChangeLogged, tables, history
<1> QED BY <1>6, <1>7, <1>8, <1>9 DEF Inv

(* The cache is replaced by rows each of which is the table's, or will be
   asked for again: the table's is later than all that were fetched, hence
   than the new last update. *)
LEMMA ReloadStoreStep ==
  ASSUME Inv, ReloadStore
  PROVE  Inv'
<1> DEFINE R == fetched.rows
           S == Cacheable(R)
           Ats == {R[i].at : i \in S}
<1>1. /\ fetched' = [step |-> "idle", rows |-> NoRows]
      /\ UNCHANGED <<clock, tables, writer, history>>
  BY DEF ReloadStore
<1>2. fetched'.rows = NoRows /\ fetched' \in [step : {"idle", "fetched"}, rows : Partial]
  BY <1>1, NoRowsIs
<1>3. FetchedCurrent'
  BY <1>2, NoRowsIs DEF FetchedCurrent
<1>4. R \in Partial /\ latest \in 1..MaxClock /\ DOMAIN R \subseteq Ids
      /\ \A i \in DOMAIN R : R[i] \in Row
  BY PartialHas DEF Inv, TypeOK
<1>5. CASE S = {}
  <2>1. UNCHANGED <<cache, lastUpdated>>
    BY <1>5 DEF ReloadStore
  <2>2. TypeOK'
    BY <1>1, <1>2, <2>1 DEF Inv, TypeOK, tables, history
  <2>3. Times'
    BY <1>1, <1>2, <2>1, NoRowsIs DEF Inv, Times, tables, history
  <2>4. Parsed' /\ CacheCurrent' /\ EveryChangeLogged'
    BY <1>1, <2>1 DEF Inv, Parsed, CacheCurrent, EveryChangeLogged, tables, history
  <2> QED BY <1>3, <2>2, <2>3, <2>4 DEF Inv
<1>6. CASE S # {}
  <2>1. cache' = [i \in S |-> R[i]] /\ lastUpdated' = Max(Ats)
    BY <1>6 DEF ReloadStore
  <2>2. S \in SUBSET (DOMAIN R) /\ S \in SUBSET Ids
    BY <1>4 DEF Cacheable
  <2>3. \A i \in DOMAIN R : R[i].at \in 1..MaxClock /\ R[i].at <= latest
    BY <1>4 DEF Row, Inv, Times
  <2>4. Ats \in SUBSET (0..MaxClock) /\ Ats # {} /\ MaxClock \in Nat
    BY <1>6, <2>2, <2>3, BoundsAssumption
  <2>5. Max(Ats) \in Ats /\ \A y \in Ats : y <= Max(Ats)
    <3> HIDE DEF Ats
    <3> QED BY <2>4, MaxIs
  <2>6. PICK k \in S : lastUpdated' = R[k].at
    BY <2>1, <2>5
  <2>7. \A i \in S : R[i].at <= lastUpdated'
    BY <2>1, <2>5
  <2>8. cache' \in Partial /\ DOMAIN cache' = S /\ \A i \in S : cache'[i] = R[i]
    <3>1. [i \in S |-> R[i]] \in [S -> Row]
      BY <1>4, <2>2
    <3> QED BY <2>1, <2>2, <3>1, PartialIs
  <2>9. \A i \in S : MakesItem(TypeOf[i], R[i].value)
    BY DEF Cacheable
  <2>10. \A i \in DOMAIN R \ late : R[i] = rows[i] \/ \A j \in DOMAIN R : rows[i].at > R[j].at
    BY DEF Inv, FetchedCurrent
  <2>11. rows' = rows /\ late' = late /\ latest' = latest /\ log' = log /\ assigned' = assigned
    BY <1>1 DEF tables, history
  <2> HIDE DEF S, R, Ats
  <2>12. TypeOK'
    BY <1>1, <1>2, <2>3, <2>6, <2>2, <2>8 DEF Inv, TypeOK, tables, history
  <2>13. Times'
    <3>1. lastUpdated' <= latest'
      BY <2>2, <2>3, <2>6, <2>11
    <3>2. \A i \in Ids : rows'[i].at <= latest'
      BY <2>11 DEF Inv, Times
    <3>3. \A i \in DOMAIN cache' : cache'[i].at <= lastUpdated'
      BY <2>7, <2>8
    <3>4. DOMAIN fetched'.rows = {}
      BY <1>2, NoRowsIs
    <3> QED BY <3>1, <3>2, <3>3, <3>4 DEF Times
  <2>14. Parsed'
    BY <2>8, <2>9 DEF Parsed
  <2>15. CacheCurrent'
    BY <2>2, <2>6, <2>8, <2>10, <2>11 DEF CacheCurrent
  <2>16. EveryChangeLogged'
    BY <2>11 DEF Inv, EveryChangeLogged
  <2> QED BY <1>3, <2>12, <2>13, <2>14, <2>15, <2>16 DEF Inv
<1> QED BY <1>5, <1>6

(* A reload that is cut off, or a program started anew, forgets rows. *)
LEMMA ForgetStep ==
  ASSUME Inv, ReloadFails \/ Restart
  PROVE  Inv'
<1>1. /\ fetched' = [step |-> "idle", rows |-> NoRows]
      /\ UNCHANGED <<clock, tables, writer, history>>
  BY DEF ReloadFails, Restart
<1>2. \/ cache' = cache /\ lastUpdated' = lastUpdated
      \/ cache' = NoRows /\ lastUpdated' = 0
  BY DEF ReloadFails, Restart
<1>3. fetched'.rows = NoRows /\ fetched' \in [step : {"idle", "fetched"}, rows : Partial]
  BY <1>1, NoRowsIs
<1>4. FetchedCurrent'
  BY <1>3, NoRowsIs DEF FetchedCurrent
<1>5. TypeOK'
  BY <1>1, <1>2, <1>3, NoRowsIs, BoundsAssumption DEF Inv, TypeOK, tables, history
<1>6. Times'
  BY <1>1, <1>2, <1>3, NoRowsIs DEF Inv, TypeOK, Times, tables, history
<1>7. Parsed' /\ CacheCurrent' /\ EveryChangeLogged'
  BY <1>1, <1>2, NoRowsIs DEF Inv, Parsed, CacheCurrent, EveryChangeLogged, tables, history
<1> QED BY <1>4, <1>5, <1>6, <1>7 DEF Inv

(* Every step keeps the invariant. *)
LEMMA InvNext ==
  ASSUME Inv, [Next]_vars
  PROVE  Inv'
<1>1. CASE UNCHANGED vars
  <2>1. UNCHANGED <<rows, log, getter, history>>
    BY <1>1 DEF vars, tables
  <2>2. TypeOK'
    BY <1>1 DEF Inv, TypeOK, vars, tables, getter, history
  <2> QED BY <2>1, <2>2, NothingSeen DEF Inv
<1>2. ASSUME NEW w \in Writers, Set(w) PROVE Inv'
  <2>1. CASE \E call \in Calls, i \in Ids, v \in Values : SetBegin(w, call, i, v)
    BY <2>1, SetBeginStep
  <2>2. CASE SetFails(w)
    BY <2>2, RollbackStep DEF SetFails
  <2> QED BY <1>2, <2>1, <2>2, SetUpdateStep, SetLogStep DEF Set
<1> QED BY <1>1, <1>2, EditStep, ReloadFetchStep, ReloadStoreStep, ForgetStep DEF Next

(* The invariant holds in every state that is reached. *)
LEMMA Invariant == Spec => []Inv
BY InvInit, InvNext, PTL DEF Spec

-----------------------------------------------------------------------------
(* What a cached getter returns of a row that is the table's is what the
   getter without a cache returns. *)
LEMMA SameAnswer ==
  ASSUME NEW i \in Ids, NEW get \in Gets \ {"GetList"},
         i \in DOMAIN cache, cache[i] = rows[i], MakesItem(TypeOf[i], cache[i].value)
  PROVE  CachedGet(get, i) # Nothing => CachedGet(get, i) = DirectGet(get, i)
<1>1. CASE get = "Get"
  BY <1>1 DEF CachedGet, DirectGet, FetchOne, Parses, AskedType, Gets
<1>2. CASE get # "Get"
  <2>1. CachedType[get] = AskedType[get]
    BY DEF CachedType, AskedType, Gets
  <2>2. TypeOf[i] = CachedType[get] => Parses(AskedType[get], cache[i].value)
    BY <2>1 DEF MakesItem
  <2> QED BY <1>2, <2>1, <2>2 DEF CachedGet, DirectGet, FetchOne, Gets
<1> QED BY <1>1, <1>2

(* For any settings, callers, values and times: the getter with the cache
   answers as the one without it for all rows the reload has passed, unless
   they were committed late; and no committed change is missing in the log. *)
THEOREM SettingsAreFresh == Spec => [](TypeOK /\ FreshUnlessLate /\ EveryChangeLogged)
<1>1. Inv => TypeOK /\ FreshUnlessLate /\ EveryChangeLogged
  <2> SUFFICES ASSUME Inv, NEW i \in Ids \ late, NEW get \in Gets \ {"GetList"},
                      rows[i].at <= lastUpdated, CachedGet(get, i) # Nothing
               PROVE  CachedGet(get, i) = DirectGet(get, i)
    BY DEF Inv, FreshUnlessLate
  <2>1. i \in DOMAIN cache
    BY DEF CachedGet
  <2>2. rows[i].at \in Nat /\ lastUpdated \in Nat
    BY DEF Inv, TypeOK, Row
  <2>3. cache[i] = rows[i]
    BY <2>1, <2>2 DEF Inv, CacheCurrent
  <2>4. MakesItem(TypeOf[i], cache[i].value)
    BY <2>1 DEF Inv, Parsed
  <2> QED BY <2>1, <2>3, <2>4, SameAnswer
<1> QED BY <1>1, Invariant, PTL

(* The getter with the cache answers as the one without it, for all rows that
   the reload has passed and that were not committed late. *)
THEOREM CacheIsFresh == Spec => []FreshUnlessLate
BY SettingsAreFresh, PTL

(* The value that a committed Set leaves in the table is in the log, although
   the lock is taken by the first of its two statements only. *)
THEOREM ChangesAreLogged == Spec => []EveryChangeLogged
BY SettingsAreFresh, PTL
=============================================================================
