---------------------------- MODULE SessionList ----------------------------
(***************************************************************************)
(* Which sessions of a user in a realm are shown, and which are closed as  *)
(* excess: src/mrauth/usecase/session/session_list.go and the choice of    *)
(* src/mrauth/usecase/clean/session_excess_trimmer.go.                     *)
(*                                                                         *)
(* Both read the open sessions from auth_tokens and then their rows from   *)
(* sessions, most active first, in statements of their own, while sessions *)
(* are opened, visited, closed and deleted.  Tokens and their exchange are *)
(* in module Session: here a session is open or not.                       *)
(***************************************************************************)
EXTENDS SessionLimit, Naturals, FiniteSets, SequencesExt

CONSTANTS
  Devices,     \* user agents
  NoDevice,    \* the empty user agent
  MaxChanges   \* bound: sessions opened, visited or closed

ASSUME SessionListAssumption ==
  /\ NoDevice \notin Devices /\ NoSession \notin Sessions
  /\ SessionMax \in Nat \ {0} /\ MaxChanges \in Nat
  /\ IsFiniteSet(Sessions)

VARIABLES
  rows,    \* sessions: the identifiers of the rows
  ahead,   \* the rows before each row by updated_at and session_id descending
  device,  \* the user agent of every row there is or was
  open,    \* sessions with an enabled refresh token
  list,    \* a request for the list
  trim,    \* the trimmer at work on the user
  changes

listTables == <<rows, ahead, device, open>>
listVars == <<listTables, list, trim, changes>>

Change == changes < MaxChanges /\ changes' = changes + 1

\* FetchOrderedListByUserIDAndSessionIDs, cut off after n rows when n is positive: the row at
\* a place i is the one found with i - 1 of the others before it.
Ordered(S, n) ==
  LET found == rows \cap S
      count == Cardinality(found)
  IN [i \in 1 .. (IF n \in 1 .. count THEN n ELSE count) |->
        CHOOSE s \in found : Cardinality(ahead[s] \cap found) = i - 1]

(***************************************************************************)
(* The tables                                                              *)
(***************************************************************************)
\* What may come before a row: with a row, all those before that one.
Fronts(S) == {front \in SUBSET S : \A t \in front : ahead[t] \subseteq front}

\* The row of s stands right behind those of front, wherever it was.
Place(s, front) ==
  /\ rows' = rows \cup {s}
  /\ ahead' = [t \in Sessions |-> IF t = s THEN front
                                  ELSE IF t \in rows \ front THEN ahead[t] \cup {s}
                                  ELSE ahead[t]]

DeleteRows(S) ==
  /\ rows' = rows \ S
  /\ ahead' = [t \in Sessions |-> IF t \in S THEN {} ELSE ahead[t] \ S]

\* A login; another one under way may have a later time.
OpenSession(s, d) ==
  /\ Change
  /\ s \notin DOMAIN device
  /\ device' = [t \in DOMAIN device \cup {s} |-> IF t = s THEN d ELSE device[t]]
  /\ open' = open \cup {s}
  /\ \E front \in Fronts(rows) : Place(s, front)
  /\ UNCHANGED <<list, trim>>

\* A batch of requests takes a session forward, past those seen before.
Visit(s) ==
  /\ Change
  /\ s \in rows
  /\ \E front \in Fronts(ahead[s]) \ {ahead[s]} : Place(s, front)
  /\ UNCHANGED <<device, open, list, trim>>

\* Logout, expiry, or the user's choice in the list
Close(s) ==
  /\ Change
  /\ s \in open
  /\ open' = open \ {s}
  /\ UNCHANGED <<rows, ahead, device, list, trim>>

\* The drainer deletes the row of a closed session.
DeleteOrphaned(s) ==
  /\ s \in rows /\ s \notin open
  /\ DeleteRows({s})
  /\ UNCHANGED <<device, open, list, trim, changes>>

(***************************************************************************)
(* List.GetList                                                            *)
(***************************************************************************)
NoList == [step |-> "idle"]

\* FetchOneByAccessToken: the current session, which a JWT may outlive, unless the list is
\* for another realm of the user
GetList(current) ==
  /\ list = NoList
  /\ current # NoSession => current \in DOMAIN device
  /\ list' = [step |-> "begun", current |-> current]
  /\ UNCHANGED <<listTables, trim, changes>>

\* FetchOpenSessions; it is an error that the current session is not among them.
ListOpen ==
  /\ list.step = "begun"
  /\ list' = IF list.current \in open \cup {NoSession}
             THEN [step |-> "open", current |-> list.current, ids |-> open]
             ELSE NoList
  /\ UNCHANGED <<listTables, trim, changes>>

\* The current session has fallen out of the limit.
Missing(shown) == list.current # NoSession /\ list.current \notin ToSet(shown)

ListRows ==
  /\ list.step = "open"
  /\ LET shown == Ordered(list.ids, SessionMax)
     IN list' = [step |-> IF Missing(shown) THEN "missing" ELSE "done",
                 current |-> list.current, ids |-> list.ids, shown |-> shown]
  /\ UNCHANGED <<listTables, trim, changes>>

(* Mutant of ReplaceLast: the current session is added to those shown.     *)
ReplaceLastAppends(shown, s) == Append(shown, s)

ReplaceLast(shown, s) == [shown EXCEPT ![Len(shown)] = s]

\* Its row is read on its own and takes the place of the least active one; it is an error
\* that there is no row, and an index out of range that there is no place.
ListCurrent ==
  /\ list.step = "missing"
  /\ list' =
       IF Ordered({list.current}, 0) = <<>> THEN NoList
       ELSE IF list.shown = <<>> THEN [list EXCEPT !.step = "panic"]
       ELSE [list EXCEPT !.step = "done", !.shown = ReplaceLast(@, list.current)]
  /\ UNCHANGED <<listTables, trim, changes>>

ListSent ==
  /\ list.step = "done"
  /\ list' = NoList
  /\ UNCHANGED <<listTables, trim, changes>>

(***************************************************************************)
(* SessionExcessTrimmer.trimUser                                           *)
(***************************************************************************)
NoTrim == [step |-> "idle"]

(* Mutant of Sort: a device is not remembered.                             *)
SortForgetful(acc, s) ==
  IF Cardinality(acc.kept) >= SessionMax
  THEN [acc EXCEPT !.candidates = Append(@, s)]
  ELSE [acc EXCEPT !.kept = @ \cup {s}]

\* One session of the pass: a device seen before, or the limit reached, makes it a candidate.
Sort(acc, s) ==
  IF device[s] \in acc.seen \/ Cardinality(acc.kept) >= SessionMax
  THEN [acc EXCEPT !.candidates = Append(@, s)]
  ELSE [acc EXCEPT !.kept = @ \cup {s}, !.seen = @ \cup ({device[s]} \ {NoDevice})]

\* The pass, from the most active session on
Pass(q) ==
  LET pass[i \in 0 .. Len(q)] ==
        IF i = 0 THEN [kept |-> {}, seen |-> {}, candidates |-> <<>>]
        ELSE Sort(pass[i - 1], q[i])
  IN pass

\* selectExcessSessions: the most active candidates fill up the limit.
SelectExcess(q) ==
  IF Len(q) <= SessionMax THEN <<>>
  ELSE LET end == Pass(q)[Len(q)]
       IN SubSeq(end.candidates, SessionMax - Cardinality(end.kept) + 1, Len(end.candidates))

TrimOpen ==
  /\ trim = NoTrim
  /\ open # {}
  /\ trim' = [step |-> "open", ids |-> open]
  /\ UNCHANGED <<listTables, list, changes>>

TrimRows ==
  /\ trim.step = "open"
  /\ LET q == Ordered(trim.ids, 0)
     IN trim' = IF SelectExcess(q) = <<>> THEN NoTrim
                ELSE [step |-> "chosen", read |-> q, excess |-> SelectExcess(q)]
  /\ UNCHANGED <<listTables, list, changes>>

\* RevokeTokensBySessionIDs and DeleteOrphaned in one transaction
TrimRevoke ==
  /\ trim.step = "chosen"
  /\ open' = open \ ToSet(trim.excess)
  /\ DeleteRows(ToSet(trim.excess))
  /\ trim' = NoTrim
  /\ UNCHANGED <<device, list, changes>>

TrimFails ==
  /\ trim # NoTrim
  /\ trim' = NoTrim
  /\ UNCHANGED <<listTables, list, changes>>

\* A user with any sessions, open or closed.
ListInit ==
  /\ rows \in SUBSET Sessions
  /\ \E place \in Injection(rows, 1 .. Cardinality(rows)) :
       ahead = [s \in Sessions |-> {t \in rows : s \in rows /\ place[t] < place[s]}]
  /\ device \in [rows -> Devices \cup {NoDevice}]
  /\ open \in SUBSET rows
  /\ list = NoList /\ trim = NoTrim /\ changes = 0

ListNext ==
  \/ \E s \in Sessions : \/ \E d \in Devices \cup {NoDevice} : OpenSession(s, d)
                         \/ Visit(s)
                         \/ Close(s)
                         \/ DeleteOrphaned(s)
  \/ \E s \in Sessions \cup {NoSession} : GetList(s)
  \/ ListOpen \/ ListRows \/ ListCurrent \/ ListSent
  \/ TrimOpen \/ TrimRows \/ TrimRevoke \/ TrimFails

SessionListSpec == ListInit /\ [][ListNext]_listVars

(***************************************************************************)
(* Properties                                                              *)
(***************************************************************************)
(* List.GetList: however sessions are visited, closed and deleted between  *)
(* its reads, the index of the last row is never out of range, and a list  *)
(* of the current realm shows the current session, nothing twice, nothing  *)
(* that was not open, and no more than the limit.                          *)
ListShowsCurrent ==
  /\ list.step # "panic"
  /\ list.step = "done" =>
       /\ IsInjective(list.shown) /\ Len(list.shown) <= SessionMax
       /\ ToSet(list.shown) \subseteq list.ids
       /\ list.current = NoSession \/ list.current \in ToSet(list.shown)

\* The session at i of q is the first of its device there; one without a user agent always is.
First(q, i) == device[q[i]] = NoDevice \/ \A k \in 1 .. i - 1 : device[q[k]] # device[q[i]]

\* The session at i of q is to stay rather than the one at j.
Better(q, i, j) == (First(q, i) /\ ~First(q, j)) \/ ((First(q, i) <=> First(q, j)) /\ i < j)

Stay(q, excess) == ToSet(q) \ ToSet(excess)

(* The comment of selectExcessSessions: what stays of the sessions read is *)
(* exactly the limit, and the best of them: the most active of different   *)
(* devices first, and the most active of the others only when there are    *)
(* not enough devices.                                                     *)
TrimKeepsBest ==
  trim.step = "chosen" =>
    LET q == trim.read
        stay == Stay(q, trim.excess)
    IN /\ ToSet(trim.excess) \subseteq ToSet(q)
       /\ Cardinality(stay) = SessionMax
       /\ \A i, j \in DOMAIN q : q[i] \in stay /\ q[j] \notin stay => Better(q, i, j)
=============================================================================
