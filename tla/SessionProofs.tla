--------------------------- MODULE SessionProofs ---------------------------
(***************************************************************************)
(* Proofs about Session, for any sessions, tokens, requests and limits,    *)
(* and about SessionList, for any sessions, devices and limits.            *)
(***************************************************************************)
EXTENDS Session, SessionList, FiniteSetTheorems, WellFoundedInduction, TLAPS

\* An exchange that has begun holds the lock of a token that is still enabled, alone.
LocksOK ==
  /\ \A r \in Requests : Doing(r, "rotate") => Enabled(tx[r].token)
  /\ \A q, r \in Requests :
       Doing(q, "rotate") /\ Doing(r, "rotate") /\ tx[q].token = tx[r].token => q = r

\* A session that has tokens has or had a row: the login never draws its identifier again.
RowsOK == \A t \in Tokens : of[t] \in Sessions => row[of[t]] # "none"

\* What is being revoked belongs to the sessions that are being closed.
TrimmerScope == \A t \in trimmer.tokens : of[t] \in trimmer.sessions

ScopeOK ==
  /\ \A r \in Requests : Doing(r, "revoke") => \A t \in tx[r].tokens : of[t] \in tx[r].sessions
  /\ TrimmerScope

Inv == TypeOK /\ LocksOK /\ RowsOK /\ ScopeOK /\ OneRefreshPerSession /\ RetryFindsPair

----------------------------------------------------------------------------
\* The fields of a request at work.
LEMMA WorkFacts ==
  ASSUME TypeOK, NEW r \in Requests, tx[r] # Idle
  PROVE  /\ tx[r] \in Works
         /\ tx[r].kind \in {"count", "login", "rotate", "revoke"}
         /\ tx[r].kind = "count" => tx[r].n \in Nat
         /\ tx[r].kind = "rotate" => tx[r].token \in Tokens
         /\ tx[r].kind = "revoke" => /\ tx[r].sessions \in SUBSET Sessions
                                     /\ tx[r].tokens \in SUBSET Tokens
<1>1. tx[r] \in Works
  BY DEF TypeOK
<1> QED
  BY <1>1 DEF Works

\* The works that requests take up.
LEMMA WorkTypes ==
  /\ \A n \in Nat : [kind |-> "count", n |-> n] \in Works
  /\ [kind |-> "login"] \in Works
  /\ \A t \in Tokens : [kind |-> "rotate", token |-> t] \in Works
  /\ \A S \in SUBSET Sessions, T \in SUBSET Tokens :
       [kind |-> "revoke", sessions |-> S, tokens |-> T] \in Works
BY DEF Works

\* There are finitely many open sessions.
LEMMA OpenFinite ==
  IsFiniteSet(OpenSessions) /\ Cardinality(OpenSessions) \in Nat
<1>1. OpenSessions \subseteq Sessions
  BY DEF OpenSessions
<1> QED
  BY <1>1, RequestsAssumption, FS_Subset, FS_CardinalityType

\* The empty tables are of their types.
LEMMA TypeInit == Init => TypeOK
<1> SUFFICES ASSUME Init PROVE TypeOK
  OBVIOUS
<1>1. 0 \in 0 .. MaxFaults
  BY LimitsAssumption
<1>2. /\ row \in [Sessions -> RowStatus]
      /\ of \in [Tokens -> Sessions \cup {NoSession}]
      /\ refresh \in [Tokens -> RefreshStatus]
      /\ tx \in [Requests -> Works \cup {Idle}]
  BY DEF Init, RowStatus, RefreshStatus
<1>3. /\ cleaner \in [step : {"idle", "deleted"}, batch : SUBSET Sessions]
      /\ trimmer \in [step : {"idle", "chosen", "revoke", "done"},
                      sessions : SUBSET Sessions, tokens : SUBSET Tokens]
  BY DEF Init
<1>4. \A t \in Tokens : of[t] = NoSession <=> refresh[t] = "none"
  BY DEF Init
<1> QED
  BY <1>1, <1>2, <1>3, <1>4 DEF Init, TypeOK

\* A revocation leaves tokens of their types.
LEMMA RevokeTypes ==
  ASSUME TypeOK, NEW T, RevokeRows(T)
  PROVE  /\ refresh' \in [Tokens -> RefreshStatus]
         /\ access' \subseteq Tokens
         /\ \A t \in Tokens : refresh'[t] = "none" <=> refresh[t] = "none"
BY DEF TypeOK, RevokeRows, Enabled, RefreshStatus

\* Every step keeps the types.  The next pair of an exchange is of a session since the token
\* that it replaces is.
LEMMA TypeNext ==
  ASSUME TypeOK, LocksOK, [Next]_vars
  PROVE  TypeOK'
<1> USE DEF tables, Goes, Doing
<1>1. ASSUME NEW r \in Requests, LoginCount(r) PROVE TypeOK'
  <2>1. [kind |-> "count", n |-> Cardinality(OpenSessions)] \in Works
    BY OpenFinite, WorkTypes
  <2> QED
    BY <1>1, <2>1 DEF LoginCount, TypeOK
<1>2. ASSUME NEW r \in Requests, LoginLimit(r) PROVE TypeOK'
  <2>1. PICK w \in Works \cup {Idle} : tx' = [tx EXCEPT ![r] = w]
    BY <1>2, WorkTypes DEF LoginLimit
  <2>2. faults' \in 0 .. MaxFaults
    BY <1>2, LimitsAssumption DEF LoginLimit, Fault, TypeOK
  <2>3. excess' \in BOOLEAN
    BY <1>2 DEF LoginLimit, TypeOK
  <2> QED
    BY <1>2, <2>1, <2>2, <2>3 DEF LoginLimit, TypeOK
<1>3. ASSUME NEW r \in Requests, LoginCommit(r) PROVE TypeOK'
  BY <1>3, NamesAssumption DEF LoginCommit, TypeOK, Free, RowStatus, RefreshStatus
<1>4. ASSUME NEW r \in Requests, NEW t \in Tokens, RotateBegin(r, t) PROVE TypeOK'
  BY <1>4, WorkTypes DEF RotateBegin, TypeOK
<1>5. ASSUME NEW r \in Requests, RotateCommit(r) PROVE TypeOK'
  <2>1. tx[r].token \in Tokens /\ of[tx[r].token] \in Sessions
    BY <1>5, WorkFacts DEF RotateCommit, LocksOK, Enabled, TypeOK
  <2> QED
    BY <1>5, <2>1, NamesAssumption DEF RotateCommit, TypeOK, Free, RefreshStatus
<1>6. ASSUME NEW r \in Requests, NEW S \in SUBSET Sessions, Revoking(r, S),
             UNCHANGED <<tables, cleaner, trimmer, closed, late, faults>>
      PROVE  TypeOK'
  <2>1. [kind |-> "revoke", sessions |-> S, tokens |-> EnabledPairs(S)] \in Works
    BY WorkTypes DEF EnabledPairs
  <2> QED
    BY <1>6, <2>1 DEF Revoking, TypeOK
<1>7. ASSUME NEW r \in Requests, RevokeCommit(r) PROVE TypeOK'
  BY <1>7, WorkFacts, RevokeTypes DEF RevokeCommit, TypeOK
<1>8. ASSUME NEW r \in Requests, Rollback(r) PROVE TypeOK'
  BY <1>8 DEF Rollback, TypeOK
<1>9. CASE CleanRefresh
  BY <1>9, NamesAssumption DEF CleanRefresh, TypeOK, RefreshStatus
<1>10. CASE DrainDelete \/ DrainAck
  BY <1>10 DEF DrainDelete, DrainAck, CleanerAt, TypeOK, RowStatus
<1>11. CASE CleanerFails \/ TrimmerFails
  BY <1>11, LimitsAssumption DEF CleanerFails, TrimmerFails, CleanerAt, TrimmerAt, Fault, TypeOK
<1>12. CASE TrimChoose
  <2>1. \A S \in SUBSET Sessions : \A X \in ExcessOf(S) : X \in SUBSET Sessions
    BY DEF ExcessOf
  <2>2. {s \in OpenSessions : row[s] = "open"} \in SUBSET Sessions
    BY DEF OpenSessions
  <2>3. PICK X \in SUBSET Sessions : TrimmerAt(IF X = {} THEN "done" ELSE "chosen", X, {})
    BY <1>12, <2>1, <2>2 DEF TrimChoose
  <2> QED
    BY <1>12, <2>3 DEF TrimChoose, TrimmerAt, TypeOK
<1>13. CASE TrimBegin
  BY <1>13 DEF TrimBegin, TrimmerAt, EnabledPairs, TypeOK
<1>14. CASE TrimCommit
  BY <1>14, RevokeTypes DEF TrimCommit, TrimmerAt, TypeOK, RowStatus
<1>15. CASE TrimAck
  BY <1>15 DEF TrimAck, TrimmerAt, TypeOK
<1>16. ASSUME NEW t \in Tokens, GraceEnds(t) \/ AccessExpires(t) \/ RefreshExpires(t)
       PROVE  TypeOK'
  BY <1>16 DEF GraceEnds, AccessExpires, RefreshExpires, TypeOK, RefreshStatus
<1>17. CASE UNCHANGED vars
  BY <1>17 DEF vars, TypeOK
<1>18. ASSUME NEW r \in Requests, Request(r) PROVE TypeOK'
  <2>1. ASSUME NEW t \in Tokens, RotateReused(r, t) \/ Logout(r, t) PROVE TypeOK'
    <3>1. {of[t]} \in SUBSET Sessions
      BY <2>1 DEF RotateReused, Logout, TypeOK
    <3> QED
      BY <1>6, <2>1, <3>1 DEF RotateReused, Logout
  <2>2. ASSUME NEW s \in Sessions, CloseSession(r, s) PROVE TypeOK'
    BY <1>6, <2>2 DEF CloseSession
  <2> QED
    BY <1>1, <1>4, <1>18, <2>1, <2>2 DEF Request
<1> QED
  BY <1>2, <1>3, <1>5, <1>7, <1>8, <1>9, <1>10, <1>11, <1>12, <1>13, <1>14, <1>15, <1>16, <1>17,
     <1>18
  DEF Next, Proceed, CleanRecords, TrimSessions

----------------------------------------------------------------------------
\* A token of a transaction is enabled as long as its lock is held.
LEMMA LocksKept ==
  ASSUME LocksOK, TypeOK,
         \A r \in Requests : Doing(r, "rotate")' => tx'[r] = tx[r],
         \A r \in Requests : Doing(r, "rotate")' => Enabled(tx[r].token)'
  PROVE  LocksOK'
BY DEF LocksOK, Doing

\* Revoking rows keeps the tokens enabled that are not revoked.
LEMMA RevokeKeeps ==
  ASSUME TypeOK, NEW T, RevokeRows(T), NEW t \in Tokens, t \notin T
  PROVE  refresh'[t] = refresh[t] /\ (Enabled(t)' <=> Enabled(t))
BY DEF TypeOK, RevokeRows, Enabled

\* Every step keeps the locks.
LEMMA LocksNext ==
  ASSUME TypeOK, LocksOK, [Next]_vars
  PROVE  LocksOK'
<1> USE DEF tables, Goes
<1>1. ASSUME NEW r \in Requests, NEW w, Goes(r, w), w = Idle \/ w.kind # "rotate",
             \A t \in Tokens :
               \/ ~\E q \in Requests \ {r} : Doing(q, "rotate") /\ tx[q].token = t
               \/ Enabled(t) => Enabled(t)'
      PROVE  LocksOK'
  <2>1. \A q \in Requests : Doing(q, "rotate")' => q # r /\ tx'[q] = tx[q]
    BY <1>1 DEF Doing, TypeOK
  <2>2. ASSUME NEW q \in Requests, Doing(q, "rotate")' PROVE Enabled(tx[q].token)'
    <3>1. q # r /\ tx'[q] = tx[q] /\ Doing(q, "rotate")
      BY <2>1, <2>2 DEF Doing
    <3>2. tx[q].token \in Tokens /\ Enabled(tx[q].token)
      BY <3>1, WorkFacts DEF LocksOK, Doing
    <3> QED
      BY <1>1, <3>1, <3>2 DEF Doing
  <2> QED
    BY <2>1, <2>2, LocksKept
<1>2. ASSUME NEW r \in Requests, LoginCount(r) PROVE LocksOK'
  BY <1>1, <1>2 DEF LoginCount, Enabled
<1>3. ASSUME NEW r \in Requests, LoginLimit(r) PROVE LocksOK'
  <2>1. PICK w : Goes(r, w) /\ (w = Idle \/ w = [kind |-> "login"])
    BY <1>3 DEF LoginLimit
  <2> QED
    BY <1>1, <1>3, <2>1 DEF LoginLimit, Enabled
<1>4. ASSUME NEW r \in Requests, LoginCommit(r) PROVE LocksOK'
  <2>1. \A t \in Tokens : Enabled(t) => Enabled(t)'
    BY <1>4 DEF LoginCommit, Enabled, TypeOK, Free
  <2> QED
    BY <1>1, <1>4, <2>1 DEF LoginCommit
<1>5. ASSUME NEW r \in Requests, NEW t \in Tokens, RotateBegin(r, t) PROVE LocksOK'
  BY <1>5 DEF RotateBegin, LocksOK, Locked, Doing, Enabled, TypeOK
<1>6. ASSUME NEW r \in Requests, RotateCommit(r) PROVE LocksOK'
  <2>1. \A q \in Requests : Doing(q, "rotate") /\ q # r => tx[q].token # tx[r].token
    BY <1>6 DEF RotateCommit, LocksOK
  <2>2. \A t \in Tokens : Enabled(t) /\ t # tx[r].token => Enabled(t)'
    BY <1>6, WorkFacts DEF RotateCommit, Enabled, TypeOK, Free, Doing
  <2> QED
    BY <1>1, <1>6, <2>1, <2>2 DEF RotateCommit, Doing
<1>7. ASSUME NEW r \in Requests, NEW S, Revoking(r, S), UNCHANGED tables PROVE LocksOK'
  BY <1>1, <1>7 DEF Revoking, Enabled
<1>8. ASSUME NEW r \in Requests, RevokeCommit(r) PROVE LocksOK'
  <2>1. \A t \in Tokens : Locked(t) /\ Enabled(t) => Enabled(t)'
    BY <1>8, RevokeKeeps, WorkFacts DEF RevokeCommit, Doing
  <2> QED
    BY <1>1, <1>8, <2>1 DEF RevokeCommit, Locked, Doing
<1>9. ASSUME NEW r \in Requests, Rollback(r) PROVE LocksOK'
  BY <1>1, <1>9 DEF Rollback, Enabled
<1>10. ASSUME UNCHANGED tx, \A t \in Tokens : Locked(t) /\ Enabled(t) => Enabled(t)'
       PROVE  LocksOK'
  <2>1. ASSUME NEW r \in Requests, Doing(r, "rotate")' PROVE Enabled(tx[r].token)'
    <3>1. Doing(r, "rotate")
      BY <1>10, <2>1 DEF Doing
    <3>2. tx[r].token \in Tokens /\ Enabled(tx[r].token) /\ Locked(tx[r].token)
      BY <3>1, WorkFacts DEF LocksOK, Doing, Locked
    <3> QED
      BY <1>10, <3>2
  <2> QED
    BY <1>10, <2>1, LocksKept DEF Doing
<1>11. CASE CleanRefresh
  <2>1. \A t \in Tokens : Locked(t) /\ Enabled(t) => Enabled(t)'
    BY <1>11 DEF CleanRefresh, Enabled
  <2> QED
    BY <1>10, <1>11, <2>1 DEF CleanRefresh
<1>12. CASE DrainDelete \/ DrainAck \/ CleanerFails \/ TrimChoose \/ TrimBegin \/ TrimAck
            \/ TrimmerFails \/ UNCHANGED vars
  <2>1. UNCHANGED <<tx, refresh>>
    BY <1>12 DEF DrainDelete, DrainAck, CleanerFails, TrimChoose, TrimBegin, TrimAck, TrimmerFails,
                 vars
  <2> QED
    BY <1>10, <2>1 DEF Enabled
<1>13. CASE TrimCommit
  <2>1. \A t \in Tokens : Locked(t) /\ Enabled(t) => Enabled(t)'
    BY <1>13, RevokeKeeps DEF TrimCommit, TypeOK
  <2> QED
    BY <1>10, <1>13, <2>1 DEF TrimCommit
<1>14. ASSUME NEW t \in Tokens, GraceEnds(t) \/ AccessExpires(t) \/ RefreshExpires(t)
       PROVE  LocksOK'
  <2>1. \A u \in Tokens : Enabled(u) => Enabled(u)'
    BY <1>14 DEF GraceEnds, AccessExpires, RefreshExpires, Enabled, TypeOK
  <2> QED
    BY <1>10, <1>14, <2>1 DEF GraceEnds, AccessExpires, RefreshExpires
<1>15. ASSUME NEW r \in Requests, Request(r) PROVE LocksOK'
  BY <1>2, <1>5, <1>7, <1>15 DEF Request, RotateReused, Logout, CloseSession
<1> QED
  BY <1>3, <1>4, <1>6, <1>8, <1>9, <1>11, <1>12, <1>13, <1>14, <1>15
  DEF Next, Proceed, CleanRecords, TrimSessions

----------------------------------------------------------------------------
\* A pair never changes its session.
LEMMA OfKept ==
  ASSUME TypeOK, [Next]_vars, NEW t \in Tokens, of[t] \in Sessions
  PROVE  of'[t] = of[t]
<1> USE DEF tables
<1>1. refresh[t] # "none"
  BY NamesAssumption DEF TypeOK
<1>2. ASSUME NEW r \in Requests, LoginCommit(r) \/ RotateCommit(r) PROVE of'[t] = of[t]
  BY <1>1, <1>2 DEF LoginCommit, RotateCommit, Free, TypeOK
<1>3. CASE UNCHANGED of
  BY <1>3
<1>4. ASSUME NEW r \in Requests, Request(r) PROVE UNCHANGED of
  BY <1>4 DEF Request, LoginCount, RotateBegin, RotateReused, Logout, CloseSession
<1>5. ASSUME NEW r \in Requests, LoginLimit(r) \/ RevokeCommit(r) \/ Rollback(r)
      PROVE  UNCHANGED of
  BY <1>5 DEF LoginLimit, RevokeCommit, Rollback
<1>6. CASE CleanRecords \/ CleanerFails \/ TrimSessions \/ TrimmerFails
  BY <1>6 DEF CleanRecords, CleanRefresh, DrainDelete, DrainAck, CleanerFails,
              TrimSessions, TrimChoose, TrimBegin, TrimCommit, TrimAck, TrimmerFails
<1>7. ASSUME NEW u \in Tokens, GraceEnds(u) \/ AccessExpires(u) \/ RefreshExpires(u)
      PROVE  UNCHANGED of
  BY <1>7 DEF GraceEnds, AccessExpires, RefreshExpires
<1>8. CASE UNCHANGED vars
  BY <1>8 DEF vars
<1> QED
  BY <1>2, <1>3, <1>4, <1>5, <1>6, <1>7, <1>8 DEF Next, Proceed

\* The row of a session, once inserted, is never forgotten.
LEMMA RowKept ==
  ASSUME TypeOK, [Next]_vars, NEW s \in Sessions, row[s] # "none"
  PROVE  row'[s] # "none"
<1> USE DEF tables
<1>1. ASSUME NEW r \in Requests, LoginCommit(r) PROVE row'[s] # "none"
  BY <1>1 DEF LoginCommit, TypeOK
<1>2. CASE DrainDelete \/ TrimCommit
  BY <1>2 DEF DrainDelete, TrimCommit, TypeOK
<1>3. CASE UNCHANGED row
  BY <1>3
<1>4. ASSUME NEW r \in Requests, Request(r) PROVE UNCHANGED row
  BY <1>4 DEF Request, LoginCount, RotateBegin, RotateReused, Logout, CloseSession
<1>5. ASSUME NEW r \in Requests, LoginLimit(r) \/ RotateCommit(r) \/ RevokeCommit(r) \/ Rollback(r)
      PROVE  UNCHANGED row
  BY <1>5 DEF LoginLimit, RotateCommit, RevokeCommit, Rollback
<1>6. CASE CleanRefresh \/ DrainAck \/ CleanerFails \/ TrimChoose \/ TrimBegin \/ TrimAck
           \/ TrimmerFails
  BY <1>6 DEF CleanRefresh, DrainAck, CleanerFails, TrimChoose, TrimBegin, TrimAck, TrimmerFails
<1>7. ASSUME NEW u \in Tokens, GraceEnds(u) \/ AccessExpires(u) \/ RefreshExpires(u)
      PROVE  UNCHANGED row
  BY <1>7 DEF GraceEnds, AccessExpires, RefreshExpires
<1>8. CASE UNCHANGED vars
  BY <1>8 DEF vars
<1> QED
  BY <1>1, <1>2, <1>3, <1>4, <1>5, <1>6, <1>7, <1>8 DEF Next, Proceed, CleanRecords, TrimSessions

\* What a step may do to the pairs: issue one for a new session, exchange one, or weaken some.
Opened(t) ==
  /\ refresh[t] = "none" /\ of'[t] \in Sessions
  /\ row[of'[t]] = "none" /\ row'[of'[t]] = "open"
  /\ refresh' = [refresh EXCEPT ![t] = "enabled"]
  /\ of' = [of EXCEPT ![t] = of'[t]]
  /\ access' = access \cup {t}
  /\ UNCHANGED closed

Exchanged(t, u) ==
  /\ Enabled(t) /\ Locked(t) /\ refresh[u] = "none"
  /\ of' = [of EXCEPT ![u] = of[t]]
  /\ refresh' = [refresh EXCEPT ![t] = "grace", ![u] = "enabled"]
  /\ access' = access \cup {u}
  /\ UNCHANGED <<row, closed, late>>

\* Pairs expire, are revoked or deleted; one in its grace period counts as revoked after it,
\* and the pair a repeated exchange asks for ends only with its session.
Weakened ==
  /\ UNCHANGED of
  /\ access' \subseteq access
  /\ closed \subseteq closed'
  /\ \A t \in Tokens :
       /\ Enabled(t)' => Enabled(t)
       /\ (refresh[t] = "enabled")' => refresh[t] = "enabled"
       /\ (refresh[t] = "grace")' => refresh[t] = "grace"
       /\ refresh[t] = "enabled" /\ InGrace(of[t]) /\ of[t] \notin closed' => (refresh[t] = "enabled")'
       /\ t \in access /\ refresh[t] = "enabled" /\ InGrace(of[t]) /\ of[t] \notin closed' => t \in access'

\* A revocation weakens pairs of the sessions it closes.
LEMMA RevokeWeakens ==
  ASSUME TypeOK, NEW T \in SUBSET Tokens, RevokeRows(T), UNCHANGED of, closed \subseteq closed',
         \A t \in T : of[t] \in closed'
  PROVE  Weakened
<1>1. \A t \in Tokens \ T : refresh'[t] = refresh[t] /\ (t \in access <=> t \in access')
  BY DEF TypeOK, RevokeRows
<1>2. \A t \in T : refresh'[t] # "enabled" /\ refresh'[t] # "expired"
                  /\ (refresh'[t] = "grace" => refresh[t] = "grace")
  BY DEF TypeOK, RevokeRows, Enabled
<1>3. access' \subseteq access
  BY DEF RevokeRows
<1> QED
  BY <1>1, <1>2, <1>3 DEF Weakened, Enabled

\* Every step does one of the three.
LEMMA StepKinds ==
  ASSUME Inv, [Next]_vars
  PROVE  \/ \E t \in Tokens : Opened(t)
         \/ \E t, u \in Tokens : Exchanged(t, u)
         \/ Weakened
<1> USE DEF tables
<1>1. ASSUME NEW r \in Requests, LoginCommit(r) PROVE \E t \in Tokens : Opened(t)
  <2>1. PICK s \in Sessions, t \in Free :
          /\ row[s] = "none"
          /\ row' = [row EXCEPT ![s] = "open"]
          /\ of' = [of EXCEPT ![t] = s]
          /\ refresh' = [refresh EXCEPT ![t] = "enabled"]
          /\ access' = access \cup {t}
          /\ UNCHANGED closed
    BY <1>1 DEF LoginCommit
  <2>2. of'[t] = s
    BY <2>1 DEF Inv, TypeOK, Free
  <2> QED
    BY <2>1, <2>2 DEF Opened, Free, Inv, TypeOK
<1>2. ASSUME NEW r \in Requests, RotateCommit(r) PROVE \E t, u \in Tokens : Exchanged(t, u)
  <2>1. /\ tx[r].token \in Tokens
        /\ Enabled(tx[r].token) /\ Locked(tx[r].token)
    BY <1>2, WorkFacts DEF RotateCommit, Doing, Locked, Inv, LocksOK
  <2> QED
    BY <1>2, <2>1 DEF RotateCommit, Exchanged, Free
<1>3. ASSUME NEW r \in Requests, RevokeCommit(r) PROVE Weakened
  <2>1. /\ tx[r].tokens \in SUBSET Tokens
        /\ \A t \in tx[r].tokens : of[t] \in closed'
        /\ closed \subseteq closed'
    BY <1>3, WorkFacts DEF RevokeCommit, Doing, Inv, ScopeOK
  <2> QED
    BY <1>3, <2>1, RevokeWeakens DEF RevokeCommit, Inv
<1>4. CASE TrimCommit
  <2>1. /\ trimmer.tokens \in SUBSET Tokens
        /\ \A t \in trimmer.tokens : of[t] \in closed'
        /\ closed \subseteq closed'
    BY <1>4 DEF TrimCommit, Inv, TypeOK, ScopeOK, TrimmerScope
  <2> QED
    BY <1>4, <2>1, RevokeWeakens DEF TrimCommit, Inv
<1>5. CASE UNCHANGED <<of, refresh, access, closed>>
  BY <1>5 DEF Weakened, Enabled
<1>6. CASE CleanRefresh
  BY <1>6 DEF CleanRefresh, Weakened, Enabled, Inv, TypeOK
<1>7. ASSUME NEW t \in Tokens, GraceEnds(t) PROVE Weakened
  BY <1>7 DEF GraceEnds, Weakened, Enabled, Inv, TypeOK
<1>8. ASSUME NEW t \in Tokens, AccessExpires(t) PROVE Weakened
  BY <1>8 DEF AccessExpires, Weakened, Enabled, Inv, TypeOK
<1>9. ASSUME NEW t \in Tokens, RefreshExpires(t) PROVE Weakened
  BY <1>9 DEF RefreshExpires, Weakened, Enabled, Inv, TypeOK
<1>10. ASSUME NEW r \in Requests, Request(r) PROVE UNCHANGED <<of, refresh, access, closed>>
  BY <1>10 DEF Request, LoginCount, RotateBegin, RotateReused, Logout, CloseSession
<1>11. ASSUME NEW r \in Requests, LoginLimit(r) \/ Rollback(r)
       PROVE  UNCHANGED <<of, refresh, access, closed>>
  BY <1>11 DEF LoginLimit, Rollback
<1>12. CASE DrainDelete \/ DrainAck \/ CleanerFails \/ TrimChoose \/ TrimBegin \/ TrimAck
            \/ TrimmerFails \/ UNCHANGED vars
  BY <1>5, <1>12 DEF DrainDelete, DrainAck, CleanerFails, TrimChoose, TrimBegin, TrimAck,
                     TrimmerFails, vars
<1> QED
  BY <1>1, <1>2, <1>3, <1>4, <1>5, <1>6, <1>7, <1>8, <1>9, <1>10, <1>11, <1>12
  DEF Next, Proceed, CleanRecords, TrimSessions

----------------------------------------------------------------------------
\* Every step keeps the rows of the sessions that have tokens.
LEMMA RowsNext ==
  ASSUME Inv, [Next]_vars
  PROVE  RowsOK'
<1> SUFFICES ASSUME NEW v \in Tokens, of'[v] \in Sessions
             PROVE  row'[of'[v]] # "none"
  BY DEF RowsOK
<1> USE DEF Inv, TypeOK
<1>1. CASE of'[v] = of[v]
  BY <1>1, RowKept DEF RowsOK
<1>2. ASSUME NEW t \in Tokens, Opened(t), v = t PROVE row'[of'[v]] # "none"
  BY <1>2 DEF Opened
<1>3. ASSUME NEW t \in Tokens, NEW u \in Tokens, Exchanged(t, u), v = u
      PROVE  row'[of'[v]] # "none"
  <2>1. of'[v] = of[t]
    BY <1>3 DEF Exchanged
  <2> QED
    BY <2>1, RowKept DEF RowsOK
<1>4. ASSUME NEW t \in Tokens, Opened(t), v # t PROVE of'[v] = of[v]
  BY <1>4 DEF Opened
<1>5. ASSUME NEW t \in Tokens, NEW u \in Tokens, Exchanged(t, u), v # u PROVE of'[v] = of[v]
  BY <1>5 DEF Exchanged
<1>6. CASE Weakened
  BY <1>1, <1>6 DEF Weakened
<1> QED
  BY <1>1, <1>2, <1>3, <1>4, <1>5, <1>6, StepKinds

\* A request that is revoking has been, or starts with the rows it sees.
LEMMA RevokesBegin ==
  ASSUME TypeOK, [Next]_vars, NEW r \in Requests, Doing(r, "revoke")', tx'[r] # tx[r]
  PROVE  \E S \in SUBSET Sessions : Revoking(r, S)
<1> USE DEF tables, Goes
<1>1. ASSUME NEW q \in Requests, NEW w, tx' = [tx EXCEPT ![q] = w],
             w = Idle \/ w.kind # "revoke"
      PROVE  FALSE
  BY <1>1 DEF Doing, TypeOK
<1>2. ASSUME NEW q \in Requests, Request(q) PROVE \E S \in SUBSET Sessions : Revoking(r, S)
  <2>1. ASSUME NEW S \in SUBSET Sessions, Revoking(q, S) PROVE Revoking(r, S)
    <3>1. q = r
      BY <2>1 DEF Revoking, TypeOK
    <3> QED
      BY <2>1, <3>1
  <2>2. ~LoginCount(q)
    BY <1>1 DEF LoginCount
  <2>3. \A t \in Tokens : ~RotateBegin(q, t)
    BY <1>1 DEF RotateBegin
  <2>4. ASSUME NEW t \in Tokens, RotateReused(q, t) \/ Logout(q, t)
        PROVE  \E S \in SUBSET Sessions : Revoking(r, S)
    <3>1. {of[t]} \in SUBSET Sessions
      BY <2>4 DEF RotateReused, Logout, TypeOK
    <3> QED
      BY <2>1, <2>4, <3>1 DEF RotateReused, Logout
  <2>5. ASSUME NEW s \in Sessions, CloseSession(q, s)
        PROVE  \E S \in SUBSET Sessions : Revoking(r, S)
    BY <2>1, <2>5 DEF CloseSession
  <2> QED
    BY <1>2, <2>2, <2>3, <2>4, <2>5 DEF Request
<1>3. ASSUME NEW q \in Requests PROVE ~Proceed(q)
  <2>1. ~LoginLimit(q)
    <3> SUFFICES ASSUME LoginLimit(q) PROVE FALSE
      OBVIOUS
    <3>1. \/ tx' = [tx EXCEPT ![q] = Idle]
          \/ tx' = [tx EXCEPT ![q] = [kind |-> "login"]]
      BY DEF LoginLimit
    <3> QED
      BY <1>1, <3>1
  <2>2. ~LoginCommit(q) /\ ~RotateCommit(q) /\ ~RevokeCommit(q) /\ ~Rollback(q)
    BY <1>1 DEF LoginCommit, RotateCommit, RevokeCommit, Rollback
  <2> QED
    BY <2>1, <2>2 DEF Proceed
<1>4. tx' # tx
  OBVIOUS
<1>5. ~(CleanRecords \/ CleanerFails \/ TrimSessions \/ TrimmerFails)
  BY <1>4 DEF CleanRecords, CleanRefresh, DrainDelete, DrainAck, CleanerFails,
              TrimSessions, TrimChoose, TrimBegin, TrimCommit, TrimAck, TrimmerFails
<1>6. \A u \in Tokens : ~(GraceEnds(u) \/ AccessExpires(u) \/ RefreshExpires(u))
  BY <1>4 DEF GraceEnds, AccessExpires, RefreshExpires
<1>7. ~UNCHANGED vars
  BY <1>4 DEF vars
<1> QED
  BY <1>2, <1>3, <1>5, <1>6, <1>7 DEF Next

\* Every step keeps what is being revoked within the sessions that are being closed.
LEMMA ScopeNext ==
  ASSUME Inv, [Next]_vars
  PROVE  ScopeOK'
<1> USE DEF tables, Goes
<1>1. TypeOK
  BY DEF Inv
<1>2. ASSUME NEW r \in Requests, tx'[r] = tx[r], Doing(r, "revoke")
      PROVE  \A t \in tx'[r].tokens : of'[t] \in tx'[r].sessions
  <2>1. \A t \in tx[r].tokens : t \in Tokens /\ of[t] \in tx[r].sessions /\ of[t] \in Sessions
    BY <1>1, <1>2, WorkFacts DEF Inv, ScopeOK, Doing
  <2> QED
    BY <1>1, <1>2, <2>1, OfKept
<1>3. ASSUME NEW r \in Requests, NEW S \in SUBSET Sessions, Revoking(r, S)
      PROVE  \A t \in tx'[r].tokens : of'[t] \in tx'[r].sessions
  <2>1. tx'[r].tokens = EnabledPairs(S) /\ tx'[r].sessions = S
    BY <1>1, <1>3 DEF Revoking, TypeOK
  <2> QED
    BY <1>1, <2>1, OfKept DEF EnabledPairs
<1>4. \A r \in Requests : Doing(r, "revoke")' =>
        tx'[r] = tx[r] \/ \E S \in SUBSET Sessions : Revoking(r, S)
  BY <1>1, RevokesBegin
<1>5. \A r \in Requests : Doing(r, "revoke")' =>
        \A t \in tx'[r].tokens : of'[t] \in tx'[r].sessions
  BY <1>2, <1>3, <1>4 DEF Doing
<1>6. ASSUME UNCHANGED trimmer PROVE TrimmerScope'
  <2>1. \A t \in trimmer.tokens : t \in Tokens /\ of[t] \in trimmer.sessions /\ of[t] \in Sessions
    BY <1>1 DEF Inv, ScopeOK, TrimmerScope, TypeOK
  <2> QED
    BY <1>1, <1>6, <2>1, OfKept DEF TrimmerScope
<1>7. ASSUME NEW step, NEW S, TrimmerAt(step, S, {}) PROVE TrimmerScope'
  BY <1>7 DEF TrimmerScope, TrimmerAt
<1>8. ASSUME TrimBegin PROVE TrimmerScope'
  <2>1. trimmer' = [step |-> "revoke", sessions |-> trimmer.sessions,
                    tokens |-> EnabledPairs(trimmer.sessions)]
    BY <1>8 DEF TrimBegin, TrimmerAt
  <2>2. trimmer'.tokens = EnabledPairs(trimmer.sessions) /\ trimmer'.sessions = trimmer.sessions
    BY <2>1
  <2>3. of' = of
    BY <1>8 DEF TrimBegin
  <2> QED
    BY <2>2, <2>3 DEF TrimmerScope, EnabledPairs
<1>9. ASSUME TrimChoose \/ TrimCommit \/ TrimAck \/ TrimmerFails PROVE TrimmerScope'
  BY <1>7, <1>9 DEF TrimChoose, TrimCommit, TrimAck, TrimmerFails
<1>10. ASSUME NEW r \in Requests, Request(r) \/ Proceed(r) PROVE UNCHANGED trimmer
  BY <1>10 DEF Request, LoginCount, RotateBegin, RotateReused, Logout, CloseSession,
               Proceed, LoginLimit, LoginCommit, RotateCommit, RevokeCommit, Rollback
<1>11. ASSUME CleanRecords \/ CleanerFails PROVE TrimmerScope'
  <2>1. UNCHANGED trimmer
    BY <1>11 DEF CleanRecords, CleanRefresh, DrainDelete, DrainAck, CleanerFails
  <2> QED
    BY <1>6, <2>1
<1>12. ASSUME NEW u \in Tokens, GraceEnds(u) \/ AccessExpires(u) \/ RefreshExpires(u)
       PROVE  UNCHANGED trimmer
  BY <1>12 DEF GraceEnds, AccessExpires, RefreshExpires
<1>13. ASSUME UNCHANGED vars PROVE TrimmerScope'
  BY <1>6, <1>13 DEF vars
<1>14. TrimmerScope'
  BY <1>6, <1>8, <1>9, <1>10, <1>11, <1>12, <1>13 DEF Next, TrimSessions
<1> QED
  BY <1>5, <1>14 DEF ScopeOK

\* Every step leaves one enabled refresh token per session: an exchange takes the old one away,
\* and a login opens a session that has no token.
LEMMA OneNext ==
  ASSUME Inv, [Next]_vars
  PROVE  OneRefreshPerSession'
<1> SUFFICES ASSUME NEW v \in Tokens, NEW w \in Tokens,
                    Enabled(v)', Enabled(w)', of'[v] = of'[w]
             PROVE  v = w
  BY DEF OneRefreshPerSession
<1> USE DEF Inv, TypeOK
<1>1. \A t \in Tokens : Enabled(t) => of[t] \in Sessions
  BY DEF Enabled
<1>2. ASSUME NEW t \in Tokens, Opened(t) PROVE v = w
  <2>1. \A u \in Tokens \ {t} : Enabled(u)' => Enabled(u) /\ of'[u] = of[u] /\ of[u] # of'[t]
    BY <1>1, <1>2 DEF Opened, Enabled, RowsOK
  <2> QED
    BY <2>1 DEF OneRefreshPerSession
<1>3. ASSUME NEW t \in Tokens, NEW u \in Tokens, Exchanged(t, u) PROVE v = w
  <2>1. /\ ~Enabled(t)'
        /\ of'[u] = of[t]
        /\ \A x \in Tokens \ {t, u} : Enabled(x)' => Enabled(x) /\ of'[x] = of[x]
    BY <1>3 DEF Exchanged, Enabled
  <2>2. \A x \in Tokens \ {t, u} : Enabled(x)' => of'[x] # of'[u]
    BY <1>3, <2>1 DEF Exchanged, OneRefreshPerSession
  <2> QED
    BY <2>1, <2>2 DEF OneRefreshPerSession
<1>4. CASE Weakened
  BY <1>4 DEF Weakened, OneRefreshPerSession
<1> QED
  BY <1>2, <1>3, <1>4, StepKinds

\* Every step leaves the pair that a repeated exchange asks for.
LEMMA RetryNext ==
  ASSUME Inv, [Next]_vars
  PROVE  RetryFindsPair'
<1> SUFFICES ASSUME NEW v \in Tokens, refresh'[v] = "grace", of'[v] \notin closed'
             PROVE  \E u \in Tokens : of'[u] = of'[v] /\ refresh'[u] = "enabled" /\ u \in access'
  BY DEF RetryFindsPair, Issued
<1> USE DEF Inv, TypeOK
<1>1. ASSUME NEW t \in Tokens, Opened(t)
      PROVE  \E u \in Tokens : of'[u] = of'[v] /\ refresh'[u] = "enabled" /\ u \in access'
  <2>1. refresh[v] = "grace" /\ of'[v] = of[v] /\ v # t
    BY <1>1 DEF Opened
  <2>2. v \in Issued(of[v]) /\ of[v] \notin closed
    BY <1>1, <2>1 DEF Opened, Issued
  <2>3. PICK u \in Issued(of[v]) : refresh[u] = "enabled" /\ u \in access
    BY <2>1, <2>2 DEF RetryFindsPair
  <2>4. u \in Tokens /\ of[u] = of[v] /\ u # t
    BY <1>1, <2>3 DEF Opened, Issued
  <2> QED
    BY <1>1, <2>1, <2>3, <2>4 DEF Opened
<1>2. ASSUME NEW t \in Tokens, NEW u \in Tokens, Exchanged(t, u), v = t \/ of[v] = of[t]
      PROVE  \E x \in Tokens : of'[x] = of'[v] /\ refresh'[x] = "enabled" /\ x \in access'
  <2>1. of'[u] = of'[v] /\ refresh'[u] = "enabled" /\ u \in access'
    BY <1>2 DEF Exchanged, Enabled
  <2> QED
    BY <2>1
<1>3. ASSUME NEW t \in Tokens, NEW u \in Tokens, Exchanged(t, u), v # t, of[v] # of[t]
      PROVE  \E x \in Tokens : of'[x] = of'[v] /\ refresh'[x] = "enabled" /\ x \in access'
  <2>1. refresh[v] = "grace" /\ of'[v] = of[v] /\ v # u /\ of[v] \notin closed
    BY <1>3 DEF Exchanged
  <2>2. PICK x \in Issued(of[v]) : refresh[x] = "enabled" /\ x \in access
    BY <2>1 DEF RetryFindsPair
  <2>3. x \in Tokens /\ of[x] = of[v] /\ x # t /\ x # u
    BY <1>3, <2>2 DEF Exchanged, Issued
  <2> QED
    BY <1>3, <2>1, <2>2, <2>3 DEF Exchanged
<1>4. ASSUME Weakened
      PROVE  \E u \in Tokens : of'[u] = of'[v] /\ refresh'[u] = "enabled" /\ u \in access'
  <2>1. refresh[v] = "grace" /\ of'[v] = of[v] /\ of[v] \notin closed' /\ of[v] \notin closed
    BY <1>4 DEF Weakened
  <2>2. PICK x \in Issued(of[v]) : refresh[x] = "enabled" /\ x \in access
    BY <2>1 DEF RetryFindsPair
  <2>3. x \in Tokens /\ of[x] = of[v] /\ InGrace(of[x])
    BY <2>1, <2>2 DEF Issued, InGrace
  <2> QED
    BY <1>4, <2>1, <2>2, <2>3 DEF Weakened
<1> QED
  BY <1>1, <1>2, <1>3, <1>4, StepKinds

----------------------------------------------------------------------------
\* The invariant holds of the empty tables.
LEMMA InvInit == Init => Inv
<1> SUFFICES ASSUME Init PROVE Inv
  OBVIOUS
<1>1. TypeOK
  BY TypeInit
<1>2. \A r \in Requests : ~Doing(r, "rotate") /\ ~Doing(r, "revoke")
  BY DEF Init, Doing
<1>3. \A t \in Tokens : of[t] \notin Sessions /\ refresh[t] = "none"
  BY NamesAssumption DEF Init
<1>4. TrimmerScope
  BY DEF Init, TrimmerScope
<1> QED
  BY <1>1, <1>2, <1>3, <1>4
  DEF Inv, LocksOK, RowsOK, ScopeOK, OneRefreshPerSession, RetryFindsPair, Enabled

\* Every step keeps the invariant.
LEMMA InvNext == Inv /\ [Next]_vars => Inv'
BY TypeNext, LocksNext, RowsNext, ScopeNext, OneNext, RetryNext DEF Inv

\* However logins, exchanges and their repetitions, revocations and the two workers overlap, a
\* session has one enabled refresh token at most, and a client that repeats an exchange within
\* the grace period finds a pair that is valid.
THEOREM SessionsAreSafe == Spec => [](TypeOK /\ OneRefreshPerSession /\ RetryFindsPair)
<1>1. Inv => TypeOK /\ OneRefreshPerSession /\ RetryFindsPair
  BY DEF Inv
<1> QED
  BY <1>1, InvInit, InvNext, PTL DEF Spec

\* Sessions, tokens, requests and workers keep their types.
THEOREM TypeIsKept == Spec => []TypeOK
BY SessionsAreSafe, PTL

\* A session has one enabled refresh token at most.
THEOREM OneRefreshToken == Spec => []OneRefreshPerSession
BY SessionsAreSafe, PTL

\* Recreate finds the last pair of the session for whoever repeats an exchange in time.
THEOREM RetriesFindThePair == Spec => []RetryFindsPair
BY SessionsAreSafe, PTL

\* No exchange, retry or login that was under way gives an ended session a pair again.
LEMMA EndedNext ==
  ASSUME Inv, [Next]_vars, NEW s \in Sessions, row[s] # "none", EnabledPairs({s}) = {}
  PROVE  EnabledPairs({s})' = {}
<1> SUFFICES ASSUME NEW v \in Tokens, of'[v] = s, Enabled(v)' \/ v \in access'
             PROVE  FALSE
  BY DEF EnabledPairs
<1> USE DEF Inv, TypeOK
<1>1. \A t \in Tokens : of[t] = s => ~Enabled(t) /\ t \notin access
  BY DEF EnabledPairs
<1>2. ASSUME NEW t \in Tokens, Opened(t) PROVE FALSE
  <2>1. v # t
    BY <1>2 DEF Opened
  <2>2. of[v] = s /\ (Enabled(v) \/ v \in access)
    BY <1>2, <2>1 DEF Opened, Enabled
  <2> QED
    BY <1>1, <2>2
<1>3. ASSUME NEW t \in Tokens, NEW u \in Tokens, Exchanged(t, u) PROVE FALSE
  <2>1. v # u
    BY <1>1, <1>3 DEF Exchanged
  <2>2. of[v] = s /\ (Enabled(v) \/ v \in access)
    BY <1>3, <2>1 DEF Exchanged, Enabled
  <2> QED
    BY <1>1, <2>2
<1>4. ASSUME Weakened PROVE FALSE
  BY <1>1, <1>4 DEF Weakened
<1> QED
  BY <1>2, <1>3, <1>4, StepKinds

\* A session that was revoked or has expired stays ended.
THEOREM EndedSessionsStayEnded == Spec => EndedForGood
<1>1. Inv /\ [Next]_vars =>
        [\A s \in Sessions : row[s] # "none" /\ EnabledPairs({s}) = {} => EnabledPairs({s})' = {}]_vars
  BY EndedNext
<1> QED
  BY <1>1, InvInit, InvNext, PTL DEF Spec, EndedForGood

----------------------------------------------------------------------------
(* An account of the open sessions and of the requests that may add one: a login that has *)
(* counted fewer than the hard limit, and an exchange whose token has expired meanwhile.  *)
Adds(r) ==
  \/ Doing(r, "count") /\ ~TooMany(tx[r].n)
  \/ Doing(r, "login")
  \/ Doing(r, "rotate") /\ refresh[tx[r].token] = "expired"

Adding == {r \in Requests : Adds(r)}

Account == Cardinality(OpenSessions) + Cardinality(Adding) <= Hard + Cardinality(Requests) - 1

\* The limit and the numbers of the account are natural numbers, and each request counts once.
LEMMA AccountTypes ==
  /\ Hard \in Nat \ {0}
  /\ IsFiniteSet(OpenSessions) /\ Cardinality(OpenSessions) \in Nat
  /\ IsFiniteSet(Adding) /\ Cardinality(Adding) \in Nat
  /\ Cardinality(Requests) \in Nat
  /\ Cardinality(Adding) <= Cardinality(Requests)
<1>1. Hard \in Nat \ {0}
  <2>1. Clamp(SoftThreshold) \in Int /\ Clamp(HardThreshold) \in Int
    BY LimitsAssumption DEF Clamp, MinThreshold, MaxThreshold
  <2>2. Upper(Clamp(SoftThreshold), Clamp(HardThreshold)) \in Int
    BY <2>1 DEF Upper
  <2> QED
    BY <2>2, LimitsAssumption DEF Hard, Upper
<1>2. Adding \subseteq Requests
  BY DEF Adding
<1>3. /\ IsFiniteSet(Adding) /\ Cardinality(Adding) \in Nat
      /\ Cardinality(Requests) \in Nat
      /\ Cardinality(Adding) <= Cardinality(Requests)
  BY <1>2, RequestsAssumption, FS_Subset, FS_CardinalityType
<1> QED
  BY <1>1, <1>3, OpenFinite

\* The cardinalities of a set that shrinks, that loses an element, and that gains one at most.
LEMMA SetSizes ==
  ASSUME NEW S, NEW T, IsFiniteSet(S)
  PROVE  /\ T \subseteq S => Cardinality(T) <= Cardinality(S)
         /\ \A x \in S : T \subseteq S \ {x} => Cardinality(T) <= Cardinality(S) - 1
         /\ \A x : T \subseteq S \cup {x} => Cardinality(T) <= Cardinality(S) + 1
         /\ \A x : T \subseteq S \cup {x} => IsFiniteSet(T)
<1>1. T \subseteq S => Cardinality(T) <= Cardinality(S)
  BY FS_Subset
<1>2. ASSUME NEW x \in S, T \subseteq S \ {x} PROVE Cardinality(T) <= Cardinality(S) - 1
  <2>1. IsFiniteSet(S \ {x}) /\ Cardinality(S \ {x}) = Cardinality(S) - 1
    BY FS_RemoveElement
  <2> QED
    BY <1>2, <2>1, FS_Subset
<1>3. ASSUME NEW x, T \subseteq S \cup {x}
      PROVE  Cardinality(T) <= Cardinality(S) + 1 /\ IsFiniteSet(T)
  <2>1. /\ IsFiniteSet(S \cup {x})
        /\ Cardinality(S \cup {x}) = Cardinality(S) \/ Cardinality(S \cup {x}) = Cardinality(S) + 1
    BY FS_AddElement
  <2>2. IsFiniteSet(T) /\ Cardinality(T) <= Cardinality(S \cup {x})
    BY <1>3, <2>1, FS_Subset
  <2>3. Cardinality(T) \in Nat /\ Cardinality(S) \in Nat
    BY <2>2, FS_CardinalityType
  <2> QED
    BY <2>1, <2>2, <2>3
<1> QED
  BY <1>1, <1>2, <1>3

\* The account is kept by a step that adds to neither side ...
LEMMA AccountShrinks ==
  ASSUME Account, OpenSessions' \subseteq OpenSessions, Adding' \subseteq Adding
  PROVE  Account'
<1>1. /\ Cardinality(OpenSessions)' <= Cardinality(OpenSessions)
      /\ Cardinality(Adding)' <= Cardinality(Adding)
  BY AccountTypes, SetSizes
<1>2. Cardinality(OpenSessions)' \in Nat /\ Cardinality(Adding)' \in Nat
  <2>1. IsFiniteSet(OpenSessions') /\ IsFiniteSet(Adding')
    BY AccountTypes, FS_Subset
  <2> QED
    BY <2>1, FS_CardinalityType
<1> QED
  BY <1>1, <1>2, AccountTypes DEF Account

\* ... by one in which a request opens a session and is done ...
LEMMA AccountOpens ==
  ASSUME Account, NEW s, NEW r \in Adding,
         OpenSessions' \subseteq OpenSessions \cup {s}, Adding' \subseteq Adding \ {r}
  PROVE  Account'
<1>1. /\ Cardinality(OpenSessions)' <= Cardinality(OpenSessions) + 1
      /\ Cardinality(Adding)' <= Cardinality(Adding) - 1
      /\ IsFiniteSet(OpenSessions')
  BY AccountTypes, SetSizes
<1>2. Cardinality(OpenSessions)' \in Nat /\ Cardinality(Adding)' \in Nat
  <2>1. IsFiniteSet(Adding')
    BY AccountTypes, FS_Subset
  <2> QED
    BY <1>1, <2>1, FS_CardinalityType
<1> QED
  BY <1>1, <1>2, AccountTypes DEF Account

\* ... and by one in which a session ends and an exchange may open it again.
LEMMA AccountExpires ==
  ASSUME Account, NEW s \in OpenSessions, NEW r,
         OpenSessions' \subseteq OpenSessions \ {s}, Adding' \subseteq Adding \cup {r}
  PROVE  Account'
<1>1. /\ Cardinality(OpenSessions)' <= Cardinality(OpenSessions) - 1
      /\ Cardinality(Adding)' <= Cardinality(Adding) + 1
      /\ IsFiniteSet(Adding')
  BY AccountTypes, SetSizes
<1>2. Cardinality(OpenSessions)' \in Nat /\ Cardinality(Adding)' \in Nat
  <2>1. IsFiniteSet(OpenSessions')
    BY AccountTypes, FS_Subset
  <2> QED
    BY <1>1, <2>1, FS_CardinalityType
<1> QED
  BY <1>1, <1>2, AccountTypes DEF Account

\* A request that goes on without adding a session, and no token expires meanwhile.
LEMMA AddingShrinks ==
  ASSUME TypeOK, NEW r \in Requests, NEW w, tx' = [tx EXCEPT ![r] = w],
         w = Idle \/ w.kind = "revoke" \/ (w.kind = "count" /\ TooMany(w.n)),
         \A t \in Tokens : refresh'[t] = "expired" => refresh[t] = "expired"
  PROVE  Adding' \subseteq Adding \ {r}
<1>1. ~Adds(r)'
  BY DEF Adds, Doing, TypeOK
<1>2. ASSUME NEW q \in Requests, q # r, Adds(q)' PROVE Adds(q)
  <2>1. tx'[q] = tx[q]
    BY <1>2 DEF TypeOK
  <2>2. Doing(q, "rotate") => tx[q].token \in Tokens
    BY WorkFacts DEF Doing
  <2> QED
    BY <1>2, <2>1, <2>2 DEF Adds, Doing
<1> QED
  BY <1>1, <1>2 DEF Adding

\* No request goes on.
LEMMA AddingStays ==
  ASSUME TypeOK, UNCHANGED tx, \A t \in Tokens : refresh'[t] = "expired" => refresh[t] = "expired"
  PROVE  Adding' \subseteq Adding
<1>1. ASSUME NEW q \in Requests, Adds(q)' PROVE Adds(q)
  <2>1. Doing(q, "rotate") => tx[q].token \in Tokens
    BY WorkFacts DEF Doing
  <2> QED
    BY <1>1, <2>1 DEF Adds, Doing
<1> QED
  BY <1>1 DEF Adding

\* Weakening opens no session.
LEMMA OpenShrinks ==
  ASSUME UNCHANGED of, \A t \in Tokens : refresh'[t] = "enabled" => refresh[t] = "enabled"
  PROVE  OpenSessions' \subseteq OpenSessions
BY DEF OpenSessions, Issued

\* A request that adds none may do what it likes as long as the tokens stay.
LEMMA AccountTakes ==
  ASSUME TypeOK, Account, NEW r \in Requests, NEW w, tx' = [tx EXCEPT ![r] = w],
         w = Idle \/ w.kind = "revoke" \/ (w.kind = "count" /\ TooMany(w.n)),
         UNCHANGED of,
         \A t \in Tokens : /\ refresh'[t] = "expired" => refresh[t] = "expired"
                           /\ refresh'[t] = "enabled" => refresh[t] = "enabled"
  PROVE  Account'
<1>1. Adding' \subseteq Adding
  BY AddingShrinks
<1>2. OpenSessions' \subseteq OpenSessions
  BY OpenShrinks
<1> QED
  BY <1>1, <1>2, AccountShrinks

\* Every step keeps the account.
LEMMA AccountNext ==
  ASSUME Inv, Account, [Next]_vars
  PROVE  Account'
<1> USE DEF tables, Goes
<1>1. TypeOK
  BY DEF Inv
<1>2. ASSUME NEW r \in Requests, LoginCount(r) PROVE Account'
  <2> DEFINE n == Cardinality(OpenSessions)
  <2>1. n \in Nat
    BY AccountTypes
  <2>2. CASE TooMany(n)
    BY <1>1, <1>2, <2>2, AccountTakes DEF LoginCount
  <2>3. CASE ~TooMany(n)
    <3>1. OpenSessions' = OpenSessions
      BY <1>2 DEF LoginCount, OpenSessions, Issued
    <3>2. IsFiniteSet(Adding') /\ Cardinality(Adding)' <= Cardinality(Requests)
      <4>1. Adding' \subseteq Requests
        BY DEF Adding
      <4> QED
        BY <4>1, RequestsAssumption, FS_Subset
    <3>3. Cardinality(Adding)' \in Nat
      BY <3>2, FS_CardinalityType
    <3>4. n <= Hard - 1
      BY <2>1, <2>3, AccountTypes DEF TooMany
    <3>5. Cardinality(OpenSessions)' = n
      BY <3>1
    <3> QED
      BY <2>1, <3>2, <3>3, <3>4, <3>5, AccountTypes DEF Account
  <2> QED
    BY <2>2, <2>3
<1>3. ASSUME NEW r \in Requests, LoginLimit(r) PROVE Account'
  <2>1. CASE TooMany(tx[r].n)
    BY <1>1, <1>3, <2>1, AccountTakes DEF LoginLimit
  <2>2. CASE ~TooMany(tx[r].n)
    <3>1. tx' = [tx EXCEPT ![r] = [kind |-> "login"]]
      BY <1>3, <2>2 DEF LoginLimit
    <3>2. ASSUME NEW q \in Requests, Adds(q)' PROVE Adds(q)
      <4>1. CASE q = r
        BY <1>3, <2>2, <4>1 DEF LoginLimit, Adds
      <4>2. CASE q # r
        <5>1. tx'[q] = tx[q] /\ refresh' = refresh
          BY <1>1, <1>3, <3>1, <4>2 DEF LoginLimit, TypeOK
        <5> QED
          BY <3>2, <5>1 DEF Adds, Doing
      <4> QED
        BY <4>1, <4>2
    <3>3. OpenSessions' \subseteq OpenSessions
      BY <1>3, OpenShrinks DEF LoginLimit
    <3> QED
      BY <3>2, <3>3, AccountShrinks DEF Adding
  <2> QED
    BY <2>1, <2>2
<1>4. ASSUME NEW r \in Requests, LoginCommit(r) PROVE Account'
  <2>1. PICK s \in Sessions, t \in Free :
          /\ of' = [of EXCEPT ![t] = s]
          /\ refresh' = [refresh EXCEPT ![t] = "enabled"]
    BY <1>4 DEF LoginCommit
  <2>2. OpenSessions' \subseteq OpenSessions \cup {s}
    BY <1>1, <2>1 DEF OpenSessions, Issued, Free, TypeOK
  <2>3. Adding' \subseteq Adding \ {r}
    <3>1. \A x \in Tokens : refresh'[x] = "expired" => refresh[x] = "expired"
      BY <1>1, <2>1 DEF TypeOK, Free
    <3> QED
      BY <1>1, <1>4, <3>1, AddingShrinks DEF LoginCommit
  <2>4. r \in Adding
    BY <1>4 DEF LoginCommit, Adding, Adds
  <2> QED
    BY <2>2, <2>3, <2>4, AccountOpens
<1>5. ASSUME NEW r \in Requests, NEW t \in Tokens, RotateBegin(r, t) PROVE Account'
  <2>1. ASSUME NEW q \in Requests, Adds(q)' PROVE Adds(q)
    <3>1. CASE q = r
      <4>1. tx'[q] = [kind |-> "rotate", token |-> t] /\ refresh'[t] = "enabled"
        BY <1>1, <1>5, <3>1 DEF RotateBegin, TypeOK
      <4> QED
        BY <2>1, <4>1 DEF Adds, Doing
    <3>2. CASE q # r
      <4>1. tx'[q] = tx[q] /\ refresh' = refresh
        BY <1>1, <1>5, <3>2 DEF RotateBegin, TypeOK
      <4> QED
        BY <2>1, <4>1 DEF Adds, Doing
    <3> QED
      BY <3>1, <3>2
  <2>2. OpenSessions' \subseteq OpenSessions
    BY <1>5, OpenShrinks DEF RotateBegin
  <2> QED
    BY <2>1, <2>2, AccountShrinks DEF Adding
<1>6. ASSUME NEW r \in Requests, RotateCommit(r) PROVE Account'
  <2> DEFINE t == tx[r].token
  <2>1. PICK u \in Free :
          /\ of' = [of EXCEPT ![u] = of[t]]
          /\ refresh' = [refresh EXCEPT ![t] = "grace", ![u] = "enabled"]
    BY <1>6 DEF RotateCommit
  <2>2. /\ t \in Tokens /\ Enabled(t) /\ u \in Tokens /\ refresh[u] = "none" /\ u # t
        /\ of[t] \in Sessions
    BY <1>1, <1>6, WorkFacts DEF RotateCommit, Doing, Inv, LocksOK, Free, Enabled, TypeOK
  <2>3. OpenSessions' \subseteq OpenSessions \cup {of[t]}
    BY <1>1, <2>1, <2>2 DEF OpenSessions, Issued, TypeOK
  <2>4. Adding' \subseteq Adding \ {r}
    <3>1. \A x \in Tokens : refresh'[x] = "expired" => refresh[x] = "expired"
      BY <1>1, <2>1, <2>2 DEF TypeOK
    <3> QED
      BY <1>1, <1>6, <3>1, AddingShrinks DEF RotateCommit
  <2>5. CASE refresh[t] = "expired"
    <3>1. r \in Adding
      BY <1>6, <2>5 DEF RotateCommit, Adding, Adds
    <3> QED
      BY <2>3, <2>4, <3>1, AccountOpens
  <2>6. CASE refresh[t] = "enabled"
    <3>1. of[t] \in OpenSessions
      BY <2>2, <2>6 DEF OpenSessions, Issued
    <3> QED
      BY <2>3, <2>4, <3>1, AccountShrinks
  <2> QED
    BY <2>2, <2>5, <2>6 DEF Enabled
<1>7. ASSUME NEW r \in Requests, NEW S \in SUBSET Sessions, Revoking(r, S),
             UNCHANGED <<of, refresh>>
      PROVE  Account'
  BY <1>1, <1>7, AccountTakes DEF Revoking
<1>8. ASSUME NEW r \in Requests, NEW t \in Tokens, Logout(r, t) \/ RotateReused(r, t)
      PROVE  Account'
  <2>1. {of[t]} \in SUBSET Sessions
    BY <1>1, <1>8 DEF RotateReused, Logout, TypeOK
  <2> QED
    BY <1>7, <1>8, <2>1 DEF RotateReused, Logout
<1>9. ASSUME NEW r \in Requests, NEW s \in Sessions, CloseSession(r, s) PROVE Account'
  BY <1>7, <1>9 DEF CloseSession
<1>10. ASSUME NEW r \in Requests, Rollback(r) PROVE Account'
  BY <1>1, <1>10, AccountTakes DEF Rollback
<1>11. ASSUME NEW T, RevokeRows(T)
       PROVE  \A t \in Tokens : /\ refresh'[t] = "expired" => refresh[t] = "expired"
                                /\ refresh'[t] = "enabled" => refresh[t] = "enabled"
  BY <1>1, <1>11 DEF RevokeRows, TypeOK
<1>12. ASSUME NEW r \in Requests, RevokeCommit(r) PROVE Account'
  BY <1>1, <1>11, <1>12, AccountTakes DEF RevokeCommit
<1>13. ASSUME UNCHANGED <<of, tx>>,
              \A t \in Tokens : /\ refresh'[t] = "expired" => refresh[t] = "expired"
                                /\ refresh'[t] = "enabled" => refresh[t] = "enabled"
       PROVE  Account'
  BY <1>1, <1>13, AddingStays, OpenShrinks, AccountShrinks
<1>14. CASE TrimCommit
  BY <1>11, <1>13, <1>14 DEF TrimCommit
<1>15. CASE CleanRefresh
  BY <1>1, <1>13, <1>15 DEF CleanRefresh, TypeOK
<1>16. ASSUME NEW t \in Tokens, GraceEnds(t) \/ AccessExpires(t) PROVE Account'
  BY <1>1, <1>13, <1>16 DEF GraceEnds, AccessExpires, TypeOK
<1>17. ASSUME NEW t \in Tokens, RefreshExpires(t) PROVE Account'
  <2>1. refresh' = [refresh EXCEPT ![t] = "expired"] /\ UNCHANGED <<of, tx>>
    BY <1>17 DEF RefreshExpires
  <2>2. of[t] \in OpenSessions
    BY <1>1, <1>17 DEF RefreshExpires, OpenSessions, Issued, TypeOK
  <2>3. OpenSessions' \subseteq OpenSessions \ {of[t]}
    <3>1. \A x \in Tokens : refresh'[x] = "enabled" => refresh[x] = "enabled" /\ x # t
      BY <1>1, <2>1 DEF TypeOK
    <3>2. \A x \in Tokens : refresh'[x] = "enabled" => of[x] # of[t]
      BY <1>17, <3>1 DEF RefreshExpires, Inv, OneRefreshPerSession, Enabled
    <3> QED
      BY <2>1, <3>1, <3>2 DEF OpenSessions, Issued
  <2>4. \A q \in Requests : Adds(q)' => Adds(q) \/ (Doing(q, "rotate") /\ tx[q].token = t)
    <3> SUFFICES ASSUME NEW q \in Requests, Adds(q)'
                 PROVE  Adds(q) \/ (Doing(q, "rotate") /\ tx[q].token = t)
      OBVIOUS
    <3>1. Doing(q, "rotate") => tx[q].token \in Tokens
      BY <1>1, WorkFacts DEF Doing
    <3>2. \A x \in Tokens : refresh'[x] = "expired" => refresh[x] = "expired" \/ x = t
      BY <1>1, <2>1 DEF TypeOK
    <3> QED
      BY <2>1, <3>1, <3>2 DEF Adds, Doing
  <2>5. \E r : Adding' \subseteq Adding \cup {r}
    BY <2>4 DEF Adding, Inv, LocksOK
  <2> QED
    BY <2>2, <2>3, <2>5, AccountExpires
<1>18. CASE UNCHANGED <<of, refresh, tx>>
  BY <1>13, <1>18
<1>19. ASSUME DrainDelete \/ DrainAck \/ CleanerFails \/ TrimChoose \/ TrimBegin \/ TrimAck
              \/ TrimmerFails \/ UNCHANGED vars
       PROVE  Account'
  BY <1>18, <1>19 DEF DrainDelete, DrainAck, CleanerFails, TrimChoose, TrimBegin, TrimAck,
                      TrimmerFails, vars
<1> QED
  BY <1>2, <1>3, <1>4, <1>5, <1>6, <1>8, <1>9, <1>10, <1>12, <1>14, <1>15, <1>16, <1>17, <1>19
  DEF Next, Request, Proceed, CleanRecords, TrimSessions

\* The limit of open sessions is not strict, but a burst of logins exceeds it by no more than
\* the other requests that are served at the same time.
THEOREM BurstsAreBounded == Spec => []BurstBounded
<1>1. Init => Account
  <2> SUFFICES ASSUME Init PROVE Account
    OBVIOUS
  <2>1. OpenSessions = {} /\ Adding = {}
    BY DEF Init, OpenSessions, Issued, Adding, Adds, Doing
  <2> QED
    BY <2>1, AccountTypes, FS_EmptySet DEF Account
<1>2. Inv /\ Account /\ [Next]_vars => Account'
  BY AccountNext
<1>3. Account => BurstBounded
  BY AccountTypes DEF Account, BurstBounded
<1> QED
  BY <1>1, <1>2, <1>3, InvInit, InvNext, PTL DEF Spec

----------------------------------------------------------------------------
(* What the list of sessions shows.  A revocation that has begun takes a whole session or   *)
(* leaves it a refresh token: T has all the pairs in force of s, or misses the enabled one. *)
Covered(s, T) == EnabledPairs({s}) \subseteq T \/ \E e \in Tokens \ T : of[e] = s /\ Enabled(e)

CoverOK ==
  /\ \A r \in Requests : Doing(r, "revoke") =>
       \A s \in tx[r].sessions \ late : Covered(s, tx[r].tokens)
  /\ trimmer.step = "revoke" => \A s \in trimmer.sessions \ late : Covered(s, trimmer.tokens)

ListOK ==
  /\ \A t \in Tokens : refresh[t] = "enabled" /\ of[t] \notin late => row[of[t]] = "open"
  /\ \A t \in access : of[t] \notin late => of[t] \in OpenSessions
  /\ \A t \in Tokens : refresh[t] = "expired" /\ Locked(t) => of[t] \in late

Listed == Inv /\ CoverOK /\ ListOK

\* A session whose token expired during its exchange is remembered.
LEMMA LateGrows == [Next]_vars => late \subseteq late'
BY DEF Next, Request, Proceed, LoginCount, RotateBegin, RotateReused, Logout, CloseSession,
       LoginLimit, LoginCommit, RotateCommit, RevokeCommit, Rollback, CleanRecords, CleanRefresh,
       DrainDelete, DrainAck, CleanerFails, TrimSessions, TrimChoose, TrimBegin, TrimCommit,
       TrimAck, TrimmerFails, GraceEnds, AccessExpires, RefreshExpires, vars

\* The row of a session is deleted only when no token of it is enabled.
LEMMA RowDeleted ==
  ASSUME TypeOK, [Next]_vars, NEW s \in Sessions, row[s] = "open", row'[s] # "open"
  PROVE  Orphaned(s)'
<1> USE DEF tables
<1>1. row' # row
  OBVIOUS
<1>2. CASE DrainDelete
  BY <1>2 DEF DrainDelete, Orphaned, Issued, TypeOK
<1>3. CASE TrimCommit
  BY <1>3 DEF TrimCommit, TypeOK
<1>4. ASSUME NEW r \in Requests, LoginCommit(r) PROVE FALSE
  BY <1>4 DEF LoginCommit, TypeOK
<1>5. ASSUME NEW r \in Requests, Request(r) PROVE FALSE
  BY <1>1, <1>5 DEF Request, LoginCount, RotateBegin, RotateReused, Logout, CloseSession
<1>6. ASSUME NEW r \in Requests, LoginLimit(r) \/ RotateCommit(r) \/ RevokeCommit(r) \/ Rollback(r)
      PROVE  FALSE
  BY <1>1, <1>6 DEF LoginLimit, RotateCommit, RevokeCommit, Rollback
<1>7. ~(CleanRefresh \/ DrainAck \/ CleanerFails \/ TrimChoose \/ TrimBegin \/ TrimAck
        \/ TrimmerFails)
  BY <1>1 DEF CleanRefresh, DrainAck, CleanerFails, TrimChoose, TrimBegin, TrimAck, TrimmerFails
<1>8. \A u \in Tokens : ~(GraceEnds(u) \/ AccessExpires(u) \/ RefreshExpires(u))
  BY <1>1 DEF GraceEnds, AccessExpires, RefreshExpires
<1>9. ~UNCHANGED vars
  BY <1>1 DEF vars
<1> QED
  BY <1>2, <1>3, <1>4, <1>5, <1>6, <1>7, <1>8, <1>9 DEF Next, Proceed, CleanRecords, TrimSessions

\* A revocation that ends an enabled token ends the session.
LEMMA RevokeEnds ==
  ASSUME Inv, NEW T \in SUBSET Tokens, RevokeRows(T), UNCHANGED of,
         NEW e \in Tokens, Enabled(e), refresh'[e] # refresh[e], Covered(of[e], T)
  PROVE  EnabledPairs({of[e]})' = {}
<1> USE DEF Inv
<1>1. /\ e \in T
      /\ \A x \in Tokens \ T : refresh'[x] = refresh[x] /\ (x \in access' <=> x \in access)
      /\ \A x \in T : ~Enabled(x)' /\ x \notin access'
  BY DEF RevokeRows, Enabled, TypeOK
<1>2. EnabledPairs({of[e]}) \subseteq T
  BY <1>1 DEF Covered, OneRefreshPerSession
<1>3. ASSUME NEW x \in Tokens, of[x] = of[e] PROVE ~Enabled(x)' /\ x \notin access'
  <2>1. CASE x \in T
    BY <1>1, <2>1
  <2>2. CASE x \notin T
    <3>1. ~Enabled(x) /\ x \notin access
      BY <1>2, <1>3, <2>2 DEF EnabledPairs
    <3> QED
      BY <1>1, <2>2, <3>1 DEF Enabled
  <2> QED
    BY <2>1, <2>2
<1> QED
  BY <1>3 DEF EnabledPairs

\* A refresh token that is enabled is exchanged, or ends together with its session, or expires
\* as the last of it, unlocked.
LEMMA TokenEnds ==
  ASSUME Listed, [Next]_vars, NEW e \in Tokens, Enabled(e), refresh'[e] # refresh[e],
         of[e] \notin late'
  PROVE  \/ \E t, u \in Tokens : Exchanged(t, u)
         \/ EnabledPairs({of[e]})' = {}
         \/ refresh'[e] = "expired" /\ Issued(of[e]) \cap access' = {} /\ ~Locked(e)'
<1> USE DEF tables, Inv, Listed
<1>1. refresh' # refresh
  OBVIOUS
<1>2. of[e] \in Sessions \ late
  BY LateGrows DEF Enabled, TypeOK
<1>3. ASSUME NEW r \in Requests, LoginCommit(r) PROVE FALSE
  BY <1>3 DEF LoginCommit, Free, Enabled, TypeOK
<1>4. ASSUME NEW r \in Requests, RotateCommit(r) PROVE \E t, u \in Tokens : Exchanged(t, u)
  <2>1. /\ tx[r].token \in Tokens
        /\ Enabled(tx[r].token) /\ Locked(tx[r].token)
    BY <1>4, WorkFacts DEF RotateCommit, Doing, Locked, LocksOK
  <2> QED
    BY <1>4, <2>1 DEF RotateCommit, Exchanged, Free
<1>5. ASSUME NEW r \in Requests, RevokeCommit(r) PROVE EnabledPairs({of[e]})' = {}
  <2>1. tx[r].tokens \in SUBSET Tokens /\ RevokeRows(tx[r].tokens) /\ UNCHANGED of
    BY <1>5, WorkFacts DEF RevokeCommit, Doing
  <2>2. e \in tx[r].tokens
    BY <2>1 DEF RevokeRows
  <2>3. Covered(of[e], tx[r].tokens)
    BY <1>2, <1>5, <2>2 DEF RevokeCommit, ScopeOK, CoverOK
  <2> QED
    BY <2>1, <2>3, RevokeEnds
<1>6. ASSUME TrimCommit PROVE EnabledPairs({of[e]})' = {}
  <2>1. trimmer.tokens \in SUBSET Tokens /\ RevokeRows(trimmer.tokens) /\ UNCHANGED of
    BY <1>6 DEF TrimCommit, TypeOK
  <2>2. e \in trimmer.tokens
    BY <2>1 DEF RevokeRows
  <2>3. Covered(of[e], trimmer.tokens)
    BY <1>2, <1>6, <2>2 DEF TrimCommit, ScopeOK, TrimmerScope, CoverOK
  <2> QED
    BY <2>1, <2>3, RevokeEnds
<1>7. ASSUME CleanRefresh PROVE EnabledPairs({of[e]})' = {}
  <2>1. PICK T \in SUBSET {t \in Tokens : refresh[t] \in {"expired", "revoked"} /\ ~Locked(t)} :
          refresh' = [t \in Tokens |-> IF t \in T THEN "deleted" ELSE refresh[t]]
    BY <1>7 DEF CleanRefresh
  <2>2. e \in T /\ refresh[e] = "expired" /\ refresh'[e] = "deleted"
    BY <2>1 DEF Enabled
  <2>3. of[e] \notin OpenSessions
    BY <2>2 DEF OpenSessions, Issued, OneRefreshPerSession, Enabled
  <2>4. \A x \in access : of[x] # of[e]
    BY <1>2, <2>3 DEF ListOK
  <2>5. \A x \in Tokens : Enabled(x)' => Enabled(x) /\ x # e
    BY <2>1, <2>2 DEF Enabled
  <2>6. UNCHANGED <<of, access>>
    BY <1>7 DEF CleanRefresh
  <2> QED
    BY <2>4, <2>5, <2>6 DEF EnabledPairs, OneRefreshPerSession
<1>8. ASSUME NEW t \in Tokens, RefreshExpires(t)
      PROVE  refresh'[e] = "expired" /\ Issued(of[e]) \cap access' = {} /\ ~Locked(e)'
  <2>1. t = e
    BY <1>8 DEF RefreshExpires, TypeOK
  <2>2. ~Locked(e)
    BY <1>8, <2>1 DEF RefreshExpires
  <2>3. UNCHANGED <<tx, access>> /\ refresh'[e] = "expired" /\ Issued(of[e]) \cap access = {}
    BY <1>8, <2>1 DEF RefreshExpires, TypeOK
  <2> QED
    BY <2>2, <2>3 DEF Locked
<1>9. ASSUME NEW t \in Tokens, GraceEnds(t) \/ AccessExpires(t) PROVE FALSE
  BY <1>1, <1>9 DEF GraceEnds, AccessExpires, Enabled, TypeOK
<1>10. ASSUME NEW r \in Requests, Request(r) \/ LoginLimit(r) \/ Rollback(r) PROVE FALSE
  BY <1>1, <1>10 DEF Request, LoginCount, RotateBegin, RotateReused, Logout, CloseSession,
                     LoginLimit, Rollback
<1>11. ~(DrainDelete \/ DrainAck \/ CleanerFails \/ TrimChoose \/ TrimBegin \/ TrimAck
         \/ TrimmerFails \/ UNCHANGED vars)
  BY <1>1 DEF DrainDelete, DrainAck, CleanerFails, TrimChoose, TrimBegin, TrimAck,
              TrimmerFails, vars
<1> QED
  BY <1>3, <1>4, <1>5, <1>6, <1>7, <1>8, <1>9, <1>10, <1>11
  DEF Next, Proceed, CleanRecords, TrimSessions

\* Only an exchange that finds its token enabled locks it.
LEMMA LockTaken ==
  ASSUME TypeOK, [Next]_vars, NEW t \in Tokens, Locked(t)', ~Locked(t)
  PROVE  refresh'[t] = "enabled"
<1> USE DEF tables, Goes
<1>1. PICK r \in Requests : Doing(r, "rotate")' /\ tx'[r].token = t
  BY DEF Locked, Doing
<1>2. tx'[r] # tx[r]
  BY <1>1 DEF Locked, Doing
<1>3. ASSUME NEW q \in Requests, NEW w, tx' = [tx EXCEPT ![q] = w],
             w = Idle \/ w.kind # "rotate"
      PROVE  FALSE
  BY <1>1, <1>2, <1>3 DEF Doing, TypeOK
<1>4. ASSUME NEW q \in Requests, NEW u \in Tokens, RotateBegin(q, u)
      PROVE  refresh'[t] = "enabled"
  <2>1. q = r
    BY <1>2, <1>4 DEF RotateBegin, TypeOK
  <2>2. tx'[r] = [kind |-> "rotate", token |-> u]
    BY <1>4, <2>1 DEF RotateBegin, TypeOK
  <2> QED
    BY <1>1, <1>4, <2>2 DEF RotateBegin
<1>5. ASSUME NEW q \in Requests, Request(q) PROVE refresh'[t] = "enabled"
  <2>1. ~LoginCount(q)
    BY <1>3 DEF LoginCount
  <2>2. \A u \in Tokens : ~RotateReused(q, u) /\ ~Logout(q, u)
    BY <1>3 DEF RotateReused, Logout, Revoking
  <2>3. \A s \in Sessions : ~CloseSession(q, s)
    BY <1>3 DEF CloseSession, Revoking
  <2> QED
    BY <1>4, <1>5, <2>1, <2>2, <2>3 DEF Request
<1>6. ASSUME NEW q \in Requests PROVE ~Proceed(q)
  <2>1. ~LoginLimit(q)
    <3> SUFFICES ASSUME LoginLimit(q) PROVE FALSE
      OBVIOUS
    <3>1. \/ tx' = [tx EXCEPT ![q] = Idle]
          \/ tx' = [tx EXCEPT ![q] = [kind |-> "login"]]
      BY DEF LoginLimit
    <3> QED
      BY <1>3, <3>1
  <2>2. ~LoginCommit(q) /\ ~RotateCommit(q) /\ ~RevokeCommit(q) /\ ~Rollback(q)
    BY <1>3 DEF LoginCommit, RotateCommit, RevokeCommit, Rollback
  <2> QED
    BY <2>1, <2>2 DEF Proceed
<1>7. tx' # tx
  BY <1>2
<1>8. ~(CleanRecords \/ CleanerFails \/ TrimSessions \/ TrimmerFails \/ UNCHANGED vars)
  BY <1>7 DEF CleanRecords, CleanRefresh, DrainDelete, DrainAck, CleanerFails,
              TrimSessions, TrimChoose, TrimBegin, TrimCommit, TrimAck, TrimmerFails, vars
<1>9. \A u \in Tokens : ~(GraceEnds(u) \/ AccessExpires(u) \/ RefreshExpires(u))
  BY <1>7 DEF GraceEnds, AccessExpires, RefreshExpires
<1> QED
  BY <1>5, <1>6, <1>8, <1>9 DEF Next

\* What a revocation has begun to take stays a whole session, or leaves it a refresh token.
LEMMA CoveredNext ==
  ASSUME Listed, [Next]_vars, NEW s \in Sessions, s \notin late',
         NEW T \in SUBSET Tokens, \A t \in T : of[t] \in Sessions, Covered(s, T)
  PROVE  Covered(s, T)'
<1> USE DEF Listed, Inv
<1>1. T' = T /\ s' = s
  OBVIOUS
<1>2. ASSUME NEW t \in Tokens, NEW u \in Tokens, Exchanged(t, u), of[t] = s
      PROVE  Covered(s, T)'
  <2>1. u \notin T /\ of'[u] = s /\ refresh'[u] = "enabled"
    BY <1>2, NamesAssumption DEF Exchanged, Enabled, TypeOK
  <2> QED
    BY <2>1 DEF Covered, Enabled
<1>3. ASSUME NEW e \in Tokens \ T, of[e] = s, Enabled(e)
      PROVE  Covered(s, T)'
  <2>1. of'[e] = s
    BY <1>3, OfKept
  <2>2. CASE Enabled(e)'
    BY <1>3, <2>1, <2>2 DEF Covered
  <2>3. CASE ~Enabled(e)'
    <3>1. refresh'[e] # refresh[e] /\ refresh'[e] # "expired"
      BY <1>3, <2>3 DEF Enabled
    <3>2. CASE EnabledPairs({s})' = {}
      BY <3>2 DEF Covered
    <3>3. ASSUME NEW t \in Tokens, NEW u \in Tokens, Exchanged(t, u) PROVE Covered(s, T)'
      <4>1. t = e
        BY <1>3, <2>3, <3>3 DEF Exchanged, Enabled, TypeOK
      <4> QED
        BY <1>2, <1>3, <3>3, <4>1
    <3>4. EnabledPairs({of[e]})' = EnabledPairs({s})'
      BY <2>1 DEF EnabledPairs
    <3> QED
      BY <1>3, <3>1, <3>2, <3>3, <3>4, TokenEnds
  <2> QED
    BY <2>2, <2>3
<1>4. ASSUME EnabledPairs({s}) \subseteq T PROVE Covered(s, T)'
  <2>1. ASSUME NEW t \in Tokens, Opened(t) PROVE Covered(s, T)'
    <3>1. CASE of'[t] = s
      <4>1. t \notin T /\ refresh'[t] = "enabled"
        BY <2>1, NamesAssumption DEF Opened, TypeOK
      <4> QED
        BY <3>1, <4>1 DEF Covered, Enabled
    <3>2. CASE of'[t] # s
      <4>1. EnabledPairs({s})' \subseteq EnabledPairs({s})
        BY <2>1, <3>2 DEF Opened, EnabledPairs, Enabled, TypeOK
      <4> QED
        BY <1>4, <4>1 DEF Covered
    <3> QED
      BY <3>1, <3>2
  <2>2. ASSUME NEW t \in Tokens, NEW u \in Tokens, Exchanged(t, u), of[t] # s
        PROVE  Covered(s, T)'
    <3>1. EnabledPairs({s})' \subseteq EnabledPairs({s})
      BY <2>2 DEF Exchanged, EnabledPairs, Enabled, TypeOK
    <3> QED
      BY <1>4, <3>1 DEF Covered
  <2>3. CASE Weakened
    <3>1. EnabledPairs({s})' \subseteq EnabledPairs({s})
      BY <2>3 DEF Weakened, EnabledPairs
    <3> QED
      BY <1>4, <3>1 DEF Covered
  <2> QED
    BY <1>2, <2>1, <2>2, <2>3, StepKinds
<1> QED
  BY <1>3, <1>4 DEF Covered

\* Every step keeps the revocations that have begun like that.
LEMMA CoverNext ==
  ASSUME Listed, [Next]_vars
  PROVE  CoverOK'
<1>1. TypeOK /\ ScopeOK /\ CoverOK /\ late \subseteq late'
  BY LateGrows DEF Listed, Inv
<1>2. ASSUME NEW S \in SUBSET Sessions, UNCHANGED <<of, refresh, access>>
      PROVE  \A s \in S : Covered(s, EnabledPairs(S))'
  BY <1>2 DEF Covered, EnabledPairs, Enabled
<1>3. ASSUME NEW r \in Requests, Doing(r, "revoke")', NEW s \in tx'[r].sessions \ late'
      PROVE  Covered(s, tx[r].tokens)'
  <2>1. CASE tx'[r] = tx[r]
    <3>1. /\ Doing(r, "revoke") /\ s \in tx[r].sessions \ late
          /\ tx[r].tokens \in SUBSET Tokens /\ tx[r].sessions \in SUBSET Sessions
          /\ \A t \in tx[r].tokens : of[t] \in tx[r].sessions
      BY <1>1, <1>3, <2>1, WorkFacts DEF Doing, ScopeOK
    <3>2. Covered(s, tx[r].tokens)
      BY <1>1, <3>1 DEF CoverOK
    <3> DEFINE T == tx[r].tokens
    <3>3. T \in SUBSET Tokens /\ Covered(s, T) /\ (\A t \in T : of[t] \in Sessions) /\ s \in Sessions
      BY <3>1, <3>2
    <3>4. T' = T
      BY <2>1
    <3> HIDE DEF T
    <3>5. \A X \in SUBSET Tokens : Covered(s, X) /\ (\A t \in X : of[t] \in Sessions) =>
            (EnabledPairs({s})' \subseteq X \/ \E e \in Tokens \ X : of'[e] = s /\ Enabled(e)')
      BY <1>3, <3>3, CoveredNext DEF Covered
    <3>6. EnabledPairs({s})' \subseteq T \/ \E e \in Tokens \ T : of'[e] = s /\ Enabled(e)'
      BY <3>3, <3>5
    <3> QED
      BY <3>4, <3>6 DEF Covered, T
  <2>2. CASE tx'[r] # tx[r]
    <3>1. PICK S \in SUBSET Sessions : Revoking(r, S)
      BY <1>1, <1>3, <2>2, RevokesBegin
    <3>2. tx'[r].tokens = EnabledPairs(S) /\ tx'[r].sessions = S
      BY <1>1, <3>1 DEF Revoking, Goes, TypeOK
    <3> DEFINE T == EnabledPairs(S)
    <3>3. T \in SUBSET Tokens /\ (\A t \in T : of[t] \in Sessions) /\ EnabledPairs({s}) \subseteq T
      BY <1>3, <3>2 DEF EnabledPairs
    <3> HIDE DEF T
    <3>4. s \in Sessions /\ s \notin late'
      BY <1>3, <3>2
    <3>5. \A X \in SUBSET Tokens : EnabledPairs({s}) \subseteq X /\ (\A t \in X : of[t] \in Sessions) =>
            (EnabledPairs({s})' \subseteq X \/ \E e \in Tokens \ X : of'[e] = s /\ Enabled(e)')
      BY <3>4, CoveredNext DEF Covered
    <3>6. EnabledPairs({s})' \subseteq T \/ \E e \in Tokens \ T : of'[e] = s /\ Enabled(e)'
      BY <3>3, <3>5
    <3> QED
      BY <3>2, <3>6 DEF Covered, T
  <2> QED
    BY <2>1, <2>2
<1>4. ASSUME (trimmer.step = "revoke")', NEW s \in trimmer'.sessions \ late'
      PROVE  Covered(s, trimmer.tokens)'
  <2>1. ASSUME NEW T, T = trimmer'.tokens, T \in SUBSET Tokens, \A t \in T : of[t] \in Sessions,
               s \in Sessions, Covered(s, T)
        PROVE  Covered(s, trimmer.tokens)'
    <3>1. \A X \in SUBSET Tokens : Covered(s, X) /\ (\A t \in X : of[t] \in Sessions) =>
            (EnabledPairs({s})' \subseteq X \/ \E e \in Tokens \ X : of'[e] = s /\ Enabled(e)')
      BY <1>4, <2>1, CoveredNext DEF Covered
    <3>2. EnabledPairs({s})' \subseteq T \/ \E e \in Tokens \ T : of'[e] = s /\ Enabled(e)'
      BY <2>1, <3>1
    <3> QED
      BY <2>1, <3>2 DEF Covered
  <2>2. CASE UNCHANGED trimmer
    <3>1. /\ trimmer'.tokens = trimmer.tokens /\ trimmer.tokens \in SUBSET Tokens
          /\ trimmer.sessions \in SUBSET Sessions /\ s \in trimmer.sessions \ late
          /\ trimmer.step = "revoke"
      BY <1>1, <1>4, <2>2 DEF TypeOK
    <3>2. \A t \in trimmer.tokens : of[t] \in Sessions
      BY <1>1, <3>1 DEF ScopeOK, TrimmerScope
    <3>3. Covered(s, trimmer.tokens)
      BY <1>1, <3>1 DEF CoverOK
    <3> QED
      BY <2>1, <3>1, <3>2, <3>3
  <2>3. CASE TrimBegin
    <3>1. /\ trimmer'.tokens = EnabledPairs(trimmer.sessions)
          /\ trimmer'.sessions = trimmer.sessions /\ trimmer.sessions \in SUBSET Sessions
      BY <1>1, <2>3 DEF TrimBegin, TrimmerAt, TypeOK
    <3>2. /\ EnabledPairs(trimmer.sessions) \in SUBSET Tokens
          /\ \A t \in EnabledPairs(trimmer.sessions) : of[t] \in Sessions
          /\ Covered(s, EnabledPairs(trimmer.sessions)) /\ s \in Sessions
      BY <1>4, <3>1 DEF EnabledPairs, Covered
    <3> QED
      BY <2>1, <3>1, <3>2
  <2>4. UNCHANGED trimmer \/ TrimBegin
    <3>1. ~(TrimChoose \/ TrimCommit \/ TrimAck \/ TrimmerFails)
      <4>1. ~TrimChoose
        <5> SUFFICES ASSUME TrimChoose PROVE FALSE
          OBVIOUS
        <5>1. PICK X : TrimmerAt(IF X = {} THEN "done" ELSE "chosen", X, {})
          BY DEF TrimChoose
        <5>2. TrimmerAt("done", X, {}) \/ TrimmerAt("chosen", X, {})
          BY <5>1
        <5> QED
          BY <1>4, <5>2 DEF TrimmerAt
      <4> QED
        BY <1>4, <4>1 DEF TrimCommit, TrimAck, TrimmerFails, TrimmerAt
    <3>2. \A r \in Requests : Request(r) \/ Proceed(r) => UNCHANGED trimmer
      BY DEF Request, LoginCount, RotateBegin, RotateReused, Logout, CloseSession,
             Proceed, LoginLimit, LoginCommit, RotateCommit, RevokeCommit, Rollback
    <3>3. CleanRecords \/ CleanerFails \/ UNCHANGED vars => UNCHANGED trimmer
      BY DEF CleanRecords, CleanRefresh, DrainDelete, DrainAck, CleanerFails, vars
    <3>4. \A u \in Tokens : GraceEnds(u) \/ AccessExpires(u) \/ RefreshExpires(u) => UNCHANGED trimmer
      BY DEF GraceEnds, AccessExpires, RefreshExpires
    <3> QED
      BY <3>1, <3>2, <3>3, <3>4 DEF Next, TrimSessions
  <2> QED
    BY <2>2, <2>3, <2>4
<1> QED
  BY <1>3, <1>4 DEF CoverOK, Doing

\* Every step keeps a session with a pair in force open, and its row.
LEMMA ListedNext ==
  ASSUME Listed, [Next]_vars
  PROVE  ListOK'
<1> USE DEF Listed, Inv
<1>1. late \subseteq late'
  BY LateGrows
<1>2. ASSUME NEW v \in Tokens, of[v] \in Sessions, row[of[v]] = "open", of'[v] = of[v],
             refresh'[v] = "enabled"
      PROVE  row'[of[v]] = "open"
  <2>1. ~Orphaned(of[v])'
    BY <1>2 DEF Orphaned, Issued
  <2>2. \A s \in Sessions : row[s] = "open" /\ row'[s] # "open" =>
          \A t \in Tokens : of'[t] = s => refresh'[t] # "enabled"
    BY RowDeleted DEF Orphaned, Issued
  <2> QED
    BY <1>2, <2>2
<1>3. ASSUME NEW v \in Tokens, refresh'[v] = "enabled", of'[v] \notin late'
      PROVE  row'[of'[v]] = "open"
  <2>1. ASSUME refresh[v] = "enabled" PROVE row'[of'[v]] = "open"
    <3>1. of[v] \in Sessions
      BY <2>1 DEF TypeOK
    <3>2. of'[v] = of[v]
      BY <3>1, OfKept
    <3>3. row[of[v]] = "open"
      BY <1>1, <1>3, <2>1, <3>2 DEF ListOK
    <3> QED
      BY <1>2, <1>3, <3>1, <3>2, <3>3
  <2>2. ASSUME NEW t \in Tokens, Opened(t), refresh[v] # "enabled" PROVE row'[of'[v]] = "open"
    BY <1>3, <2>2 DEF Opened, TypeOK
  <2>3. ASSUME NEW t \in Tokens, NEW u \in Tokens, Exchanged(t, u), refresh[v] # "enabled"
        PROVE  row'[of'[v]] = "open"
    <3>1. v = u /\ of'[v] = of[t] /\ row' = row
      BY <1>3, <2>3 DEF Exchanged, TypeOK
    <3>2. refresh[t] # "expired"
      BY <1>1, <1>3, <2>3, <3>1 DEF Exchanged, ListOK
    <3> QED
      BY <1>1, <1>3, <2>3, <3>1, <3>2 DEF Exchanged, Enabled, ListOK
  <2>4. ASSUME Weakened PROVE refresh[v] = "enabled"
    BY <1>3, <2>4 DEF Weakened
  <2> QED
    BY <2>1, <2>2, <2>3, <2>4, StepKinds
<1>4. ASSUME NEW x \in access', of'[x] \notin late'
      PROVE  \E e \in Tokens : of'[e] = of'[x] /\ refresh'[e] = "enabled" /\ of'[x] \in Sessions
  <2>1. ASSUME x \in access, of[x] \notin late
        PROVE  \E e \in Tokens : of[e] = of[x] /\ refresh[e] = "enabled" /\ of[x] \in Sessions
    BY <2>1 DEF ListOK, OpenSessions, Issued
  <2>2. ASSUME NEW t \in Tokens, Opened(t)
        PROVE  \E e \in Tokens : of'[e] = of'[x] /\ refresh'[e] = "enabled" /\ of'[x] \in Sessions
    <3>1. CASE x = t
      BY <2>2, <3>1 DEF Opened, TypeOK
    <3>2. CASE x # t
      <4>1. x \in access /\ of'[x] = of[x] /\ of[x] \notin late
        BY <1>1, <1>4, <2>2, <3>2 DEF Opened, TypeOK
      <4>2. PICK e \in Tokens : of[e] = of[x] /\ refresh[e] = "enabled" /\ of[x] \in Sessions
        BY <2>1, <4>1
      <4>3. e # t
        BY <2>2, <4>2 DEF Opened
      <4> QED
        BY <2>2, <4>1, <4>2, <4>3 DEF Opened, TypeOK
    <3> QED
      BY <3>1, <3>2
  <2>3. ASSUME NEW t \in Tokens, NEW u \in Tokens, Exchanged(t, u)
        PROVE  \E e \in Tokens : of'[e] = of'[x] /\ refresh'[e] = "enabled" /\ of'[x] \in Sessions
    <3>1. of'[u] = of[t] /\ refresh'[u] = "enabled" /\ of[t] \in Sessions
      BY <2>3 DEF Exchanged, Enabled, TypeOK
    <3>2. CASE of'[x] = of[t]
      BY <3>1, <3>2
    <3>3. CASE of'[x] # of[t]
      <4>1. x \in access /\ of'[x] = of[x] /\ of[x] \notin late /\ of[x] # of[t]
        BY <1>1, <1>4, <2>3, <3>1, <3>3 DEF Exchanged, TypeOK
      <4>2. PICK e \in Tokens : of[e] = of[x] /\ refresh[e] = "enabled" /\ of[x] \in Sessions
        BY <2>1, <4>1
      <4>3. e # t /\ e # u
        BY <2>3, <4>1, <4>2 DEF Exchanged
      <4> QED
        BY <2>3, <4>1, <4>2, <4>3 DEF Exchanged, TypeOK
    <3> QED
      BY <3>2, <3>3
  <2>4. ASSUME Weakened, ~\E t, u \in Tokens : Exchanged(t, u)
        PROVE  \E e \in Tokens : of'[e] = of'[x] /\ refresh'[e] = "enabled" /\ of'[x] \in Sessions
    <3>1. x \in access /\ of' = of /\ of[x] \notin late /\ of[x] \notin late'
      BY <1>1, <1>4, <2>4 DEF Weakened
    <3>2. PICK e \in Tokens : of[e] = of[x] /\ refresh[e] = "enabled" /\ of[x] \in Sessions
      BY <2>1, <3>1
    <3>3. x \in EnabledPairs({of[e]})' /\ x \in Issued(of[e]) \cap access'
      BY <1>4, <3>1, <3>2 DEF EnabledPairs, Issued, TypeOK
    <3>4. refresh'[e] = refresh[e]
      BY <2>4, <3>1, <3>2, <3>3, TokenEnds DEF Enabled
    <3> QED
      BY <3>1, <3>2, <3>4
  <2> QED
    BY <2>2, <2>3, <2>4, StepKinds
<1>5. ASSUME NEW v \in Tokens, refresh'[v] = "expired", Locked(v)', of'[v] \notin late'
      PROVE  FALSE
  <2>1. Locked(v)
    BY <1>5, LockTaken
  <2>2. refresh[v] # "none"
    <3>1. \A t \in Tokens : ~(Opened(t) /\ v = t)
      BY <1>5 DEF Opened, TypeOK
    <3> QED
      BY <1>5, <3>1, StepKinds DEF Opened, Exchanged, Weakened, Enabled, TypeOK
  <2>3. of'[v] = of[v]
    BY <2>2, OfKept DEF TypeOK
  <2>4. refresh[v] # "expired"
    BY <1>1, <1>5, <2>1, <2>3 DEF ListOK
  <2>5. refresh[v] = "enabled"
    BY <1>5, <2>4, StepKinds DEF Opened, Exchanged, Weakened, Enabled, TypeOK
  <2>6. ~\E t, u \in Tokens : Exchanged(t, u)
    BY <1>5, <2>4 DEF Exchanged, TypeOK
  <2>7. v \notin EnabledPairs({of[v]})' => FALSE
    BY <1>5, <2>3 DEF EnabledPairs, Enabled
  <2> QED
    BY <1>5, <2>3, <2>5, <2>6, <2>7, TokenEnds DEF Enabled
<1>6. TypeOK'
  BY TypeNext
<1> QED
  BY <1>3, <1>4, <1>5, <1>6 DEF ListOK, OpenSessions, Issued, TypeOK

\* The list of sessions has the session of every access token that is still accepted, unless
\* its refresh token expired within the transaction that exchanged it.
THEOREM CurrentSessionIsListed == Spec => []CurrentSessionListed
<1>1. Init => Listed
  BY InvInit DEF Init, Listed, CoverOK, ListOK, Doing
<1>2. Listed /\ [Next]_vars => Listed'
  BY InvNext, CoverNext, ListedNext DEF Listed
<1>3. Listed => CurrentSessionListed
  <2> SUFFICES ASSUME Listed, NEW t \in access, of[t] \notin late
               PROVE  of[t] \in OpenSessions /\ row[of[t]] = "open"
    BY DEF CurrentSessionListed
  <2>1. of[t] \in OpenSessions
    BY DEF Listed, ListOK
  <2>2. PICK e \in Tokens : of[e] = of[t] /\ refresh[e] = "enabled"
    BY <2>1 DEF OpenSessions, Issued
  <2> QED
    BY <2>1, <2>2 DEF Listed, ListOK
<1> QED
  BY <1>1, <1>2, <1>3, PTL DEF Spec

----------------------------------------------------------------------------
(***************************************************************************)
(* SessionList                                                             *)
(*                                                                         *)
(* The pass of selectExcessSessions is a recursive function: that there is *)
(* one, and that it keeps its invariant, is shown of a least number of     *)
(* sessions at which it would not.  The rows have one order, so that each  *)
(* place of an answer has one row.  What a list and the trimmer have read  *)
(* stays right while the tables change, because a session keeps its device *)
(* and a deleted row never comes back.                                     *)
(***************************************************************************)

\* f is the pass over the first n sessions of q.
PassOver(q, f, n) ==
  f = [i \in 0 .. n |-> IF i = 0 THEN [kept |-> {}, seen |-> {}, candidates |-> <<>>]
                        ELSE Sort(f[i - 1], q[i])]

\* A pass can be continued by one session.
LEMMA PassExtends ==
  ASSUME NEW q, NEW n \in Nat \ {0}, NEW f, PassOver(q, f, n - 1)
  PROVE  \E g : PassOver(q, g, n)
<1> DEFINE g == [i \in 0 .. n |-> IF i = n THEN Sort(f[n - 1], q[n]) ELSE f[i]]
<1>1. ASSUME NEW i \in 0 .. n
      PROVE  g[i] = IF i = 0 THEN [kept |-> {}, seen |-> {}, candidates |-> <<>>]
                    ELSE Sort(g[i - 1], q[i])
  <2>1. CASE i = n
    BY <2>1
  <2>2. CASE i # n
    <3>1. i \in 0 .. n - 1
      BY <2>2
    <3>2. g[i] = f[i] /\ (i # 0 => i - 1 \in 0 .. n - 1 /\ i - 1 # n /\ g[i - 1] = f[i - 1])
      BY <2>2, <3>1
    <3> QED
      BY <3>1, <3>2 DEF PassOver
  <2> QED
    BY <2>1, <2>2
<1>2. g = [i \in 0 .. n |-> IF i = 0 THEN [kept |-> {}, seen |-> {}, candidates |-> <<>>]
                            ELSE Sort(g[i - 1], q[i])]
  BY <1>1
<1>3. PassOver(q, g, n)
  BY <1>2 DEF PassOver
<1> QED
  BY <1>3

\* There is a pass over any number of sessions: a least number without one is neither 0 nor
\* one more than a number with one.
LEMMA PassExists ==
  ASSUME NEW q, NEW n \in Nat
  PROVE  \E f : PassOver(q, f, n)
<1> DEFINE T == {m \in Nat : ~ \E f : PassOver(q, f, m)}
           R == OpToRel(<, Nat)
<1> SUFFICES ASSUME T # {} PROVE FALSE
  OBVIOUS
<1>1. PICK m \in T : \A y \in T : ~ (<<y, m>> \in R)
  <2>1. T \subseteq Nat
    OBVIOUS
  <2>2. IsWellFoundedOn(R, Nat)
    BY NatLessThanWellFounded
  <2> HIDE DEF T, R
  <2> QED
    BY <2>1, <2>2, WFMin
<1>2. m # 0
  <2> DEFINE f == [i \in 0 .. 0 |-> [kept |-> {}, seen |-> {}, candidates |-> <<>>]]
  <2>1. PassOver(q, f, 0)
    BY DEF PassOver
  <2> QED
    BY <2>1
<1>3. m - 1 \in Nat /\ m - 1 < m
  BY <1>2
<1>4. m - 1 \notin T
  BY <1>1, <1>3 DEF OpToRel
<1>5. PICK f : PassOver(q, f, m - 1)
  BY <1>3, <1>4
<1> QED
  BY <1>2, <1>5, PassExtends

\* The pass is what its recursion says.
LEMMA PassIs ==
  ASSUME NEW q, Len(q) \in Nat
  PROVE  /\ Pass(q)[0] = [kept |-> {}, seen |-> {}, candidates |-> <<>>]
         /\ \A i \in 1 .. Len(q) : Pass(q)[i] = Sort(Pass(q)[i - 1], q[i])
<1>1. Pass(q) = CHOOSE f : PassOver(q, f, Len(q))
  BY DEF Pass, PassOver
<1>2. PassOver(q, Pass(q), Len(q))
  BY <1>1, PassExists
<1>3. ASSUME NEW f, PassOver(q, f, Len(q))
      PROVE  /\ f[0] = [kept |-> {}, seen |-> {}, candidates |-> <<>>]
             /\ \A i \in 1 .. Len(q) : f[i] = Sort(f[i - 1], q[i])
  <2>1. 0 \in 0 .. Len(q) /\ \A i \in 1 .. Len(q) : i \in 0 .. Len(q) /\ i # 0
    OBVIOUS
  <2> QED
    BY <1>3, <2>1, Zenon DEF PassOver
<1> QED
  BY <1>2, <1>3

----------------------------------------------------------------------------
(* The pass of selectExcessSessions *)

Accs == [kept : SUBSET Sessions, seen : SUBSET {device[s] : s \in Sessions},
         candidates : Seq(Sessions)]

\* No more are kept than the limit, each the first of its device, and a first one is passed
\* over only when the limit is reached: then all that are kept come before it.
KeptFirst(q, i, kept) ==
  /\ IsFiniteSet(kept) /\ Cardinality(kept) <= SessionMax
  /\ \A s \in kept : \E j \in 1 .. i : q[j] = s
  /\ \A j \in 1 .. i : q[j] \in kept => First(q, j)
  /\ \A j \in 1 .. i : First(q, j) /\ q[j] \notin kept =>
       /\ Cardinality(kept) = SessionMax
       /\ \A k \in 1 .. i : q[k] \in kept => k < j

\* The others are candidates, in the order of q.
OthersWait(q, i, kept, candidates) ==
  /\ \A a \in 1 .. Len(candidates) : \E j \in 1 .. i : q[j] = candidates[a]
  /\ \A a \in 1 .. Len(candidates) : candidates[a] \notin kept
  /\ \A j \in 1 .. i : q[j] \in kept \/ \E a \in 1 .. Len(candidates) : q[j] = candidates[a]
  /\ \A a, b \in 1 .. Len(candidates), j, k \in 1 .. i :
       q[j] = candidates[a] /\ q[k] = candidates[b] /\ a < b => j < k
  /\ Cardinality(kept) + Len(candidates) = i

\* As long as the limit is not reached, every device that came by is remembered.
SeenAll(q, i, acc) ==
  Cardinality(acc.kept) < SessionMax =>
    acc.seen = {device[q[j]] : j \in 1 .. i} \ {NoDevice}

Passed(q, i, acc) ==
  /\ acc \in Accs
  /\ KeptFirst(q, i, acc.kept)
  /\ OthersWait(q, i, acc.kept, acc.candidates)
  /\ SeenAll(q, i, acc)

\* A session that becomes a candidate is not the first of its device, or the limit is reached.
LEMMA CandidatePassed ==
  ASSUME NEW q \in Seq(Sessions), IsInjective(q), NEW i \in 1 .. Len(q),
         NEW acc, Passed(q, i - 1, acc),
         NEW new, new = [acc EXCEPT !.candidates = Append(@, q[i])],
         Cardinality(acc.kept) < SessionMax => ~First(q, i) /\ device[q[i]] \in acc.seen
  PROVE  Passed(q, i, new)
<1> DEFINE m == Len(acc.candidates)
<1>1. /\ acc \in Accs /\ q[i] \in Sessions /\ i \in Nat /\ m \in Nat
      /\ \A j \in 1 .. i : q[j] \in Sessions /\ (j # i => q[j] # q[i])
      /\ \A j \in 1 .. i : j = i \/ j \in 1 .. i - 1
      /\ 1 .. i - 1 \subseteq 1 .. i /\ i \in 1 .. i
  BY DEF Passed, Accs, IsInjective
<1>2. /\ new \in Accs /\ new.kept = acc.kept /\ new.seen = acc.seen
      /\ new.candidates = Append(acc.candidates, q[i])
  <2>1. Append(acc.candidates, q[i]) \in Seq(Sessions)
    BY <1>1 DEF Accs
  <2> QED
    BY <1>1, <2>1 DEF Accs
<1>3. /\ Len(new.candidates) = m + 1 /\ new.candidates[m + 1] = q[i]
      /\ \A a \in 1 .. m : new.candidates[a] = acc.candidates[a]
      /\ \A a \in 1 .. m + 1 : a = m + 1 \/ a \in 1 .. m
      /\ 1 .. m \subseteq 1 .. m + 1 /\ m + 1 \in 1 .. m + 1
  BY <1>1, <1>2 DEF Accs
<1>0. /\ \A a \in 1 .. m : \E j \in 1 .. i - 1 : q[j] = acc.candidates[a]
      /\ \A a \in 1 .. m : acc.candidates[a] \notin acc.kept
      /\ \A j \in 1 .. i - 1 : q[j] \in acc.kept \/ \E a \in 1 .. m : q[j] = acc.candidates[a]
      /\ \A a, b \in 1 .. m, j, k \in 1 .. i - 1 :
           q[j] = acc.candidates[a] /\ q[k] = acc.candidates[b] /\ a < b => j < k
      /\ Cardinality(acc.kept) + m = i - 1
  BY DEF Passed, OthersWait
<1> HIDE DEF m
<1>4. q[i] \notin acc.kept
  BY <1>1 DEF Passed, KeptFirst
<1>5. /\ Cardinality(acc.kept) \in Nat /\ SessionMax \in Nat
      /\ Cardinality(acc.kept) <= SessionMax
  BY FS_CardinalityType, SessionListAssumption DEF Passed, KeptFirst
<1>6. KeptFirst(q, i, acc.kept)
  <2>1. /\ IsFiniteSet(acc.kept)
        /\ \A s \in acc.kept : \E j \in 1 .. i : q[j] = s
    BY <1>1 DEF Passed, KeptFirst
  <2>2. \A j \in 1 .. i : q[j] \in acc.kept => First(q, j)
    BY <1>1, <1>4 DEF Passed, KeptFirst
  <2>3. ASSUME NEW j \in 1 .. i, First(q, j), q[j] \notin acc.kept
        PROVE  /\ Cardinality(acc.kept) = SessionMax
               /\ \A k \in 1 .. i : q[k] \in acc.kept => k < j
    <3>1. CASE j = i
      BY <3>1, <2>3, <1>1, <1>4, <1>5
    <3>2. CASE j \in 1 .. i - 1
      BY <3>2, <2>3, <1>1, <1>4 DEF Passed, KeptFirst
    <3> QED
      BY <3>1, <3>2, <1>1
  <2> QED
    BY <2>1, <2>2, <2>3, <1>5 DEF KeptFirst
<1>7. OthersWait(q, i, acc.kept, new.candidates)
  <2>1. ASSUME NEW a \in 1 .. m + 1
        PROVE  (\E j \in 1 .. i : q[j] = new.candidates[a]) /\ new.candidates[a] \notin acc.kept
    BY <2>1, <1>1, <1>3, <1>4, <1>0
  <2>2. ASSUME NEW j \in 1 .. i
        PROVE  q[j] \in acc.kept \/ \E a \in 1 .. m + 1 : q[j] = new.candidates[a]
    <3>1. CASE j = i
      BY <3>1, <1>3
    <3>2. CASE j \in 1 .. i - 1
      BY <3>2, <1>3, <1>0
    <3> QED
      BY <3>1, <3>2, <1>1
  <2>3. ASSUME NEW a \in 1 .. m + 1, NEW b \in 1 .. m + 1, NEW j \in 1 .. i, NEW k \in 1 .. i,
               q[j] = new.candidates[a], q[k] = new.candidates[b], a < b
        PROVE  j < k
    <3>1. a \in 1 .. m /\ q[j] = acc.candidates[a]
      BY <2>3, <1>1, <1>3
    <3>2. j \in 1 .. i - 1
      BY <3>1, <1>1, <1>0
    <3>3. CASE k = i
      BY <3>2, <3>3
    <3>4. CASE k \in 1 .. i - 1
      <4>1. b \in 1 .. m
        BY <2>3, <3>4, <1>1, <1>3
      <4>2. q[k] = acc.candidates[b]
        BY <2>3, <4>1, <1>3
      <4> QED
        BY <2>3, <3>1, <3>2, <3>4, <4>1, <4>2, <1>0
    <3> QED
      BY <3>3, <3>4, <1>1
  <2>4. Cardinality(acc.kept) + (m + 1) = i
    BY <1>1, <1>5, <1>0
  <2> QED
    <3>1. /\ \A a \in 1 .. m + 1 : \E j \in 1 .. i : q[j] = new.candidates[a]
          /\ \A a \in 1 .. m + 1 : new.candidates[a] \notin acc.kept
          /\ \A j \in 1 .. i : q[j] \in acc.kept \/ \E a \in 1 .. m + 1 : q[j] = new.candidates[a]
      BY <2>1, <2>2
    <3>2. \A a, b \in 1 .. m + 1, j, k \in 1 .. i :
            q[j] = new.candidates[a] /\ q[k] = new.candidates[b] /\ a < b => j < k
      BY <2>3
    <3>3. Len(new.candidates) = m + 1
      BY <1>3
    <3> QED
      BY <3>1, <3>2, <3>3, <2>4, Zenon DEF OthersWait
<1>8. SeenAll(q, i, new)
  <2> SUFFICES ASSUME Cardinality(acc.kept) < SessionMax
               PROVE  acc.seen = {device[q[j]] : j \in 1 .. i} \ {NoDevice}
    BY <1>2 DEF SeenAll
  <2>1. acc.seen = {device[q[j]] : j \in 1 .. i - 1} \ {NoDevice} /\ device[q[i]] \in acc.seen
    BY DEF Passed, SeenAll
  <2> QED
    BY <2>1, <1>1
<1> QED
  BY <1>2, <1>6, <1>7, <1>8 DEF Passed

\* A session that is kept is the first of its device.
LEMMA KeptPassed ==
  ASSUME NEW q \in Seq(Sessions), IsInjective(q), NEW i \in 1 .. Len(q),
         NEW acc, Passed(q, i - 1, acc),
         Cardinality(acc.kept) < SessionMax, device[q[i]] \notin acc.seen,
         NEW new, new = [acc EXCEPT !.kept = @ \cup {q[i]},
                                    !.seen = @ \cup ({device[q[i]]} \ {NoDevice})]
  PROVE  Passed(q, i, new)
<1> DEFINE kept == acc.kept \cup {q[i]}
<1>1. /\ acc \in Accs /\ q[i] \in Sessions /\ i \in Nat
      /\ \A j \in 1 .. i : q[j] \in Sessions /\ (j # i => q[j] # q[i])
      /\ \A j \in 1 .. i : j = i \/ j \in 1 .. i - 1
      /\ 1 .. i - 1 \subseteq 1 .. i /\ i \in 1 .. i
  BY DEF Passed, Accs, IsInjective
<1>2. /\ new \in Accs /\ new.kept = kept /\ new.candidates = acc.candidates
      /\ new.seen = acc.seen \cup ({device[q[i]]} \ {NoDevice})
  BY <1>1 DEF Accs
<1>3. q[i] \notin acc.kept
  BY <1>1 DEF Passed, KeptFirst
<1>4. /\ Cardinality(acc.kept) \in Nat /\ SessionMax \in Nat
      /\ IsFiniteSet(kept) /\ Cardinality(kept) = Cardinality(acc.kept) + 1
  BY <1>3, FS_CardinalityType, FS_AddElement, SessionListAssumption DEF Passed, KeptFirst
<1>5. acc.seen = {device[q[j]] : j \in 1 .. i - 1} \ {NoDevice}
  BY DEF Passed, SeenAll
<1>6. First(q, i)
  BY <1>5 DEF First
<1>7. KeptFirst(q, i, kept)
  <2>1. \A s \in kept : \E j \in 1 .. i : q[j] = s
    BY <1>1 DEF Passed, KeptFirst
  <2>2. \A j \in 1 .. i : q[j] \in kept => First(q, j)
    BY <1>1, <1>6 DEF Passed, KeptFirst
  <2>3. \A j \in 1 .. i : ~ (First(q, j) /\ q[j] \notin kept)
    <3>1. \A j \in 1 .. i - 1 : First(q, j) /\ q[j] \notin acc.kept =>
                                  Cardinality(acc.kept) = SessionMax
      BY DEF Passed, KeptFirst
    <3> QED
      BY <3>1, <1>1, <1>4
  <2> QED
    BY <2>1, <2>2, <2>3, <1>4 DEF KeptFirst
<1>8. OthersWait(q, i, kept, acc.candidates)
  <2> DEFINE m == Len(acc.candidates)
  <2>1. /\ m \in Nat
        /\ \A a \in 1 .. m : \E j \in 1 .. i - 1 : q[j] = acc.candidates[a]
        /\ \A a \in 1 .. m : acc.candidates[a] \notin acc.kept
        /\ \A j \in 1 .. i - 1 : q[j] \in acc.kept \/ \E a \in 1 .. m : q[j] = acc.candidates[a]
        /\ \A a, b \in 1 .. m, j, k \in 1 .. i - 1 :
             q[j] = acc.candidates[a] /\ q[k] = acc.candidates[b] /\ a < b => j < k
        /\ Cardinality(acc.kept) + m = i - 1
    <3>1. m \in Nat
      BY <1>1 DEF Accs
    <3> QED
      BY <3>1 DEF Passed, OthersWait
  <2> HIDE DEF m
  <2>2. \A a \in 1 .. m : acc.candidates[a] \notin kept
    BY <2>1, <1>1
  <2>3. \A j \in 1 .. i : q[j] \in kept \/ \E a \in 1 .. m : q[j] = acc.candidates[a]
    BY <2>1, <1>1
  <2>4. \A a, b \in 1 .. m, j, k \in 1 .. i :
          q[j] = acc.candidates[a] /\ q[k] = acc.candidates[b] /\ a < b => j < k
    <3>1. \A a \in 1 .. m : acc.candidates[a] # q[i]
      BY <2>1, <1>1
    <3>2. ASSUME NEW a \in 1 .. m, NEW b \in 1 .. m, NEW j \in 1 .. i, NEW k \in 1 .. i,
                 q[j] = acc.candidates[a], q[k] = acc.candidates[b], a < b
          PROVE  j < k
      <4>1. j \in 1 .. i - 1 /\ k \in 1 .. i - 1
        BY <3>1, <3>2, <1>1
      <4> QED
        BY <3>2, <4>1, <2>1
    <3> QED
      BY <3>2
  <2>5. Cardinality(kept) + m = i
    BY <2>1, <1>4, <1>1
  <2>6. \A a \in 1 .. m : \E j \in 1 .. i : q[j] = acc.candidates[a]
    BY <2>1, <1>1
  <2> QED
    BY <2>2, <2>3, <2>4, <2>5, <2>6, Zenon DEF OthersWait, m
<1>9. SeenAll(q, i, new)
  <2>1. acc.seen \cup ({device[q[i]]} \ {NoDevice}) = {device[q[j]] : j \in 1 .. i} \ {NoDevice}
    BY <1>5, <1>1
  <2> QED
    BY <2>1, <1>2 DEF SeenAll
<1> QED
  BY <1>2, <1>7, <1>8, <1>9 DEF Passed

\* After i sessions the pass has sorted them.
LEMMA PassSorts ==
  ASSUME NEW q \in Seq(Sessions), IsInjective(q)
  PROVE  \A i \in 0 .. Len(q) : Passed(q, i, Pass(q)[i])
<1>1. Passed(q, 0, Pass(q)[0])
  <2> DEFINE none == [kept |-> {}, seen |-> {}, candidates |-> <<>>]
  <2>1. Pass(q)[0] = none
    BY PassIs
  <2>2. none \in Accs /\ Len(none.candidates) = 0 /\ Cardinality(none.kept) = 0
    BY FS_EmptySet DEF Accs
  <2>3. KeptFirst(q, 0, none.kept)
    BY <2>2, FS_EmptySet, SessionListAssumption DEF KeptFirst
  <2>4. OthersWait(q, 0, none.kept, none.candidates)
    BY <2>2 DEF OthersWait
  <2>5. SeenAll(q, 0, none)
    BY DEF SeenAll
  <2> QED
    BY <2>1, <2>2, <2>3, <2>4, <2>5 DEF Passed
<1>2. ASSUME NEW i \in 1 .. Len(q), Passed(q, i - 1, Pass(q)[i - 1])
      PROVE  Passed(q, i, Pass(q)[i])
  <2> DEFINE acc == Pass(q)[i - 1]
  <2>1. Pass(q)[i] = Sort(acc, q[i])
    BY PassIs
  <2>2. /\ Cardinality(acc.kept) \in Nat /\ SessionMax \in Nat
        /\ Cardinality(acc.kept) <= SessionMax
    BY <1>2, FS_CardinalityType, SessionListAssumption DEF Passed, KeptFirst
  <2>3. Cardinality(acc.kept) < SessionMax =>
          acc.seen = {device[q[j]] : j \in 1 .. i - 1} \ {NoDevice}
    BY <1>2 DEF Passed, SeenAll
  <2> HIDE DEF acc
  <2>4. CASE device[q[i]] \in acc.seen \/ Cardinality(acc.kept) >= SessionMax
    <3>1. Cardinality(acc.kept) < SessionMax => ~First(q, i) /\ device[q[i]] \in acc.seen
      BY <2>2, <2>3, <2>4 DEF First
    <3> QED
      BY <1>2, <2>1, <2>4, <3>1, CandidatePassed DEF Sort, acc
  <2>5. CASE ~ (device[q[i]] \in acc.seen \/ Cardinality(acc.kept) >= SessionMax)
    <3>1. Cardinality(acc.kept) < SessionMax
      BY <2>2, <2>5
    <3> QED
      BY <1>2, <2>1, <2>5, <3>1, KeptPassed DEF Sort, acc
  <2> QED
    BY <2>4, <2>5
<1> DEFINE T == {i \in 0 .. Len(q) : ~ Passed(q, i, Pass(q)[i])}
           R == OpToRel(<, Nat)
<1> SUFFICES ASSUME T # {} PROVE FALSE
  OBVIOUS
<1>3. PICK i \in T : \A y \in T : ~ (<<y, i>> \in R)
  <2>1. T \subseteq Nat
    OBVIOUS
  <2>2. IsWellFoundedOn(R, Nat)
    BY NatLessThanWellFounded
  <2> HIDE DEF T, R
  <2> QED
    BY <2>1, <2>2, WFMin
<1>4. i \in 1 .. Len(q) /\ i - 1 \in 0 .. Len(q) /\ i - 1 < i
  <2>1. i \in 0 .. Len(q) /\ i # 0
    BY <1>1
  <2>2. Len(q) \in Nat
    OBVIOUS
  <2> QED
    BY <2>1, <2>2
<1>5. i - 1 \notin T
  <2>1. i \in Nat /\ i - 1 \in Nat
    BY <1>4
  <2>2. <<i - 1, i>> \in R
    BY <2>1, <1>4 DEF OpToRel
  <2> HIDE DEF T, R
  <2> QED
    BY <2>2, <1>3
<1> QED
  BY <1>2, <1>3, <1>4, <1>5

\* A sequence without repetition has as many elements as places.
LEMMA SizeOfInjective ==
  ASSUME NEW S, NEW q \in Seq(S), IsInjective(q)
  PROVE  IsFiniteSet(ToSet(q)) /\ Cardinality(ToSet(q)) = Len(q)
<1>1. /\ Len(q) \in Nat /\ DOMAIN q = 1 .. Len(q)
      /\ \A i \in 1 .. Len(q) : q[i] \in ToSet(q)
      /\ \A s \in ToSet(q) : \E i \in 1 .. Len(q) : q[i] = s
  BY DEF ToSet
<1>2. q \in [1 .. Len(q) -> ToSet(q)]
  BY <1>1
<1>3. q \in Surjection(1 .. Len(q), ToSet(q)) /\ q \in Injection(1 .. Len(q), ToSet(q))
  BY <1>1, <1>2 DEF IsInjective, Surjection, Injection
<1>4. IsFiniteSet(1 .. Len(q)) /\ Cardinality(1 .. Len(q)) = Len(q)
  BY <1>1, FS_Interval
<1> QED
  BY <1>3, <1>4, FS_Surjection

\* selectExcessSessions: of more sessions than the limit, exactly the limit stays, and the
\* sessions that stay are better than those that go.
THEOREM SelectKeepsBest ==
  ASSUME NEW q \in Seq(Sessions), IsInjective(q), SessionMax < Len(q)
  PROVE  LET stay == Stay(q, SelectExcess(q))
         IN /\ SelectExcess(q) \in Seq(Sessions)
            /\ ToSet(SelectExcess(q)) \subseteq ToSet(q)
            /\ Cardinality(stay) = SessionMax
            /\ \A i, j \in DOMAIN q : q[i] \in stay /\ q[j] \notin stay => Better(q, i, j)
<1> DEFINE n == Len(q)
           kept == Pass(q)[n].kept
           cand == Pass(q)[n].candidates
           m == Len(cand)
           c == Cardinality(kept)
           gone == SelectExcess(q)
           stay == Stay(q, gone)
<1>1. /\ n \in Nat /\ SessionMax \in Nat /\ DOMAIN q = 1 .. n /\ SessionMax < n
      /\ \A j \in 1 .. n : q[j] \in Sessions
      /\ \A j, k \in 1 .. n : q[j] = q[k] => j = k
  BY SessionListAssumption DEF IsInjective
<1>2. Passed(q, n, Pass(q)[n])
  BY <1>1, PassSorts
<1>3. /\ cand \in Seq(Sessions) /\ m \in Nat
      /\ IsFiniteSet(kept) /\ c \in Nat /\ c <= SessionMax
  BY <1>2, FS_CardinalityType DEF Passed, Accs, KeptFirst
<1>4. /\ \A j \in 1 .. n : q[j] \in kept => First(q, j)
      /\ \A j \in 1 .. n : First(q, j) /\ q[j] \notin kept =>
           c = SessionMax /\ \A k \in 1 .. n : q[k] \in kept => k < j
  BY <1>2 DEF Passed, KeptFirst
<1>5. /\ \A a \in 1 .. m : \E j \in 1 .. n : q[j] = cand[a]
      /\ \A a \in 1 .. m : cand[a] \notin kept
      /\ \A j \in 1 .. n : q[j] \in kept \/ \E a \in 1 .. m : q[j] = cand[a]
      /\ \A a, b \in 1 .. m, j, k \in 1 .. n :
           q[j] = cand[a] /\ q[k] = cand[b] /\ a < b => j < k
      /\ c + m = n
  BY <1>2 DEF Passed, OthersWait
<1>6. gone = SubSeq(cand, SessionMax - c + 1, m)
  <2>1. ~ (Len(q) <= SessionMax)
    BY <1>1
  <2> QED
    BY <2>1, Zenon DEF SelectExcess
<1> HIDE DEF n, kept, cand, m, c, gone
<1> DEFINE d == SessionMax - c
<1>7. d \in Nat /\ d < m
  BY <1>1, <1>3, <1>5
<1>8. /\ gone \in Seq(Sessions) /\ Len(gone) = m - d
      /\ \A e \in 1 .. m - d : gone[e] = cand[d + e]
  <2>1. d + 1 \in 1 .. m + 1
    BY <1>3, <1>7
  <2> QED
    BY <1>3, <1>6, <1>7, <2>1 DEF m
<1> HIDE DEF d
<1>9. \A a, b \in 1 .. m : cand[a] = cand[b] => a = b
  BY <1>5, <1>3
<1>10. IsInjective(gone)
  <2>1. DOMAIN gone = 1 .. m - d
    BY <1>8
  <2>2. ASSUME NEW e \in 1 .. m - d, NEW g \in 1 .. m - d, gone[e] = gone[g]
        PROVE  e = g
    <3>1. d + e \in 1 .. m /\ d + g \in 1 .. m
      BY <1>3, <1>7
    <3>2. d + e = d + g
      BY <1>8, <1>9, <2>2, <3>1
    <3> QED
      BY <3>2, <1>7
  <2> QED
    BY <2>1, <2>2 DEF IsInjective
<1>11. \A s : s \in ToSet(gone) <=> \E a \in 1 .. m : d < a /\ cand[a] = s
  <2>1. DOMAIN gone = 1 .. m - d
    BY <1>8
  <2>2. ASSUME NEW s, s \in ToSet(gone) PROVE \E a \in 1 .. m : d < a /\ cand[a] = s
    <3>1. PICK e \in 1 .. m - d : gone[e] = s
      BY <2>1, <2>2 DEF ToSet
    <3>2. d + e \in 1 .. m /\ d < d + e
      BY <1>3, <1>7
    <3> QED
      BY <1>8, <3>1, <3>2
  <2>3. ASSUME NEW a \in 1 .. m, d < a PROVE cand[a] \in ToSet(gone)
    <3>1. a - d \in 1 .. m - d /\ d + (a - d) = a
      BY <1>3, <1>7, <2>3
    <3>2. gone[a - d] = cand[a]
      BY <1>8, <3>1
    <3> QED
      BY <2>1, <3>1, <3>2 DEF ToSet
  <2> QED
    BY <2>2, <2>3
<1>12. ToSet(gone) \subseteq ToSet(q)
  <2>1. \A j \in 1 .. n : q[j] \in ToSet(q)
    BY <1>1 DEF ToSet
  <2> QED
    BY <2>1, <1>5, <1>11
<1>13. Cardinality(stay) = SessionMax
  <2>1. IsFiniteSet(ToSet(q)) /\ Cardinality(ToSet(q)) = n
    BY SizeOfInjective DEF n
  <2>2. Cardinality(ToSet(gone)) = m - d
    BY <1>8, <1>10, SizeOfInjective
  <2>3. ToSet(q) \cap ToSet(gone) = ToSet(gone)
    BY <1>12
  <2>4. Cardinality(ToSet(q) \ ToSet(gone))
          = Cardinality(ToSet(q)) - Cardinality(ToSet(q) \cap ToSet(gone))
    BY <2>1, FS_Difference
  <2>5. Cardinality(stay) = n - (m - d)
    BY <2>1, <2>2, <2>3, <2>4 DEF Stay
  <2> QED
    <3>1. d = SessionMax - c
      BY DEF d
    <3>2. c + m = n
      BY <1>5
    <3> QED
      BY <3>1, <3>2, <2>5, <1>1, <1>3
<1>14. ASSUME NEW i \in 1 .. n, NEW j \in 1 .. n, q[i] \in stay, q[j] \notin stay
       PROVE  Better(q, i, j)
  <2>1. q[i] \notin ToSet(gone) /\ q[j] \in ToSet(gone)
    BY <1>1, <1>14 DEF Stay, ToSet
  <2>2. PICK b \in 1 .. m : d < b /\ cand[b] = q[j]
    BY <2>1, <1>11
  <2>3. q[j] \notin kept
    BY <2>2, <1>5
  <2>4. CASE q[i] \in kept
    BY <2>3, <2>4, <1>4 DEF Better
  <2>5. CASE q[i] \notin kept
    <3>1. PICK a \in 1 .. m : q[i] = cand[a]
      BY <2>5, <1>5
    <3>2. a <= d
      BY <2>1, <3>1, <1>7, <1>11
    <3>3. i < j
      BY <2>2, <3>1, <3>2, <1>5, <1>7
    <3>4. c # SessionMax
      BY <3>2, <1>3, <1>1 DEF d
    <3>5. ~ First(q, i) /\ ~ First(q, j)
      BY <2>3, <2>5, <3>4, <1>4
    <3> QED
      BY <3>3, <3>5 DEF Better
  <2> QED
    BY <2>4, <2>5
<1> QED
  BY <1>1, <1>8, <1>12, <1>13, <1>14 DEF gone, n

----------------------------------------------------------------------------
(* The order of the rows *)

\* The rows have one order, and what is not a row is not in it.
InOrder ==
  /\ rows \subseteq Sessions
  /\ ahead \in [Sessions -> SUBSET rows]
  /\ \A s \in Sessions : s \notin rows => ahead[s] = {}
  /\ \A s \in rows : s \notin ahead[s]
  /\ \A s, t \in rows : s # t => s \in ahead[t] \/ t \in ahead[s]
  /\ \A s, t \in rows : s \in ahead[t] => ahead[s] \subseteq ahead[t]

\* The number of rows found before a row.
Rank(found, s) == Cardinality(ahead[s] \cap found)

\* A row has more of those found before it than one that is before it.
LEMMA RankOrders ==
  ASSUME InOrder, NEW found \in SUBSET rows, NEW s \in found, NEW t \in found
  PROVE  /\ IsFiniteSet(found)
         /\ Rank(found, s) \in 0 .. Cardinality(found) - 1
         /\ s \in ahead[t] => Rank(found, s) < Rank(found, t)
<1>1. /\ rows \subseteq Sessions /\ s \in rows /\ t \in rows
      /\ ahead[s] \in SUBSET rows /\ ahead[t] \in SUBSET rows
      /\ s \notin ahead[s] /\ t \notin ahead[t]
      /\ s \in ahead[t] => ahead[s] \subseteq ahead[t]
  BY DEF InOrder
<1>2. IsFiniteSet(found) /\ Cardinality(found) \in Nat
  BY <1>1, FS_Subset, FS_CardinalityType, SessionListAssumption
<1>3. ASSUME NEW x \in found
      PROVE  /\ IsFiniteSet(ahead[x] \cap found) /\ Rank(found, x) \in Nat
             /\ Rank(found, x) <= Cardinality(found)
             /\ Rank(found, x) = Cardinality(found) => ahead[x] \cap found = found
  <2>1. ahead[x] \cap found \in SUBSET found
    OBVIOUS
  <2> QED
    BY <2>1, <1>2, FS_Subset, FS_CardinalityType DEF Rank
<1>4. Rank(found, s) # Cardinality(found)
  <2>1. ahead[s] \cap found # found
    BY <1>1
  <2>2. Rank(found, s) = Cardinality(found) => ahead[s] \cap found = found
    BY <1>3
  <2> QED
    BY <2>1, <2>2
<1>5. Rank(found, s) \in 0 .. Cardinality(found) - 1
  <2>1. Rank(found, s) \in Nat /\ Rank(found, s) <= Cardinality(found)
    BY <1>3
  <2> HIDE DEF Rank
  <2> QED
    BY <2>1, <1>2, <1>4
<1>6. ASSUME s \in ahead[t] PROVE Rank(found, s) < Rank(found, t)
  <2>1. ahead[s] \cap found \in SUBSET (ahead[t] \cap found)
    BY <1>1, <1>6
  <2>2. ahead[s] \cap found # ahead[t] \cap found
    BY <1>1, <1>6
  <2>3. /\ Rank(found, s) <= Rank(found, t)
        /\ Rank(found, s) # Rank(found, t)
    <3>1. IsFiniteSet(ahead[t] \cap found)
      BY <1>3
    <3>2. /\ Cardinality(ahead[s] \cap found) <= Cardinality(ahead[t] \cap found)
          /\ Cardinality(ahead[t] \cap found) = Cardinality(ahead[s] \cap found) =>
               ahead[t] \cap found = ahead[s] \cap found
      BY <2>1, <3>1, FS_Subset
    <3>3. /\ Cardinality(ahead[s] \cap found) \in Nat
          /\ Cardinality(ahead[t] \cap found) \in Nat
      BY <1>3 DEF Rank
    <3> QED
      BY <2>2, <3>2, <3>3 DEF Rank
  <2>4. Rank(found, s) \in Nat /\ Rank(found, t) \in Nat
    BY <1>3
  <2> QED
    BY <2>3, <2>4
<1> QED
  BY <1>2, <1>5, <1>6

\* Every place of the answer has its row: the rows found have different ranks, all below
\* their number, so that every rank is taken.
LEMMA RankTaken ==
  ASSUME InOrder, NEW found \in SUBSET rows, NEW r \in 0 .. Cardinality(found) - 1
  PROVE  \E s \in found : Rank(found, s) = r
<1> DEFINE n == Cardinality(found)
           rank == [s \in found |-> Rank(found, s)]
<1>1. IsFiniteSet(found) /\ n \in Nat
  BY FS_Subset, FS_CardinalityType, SessionListAssumption DEF InOrder
<1>2. IsFiniteSet(0 .. n - 1) /\ Cardinality(0 .. n - 1) = n
  BY <1>1, FS_Interval
<1>3. rank \in [found -> 0 .. n - 1]
  BY RankOrders
<1>4. ASSUME NEW s \in found, NEW t \in found, rank[s] = rank[t] PROVE s = t
  <2> SUFFICES ASSUME s # t PROVE FALSE
    OBVIOUS
  <2>1. s \in ahead[t] \/ t \in ahead[s]
    BY DEF InOrder
  <2>2. Rank(found, s) \in Nat /\ Rank(found, t) \in Nat
    BY <1>1, RankOrders
  <2>3. Rank(found, s) < Rank(found, t) \/ Rank(found, t) < Rank(found, s)
    BY <2>1, RankOrders
  <2> QED
    BY <2>2, <2>3, <1>4
<1>5. rank \in Injection(found, 0 .. n - 1)
  BY <1>3, <1>4, Zenon DEF Injection, IsInjective
<1>6. rank \in Surjection(found, 0 .. n - 1)
  BY <1>1, <1>2, <1>5, FS_Injection
<1> QED
  BY <1>6 DEF Surjection

\* FetchOrderedListByUserIDAndSessionIDs: rows that were asked for, each once, no more than
\* the limit, in the order of the table, and none only if there is none.  A row is left out
\* only by a limit that the answer fills, and then all those of the answer are before it.
THEOREM OrderedIs ==
  ASSUME InOrder, NEW S, NEW n \in Nat
  PROVE  LET q == Ordered(S, n)
         IN /\ q \in Seq(Sessions) /\ IsInjective(q)
            /\ ToSet(q) \subseteq rows \cap S
            /\ n # 0 => Len(q) <= n
            /\ q = <<>> => rows \cap S = {}
            /\ \A i, j \in DOMAIN q : i < j => q[i] \in ahead[q[j]]
            /\ \A s \in (rows \cap S) \ ToSet(q) :
                 n # 0 /\ Len(q) = n /\ ToSet(q) \subseteq ahead[s]
<1> DEFINE found == rows \cap S
           count == Cardinality(found)
           k == IF n \in 1 .. count THEN n ELSE count
           q == Ordered(S, n)
<1>1. IsFiniteSet(found) /\ count \in Nat /\ found \in SUBSET rows /\ found \in SUBSET Sessions
  BY FS_Subset, FS_CardinalityType, SessionListAssumption DEF InOrder
<1>2. q = [i \in 1 .. k |-> CHOOSE s \in found : Rank(found, s) = i - 1]
  BY DEF Ordered, Rank
<1>3. k \in Nat /\ k <= count /\ (n # 0 => k <= n) /\ (k = 0 => count = 0)
  BY <1>1
<1>10. DOMAIN q = 1 .. k /\ \A i \in 1 .. k : q[i] = CHOOSE s \in found : Rank(found, s) = i - 1
  BY <1>2, Zenon
<1> HIDE DEF k, q, found, count
<1>4. ASSUME NEW i \in 1 .. k
      PROVE  q[i] \in found /\ Rank(found, q[i]) = i - 1
  <2>1. i - 1 \in 0 .. count - 1
    BY <1>1, <1>3
  <2>2. \E s \in found : Rank(found, s) = i - 1
    BY <2>1, <1>1, RankTaken DEF count
  <2>3. q[i] = CHOOSE s \in found : Rank(found, s) = i - 1
    BY <1>10
  <2>4. \A x : (\E s \in found : Rank(found, s) = x) =>
             /\ (CHOOSE s \in found : Rank(found, s) = x) \in found
             /\ Rank(found, CHOOSE s \in found : Rank(found, s) = x) = x
    BY Zenon
  <2> QED
    BY <2>2, <2>3, <2>4, Zenon
<1>5. q \in Seq(Sessions) /\ Len(q) = k /\ DOMAIN q = 1 .. k
  <2>1. q \in [1 .. k -> Sessions]
    BY <1>1, <1>2, <1>4
  <2> QED
    BY <2>1, <1>3
<1>6. IsInjective(q)
  <2>1. ASSUME NEW i \in 1 .. k, NEW j \in 1 .. k, q[i] = q[j] PROVE i = j
    <3>1. i - 1 = j - 1
      BY <1>4, <2>1
    <3> QED
      BY <3>1
  <2> QED
    BY <2>1, <1>5 DEF IsInjective
<1>7. ToSet(q) \subseteq found
  BY <1>4, <1>5 DEF ToSet
<1>8. q = <<>> => found = {}
  <2>1. q = <<>> => k = 0
    BY <1>5
  <2> QED
    BY <2>1, <1>1, <1>3, FS_EmptySet DEF count
<1>9. ASSUME NEW i \in 1 .. k, NEW j \in 1 .. k, i < j PROVE q[i] \in ahead[q[j]]
  <2> SUFFICES ASSUME q[i] \notin ahead[q[j]] PROVE FALSE
    OBVIOUS
  <2>1. q[i] \in found /\ q[j] \in found /\ q[i] # q[j]
    BY <1>4, <1>5, <1>6, <1>9 DEF IsInjective
  <2>2. q[j] \in ahead[q[i]]
    BY <2>1, <1>1 DEF InOrder
  <2>3. j - 1 < i - 1
    BY <2>1, <2>2, <1>1, <1>4, RankOrders
  <2> QED
    BY <2>3, <1>9
<1>11. ASSUME NEW s \in found \ ToSet(q)
       PROVE  n # 0 /\ k = n /\ ToSet(q) \subseteq ahead[s]
  <2> DEFINE r == Rank(found, s)
  <2>1. r \in 0 .. count - 1
    BY <1>1, RankOrders DEF count
  <2>2. k <= r
    <3> SUFFICES ASSUME r < k PROVE FALSE
      BY <1>3, <2>1
    <3>1. r + 1 \in 1 .. k
      BY <1>3, <2>1
    <3>2. q[r + 1] \in found /\ Rank(found, q[r + 1]) = r /\ q[r + 1] \in ToSet(q)
      BY <1>4, <1>5, <2>1, <3>1 DEF ToSet
    <3>3. s \in ahead[q[r + 1]] \/ q[r + 1] \in ahead[s]
      BY <1>1, <3>2 DEF InOrder
    <3>4. r < r
      BY <1>1, <3>2, <3>3, RankOrders
    <3> QED
      BY <2>1, <3>4
  <2>3. k < count
    BY <1>1, <1>3, <2>1, <2>2
  <2>4. n # 0 /\ k = n
    BY <1>1, <2>3 DEF k
  <2>5. ASSUME NEW i \in 1 .. k PROVE q[i] \in ahead[s]
    <3> SUFFICES ASSUME q[i] \notin ahead[s] PROVE FALSE
      OBVIOUS
    <3>1. q[i] \in found /\ Rank(found, q[i]) = i - 1 /\ q[i] # s
      BY <1>4, <1>5 DEF ToSet
    <3>2. s \in ahead[q[i]]
      BY <1>1, <3>1 DEF InOrder
    <3>3. r < i - 1
      BY <1>1, <3>1, <3>2, RankOrders
    <3> QED
      BY <1>3, <2>1, <2>2, <3>3
  <2> QED
    BY <1>5, <2>4, <2>5 DEF ToSet
<1> QED
  BY <1>3, <1>5, <1>6, <1>7, <1>8, <1>9, <1>11 DEF q, found

\* SessionExcessTrimmer.trimUser, from the two reads to the choice: of the sessions that were
\* open and have rows, it takes exactly a set of which Session.TrimChoose may take any, and
\* none of them only where TrimChoose takes none.
THEOREM TrimmerChoosesExcess ==
  ASSUME InOrder, NEW ids
  PROVE  LET gone == SelectExcess(Ordered(ids, 0))
         IN /\ ToSet(gone) \in ExcessOf(rows \cap ids)
            /\ gone = <<>> <=> ToSet(gone) = {}
<1> DEFINE q == Ordered(ids, 0)
           gone == SelectExcess(q)
<1>1. q \in Seq(Sessions) /\ IsInjective(q) /\ ToSet(q) = rows \cap ids
  BY OrderedIs
<1>2. IsFiniteSet(ToSet(q)) /\ Cardinality(ToSet(q)) = Len(q)
  BY <1>1, SizeOfInjective
<1> HIDE DEF q
<1>3. SessionMax \in Nat /\ Len(q) \in Nat
  BY <1>1, SessionListAssumption
<1>4. CASE Len(q) <= SessionMax
  <2>1. gone = <<>>
    BY <1>4, Zenon DEF SelectExcess
  <2>2. ToSet(<<>>) = {}
    BY DEF ToSet
  <2>3. ExcessOf(ToSet(q)) = {{}}
    BY <1>2, <1>4 DEF ExcessOf
  <2> QED
    BY <1>1, <2>1, <2>2, <2>3 DEF q
<1>5. CASE SessionMax < Len(q)
  <2>1. /\ gone \in Seq(Sessions)
        /\ ToSet(gone) \subseteq ToSet(q)
        /\ Cardinality(ToSet(q) \ ToSet(gone)) = SessionMax
    BY <1>1, <1>5, SelectKeepsBest DEF Stay
  <2> HIDE DEF gone
  <2>2. IsFiniteSet(ToSet(gone)) /\ Cardinality(ToSet(gone)) \in Nat
    BY <1>2, <2>1, FS_Subset, FS_CardinalityType
  <2>3. Cardinality(ToSet(q) \ ToSet(gone))
          = Cardinality(ToSet(q)) - Cardinality(ToSet(q) \cap ToSet(gone))
    BY <1>2, FS_Difference
  <2>4. ToSet(q) \cap ToSet(gone) = ToSet(gone)
    BY <2>1
  <2>5. Cardinality(ToSet(gone)) = Cardinality(ToSet(q)) - SessionMax
    <3>1. Cardinality(ToSet(q) \ ToSet(gone))
            = Cardinality(ToSet(q)) - Cardinality(ToSet(gone))
      BY <2>3, <2>4, Zenon
    <3>2. SessionMax = Len(q) - Cardinality(ToSet(gone))
      BY <1>2, <2>1, <3>1, Zenon
    <3>3. Cardinality(ToSet(gone)) = Len(q) - SessionMax
      BY <1>3, <2>2, <3>2
    <3> QED
      BY <1>2, <3>3
  <2>6. ~ (Cardinality(ToSet(q)) <= SessionMax)
    BY <1>2, <1>3, <1>5
  <2>7. ToSet(gone) \in ExcessOf(ToSet(q))
    BY <2>1, <2>5, <2>6, Zenon DEF ExcessOf
  <2>8. gone = <<>> <=> ToSet(gone) = {}
    BY <2>1 DEF ToSet
  <2> QED
    BY <1>1, <2>7, <2>8 DEF q, gone
<1> QED
  BY <1>3, <1>4, <1>5

----------------------------------------------------------------------------
(* The inductive invariant *)

\* A session that has a row was opened with a device.
TablesOK ==
  /\ InOrder
  /\ rows \subseteq DOMAIN device
  /\ open \subseteq Sessions

Currents == Sessions \cup {NoSession}
Lists ==
  {NoList} \cup [step : {"begun"}, current : Currents]
           \cup [step : {"open"}, current : Currents, ids : SUBSET Sessions]
           \cup [step : {"missing", "done"}, current : Currents, ids : SUBSET Sessions,
                 shown : Seq(Sessions)]

\* The current session has its place to take, or its row is gone and never comes back.
ShownOK ==
  /\ list \in Lists
  /\ list # NoList /\ list.current # NoSession => list.current \in DOMAIN device
  /\ list.step \in {"open", "missing", "done"} => list.current \in list.ids \cup {NoSession}
  /\ list.step \in {"missing", "done"} =>
       /\ IsInjective(list.shown) /\ Len(list.shown) <= SessionMax
       /\ ToSet(list.shown) \subseteq list.ids
  /\ list.step = "missing" =>
       Missing(list.shown) /\ (list.shown = <<>> => list.current \notin rows)
  /\ list.step = "done" => ~ Missing(list.shown)

\* The devices of the sessions the trimmer has read do not change.
TrimOK ==
  /\ trim \in {NoTrim} \cup [step : {"open"}, ids : SUBSET Sessions]
                       \cup [step : {"chosen"}, read : Seq(Sessions), excess : Seq(Sessions)]
  /\ trim.step = "chosen" => ToSet(trim.read) \subseteq DOMAIN device
  /\ TrimKeepsBest

ListInv == TablesOK /\ ShownOK /\ TrimOK

----------------------------------------------------------------------------
(* The steps of the tables *)

\* Numbering the rows puts them in order.
LEMMA ListInitOrder == ListInit => InOrder
<1> SUFFICES ASSUME ListInit PROVE InOrder
  OBVIOUS
<1>1. rows \subseteq Sessions
  BY DEF ListInit
<1>2. PICK place \in Injection(rows, 1 .. Cardinality(rows)) :
        ahead = [s \in Sessions |-> {t \in rows : s \in rows /\ place[t] < place[s]}]
  BY DEF ListInit
<1>3. \A s \in rows : place[s] \in Nat
  <2>1. Cardinality(rows) \in Nat
    BY <1>1, FS_Subset, FS_CardinalityType, RequestsAssumption
  <2>2. place \in [rows -> 1 .. Cardinality(rows)]
    BY <1>2, Zenon DEF Injection
  <2> QED
    BY <2>1, <2>2
<1>4. \A s, t \in rows : s # t => place[s] # place[t]
  BY <1>2, <1>3 DEF Injection, IsInjective
<1>5. ahead \in [Sessions -> SUBSET rows]
  BY <1>2
<1>6. \A s \in Sessions : s \notin rows => ahead[s] = {}
  BY <1>2
<1>7. \A s, t \in rows : s \in ahead[t] <=> place[s] < place[t]
  BY <1>1, <1>2
<1>8. \A s, t \in rows : place[s] < place[t] \/ place[t] < place[s] \/ place[s] = place[t]
  BY <1>3
<1>9. \A s, t, u \in rows : place[u] < place[s] /\ place[s] < place[t] => place[u] < place[t]
  BY <1>3
<1>10. \A s \in rows : ~ (place[s] < place[s])
  BY <1>3
<1>11. \A s, t \in rows : s \in ahead[t] => ahead[s] \subseteq ahead[t]
  BY <1>1, <1>5, <1>7, <1>9
<1> QED
  BY <1>1, <1>4, <1>5, <1>6, <1>7, <1>8, <1>10, <1>11 DEF InOrder

\* A row that is put behind a front, from wherever it was behind that front, leaves one order.
LEMMA PlaceKeeps ==
  ASSUME InOrder, NEW s \in Sessions, NEW front \in Fronts(rows), s \notin front,
         s \in rows => front \subseteq ahead[s], Place(s, front)
  PROVE  InOrder'
<1>1. /\ rows \subseteq Sessions
      /\ ahead \in [Sessions -> SUBSET rows]
      /\ \A t \in Sessions : t \notin rows => ahead[t] = {}
      /\ \A t \in rows : t \notin ahead[t]
      /\ \A t, u \in rows : t # u => t \in ahead[u] \/ u \in ahead[t]
      /\ \A t, u \in rows : t \in ahead[u] => ahead[t] \subseteq ahead[u]
  BY DEF InOrder
<1>2. front \subseteq rows /\ \A t \in front : ahead[t] \subseteq front
  BY DEF Fronts
<1>3. rows' = rows \cup {s} /\ rows' \subseteq Sessions
  BY <1>1 DEF Place
<1>4. /\ ahead'[s] = front
      /\ \A t \in Sessions : t # s /\ t \in rows /\ t \notin front => ahead'[t] = ahead[t] \cup {s}
      /\ \A t \in Sessions : t # s /\ t \in front => ahead'[t] = ahead[t]
      /\ \A t \in Sessions : t # s /\ t \notin rows => ahead'[t] = ahead[t]
  BY <1>2 DEF Place
<1>5. ahead' \in [Sessions -> SUBSET rows']
  <2>1. DOMAIN ahead' = Sessions /\ ahead' = [t \in Sessions |-> ahead'[t]]
    BY DEF Place
  <2>2. \A t \in Sessions : ahead'[t] \in SUBSET rows'
    BY <1>1, <1>2, <1>3, <1>4
  <2> QED
    BY <2>1, <2>2
<1>6. \A t \in Sessions : t \notin rows' => ahead'[t] = {}
  BY <1>1, <1>3, <1>4
<1>7. \A t \in rows' : t \notin ahead'[t]
  BY <1>1, <1>2, <1>3, <1>4
<1>8. \A t \in front : s \notin ahead[t]
  BY <1>1, <1>2
<1>9. \A t \in rows : t \notin front => front \subseteq ahead[t]
  BY <1>1, <1>2
<1>10. \A t, u \in rows' : t # u => t \in ahead'[u] \/ u \in ahead'[t]
  BY <1>1, <1>2, <1>3, <1>4
<1>11. ASSUME NEW t \in rows', NEW u \in rows', t \in ahead'[u] PROVE ahead'[t] \subseteq ahead'[u]
  <2>1. CASE u = s
    BY <2>1, <1>1, <1>2, <1>3, <1>4, <1>11
  <2>2. CASE u # s /\ u \in front
    BY <2>2, <1>1, <1>2, <1>3, <1>4, <1>8, <1>11
  <2>3. CASE u # s /\ u \notin front /\ t = s
    BY <2>3, <1>1, <1>3, <1>4, <1>9
  <2>4. CASE u # s /\ u \notin front /\ t # s
    <3>1. t \in rows /\ u \in rows /\ t \in ahead[u]
      BY <2>4, <1>3, <1>4, <1>1, <1>11
    <3>2. ahead'[t] \subseteq ahead[t] \cup {s} /\ ahead'[u] = ahead[u] \cup {s}
      BY <2>4, <3>1, <1>1, <1>4
    <3> QED
      BY <3>1, <3>2, <1>1
  <2> QED
    BY <2>1, <2>2, <2>3, <2>4
<1> QED
  BY <1>3, <1>5, <1>6, <1>7, <1>10, <1>11 DEF InOrder

\* Deleting rows leaves the order of the others.
LEMMA DeleteKeeps ==
  ASSUME InOrder, NEW S, DeleteRows(S)
  PROVE  InOrder'
<1>1. /\ rows \subseteq Sessions
      /\ ahead \in [Sessions -> SUBSET rows]
      /\ \A t \in Sessions : t \notin rows => ahead[t] = {}
      /\ \A t \in rows : t \notin ahead[t]
      /\ \A t, u \in rows : t # u => t \in ahead[u] \/ u \in ahead[t]
      /\ \A t, u \in rows : t \in ahead[u] => ahead[t] \subseteq ahead[u]
  BY DEF InOrder
<1>2. rows' = rows \ S /\ ahead' = [t \in Sessions |-> IF t \in S THEN {} ELSE ahead[t] \ S]
  BY DEF DeleteRows
<1>3. \A t \in rows' : t \in rows /\ t \in Sessions /\ t \notin S /\ ahead'[t] = ahead[t] \ S
  BY <1>1, <1>2
<1>4. rows' \subseteq Sessions /\ ahead' \in [Sessions -> SUBSET rows']
  BY <1>1, <1>2
<1>5. \A t \in Sessions : t \notin rows' => ahead'[t] = {}
  BY <1>1, <1>2
<1>6. \A t, u \in rows' : t # u => t \in ahead'[u] \/ u \in ahead'[t]
  BY <1>1, <1>3
<1>7. \A t, u \in rows' : t \in ahead'[u] => ahead'[t] \subseteq ahead'[u]
  BY <1>1, <1>3
<1>8. \A t \in rows' : t \notin ahead'[t]
  BY <1>1, <1>3
<1> QED
  BY <1>4, <1>5, <1>6, <1>7, <1>8 DEF InOrder

\* What a step leaves of a session that was opened before: its device, and no new row.
KeepsOpened ==
  \A s \in Sessions : s \in DOMAIN device =>
    s \in DOMAIN device' /\ device'[s] = device[s] /\ (s \notin rows => s \notin rows')

\* Every step leaves the listTables in order.
LEMMA TablesNext ==
  ASSUME TablesOK, [ListNext]_listVars
  PROVE  TablesOK' /\ KeepsOpened
<1>1. ASSUME NEW s \in Sessions, NEW d \in Devices \cup {NoDevice}, OpenSession(s, d)
      PROVE  TablesOK' /\ KeepsOpened
  <2>1. PICK front \in Fronts(rows) : Place(s, front)
    BY <1>1 DEF OpenSession
  <2>2. s \notin rows /\ s \notin front
    BY <1>1 DEF OpenSession, TablesOK, Fronts
  <2>3. InOrder'
    BY <2>1, <2>2, PlaceKeeps DEF TablesOK
  <2>4. /\ rows' = rows \cup {s} /\ open' = open \cup {s} /\ s \notin DOMAIN device
        /\ DOMAIN device' = DOMAIN device \cup {s}
        /\ \A t \in DOMAIN device : device'[t] = device[t]
    BY <1>1, <2>1 DEF OpenSession, Place
  <2>5. rows' \subseteq DOMAIN device' /\ open' \subseteq Sessions
    BY <2>4 DEF TablesOK, InOrder
  <2> QED
    BY <2>3, <2>4, <2>5 DEF TablesOK, KeepsOpened
<1>2. ASSUME NEW s \in Sessions, Visit(s) PROVE TablesOK' /\ KeepsOpened
  <2>1. PICK front \in Fronts(ahead[s]) \ {ahead[s]} : Place(s, front)
    BY <1>2 DEF Visit
  <2>2. s \in rows /\ front \in Fronts(rows) /\ s \notin front /\ front \subseteq ahead[s]
    BY <1>2 DEF Visit, Fronts, TablesOK, InOrder
  <2>3. InOrder'
    BY <2>1, <2>2, PlaceKeeps DEF TablesOK
  <2>4. rows' = rows /\ device' = device /\ open' = open
    BY <1>2, <2>1, <2>2 DEF Visit, Place
  <2> QED
    BY <2>3, <2>4 DEF TablesOK, KeepsOpened
<1>3. ASSUME NEW s \in Sessions, Close(s) PROVE TablesOK' /\ KeepsOpened
  BY <1>3 DEF Close, TablesOK, InOrder, KeepsOpened
<1>4. ASSUME NEW S, DeleteRows(S), device' = device, open' \subseteq open
      PROVE  TablesOK' /\ KeepsOpened
  <2>1. InOrder'
    BY <1>4, DeleteKeeps DEF TablesOK
  <2>2. rows' \subseteq rows
    BY <1>4 DEF DeleteRows
  <2> QED
    BY <1>4, <2>1, <2>2 DEF TablesOK, KeepsOpened
<1>5. ASSUME NEW s \in Sessions, DeleteOrphaned(s) PROVE TablesOK' /\ KeepsOpened
  BY <1>4, <1>5 DEF DeleteOrphaned
<1>6. ASSUME TrimRevoke PROVE TablesOK' /\ KeepsOpened
  BY <1>4, <1>6 DEF TrimRevoke
<1>7. ASSUME UNCHANGED listTables PROVE TablesOK' /\ KeepsOpened
  BY <1>7 DEF listTables, TablesOK, InOrder, KeepsOpened
<1>8. /\ \A s : GetList(s) => UNCHANGED listTables
      /\ ListOpen \/ ListRows \/ ListCurrent \/ ListSent => UNCHANGED listTables
      /\ TrimOpen \/ TrimRows \/ TrimFails => UNCHANGED listTables
      /\ UNCHANGED listVars => UNCHANGED listTables
  BY DEF GetList, ListOpen, ListRows, ListCurrent, ListSent, TrimOpen, TrimRows, TrimFails, listVars
<1> QED
  BY <1>1, <1>2, <1>3, <1>5, <1>6, <1>7, <1>8 DEF ListNext

----------------------------------------------------------------------------
(* The list *)

\* While the listTables change, a list under way keeps what it has read.
LEMMA ShownStays ==
  ASSUME TablesOK, ShownOK, KeepsOpened, UNCHANGED list
  PROVE  ShownOK'
<1>1. list # NoList => list.current \in Currents
  BY DEF ShownOK, Lists
<1>2. list # NoList /\ list.current # NoSession => list.current \in DOMAIN device'
  BY <1>1 DEF ShownOK, KeepsOpened, Currents
<1>3. list.step = "missing" => list # NoList /\ list.current # NoSession
  BY DEF ShownOK, NoList, Missing
<1>4. list.step = "missing" =>
        Missing(list.shown) /\ (list.shown = <<>> => list.current \notin rows')
  BY <1>1, <1>3 DEF ShownOK, KeepsOpened, Currents
<1> QED
  BY <1>2, <1>4 DEF ShownOK, Missing

\* The fields of a list under way.
LEMMA ShownFields ==
  ASSUME ShownOK
  PROVE  /\ NoList.step = "idle"
         /\ list # NoList => list.current \in Currents
         /\ list.step \in {"begun", "open", "missing", "done"} => list # NoList
         /\ list.step \in {"open", "missing", "done"} => list.ids \in SUBSET Sessions
         /\ list.step \in {"missing", "done"} =>
              /\ list.shown \in Seq(Sessions)
              /\ list = [step |-> list.step, current |-> list.current, ids |-> list.ids,
                         shown |-> list.shown]
BY DEF ShownOK, Lists, NoList

\* The places of a sequence and what is there.
LEMMA Places ==
  ASSUME NEW S, NEW q \in Seq(S)
  PROVE  Len(q) \in Nat /\ DOMAIN q = 1 .. Len(q) /\ \A i \in 1 .. Len(q) : q[i] \in S
OBVIOUS

\* A sequence that is not empty has a last place.
LEMMA LastPlace ==
  ASSUME NEW S, NEW q \in Seq(S), q # <<>>
  PROVE  Len(q) # 0
OBVIOUS

\* The current session takes the place of the last one: the list has the same length, and
\* nothing twice.
LEMMA ReplacedLast ==
  ASSUME NEW q \in Seq(Sessions), IsInjective(q), Len(q) # 0,
         NEW s \in Sessions, s \notin ToSet(q)
  PROVE  /\ ReplaceLast(q, s) \in Seq(Sessions) /\ IsInjective(ReplaceLast(q, s))
         /\ Len(ReplaceLast(q, s)) = Len(q)
         /\ ToSet(ReplaceLast(q, s)) \subseteq ToSet(q) \cup {s}
         /\ s \in ToSet(ReplaceLast(q, s))
<1> DEFINE n == Len(q)
           r == ReplaceLast(q, s)
<1>1. /\ n \in Nat /\ n # 0 /\ DOMAIN q = 1 .. n /\ n \in 1 .. n
      /\ \A i \in 1 .. n : q[i] \in Sessions
  <2>1. n \in Nat /\ DOMAIN q = 1 .. n /\ \A i \in 1 .. n : q[i] \in Sessions
    BY Places
  <2>2. n # 0
    OBVIOUS
  <2> HIDE DEF n
  <2> QED
    BY <2>1, <2>2
<1>2. DOMAIN r = 1 .. n /\ r[n] = s /\ \A i \in 1 .. n : i # n => r[i] = q[i]
  BY <1>1 DEF ReplaceLast
<1>3. \A i \in 1 .. n : q[i] # s /\ q[i] \in ToSet(q)
  BY <1>1 DEF ToSet
<1>4. r \in Seq(Sessions) /\ Len(r) = n
  BY DEF ReplaceLast
<1> HIDE DEF n, r
<1>5. IsInjective(r)
  <2>1. \A i, j \in 1 .. n : q[i] = q[j] => i = j
    BY <1>1 DEF IsInjective
  <2> QED
    BY <2>1, <1>2, <1>3 DEF IsInjective
<1>6. ToSet(r) \subseteq ToSet(q) \cup {s} /\ s \in ToSet(r)
  BY <1>1, <1>2, <1>3 DEF ToSet
<1> QED
  BY <1>4, <1>5, <1>6 DEF r, n

\* Every step keeps what is known of the list.
LEMMA ShownNext ==
  ASSUME TablesOK, ShownOK, [ListNext]_listVars
  PROVE  ShownOK'
<1>1. ASSUME UNCHANGED list PROVE ShownOK'
  BY <1>1, TablesNext, ShownStays
<1>2. ASSUME NEW s \in Sessions \cup {NoSession}, GetList(s) PROVE ShownOK'
  <2>1. /\ list' = [step |-> "begun", current |-> s]
        /\ s # NoSession => s \in DOMAIN device'
    BY <1>2 DEF GetList, listTables
  <2>2. list' \in Lists
    BY <2>1 DEF Lists, Currents
  <2> QED
    BY <2>1, <2>2 DEF ShownOK
<1>3. ASSUME ListOpen PROVE ShownOK'
  <2>1. CASE list' = NoList
    BY <2>1, ShownFields DEF ShownOK, Lists
  <2>2. CASE list' # NoList
    <3>1. /\ list' = [step |-> "open", current |-> list.current, ids |-> open]
          /\ list.current \in open \cup {NoSession} /\ list.step = "begun"
          /\ device' = device
      BY <1>3, <2>2 DEF ListOpen, listTables
    <3>2. list # NoList /\ list.current \in Currents
      BY <3>1, ShownFields
    <3>3. list' \in Lists
      BY <3>1, <3>2 DEF Lists, TablesOK
    <3> QED
      BY <3>1, <3>2, <3>3 DEF ShownOK
  <2> QED
    BY <2>1, <2>2
<1>4. ASSUME ListRows PROVE ShownOK'
  <2> DEFINE shown == Ordered(list.ids, SessionMax)
             step == IF Missing(shown) THEN "missing" ELSE "done"
  <2>1. /\ list.step = "open" /\ device' = device /\ rows' = rows
        /\ list' = [step |-> step, current |-> list.current, ids |-> list.ids, shown |-> shown]
    BY <1>4 DEF ListRows, listTables
  <2>2. /\ shown \in Seq(Sessions) /\ IsInjective(shown)
        /\ ToSet(shown) \subseteq rows \cap list.ids
        /\ Len(shown) <= SessionMax
        /\ shown = <<>> => rows \cap list.ids = {}
    BY OrderedIs, SessionListAssumption DEF TablesOK
  <2> HIDE DEF shown
  <2>3. /\ list # NoList /\ list.current \in Currents /\ list.ids \in SUBSET Sessions
        /\ list.current # NoSession => list.current \in DOMAIN device
        /\ list.current \in list.ids \cup {NoSession}
    BY <2>1, ShownFields DEF ShownOK
  <2>4. Missing(shown) <=> list.current # NoSession /\ list.current \notin ToSet(shown)
    BY DEF Missing
  <2>5. list' \in Lists
    BY <2>1, <2>2, <2>3 DEF Lists
  <2>6. CASE Missing(shown)
    BY <2>1, <2>2, <2>3, <2>4, <2>5, <2>6 DEF ShownOK, Missing
  <2>7. CASE ~ Missing(shown)
    BY <2>1, <2>2, <2>3, <2>4, <2>5, <2>7 DEF ShownOK, Missing
  <2> QED
    BY <2>6, <2>7
<1>5. ASSUME ListCurrent PROVE ShownOK'
  <2>1. /\ list.step = "missing" /\ list # NoList /\ list.current \in Currents
        /\ list.ids \in SUBSET Sessions /\ list.shown \in Seq(Sessions)
        /\ list = [step |-> list.step, current |-> list.current, ids |-> list.ids,
                   shown |-> list.shown]
        /\ device' = device
    BY <1>5, ShownFields DEF ListCurrent, listTables
  <2>2. /\ list.current \in DOMAIN device /\ list.current \in list.ids
        /\ list.current # NoSession /\ list.current \notin ToSet(list.shown)
        /\ IsInjective(list.shown) /\ Len(list.shown) <= SessionMax
        /\ ToSet(list.shown) \subseteq list.ids
        /\ list.shown = <<>> => list.current \notin rows
    BY <2>1 DEF ShownOK, Missing
  <2>3. CASE Ordered({list.current}, 0) = <<>>
    BY <1>5, <2>3, ShownFields DEF ListCurrent, ShownOK, Lists
  <2>4. CASE Ordered({list.current}, 0) # <<>>
    <3>1. list.current \in rows
      <4>1. Ordered({list.current}, 0) \in Seq(Sessions)
            /\ ToSet(Ordered({list.current}, 0)) \subseteq rows \cap {list.current}
        BY OrderedIs DEF TablesOK
      <4>2. \E s : s \in ToSet(Ordered({list.current}, 0))
        <5>1. \A q \in Seq(Sessions) : q # <<>> => q[1] \in ToSet(q)
          BY DEF ToSet
        <5> QED
          BY <2>4, <4>1, <5>1
      <4> QED
        BY <4>1, <4>2
    <3> DEFINE shown == ReplaceLast(list.shown, list.current)
    <3>2. list' = [list EXCEPT !.step = "done", !.shown = shown]
      BY <1>5, <2>2, <2>4, <3>1 DEF ListCurrent
    <3>3. /\ shown \in Seq(Sessions) /\ IsInjective(shown) /\ Len(shown) <= SessionMax
          /\ ToSet(shown) \subseteq list.ids /\ list.current \in ToSet(shown)
      <4>1. Len(list.shown) # 0
        BY <2>1, <2>2, <3>1, LastPlace
      <4> QED
        BY <2>1, <2>2, <4>1, ReplacedLast DEF Currents
    <3> HIDE DEF shown
    <3>4. list' = [step |-> "done", current |-> list.current, ids |-> list.ids, shown |-> shown]
      BY <2>1, <3>2
    <3>5. list' \in Lists
      BY <2>1, <3>3, <3>4 DEF Lists
    <3> QED
      BY <2>1, <2>2, <3>3, <3>4, <3>5 DEF ShownOK, Missing
  <2> QED
    BY <2>3, <2>4
<1>6. ASSUME ListSent PROVE ShownOK'
  BY <1>6, ShownFields DEF ListSent, ShownOK, Lists
<1>7. /\ \A s, d : OpenSession(s, d) => UNCHANGED list
      /\ \A s : Visit(s) \/ Close(s) \/ DeleteOrphaned(s) => UNCHANGED list
      /\ TrimOpen \/ TrimRows \/ TrimRevoke \/ TrimFails => UNCHANGED list
      /\ UNCHANGED listVars => UNCHANGED list
  BY DEF OpenSession, Visit, Close, DeleteOrphaned, TrimOpen, TrimRows, TrimRevoke, TrimFails,
         listVars
<1> QED
  BY <1>1, <1>2, <1>3, <1>4, <1>5, <1>6, <1>7 DEF ListNext

----------------------------------------------------------------------------
(* The trimmer *)

\* While the listTables change, the sessions the trimmer has read keep their devices, and so the
\* choice it has made stays right.
LEMMA TrimStays ==
  ASSUME TablesOK, TrimOK, KeepsOpened, UNCHANGED trim
  PROVE  TrimOK'
<1>1. CASE trim.step # "chosen"
  BY <1>1 DEF TrimOK, TrimKeepsBest
<1>2. CASE trim.step = "chosen"
  <2> DEFINE q == trim.read
  <2>1. /\ q \in Seq(Sessions)
        /\ ToSet(q) \subseteq DOMAIN device
    BY <1>2 DEF TrimOK, NoTrim
  <2>2. \A s \in ToSet(q) : s \in Sessions
    BY <2>1 DEF ToSet
  <2>3. \A s \in ToSet(q) : s \in DOMAIN device' /\ device'[s] = device[s]
    BY <2>1, <2>2 DEF KeepsOpened
  <2>4. DOMAIN q = 1 .. Len(q) /\ Len(q) \in Nat /\ \A i \in DOMAIN q : q[i] \in ToSet(q)
    BY <2>1 DEF ToSet
  <2>5. q' = q /\ trim' = trim
    OBVIOUS
  <2> HIDE DEF q
  <2>6. ASSUME NEW i \in DOMAIN q
        PROVE  First(q, i)' <=> First(q, i)
    <3>1. \A k \in 1 .. i - 1 : k \in DOMAIN q
      BY <2>4
    <3>2. device'[q[i]] = device[q[i]] /\ \A k \in 1 .. i - 1 : device'[q[k]] = device[q[k]]
      BY <2>3, <2>4, <3>1
    <3> QED
      BY <3>2, <2>5 DEF First
  <2>7. ASSUME NEW i \in DOMAIN q, NEW j \in DOMAIN q, Better(q, i, j)
        PROVE  Better(q, i, j)'
    BY <2>5, <2>6, <2>7 DEF Better
  <2>8. /\ ToSet(trim.excess) \subseteq ToSet(q)
        /\ Cardinality(Stay(q, trim.excess)) = SessionMax
        /\ \A i, j \in DOMAIN q :
             q[i] \in Stay(q, trim.excess) /\ q[j] \notin Stay(q, trim.excess) => Better(q, i, j)
    BY <1>2 DEF TrimOK, TrimKeepsBest, q
  <2>9. Stay(q, trim.excess)' = Stay(q, trim.excess)
    BY <2>5 DEF Stay
  <2>10. TrimKeepsBest'
    BY <2>5, <2>7, <2>8, <2>9 DEF TrimKeepsBest, q
  <2> QED
    BY <2>1, <2>3, <2>5, <2>10 DEF TrimOK, q
<1> QED
  BY <1>1, <1>2

\* Every step keeps what is known of the trimmer.
LEMMA TrimNext ==
  ASSUME TablesOK, TrimOK, [ListNext]_listVars
  PROVE  TrimOK'
<1>1. ASSUME UNCHANGED trim PROVE TrimOK'
  BY <1>1, TablesNext, TrimStays
<1>2. ASSUME trim' = NoTrim PROVE TrimOK'
  BY <1>2 DEF TrimOK, TrimKeepsBest, NoTrim
<1>3. ASSUME TrimOpen PROVE TrimOK'
  <2>1. trim' = [step |-> "open", ids |-> open] /\ open \in SUBSET Sessions
    BY <1>3 DEF TrimOpen, TablesOK
  <2> QED
    BY <2>1 DEF TrimOK, TrimKeepsBest
<1>4. ASSUME TrimRows PROVE TrimOK'
  <2> DEFINE q == Ordered(trim.ids, 0)
             gone == SelectExcess(q)
  <2>1. CASE gone = <<>>
    BY <1>2, <1>4, <2>1 DEF TrimRows
  <2>2. CASE gone # <<>>
    <3>1. /\ trim' = [step |-> "chosen", read |-> q, excess |-> gone] /\ device' = device
      BY <1>4, <2>2 DEF TrimRows, listTables
    <3>2. q \in Seq(Sessions) /\ IsInjective(q) /\ ToSet(q) \subseteq rows
      BY OrderedIs DEF TablesOK
    <3>3. SessionMax < Len(q)
      <4>1. ~ (Len(q) <= SessionMax)
        BY <2>2, Zenon DEF SelectExcess
      <4> QED
        BY <4>1, <3>2, SessionListAssumption
    <3>4. /\ gone \in Seq(Sessions) /\ ToSet(gone) \subseteq ToSet(q)
          /\ Cardinality(Stay(q, gone)) = SessionMax
          /\ \A i, j \in DOMAIN q :
               q[i] \in Stay(q, gone) /\ q[j] \notin Stay(q, gone) => Better(q, i, j)
      BY <3>2, <3>3, SelectKeepsBest
    <3> HIDE DEF q, gone
    <3>9. PICK p, x : p = q /\ x = gone
      OBVIOUS
    <3>5. /\ \A i, j : Better(p, i, j)' <=> Better(p, i, j)
          /\ Stay(p, x)' = Stay(p, x)
      BY <3>1 DEF Better, First, Stay
    <3>10. trim'.step = "chosen" /\ trim'.read = p /\ trim'.excess = x
      BY <3>1, <3>9
    <3>6. TrimKeepsBest'
      BY <3>4, <3>5, <3>9, <3>10 DEF TrimKeepsBest
    <3>7. ToSet(q) \subseteq DOMAIN device'
      BY <3>1, <3>2 DEF TablesOK
    <3> QED
      BY <3>1, <3>2, <3>4, <3>6, <3>7 DEF TrimOK
  <2> QED
    BY <2>1, <2>2
<1>5. TrimRevoke \/ TrimFails => trim' = NoTrim
  BY DEF TrimRevoke, TrimFails
<1>6. /\ \A s, d : OpenSession(s, d) => UNCHANGED trim
      /\ \A s : Visit(s) \/ Close(s) \/ DeleteOrphaned(s) \/ GetList(s) => UNCHANGED trim
      /\ ListOpen \/ ListRows \/ ListCurrent \/ ListSent => UNCHANGED trim
      /\ UNCHANGED listVars => UNCHANGED trim
  BY DEF OpenSession, Visit, Close, DeleteOrphaned, GetList, ListOpen, ListRows, ListCurrent,
         ListSent, listVars
<1> QED
  BY <1>1, <1>2, <1>3, <1>4, <1>5, <1>6 DEF ListNext

----------------------------------------------------------------------------
(* The theorems *)

\* The invariant holds of every user the model begins with.
LEMMA ListInvInit == ListInit => ListInv
<1> SUFFICES ASSUME ListInit PROVE ListInv
  OBVIOUS
<1>1. TablesOK
  <2>1. rows \subseteq Sessions /\ open \subseteq Sessions
    BY DEF ListInit
  <2>2. rows \subseteq DOMAIN device
    BY DEF ListInit
  <2> QED
    BY <2>1, <2>2, ListInitOrder DEF TablesOK
<1>2. ShownOK
  BY DEF ListInit, ShownOK, Lists, NoList
<1>3. TrimOK
  BY DEF ListInit, TrimOK, TrimKeepsBest, NoTrim
<1> QED
  BY <1>1, <1>2, <1>3 DEF ListInv

\* The invariant is inductive.
THEOREM ListInvariant == SessionListSpec => []ListInv
<1>1. ListInv /\ [ListNext]_listVars => ListInv'
  BY TablesNext, ShownNext, TrimNext DEF ListInv
<1> QED
  BY <1>1, ListInvInit, PTL DEF SessionListSpec

\* A list shows the current session and is never replaced past its end.
THEOREM ListShows == SessionListSpec => []ListShowsCurrent
<1>1. ListInv => ListShowsCurrent
  <2> SUFFICES ASSUME ShownOK PROVE ListShowsCurrent
    BY DEF ListInv
  <2>1. list.step # "panic"
    BY DEF ShownOK, Lists, NoList
  <2> QED
    BY <2>1 DEF ShownOK, ListShowsCurrent, Missing
<1> QED
  BY <1>1, ListInvariant, PTL

\* What the trimmer leaves is the limit, and the best of the sessions it read.
THEOREM TrimmerKeeps == SessionListSpec => []TrimKeepsBest
<1>1. ListInv => TrimKeepsBest
  BY DEF ListInv, TrimOK
<1> QED
  BY <1>1, ListInvariant, PTL
=============================================================================
