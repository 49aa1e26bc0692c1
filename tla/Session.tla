------------------------------ MODULE Session ------------------------------
(***************************************************************************)
(* Sessions of mrauth: the tables auth_tokens and sessions of one user in  *)
(* one realm, with the two queues of the workers that clean them.          *)
(*                                                                         *)
(* A session is a row of sessions and the token pairs issued for it.  The  *)
(* login opens it under a soft and a hard limit; the refresh token of a    *)
(* pair is exchanged for the next pair, and a repeated exchange within a   *)
(* grace period gets that next pair again; a logout, the user's list of    *)
(* sessions, the detection of a reused token and the trimmer of excess     *)
(* sessions revoke its tokens; the cleaner deletes expired tokens and then *)
(* the rows of the sessions that have none left.                           *)
(*                                                                         *)
(* Requests and workers run concurrently, each statement and each commit a *)
(* step of its own where another can get in between (READ COMMITTED): an   *)
(* UPDATE picks its rows when it starts, waits for the rows that another   *)
(* transaction has changed, and looks at them again after that.            *)
(***************************************************************************)
EXTENDS SessionLimit, Integers, FiniteSets

CONSTANTS
  Tokens,         \* refresh tokens, each issued together with an access token
  Requests,       \* requests served at the same time
  SoftThreshold,  \* configured deviations of the soft and the hard limit
  HardThreshold,
  MaxFaults,      \* bound: failures of the workers and of their queues
  Idle

ASSUME NamesAssumption == NoSession \notin Sessions
ASSUME RequestsAssumption == IsFiniteSet(Requests) /\ IsFiniteSet(Sessions)
ASSUME LimitsAssumption ==
  /\ SessionMax \in Nat \ {0}
  /\ {SoftThreshold, HardThreshold} \subseteq Int
  /\ MaxFaults \in Nat

VARIABLES
  row,      \* sessions: whether the row of the session was inserted, deleted
  of,       \* auth_tokens: the session a pair was issued for
  refresh,  \* auth_tokens: the refresh token of the pair
  access,   \* auth_tokens: the pairs whose access token is in force; one that is expired,
            \* revoked or deleted opens nothing
  cleanup,  \* sessions_cleanup_queue
  excess,   \* sessions_excess_queue: whether it has the user and the realm
  tx,       \* what every request is doing
  cleaner,  \* what the task CleanRecords is doing
  trimmer,  \* what the task TrimSessions is doing
  closed,   \* history: sessions somebody has closed
  late,     \* history: sessions whose token expired while it was exchanged
  faults    \* history: failures so far

tables == <<row, of, refresh, access, cleanup, excess>>
vars == <<tables, tx, cleaner, trimmer, closed, late, faults>>

----------------------------------------------------------------------------
(* Data *)

RowStatus == {"none", "open", "deleted"}

\* Enabled and not expired, enabled and expired, revoked within the grace period and
\* revoked after it: token_status together with expires_at against NOW().
RefreshStatus == {"none", "enabled", "expired", "grace", "revoked", "deleted"}

Issued(s) == {t \in Tokens : of[t] = s}
Free == {t \in Tokens : refresh[t] = "none"}

\* The condition token_status = Enabled, without a look at expires_at.
Enabled(t) == refresh[t] \in {"enabled", "expired"}

\* Mutant of Locked: the exchange reads the token and does not lock it.
NeverLocked(t) == FALSE

\* The row of a refresh token is changed by a transaction that has not committed.
Locked(t) == \E r \in Requests : tx[r] # Idle /\ tx[r].kind = "rotate" /\ tx[r].token = t

\* FetchOpenSessionCount and FetchOpenSessions.
OpenSessions == {s \in Sessions : \E t \in Issued(s) : refresh[t] = "enabled"}

\* minSessionThreshold and maxSessionThreshold
MinThreshold == -4
MaxThreshold == 16

\* newSessionLimiter and thresholds: the deviations are clamped and put in order, and no
\* threshold falls below one session.
Clamp(x) == IF x < MinThreshold THEN MinThreshold ELSE IF x > MaxThreshold THEN MaxThreshold ELSE x
Lower(x, y) == IF x < y THEN x ELSE y
Upper(x, y) == IF x < y THEN y ELSE x
Soft == Upper(1, SessionMax + Lower(Clamp(SoftThreshold), Clamp(HardThreshold)))
Hard == Upper(1, SessionMax + Upper(Clamp(SoftThreshold), Clamp(HardThreshold)))

Doing(r, kind) == tx[r] # Idle /\ tx[r].kind = kind
Goes(r, work) == tx' = [tx EXCEPT ![r] = work]
Fault == faults < MaxFaults /\ faults' = faults + 1

Init ==
  /\ row = [s \in Sessions |-> "none"]
  /\ of = [t \in Tokens |-> NoSession]
  /\ refresh = [t \in Tokens |-> "none"]
  /\ access = {}
  /\ cleanup = {}
  /\ excess = FALSE
  /\ tx = [r \in Requests |-> Idle]
  /\ cleaner = [step |-> "idle", batch |-> {}]
  /\ trimmer = [step |-> "idle", sessions |-> {}, tokens |-> {}]
  /\ closed = {}
  /\ late = {}
  /\ faults = 0

----------------------------------------------------------------------------
(* Logging in *)

\* applySessionLimit counts the open sessions, outside of any transaction.
LoginCount(r) ==
  /\ tx[r] = Idle
  /\ Goes(r, [kind |-> "count", n |-> Cardinality(OpenSessions)])
  /\ UNCHANGED <<tables, cleaner, trimmer, closed, late, faults>>

\* Mutant of TooMany: the last session before the limit is one too many.
TooManyLate(n) == n > Hard

TooMany(n) == n >= Hard

\* ... then puts the user into the queue of the trimmer, a failure of which is only
\* logged, and refuses the login at the hard limit.
LoginLimit(r) ==
  /\ Doing(r, "count")
  /\ LET n == tx[r].n IN
       /\ \/ excess' = (excess \/ n + 1 >= Soft) /\ UNCHANGED faults
          \/ n + 1 >= Soft /\ Fault /\ UNCHANGED excess
       /\ Goes(r, IF TooMany(n) THEN Idle ELSE [kind |-> "login"])
  /\ UNCHANGED <<row, of, refresh, access, cleanup, cleaner, trimmer, closed, late>>

\* The transaction of OpenSession: the row of a new session and its first pair.
LoginCommit(r) ==
  /\ Doing(r, "login")
  /\ \E s \in Sessions, t \in Free :
       /\ row[s] = "none"
       /\ row' = [row EXCEPT ![s] = "open"]
       /\ of' = [of EXCEPT ![t] = s]
       /\ refresh' = [refresh EXCEPT ![t] = "enabled"]
       /\ access' = access \cup {t}
  /\ Goes(r, Idle)
  /\ UNCHANGED <<cleanup, excess, cleaner, trimmer, closed, late, faults>>

----------------------------------------------------------------------------
(* Exchanging a refresh token *)

\* RevokeRefresh finds the token enabled: its row stays locked until the commit.
RotateBegin(r, t) ==
  /\ tx[r] = Idle
  /\ refresh[t] = "enabled" /\ ~Locked(t)
  /\ Goes(r, [kind |-> "rotate", token |-> t])
  /\ UNCHANGED <<tables, cleaner, trimmer, closed, late, faults>>

\* Mutants of RotateCommit: the next pair is not bound to the session; its access token is left
\* for later.
RotateCommitUnbound(r) ==
  /\ Doing(r, "rotate")
  /\ \E u \in Free :
       /\ refresh' = [refresh EXCEPT ![tx[r].token] = "grace", ![u] = "enabled"]
       /\ access' = access \cup {u}
  /\ Goes(r, Idle)
  /\ UNCHANGED <<row, of, cleanup, excess, cleaner, trimmer, closed, late, faults>>
RotateCommitRefreshOnly(r) ==
  /\ Doing(r, "rotate")
  /\ LET t == tx[r].token IN
       \E u \in Free :
         /\ of' = [of EXCEPT ![u] = of[t]]
         /\ refresh' = [refresh EXCEPT ![t] = "grace", ![u] = "enabled"]
  /\ Goes(r, Idle)
  /\ UNCHANGED <<row, access, cleanup, excess, cleaner, trimmer, closed, late, faults>>

\* Recreate commits: the token is revoked with a grace period and the next pair is there.
RotateCommit(r) ==
  /\ Doing(r, "rotate")
  /\ LET t == tx[r].token IN
       \E u \in Free :
         /\ of' = [of EXCEPT ![u] = of[t]]
         /\ refresh' = [refresh EXCEPT ![t] = "grace", ![u] = "enabled"]
         /\ access' = access \cup {u}
  /\ Goes(r, Idle)
  /\ UNCHANGED <<row, cleanup, excess, cleaner, trimmer, closed, late, faults>>

----------------------------------------------------------------------------
(* Closing sessions *)

\* The pairs of the sessions in S that have an enabled token.
EnabledPairs(S) == {t \in Tokens : of[t] \in S /\ (Enabled(t) \/ t \in access)}

\* RevokeSessionByRefreshToken and RevokeTokensBySessionIDs start: the rows they see.
Revoking(r, S) == Goes(r, [kind |-> "revoke", sessions |-> S, tokens |-> EnabledPairs(S)])

\* CloseSession.Execute (logout) finds the session by any of its refresh tokens.
Logout(r, t) ==
  /\ tx[r] = Idle
  /\ refresh[t] \notin {"none", "deleted"}
  /\ Revoking(r, {of[t]})
  /\ UNCHANGED <<tables, cleaner, trimmer, closed, late, faults>>

\* List.Close: the session the user names.
CloseSession(r, s) ==
  /\ tx[r] = Idle
  /\ row[s] # "none"
  /\ Revoking(r, {s})
  /\ UNCHANGED <<tables, cleaner, trimmer, closed, late, faults>>

\* RevokeRefresh finds the token revoked and out of its grace period; ContinueSession.Execute
\* then closes the session of the TokenAlreadyRevokedError, outside of that transaction.
RotateReused(r, t) ==
  /\ tx[r] = Idle
  /\ refresh[t] = "revoked"
  /\ Revoking(r, {of[t]})
  /\ UNCHANGED <<tables, cleaner, trimmer, closed, late, faults>>

\* The rows in T that are still enabled become revoked and expire at once.
RevokeRows(T) ==
  /\ refresh' = [t \in Tokens |-> IF t \in T /\ Enabled(t) THEN "revoked" ELSE refresh[t]]
  /\ access' = access \ T

\* The statement has waited for every row it wants.
RevokeCommit(r) ==
  /\ Doing(r, "revoke")
  /\ \A t \in tx[r].tokens : ~Locked(t)
  /\ RevokeRows(tx[r].tokens)
  /\ closed' = closed \cup tx[r].sessions
  /\ Goes(r, Idle)
  /\ UNCHANGED <<row, of, cleanup, excess, cleaner, trimmer, late, faults>>

\* The transaction of any request fails and leaves nothing behind.
Rollback(r) ==
  /\ tx[r] # Idle
  /\ Goes(r, Idle)
  /\ UNCHANGED <<tables, cleaner, trimmer, closed, late, faults>>

----------------------------------------------------------------------------
(* The task CleanRecords: first the tokens, then the rows of sessions. *)

\* Mutant of CleanRefresh: the tokens and the queue are cleaned by two tasks at the same time.
CleanRefreshMeanwhile ==
  /\ \E T \in SUBSET {t \in Tokens : refresh[t] \in {"expired", "revoked"} /\ ~Locked(t)} \ {{}} :
       /\ refresh' = [t \in Tokens |-> IF t \in T THEN "deleted" ELSE refresh[t]]
       /\ cleanup' = cleanup \cup {of[t] : t \in T}
  /\ UNCHANGED <<row, of, access, excess, tx, cleaner, trimmer, closed, late, faults>>

\* DeleteExpiredRefresh, which skips locked rows, and Enqueue in the same transaction.
CleanRefresh ==
  /\ cleaner.step = "idle"
  /\ \E T \in SUBSET {t \in Tokens : refresh[t] \in {"expired", "revoked"} /\ ~Locked(t)} \ {{}} :
       /\ refresh' = [t \in Tokens |-> IF t \in T THEN "deleted" ELSE refresh[t]]
       /\ cleanup' = cleanup \cup {of[t] : t \in T}
  /\ UNCHANGED <<row, of, access, excess, tx, cleaner, trimmer, closed, late, faults>>

CleanerAt(step, batch) == cleaner' = [step |-> step, batch |-> batch]

\* Mutant of Orphaned: a session is an orphan when a token of it is out of use.
OrphanedByAny(s) == \E t \in Issued(s) : refresh[t] # "enabled"

\* The anti-join of DeleteOrphaned.
Orphaned(s) == \A t \in Issued(s) : refresh[t] # "enabled"

\* SessionDrainer.Execute: Fetch and DeleteOrphaned.  Nobody else takes sessions out of the
\* queue, so that nothing can come between the two.
DrainDelete ==
  /\ cleaner.step = "idle"
  /\ \E B \in (SUBSET cleanup) \ {{}} :
       /\ row' = [s \in Sessions |-> IF s \in B /\ Orphaned(s) THEN "deleted" ELSE row[s]]
       /\ CleanerAt("deleted", B)
  /\ UNCHANGED <<of, refresh, access, cleanup, excess, tx, trimmer, closed, late, faults>>

\* SessionDrainer.Execute: Delete, the acknowledgement
DrainAck ==
  /\ cleaner.step = "deleted"
  /\ cleanup' = cleanup \ cleaner.batch
  /\ CleanerAt("idle", {})
  /\ UNCHANGED <<row, of, refresh, access, excess, tx, trimmer, closed, late, faults>>

\* A statement of the task fails, or the process dies: the queue keeps the batch.
CleanerFails ==
  /\ cleaner.step # "idle"
  /\ Fault
  /\ CleanerAt("idle", {})
  /\ UNCHANGED <<tables, tx, trimmer, closed, late>>

----------------------------------------------------------------------------
(* The task TrimSessions *)

TrimmerAt(step, S, T) == trimmer' = [step |-> step, sessions |-> S, tokens |-> T]

\* selectExcessSessions: exactly the sessions over the limit; which of them, the activity
\* and the devices decide.
ExcessOf(S) ==
  IF Cardinality(S) <= SessionMax THEN {{}}
  ELSE {X \in SUBSET S : Cardinality(X) = Cardinality(S) - SessionMax}

\* SessionExcessTrimmer.Execute: Fetch; trimUser: FetchOpenSessions and the rows of these
\* sessions.  Nobody else takes the user out of the queue.
TrimChoose ==
  /\ trimmer.step = "idle"
  /\ excess
  /\ \E X \in ExcessOf({s \in OpenSessions : row[s] = "open"}) :
       TrimmerAt(IF X = {} THEN "done" ELSE "chosen", X, {})
  /\ UNCHANGED <<tables, tx, cleaner, closed, late, faults>>

\* trimUser: RevokeTokensBySessionIDs starts
TrimBegin ==
  /\ trimmer.step = "chosen"
  /\ TrimmerAt("revoke", trimmer.sessions, EnabledPairs(trimmer.sessions))
  /\ UNCHANGED <<tables, tx, cleaner, closed, late, faults>>

\* ... and commits together with DeleteOrphaned, which sees the tokens revoked.
TrimCommit ==
  /\ trimmer.step = "revoke"
  /\ \A t \in trimmer.tokens : ~Locked(t)
  /\ RevokeRows(trimmer.tokens)
  /\ UNCHANGED of
  /\ row' = [s \in Sessions |->
               IF s \in trimmer.sessions /\ Orphaned(s)' THEN "deleted" ELSE row[s]]
  /\ closed' = closed \cup trimmer.sessions
  /\ TrimmerAt("done", {}, {})
  /\ UNCHANGED <<cleanup, excess, tx, cleaner, late, faults>>

\* SessionExcessTrimmer.Execute: Delete, the acknowledgement
TrimAck ==
  /\ trimmer.step = "done"
  /\ excess' = FALSE
  /\ TrimmerAt("idle", {}, {})
  /\ UNCHANGED <<row, of, refresh, access, cleanup, tx, cleaner, closed, late, faults>>

TrimmerFails ==
  /\ trimmer.step # "idle"
  /\ Fault
  /\ TrimmerAt("idle", {}, {})
  /\ UNCHANGED <<tables, tx, cleaner, closed, late>>

----------------------------------------------------------------------------
(* Time *)

\* The grace period of a revoked token ends.
GraceEnds(t) ==
  /\ refresh[t] = "grace"
  /\ refresh' = [refresh EXCEPT ![t] = "revoked"]
  /\ UNCHANGED <<row, of, access, cleanup, excess, tx, cleaner, trimmer, closed, late, faults>>

\* A pair issued in exchange for a token outlives the grace period of that token.
InGrace(s) == \E t \in Issued(s) : refresh[t] = "grace"

AccessExpires(t) ==
  /\ t \in access
  /\ refresh[t] = "enabled" => ~InGrace(of[t])
  /\ access' = access \ {t}
  /\ UNCHANGED <<row, of, refresh, cleanup, excess, tx, cleaner, trimmer, closed, late, faults>>

\* A refresh token outlives the access tokens issued with it and before it.
RefreshExpires(t) ==
  /\ refresh[t] = "enabled"
  /\ ~InGrace(of[t])
  /\ Issued(of[t]) \cap access = {}
  /\ refresh' = [refresh EXCEPT ![t] = "expired"]
  /\ late' = IF Locked(t) THEN late \cup {of[t]} ELSE late
  /\ UNCHANGED <<row, of, access, cleanup, excess, tx, cleaner, trimmer, closed, faults>>

----------------------------------------------------------------------------
Request(r) ==
  \/ LoginCount(r)
  \/ \E t \in Tokens : RotateBegin(r, t) \/ RotateReused(r, t) \/ Logout(r, t)
  \/ \E s \in Sessions : CloseSession(r, s)

Proceed(r) ==
  \/ LoginLimit(r) \/ LoginCommit(r)
  \/ RotateCommit(r)
  \/ RevokeCommit(r)
  \/ Rollback(r)

CleanRecords == CleanRefresh \/ DrainDelete \/ DrainAck

TrimSessions == TrimChoose \/ TrimBegin \/ TrimCommit \/ TrimAck

Next ==
  \/ \E r \in Requests : Request(r) \/ Proceed(r)
  \/ CleanRecords \/ CleanerFails
  \/ TrimSessions \/ TrimmerFails
  \/ \E t \in Tokens : GraceEnds(t) \/ AccessExpires(t) \/ RefreshExpires(t)

Spec == Init /\ [][Next]_vars

(* A request that has begun ends, time passes, and the scheduler runs its    *)
(* tasks.  Nobody has to log in, and MaxFaults bounds the failures.          *)
Fairness ==
  /\ \A r \in Requests : WF_vars(Proceed(r))
  /\ WF_vars(CleanRefresh) /\ WF_vars(DrainDelete) /\ WF_vars(DrainAck)
  /\ \A t \in Tokens : WF_vars(GraceEnds(t)) /\ WF_vars(AccessExpires(t)) /\ WF_vars(RefreshExpires(t))

FairSpec == Spec /\ Fairness

----------------------------------------------------------------------------
(* Properties *)

Works ==
  [kind : {"count"}, n : Nat] \cup [kind : {"login"}] \cup [kind : {"rotate"}, token : Tokens]
  \cup [kind : {"revoke"}, sessions : SUBSET Sessions, tokens : SUBSET Tokens]

TypeOK ==
  /\ row \in [Sessions -> RowStatus]
  /\ of \in [Tokens -> Sessions \cup {NoSession}]
  /\ refresh \in [Tokens -> RefreshStatus]
  /\ access \subseteq Tokens
  /\ \A t \in Tokens : of[t] = NoSession <=> refresh[t] = "none"
  /\ cleanup \subseteq Sessions
  /\ excess \in BOOLEAN
  /\ tx \in [Requests -> Works \cup {Idle}]
  /\ cleaner \in [step : {"idle", "deleted"}, batch : SUBSET Sessions]
  /\ trimmer \in [step : {"idle", "chosen", "revoke", "done"},
                  sessions : SUBSET Sessions, tokens : SUBSET Tokens]
  /\ closed \subseteq Sessions
  /\ late \subseteq Sessions
  /\ faults \in 0 .. MaxFaults

\* FetchOpenSessions and FetchLastEnabledPairBySessionID rely on it: however exchanges,
\* their repetitions and revocations overlap, a session has at most one enabled refresh token.
OneRefreshPerSession ==
  \A t, u \in Tokens : Enabled(t) /\ Enabled(u) /\ of[t] = of[u] => t = u

\* Recreate promises the last pair of the session to a client that repeats an exchange within
\* the grace period: unless somebody closed the session, there is such a pair, and it is valid.
RetryFindsPair ==
  \A t \in Tokens : refresh[t] = "grace" /\ of[t] \notin closed =>
    \E u \in Issued(of[t]) : refresh[u] = "enabled" /\ u \in access

\* List.GetList reports an internal error otherwise: the session of an access token that is
\* still accepted is among the open ones and has its row.  The exception is a session whose
\* refresh token expired within the transaction that exchanged it.
CurrentSessionListed ==
  \A t \in access : of[t] \notin late =>
    of[t] \in OpenSessions /\ row[of[t]] = "open"

\* A revoked or expired session does not come back: once no token of it is enabled, no
\* exchange or retry that was under way issues a pair for it.
EndedForGood ==
  [][\A s \in Sessions : row[s] # "none" /\ EnabledPairs({s}) = {} => EnabledPairs({s})' = {}]_vars

\* applySessionLimit is not strict, its comment says, since the count is read without a lock:
\* a burst of logins exceeds the hard limit by no more than the logins that overlap.
BurstBounded == Cardinality(OpenSessions) <= Hard + Cardinality(Requests) - 1

\* The row of every session is deleted in the end: its tokens expire, the cleaner puts it into
\* the queue, and the drainer deletes it, also when one of them fails in between.
RowsReclaimed == \A s \in Sessions : row[s] = "open" ~> row[s] = "deleted"

\* The comment of Close: logout revokes all tokens in force of the session.
LogoutRevokesAll == \A s \in closed : EnabledPairs({s}) = {}
====
