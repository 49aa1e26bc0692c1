-------------------------- MODULE SecureOperation --------------------------
(***************************************************************************)
(* Secure operations of mrauth and the second factor (2FA) they are        *)
(* confirmed with.                                                         *)
(*                                                                         *)
(* A secure operation is a row of the table secure_operations: a chain of  *)
(* confirmations (a code sent to an address, then the user's second factor *)
(* if one is bound) that must be passed before the operation is applied,   *)
(* exactly once, by the use case it belongs to.  The second factor is the  *)
(* user's row of users_auth_2fa.                                           *)
(*                                                                         *)
(* Requests run concurrently.  What a request does between BEGIN and       *)
(* COMMIT is split where another request can get in between: tx[r] is the  *)
(* request's position and what it has read.  SELECT ... FOR UPDATE locks   *)
(* the row until the transaction ends, so a request that wants a locked    *)
(* row waits; a statement sees the rows committed when it started.         *)
(***************************************************************************)
EXTENDS Naturals, Sequences, FiniteSets

CONSTANTS
  Users,          \* owners of operations
  NilUser,        \* uuid.Nil: the owner of the registration of a new email
  Operations,     \* the operations that get created
  Requests,       \* requests served at the same time
  Names,          \* the kinds of operation in use, a subset of AllNames
  MaxAttempts,    \* ConfirmAction.MaxAttempts
  MaxResends,     \* ConfirmAction.MaxResends
  RecoveryCount,  \* recovery codes generated per batch
  MaxStep,        \* bound: last TOTP time step of the behaviour
  NoFactor, NoSecret, Idle

AllNames == {"authorize", "create", "email", "disable2fa", "password", "totp", "recovery"}

ASSUME UsersAssumption == NilUser \notin Users
ASSUME NamesAssumption == Names \subseteq AllNames
ASSUME LimitsAssumption ==
  /\ MaxAttempts \in Nat \ {0}
  /\ MaxResends \in Nat
  /\ RecoveryCount \in Nat \ {0}
  /\ MaxStep \in Nat

VARIABLES
  row,      \* secure_operations: the row of every operation
  auth2fa,  \* users_auth_2fa: the second factor bound to every user
  minted,   \* batches of recovery codes generated for every user so far
  clock,    \* the current TOTP time step
  tx,       \* what every request is doing
  wrong,    \* history: codes answered as wrong in the current link of the chain
  pending,  \* history: links of the chain the operation was opened with, not yet passed
  applied,  \* history: how often the operation was applied
  spent     \* history: the secret that confirmed the operation's last link

vars == <<row, auth2fa, minted, clock, tx, wrong, pending, applied, spent>>
history == <<wrong, pending, applied, spent>>

----------------------------------------------------------------------------
(* Data *)

Methods == {"email", "password", "totp"}
Sendable(m) == m = "email"

Statuses == {"unused", "opened", "confirmed", "gone"}

\* live: now has not passed ExpiresAt; ready: now has passed ResendsAt.
UnusedRow == [status |-> "unused", name |-> "email", user |-> NilUser, actions |-> <<>>,
              token |-> 0, attempts |-> 0, resends |-> 0, live |-> FALSE, ready |-> FALSE]

InTable(o) == row[o].status \in {"opened", "confirmed"}
\* Mutant of Found: a deletion that finds no row is taken for a success.
FoundAlways(o, token) == row[o].status # "unused"

\* A statement by token finds the row unless it is gone or was given a new token.
Found(o, token) == InTable(o) /\ row[o].token = token

\* Mutant of Locked: the row is read without FOR UPDATE.
NeverLocked(o) == FALSE

Locked(o) == \E r \in Requests : tx[r] # Idle /\ tx[r].kind = "confirm" /\ tx[r].op = o

RecoveryCodes(batch) == {[kind |-> "recovery", of |-> batch, n |-> k] : k \in 1 .. RecoveryCount}
TotpCode(binding, step) == [kind |-> "totp", of |-> binding, n |-> step]
Binding(type, batch, step) ==
  [type |-> type, binding |-> batch, step |-> step, codes |-> RecoveryCodes(batch)]

\* Authenticator.ValidateCode accepts the codes of the steps around the current one.
ValidSteps == ((clock - 1) .. (clock + 1)) \ {0}

Init ==
  /\ row = [o \in Operations |-> UnusedRow]
  /\ minted = [u \in Users |-> 1]
  /\ auth2fa \in [Users -> {NoFactor, Binding("password", 1, 0), Binding("totp", 1, 0)}]
  /\ clock = 1
  /\ tx = [r \in Requests |-> Idle]
  /\ wrong = [o \in Operations |-> 0]
  /\ pending = [o \in Operations |-> 0]
  /\ applied = [o \in Operations |-> 0]
  /\ spent = [o \in Operations |-> NoSecret]

----------------------------------------------------------------------------
(* Opening an operation: the use cases CreateSession, CreateUser, Change*,   *)
(* Disable2FA and RegenerateRecovery build it, Opener.Open stores it.        *)

\* createUser2FA: the links of the chain, from the second factor bound now.
ActionsFor(u) ==
  IF u = NilUser \/ auth2fa[u] = NoFactor THEN <<"email">> ELSE <<"email", auth2fa[u].type>>

\* A factor is never changed in place, and there must be one to disable or to renew.
MayBeCreated(u, n) ==
  /\ u = NilUser => n = "create"
  /\ n \in {"password", "totp"} => auth2fa[u] = NoFactor
  /\ n \in {"disable2fa", "recovery"} => auth2fa[u] # NoFactor

\* Reads the user's factor; nothing is locked and nothing is stored yet.
CreateOperation(r, o, u, n) ==
  /\ tx[r] = Idle
  /\ row[o].status = "unused"
  /\ \A q \in Requests : tx[q] # Idle => tx[q].op # o
  /\ MayBeCreated(u, n)
  /\ tx' = [tx EXCEPT ![r] = [kind |-> "create", op |-> o, user |-> u, name |-> n,
                              actions |-> ActionsFor(u)]]
  /\ UNCHANGED <<row, auth2fa, minted, clock, history>>

\* DeleteByUserIDAndName: the rows the statement sees when it starts.
SameKind(u, n) ==
  IF u = NilUser THEN {} ELSE {v \in Operations : InTable(v) /\ row[v].user = u /\ row[v].name = n}

OpenDelete(r) ==
  /\ tx[r] # Idle /\ tx[r].kind = "create"
  /\ tx' = [tx EXCEPT ![r] = [kind |-> "open", op |-> tx[r].op, user |-> tx[r].user,
                              name |-> tx[r].name, actions |-> tx[r].actions,
                              victims |-> SameKind(tx[r].user, tx[r].name)]]
  /\ UNCHANGED <<row, auth2fa, minted, clock, history>>

\* NewOperation and ActivateConfirmation: the row of a new operation.
NewOperation(u, n, actions) ==
  [status |-> "opened", name |-> n, user |-> u, actions |-> actions, token |-> 1,
   attempts |-> MaxAttempts, resends |-> MaxResends, live |-> TRUE, ready |-> FALSE]

GoneRow == [UnusedRow EXCEPT !.status = "gone"]

\* The deletion waits for the rows it wants; the rest of the transaction follows.
OpenInsert(r) ==
  /\ tx[r] # Idle /\ tx[r].kind = "open"
  /\ \A v \in tx[r].victims : ~Locked(v)
  /\ LET o == tx[r].op IN
       /\ row' = [v \in Operations |->
                    IF v = o THEN NewOperation(tx[r].user, tx[r].name, tx[r].actions)
                    ELSE IF v \in tx[r].victims THEN GoneRow ELSE row[v]]
       /\ pending' = [pending EXCEPT ![o] = Len(tx[r].actions)]
       /\ wrong' = [v \in Operations |-> IF v = o \/ v \in tx[r].victims THEN 0 ELSE wrong[v]]
  /\ tx' = [tx EXCEPT ![r] = Idle]
  /\ UNCHANGED <<auth2fa, minted, clock, applied, spent>>

----------------------------------------------------------------------------
(* Confirming: ConfirmOperation.Execute holds the row's lock throughout.     *)

\* What checking a code against the second factor can yield: Verifier.Verify.
Verify(u, method) ==
  LET f == auth2fa[u]
      refused == [ok |-> FALSE, secret |-> NoSecret]
      accepted(c) == [ok |-> TRUE, secret |-> c]
  IN IF f.type # method THEN {refused}
     ELSE {refused} \cup {accepted(c) : c \in f.codes} \cup
          (IF method = "totp"
           THEN {accepted(TotpCode(f.binding, s)) : s \in {v \in ValidSteps : v > f.step}}
           ELSE {accepted(NoSecret)})

\* ConfirmCode.Prepare: what checking a code against the current link can yield.
Outcomes(o) ==
  IF Sendable(Head(row[o].actions))
  THEN {[ok |-> b, secret |-> NoSecret] : b \in BOOLEAN}
  ELSE IF auth2fa[row[o].user] = NoFactor THEN {}
  ELSE Verify(row[o].user, Head(row[o].actions))

\* FetchOneForUpdate, ConfirmAction's guards, and the check of the code.
ConfirmBegin(r, o) ==
  /\ tx[r] = Idle
  /\ row[o].status = "opened" /\ ~Locked(o)
  /\ row[o].live
  /\ row[o].attempts > 0
  /\ \E out \in Outcomes(o) :
       tx' = [tx EXCEPT ![r] = [kind |-> "confirm", op |-> o, token |-> row[o].token,
                                   ok |-> out.ok, secret |-> out.secret]]
  /\ UNCHANGED <<row, auth2fa, minted, clock, history>>

\* The condition of Replace and UpdateFailedAttempt: the token, still opened.
StillOpened(o, token) == Found(o, token) /\ row[o].status = "opened"

\* Mutant of ConfirmFailed: the wrong code is returned as the transaction's error, which
\* rolls the decrement back.
ConfirmFailedRolledBack(r) ==
  /\ tx[r] # Idle /\ tx[r].kind = "confirm" /\ ~tx[r].ok
  /\ StillOpened(tx[r].op, tx[r].token)
  /\ wrong' = [wrong EXCEPT ![tx[r].op] = @ + 1]
  /\ tx' = [tx EXCEPT ![r] = Idle]
  /\ UNCHANGED <<row, auth2fa, minted, clock, pending, applied, spent>>

\* UpdateFailedAttempt, committed although the answer is an error.
ConfirmFailed(r) ==
  /\ tx[r] # Idle /\ tx[r].kind = "confirm" /\ ~tx[r].ok
  /\ LET o == tx[r].op IN
       /\ StillOpened(o, tx[r].token)
       /\ row' = [row EXCEPT ![o].attempts = @ - 1]
       /\ wrong' = [wrong EXCEPT ![o] = @ + 1]
  /\ tx' = [tx EXCEPT ![r] = Idle]
  /\ UNCHANGED <<auth2fa, minted, clock, pending, applied, spent>>

\* ActivateConfirmation of the next link: a new token, attempts in full.
NextLink(o) ==
  LET rest == Tail(row[o].actions)
      sends == Sendable(Head(rest))
  IN [row[o] EXCEPT !.actions = rest, !.token = @ + 1, !.attempts = MaxAttempts,
                    !.resends = IF sends THEN MaxResends ELSE @,
                    !.ready = IF sends THEN FALSE ELSE @, !.live = TRUE]

ConfirmLink(r) ==
  /\ tx[r] # Idle /\ tx[r].kind = "confirm" /\ tx[r].ok
  /\ LET o == tx[r].op IN
       /\ StillOpened(o, tx[r].token)
       /\ Len(row[o].actions) > 1
       /\ row' = [row EXCEPT ![o] = NextLink(o)]
       /\ wrong' = [wrong EXCEPT ![o] = 0]
       /\ pending' = [pending EXCEPT ![o] = @ - 1]
  /\ tx' = [tx EXCEPT ![r] = Idle]
  /\ UNCHANGED <<auth2fa, minted, clock, applied, spent>>

\* Mutant of StepIsNew: UpdateTOTPStep without last_totp_step < $2.
StepIsAnything(f, c) == f # NoFactor

\* UpdateTOTPStep and UpdateRecoveryCode affect a row only where the secret is unused.
StepIsNew(f, c) == f # NoFactor /\ f.step < c.n
CodeIsThere(f, c) == f # NoFactor /\ c \in f.codes

Spendable(f, c) == IF c.kind = "totp" THEN StepIsNew(f, c) ELSE CodeIsThere(f, c)

Spend(f, c) ==
  IF c.kind = "totp" THEN [f EXCEPT !.step = c.n] ELSE [f EXCEPT !.codes = @ \ {c}]

Confirmed(o) == [row[o] EXCEPT !.status = "confirmed", !.actions = <<>>, !.live = TRUE]

\* Replace, then the commit function the verifier returned, in the same transaction.
ConfirmLast(r) ==
  /\ tx[r] # Idle /\ tx[r].kind = "confirm" /\ tx[r].ok
  /\ LET o == tx[r].op
         u == row[o].user
         c == tx[r].secret
     IN
       /\ StillOpened(o, tx[r].token)
       /\ Len(row[o].actions) = 1
       /\ IF c = NoSecret
          THEN UNCHANGED <<auth2fa, spent>>
          ELSE /\ Spendable(auth2fa[u], c)
               /\ auth2fa' = [auth2fa EXCEPT ![u] = Spend(@, c)]
               /\ spent' = [spent EXCEPT ![o] = [user |-> u, secret |-> c, under |-> auth2fa[u].binding]]
       /\ row' = [row EXCEPT ![o] = Confirmed(o)]
       /\ wrong' = [wrong EXCEPT ![o] = 0]
       /\ pending' = [pending EXCEPT ![o] = @ - 1]
  /\ tx' = [tx EXCEPT ![r] = Idle]
  /\ UNCHANGED <<minted, clock, applied>>

\* The transaction of any request ends without effect: the second factor was spent by
\* another request (ErrEventAuth2FACodeAlreadyUsed), or the storage or notifier failed.
Rollback(r) ==
  /\ tx[r] # Idle
  /\ tx' = [tx EXCEPT ![r] = Idle]
  /\ UNCHANGED <<row, auth2fa, minted, clock, history>>

\* ResendCode.Execute: a new token and a new code, attempts in full.
Resend(o) ==
  /\ row[o].status = "opened" /\ ~Locked(o)
  /\ row[o].live
  /\ Sendable(Head(row[o].actions))
  /\ row[o].resends > 0
  /\ row[o].ready
  /\ row' = [row EXCEPT ![o].token = @ + 1, ![o].attempts = MaxAttempts, ![o].live = TRUE,
                        ![o].resends = @ - 1, ![o].ready = FALSE]
  /\ UNCHANGED <<auth2fa, minted, clock, tx, history>>

----------------------------------------------------------------------------
(* Removing an operation by its token after a check made earlier, without a  *)
(* lock in between: revoking it, opening a session with it, cleaning it up.  *)

BeginDelete(r, o, kind) ==
  /\ tx[r] = Idle
  /\ tx' = [tx EXCEPT ![r] = [kind |-> kind, op |-> o, token |-> row[o].token]]
  /\ UNCHANGED <<row, auth2fa, minted, clock, history>>

\* RevokeOperation.Execute reads the operation to compare its owner.
RevokeBegin(r, o) ==
  /\ InTable(o) /\ row[o].live
  /\ row[o].user # NilUser
  /\ BeginDelete(r, o, "delete")

\* ConfirmOperation returns a confirmed operation as it is; OpenSession.Execute checks it.
LoginBegin(r, o) ==
  /\ row[o].status = "confirmed" /\ row[o].live /\ ~Locked(o)
  /\ row[o].name \in {"authorize", "create"}
  /\ BeginDelete(r, o, "login")

\* DeleteExpired selects an expired row, then deletes the row that has its token.
CleanBegin(r, o) ==
  /\ InTable(o) /\ ~row[o].live
  /\ BeginDelete(r, o, "delete")

DeleteFound(r) ==
  /\ tx[r] # Idle /\ tx[r].kind \in {"delete", "login"}
  /\ LET o == tx[r].op IN
       /\ ~Locked(o)
       /\ Found(o, tx[r].token)
       /\ row' = [row EXCEPT ![o] = GoneRow]
       /\ wrong' = [wrong EXCEPT ![o] = 0]
       /\ applied' = [applied EXCEPT ![o] = IF tx[r].kind = "login" THEN @ + 1 ELSE @]
  /\ tx' = [tx EXCEPT ![r] = Idle]
  /\ UNCHANGED <<auth2fa, minted, clock, pending, spent>>

----------------------------------------------------------------------------
(* Applying a confirmed operation, under its row's lock and only once.       *)

Applicable(o) == row[o].status = "confirmed" /\ ~Locked(o) /\ row[o].live

Consume(o) ==
  /\ row' = [row EXCEPT ![o] = GoneRow]
  /\ applied' = [applied EXCEPT ![o] = @ + 1]
  /\ UNCHANGED <<clock, tx, wrong, pending, spent>>

\* ApplyOperation with the handlers of the change of an address and of Disable2FA.
ApplyOperation(o) ==
  /\ Applicable(o)
  /\ row[o].name \in {"email", "disable2fa"}
  /\ auth2fa' = [auth2fa EXCEPT ![row[o].user] = IF row[o].name = "disable2fa" THEN NoFactor ELSE @]
  /\ Consume(o)
  /\ UNCHANGED minted

\* Mutant of Bind: the binding replaces the one that is there (ON CONFLICT DO UPDATE).
Rebind(u, type, step) ==
  /\ auth2fa' = [auth2fa EXCEPT ![u] = Binding(type, minted[u] + 1, step)]
  /\ minted' = [minted EXCEPT ![u] = @ + 1]

\* Auth2FA Insert fails on a user who has a factor; the transaction is then rolled back.
Bind(u, type, step) ==
  /\ auth2fa[u] = NoFactor
  /\ auth2fa' = [auth2fa EXCEPT ![u] = Binding(type, minted[u] + 1, step)]
  /\ minted' = [minted EXCEPT ![u] = @ + 1]

\* ApplyTOTPGenerator: the code that proves the new generator is spent by the binding.
ApplyTOTP(o) ==
  /\ Applicable(o)
  /\ row[o].name = "totp"
  /\ \E s \in ValidSteps : Bind(row[o].user, "totp", s)
  /\ Consume(o)

ApplyPassword(o) ==
  /\ Applicable(o)
  /\ row[o].name = "password"
  /\ Bind(row[o].user, "password", 0)
  /\ Consume(o)

\* UpdateRecoveryCodes replaces the batch, and finds no row if 2FA was disabled.
ApplyRecovery(o) ==
  /\ Applicable(o)
  /\ row[o].name = "recovery"
  /\ LET u == row[o].user IN
       /\ auth2fa[u] # NoFactor
       /\ auth2fa' = [auth2fa EXCEPT ![u].codes = RecoveryCodes(minted[u] + 1)]
       /\ minted' = [minted EXCEPT ![u] = @ + 1]
  /\ Consume(o)

----------------------------------------------------------------------------
(* Time *)

\* ExpiresAt passes.
Expire(o) ==
  /\ InTable(o) /\ row[o].live
  /\ row' = [row EXCEPT ![o].live = FALSE]
  /\ UNCHANGED <<auth2fa, minted, clock, tx, history>>

\* ResendsAt passes; nothing looks at it unless a code can be sent again.
ResendAllowed(o) ==
  /\ row[o].status = "opened" /\ ~row[o].ready
  /\ Sendable(Head(row[o].actions)) /\ row[o].resends > 0
  /\ row' = [row EXCEPT ![o].ready = TRUE]
  /\ UNCHANGED <<auth2fa, minted, clock, tx, history>>

\* The next TOTP time step begins.
Tick ==
  /\ clock < MaxStep
  /\ clock' = clock + 1
  /\ UNCHANGED <<row, auth2fa, minted, tx, history>>

Next ==
  \/ \E r \in Requests :
       \/ \E o \in Operations :
            \/ \E u \in Users \cup {NilUser}, n \in Names : CreateOperation(r, o, u, n)
            \/ ConfirmBegin(r, o)
            \/ RevokeBegin(r, o)
            \/ LoginBegin(r, o)
            \/ CleanBegin(r, o)
       \/ OpenDelete(r)
       \/ OpenInsert(r)
       \/ ConfirmFailed(r)
       \/ ConfirmLink(r)
       \/ ConfirmLast(r)
       \/ DeleteFound(r)
       \/ Rollback(r)
  \/ \E o \in Operations :
       \/ Resend(o)
       \/ ApplyOperation(o)
       \/ ApplyTOTP(o)
       \/ ApplyPassword(o)
       \/ ApplyRecovery(o)
       \/ Expire(o)
       \/ ResendAllowed(o)
  \/ Tick

Spec == Init /\ [][Next]_vars

----------------------------------------------------------------------------
(* Properties *)

Secrets == [kind : {"totp", "recovery"}, of : Nat, n : Nat]
Factors == [type : {"password", "totp"}, binding : Nat, step : Nat, codes : SUBSET Secrets]
Chains == {<<>>} \cup {<<m>> : m \in Methods} \cup {<<"email", m>> : m \in {"password", "totp"}}
Rows == [status : Statuses, name : AllNames, user : Users \cup {NilUser}, actions : Chains,
         token : Nat, attempts : Nat, resends : Nat, live : BOOLEAN, ready : BOOLEAN]
Works ==
  [kind : {"create"}, op : Operations, user : Users \cup {NilUser}, name : AllNames, actions : Chains]
  \cup [kind : {"open"}, op : Operations, user : Users \cup {NilUser}, name : AllNames,
        actions : Chains, victims : SUBSET Operations]
  \cup [kind : {"confirm"}, op : Operations, token : Nat, ok : BOOLEAN, secret : Secrets \cup {NoSecret}]
  \cup [kind : {"delete", "login"}, op : Operations, token : Nat]

\* Type invariant: every row, factor and request has the shape the code gives it, the
\* counters of attempts and resends included, which the table's CHECKs keep at 0 or more.
TypeOK ==
  /\ row \in [Operations -> Rows]
  /\ auth2fa \in [Users -> Factors \cup {NoFactor}]
  /\ minted \in [Users -> Nat]
  /\ clock \in Nat \ {0}
  /\ tx \in [Requests -> Works \cup {Idle}]
  /\ wrong \in [Operations -> Nat]
  /\ pending \in [Operations -> Nat]
  /\ applied \in [Operations -> Nat]
  /\ spent \in [Operations -> [user : Users, secret : Secrets, under : Nat] \cup {NoSecret}]

\* ConfirmOperation.Execute: however requests overlap, the codes answered as wrong in one
\* link of the chain are at most MaxAttempts per code that was sent for it, and a second
\* factor, which cannot be resent, is tried at most MaxAttempts times.
GuessesBounded ==
  \A o \in Operations : row[o].status = "opened" =>
    wrong[o] <= IF Sendable(Head(row[o].actions)) THEN MaxAttempts * (MaxResends + 1) ELSE MaxAttempts

\* ApplyOperation, ApplyTOTP, ApplyPassword, ApplyRecovery and OpenSession: an operation is
\* applied at most once, and only after every link it was opened with was passed.
AppliedOnceConfirmed ==
  \A o \in Operations :
    /\ applied[o] <= 1
    /\ applied[o] = 1 => pending[o] = 0

\* Verifier.Verify and its commit function: a TOTP code or a recovery code of the factor in
\* force confirms at most one operation, also when two requests verified it at once.
SecretsSpentOnce ==
  \A o, p \in Operations : o # p /\ spent[o] # NoSecret => spent[o] # spent[p]

\* Auth2FA Insert and UpdateTOTPStep: a factor in force is never replaced by another one,
\* it must be disabled first, and its last TOTP step never moves back.
FactorKept ==
  [][\A u \in Users : auth2fa[u] # NoFactor /\ auth2fa'[u] # NoFactor =>
       /\ auth2fa'[u].binding = auth2fa[u].binding
       /\ auth2fa'[u].step >= auth2fa[u].step]_vars
====
