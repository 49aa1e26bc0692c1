----------------------- MODULE SecureOperationProofs -----------------------
(***************************************************************************)
(* Proofs about secure operations, for any number of users, operations,    *)
(* requests, attempts, resends and recovery codes.                         *)
(*                                                                         *)
(* The properties are not inductive by themselves.  Inv adds what the row  *)
(* lock gives a request between its read and its commit (LockOK), which    *)
(* links are left in each status (ChainOK), how the attempts left and the  *)
(* wrong answers add up (GuessOK), and what keeps a spent secret out of    *)
(* every later binding and batch (SecretOK).                               *)
(***************************************************************************)
EXTENDS SecureOperation, TLAPS

Doing(r, kinds) == tx[r] # Idle /\ tx[r].kind \in kinds

\* What holds between a request's read and its commit.
LockOK ==
  /\ \A r \in Requests : Doing(r, {"confirm"}) =>
       /\ row[tx[r].op].status = "opened"
       /\ row[tx[r].op].attempts > 0
       /\ tx[r].secret # NoSecret => row[tx[r].op].user \in Users
  /\ \A q, r \in Requests :
       Doing(q, {"confirm"}) /\ Doing(r, {"confirm"}) /\ tx[q].op = tx[r].op => q = r
  /\ \A r \in Requests : Doing(r, {"create", "open"}) =>
       /\ row[tx[r].op].status = "unused"
       /\ tx[r].actions # <<>>
       /\ tx[r].user \notin Users => tx[r].actions = <<"email">>
  /\ \A q, r \in Requests :
       Doing(q, {"create", "open"}) /\ Doing(r, {"create", "open"}) /\ tx[q].op = tx[r].op => q = r
  /\ \A r \in Requests : Doing(r, {"open"}) =>
       \A v \in tx[r].victims : row[v].status # "unused"
  /\ \A r \in Requests : Doing(r, {"login"}) => row[tx[r].op].status \in {"confirmed", "gone"}

\* The links left agree with the status, and only a gone operation was applied.
ChainOK ==
  \A o \in Operations :
    /\ row[o].status = "opened" =>
         /\ row[o].actions # <<>>
         /\ pending[o] = Len(row[o].actions)
         /\ row[o].user \notin Users => row[o].actions = <<"email">>
    /\ row[o].status = "confirmed" => pending[o] = 0
    /\ row[o].status # "gone" => applied[o] = 0
    /\ applied[o] <= 1
    /\ applied[o] = 1 => pending[o] = 0

\* Wrong answers given, attempts left and those the resends left would give add up.
GuessOK ==
  \A o \in Operations : row[o].status = "opened" =>
    IF Sendable(Head(row[o].actions))
    THEN wrong[o] + row[o].attempts + MaxAttempts * row[o].resends <= MaxAttempts * (MaxResends + 1)
    ELSE wrong[o] + row[o].attempts <= MaxAttempts

\* The factor in force accepts no secret that was spent under it.
SpentIsRefused(s) ==
  LET f == auth2fa[s.user] IN
  /\ s.under <= minted[s.user]
  /\ s.secret.kind = "totp" => (f # NoFactor /\ f.binding = s.under => f.step >= s.secret.n)
  /\ s.secret.kind = "recovery" =>
       /\ s.secret.of <= minted[s.user]
       /\ f # NoFactor => s.secret \notin f.codes

SecretOK ==
  /\ \A u \in Users : auth2fa[u] # NoFactor =>
       /\ auth2fa[u].binding <= minted[u]
       /\ \A c \in auth2fa[u].codes : c.kind = "recovery" /\ c.of <= minted[u]
  /\ \A o \in Operations : spent[o] # NoSecret => SpentIsRefused(spent[o])
  /\ SecretsSpentOnce

Inv == TypeOK /\ LockOK /\ ChainOK /\ GuessOK /\ SecretOK

----------------------------------------------------------------------------
(* Facts about chains, rows and requests *)

\* Taking the first link off a chain of several links leaves a shorter chain.
LEMMA ChainFacts ==
  /\ <<>> \in Chains
  /\ <<"email">> \in Chains
  /\ \A m \in {"password", "totp"} : <<"email", m>> \in Chains /\ <<"email", m>> # <<>>
  /\ \A c \in Chains :
       /\ Len(c) \in Nat
       /\ c = <<>> <=> Len(c) = 0
       /\ Len(c) > 1 =>
            /\ Tail(c) \in Chains
            /\ Tail(c) # <<>>
            /\ Len(Tail(c)) = Len(c) - 1
  /\ Len(<<"email">>) = 1
  /\ Head(<<"email">>) = "email"
<1>1. <<>> \in Chains /\ <<"email">> \in Chains
  BY DEF Chains, Methods
<1>2. \A m \in {"password", "totp"} : <<"email", m>> \in Chains /\ <<"email", m>> # <<>>
  BY DEF Chains
<1>3. ASSUME NEW c \in Chains
      PROVE  /\ Len(c) \in Nat
             /\ c = <<>> <=> Len(c) = 0
             /\ Len(c) > 1 =>
                  /\ Tail(c) \in Chains
                  /\ Tail(c) # <<>>
                  /\ Len(Tail(c)) = Len(c) - 1
  <2>1. CASE c = <<>>
    BY <2>1
  <2>2. CASE \E m \in Methods : c = <<m>>
    BY <2>2
  <2>3. CASE \E m \in {"password", "totp"} : c = <<"email", m>>
    <3>1. PICK m \in {"password", "totp"} : c = <<"email", m>>
      BY <2>3
    <3>2. Len(c) = 2 /\ Tail(c) = <<m>>
      BY <3>1
    <3>3. <<m>> \in Chains
      BY DEF Chains, Methods
    <3> QED
      BY <3>1, <3>2, <3>3
  <2> QED
    BY <2>1, <2>2, <2>3 DEF Chains
<1> QED
  BY <1>1, <1>2, <1>3

\* The fields of a request at work, and of the row and the factor of a typed state.
LEMMA WorkFacts ==
  ASSUME TypeOK
  PROVE  \A r \in Requests : tx[r] # Idle =>
           /\ tx[r].op \in Operations
           /\ tx[r].kind \in {"create", "open"} =>
                /\ tx[r].user \in Users \cup {NilUser}
                /\ tx[r].name \in AllNames
                /\ tx[r].actions \in Chains
           /\ tx[r].kind = "open" => tx[r].victims \in SUBSET Operations
           /\ tx[r].kind = "confirm" =>
                tx[r].token \in Nat /\ tx[r].ok \in BOOLEAN /\ tx[r].secret \in Secrets \cup {NoSecret}
           /\ tx[r].kind \in {"delete", "login"} => tx[r].token \in Nat
<1> SUFFICES ASSUME NEW r \in Requests, tx[r] # Idle
             PROVE  /\ tx[r].op \in Operations
                    /\ tx[r].kind \in {"create", "open"} =>
                         /\ tx[r].user \in Users \cup {NilUser}
                         /\ tx[r].name \in AllNames
                         /\ tx[r].actions \in Chains
                    /\ tx[r].kind = "open" => tx[r].victims \in SUBSET Operations
                    /\ tx[r].kind = "confirm" =>
                         tx[r].token \in Nat /\ tx[r].ok \in BOOLEAN /\ tx[r].secret \in Secrets \cup {NoSecret}
                    /\ tx[r].kind \in {"delete", "login"} => tx[r].token \in Nat
  OBVIOUS
<1>1. tx[r] \in Works
  BY DEF TypeOK
<1> QED
  BY <1>1 DEF Works

\* A new binding and a new batch of recovery codes are well-formed.
LEMMA BindingFacts ==
  ASSUME NEW b \in Nat
  PROVE  /\ RecoveryCodes(b) \in SUBSET Secrets
         /\ \A c \in RecoveryCodes(b) : c.kind = "recovery" /\ c.of = b
         /\ \A t \in {"password", "totp"}, n \in Nat : Binding(t, b, n) \in Factors
<1>1. RecoveryCodes(b) \in SUBSET Secrets
  BY LimitsAssumption DEF RecoveryCodes, Secrets
<1>2. \A c \in RecoveryCodes(b) : c.kind = "recovery" /\ c.of = b
  BY DEF RecoveryCodes
<1> QED
  BY <1>1, <1>2 DEF Binding, Factors

\* What the check of a code yields: a secret only against the factor of a known user.
LEMMA OutcomeFacts ==
  ASSUME TypeOK, ChainOK, NEW o \in Operations, row[o].status = "opened",
         NEW out \in Outcomes(o)
  PROVE  /\ out.ok \in BOOLEAN
         /\ out.secret \in Secrets \cup {NoSecret}
         /\ out.secret # NoSecret => row[o].user \in Users
<1>1. CASE Sendable(Head(row[o].actions))
  BY <1>1 DEF Outcomes
<1>2. CASE ~Sendable(Head(row[o].actions))
  <2> DEFINE u == row[o].user
  <2>1. u \in Users
    BY <1>2, ChainFacts DEF ChainOK, Sendable
  <2>2. auth2fa[u] # NoFactor /\ out \in Verify(u, Head(row[o].actions))
    BY <1>2 DEF Outcomes
  <2>3. auth2fa[u] \in Factors
    BY <2>1, <2>2 DEF TypeOK
  <2>4. auth2fa[u].codes \in SUBSET Secrets /\ auth2fa[u].binding \in Nat
    BY <2>3 DEF Factors
  <2>5. \A s \in ValidSteps : TotpCode(auth2fa[u].binding, s) \in Secrets
    BY <2>4 DEF TypeOK, ValidSteps, TotpCode, Secrets
  <2>6. out.ok \in BOOLEAN /\ out.secret \in Secrets \cup {NoSecret}
    <3>1. \/ \E c \in auth2fa[u].codes : out = [ok |-> TRUE, secret |-> c]
          \/ \E s \in ValidSteps : out = [ok |-> TRUE, secret |-> TotpCode(auth2fa[u].binding, s)]
          \/ \E b \in BOOLEAN : out = [ok |-> b, secret |-> NoSecret]
      BY <2>2 DEF Verify
    <3>2. CASE \E c \in auth2fa[u].codes : out = [ok |-> TRUE, secret |-> c]
      BY <2>4, <3>2
    <3>3. CASE \E s \in ValidSteps : out = [ok |-> TRUE, secret |-> TotpCode(auth2fa[u].binding, s)]
      BY <2>5, <3>3
    <3>4. CASE \E b \in BOOLEAN : out = [ok |-> b, secret |-> NoSecret]
      BY <3>4
    <3> QED BY <3>1, <3>2, <3>3, <3>4
  <2> QED
    BY <2>1, <2>6
<1> QED
  BY <1>1, <1>2

----------------------------------------------------------------------------
(* Types *)

\* Spending a secret that is still there keeps the factor well-formed.
LEMMA SpendFacts ==
  ASSUME NEW f \in Factors, NEW c \in Secrets
  PROVE  /\ Spend(f, c) \in Factors
         /\ Spend(f, c).binding = f.binding
         /\ c.kind = "totp" => Spend(f, c).step = c.n /\ Spend(f, c).codes = f.codes
         /\ c.kind # "totp" => Spend(f, c).step = f.step /\ Spend(f, c).codes = f.codes \ {c}
  BY DEF Spend, Factors, Secrets

\* Renewing the recovery codes keeps the rest of the factor.
LEMMA CodesFacts ==
  ASSUME NEW f \in Factors, NEW B \in SUBSET Secrets
  PROVE  /\ [f EXCEPT !.codes = B] \in Factors
         /\ [f EXCEPT !.codes = B].codes = B
         /\ [f EXCEPT !.codes = B].binding = f.binding
         /\ [f EXCEPT !.codes = B].step = f.step
  BY DEF Factors

\* A row is well-formed when its fields are, whichever of them an update sets.
LEMMA RowFacts ==
  /\ GoneRow \in Rows
  /\ GoneRow.status = "gone"
  /\ UnusedRow \in Rows
  /\ UnusedRow.status = "unused"
  /\ \A x \in Rows, n \in Nat :
       /\ [x EXCEPT !.attempts = n] \in Rows
       /\ [x EXCEPT !.attempts = n].status = x.status
  BY ChainFacts DEF GoneRow, UnusedRow, Rows, Statuses, AllNames

\* So is one whose token, attempts and times a resend or the clock sets.
LEMMA RowUpdateFacts ==
  ASSUME NEW x \in Rows, NEW t \in Nat, NEW n \in Nat, NEW m \in Nat, NEW l \in BOOLEAN, NEW w \in BOOLEAN
  PROVE  /\ [x EXCEPT !.token = t, !.attempts = n, !.live = l, !.resends = m, !.ready = w] \in Rows
         /\ [x EXCEPT !.live = l] \in Rows
         /\ [x EXCEPT !.ready = w] \in Rows
  BY DEF Rows

\* The next link's row: the same operation with its first link taken off.
LEMMA NextLinkFacts ==
  ASSUME TypeOK, NEW o \in Operations, Len(row[o].actions) > 1
  PROVE  /\ NextLink(o) \in Rows
         /\ NextLink(o).status = row[o].status
         /\ NextLink(o).user = row[o].user
         /\ NextLink(o).actions = Tail(row[o].actions)
         /\ NextLink(o).attempts = MaxAttempts
         /\ Sendable(Head(Tail(row[o].actions))) => NextLink(o).resends = MaxResends
<1> DEFINE x == row[o]
           next(n, w) == [status |-> x.status, name |-> x.name, user |-> x.user,
                          actions |-> Tail(x.actions), token |-> x.token + 1,
                          attempts |-> MaxAttempts, resends |-> n, live |-> TRUE, ready |-> w]
<1>1. x \in Rows
  BY DEF TypeOK
<1>2. DOMAIN x = {"status", "name", "user", "actions", "token", "attempts", "resends", "live", "ready"}
  BY <1>1 DEF Rows
<1>3. /\ x.status \in Statuses /\ x.name \in AllNames /\ x.user \in Users \cup {NilUser}
      /\ x.token + 1 \in Nat /\ x.resends \in Nat /\ x.ready \in BOOLEAN
      /\ Tail(x.actions) \in Chains
  BY <1>1, ChainFacts DEF Rows
<1>4. ASSUME NEW n \in Nat, NEW w \in BOOLEAN
      PROVE  next(n, w) \in Rows
  BY <1>3, LimitsAssumption DEF Rows
<1>5. CASE Sendable(Head(Tail(x.actions)))
  <2>1. NextLink(o) = [x EXCEPT !.actions = Tail(x.actions), !.token = @ + 1, !.attempts = MaxAttempts,
                                !.resends = MaxResends, !.ready = FALSE, !.live = TRUE]
    BY <1>5 DEF NextLink
  <2>2. NextLink(o) = next(MaxResends, FALSE)
    BY <1>1, <2>1 DEF Rows
  <2>3. next(MaxResends, FALSE) \in Rows
    BY <1>4, LimitsAssumption
  <2> QED BY <2>2, <2>3
<1>6. CASE ~Sendable(Head(Tail(x.actions)))
  <2>1. NextLink(o) = [x EXCEPT !.actions = Tail(x.actions), !.token = @ + 1, !.attempts = MaxAttempts,
                                !.resends = x.resends, !.ready = x.ready, !.live = TRUE]
    BY <1>6 DEF NextLink
  <2>2. NextLink(o) = next(x.resends, x.ready)
    BY <1>1, <2>1 DEF Rows
  <2>3. next(x.resends, x.ready) \in Rows
    BY <1>3, <1>4
  <2> QED BY <1>6, <2>2, <2>3
<1> QED
  BY <1>5, <1>6

\* The row of a confirmed operation.
LEMMA ConfirmedFacts ==
  ASSUME TypeOK, NEW o \in Operations
  PROVE  Confirmed(o) \in Rows /\ Confirmed(o).status = "confirmed"
<1> DEFINE x == row[o]
<1>1. x \in Rows
  BY DEF TypeOK
<1> HIDE DEF x
<1>2. Confirmed(o) = [status |-> "confirmed", name |-> x.name, user |-> x.user, actions |-> <<>>,
                      token |-> x.token, attempts |-> x.attempts, resends |-> x.resends,
                      live |-> TRUE, ready |-> x.ready]
  <2>1. Confirmed(o) = [x EXCEPT !.status = "confirmed", !.actions = <<>>, !.live = TRUE]
    BY DEF Confirmed, x
  <2> QED BY <1>1, <2>1 DEF Rows
<1>3. <<>> \in Chains
  BY ChainFacts
<1> QED
  BY <1>1, <1>2, <1>3 DEF Rows, Statuses

\* What a resend and the passing of time may change of a row.
LEMMA UpdateFacts ==
  ASSUME TypeOK, NEW o \in Operations, Resend(o) \/ Expire(o) \/ ResendAllowed(o)
  PROVE  /\ UNCHANGED <<auth2fa, minted, clock, tx, wrong, pending, applied, spent>>
         /\ \A v \in Operations :
              /\ row'[v].status = row[v].status
              /\ row'[v].user = row[v].user
              /\ row'[v].actions = row[v].actions
              /\ row[v].attempts > 0 => row'[v].attempts > 0
         /\ \A v \in Operations :
              ~(row'[v].attempts = row[v].attempts /\ row'[v].resends = row[v].resends) =>
                /\ Sendable(Head(row[v].actions))
                /\ row[v].resends > 0
                /\ row'[v].attempts = MaxAttempts
                /\ row'[v].resends = row[v].resends - 1
<1>1. row \in [Operations -> Rows]
  BY DEF TypeOK
<1>2. CASE Resend(o)
  BY <1>1, <1>2, LimitsAssumption DEF Resend, Rows, history
<1>3. CASE Expire(o)
  BY <1>1, <1>3 DEF Expire, Rows, history
<1>4. CASE ResendAllowed(o)
  BY <1>1, <1>4 DEF ResendAllowed, Rows, history
<1> QED
  BY <1>2, <1>3, <1>4

\* Every step keeps the types.
LEMMA TypeNext ==
  ASSUME Inv, [Next]_vars
  PROVE  TypeOK'
<1> USE DEF Inv, history
<1>0. TypeOK /\ LockOK /\ ChainOK
  OBVIOUS
<1>1. ASSUME NEW r \in Requests, NEW o \in Operations, NEW u \in Users \cup {NilUser}, NEW n \in Names,
             CreateOperation(r, o, u, n)
      PROVE  TypeOK'
  <2>1. ActionsFor(u) \in Chains
    <3>1. CASE u = NilUser \/ auth2fa[u] = NoFactor
      BY <3>1, ChainFacts DEF ActionsFor
    <3>2. CASE ~(u = NilUser \/ auth2fa[u] = NoFactor)
      <4>1. auth2fa[u].type \in {"password", "totp"}
        BY <3>2, <1>0 DEF TypeOK, Factors
      <4> QED BY <3>2, <4>1, ChainFacts DEF ActionsFor
    <3> QED BY <3>1, <3>2
  <2>2. [kind |-> "create", op |-> o, user |-> u, name |-> n, actions |-> ActionsFor(u)] \in Works
    BY <2>1, NamesAssumption DEF Works
  <2> QED BY <1>0, <1>1, <2>2 DEF CreateOperation, TypeOK
<1>2. ASSUME NEW r \in Requests, OpenDelete(r) PROVE TypeOK'
  <2>1. [kind |-> "open", op |-> tx[r].op, user |-> tx[r].user, name |-> tx[r].name,
         actions |-> tx[r].actions, victims |-> SameKind(tx[r].user, tx[r].name)] \in Works
    BY <1>0, <1>2, WorkFacts DEF OpenDelete, SameKind, Works
  <2> QED BY <1>0, <1>2, <2>1 DEF OpenDelete, TypeOK
<1>3. ASSUME NEW r \in Requests, OpenInsert(r) PROVE TypeOK'
  <2>1. NewOperation(tx[r].user, tx[r].name, tx[r].actions) \in Rows
    BY <1>0, <1>3, WorkFacts, LimitsAssumption DEF OpenInsert, NewOperation, Rows, Statuses
  <2>2. GoneRow \in Rows
    BY RowFacts
  <2>3. Len(tx[r].actions) \in Nat
    BY <1>0, <1>3, WorkFacts, ChainFacts DEF OpenInsert
  <2> QED BY <1>0, <1>3, <2>1, <2>2, <2>3 DEF OpenInsert, TypeOK
<1>4. ASSUME NEW r \in Requests, NEW o \in Operations, ConfirmBegin(r, o) PROVE TypeOK'
  <2>1. PICK out \in Outcomes(o) :
          tx' = [tx EXCEPT ![r] = [kind |-> "confirm", op |-> o, token |-> row[o].token,
                                   ok |-> out.ok, secret |-> out.secret]]
    BY <1>4 DEF ConfirmBegin
  <2>2. row[o].token \in Nat
    BY <1>0 DEF TypeOK, Rows
  <2>3. [kind |-> "confirm", op |-> o, token |-> row[o].token, ok |-> out.ok, secret |-> out.secret] \in Works
    BY <1>0, <1>4, <2>2, OutcomeFacts DEF ConfirmBegin, Works
  <2> QED BY <1>0, <1>4, <2>1, <2>3 DEF ConfirmBegin, TypeOK
<1>5. ASSUME NEW r \in Requests, ConfirmFailed(r) PROVE TypeOK'
  <2>1. tx[r].op \in Operations /\ row[tx[r].op].attempts > 0
    BY <1>0, <1>5, WorkFacts DEF ConfirmFailed, LockOK, Doing
  <2>2. row[tx[r].op] \in Rows /\ row[tx[r].op].attempts - 1 \in Nat
    BY <1>0, <2>1 DEF TypeOK, Rows
  <2> QED BY <1>0, <1>5, <2>1, <2>2, RowFacts DEF ConfirmFailed, TypeOK
<1>6. ASSUME NEW r \in Requests, ConfirmLink(r) PROVE TypeOK'
  <2>1. tx[r].op \in Operations /\ row[tx[r].op].actions \in Chains
    BY <1>0, <1>6, WorkFacts DEF ConfirmLink, TypeOK, Rows
  <2>2. NextLink(tx[r].op) \in Rows
    BY <1>0, <1>6, <2>1, NextLinkFacts DEF ConfirmLink
  <2>3. pending[tx[r].op] - 1 \in Nat
    BY <1>0, <1>6, <2>1, ChainFacts DEF ConfirmLink, StillOpened, ChainOK
  <2> QED BY <1>0, <1>6, <2>1, <2>2, <2>3 DEF ConfirmLink, TypeOK
<1>7. ASSUME NEW r \in Requests, ConfirmLast(r) PROVE TypeOK'
  <2> DEFINE o == tx[r].op
             u == row[o].user
             c == tx[r].secret
  <2>1. o \in Operations /\ c \in Secrets \cup {NoSecret}
    BY <1>0, <1>7, WorkFacts DEF ConfirmLast
  <2>2. Confirmed(o) \in Rows
    BY <1>0, <2>1, ConfirmedFacts
  <2>3. pending[o] - 1 \in Nat
    BY <1>0, <1>7, <2>1 DEF ConfirmLast, StillOpened, ChainOK
  <2>4. /\ auth2fa' \in [Users -> Factors \cup {NoFactor}]
        /\ spent' \in [Operations -> [user : Users, secret : Secrets, under : Nat] \cup {NoSecret}]
    <3>0. /\ auth2fa \in [Users -> Factors \cup {NoFactor}]
          /\ spent \in [Operations -> [user : Users, secret : Secrets, under : Nat] \cup {NoSecret}]
      BY <1>0 DEF TypeOK
    <3>1. CASE c = NoSecret
      <4>1. UNCHANGED <<auth2fa, spent>>
        BY <1>7, <3>1 DEF ConfirmLast
      <4> QED BY <3>0, <4>1
    <3>2. CASE c # NoSecret
      <4>1. u \in Users
        <5>1. tx[r] # Idle /\ tx[r].kind = "confirm" /\ tx[r].ok
          BY <1>7 DEF ConfirmLast
        <5>2. LockOK
          BY <1>0
        <5> HIDE DEF Inv, TypeOK
        <5> QED BY <3>2, <5>1, <5>2 DEF LockOK, Doing
      <4>2. /\ Spendable(auth2fa[u], c)
            /\ auth2fa' = [auth2fa EXCEPT ![u] = Spend(@, c)]
            /\ spent' = [spent EXCEPT ![o] = [user |-> u, secret |-> c, under |-> auth2fa[u].binding]]
        BY <1>7, <3>2 DEF ConfirmLast
      <4>3. auth2fa[u] \in Factors
        <5>1. auth2fa[u] \in Factors \cup {NoFactor}
          BY <1>0, <4>1 DEF TypeOK
        <5>2. auth2fa[u] # NoFactor
          BY <4>2 DEF Spendable, StepIsNew, CodeIsThere
        <5> QED BY <5>1, <5>2
      <4>4. auth2fa[u].binding \in Nat
        BY <4>3 DEF Factors
      <4>5. c \in Secrets
        BY <2>1, <3>2
      <4> HIDE DEF o, u, c
      <4>6. auth2fa' \in [Users -> Factors \cup {NoFactor}]
        BY <3>0, <4>1, <4>2, <4>3, <4>5, SpendFacts
      <4>7. spent' \in [Operations -> [user : Users, secret : Secrets, under : Nat] \cup {NoSecret}]
        BY <3>0, <4>1, <4>2, <4>4, <4>5
      <4> QED BY <4>6, <4>7
    <3> QED BY <3>1, <3>2
  <2> QED BY <1>0, <1>7, <2>1, <2>2, <2>3, <2>4 DEF ConfirmLast, TypeOK
<1>8. ASSUME NEW r \in Requests, Rollback(r) PROVE TypeOK'
  BY <1>0, <1>8 DEF Rollback, TypeOK
<1>9. ASSUME NEW r \in Requests, DeleteFound(r) PROVE TypeOK'
  <2>1. applied' \in [Operations -> Nat]
    <3>1. CASE tx[r].kind = "login"
      <4>1. applied' = [applied EXCEPT ![tx[r].op] = @ + 1]
        BY <1>9, <3>1 DEF DeleteFound
      <4>2. applied \in [Operations -> Nat] /\ tx[r].op \in Operations
        BY <1>0, <1>9, WorkFacts DEF DeleteFound, TypeOK
      <4> QED BY <4>1, <4>2
    <3>2. CASE tx[r].kind # "login"
      <4>1. applied' = [applied EXCEPT ![tx[r].op] = @]
        BY <1>9, <3>2 DEF DeleteFound
      <4> QED BY <1>0, <4>1 DEF TypeOK
    <3> QED BY <3>1, <3>2
  <2> QED BY <1>0, <1>9, <2>1, RowFacts DEF DeleteFound, TypeOK
<1>10. ASSUME NEW r \in Requests, NEW o \in Operations,
              RevokeBegin(r, o) \/ LoginBegin(r, o) \/ CleanBegin(r, o)
       PROVE  TypeOK'
  <2>1. row[o].token \in Nat
    BY <1>0 DEF TypeOK, Rows
  <2>2. \A k \in {"delete", "login"} : [kind |-> k, op |-> o, token |-> row[o].token] \in Works
    BY <2>1 DEF Works
  <2> QED BY <1>0, <1>10, <2>2 DEF RevokeBegin, LoginBegin, CleanBegin, BeginDelete, TypeOK
<1>11. ASSUME NEW o \in Operations,
              ApplyOperation(o) \/ ApplyTOTP(o) \/ ApplyPassword(o) \/ ApplyRecovery(o)
       PROVE  TypeOK'
  <2> DEFINE u == row[o].user
  <2>1. GoneRow \in Rows
    BY RowFacts
  <2>2. /\ auth2fa' \in [Users -> Factors \cup {NoFactor}]
        /\ minted' \in [Users -> Nat]
    <3>1. CASE ApplyOperation(o)
      BY <1>0, <3>1 DEF ApplyOperation, TypeOK
    <3>2. CASE ApplyTOTP(o)
      <4>1. ValidSteps \subseteq Nat
        BY <1>0 DEF ValidSteps, TypeOK
      <4>2. PICK s \in ValidSteps : Bind(u, "totp", s)
        BY <3>2 DEF ApplyTOTP
      <4>3. ASSUME u \in Users
            PROVE  Binding("totp", minted[u] + 1, s) \in Factors /\ minted[u] + 1 \in Nat
        BY <1>0, <4>1, <4>3, BindingFacts DEF TypeOK
      <4> QED BY <1>0, <4>2, <4>3 DEF Bind, TypeOK
    <3>3. CASE ApplyPassword(o)
      <4>1. ASSUME u \in Users
            PROVE  Binding("password", minted[u] + 1, 0) \in Factors /\ minted[u] + 1 \in Nat
        BY <1>0, <4>1, BindingFacts DEF TypeOK
      <4>2. /\ minted' = [minted EXCEPT ![u] = @ + 1]
            /\ auth2fa' = [auth2fa EXCEPT ![u] = Binding("password", minted[u] + 1, 0)]
        BY <3>3 DEF ApplyPassword, Bind
      <4>3. auth2fa \in [Users -> Factors \cup {NoFactor}] /\ minted \in [Users -> Nat]
        BY <1>0 DEF TypeOK
      <4> QED BY <4>1, <4>2, <4>3
    <3>4. CASE ApplyRecovery(o)
      <4>1. ASSUME u \in Users
            PROVE  [auth2fa[u] EXCEPT !.codes = RecoveryCodes(minted[u] + 1)] \in Factors
        <5>1. auth2fa[u] \in Factors /\ RecoveryCodes(minted[u] + 1) \in SUBSET Secrets
          <6>1. auth2fa[u] \in Factors \cup {NoFactor} /\ minted[u] + 1 \in Nat
            BY <1>0, <4>1 DEF TypeOK
          <6>2. auth2fa[u] # NoFactor
            BY <3>4 DEF ApplyRecovery
          <6> QED BY <6>1, <6>2, BindingFacts
        <5> QED BY <5>1, CodesFacts
      <4>2. auth2fa' = [auth2fa EXCEPT ![u] = [@ EXCEPT !.codes = RecoveryCodes(minted[u] + 1)]]
        BY <3>4 DEF ApplyRecovery
      <4>3. minted' = [minted EXCEPT ![u] = @ + 1]
        BY <3>4 DEF ApplyRecovery
      <4>4. auth2fa \in [Users -> Factors \cup {NoFactor}] /\ minted \in [Users -> Nat]
        BY <1>0 DEF TypeOK
      <4>5. auth2fa' \in [Users -> Factors \cup {NoFactor}]
        BY <4>1, <4>2, <4>4
      <4>6. minted' \in [Users -> Nat]
        <5>1. ASSUME u \in Users PROVE minted[u] + 1 \in Nat
          BY <4>4, <5>1
        <5> QED BY <4>3, <4>4, <5>1
      <4> QED BY <4>5, <4>6
    <3> QED BY <1>11, <3>1, <3>2, <3>3, <3>4
  <2>3. Consume(o) /\ UNCHANGED <<clock, tx, wrong, pending, spent>>
    BY <1>11 DEF ApplyOperation, ApplyTOTP, ApplyPassword, ApplyRecovery, Consume
  <2> QED BY <1>0, <2>1, <2>2, <2>3 DEF Consume, TypeOK
<1>12. ASSUME NEW o \in Operations, Resend(o) \/ Expire(o) \/ ResendAllowed(o)
       PROVE  TypeOK'
  <2>1. row' \in [Operations -> Rows]
    <3>0. row \in [Operations -> Rows] /\ row[o] \in Rows /\ row[o].token + 1 \in Nat
      BY <1>0 DEF TypeOK, Rows
    <3>1. CASE Resend(o)
      <4>1. row' = [row EXCEPT ![o] = [row[o] EXCEPT !.token = row[o].token + 1,
                      !.attempts = MaxAttempts, !.live = TRUE, !.resends = row[o].resends - 1,
                      !.ready = FALSE]]
        BY <3>1 DEF Resend
      <4>2. row[o].resends - 1 \in Nat
        BY <3>0, <3>1 DEF Resend, Rows
      <4> QED BY <3>0, <4>1, <4>2, LimitsAssumption, RowUpdateFacts
    <3>2. CASE Expire(o)
      BY <3>0, <3>2, RowUpdateFacts DEF Expire
    <3>3. CASE ResendAllowed(o)
      BY <3>0, <3>3, RowUpdateFacts DEF ResendAllowed
    <3> QED BY <1>12, <3>1, <3>2, <3>3
  <2> QED BY <1>0, <1>12, <2>1 DEF Resend, Expire, ResendAllowed, TypeOK
<1>13. CASE Tick
  BY <1>0, <1>13 DEF Tick, TypeOK
<1>14. CASE UNCHANGED vars
  BY <1>0, <1>14 DEF vars, TypeOK
<1> QED
  BY <1>1, <1>2, <1>3, <1>4, <1>5, <1>6, <1>7, <1>8, <1>9, <1>10, <1>11, <1>12, <1>13, <1>14 DEF Next

----------------------------------------------------------------------------
(* What a request relies on while it is at work *)

\* A step in which requests only end keeps LockOK if it leaves the row of a confirmation
\* opened with an attempt, the row of a creation unused, and never revives a row.
LEMMA LockKept ==
  ASSUME LockOK, TypeOK,
         \A r \in Requests : tx'[r] # Idle => tx'[r] = tx[r],
         \A r \in Requests : tx'[r] # Idle /\ tx[r].kind = "confirm" =>
           /\ row'[tx[r].op].status = row[tx[r].op].status
           /\ row'[tx[r].op].user = row[tx[r].op].user
           /\ row'[tx[r].op].attempts > 0,
         \A r \in Requests : tx'[r] # Idle /\ tx[r].kind \in {"create", "open"} =>
           row'[tx[r].op].status = row[tx[r].op].status,
         \A o \in Operations :
           /\ row[o].status # "unused" => row'[o].status # "unused"
           /\ row[o].status \in {"confirmed", "gone"} => row'[o].status \in {"confirmed", "gone"}
  PROVE  LockOK'
<1>1. \A r \in Requests : tx'[r] # Idle => tx[r] # Idle /\ tx'[r] = tx[r]
  OBVIOUS
<1>2. \A r \in Requests : tx[r] # Idle =>
        tx[r].op \in Operations /\ (tx[r].kind = "open" => tx[r].victims \in SUBSET Operations)
  BY WorkFacts
<1> QED
  BY <1>1, <1>2 DEF LockOK, Doing

\* Every step keeps it.
LEMMA LockNext ==
  ASSUME Inv, TypeOK', [Next]_vars
  PROVE  LockOK'
<1> USE DEF history
<1>0. TypeOK /\ LockOK /\ ChainOK
  BY DEF Inv
<1>w. \A r \in Requests : tx[r] # Idle =>
        tx[r].op \in Operations /\ (tx[r].kind = "open" => tx[r].victims \in SUBSET Operations)
  BY <1>0, WorkFacts
<1>d. DOMAIN tx = Requests /\ DOMAIN row = Operations
  BY <1>0 DEF TypeOK
<1>1. ASSUME NEW r \in Requests, NEW o \in Operations, NEW u \in Users \cup {NilUser}, NEW n \in Names,
             CreateOperation(r, o, u, n)
      PROVE  LockOK'
  <2>1. ActionsFor(u) # <<>> /\ (u \notin Users => ActionsFor(u) = <<"email">>)
    BY DEF ActionsFor
  <2>2. row[o].status = "unused" /\ \A q \in Requests : tx[q] # Idle => tx[q].op # o
    BY <1>1 DEF CreateOperation
  <2>3. tx' = [tx EXCEPT ![r] = [kind |-> "create", op |-> o, user |-> u, name |-> n,
                                 actions |-> ActionsFor(u)]]
        /\ row' = row
    BY <1>1 DEF CreateOperation
  <2> HIDE DEF ActionsFor
  <2> QED BY <1>0, <1>d, <2>1, <2>2, <2>3 DEF LockOK, Doing
<1>2. ASSUME NEW r \in Requests, OpenDelete(r) PROVE LockOK'
  <2>1. \A v \in SameKind(tx[r].user, tx[r].name) : row[v].status # "unused"
    BY DEF SameKind, InTable
  <2>2. /\ tx[r] # Idle /\ tx[r].kind = "create"
        /\ tx' = [tx EXCEPT ![r] = [kind |-> "open", op |-> tx[r].op, user |-> tx[r].user,
                                    name |-> tx[r].name, actions |-> tx[r].actions,
                                    victims |-> SameKind(tx[r].user, tx[r].name)]]
        /\ row' = row
    BY <1>2 DEF OpenDelete
  <2> QED BY <1>0, <1>d, <2>1, <2>2 DEF LockOK, Doing
<1>3. ASSUME NEW r \in Requests, OpenInsert(r) PROVE LockOK'
  <2> DEFINE o == tx[r].op
  <2>1. /\ tx[r] # Idle /\ tx[r].kind = "open"
        /\ \A v \in tx[r].victims : ~Locked(v)
        /\ row' = [v \in Operations |->
                     IF v = o THEN NewOperation(tx[r].user, tx[r].name, tx[r].actions)
                     ELSE IF v \in tx[r].victims THEN GoneRow ELSE row[v]]
        /\ tx' = [tx EXCEPT ![r] = Idle]
    BY <1>3 DEF OpenInsert
  <2>2. row[o].status = "unused" /\ o \in Operations
    BY <1>0, <1>w, <2>1 DEF LockOK, Doing
  <2>3. NewOperation(tx[r].user, tx[r].name, tx[r].actions).status = "opened"
    BY DEF NewOperation
  <2>4. GoneRow.status = "gone"
    BY RowFacts
  <2>5. \A q \in Requests : tx'[q] # Idle => q # r /\ tx'[q] = tx[q] /\ tx[q] # Idle
    BY <1>d, <2>1
  <2>6. \A v \in tx[r].victims : row[v].status # "unused"
    BY <1>0, <2>1 DEF LockOK, Doing
  <2>7. ASSUME NEW q \in Requests, tx'[q] # Idle, tx[q].kind = "confirm"
        PROVE  row'[tx[q].op] = row[tx[q].op]
    <3>1. tx[q] # Idle /\ row[tx[q].op].status = "opened" /\ tx[q].op \in Operations
      BY <1>0, <1>w, <2>5, <2>7 DEF LockOK, Doing
    <3>2. tx[q].op \notin tx[r].victims
      BY <2>1, <2>7, <3>1 DEF Locked
    <3> QED BY <2>1, <2>2, <3>1, <3>2
  <2>8. ASSUME NEW q \in Requests, tx'[q] # Idle, tx[q].kind \in {"create", "open"}
        PROVE  row'[tx[q].op] = row[tx[q].op]
    <3>1. tx[q] # Idle /\ row[tx[q].op].status = "unused" /\ tx[q].op \in Operations
      BY <1>0, <1>w, <2>5, <2>8 DEF LockOK, Doing
    <3>2. tx[q].op # o
      BY <1>0, <2>1, <2>5, <2>8, <3>1 DEF LockOK, Doing
    <3> QED BY <2>1, <2>6, <3>1, <3>2
  <2>9. \A v \in Operations :
          /\ row[v].status # "unused" => row'[v].status # "unused"
          /\ row[v].status \in {"confirmed", "gone"} => row'[v].status \in {"confirmed", "gone"}
    BY <2>1, <2>2, <2>3, <2>4
  <2>10. \A q \in Requests : tx'[q] # Idle /\ tx[q].kind = "confirm" => row[tx[q].op].attempts > 0
    BY <1>0, <2>5 DEF LockOK, Doing
  <2> QED BY <1>0, <2>5, <2>7, <2>8, <2>9, <2>10, LockKept
<1>4. ASSUME NEW r \in Requests, NEW o \in Operations, ConfirmBegin(r, o) PROVE LockOK'
  <2>1. PICK out \in Outcomes(o) :
          tx' = [tx EXCEPT ![r] = [kind |-> "confirm", op |-> o, token |-> row[o].token,
                                   ok |-> out.ok, secret |-> out.secret]]
    BY <1>4 DEF ConfirmBegin
  <2>2. row[o].status = "opened" /\ row[o].attempts > 0 /\ row' = row
    BY <1>4 DEF ConfirmBegin
  <2>3. \A q \in Requests : tx[q] # Idle /\ tx[q].kind = "confirm" => tx[q].op # o
    BY <1>4 DEF ConfirmBegin, Locked
  <2>4. out.secret # NoSecret => row[o].user \in Users
    BY <1>0, <2>2, OutcomeFacts
  <2> QED BY <1>0, <1>d, <2>1, <2>2, <2>3, <2>4 DEF LockOK, Doing
<1>5. ASSUME NEW r \in Requests, tx[r] # Idle, tx[r].kind = "confirm", tx' = [tx EXCEPT ![r] = Idle],
             NEW x, row' = [row EXCEPT ![tx[r].op] = x], x.status \in {"opened", "confirmed"}
      PROVE  LockOK'
  <2>1. tx[r].op \in Operations /\ row[tx[r].op].status = "opened"
    BY <1>0, <1>w, <1>5 DEF LockOK, Doing
  <2>2. \A q \in Requests : tx'[q] # Idle => q # r /\ tx'[q] = tx[q] /\ tx[q] # Idle
    BY <1>d, <1>5
  <2>3. \A v \in Operations : row'[v] = IF v = tx[r].op THEN x ELSE row[v]
    BY <1>d, <1>5
  <2>4. \A q \in Requests : tx'[q] # Idle /\ tx[q].kind = "confirm" =>
          tx[q].op # tx[r].op /\ row[tx[q].op].attempts > 0 /\ tx[q].op \in Operations
    BY <1>0, <1>w, <1>5, <2>2 DEF LockOK, Doing
  <2>5. \A q \in Requests : tx'[q] # Idle /\ tx[q].kind \in {"create", "open"} =>
          tx[q].op # tx[r].op /\ tx[q].op \in Operations
    BY <1>0, <1>w, <2>1, <2>2 DEF LockOK, Doing
  <2> QED BY <1>0, <1>5, <2>1, <2>2, <2>3, <2>4, <2>5, LockKept
<1>6. ASSUME NEW r \in Requests, ConfirmFailed(r) PROVE LockOK'
  <2>1. row[tx[r].op] \in Rows /\ row[tx[r].op].attempts - 1 \in Nat /\ row[tx[r].op].status = "opened"
    <3>1. tx[r].op \in Operations /\ row[tx[r].op].attempts > 0 /\ row[tx[r].op].status = "opened"
      BY <1>0, <1>6, <1>w DEF ConfirmFailed, LockOK, Doing
    <3> QED BY <1>0, <3>1 DEF TypeOK, Rows
  <2> DEFINE x == [row[tx[r].op] EXCEPT !.attempts = row[tx[r].op].attempts - 1]
  <2>2. x.status = "opened"
    BY <2>1, RowFacts
  <2>3. row' = [row EXCEPT ![tx[r].op] = x] /\ tx' = [tx EXCEPT ![r] = Idle]
        /\ tx[r] # Idle /\ tx[r].kind = "confirm"
    BY <1>6 DEF ConfirmFailed
  <2> HIDE DEF x
  <2> QED BY <1>5, <2>2, <2>3
<1>7. ASSUME NEW r \in Requests, ConfirmLink(r) PROVE LockOK'
  <2>1. NextLink(tx[r].op).status = "opened"
    BY <1>0, <1>7, <1>w, NextLinkFacts DEF ConfirmLink, StillOpened
  <2> QED BY <1>5, <1>7, <2>1 DEF ConfirmLink
<1>8. ASSUME NEW r \in Requests, ConfirmLast(r) PROVE LockOK'
  <2>1. Confirmed(tx[r].op).status = "confirmed"
    BY <1>0, <1>8, <1>w, ConfirmedFacts DEF ConfirmLast
  <2> QED BY <1>5, <1>8, <2>1 DEF ConfirmLast
<1>9. ASSUME NEW r \in Requests, Rollback(r) PROVE LockOK'
  <2>1. \A q \in Requests : tx'[q] # Idle => tx'[q] = tx[q]
    BY <1>9, <1>d DEF Rollback
  <2> QED BY <1>0, <1>9, <2>1, LockKept DEF Rollback, LockOK, Doing
<1>10. ASSUME NEW o \in Operations, InTable(o), ~Locked(o), row' = [row EXCEPT ![o] = GoneRow],
              \A q \in Requests : tx'[q] # Idle => tx'[q] = tx[q]
       PROVE  LockOK'
  <2>1. \A v \in Operations : row'[v] = IF v = o THEN GoneRow ELSE row[v]
    BY <1>d, <1>10
  <2>2. \A q \in Requests : tx'[q] # Idle /\ tx[q].kind = "confirm" =>
          tx[q].op # o /\ row[tx[q].op].attempts > 0 /\ tx[q].op \in Operations
    BY <1>0, <1>w, <1>10 DEF LockOK, Doing, Locked
  <2>3. \A q \in Requests : tx'[q] # Idle /\ tx[q].kind \in {"create", "open"} =>
          tx[q].op # o /\ tx[q].op \in Operations
    BY <1>0, <1>w, <1>10 DEF LockOK, Doing, InTable
  <2> QED BY <1>0, <1>10, <2>1, <2>2, <2>3, RowFacts, LockKept
<1>11. ASSUME NEW r \in Requests, DeleteFound(r) PROVE LockOK'
  <2>1. \A q \in Requests : tx'[q] # Idle => tx'[q] = tx[q]
    BY <1>11, <1>d DEF DeleteFound
  <2> QED BY <1>10, <1>11, <1>w, <2>1 DEF DeleteFound, Found
<1>12. ASSUME NEW o \in Operations,
              ApplyOperation(o) \/ ApplyTOTP(o) \/ ApplyPassword(o) \/ ApplyRecovery(o)
       PROVE  LockOK'
  <2>1. Applicable(o) /\ Consume(o)
    BY <1>12 DEF ApplyOperation, ApplyTOTP, ApplyPassword, ApplyRecovery
  <2> QED BY <1>10, <2>1 DEF Applicable, Consume, InTable
<1>13. ASSUME NEW r \in Requests, NEW o \in Operations,
              RevokeBegin(r, o) \/ LoginBegin(r, o) \/ CleanBegin(r, o)
       PROVE  LockOK'
  <2>1. PICK k \in {"delete", "login"} :
          /\ tx' = [tx EXCEPT ![r] = [kind |-> k, op |-> o, token |-> row[o].token]]
          /\ k = "login" => row[o].status = "confirmed"
          /\ row' = row
    BY <1>13 DEF RevokeBegin, LoginBegin, CleanBegin, BeginDelete
  <2> QED BY <1>0, <1>d, <2>1 DEF LockOK, Doing
<1>14. ASSUME NEW o \in Operations, Resend(o) \/ Expire(o) \/ ResendAllowed(o)
       PROVE  LockOK'
  <2>1. /\ tx' = tx
        /\ \A v \in Operations : row'[v].status = row[v].status /\ row'[v].user = row[v].user
        /\ \A v \in Operations : row[v].attempts > 0 => row'[v].attempts > 0
    BY <1>0, <1>14, UpdateFacts
  <2> QED BY <1>0, <1>w, <2>1, LockKept DEF LockOK, Doing
<1>15. CASE Tick
  BY <1>0, <1>15 DEF Tick, LockOK, Doing
<1>16. CASE UNCHANGED vars
  BY <1>0, <1>16 DEF vars, LockOK, Doing
<1> QED
  BY <1>1, <1>2, <1>3, <1>4, <1>6, <1>7, <1>8, <1>9, <1>11, <1>12, <1>13, <1>14, <1>15, <1>16 DEF Next

----------------------------------------------------------------------------
(* Links, guesses *)

\* One resend less gives as many attempts as the new code gets.
LEMMA ResendArithmetic ==
  ASSUME NEW a \in Nat, NEW n \in Nat
  PROVE  /\ a * n \in Nat
         /\ a + a * n = a * (n + 1)
         /\ n > 0 => a + a * (n - 1) = a * n
  OBVIOUS

\* The two sums of GuessOK bound the wrong answers.
LEMMA GuessBound ==
  ASSUME TypeOK, GuessOK
  PROVE  GuessesBounded
<1> SUFFICES ASSUME NEW o \in Operations, row[o].status = "opened"
             PROVE  wrong[o] <= IF Sendable(Head(row[o].actions))
                                THEN MaxAttempts * (MaxResends + 1) ELSE MaxAttempts
  BY DEF GuessesBounded
<1>1. wrong[o] \in Nat /\ row[o].attempts \in Nat /\ row[o].resends \in Nat
  BY DEF TypeOK, Rows
<1>2. MaxAttempts * row[o].resends \in Nat /\ MaxAttempts * (MaxResends + 1) \in Nat /\ MaxAttempts \in Nat
  BY <1>1, ResendArithmetic, LimitsAssumption
<1>3. CASE Sendable(Head(row[o].actions))
  <2>1. wrong[o] + row[o].attempts + MaxAttempts * row[o].resends <= MaxAttempts * (MaxResends + 1)
    BY <1>3 DEF GuessOK
  <2> HIDE DEF Sendable
  <2> QED BY <1>1, <1>2, <1>3, <2>1
<1>4. CASE ~Sendable(Head(row[o].actions))
  BY <1>1, <1>2, <1>4 DEF GuessOK
<1> QED
  BY <1>3, <1>4

\* Every step keeps the links left in agreement with the status.
LEMMA ChainNext ==
  ASSUME Inv, TypeOK', [Next]_vars
  PROVE  ChainOK'
<1> USE DEF history
<1>0. TypeOK /\ LockOK /\ ChainOK
  BY DEF Inv
<1>w. \A r \in Requests : tx[r] # Idle => tx[r].op \in Operations
  BY <1>0, WorkFacts
<1>d. /\ DOMAIN row = Operations /\ DOMAIN pending = Operations /\ DOMAIN applied = Operations
      /\ \A o \in Operations : pending[o] \in Nat /\ applied[o] \in Nat /\ row[o].actions \in Chains
  BY <1>0 DEF TypeOK, Rows
<1>1. ASSUME UNCHANGED <<row, pending, applied>> PROVE ChainOK'
  BY <1>0, <1>1 DEF ChainOK
<1>2. ASSUME NEW r \in Requests, OpenInsert(r) PROVE ChainOK'
  <2> DEFINE o == tx[r].op
             x == NewOperation(tx[r].user, tx[r].name, tx[r].actions)
  <2>1. /\ row' = [v \in Operations |-> IF v = o THEN x ELSE IF v \in tx[r].victims THEN GoneRow ELSE row[v]]
        /\ pending' = [pending EXCEPT ![o] = Len(tx[r].actions)]
        /\ applied' = applied
    BY <1>2 DEF OpenInsert
  <2>2. /\ o \in Operations /\ row[o].status = "unused" /\ tx[r].actions # <<>>
        /\ tx[r].user \notin Users => tx[r].actions = <<"email">>
    BY <1>0, <1>2, <1>w DEF OpenInsert, LockOK, Doing
  <2>3. x.status = "opened" /\ x.actions = tx[r].actions /\ x.user = tx[r].user
    BY DEF NewOperation
  <2>4. GoneRow.status = "gone"
    BY RowFacts
  <2> HIDE DEF x
  <2>5. applied[o] = 0
    BY <1>0, <2>2 DEF ChainOK
  <2> QED BY <1>0, <1>d, <2>1, <2>2, <2>3, <2>4, <2>5 DEF ChainOK
<1>3. ASSUME NEW r \in Requests, ConfirmFailed(r) PROVE ChainOK'
  <2> DEFINE o == tx[r].op
             x == [row[o] EXCEPT !.attempts = row[o].attempts - 1]
  <2>1. o \in Operations /\ row[o] \in Rows
    BY <1>0, <1>3, <1>w DEF ConfirmFailed, TypeOK
  <2>2. x.status = row[o].status /\ x.actions = row[o].actions /\ x.user = row[o].user
    BY <2>1 DEF Rows
  <2>3. row' = [row EXCEPT ![o] = x] /\ UNCHANGED <<pending, applied>>
    BY <1>3 DEF ConfirmFailed
  <2> HIDE DEF x
  <2> QED BY <1>0, <1>d, <2>1, <2>2, <2>3 DEF ChainOK
<1>4. ASSUME NEW r \in Requests, ConfirmLink(r) PROVE ChainOK'
  <2> DEFINE o == tx[r].op
  <2>1. /\ o \in Operations /\ row[o].status = "opened" /\ Len(row[o].actions) > 1
        /\ row' = [row EXCEPT ![o] = NextLink(o)]
        /\ pending' = [pending EXCEPT ![o] = @ - 1]
        /\ applied' = applied
    BY <1>4, <1>w DEF ConfirmLink, StillOpened
  <2>2. /\ NextLink(o).status = "opened" /\ NextLink(o).user = row[o].user
        /\ NextLink(o).actions = Tail(row[o].actions)
    BY <1>0, <2>1, NextLinkFacts
  <2>3. Tail(row[o].actions) # <<>> /\ Len(Tail(row[o].actions)) = Len(row[o].actions) - 1
    BY <1>d, <2>1, ChainFacts
  <2> HIDE DEF o
  <2>4. pending[o] = Len(row[o].actions) /\ applied[o] = 0
        /\ (row[o].user \notin Users => row[o].actions = <<"email">>)
    BY <1>0, <2>1 DEF ChainOK
  <2>5. row[o].user \in Users
    <3>1. Len(<<"email">>) = 1
      OBVIOUS
    <3>2. row[o].actions = <<"email">> => Len(row[o].actions) = 1
      BY <3>1, Zenon
    <3> HIDE DEF o
    <3>3. Len(row[o].actions) # 1
      BY <1>d, <2>1, ChainFacts
    <3> QED BY <2>4, <3>2, <3>3, Zenon
  <2>6. \A v \in Operations : /\ row'[v] = IF v = o THEN NextLink(o) ELSE row[v]
                              /\ pending'[v] = IF v = o THEN pending[o] - 1 ELSE pending[v]
    BY <1>d, <2>1
  <2>7. /\ row'[o].status = "opened" /\ row'[o].actions # <<>> /\ row'[o].user \in Users
        /\ pending'[o] = Len(row'[o].actions) /\ applied'[o] = 0
    <3>1. row'[o] = NextLink(o) /\ pending'[o] = pending[o] - 1
      BY <2>1, <2>6
    <3> QED BY <2>1, <2>2, <2>3, <2>4, <2>5, <3>1
  <2>8. \A v \in Operations : v # o => row'[v] = row[v] /\ pending'[v] = pending[v]
    BY <2>6
  <2> QED BY <1>0, <2>1, <2>7, <2>8 DEF ChainOK
<1>5. ASSUME NEW r \in Requests, ConfirmLast(r) PROVE ChainOK'
  <2> DEFINE o == tx[r].op
  <2>1. /\ o \in Operations /\ row[o].status = "opened" /\ Len(row[o].actions) = 1
        /\ row' = [row EXCEPT ![o] = Confirmed(o)]
        /\ pending' = [pending EXCEPT ![o] = @ - 1]
        /\ applied' = applied
    BY <1>5, <1>w DEF ConfirmLast, StillOpened
  <2>2. Confirmed(o).status = "confirmed"
    BY <1>0, <2>1, ConfirmedFacts
  <2> HIDE DEF o
  <2>3. pending[o] = 1 /\ applied[o] = 0
    BY <1>0, <2>1 DEF ChainOK
  <2>4. \A v \in Operations : /\ row'[v] = IF v = o THEN Confirmed(o) ELSE row[v]
                              /\ pending'[v] = IF v = o THEN 0 ELSE pending[v]
    BY <1>d, <2>1, <2>3
  <2> QED BY <1>0, <1>d, <2>1, <2>2, <2>3, <2>4 DEF ChainOK
<1>6. ASSUME NEW o \in Operations, row' = [row EXCEPT ![o] = GoneRow], pending' = pending,
             \/ applied' = applied
             \/ row[o].status = "confirmed" /\ applied' = [applied EXCEPT ![o] = @ + 1]
      PROVE  ChainOK'
  BY <1>0, <1>d, <1>6, RowFacts DEF ChainOK
<1>7. ASSUME NEW r \in Requests, DeleteFound(r) PROVE ChainOK'
  <2> DEFINE o == tx[r].op
  <2>1. /\ o \in Operations /\ row' = [row EXCEPT ![o] = GoneRow] /\ pending' = pending
        /\ tx[r] # Idle /\ row[o].status \in {"opened", "confirmed"}
    BY <1>7, <1>w DEF DeleteFound, Found, InTable
  <2>2. CASE tx[r].kind = "login"
    <3>1. row[o].status = "confirmed"
      BY <1>0, <2>1, <2>2 DEF LockOK, Doing
    <3>2. applied' = [applied EXCEPT ![o] = @ + 1]
      BY <1>7, <2>2 DEF DeleteFound
    <3> QED BY <1>6, <2>1, <3>1, <3>2
  <2>3. CASE tx[r].kind # "login"
    <3>1. applied' = [applied EXCEPT ![o] = @]
      BY <1>7, <2>3 DEF DeleteFound
    <3>2. applied' = applied
      BY <1>0, <3>1 DEF TypeOK
    <3> QED BY <1>6, <2>1, <3>2
  <2> QED BY <2>2, <2>3
<1>8. ASSUME NEW o \in Operations,
             ApplyOperation(o) \/ ApplyTOTP(o) \/ ApplyPassword(o) \/ ApplyRecovery(o)
      PROVE  ChainOK'
  <2>1. Applicable(o) /\ Consume(o)
    BY <1>8 DEF ApplyOperation, ApplyTOTP, ApplyPassword, ApplyRecovery
  <2> QED BY <1>6, <2>1 DEF Applicable, Consume
<1>9. ASSUME NEW o \in Operations, Resend(o) \/ Expire(o) \/ ResendAllowed(o)
      PROVE  ChainOK'
  <2>1. /\ UNCHANGED <<pending, applied>>
        /\ \A v \in Operations : row'[v].status = row[v].status /\ row'[v].user = row[v].user
                                 /\ row'[v].actions = row[v].actions
    BY <1>0, <1>9, UpdateFacts
  <2> QED BY <1>0, <2>1 DEF ChainOK
<1>10. ASSUME \/ \E r \in Requests : OpenDelete(r) \/ Rollback(r)
              \/ \E r \in Requests, o \in Operations :
                   \/ \E u \in Users \cup {NilUser}, n \in Names : CreateOperation(r, o, u, n)
                   \/ ConfirmBegin(r, o) \/ RevokeBegin(r, o) \/ LoginBegin(r, o) \/ CleanBegin(r, o)
              \/ Tick
              \/ UNCHANGED vars
       PROVE  UNCHANGED <<row, pending, applied>>
  BY <1>10 DEF OpenDelete, Rollback, CreateOperation, ConfirmBegin, RevokeBegin, LoginBegin, CleanBegin,
               BeginDelete, Tick, vars
<1> QED
  BY <1>1, <1>2, <1>3, <1>4, <1>5, <1>7, <1>8, <1>9, <1>10 DEF Next

\* Every step keeps the sum of the answers given and the answers left.
LEMMA GuessNext ==
  ASSUME Inv, TypeOK', [Next]_vars
  PROVE  GuessOK'
<1> USE DEF history
<1>0. TypeOK /\ LockOK /\ GuessOK
  BY DEF Inv
<1>w. \A r \in Requests : tx[r] # Idle => tx[r].op \in Operations
  BY <1>0, WorkFacts
<1>d. /\ DOMAIN row = Operations /\ DOMAIN wrong = Operations
      /\ \A o \in Operations : row[o] \in Rows /\ wrong[o] \in Nat
                               /\ row[o].attempts \in Nat /\ row[o].resends \in Nat
  BY <1>0 DEF TypeOK, Rows
<1>a. /\ MaxAttempts \in Nat
      /\ MaxAttempts + MaxAttempts * MaxResends = MaxAttempts * (MaxResends + 1)
      /\ MaxAttempts * MaxResends \in Nat
      /\ \A n \in Nat : MaxAttempts * n \in Nat
      /\ \A n \in Nat : n > 0 => MaxAttempts + MaxAttempts * (n - 1) = MaxAttempts * n
  BY ResendArithmetic, LimitsAssumption
<1>b. /\ 0 + MaxAttempts <= MaxAttempts
      /\ 0 + MaxAttempts + MaxAttempts * MaxResends <= MaxAttempts * (MaxResends + 1)
  <2>1. \A a, b, c \in Nat : a + b = c => 0 + a + b <= c
    OBVIOUS
  <2>2. MaxAttempts * (MaxResends + 1) \in Nat
    BY <1>a, LimitsAssumption
  <2>3. 0 + MaxAttempts <= MaxAttempts
    BY <1>a
  <2> QED BY <1>a, <2>1, <2>2, <2>3
<1>1. ASSUME UNCHANGED <<row, wrong>> PROVE GuessOK'
  BY <1>0, <1>1 DEF GuessOK
<1>2. ASSUME NEW o \in Operations,
             \A v \in Operations : v # o /\ row'[v].status = "opened" =>
               row'[v] = row[v] /\ wrong'[v] = wrong[v],
             row'[o].status = "opened" =>
               IF Sendable(Head(row'[o].actions))
               THEN wrong'[o] + row'[o].attempts + MaxAttempts * row'[o].resends
                      <= MaxAttempts * (MaxResends + 1)
               ELSE wrong'[o] + row'[o].attempts <= MaxAttempts
      PROVE  GuessOK'
  BY <1>0, <1>2, Zenon DEF GuessOK
<1>3. ASSUME NEW r \in Requests, OpenInsert(r) PROVE GuessOK'
  <2> DEFINE o == tx[r].op
             x == NewOperation(tx[r].user, tx[r].name, tx[r].actions)
  <2>1. /\ o \in Operations
        /\ row' = [v \in Operations |-> IF v = o THEN x ELSE IF v \in tx[r].victims THEN GoneRow ELSE row[v]]
        /\ wrong' = [v \in Operations |-> IF v = o \/ v \in tx[r].victims THEN 0 ELSE wrong[v]]
    BY <1>3, <1>w DEF OpenInsert
  <2>2. x.attempts = MaxAttempts /\ x.resends = MaxResends
    BY DEF NewOperation
  <2> HIDE DEF x, o
  <2>3. row'[o] = x /\ wrong'[o] = 0
    BY <2>1
  <2>4. \A v \in Operations : v # o /\ row'[v].status = "opened" => row'[v] = row[v] /\ wrong'[v] = wrong[v]
    BY <2>1, RowFacts
  <2>5. wrong'[o] + row'[o].attempts + MaxAttempts * row'[o].resends <= MaxAttempts * (MaxResends + 1)
        /\ wrong'[o] + row'[o].attempts <= MaxAttempts
    BY <1>b, <2>2, <2>3, Zenon
  <2> QED BY <1>2, <2>1, <2>4, <2>5
<1>4. ASSUME NEW r \in Requests, ConfirmFailed(r) PROVE GuessOK'
  <2> DEFINE o == tx[r].op
             x == [row[o] EXCEPT !.attempts = row[o].attempts - 1]
  <2>1. /\ o \in Operations /\ row[o].status = "opened" /\ row[o].attempts > 0
        /\ row' = [row EXCEPT ![o] = x]
        /\ wrong' = [wrong EXCEPT ![o] = @ + 1]
    BY <1>0, <1>4, <1>w DEF ConfirmFailed, LockOK, Doing
  <2>2. x.actions = row[o].actions /\ x.attempts = row[o].attempts - 1 /\ x.resends = row[o].resends
    BY <1>d, <2>1 DEF Rows
  <2> HIDE DEF x, o
  <2>3. row'[o] = x /\ wrong'[o] = wrong[o] + 1
    BY <1>d, <2>1
  <2>4. \A v \in Operations : v # o => row'[v] = row[v] /\ wrong'[v] = wrong[v]
    BY <1>d, <2>1
  <2>5. /\ wrong'[o] + row'[o].attempts = wrong[o] + row[o].attempts
        /\ row'[o].resends = row[o].resends /\ row'[o].actions = row[o].actions
    BY <1>d, <2>1, <2>2, <2>3
  <2> QED BY <1>0, <1>2, <2>1, <2>4, <2>5 DEF GuessOK
<1>5. ASSUME NEW r \in Requests, ConfirmLink(r) PROVE GuessOK'
  <2> DEFINE o == tx[r].op
  <2>1. /\ o \in Operations /\ Len(row[o].actions) > 1
        /\ row' = [row EXCEPT ![o] = NextLink(o)]
        /\ wrong' = [wrong EXCEPT ![o] = 0]
    BY <1>5, <1>w DEF ConfirmLink
  <2>2. /\ NextLink(o).attempts = MaxAttempts /\ NextLink(o).actions = Tail(row[o].actions)
        /\ Sendable(Head(Tail(row[o].actions))) => NextLink(o).resends = MaxResends
    BY <1>0, <2>1, NextLinkFacts
  <2> HIDE DEF o
  <2>3. row'[o] = NextLink(o) /\ wrong'[o] = 0
    BY <1>d, <2>1
  <2>4. \A v \in Operations : v # o => row'[v] = row[v] /\ wrong'[v] = wrong[v]
    BY <1>d, <2>1
  <2>5. /\ wrong'[o] + row'[o].attempts <= MaxAttempts
        /\ Sendable(Head(row'[o].actions)) =>
             wrong'[o] + row'[o].attempts + MaxAttempts * row'[o].resends <= MaxAttempts * (MaxResends + 1)
    BY <1>b, <2>2, <2>3, Zenon
  <2> QED BY <1>2, <2>1, <2>4, <2>5
<1>6. ASSUME NEW r \in Requests, ConfirmLast(r) PROVE GuessOK'
  <2> DEFINE o == tx[r].op
  <2>1. /\ o \in Operations
        /\ row' = [row EXCEPT ![o] = Confirmed(o)]
        /\ wrong' = [wrong EXCEPT ![o] = 0]
    BY <1>6, <1>w DEF ConfirmLast
  <2>2. Confirmed(o).status = "confirmed"
    BY <1>0, <2>1, ConfirmedFacts
  <2> HIDE DEF o
  <2>3. /\ row'[o].status # "opened"
        /\ \A v \in Operations : v # o => row'[v] = row[v] /\ wrong'[v] = wrong[v]
    BY <1>d, <2>1, <2>2
  <2> QED BY <1>2, <2>1, <2>3
<1>7. ASSUME NEW o \in Operations, row' = [row EXCEPT ![o] = GoneRow],
             \A v \in Operations : v # o => wrong'[v] = wrong[v]
      PROVE  GuessOK'
  <2>1. row'[o].status # "opened" /\ \A v \in Operations : v # o => row'[v] = row[v]
    BY <1>d, <1>7, RowFacts
  <2> QED BY <1>2, <1>7, <2>1
<1>8. ASSUME NEW r \in Requests, DeleteFound(r) PROVE GuessOK'
  <2>1. tx[r].op \in Operations /\ row' = [row EXCEPT ![tx[r].op] = GoneRow]
    BY <1>8, <1>w DEF DeleteFound
  <2>2. \A v \in Operations : v # tx[r].op => wrong'[v] = wrong[v]
    BY <1>8, <1>d DEF DeleteFound
  <2> QED BY <1>7, <2>1, <2>2
<1>9. ASSUME NEW o \in Operations,
             ApplyOperation(o) \/ ApplyTOTP(o) \/ ApplyPassword(o) \/ ApplyRecovery(o)
      PROVE  GuessOK'
  <2>1. Consume(o)
    BY <1>9 DEF ApplyOperation, ApplyTOTP, ApplyPassword, ApplyRecovery
  <2> QED BY <1>7, <2>1 DEF Consume
<1>10. ASSUME NEW o \in Operations, Resend(o) \/ Expire(o) \/ ResendAllowed(o)
       PROVE  GuessOK'
  <2> SUFFICES ASSUME NEW v \in Operations, row'[v].status = "opened"
               PROVE  IF Sendable(Head(row'[v].actions))
                      THEN wrong'[v] + row'[v].attempts + MaxAttempts * row'[v].resends
                             <= MaxAttempts * (MaxResends + 1)
                      ELSE wrong'[v] + row'[v].attempts <= MaxAttempts
    BY DEF GuessOK
  <2>1. /\ row'[v].status = row[v].status /\ row'[v].actions = row[v].actions /\ wrong' = wrong
        /\ \/ row'[v].attempts = row[v].attempts /\ row'[v].resends = row[v].resends
           \/ /\ Sendable(Head(row[v].actions)) /\ row[v].resends > 0
              /\ row'[v].attempts = MaxAttempts /\ row'[v].resends = row[v].resends - 1
    BY <1>0, <1>10, UpdateFacts
  <2>2. CASE row'[v].attempts = row[v].attempts /\ row'[v].resends = row[v].resends
    BY <1>0, <2>1, <2>2 DEF GuessOK
  <2>3. CASE /\ Sendable(Head(row[v].actions)) /\ row[v].resends > 0
             /\ row'[v].attempts = MaxAttempts /\ row'[v].resends = row[v].resends - 1
    <3>1. wrong[v] + row[v].attempts + MaxAttempts * row[v].resends <= MaxAttempts * (MaxResends + 1)
      BY <1>0, <2>1, <2>3 DEF GuessOK
    <3>2. row'[v].attempts + MaxAttempts * row'[v].resends = MaxAttempts * row[v].resends
      BY <1>a, <1>d, <2>3
    <3>3. MaxAttempts * row[v].resends \in Nat /\ MaxAttempts * (MaxResends + 1) \in Nat
          /\ MaxAttempts * row'[v].resends \in Nat /\ row'[v].attempts \in Nat
      BY <1>a, <1>d, <2>3, LimitsAssumption
    <3>4. wrong'[v] + row'[v].attempts + MaxAttempts * row'[v].resends <= MaxAttempts * (MaxResends + 1)
      BY <1>d, <2>1, <3>1, <3>2, <3>3
    <3> QED BY <2>1, <2>3, <3>4
  <2> QED BY <2>1, <2>2, <2>3
<1>11. ASSUME \/ \E r \in Requests : OpenDelete(r) \/ Rollback(r)
              \/ \E r \in Requests, o \in Operations :
                   \/ \E u \in Users \cup {NilUser}, n \in Names : CreateOperation(r, o, u, n)
                   \/ ConfirmBegin(r, o) \/ RevokeBegin(r, o) \/ LoginBegin(r, o) \/ CleanBegin(r, o)
              \/ Tick
              \/ UNCHANGED vars
       PROVE  UNCHANGED <<row, wrong>>
  BY <1>11 DEF OpenDelete, Rollback, CreateOperation, ConfirmBegin, RevokeBegin, LoginBegin, CleanBegin,
               BeginDelete, Tick, vars
<1> QED
  BY <1>1, <1>3, <1>4, <1>5, <1>6, <1>8, <1>9, <1>10, <1>11 DEF Next

----------------------------------------------------------------------------
(* Secrets *)

\* A factor bound now, or a batch of codes generated now, knows no secret spent before.
LEMMA SecretRenewed ==
  ASSUME TypeOK, TypeOK', SecretOK, NEW u \in Users, spent' = spent,
         minted' = [minted EXCEPT ![u] = @ + 1],
         \A v \in Users : v # u => auth2fa'[v] = auth2fa[v],
         auth2fa'[u].codes = RecoveryCodes(minted[u] + 1),
         \/ auth2fa'[u].binding = minted[u] + 1
         \/ /\ auth2fa[u] # NoFactor
            /\ auth2fa'[u].binding = auth2fa[u].binding
            /\ auth2fa'[u].step = auth2fa[u].step
  PROVE  SecretOK'
<1>1. minted[u] \in Nat /\ minted'[u] = minted[u] + 1 /\ \A v \in Users : v # u => minted'[v] = minted[v]
  BY DEF TypeOK
<1>2. \A c \in auth2fa'[u].codes : c.kind = "recovery" /\ c.of = minted[u] + 1
  BY <1>1, BindingFacts
<1>3. \A v \in Users : auth2fa[v] # NoFactor => auth2fa[v].binding \in Nat /\ auth2fa[v].step \in Nat
  BY DEF TypeOK, Factors
<1>4. ASSUME NEW v \in Users, auth2fa'[v] # NoFactor
      PROVE  /\ auth2fa'[v].binding <= minted'[v]
             /\ \A c \in auth2fa'[v].codes : c.kind = "recovery" /\ c.of <= minted'[v]
  <2>1. CASE v = u
    BY <1>1, <1>2, <1>3, <1>4, <2>1 DEF SecretOK
  <2>2. CASE v # u
    BY <1>1, <1>4, <2>2 DEF SecretOK
  <2> QED BY <2>1, <2>2
<1>5. ASSUME NEW o \in Operations, spent[o] # NoSecret
      PROVE  SpentIsRefused(spent[o])'
  <2> DEFINE s == spent[o]
  <2>1. /\ s.user \in Users /\ s.under \in Nat /\ s.secret.of \in Nat /\ s.secret.n \in Nat
    BY <1>5 DEF TypeOK, Secrets
  <2>2. SpentIsRefused(s)
    BY <1>5 DEF SecretOK
  <2>3. spent'[o] = s
    OBVIOUS
  <2> HIDE DEF s
  <2>4. CASE s.user = u
    <3>1. s.under <= minted'[u]
      BY <1>1, <2>1, <2>2, <2>4 DEF SpentIsRefused
    <3>2. s.secret.kind = "totp" =>
            (auth2fa'[u] # NoFactor /\ auth2fa'[u].binding = s.under => auth2fa'[u].step >= s.secret.n)
      BY <1>1, <1>3, <2>1, <2>2, <2>4 DEF SpentIsRefused
    <3>3. s.secret.kind = "recovery" => s.secret.of <= minted'[u] /\ s.secret \notin auth2fa'[u].codes
      BY <1>1, <1>2, <2>1, <2>2, <2>4 DEF SpentIsRefused
    <3> QED BY <2>3, <2>4, <3>1, <3>2, <3>3 DEF SpentIsRefused
  <2>5. CASE s.user # u
    BY <1>1, <2>1, <2>2, <2>3, <2>5 DEF SpentIsRefused
  <2> QED BY <2>4, <2>5
<1>6. SecretsSpentOnce'
  BY DEF SecretOK, SecretsSpentOnce
<1> QED
  BY <1>4, <1>5, <1>6 DEF SecretOK

\* Spending a secret makes the factor refuse it, and it was not spent before.
LEMMA SecretSpent ==
  ASSUME TypeOK, TypeOK', SecretOK, NEW u \in Users, NEW o \in Operations, NEW c \in Secrets,
         Spendable(auth2fa[u], c),
         auth2fa' = [auth2fa EXCEPT ![u] = Spend(@, c)],
         spent' = [spent EXCEPT ![o] = [user |-> u, secret |-> c, under |-> auth2fa[u].binding]],
         minted' = minted
  PROVE  SecretOK'
<1> DEFINE f == auth2fa[u]
           g == Spend(f, c)
           e == [user |-> u, secret |-> c, under |-> f.binding]
<1>1. f # NoFactor /\ f \in Factors /\ f.binding \in Nat /\ f.step \in Nat /\ minted[u] \in Nat
  BY DEF TypeOK, Factors, Spendable, StepIsNew, CodeIsThere
<1>2. auth2fa'[u] = g /\ \A v \in Users : v # u => auth2fa'[v] = auth2fa[v]
  BY DEF TypeOK
<1>3. spent'[o] = e /\ \A p \in Operations : p # o => spent'[p] = spent[p]
  BY DEF TypeOK
<1>4. c.kind \in {"totp", "recovery"} /\ c.n \in Nat /\ c.of \in Nat
  BY DEF Secrets
<1>5. /\ c.kind = "totp" => f.step < c.n
      /\ c.kind = "recovery" => c \in f.codes
  BY DEF Spendable, StepIsNew, CodeIsThere
<1>6. /\ g.binding = f.binding
      /\ c.kind = "totp" => g.step = c.n /\ g.codes = f.codes
      /\ c.kind = "recovery" => g.step = f.step /\ g.codes = f.codes \ {c}
  BY <1>1, SpendFacts
<1>7. e.user = u /\ e.secret = c /\ e.under = f.binding
  OBVIOUS
<1>8. f.binding <= minted[u] /\ \A d \in f.codes : d.kind = "recovery" /\ d.of <= minted[u]
  BY <1>1 DEF SecretOK
<1> HIDE DEF f, g, e
<1>9. ASSUME NEW v \in Users, auth2fa'[v] # NoFactor
      PROVE  /\ auth2fa'[v].binding <= minted'[v]
             /\ \A d \in auth2fa'[v].codes : d.kind = "recovery" /\ d.of <= minted'[v]
  <2>1. CASE v = u
    BY <1>2, <1>4, <1>6, <1>8, <2>1
  <2>2. CASE v # u
    BY <1>2, <1>9, <2>2 DEF SecretOK
  <2> QED BY <2>1, <2>2
<1>10. ASSUME NEW p \in Operations, p # o, spent'[p] # NoSecret
       PROVE  SpentIsRefused(spent[p])'
  <2> DEFINE s == spent[p]
  <2>1. SpentIsRefused(s) /\ s.user \in Users /\ s.secret.n \in Nat
    BY <1>3, <1>10 DEF SecretOK, TypeOK, Secrets
  <2>2. spent'[p] = s
    BY <1>3, <1>10
  <2> HIDE DEF s
  <2>3. CASE s.user = u
    <3>1. g.step >= f.step /\ g.codes \subseteq f.codes /\ g.step \in Nat
      BY <1>1, <1>4, <1>5, <1>6
    <3> QED BY <1>1, <1>2, <1>6, <2>1, <2>2, <2>3, <3>1 DEF SpentIsRefused, f
  <2>4. CASE s.user # u
    BY <1>2, <2>1, <2>2, <2>4 DEF SpentIsRefused
  <2> QED BY <2>3, <2>4
<1>11. SpentIsRefused(spent[o])'
  <2>1. spent'[o].user = u /\ spent'[o].secret = c /\ spent'[o].under = f.binding
    BY <1>3, <1>7
  <2> QED BY <1>1, <1>2, <1>4, <1>5, <1>6, <1>8, <2>1 DEF SpentIsRefused
<1>12. ASSUME NEW p \in Operations, e # NoSecret
       PROVE  spent[p] # e
  BY <1>1, <1>4, <1>5, <1>7, <1>12 DEF SecretOK, SpentIsRefused, f
<1>13. SecretsSpentOnce'
  BY <1>3, <1>12 DEF SecretOK, SecretsSpentOnce
<1> QED
  BY <1>3, <1>9, <1>10, <1>11, <1>13 DEF SecretOK

\* What a step does to the second factors: nothing, spend a secret, renew one user's
\* factor or codes, or disable one user's factor.
LEMMA FactorStep ==
  ASSUME Inv, TypeOK', [Next]_vars
  PROVE  \/ UNCHANGED <<auth2fa, minted, spent>>
         \/ \E u \in Users, o \in Operations, c \in Secrets :
              /\ Spendable(auth2fa[u], c)
              /\ auth2fa' = [auth2fa EXCEPT ![u] = Spend(@, c)]
              /\ spent' = [spent EXCEPT ![o] = [user |-> u, secret |-> c, under |-> auth2fa[u].binding]]
              /\ minted' = minted
         \/ \E u \in Users :
              /\ minted' = [minted EXCEPT ![u] = @ + 1]
              /\ spent' = spent
              /\ \A v \in Users : v # u => auth2fa'[v] = auth2fa[v]
              /\ auth2fa'[u].codes = RecoveryCodes(minted[u] + 1)
              /\ \/ auth2fa[u] = NoFactor /\ auth2fa'[u].binding = minted[u] + 1
                 \/ /\ auth2fa[u] # NoFactor
                    /\ auth2fa'[u].binding = auth2fa[u].binding
                    /\ auth2fa'[u].step = auth2fa[u].step
         \/ /\ UNCHANGED <<minted, spent>>
            /\ \A v \in Users : auth2fa'[v] \in {auth2fa[v], NoFactor}
<1> USE DEF history
<1>0. TypeOK /\ LockOK
  BY DEF Inv
<1>d. DOMAIN auth2fa = Users /\ DOMAIN minted = Users
  <2>1. auth2fa \in [Users -> Factors \cup {NoFactor}] /\ minted \in [Users -> Nat]
    BY <1>0 DEF TypeOK
  <2> QED BY <2>1
<1> DEFINE Kept == UNCHANGED <<auth2fa, minted, spent>>
           Spends == \E u \in Users, o \in Operations, c \in Secrets :
              /\ Spendable(auth2fa[u], c)
              /\ auth2fa' = [auth2fa EXCEPT ![u] = Spend(@, c)]
              /\ spent' = [spent EXCEPT ![o] = [user |-> u, secret |-> c, under |-> auth2fa[u].binding]]
              /\ minted' = minted
           Renews == \E u \in Users :
              /\ minted' = [minted EXCEPT ![u] = @ + 1]
              /\ spent' = spent
              /\ \A v \in Users : v # u => auth2fa'[v] = auth2fa[v]
              /\ auth2fa'[u].codes = RecoveryCodes(minted[u] + 1)
              /\ \/ auth2fa[u] = NoFactor /\ auth2fa'[u].binding = minted[u] + 1
                 \/ /\ auth2fa[u] # NoFactor
                    /\ auth2fa'[u].binding = auth2fa[u].binding
                    /\ auth2fa'[u].step = auth2fa[u].step
           Disables == /\ UNCHANGED <<minted, spent>>
                       /\ \A v \in Users : auth2fa'[v] \in {auth2fa[v], NoFactor}
<1>1. ASSUME \/ \E r \in Requests : \/ OpenDelete(r) \/ OpenInsert(r) \/ ConfirmFailed(r) \/ ConfirmLink(r)
                                    \/ DeleteFound(r) \/ Rollback(r)
             \/ \E r \in Requests, o \in Operations :
                  \/ \E u \in Users \cup {NilUser}, n \in Names : CreateOperation(r, o, u, n)
                  \/ ConfirmBegin(r, o) \/ RevokeBegin(r, o) \/ LoginBegin(r, o) \/ CleanBegin(r, o)
             \/ \E o \in Operations : Resend(o) \/ Expire(o) \/ ResendAllowed(o)
             \/ Tick
             \/ UNCHANGED vars
      PROVE  Kept
  <2>1. ASSUME NEW r \in Requests,
               \/ OpenDelete(r) \/ OpenInsert(r) \/ ConfirmFailed(r) \/ ConfirmLink(r)
               \/ DeleteFound(r) \/ Rollback(r)
        PROVE  Kept
    BY <2>1 DEF OpenDelete, OpenInsert, ConfirmFailed, ConfirmLink, DeleteFound, Rollback
  <2>2. ASSUME NEW r \in Requests, NEW o \in Operations,
               \/ \E u \in Users \cup {NilUser}, n \in Names : CreateOperation(r, o, u, n)
               \/ ConfirmBegin(r, o)
        PROVE  Kept
    BY <2>2 DEF CreateOperation, ConfirmBegin
  <2>3. ASSUME NEW r \in Requests, NEW o \in Operations,
               RevokeBegin(r, o) \/ LoginBegin(r, o) \/ CleanBegin(r, o)
        PROVE  Kept
    BY <2>3 DEF RevokeBegin, LoginBegin, CleanBegin, BeginDelete
  <2>4. ASSUME NEW o \in Operations, Resend(o) \/ Expire(o) \/ ResendAllowed(o)
        PROVE  Kept
    BY <2>4 DEF Resend, Expire, ResendAllowed
  <2>5. CASE Tick \/ UNCHANGED vars
    BY <2>5 DEF Tick, vars
  <2> HIDE DEF Kept
  <2> QED BY <1>1, <2>1, <2>2, <2>3, <2>4, <2>5
<1>2. ASSUME NEW r \in Requests, ConfirmLast(r) PROVE Kept \/ Spends
  <2> DEFINE o == tx[r].op
             u == row[o].user
             c == tx[r].secret
  <2>1. o \in Operations /\ c \in Secrets \cup {NoSecret} /\ (c # NoSecret => u \in Users)
    BY <1>0, <1>2, WorkFacts DEF ConfirmLast, LockOK, Doing
  <2>2. minted' = minted
        /\ IF c = NoSecret THEN UNCHANGED <<auth2fa, spent>>
           ELSE /\ Spendable(auth2fa[u], c)
                /\ auth2fa' = [auth2fa EXCEPT ![u] = Spend(@, c)]
                /\ spent' = [spent EXCEPT ![o] = [user |-> u, secret |-> c, under |-> auth2fa[u].binding]]
    BY <1>2 DEF ConfirmLast
  <2> HIDE DEF o, u, c
  <2>3. CASE c = NoSecret BY <2>2, <2>3
  <2>4. CASE c # NoSecret
    <3>1. c \in Secrets /\ u \in Users
      BY <2>1, <2>4
    <3> QED BY <2>1, <2>2, <2>4, <3>1, Zenon
  <2> QED BY <2>3, <2>4
<1>3. ASSUME NEW o \in Operations, ApplyOperation(o) PROVE Disables
  BY <1>3, <1>d DEF ApplyOperation, Consume
<1>4. ASSUME NEW u, NEW type, NEW n, Bind(u, type, n), spent' = spent
      PROVE  Kept \/ Renews
  <2>1. auth2fa[u] = NoFactor /\ minted' = [minted EXCEPT ![u] = @ + 1]
        /\ auth2fa' = [auth2fa EXCEPT ![u] = Binding(type, minted[u] + 1, n)]
    BY <1>4 DEF Bind
  <2>2. CASE u \in Users
    <3>1. auth2fa'[u] = Binding(type, minted[u] + 1, n) /\ \A v \in Users : v # u => auth2fa'[v] = auth2fa[v]
      BY <1>d, <2>1, <2>2
    <3>2. auth2fa'[u].codes = RecoveryCodes(minted[u] + 1) /\ auth2fa'[u].binding = minted[u] + 1
      BY <3>1 DEF Binding
    <3> QED BY <1>4, <2>1, <2>2, <3>1, <3>2
  <2>3. CASE u \notin Users
    <3>1. auth2fa' = auth2fa /\ minted' = minted
      BY <1>0, <2>1, <2>3 DEF TypeOK
    <3> QED BY <1>4, <3>1
  <2> QED BY <2>2, <2>3
<1>5. ASSUME NEW o \in Operations, ApplyTOTP(o) \/ ApplyPassword(o) PROVE Kept \/ Renews
  <2>1. spent' = spent /\ \E type, n : Bind(row[o].user, type, n)
    BY <1>5 DEF ApplyTOTP, ApplyPassword, Consume
  <2> HIDE DEF Kept, Renews
  <2> QED BY <1>4, <2>1
<1>6. ASSUME NEW o \in Operations, ApplyRecovery(o) PROVE Kept \/ Renews
  <2> DEFINE u == row[o].user
             g == [auth2fa[u] EXCEPT !.codes = RecoveryCodes(minted[u] + 1)]
  <2>1. auth2fa[u] # NoFactor /\ spent' = spent /\ auth2fa' = [auth2fa EXCEPT ![u] = g]
        /\ minted' = [minted EXCEPT ![u] = @ + 1]
    BY <1>6 DEF ApplyRecovery, Consume
  <2>2. CASE u \in Users
    <3>1. auth2fa[u] \in Factors /\ RecoveryCodes(minted[u] + 1) \in SUBSET Secrets
      BY <1>0, <2>1, <2>2, BindingFacts DEF TypeOK
    <3>2. g.codes = RecoveryCodes(minted[u] + 1) /\ g.binding = auth2fa[u].binding
          /\ g.step = auth2fa[u].step
      BY <3>1, CodesFacts
    <3> HIDE DEF g, u
    <3>3. auth2fa'[u] = g /\ \A v \in Users : v # u => auth2fa'[v] = auth2fa[v]
      BY <1>d, <2>1, <2>2
    <3> QED BY <2>1, <2>2, <3>2, <3>3
  <2>3. CASE u \notin Users
    <3> HIDE DEF g, u
    <3>1. auth2fa' = auth2fa /\ minted' = minted
      BY <1>0, <2>1, <2>3 DEF TypeOK
    <3> QED BY <2>1, <3>1
  <2> QED BY <2>2, <2>3
<1> HIDE DEF Kept, Spends, Renews, Disables
<1>7. Kept \/ Spends \/ Renews \/ Disables
  BY <1>1, <1>2, <1>3, <1>5, <1>6 DEF Next
<1> QED
  BY <1>7 DEF Kept, Spends, Renews, Disables

\* Every step keeps spent secrets refused.
LEMMA SecretNext ==
  ASSUME Inv, TypeOK', [Next]_vars
  PROVE  SecretOK'
<1>0. TypeOK /\ SecretOK
  BY DEF Inv
<1>1. CASE UNCHANGED <<auth2fa, minted, spent>>
  BY <1>0, <1>1 DEF SecretOK, SpentIsRefused, SecretsSpentOnce
<1>2. CASE /\ UNCHANGED <<minted, spent>>
           /\ \A v \in Users : auth2fa'[v] \in {auth2fa[v], NoFactor}
  <2>1. \A o \in Operations : spent[o] # NoSecret => spent[o].user \in Users
    BY <1>0 DEF TypeOK
  <2> QED BY <1>0, <1>2, <2>1 DEF SecretOK, SpentIsRefused, SecretsSpentOnce
<1> QED
  BY <1>0, <1>1, <1>2, FactorStep, SecretRenewed, SecretSpent

----------------------------------------------------------------------------
(* The theorems *)

\* The initial state satisfies the invariant.
LEMMA InvInit ==
  ASSUME Init
  PROVE  Inv
<1>1. TypeOK
  <2>1. row \in [Operations -> Rows]
    BY RowFacts DEF Init
  <2>2. auth2fa \in [Users -> Factors \cup {NoFactor}]
    BY BindingFacts DEF Init
  <2> QED BY <2>1, <2>2 DEF Init, TypeOK
<1>2. \A o \in Operations : row[o].status = "unused" /\ applied[o] = 0 /\ spent[o] = NoSecret
  BY RowFacts DEF Init
<1>3. \A r \in Requests : tx[r] = Idle
  BY DEF Init
<1>4. LockOK
  BY <1>3 DEF LockOK, Doing
<1>5. ChainOK
  BY <1>2 DEF ChainOK
<1>6. GuessOK
  BY <1>2 DEF GuessOK
<1>7. SecretOK
  <2>1. ASSUME NEW u \in Users, auth2fa[u] # NoFactor
        PROVE  /\ auth2fa[u].binding <= minted[u]
               /\ \A c \in auth2fa[u].codes : c.kind = "recovery" /\ c.of <= minted[u]
    <3>1. minted[u] = 1 /\ auth2fa[u] \in {Binding("password", 1, 0), Binding("totp", 1, 0)}
      BY <2>1 DEF Init
    <3>2. auth2fa[u].binding = 1 /\ auth2fa[u].codes = RecoveryCodes(1)
      BY <3>1 DEF Binding
    <3> QED BY <3>1, <3>2, BindingFacts
  <2> QED BY <1>2, <2>1 DEF SecretOK, SecretsSpentOnce
<1> QED
  BY <1>1, <1>4, <1>5, <1>6, <1>7 DEF Inv

\* Every step keeps the invariant.
LEMMA InvNext ==
  ASSUME Inv, [Next]_vars
  PROVE  Inv'
  BY TypeNext, LockNext, ChainNext, GuessNext, SecretNext DEF Inv

\* Inv holds in every reachable state.
THEOREM InvAlways == Spec => []Inv
<1>1. Init => Inv
  BY InvInit
<1>2. Inv /\ [Next]_vars => Inv'
  BY InvNext
<1> QED
  BY <1>1, <1>2, PTL DEF Spec

\* Secure operations are safe however requests overlap: the codes answered as wrong are
\* bounded, an operation is applied at most once and only after its whole chain of
\* confirmations was passed, and a TOTP or recovery code confirms one operation at most.
THEOREM OperationsAreSafe ==
  Spec => [](TypeOK /\ GuessesBounded /\ AppliedOnceConfirmed /\ SecretsSpentOnce)
<1>1. Inv => TypeOK /\ GuessesBounded /\ AppliedOnceConfirmed /\ SecretsSpentOnce
  <2> SUFFICES ASSUME Inv PROVE TypeOK /\ GuessesBounded /\ AppliedOnceConfirmed /\ SecretsSpentOnce
    OBVIOUS
  <2>1. GuessesBounded
    BY GuessBound DEF Inv
  <2>2. AppliedOnceConfirmed
    BY DEF Inv, ChainOK, AppliedOnceConfirmed
  <2> QED BY <2>1, <2>2 DEF Inv, SecretOK
<1> QED
  BY <1>1, InvAlways, PTL

\* Rows, factors and requests keep their shape, and the counters their CHECKs.
THEOREM TypeIsKept == Spec => []TypeOK
BY OperationsAreSafe, PTL

\* However confirmations, resends and retries overlap, no more codes are answered as
\* wrong than the attempts of the codes sent.
THEOREM GuessesAreBounded == Spec => []GuessesBounded
BY OperationsAreSafe, PTL

\* An operation is applied at most once, and with no link of its chain left.
THEOREM AppliedOnce == Spec => []AppliedOnceConfirmed
BY OperationsAreSafe, PTL

\* Two operations are never confirmed by the same TOTP or recovery code, although both
\* requests may have verified it before either of them commits.
THEOREM SecretsAreSpentOnce == Spec => []SecretsSpentOnce
BY OperationsAreSafe, PTL

\* A second factor in force is never replaced without being disabled first, and the last
\* TOTP step accepted under it never moves back.
THEOREM FactorIsKept == Spec => FactorKept
<1>1. ASSUME Inv, Inv', [Next]_vars, NEW u \in Users, auth2fa[u] # NoFactor, auth2fa'[u] # NoFactor
      PROVE  /\ auth2fa'[u].binding = auth2fa[u].binding
             /\ auth2fa'[u].step >= auth2fa[u].step
  <2>0. TypeOK /\ TypeOK'
    BY <1>1 DEF Inv
  <2>1. auth2fa[u] \in Factors /\ auth2fa[u].step \in Nat /\ auth2fa \in [Users -> Factors \cup {NoFactor}]
    BY <1>1, <2>0 DEF TypeOK, Factors
  <2>2. CASE auth2fa'[u] = auth2fa[u]
    BY <2>1, <2>2
  <2>3. CASE auth2fa'[u] # auth2fa[u]
    <3>1. \/ \E c \in Secrets : Spendable(auth2fa[u], c) /\ auth2fa'[u] = Spend(auth2fa[u], c)
          \/ auth2fa'[u].binding = auth2fa[u].binding /\ auth2fa'[u].step = auth2fa[u].step
      BY <1>1, <2>0, <2>1, <2>3, FactorStep
    <3>2. ASSUME NEW c \in Secrets, Spendable(auth2fa[u], c), auth2fa'[u] = Spend(auth2fa[u], c)
          PROVE  auth2fa'[u].binding = auth2fa[u].binding /\ auth2fa'[u].step >= auth2fa[u].step
      <4>1. c.n \in Nat
        BY DEF Secrets
      <4>2. c.kind = "totp" => auth2fa[u].step < c.n
        BY <3>2 DEF Spendable, StepIsNew
      <4> QED BY <2>1, <3>2, <4>1, <4>2, SpendFacts
    <3> QED BY <2>1, <3>1, <3>2
  <2> QED BY <2>2, <2>3
<1>2. Inv /\ Inv' /\ [Next]_vars =>
        [\A u \in Users : auth2fa[u] # NoFactor /\ auth2fa'[u] # NoFactor =>
           /\ auth2fa'[u].binding = auth2fa[u].binding
           /\ auth2fa'[u].step >= auth2fa[u].step]_vars
  BY <1>1
<1> QED
  BY <1>2, InvAlways, PTL DEF Spec, FactorKept

====
