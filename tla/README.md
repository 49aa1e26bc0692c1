# Verification of go-components

TLA+ models of the stateful parts of this repository (Go packages under `src/`,
which work over PostgreSQL), the TLC configurations that check them on small
instances, and TLAPS proofs of the main safety properties for every instance.
`PROJECT.json` says for each definition which lines it models.

- [Components of the system](#components-of-the-system)
- [How the code is modelled](#how-the-code-is-modelled)
- [Modules](#modules): NodeMover, Queue, QueueSpec, Notifier, Settings,
  SecureOperation, Accounts, Session, SessionList, Activity
- [Runs](#runs)
- [Proofs](#proofs)
- [Where the code and its comments disagree](#where-the-code-and-its-comments-disagree)
- [What is not modelled](#what-is-not-modelled)
- [Plan](#plan)

## Components of the system

The repository is a library of components. An application creates the tables
(see the `_sample/migrations`), wires the components (`wire/`) and runs their
schedulers and processors, each in a single process; requests are served by as
many processes as it likes. All shared state is in the database: components
meet in tables, not in memory, except for the cache of mrsettings.

| component | state | operations | what is hard | what makes it correct |
|---|---|---|---|---|
| **mrordering** `NodeMover`, `NodePostgres` | columns `prev_field_id`, `next_field_id`, `order_index` of the application's table | insert to the first or last place, move (first, last, after a row), unlink | each call rewrites up to five rows; renumbering when the numbers between two neighbours run out | the pointers and the numbers describe one and the same list |
| **mrqueue** queue, consumers, changers, cleaners | `mrqueue`, `mrqueue_completed`, `mrqueue_errors` | append, read a batch, commit, reject, cancel; retry, time out, clean | several consumers, timeouts racing late commits, crashes anywhere | an item is completed at most once, never lost, never stuck |
| **mrmailer** producer, handler | the table of messages, one row per item of its queue | send, read, send out, delete with the item | the effect is outside of the database | number of sends is bounded; no message row without an item |
| **mrnotifier** notes, templates, builder | its own queue of notices, `mrnotifier_*` templates | send a notice, build it, hand the messages to mrmailer | building and handing over belong to one item | a notice leaves its queue exactly when its messages enter the next |
| **mrsettings** getter, setter, cache | the settings table, its log, a cache in memory | get, set, reload | the cache against concurrent changes | a reader sees a value that was set, the newest one in the end |
| **mrauth** secure operations | `secure_operations` | open, confirm, resend, revoke, apply, expire | two requests on one operation; a failed attempt must be counted | attempts are bounded; an operation is applied once, after its whole chain |
| **mrauth** second factor | `users_auth_2fa` | bind, disable, verify, spend, renew the codes | verification and commit are apart | a code is accepted once; a factor is not replaced by a stale operation |
| **mrauth** tokens | `auth_tokens` | issue a pair, exchange, repeat an exchange, log out, clean | exchanges, repetitions and logouts overlap | one refresh token per session; an ended session stays ended |
| **mrauth** sessions | `sessions`, `sessions_cleanup_queue`, `sessions_excess_queue` | open under two limits, list, close, drain, trim | limits are checked without locks; two workers; queues acknowledged after the work | an accepted token has its session; rows are reclaimed |
| **mrauth** users, registration | `users`, `users_realms`, the lock of signup | sign up, sign in, change the address, change the settings | owner, operation and profile are read at different times; requests are lost half way | a user is registered whole; a session belongs to who confirmed it and follows the profile |
| **mrauth** activity of users | `sessions`, `users_activity_stat`, `users_activity_log`, batches in memory | trace a request, write a batch, clean the log | batches overtake each other, fail half way and come again | the rows tell the latest visit; a request is logged again only for an insert that was applied and reported an error |
| **mrauth** log of operations, JWT, controllers | telemetry, none | | loss is accepted | |
| **wire** | none | order of tasks, construction | one task of several steps | which steps exclude each other |

Interactions: mrnotifier uses mrmailer, both use mrqueue; the use cases of
mrauth share `secure_operations`, the login consumes an operation in the
transaction that opens the session, and the scheduler of mrauth runs the
cleaners of tokens, operations, users and session rows one after another in one
task, the trimmer of sessions in another.

The hazards of this code, each at its line and with the properties that watch
it, are in `PROJECT.json`.

## How the code is modelled

*Grain.* What the code does in one SQL statement or one transaction nobody can
look into is one action. Where another process can get in between (between a
read outside of a transaction and the transaction, between `SELECT ... FOR
UPDATE` and `COMMIT`, between an `UPDATE` that locks a row and `COMMIT`) the
action is split, and the position of the request and what it has read are in a
variable (`job`, `tx`, `cleaner`, `trimmer`).

*Transactions* run in READ COMMITTED, the default of PostgreSQL: a statement
picks its rows among those committed when it starts, waits for a row that
another transaction has changed, and then looks at that row again, but not for
new ones. A failure rolls everything back; every transaction may fail.

*Time* is not a number where the code only asks whether a deadline has passed:
an action of the environment lets it pass, no earlier than the order of the
durations in the code allows. Where the code compares times with each other
(`updated_at` of settings, visits, TOTP steps) they are small numbers, which may
be equal.

*Data.* Identifiers, messages, tokens and users are model values; a code that a
user enters is the outcome of checking it. Random identifiers are never drawn
twice (the primary key would refuse the second one and roll back).

*History.* Variables marked as history record what a property talks about
(number of sends, wrong answers, closed sessions). No guard of a modelled
operation reads them, apart from the bound on failures and the choice of a fresh
identifier.

## Modules

### NodeMover, ListSpec, MCNodeMover

`NodeMover` has the three columns (`prev`, `next`, `oi`; SQL NULL is 0), the
rows of the table and the outcome of the last call. Each method of
`mrordering/service/node_mover.go` is one action that follows the method's
early returns in their order, and the repository methods it calls are operators
on the columns. The service opens no transaction; the module describes callers
that run a call in one transaction and one at a time.

`ListSpec` is what the names of the methods promise: which rows are listed, and
for each of them the set of rows ahead of it. A method puts one row right behind
a set of rows (`Place`), and all the others keep their order. `NodeMover` maps
the columns to it by `order_index` (`Ahead`) and implements it, as a whole and
method by method (`ListImplemented`, with `EachCallImplemented`, which rules out
that a call does what another one should do). `MCNodeMover` bounds the numbers.

`MoveAfterID` accepts an after-row that is not in the list. The moved row then
gets a previous row that has no number, and the next call that needs the first
row may answer with an internal error. The specification restricts the after-row
to listed rows, as a caller that picks a position from the list does.

### Queue

One queue of mrqueue with the producer and handler of mrmailer. `status`,
`attempts` and `due` are the columns of `mrqueue` (`due`: `updated_at` satisfies
the condition on time the status asks for), `completed`, `crashed`, `messages`
the other tables, `job` what each consumer does with each item. `Send` is the
producer; `ReadMessages`, `PreCommit`, `Commit`, `RejectSystem`, `RejectOther`,
`CancelMessages` are the calls go-core's message processor makes on a
`MessageConsumer`; `RetryToReady` and `ProcessingToRetry` the changer task;
`CleanForgotten`, `CleanCompleted`, `CleanCrashed` the cleaner task. Faults are
an exception in each of these calls, a restart of a consumer, and an item held
longer than `retryTimeout`. Batches are free choices among the rows that
qualify: `ORDER BY`, `LIMIT` and `SKIP LOCKED` can only make them fewer.

`JournalOutlivesQueue` is an assumption about the configuration: the expiry of
the journal is longer than an item stays queued. Where it is false, the cleaner
of the journal may delete the message of an item that is still queued. The
safety properties do not need the assumption (they are proved without it); that
items leave the queue does: an item without its message is read, reaches no
consumer, times out without losing an attempt, and so on for ever.

### QueueSpec

What `mrqueue` promises its users: an item is put in once, stays, and leaves
once, completed or dropped; and it does leave. `Queue` maps each item to its
place by `PlaceOf` and implements it (`QueueImplemented`): an item counts as done
when the transaction of `preCommit` and `Commit` committed, and as dropped when
it left in any other way.

### Notifier, MCNotifier

A note from its producer to the messages it becomes. The queue of notes is an
instance of `Queue` over the notes (`Notes`), the queue of messages behind it is
`QueueSpec` (`Mail`), so that the composition relies on what `Queue` was shown to
implement. The module adds what the handler does between reading and committing:
the template in the language of the note or, after any error of reading that, in
the default one, edited meanwhile; the builders of the notices, which fail as a whole; and the commit, which puts
the messages into the second queue in the transaction that takes the note out of
the first. `WholePlace` says where a note is for its sender, who knows of one
queue only: on its way until it and all its messages have left. With it the two
queues together implement `QueueSpec` once more, over the notes (`QueuesAreOne`).
`MCNotifier` has templates for what can go wrong: one that is missing, one
without a receiver, one whose observer has no address.

### Settings, MCSettings

The table of settings, the log of changes, the setter and both getters. A call of
the setter is a transaction of an `UPDATE`, which locks the row, and an `INSERT`
into the log; `NOW()` is the time it began at, so that rows are committed out of
the order of their times. The reloader reads (`ReloadFetch`) and replaces the
cache (`ReloadStore`) in two steps, between which rows change. `late` marks the
settings whose last commit has a time that others committed before; the reload
may have passed it, and these are the exceptions of the properties.

### SecureOperation, MCSecureOperation

`row` is `secure_operations`, `auth2fa` is `users_auth_2fa`. An operation is
opened (`CreateOperation`, `OpenDelete`, `OpenInsert`: the chain is read off the
user's factor, older operations of the kind are deleted, the row is inserted),
confirmed link by link (`ConfirmBegin` locks and checks, then `ConfirmFailed`,
`ConfirmLink` or `ConfirmLast` commits), resent, revoked or consumed by a login
(`RevokeBegin`, `LoginBegin`, `DeleteFound`), deleted by the cleaner
(`CleanBegin`), and applied by its use case (`ApplyOperation`, `ApplyTOTP`,
`ApplyPassword`, `ApplyRecovery`, which lock the row, change the factor and
delete the row in one transaction).

Points where the model follows the code rather than an intuition: the factor is
verified against a copy read without a lock, so `spent` records the binding the
secret was verified under; the deletion of older operations does not look at
their status; the cleaner compares only the token when it deletes; links that go
to a phone are refused and roll back, so that chains start with an email.

### Session, MCSession

The token pairs and sessions of one user in one realm. `row` is `sessions`;
`of`, `refresh` and `access` are `auth_tokens`, a pair at a time; `cleanup` and
`excess` the two queues of the workers. A login counts the open sessions outside
of any transaction (`LoginCount`), signals the trimmer and perhaps refuses
(`LoginLimit`), then commits the session with its first pair (`LoginCommit`). An
exchange locks the token (`RotateBegin`) and commits (`RotateCommit`); the
repetition within the grace period only reads and is the state property
`RetryFindsPair`; outside of it the session is closed (`RotateReused`). `Logout`,
`CloseSession` and the trimmer revoke in two steps: the statement picks its rows
(`Revoking`, `TrimBegin`) and goes through once none of them is locked
(`RevokeCommit`, `TrimCommit`). The cleaner deletes tokens and queues their
sessions (`CleanRefresh`), the drainer deletes rows of sessions and acknowledges
(`DrainDelete`, `DrainAck`) in the same task; the trimmer is a task of its own.

Durations enter as an order: the grace period (60 s) is shorter than the life of
any token, and a refresh token outlives the access tokens of its session. The
access tokens that are out of force are not told apart, so that their deletion
has no action. Which sessions are in excess is a free choice of
`len(sessions) - limit` of them, which is how many `selectExcessSessions`
returns.

`CurrentSessionListed` names one exception: when a refresh token expires within
the very transaction that exchanges it, the anti-join of `DeleteOrphaned` sees an
expired token, and may delete the row of a session that gets a new pair a moment
later (the set `late`).

### Accounts, MCAccounts

Users, memberships of realms, addresses and settings, and every request that
changes them as a sequence of its reads and transactions: signup (which takes a
lock that must outlive the request, and give it back on an error), signin, a
change of address, a change of settings, and the login that turns a confirmed
operation into a user, a membership and a session (`OpenSession`, `LookUp`,
`Register`, `Bind`, `PrepareAuthorization`, `CommitSession`, named after
`session_open.go` and `authuser`). Requests fail at any step (`RequestFails`) or
are lost with their process (`RequestLost`). How an operation is confirmed is
`SecureOperation`'s: here an operation in the table may have been confirmed. A
session is reduced to the settings its next pair will carry, with `RenewBegin`
and `RenewCommit` for an exchange under way.

A statement that fails is one that was not applied; the lock of signup does not
expire while its request runs; the reads of one check are one step. `OneCodePerLock`
speaks of the codes signup sends itself: those sent again (`ResendCode`) are
`SecureOperation`'s.

### SessionList, MCSessionList

What a user sees, and what the trimmer closes, of the sessions `Session` only
counts. `rows` are the rows of the user and `ahead` gives, for each of them,
those before it in the order of the query (by `updated_at`, then by identifier);
a login puts its row behind any front of that order, a visit moves a row forward
to any place before its own, and the row at place *i* of an answer (`Ordered`) is
the one found with *i* - 1 of the others before it. `List.GetList` reads open
sessions, rows and the current row in three steps, and `ReplaceLast` is the
assignment to the last index, which panics on an empty list. `Pass` is the loop of
`selectExcessSessions`, a session (`Sort`) at a time; `TrimKeepsBest` says what
its comment promises: exactly the limit stays, and nothing that stays is worse,
by device and then by activity, than anything that goes. The initial states are
all users with up to four sessions. `SessionLimit` declares what `Session` and
`SessionList` have in common, the identifiers of sessions and the limit, so that
one module of proofs is about both.

### Activity, MCActivity

Requests become messages, messages batches, and a batch three statements that
commit one by one: `UpdateLastActivity`, `UpdateLastVisited`, `InsertLog`. Batches
are taken by several workers, fail at any statement, come again with others or
not, or are lost; sessions are opened and deleted meanwhile, a login writes the
same statistics beside them. A statement that reports an error has changed nothing
(`BatchFails`), or was applied all the same (`Unheard`): each is committed on its
own, and its reply may be lost or come after the handler's timeout. The collector that forms the batches is a library
and is modelled by all it may do.

## Runs

| run | instance | question |
|---|---|---|
| `node_mover` | 4 rows, step 2, numbers up to 6 | Do the columns stay one list, which is the list of ListSpec? A step of 2 leaves at most one free number between neighbours, so every way to renumber happens; the bound on numbers cuts off lists that only grow at the end |
| `queue` | 1 item, 3 consumers, 2 attempts, 4 faults | All safety properties, and the refinement of QueueSpec with its fairness. Three consumers hold the item one after another and commit, reject or cancel it late, through several timeouts and retries. Items meet only in the batches they are read in; what several of them may do to each other is left to the proofs, which are for any number |
| `secure_operation` | 2 operations, 2 requests, 1 attempt, 1 resend, 1 recovery code, 2 TOTP steps | All safety properties of operations and factors. Two operations can race for one factor, two requests for one operation, and attempts, resends and codes run out |
| `session` | 3 sessions, 3 pairs, 2 requests, a limit of 1 | All safety properties of sessions and tokens. Three pairs make a chain of two exchanges, or an exchange beside a login over the limit; two logins that overlap exceed the limit by one and have a third session to exceed the bound with; every exchange can race every logout |
| `session_live` | 2 sessions, 2 pairs, 1 request, 1 failure of a worker or queue | Is the row of every session deleted in the end, with a failure anywhere? |
| `session_logout` | 1 session, 2 requests | Does a logout revoke all tokens? (no, when it overlaps an exchange) |
| `session_list` | 4 sessions, one device or none, a limit of 2, 2 changes between the reads | Does the list show the current session and stay in bounds? Does the trimmer keep the best? Duplicates that go and duplicates that fill up the limit both occur |
| `settings` | 3 settings (number, list, string), 2 callers, 2 changes, 3 times, 2 faults | Does the cache serve what the table holds, and every change in the end? Two changes can overlap, commit in either order and with equal times, within one reload |
| `settings_reload` | 2 settings, 2 changes | Does a setting stay in the cache? (no) |
| `notifier` | 1 note, 2 consumers, 2 attempts, 4 messages, 1 edit of a template, 1 fault | Does a note become its messages once and whole, and go through the two queues as through one? The note can time out in the hands of one consumer and be built by the other from another template. Four messages are what the largest template makes |
| `accounts` | 2 users, 2 emails, 1 phone, 2 realms, 2 languages, 2 operations, 2 requests, 1 event | Are users registered whole, do sessions belong to their address? Two operations of one email can be confirmed in one realm or in two; the event is a fault, a change of settings or a membership withdrawn, wherever it falls |
| `activity` | 2 sessions, 2 workers, batches of 2, 2 requests, 2 ticks, 1 fault | Do the rows tell the latest visit? Two requests make one batch of two, or two batches that overtake each other; either may fail at any statement, or be applied and report an error, and come again |

`JournalOutlivesQueue` is TRUE in the runs, since the same run checks liveness.
In `accounts` each token of an operation is given out once, no request begins
without one, and only as many locks of signup expire as there are tokens for
another try. In `activity` only one member takes part, since members share
nothing but a batch.

Every property of a passing run has a mutant in `PROJECT.json`: a definition of
the model with a plausible bug (a dropped guard, a row not locked, two tasks
where there is one) with which TLC finds the property violated. Mutants stand
next to what they mutate, marked as such in a comment.

Deadlock is not checked (`CHECK_DEADLOCK FALSE`) where the supply of messages,
operations, sessions, tokens, changes or requests is finite: when it is used up,
the system is at rest. In `node_mover` it is checked.

*Fairness.* `Queue` assumes weak fairness of the changer and cleaner steps (the
scheduler runs its tasks periodically), of reading, of finishing an item that
was read, and of time. `Session` assumes it of the steps of a request once
begun, of the cleaner and the drainer, and of time; the trimmer needs none.
`Settings` assumes it of the reload, which the scheduler starts again and again,
`Notifier` what `Queue` does, and that the queue of messages keeps the promise of
`QueueSpec` (`Deliver`). No
new request and no failure is obliged to happen, and the number of failures is
finite (`MaxFaults`), which is the meaning of "the database recovers".

## Proofs

Each proof holds for every value of the constants that satisfies the
assumptions stated in the component's module (sets of any size, any limits).

Each property that a run checks has a theorem of its own, which follows from
the inductive invariant of its module.

**NodeMoverProofs.** `ListStaysConsistent`: `Spec => [](TypeOK /\
ListConsistent)`. `ListConsistent` is inductive as it stands, but not
provable action by action without structure. `Chain(K, p, q, o)` says of
arbitrary columns that they describe one list of the rows `K`. Three lemmas show
that the edits all methods are made of keep it: taking a row out
(`DetachChain`), renumbering above a border (`RenumberChain`), putting a row
into a gap (`AttachChain`). Each method is then a detachment, possibly a
renumbering, and an attachment (`Relocates`). `ListIsImplemented` is the
refinement of `ListSpec`: whatever numbers an attachment gives, the moved row
comes right behind the row it was put after and no two others change places
(`Places`, `RelocatePlaces`), so that each call is the step of `ListSpec` with
its name, and is refused where that is (`FailRefuses`); a call that finds its row
in place changes nothing, and there is nothing to change (`StaysPlaced`).
`InternalErrors` derives from the same invariant
that the assertions of the service never fire on a list that is not empty.

**QueueProofs.** `QueueIsSafe`: types, attempts, at most one commit, no orphaned
message, one consumer per item that never timed out, from `Inv`. It needs that
an item that was never appended has left no trace (`Fresh`), that a committed
item is out of the queue (`Once`), and that an item whose attempts are used up
is in the journal before the cleaner drops it from the queue (`Found`).
`SendsAreBounded` needs an account: the number of sends plus the consumers about
to send is at most the attempts used plus the timeouts plus one for a lease that
is out (`Account`, `Lease`, `Holders`; the cardinality of the holders is handled
by `HeldChange` and `HeldSame`). `ItemsLeaveForGood` is an action property from
`Inv`. `QueueImplementsSpec` is the safety part of the refinement of
`QueueSpec`: `StepSeen` shows that each step, seen through `PlaceOf`, lets items
enter, completes some, drops some, or changes nothing.

**SecureOperationProofs.** `OperationsAreSafe`: guesses are bounded, an
operation is applied once and after its whole chain, a secret is spent once.
`Inv` has five parts: `TypeOK`; `LockOK`, what a request has read under a lock
still holds at its commit, and one request at most is between the two;
`ChainOK`, the links left agree with the status and with the history; `GuessOK`,
wrong answers, attempts left and the attempts of resends left add up to no more
than the bound; `SecretOK`, the factor in force refuses whatever was spent under
it. `TypeNext`, `LockNext`, `ChainNext`, `GuessNext` and `SecretNext` show that a
step keeps each of them. `FactorIsKept` shows that no step replaces a factor in
force or moves its TOTP step back.

**SessionProofs.** All safety properties of `Session`. `SessionsAreSafe`
(`OneRefreshPerSession`, `RetryFindsPair`) and `EndedSessionsStayEnded` come from
`Inv`, which adds to the properties: `LocksOK`, an exchange under way holds the
lock of a token that is still enabled, alone; `RowsOK`, a session that has tokens
has or had a row, so that no login draws its identifier; `ScopeOK`, what a
revocation takes belongs to the sessions it closes. `StepKinds` reduces every
step to one of three: it opens a session with a pair, exchanges one pair for
another, or weakens pairs, and the preservation of each part is argued over
these.

`BurstsAreBounded` needs an account (`Account`): the open sessions plus the
requests that may still add one are at most the hard limit plus the requests
less one. Logins that counted fewer than the limit may add one, and so may an
exchange whose token expired after it was locked. `CurrentSessionIsListed` needs
`CoverOK`: the rows a revocation has picked are all the pairs in force of a
session, or they miss its enabled token (an exchange committed meanwhile), so
that a commit never takes the refresh token of a session and leaves an access
token. `ListOK` adds that a session with an enabled token keeps its row, and that
a token which expires during its exchange is the only way around it (`late`).

**SessionProofs, second part: SessionList.** `ListShows` and `TrimmerKeeps`, for any
number of sessions, devices and changes and any limit, are `ListShowsCurrent` and
`TrimKeepsBest`. They rest on two facts about operators. `OrderedIs`: the answer
of the query is a sequence without repetition, in the order of the rows, of rows
asked for, empty only if there are none; the places of an answer are all taken
since the rows found have different numbers of others before them, all below
their count (`RankTaken`); a row is left out only by a limit that the answer fills,
and then it is behind every row of the answer. `SelectKeepsBest`, the correctness of
`selectExcessSessions` for every sequence of more sessions than the limit: its
loop invariant (`Passed`) says that what was kept are firsts of their devices,
that a first one was passed over only when the limit was reached, by sessions
before it, that everything else waits as a candidate in its order, and that no
device was forgotten while the limit was not reached. From both follows
`TrimmerChoosesExcess`, the link between the two modules: what the algorithm takes of
the open sessions that have rows is always one of the sets among which `TrimChoose`
of `Session` chooses freely (`ExcessOf`), and it takes none only where `TrimChoose`
takes none. `Pass` is a recursive
function; that it exists (`PassExists`) and that its every value keeps the loop
invariant (`PassSorts`) is shown of a least number of sessions at which it would
not, by well-foundedness of the order on numbers. `ListInv` then says what
survives the steps of others between the reads: a session that had a row keeps
its device, so that the choice of the trimmer stays right (`TrimOK`), and a
deleted row never comes back, so that a list which was read empty finds no
current row later (`ShownOK`): this is why the assignment to the last index
cannot panic, although the code takes it without a look at the length.
`TablesOK` keeps the order of the rows linear through logins, visits and
deletions.

**SettingsProofs.** `SettingsAreFresh`: every cached value is the table's, unless
the setting is `late` or changed after the last reload, and every change is in
the log. `Inv` adds that nothing read is later than the latest commit, nor
anything cached than the last reload (`Times`); that the cache holds only what can
be parsed (`Parsed`); that a cached row is the row of the table, or the table's is
later than the last reload (`CacheCurrent`); and that a row fetched and not yet
stored is the row of the table, or the table's is later than everything fetched
(`FetchedCurrent`). The exception is a row committed with a time that others had
reached before, which is what `late` records.
`MaxIs` (here and in `ActivityProofs`) gives the greatest of a set of times, by
well-foundedness of the order on numbers.

**ActivityProofs.** Types, `RowIsLatestVisit`, and `LoggedOnceUnlessUnheard` for
what may be claimed of the log: nothing in it tells a record from its repetition,
so that an `INSERT` that was applied and reported an error logs its batch again,
and nothing else does. `Inv` adds that a message is in one place at a time, and
that while it waits it was logged exactly as often as an `INSERT` with it was
applied unheard (`Unlogged`): the last statement of a batch is the only one that
logs, so that failures before it account for no record; that a session is visited after it was opened (`Opened`), so that
a first visit always replaces the address of the opening; and `IsLatest`, which
says of each row what `RowIsLatestVisit` says, without a maximum.

**AccountsProofs.** `RegistrationIsWhole`, `SessionGoesToAddressee`,
`LockThrottlesSignup` and `ScopesAreTheProfiles`, for any users, addresses,
realms, operations and requests. None of the four is inductive: between the
reading of a login, of an owner and of a profile and the transactions that use
them anything may happen. `Inv` says what still holds then. `UsersOK`: who has an
address is among those who have had it, and a member has been bound. `OpsOK`: an
operation of signup or login carries a realm, and its owner exists and has had
its address (`Whole`). `RequestsOK` says the same of each kind of request at each
of its steps (`Fits`): a login that is past `LookUp` has an owner who has had the
address, and at its commit more bindings of that owner than were withdrawn when
it began; unless it is `late`, it carries the settings of the profile.
`SessionsOK`: the operation of an open session is gone, so that no second login
consumes it. `LocksOK`: two requests never hold one lock of signup, a held lock
is in the table and has sent no code yet. The constants are only assumed to be
apart (`AccountsAssumption`), not finite.

**NotifierProofs.** Every step of `Notifier` is a step of `Notes` or leaves its
variables alone, as the module is written, so that `Spec => Notes!Spec`
(`NotesAreAQueue`, a lemma). The
module takes `QueueProofs` by INSTANCE over the notes, and what was proved of
every queue becomes a fact about this one: `NotesAreCommittedOnce` is `Queue`'s
invariant, read through the refinement, as are `NotesAreHandledBounded` and
`NotesLeaveForGood`. `Inv` is inductive relative to it. It
adds to `HandedOverWhole` and `MessagesHaveBody` that what a handler keeps in
memory is nothing or all the notices of one template in one language, that it
keeps nothing for a note it does not hold, and that it has looked at all bodies
before it sends (`BuiltOK`); that the identifiers given out so far are those that
have content (`ContentOK`). The transaction that hands a note over numbers its
notices without loss or repetition (`OrderIs`, by the cardinalities of the two
sets).

`NotesGoThroughOnce` is the refinement of `QueueSpec` by both queues at once
(`QueuesAreOne`). It is about what the two have in common, the step of the commit:
`PlacesAre` derives from `HandedOverWhole` that a note in its queue has no messages
and a completed one has some, so that no other step can complete a note
(`QuietMoves`); the commit moves the note to the second queue and leaves it where
it is as a whole (`CommitMoves`); and from then on it leaves with the last of its
messages (`DeliverMoves`). What the first queue does to its notes is the
refinement proved of every `Queue` (`StepImplements`).

Every invariant that a run checks is stated by a theorem. Only model-checked:
liveness (`RowsReclaimed`, `ChangeIsServed`, `EveryNoteSettles`, and that items
leave `Queue`, the fair part of `QueueImplemented`), which is out of the prover's
reach; and the counterexamples.

## Where the code and its comments disagree

Two disagreements are runs in which TLC finds the comment violated by what the
code does:

- `session_logout`: a logout that overlaps the exchange of the same session's
  token leaves the new pair in force.
- `settings_reload`: a reload puts the settings changed since the last one in the
  place of the whole cache, so that all others are not found from then on.

The following was seen while reading, and the modules follow the code in it
(paths below `src/`).

Lists and queues:

- `InsertToFirst` and `InsertToLast` fail on an empty list; only `MoveToLast` can
  start one.
- With the key column `item_id` of the sample migration,
  `UpdateStatusRetryToReady` has an ambiguous column reference
  (`mrqueue/repository/queue_postgres.go:222`); the changer task stops there,
  nothing is retried and nothing times out (`AmbiguousKey` in `Queue`).
- `getReadyDelayed` of the producer of messages compares a number of seconds with
  a duration, so that `SendAfter` never delays anything.
- `ProcessingToRetryChanger` journals timeouts without the ID of the item
  (`status_changer.go:81`).
- An item whose message was deleted by the cleaner of the journal is read and
  times out for ever (see `JournalOutlivesQueue`).
- `Template.GetItemByKey` takes the default language "если запись не найдена"
  (`mrnotifier/template/service/template.go:72`), but does so after any error of the
  first read: a transient one sends the note in another language (`ChosenLangs`).
- One observer without an address fails the building of a whole notice, the
  letter to the user included.

Operations and sessions:

- Two concurrent `Open` calls leave both operations open, since the deletion of
  older ones locks nothing.
- `DeleteExpired` of operations deletes by token what it selected by time: an
  operation confirmed in between, and thereby prolonged, is deleted too.
- The trimmer may take the signal of a login before the login commits. The next
  login repairs it, as it does in the case the comment names.
- The comment of `DeleteOrphaned` ("an exchange leads to no deletion") overlooks
  the set `late` of `Session`.
- A change of the settings of a user misses a login between its reading of the
  profile and its commit; the comment of `change_settings.go` names only the
  exchange of a token as such a window.
- The notice of a change of address goes to the address that was remembered when
  the operation was opened.

Activity:

- A batch whose sessions are all gone fails as a whole, because
  `UpdateLastActivity` takes no updated row for an error
  (`mrauth/repository/session_postgres.go:187`); for the statement that follows
  it, the comment of `user_statistic.go:114` gives the reason why it should not.
- `InsertOrUpdate` of the statistics overwrites `last_visited_at` without a
  comparison, unlike the batches; two concurrent logins can move
  `last_logged_at` back.

Settings:

- `Set` does not work with the log of the sample schema: the statement selects
  from the log itself and names a column it does not have.
- Settings of type string are never cached; the lists of strings and of integers
  are mixed up in `GetList` and `SetList`; a row of unknown type makes every
  reload fail.
- The reload reads rows later than the last one, the comment says "not earlier"
  (`setting_postgres.go:56`).

## What is not modelled

- The log of operations and the events: written outside of any transaction, their
  loss is accepted by comments in the code and nothing reads them.
- JWT, password hashes, TOTP arithmetic, generators of codes: cryptography. The
  window of TOTP steps is in `SecureOperation`.
- API tokens, and pairs whose access token is a JWT. The scopes a token carries
  are in `Accounts` only, as the settings of a session.
- Senders, providers, controllers, construction in `wire/`: I/O. The collector
  that forms the batches of `Activity` is a library, modelled by what it may do.
- The panicking getter of settings, which wraps the other one; names of devices
  and places in the list of sessions.
- The status of a user and the kind of a membership, which no modelled operation
  changes, and the page about a user (`service/userinfo`).
- Concurrent calls of `NodeMover` without a transaction of the caller.

## Plan

1. Concurrent moves of `NodeMover`, statement by statement.
2. API tokens and pairs with a JWT in `Session`.
