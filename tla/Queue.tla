-------------------------------- MODULE Queue --------------------------------
(***************************************************************************)
(* mrqueue with the producer and the handler of mrmailer (mrnotifier wires *)
(* the same parts): a queue of items kept in the tables mrqueue,           *)
(* mrqueue_completed and mrqueue_errors, next to the table of messages.    *)
(*                                                                         *)
(* Producers append items; consumers (the workers of go-core's             *)
(* MessageProcessor) read a batch, handle each message and commit, reject  *)
(* or cancel it; the scheduler's changer task moves items between RETRY    *)
(* and READY and takes back items whose processing timed out; the cleaner  *)
(* task removes forgotten items and expired journal rows.  Each action is  *)
(* one transaction or one statement on the tables.                         *)
(***************************************************************************)
EXTENDS Integers, FiniteSets

CONSTANTS Item,             \* item IDs, drawn from a sequence: none is 0
          NoItem,           \* the zero ID
          Consumer,         \* workers that read the queue
          Limit,            \* size of a batch
          AttemptsInput,    \* values of Message.RetryAttempts
          DefaultAttempts,  \* MessageProducer.retryAttempts
          DelayInput,       \* values of time.Until(Message.SendAfter)
          Second,           \* time.Second
          DelayCorrection,  \* MessageProducer.delayCorrection
          PrimaryKey,       \* name of the key column of the table mrqueue
          JournalOutlivesQueue,  \* crashedExpiry is longer than any item stays queued
          MaxFaults         \* bound: faults of consumers and of the database

ASSUME ItemAssumption == NoItem \notin Item
ASSUME ConsumerAssumption == IsFiniteSet(Consumer)
ASSUME AttemptsAssumption == AttemptsInput \subseteq Int /\ DefaultAttempts \in Int
ASSUME DelayAssumption ==
  /\ DelayInput \subseteq Nat
  /\ Second \in Nat \ {0}
  /\ DelayCorrection \in Nat
ASSUME BoundAssumption ==
  /\ Limit \in Nat \ {0}
  /\ MaxFaults \in Nat
  /\ JournalOutlivesQueue \in BOOLEAN

VARIABLES status,     \* item_status, or "none" when the item has no row
          attempts,   \* remaining_attempts
          due,        \* updated_at satisfies the time condition of the status
          completed,  \* the rows of mrqueue_completed
          crashed,    \* the IDs found in mrqueue_errors
          messages,   \* the rows of the table of messages
          job         \* what each consumer is doing with each item

(* History: what the properties are about. *)
VARIABLES given,      \* RetryAttempts the item was appended with, 0 before that
          sent,       \* how often the handler sent the message out
          effects,    \* how often a transaction of CommitMessage committed
          timeouts,   \* how often the item was taken back by timeout
          faults      \* faults so far

tables == <<status, attempts, due, completed, crashed, messages>>
vars == <<tables, job, given, sent, effects, timeouts, faults>>

Status == {"none", "ready", "processing", "retry"}
JobState == {"none", "held", "sent", "failed"}

Queued == {i \in Item : status[i] # "none"}
Idle(c) == \A i \in Item : job[c][i] = "none"
HeldBySomeone(i) == \E c \in Consumer : job[c][i] # "none"

(* Non-empty batches of at most Limit rows; SKIP LOCKED may leave rows out. *)
Batches(S) == {B \in SUBSET S : B # {} /\ Cardinality(B) <= Limit}

Fault == faults < MaxFaults /\ faults' = faults + 1

(* The consumer's job on one item becomes st. *)
JobBecomes(c, i, st) == job' = [job EXCEPT ![c][i] = st]

-----------------------------------------------------------------------------
(* Repositories *)

(* QueuePostgres.Insert: the rows of a batch, READY after whole seconds. *)
InsertItems(B, n, delayed) ==
  /\ status' = [i \in Item |-> IF i \in B THEN "ready" ELSE status[i]]
  /\ attempts' = [i \in Item |-> IF i \in B THEN n ELSE attempts[i]]
  /\ due' = [i \in Item |-> IF i \in B THEN delayed \div Second = 0 ELSE due[i]]

(* The rows FetchAndUpdateStatusReadyToProcessing selects. *)
ReadyItems == {i \in Item : status[i] = "ready" /\ due[i]}

(* Mutant of ToProcessing: the items that were read stay READY. *)
ToProcessingStaysReady(B) ==
  /\ due' = [i \in Item |-> IF i \in B THEN TRUE ELSE due[i]]
  /\ UNCHANGED <<status, attempts>>

(* ... and what it does to a batch of them. *)
ToProcessing(B) ==
  /\ status' = [i \in Item |-> IF i \in B THEN "processing" ELSE status[i]]
  /\ due' = [i \in Item |-> IF i \in B THEN FALSE ELSE due[i]]
  /\ UNCHANGED attempts

(* UpdateStatusProcessingToReady: those of the items that are in PROCESSING. *)
ProcessingToReady(B) ==
  LET C == {i \in B : status[i] = "processing"} IN
  /\ status' = [i \in Item |-> IF i \in C THEN "ready" ELSE status[i]]
  /\ due' = [i \in Item |-> IF i \in C THEN TRUE ELSE due[i]]
  /\ UNCHANGED attempts

(* Mutants of ProcessingToRetryOne: an attempt is taken in any status; none
   is taken. *)
ProcessingToRetryAny(i) ==
  /\ status' = [status EXCEPT ![i] = "retry"]
  /\ attempts' = [attempts EXCEPT ![i] = @ - 1]
  /\ due' = [due EXCEPT ![i] = FALSE]

ProcessingToRetryForFree(i) ==
  /\ status' = [status EXCEPT ![i] = IF @ = "processing" THEN "retry" ELSE @]
  /\ due' = [due EXCEPT ![i] = FALSE]
  /\ UNCHANGED attempts

(* UpdateStatusProcessingToRetry: nothing when the row is not in PROCESSING. *)
ProcessingToRetryOne(i) ==
  IF status[i] = "processing"
  THEN /\ status' = [status EXCEPT ![i] = "retry"]
       /\ attempts' = [attempts EXCEPT ![i] = @ - 1]
       /\ due' = [due EXCEPT ![i] = FALSE]
  ELSE UNCHANGED <<status, attempts, due>>

(* The rows UpdateStatusProcessingToRetryByTimeout selects. *)
TimedOutItems == {i \in Item : status[i] = "processing" /\ due[i]}

(* Mutant of RetryItems: the last attempt is lost. *)
RetryItemsButLast == {i \in Item : status[i] = "retry" /\ due[i] /\ attempts[i] > 1}

(* The rows UpdateStatusRetryToReady selects. *)
RetryItems == {i \in Item : status[i] = "retry" /\ due[i] /\ attempts[i] > 0}

(* The rows DeleteRetryWithoutAttempts deletes. *)
ForgottenItems == {i \in Item : status[i] = "retry" /\ attempts[i] = 0}

(* QueuePostgres.Delete of a row in PROCESSING; there is an error without it. *)
DeleteItem(i) ==
  /\ status[i] = "processing"
  /\ status' = [status EXCEPT ![i] = "none"]
  /\ UNCHANGED <<attempts, due>>

(* CompletedPostgres.Insert, whose table has the key item_id. *)
InsertCompleted(i) ==
  /\ i \notin completed
  /\ completed' = completed \cup {i}

(* Mutant of Journal: nothing is recorded. *)
JournalNot(ids) == UNCHANGED crashed

(* CrashedPostgres.Insert and InsertOne. *)
Journal(ids) == crashed' = crashed \cup ids

(* The IDs CrashedPostgres.Delete may find: the newest row has expired. *)
ExpiredErrors == {i \in crashed : JournalOutlivesQueue => i \notin Queued}

(* MessagePostgres.Insert and DeleteByIDs. *)
InsertMessages(B) == messages' = messages \cup B
DeleteByIDs(B) == messages' = messages \ B

-----------------------------------------------------------------------------
(* Producer *)

GetRetryAttempts(n) == IF n > 0 THEN n ELSE DefaultAttempts

(* getReadyDelayed: the period is divided by time.Second before it is       *)
(* compared with a correction that is a duration, too.                      *)
GetReadyDelayed(d) == IF d \div Second > DelayCorrection THEN d ELSE 0

(* QueueProducer.Append refuses zero attempts, and the table a negative     *)
(* number of them.                                                          *)
Append(B, n, delayed) ==
  /\ n > 0
  /\ InsertItems(B, n, delayed)

(* SendMessage and Send: the messages and the items of a batch with fresh   *)
(* IDs, in one transaction.                                                 *)
Send(B, n, d) ==
  /\ \A i \in B : given[i] = 0
  /\ InsertMessages(B)
  /\ Append(B, GetRetryAttempts(n), GetReadyDelayed(d))
  /\ given' = [i \in Item |-> IF i \in B THEN GetRetryAttempts(n) ELSE given[i]]
  /\ UNCHANGED <<completed, crashed, job, sent, effects, timeouts, faults>>

-----------------------------------------------------------------------------
(* Consumer *)

(* ReadMessages: only the items whose message is found reach the consumer. *)
ReadMessages(c) ==
  /\ Idle(c)
  /\ \E B \in Batches(ReadyItems) :
       /\ ToProcessing(B)
       /\ job' = [job EXCEPT ![c] =
                    [i \in Item |-> IF i \in B \cap messages THEN "held" ELSE "none"]]
  /\ UNCHANGED <<completed, crashed, messages>>
  /\ UNCHANGED <<given, sent, effects, timeouts, faults>>

(* ReadMessages where FetchByIDs fails: the items are left in PROCESSING. *)
ReadMessagesFails(c) ==
  /\ Idle(c)
  /\ Fault
  /\ \E B \in Batches(ReadyItems) : ToProcessing(B)
  /\ UNCHANGED <<completed, crashed, messages>>
  /\ UNCHANGED <<job, given, sent, effects, timeouts>>

(* The handler's preCommit sends the message, inside the transaction of     *)
(* CommitMessage that has not reached the queue yet.                        *)
PreCommit(c, i) ==
  /\ job[c][i] = "held"
  /\ JobBecomes(c, i, "sent")
  /\ sent' = [sent EXCEPT ![i] = @ + 1]
  /\ UNCHANGED <<tables, given, effects, timeouts, faults>>

(* The handler finds no sender, or preCommit fails before it has sent. *)
HandlerFails(c, i) ==
  /\ job[c][i] = "held"
  /\ JobBecomes(c, i, "failed")
  /\ UNCHANGED <<tables, given, sent, effects, timeouts, faults>>

(* Mutant of Commit: a missing row is not an error. *)
CommitAnyway(c, i) ==
  /\ job[c][i] = "sent"
  /\ JobBecomes(c, i, "none")
  /\ status' = [status EXCEPT ![i] = "none"]
  /\ InsertCompleted(i)
  /\ effects' = [effects EXCEPT ![i] = @ + 1]
  /\ UNCHANGED <<attempts, due, crashed, messages, given, sent, timeouts, faults>>

(* Commit: the item is deleted if it is in PROCESSING, whoever put it there,*)
(* and recorded as completed.                                               *)
Commit(c, i) ==
  /\ job[c][i] = "sent"
  /\ JobBecomes(c, i, "none")
  /\ DeleteItem(i)
  /\ InsertCompleted(i)
  /\ effects' = [effects EXCEPT ![i] = @ + 1]
  /\ UNCHANGED <<crashed, messages, given, sent, timeouts, faults>>

(* Delete or Insert of Commit returns an error: CommitMessage rolls back.   *)
(* Another error of the database, after the message was sent, is a fault.   *)
CommitMessageFails(c, i) ==
  /\ job[c][i] = "sent"
  /\ \/ (status[i] # "processing" \/ i \in completed) /\ UNCHANGED faults
     \/ Fault
  /\ JobBecomes(c, i, "failed")
  /\ UNCHANGED <<tables, given, sent, effects, timeouts>>

(* Reject for a cause of kind System: RETRY with one attempt less, or only  *)
(* a row in the journal when the item is not in PROCESSING any more.        *)
RejectSystem(c, i) ==
  /\ job[c][i] = "failed"
  /\ JobBecomes(c, i, "none")
  /\ ProcessingToRetryOne(i)
  /\ Journal({i})
  /\ UNCHANGED <<completed, messages, given, sent, effects, timeouts, faults>>

(* Reject for any other cause: the item is deleted. *)
RejectOther(c, i) ==
  /\ job[c][i] = "failed"
  /\ JobBecomes(c, i, "none")
  /\ DeleteItem(i)
  /\ Journal({i})
  /\ UNCHANGED <<completed, messages, given, sent, effects, timeouts, faults>>

(* RejectMessage fails and is rolled back: the item to delete is not in     *)
(* PROCESSING any more, or there is another error, which is a fault.        *)
RejectMessageFails(c, i) ==
  /\ job[c][i] = "failed"
  /\ \/ status[i] # "processing" /\ UNCHANGED faults
     \/ Fault
  /\ JobBecomes(c, i, "none")
  /\ UNCHANGED <<tables, given, sent, effects, timeouts>>

HeldItems(c) == {i \in Item : job[c][i] = "held"}

(* CancelMessages: a stopping consumer returns the messages it has not      *)
(* begun to handle.                                                         *)
CancelMessages(c) ==
  /\ HeldItems(c) # {}
  /\ Fault
  /\ ProcessingToReady(HeldItems(c))
  /\ job' = [job EXCEPT ![c] =
               [i \in Item |-> IF i \in HeldItems(c) THEN "none" ELSE job[c][i]]]
  /\ UNCHANGED <<completed, crashed, messages>>
  /\ UNCHANGED <<given, sent, effects, timeouts>>

(* The consumer's process dies and starts again with nothing in memory. *)
ConsumerRestarts(c) ==
  /\ ~Idle(c)
  /\ Fault
  /\ job' = [job EXCEPT ![c] = [i \in Item |-> "none"]]
  /\ UNCHANGED <<tables, given, sent, effects, timeouts>>

-----------------------------------------------------------------------------
(* Scheduler: the changer task *)

(* UpdateStatusRetryToReady names the key column unqualified in a statement *)
(* whose other table has the column item_id: with that name of the key the  *)
(* statement is refused as ambiguous.                                       *)
AmbiguousKey == PrimaryKey = "item_id"

(* RetryToReadyChanger *)
RetryToReady ==
  /\ ~AmbiguousKey
  /\ \E B \in Batches(RetryItems) :
       /\ status' = [i \in Item |-> IF i \in B THEN "ready" ELSE status[i]]
       /\ due' = [i \in Item |-> IF i \in B THEN TRUE ELSE due[i]]
  /\ UNCHANGED <<attempts, completed, crashed, messages, job>>
  /\ UNCHANGED <<given, sent, effects, timeouts, faults>>

(* ProcessingToRetryChanger, run by the task only when RetryToReadyChanger  *)
(* has not failed.  The rows it adds to the journal have no ID.             *)
ProcessingToRetry ==
  /\ ~AmbiguousKey
  /\ \E B \in Batches(TimedOutItems) :
       /\ status' = [i \in Item |-> IF i \in B THEN "retry" ELSE status[i]]
       /\ due' = [i \in Item |-> IF i \in B THEN FALSE ELSE due[i]]
       /\ timeouts' = [i \in Item |-> IF i \in B THEN timeouts[i] + 1 ELSE timeouts[i]]
  /\ Journal({NoItem})
  /\ UNCHANGED <<attempts, completed, messages, job, given, sent, effects, faults>>

-----------------------------------------------------------------------------
(* Scheduler: the cleaner task *)

(* QueueCleaner: items in RETRY without attempts are forgotten. *)
CleanForgotten ==
  /\ \E B \in Batches(ForgottenItems) :
       status' = [i \in Item |-> IF i \in B THEN "none" ELSE status[i]]
  /\ UNCHANGED <<attempts, due, completed, crashed, messages, job>>
  /\ UNCHANGED <<given, sent, effects, timeouts, faults>>

(* CompletedItemsCleaner, with DeleteByIDs on the messages after it. *)
CleanCompleted ==
  /\ \E B \in Batches(completed) :
       /\ completed' = completed \ B
       /\ DeleteByIDs(B)
  /\ UNCHANGED <<status, attempts, due, crashed, job>>
  /\ UNCHANGED <<given, sent, effects, timeouts, faults>>

(* CrashedItemsCleaner: all journal rows of an ID at once, when the newest  *)
(* has expired, with DeleteByIDs on the messages after it.                  *)
CleanCrashed ==
  /\ \E B \in Batches(ExpiredErrors) :
       /\ crashed' = crashed \ B
       /\ DeleteByIDs(B)
  /\ UNCHANGED <<status, attempts, due, completed, job>>
  /\ UNCHANGED <<given, sent, effects, timeouts, faults>>

-----------------------------------------------------------------------------
(* Time *)

(* The period that the status of the item asks for has passed. *)
Passes(i) ==
  /\ i \in Queued /\ ~due[i]
  /\ due' = [due EXCEPT ![i] = TRUE]
  /\ UNCHANGED <<status, attempts, completed, crashed, messages>>
  /\ UNCHANGED <<job, given, sent, effects, timeouts>>

Elapse(i) ==
  /\ status[i] = "processing" => ~HeldBySomeone(i)
  /\ Passes(i)
  /\ UNCHANGED faults

(* A consumer is slower than retryTimeout with an item in PROCESSING. *)
ElapseWhileHeld(i) ==
  /\ status[i] = "processing" /\ HeldBySomeone(i)
  /\ Passes(i)
  /\ Fault

-----------------------------------------------------------------------------
Init ==
  /\ status = [i \in Item |-> "none"]
  /\ attempts = [i \in Item |-> 0]
  /\ due = [i \in Item |-> FALSE]
  /\ completed = {}
  /\ crashed = {}
  /\ messages = {}
  /\ job = [c \in Consumer |-> [i \in Item |-> "none"]]
  /\ given = [i \in Item |-> 0]
  /\ sent = [i \in Item |-> 0]
  /\ effects = [i \in Item |-> 0]
  /\ timeouts = [i \in Item |-> 0]
  /\ faults = 0

Consume(c, i) ==
  \/ PreCommit(c, i) \/ HandlerFails(c, i)
  \/ Commit(c, i) \/ CommitMessageFails(c, i)
  \/ RejectSystem(c, i) \/ RejectOther(c, i) \/ RejectMessageFails(c, i)

Next ==
  \/ \E B \in (SUBSET Item) \ {{}}, n \in AttemptsInput, d \in DelayInput : Send(B, n, d)
  \/ \E c \in Consumer :
       \/ ReadMessages(c) \/ ReadMessagesFails(c)
       \/ CancelMessages(c) \/ ConsumerRestarts(c)
       \/ \E i \in Item : Consume(c, i)
  \/ RetryToReady \/ ProcessingToRetry
  \/ CleanForgotten \/ CleanCompleted \/ CleanCrashed
  \/ \E i \in Item : Elapse(i) \/ ElapseWhileHeld(i)

Spec == Init /\ [][Next]_vars

(* The scheduler runs its tasks periodically, consumers poll the queue and  *)
(* finish what they read, and time passes.  No fault is ever obliged to     *)
(* happen, and MaxFaults says there are finitely many.                      *)
Fairness ==
  /\ WF_vars(RetryToReady) /\ WF_vars(ProcessingToRetry)
  /\ WF_vars(CleanForgotten)
  /\ \A i \in Item : WF_vars(Elapse(i))
  /\ \A c \in Consumer : WF_vars(ReadMessages(c))
  /\ \A c \in Consumer, i \in Item : WF_vars(Consume(c, i))

FairSpec == Spec /\ Fairness

-----------------------------------------------------------------------------
(* Properties *)

TypeOK ==
  /\ status \in [Item -> Status]
  /\ attempts \in [Item -> Nat]
  /\ due \in [Item -> BOOLEAN]
  /\ completed \subseteq Item
  /\ crashed \subseteq Item \cup {NoItem}
  /\ messages \subseteq Item
  /\ job \in [Consumer -> [Item -> JobState]]
  /\ given \in [Item -> Nat]
  /\ sent \in [Item -> Nat]
  /\ effects \in [Item -> Nat]
  /\ timeouts \in [Item -> Nat]
  /\ faults \in 0 .. MaxFaults

(* The CHECK(remaining_attempts >= 0) of the table never refuses the
   decrement of UpdateStatusProcessingToRetry: an item that can be read or
   is being processed has an attempt left, whoever held it before. *)
LiveHasAttempts ==
  \A i \in Item : status[i] \in {"ready", "processing"} => attempts[i] >= 1

(* CommitMessage's "work atomically": however many consumers got hold of an
   item, the transaction of preCommit and Commit commits for at most one of
   them, and an item that was completed is not in the queue. *)
CommittedAtMostOnce ==
  \A i \in Item : /\ effects[i] <= 1
                  /\ i \in completed => status[i] = "none" /\ effects[i] = 1

(* A message stays in its table only as long as the cleaner still has a row
   to find it by: in the queue, among the completed or in the journal. *)
NoOrphanMessages ==
  messages \subseteq Queued \cup completed \cup crashed

(* While an item has never timed out, one consumer at most works on it, and
   the item is in PROCESSING meanwhile (FOR UPDATE SKIP LOCKED in the read). *)
ExclusiveUnlessTimedOut ==
  \A i \in Item : timeouts[i] = 0 =>
    \A c \in Consumer : job[c][i] # "none" =>
      /\ status[i] = "processing"
      /\ \A e \in Consumer : job[e][i] # "none" => e = c

(* A message is sent out at most as often as its RetryAttempts say, plus
   once for every time that its processing timed out. *)
SendsBounded ==
  \A i \in Item : sent[i] <= given[i] + timeouts[i]

(* An item that left the queue never returns to it: late commits, rejects
   and cancellations of other consumers find no row in PROCESSING. *)
LeavesForGood ==
  [][\A i \in Item : given[i] > 0 /\ status[i] = "none" => status'[i] = "none"]_vars

(* Where the item is in the eyes of those who use the queue. *)
PlaceOf(i) ==
  CASE given[i] = 0 -> "new"
    [] given[i] > 0 /\ status[i] # "none" -> "queued"
    [] given[i] > 0 /\ status[i] = "none" /\ effects[i] > 0 -> "done"
    [] OTHER -> "dropped"

Contents == INSTANCE QueueSpec WITH place <- [i \in Item |-> PlaceOf(i)]

(* However consumers, the scheduler and faults interleave, the queue is the
   one of QueueSpec: an item takes effect in the step that it leaves by, it
   never comes back, and none stays for ever. *)
QueueImplemented == Contents!FairSpec
=============================================================================
