----------------------------- MODULE QueueProofs -----------------------------
(***************************************************************************)
(* Proofs about Queue, for any items, consumers, inputs and bounds.        *)
(***************************************************************************)
EXTENDS Queue, FiniteSetTheorems, TLAPS

(* Type correctness without the variable due, which has a lemma of its own. *)
TypeButDue ==
  /\ status \in [Item -> Status]
  /\ attempts \in [Item -> Nat]
  /\ completed \subseteq Item
  /\ crashed \subseteq Item \cup {NoItem}
  /\ messages \subseteq Item
  /\ job \in [Consumer -> [Item -> JobState]]
  /\ given \in [Item -> Nat]
  /\ sent \in [Item -> Nat]
  /\ effects \in [Item -> Nat]
  /\ timeouts \in [Item -> Nat]
  /\ faults \in 0 .. MaxFaults

(* An item that was never appended has left no trace, and none has more
   attempts than it was given. *)
Fresh ==
  \A i \in Item :
    /\ attempts[i] <= given[i]
    /\ given[i] = 0 => /\ status[i] = "none"
                       /\ effects[i] = 0

(* A committed item is out of the queue. *)
Once ==
  \A i \in Item :
    /\ effects[i] <= 1
    /\ effects[i] = 1 => status[i] = "none"
    /\ i \in completed => effects[i] = 1

(* A message is found by some row, and the journal has every item whose
   attempts are used up: the next step may drop it from the queue. *)
Found ==
  /\ NoOrphanMessages
  /\ \A i \in messages : status[i] = "retry" /\ attempts[i] = 0 => i \in crashed

Inv ==
  /\ TypeButDue
  /\ LiveHasAttempts
  /\ Fresh
  /\ Once
  /\ Found
  /\ ExclusiveUnlessTimedOut

(* The empty queue satisfies the invariant. *)
LEMMA InvInit == Init => Inv
BY ItemAssumption, BoundAssumption
DEF Init, Inv, TypeButDue, LiveHasAttempts, Fresh, Once, Found, NoOrphanMessages,
    ExclusiveUnlessTimedOut, Status, JobState, Queued

(* Every step keeps the types; the attempts stay natural numbers because an
   item in PROCESSING has one left. *)
LEMMA TypeNext ==
  ASSUME TypeButDue, LiveHasAttempts, [Next]_vars
  PROVE  TypeButDue'
<1> USE DEF TypeButDue, tables, JobBecomes, Batches, DeleteItem, InsertCompleted, Journal,
           DeleteByIDs, Status, JobState
<1>1. ASSUME NEW B \in SUBSET Item, NEW n \in AttemptsInput, NEW d \in DelayInput,
             Send(B, n, d)
      PROVE  TypeButDue'
  <2>1. GetRetryAttempts(n) \in Nat
    BY <1>1, AttemptsAssumption DEF Send, Append, InsertItems, InsertMessages, GetRetryAttempts
  <2> QED BY <1>1, <2>1 DEF Send, Append, InsertItems, InsertMessages
<1>2. ASSUME NEW c \in Consumer, ReadMessages(c) PROVE TypeButDue'
  BY <1>2 DEF ReadMessages, ToProcessing, ReadyItems
<1>3. ASSUME NEW c \in Consumer, ReadMessagesFails(c) PROVE TypeButDue'
  BY <1>3, BoundAssumption DEF ReadMessagesFails, ToProcessing, ReadyItems, Fault
<1>4. ASSUME NEW c \in Consumer, CancelMessages(c) PROVE TypeButDue'
  BY <1>4, BoundAssumption DEF CancelMessages, ProcessingToReady, HeldItems, Fault
<1>5. ASSUME NEW c \in Consumer, ConsumerRestarts(c) PROVE TypeButDue'
  BY <1>5, BoundAssumption DEF ConsumerRestarts, Fault
<1>6. ASSUME NEW c \in Consumer, NEW i \in Item, Consume(c, i) PROVE TypeButDue'
  <2>1. CASE PreCommit(c, i) BY <2>1 DEF PreCommit
  <2>2. CASE HandlerFails(c, i) BY <2>2 DEF HandlerFails
  <2>3. CASE Commit(c, i) BY <2>3 DEF Commit
  <2>4. CASE CommitMessageFails(c, i) BY <2>4, BoundAssumption DEF CommitMessageFails, Fault
  <2>5. CASE RejectSystem(c, i) BY <2>5 DEF RejectSystem, ProcessingToRetryOne, LiveHasAttempts
  <2>6. CASE RejectOther(c, i) BY <2>6 DEF RejectOther
  <2>7. CASE RejectMessageFails(c, i) BY <2>7, BoundAssumption DEF RejectMessageFails, Fault
  <2> QED BY <1>6, <2>1, <2>2, <2>3, <2>4, <2>5, <2>6, <2>7 DEF Consume
<1>7. CASE RetryToReady BY <1>7 DEF RetryToReady, RetryItems
<1>8. CASE ProcessingToRetry BY <1>8 DEF ProcessingToRetry, TimedOutItems
<1>9. CASE CleanForgotten BY <1>9 DEF CleanForgotten, ForgottenItems
<1>10. CASE CleanCompleted BY <1>10 DEF CleanCompleted
<1>11. CASE CleanCrashed BY <1>11 DEF CleanCrashed, ExpiredErrors
<1>12. ASSUME NEW i \in Item, Elapse(i) \/ ElapseWhileHeld(i) PROVE TypeButDue'
  BY <1>12, BoundAssumption DEF Elapse, ElapseWhileHeld, Passes, Fault
<1>13. CASE UNCHANGED vars BY <1>13 DEF vars
<1> QED
  BY <1>1, <1>2, <1>3, <1>4, <1>5, <1>6, <1>7, <1>8, <1>9, <1>10, <1>11, <1>12, <1>13
  DEF Next

(* A commit counts an item that was never counted before. *)
LEMMA CommitKeepsOnce ==
  ASSUME NEW i \in Item, TypeButDue, Once, status[i] = "processing",
         status' = [status EXCEPT ![i] = "none"],
         effects' = [effects EXCEPT ![i] = @ + 1],
         completed' = completed \cup {i}
  PROVE  Once'
<1>1. status \in [Item -> Status] /\ effects \in [Item -> Nat] BY DEF TypeButDue
<1>2. effects[i] = 0 BY <1>1 DEF Once
<1>3. effects'[i] = 1 /\ status'[i] = "none" BY <1>1, <1>2
<1>4. \A k \in Item \ {i} : effects'[k] = effects[k] /\ status'[k] = status[k] BY <1>1
<1> QED BY <1>3, <1>4 DEF Once

(* What a step of the system does to the five safety parts. *)
Safe == LiveHasAttempts /\ Fresh /\ Once /\ Found /\ ExclusiveUnlessTimedOut

(* Every step of a producer, a consumer, the scheduler or time keeps them. *)
LEMMA SafeNext ==
  ASSUME Inv, TypeButDue', [Next]_vars
  PROVE  Safe'
<1> USE DEF Inv, Safe, TypeButDue, LiveHasAttempts, Fresh, Once, Found, NoOrphanMessages,
            ExclusiveUnlessTimedOut, Queued, tables, JobBecomes, Batches, DeleteItem, InsertCompleted, Journal,
           DeleteByIDs, Status, JobState
<1>1. ASSUME NEW B \in SUBSET Item, NEW n \in AttemptsInput, NEW d \in DelayInput,
             Send(B, n, d)
      PROVE  Safe'
  BY <1>1, AttemptsAssumption DEF Send, Append, InsertItems, InsertMessages, GetRetryAttempts
<1>2. ASSUME NEW c \in Consumer, ReadMessages(c) PROVE Safe'
  BY <1>2 DEF ReadMessages, ToProcessing, ReadyItems, Idle
<1>3. ASSUME NEW c \in Consumer, ReadMessagesFails(c) PROVE Safe'
  BY <1>3 DEF ReadMessagesFails, ToProcessing, ReadyItems
<1>4. ASSUME NEW c \in Consumer, CancelMessages(c) PROVE Safe'
  BY <1>4 DEF CancelMessages, ProcessingToReady, HeldItems
<1>5. ASSUME NEW c \in Consumer, ConsumerRestarts(c) PROVE Safe'
  BY <1>5 DEF ConsumerRestarts
<1>6. ASSUME NEW c \in Consumer, NEW i \in Item, Consume(c, i) PROVE Safe'
  <2>1. CASE PreCommit(c, i) BY <2>1 DEF PreCommit
  <2>2. CASE HandlerFails(c, i) BY <2>2 DEF HandlerFails
  <2>3. CASE Commit(c, i)
    <3> USE <2>3 DEF Commit
    <3>1. LiveHasAttempts' OBVIOUS
    <3>2. Fresh' OBVIOUS
    <3>3. Once' BY CommitKeepsOnce
    <3>4. Found' OBVIOUS
    <3>5. ExclusiveUnlessTimedOut' OBVIOUS
    <3> QED BY <3>1, <3>2, <3>3, <3>4, <3>5
  <2>4. CASE CommitMessageFails(c, i) BY <2>4 DEF CommitMessageFails
  <2>5. CASE RejectSystem(c, i) BY <2>5 DEF RejectSystem, ProcessingToRetryOne
  <2>6. CASE RejectOther(c, i) BY <2>6 DEF RejectOther
  <2>7. CASE RejectMessageFails(c, i) BY <2>7 DEF RejectMessageFails
  <2> QED BY <1>6, <2>1, <2>2, <2>3, <2>4, <2>5, <2>6, <2>7 DEF Consume
<1>7. CASE RetryToReady BY <1>7 DEF RetryToReady, RetryItems
<1>8. CASE ProcessingToRetry BY <1>8 DEF ProcessingToRetry, TimedOutItems
<1>9. CASE CleanForgotten BY <1>9 DEF CleanForgotten, ForgottenItems
<1>10. CASE CleanCompleted BY <1>10 DEF CleanCompleted
<1>11. CASE CleanCrashed BY <1>11 DEF CleanCrashed, ExpiredErrors
<1>12. ASSUME NEW i \in Item, Elapse(i) \/ ElapseWhileHeld(i) PROVE Safe'
  BY <1>12 DEF Elapse, ElapseWhileHeld, Passes
<1>13. CASE UNCHANGED vars BY <1>13 DEF vars
<1> QED
  BY <1>1, <1>2, <1>3, <1>4, <1>5, <1>6, <1>7, <1>8, <1>9, <1>10, <1>11, <1>12, <1>13
  DEF Next

-----------------------------------------------------------------------------
(* The account of what is sent.  A consumer that holds an item has yet to   *)
(* send it; an item has an open lease while it is in PROCESSING, and keeps  *)
(* it for good when it leaves the queue from there.  Reading opens a lease  *)
(* and adds a holder, a reject pays for the lease with an attempt and a     *)
(* timeout with a timeout, and a consumer that cancels is a holder less.    *)

Holders(i) == Cardinality({c \in Consumer : job[c][i] = "held"})

Lease(i) ==
  IF status[i] = "processing" \/ (status[i] = "none" /\ attempts[i] > 0) THEN 1 ELSE 0

Account ==
  \A i \in Item :
    sent[i] + Holders(i) <= (given[i] - attempts[i]) + timeouts[i] + Lease(i)

HeldBy(c, i) == IF job[c][i] = "held" THEN 1 ELSE 0

(* How the number of holders follows the job of one consumer. *)
LEMMA HeldChange ==
  ASSUME NEW i, NEW c \in Consumer,
         \A e \in Consumer \ {c} : job'[e][i] = job[e][i]
  PROVE  /\ Holders(i) \in Nat
         /\ Holders(i)' \in Nat
         /\ Holders(i)' = Holders(i) + HeldBy(c, i)' - HeldBy(c, i)
<1> DEFINE J == {e \in Consumer : job[e][i] = "held"}
           K == {e \in Consumer : job'[e][i] = "held"}
           O == {e \in Consumer \ {c} : job[e][i] = "held"}
<1>1. IsFiniteSet(J) /\ IsFiniteSet(K) /\ IsFiniteSet(O)
  BY ConsumerAssumption, FS_Subset
<1>2. Cardinality(J) \in Nat /\ Cardinality(K) \in Nat /\ Cardinality(O) \in Nat
  BY <1>1, FS_CardinalityType
<1>3. c \notin O /\ Cardinality(O \cup {c}) = Cardinality(O) + 1
  BY <1>1, FS_AddElement
<1>4. J = IF job[c][i] = "held" THEN O \cup {c} ELSE O
  OBVIOUS
<1>5. K = IF job'[c][i] = "held" THEN O \cup {c} ELSE O
  OBVIOUS
<1>6. Holders(i) = Cardinality(J) /\ Holders(i)' = Cardinality(K)
  BY DEF Holders
<1> HIDE DEF J, K, O
<1>7. CASE job[c][i] = "held" /\ job'[c][i] = "held"
  BY <1>2, <1>3, <1>4, <1>5, <1>6, <1>7 DEF HeldBy
<1>8. CASE job[c][i] = "held" /\ job'[c][i] # "held"
  BY <1>2, <1>3, <1>4, <1>5, <1>6, <1>8 DEF HeldBy
<1>9. CASE job[c][i] # "held" /\ job'[c][i] = "held"
  BY <1>2, <1>3, <1>4, <1>5, <1>6, <1>9 DEF HeldBy
<1>10. CASE job[c][i] # "held" /\ job'[c][i] # "held"
  BY <1>2, <1>3, <1>4, <1>5, <1>6, <1>10 DEF HeldBy
<1> QED BY <1>7, <1>8, <1>9, <1>10

(* Nobody's job on the item changes: the number of holders stays. *)
LEMMA HeldSame ==
  ASSUME NEW i, \A c \in Consumer : job'[c][i] = job[c][i]
  PROVE  Holders(i) \in Nat /\ Holders(i)' = Holders(i)
<1>1. {c \in Consumer : job'[c][i] = "held"} = {c \in Consumer : job[c][i] = "held"}
  OBVIOUS
<1>2. Cardinality({c \in Consumer : job[c][i] = "held"}) \in Nat
  BY ConsumerAssumption, FS_Subset, FS_CardinalityType
<1> QED BY <1>1, <1>2 DEF Holders

(* In the initial state nothing is sent or held. *)
LEMMA AccountInit == Init => Account
<1> SUFFICES ASSUME Init, NEW i \in Item
             PROVE  sent[i] + Holders(i)
                      <= (given[i] - attempts[i]) + timeouts[i] + Lease(i)
  BY DEF Account
<1>1. {c \in Consumer : job[c][i] = "held"} = {}
  BY DEF Init
<1>2. Holders(i) = 0
  BY <1>1, FS_EmptySet DEF Holders
<1> QED BY <1>2 DEF Init, Lease

(* Every step keeps the account. *)
LEMMA AccountNext ==
  ASSUME Inv, Account, TypeButDue', [Next]_vars
  PROVE  Account'
<1> SUFFICES ASSUME NEW x \in Item
             PROVE  sent'[x] + Holders(x)'
                      <= (given'[x] - attempts'[x]) + timeouts'[x] + Lease(x)'
  BY DEF Account
<1> DEFINE Balance == sent'[x] + Holders(x)'
                        <= (given'[x] - attempts'[x]) + timeouts'[x] + Lease(x)'
<1>a. sent[x] + Holders(x) <= (given[x] - attempts[x]) + timeouts[x] + Lease(x)
  BY DEF Account
<1>b. /\ attempts[x] <= given[x]
      /\ given[x] = 0 => status[x] = "none"
      /\ status[x] \in {"ready", "processing"} => attempts[x] >= 1
  BY DEF Inv, Fresh, LiveHasAttempts
<1>c. ASSUME job' = job PROVE Holders(x) \in Nat /\ Holders(x)' = Holders(x)
  BY <1>c, HeldSame
<1> USE DEF TypeButDue, tables, DeleteItem, Lease, HeldBy
<1>t. TypeButDue BY DEF Inv
<1>1. ASSUME NEW B \in SUBSET Item, NEW n \in AttemptsInput, NEW d \in DelayInput,
             Send(B, n, d)
      PROVE  Balance
  <2>1. job' = job BY <1>1 DEF Send, Append, InsertItems
  <2> QED BY <1>1, <1>a, <1>b, <1>c, <1>t, <2>1, AttemptsAssumption DEF Send, Append, InsertItems, InsertMessages, GetRetryAttempts
<1>2. ASSUME NEW c \in Consumer, ReadMessages(c) PROVE Balance
  <2>1. PICK B \in Batches(ReadyItems) :
          /\ ToProcessing(B)
          /\ job' = [job EXCEPT ![c] =
                       [i \in Item |-> IF i \in B \cap messages THEN "held" ELSE "none"]]
    BY <1>2 DEF ReadMessages
  <2>2. Holders(x)' = Holders(x) + HeldBy(c, x)' - HeldBy(c, x)
        /\ Holders(x) \in Nat /\ Holders(x)' \in Nat
    <3>1. \A e \in Consumer \ {c} : job'[e][x] = job[e][x] BY <1>t, <2>1
    <3> QED BY <3>1, HeldChange DEF HeldBy
  <2>3. job'[c][x] = (IF x \in B \cap messages THEN "held" ELSE "none") /\ job[c][x] = "none"
    BY <1>2, <1>t, <2>1 DEF ReadMessages, Idle
  <2>4. x \in B => status[x] = "ready"
    BY DEF Batches, ReadyItems
  <2> QED BY <1>2, <1>a, <1>b, <1>t, <2>1, <2>2, <2>3, <2>4 DEF ReadMessages, ToProcessing
<1>3. ASSUME NEW c \in Consumer, ReadMessagesFails(c) PROVE Balance
  <2>1. job' = job BY <1>3 DEF ReadMessagesFails
  <2> QED BY <1>3, <1>a, <1>b, <1>c, <1>t, <2>1
          DEF ReadMessagesFails, ToProcessing, Batches, ReadyItems
<1>4. ASSUME NEW c \in Consumer, CancelMessages(c) PROVE Balance
  <2>1. Holders(x)' = Holders(x) + HeldBy(c, x)' - HeldBy(c, x)
        /\ Holders(x) \in Nat /\ Holders(x)' \in Nat
    <3>1. \A e \in Consumer \ {c} : job'[e][x] = job[e][x] BY <1>4, <1>t DEF CancelMessages
    <3> QED BY <3>1, HeldChange DEF HeldBy
  <2>2. job'[c][x] # "held"
    BY <1>4, <1>t DEF CancelMessages, ProcessingToReady, HeldItems
  <2> QED BY <1>4, <1>a, <1>b, <1>t, <2>1, <2>2 DEF CancelMessages, ProcessingToReady, HeldItems
<1>5. ASSUME NEW c \in Consumer, ConsumerRestarts(c) PROVE Balance
  <2>1. Holders(x)' = Holders(x) + HeldBy(c, x)' - HeldBy(c, x)
        /\ Holders(x) \in Nat /\ Holders(x)' \in Nat
    <3>1. \A e \in Consumer \ {c} : job'[e][x] = job[e][x] BY <1>5, <1>t DEF ConsumerRestarts
    <3> QED BY <3>1, HeldChange DEF HeldBy
  <2>2. job'[c][x] # "held"
    BY <1>5, <1>t DEF ConsumerRestarts
  <2> QED BY <1>5, <1>a, <1>b, <1>t, <2>1, <2>2 DEF ConsumerRestarts
<1>6. ASSUME NEW c \in Consumer, NEW i \in Item, Consume(c, i) PROVE Balance
  <2>a. ASSUME NEW st, JobBecomes(c, i, st)
        PROVE  /\ Holders(x)' = Holders(x) + HeldBy(c, x)' - HeldBy(c, x)
               /\ Holders(x) \in Nat /\ Holders(x)' \in Nat
               /\ job'[c][x] = IF x = i THEN st ELSE job[c][x]
    <3>1. \A e \in Consumer \ {c} : job'[e][x] = job[e][x] BY <2>a, <1>t DEF JobBecomes
    <3>2. job'[c][x] = IF x = i THEN st ELSE job[c][x] BY <2>a, <1>t DEF JobBecomes
    <3> QED BY <3>1, <3>2, HeldChange DEF HeldBy
  <2> USE <1>a, <1>b, <1>t, <2>a
  <2>1. CASE PreCommit(c, i) BY <2>1 DEF PreCommit
  <2>2. CASE HandlerFails(c, i) BY <2>2 DEF HandlerFails
  <2>3. CASE Commit(c, i) BY <2>3 DEF Commit
  <2>4. CASE CommitMessageFails(c, i) BY <2>4 DEF CommitMessageFails
  <2>5. CASE RejectSystem(c, i)
    <3>1. CASE status[i] = "processing" BY <2>5, <3>1 DEF RejectSystem, ProcessingToRetryOne
    <3>2. CASE status[i] # "processing" BY <2>5, <3>2 DEF RejectSystem, ProcessingToRetryOne
    <3> QED BY <3>1, <3>2
  <2>6. CASE RejectOther(c, i) BY <2>6 DEF RejectOther
  <2>7. CASE RejectMessageFails(c, i) BY <2>7 DEF RejectMessageFails
  <2> QED BY <1>6, <2>1, <2>2, <2>3, <2>4, <2>5, <2>6, <2>7 DEF Consume
<1> USE <1>a, <1>b, <1>c, <1>t
<1>7. CASE RetryToReady BY <1>7 DEF RetryToReady, RetryItems, Batches
<1>8. CASE ProcessingToRetry BY <1>8 DEF ProcessingToRetry, TimedOutItems, Batches
<1>9. CASE CleanForgotten BY <1>9 DEF CleanForgotten, ForgottenItems, Batches
<1>10. CASE CleanCompleted BY <1>10 DEF CleanCompleted
<1>11. CASE CleanCrashed BY <1>11 DEF CleanCrashed, ExpiredErrors
<1>12. ASSUME NEW i \in Item, Elapse(i) \/ ElapseWhileHeld(i) PROVE Balance
  BY <1>12 DEF Elapse, ElapseWhileHeld, Passes
<1>13. CASE UNCHANGED vars BY <1>13 DEF vars
<1> QED
  BY <1>1, <1>2, <1>3, <1>4, <1>5, <1>6, <1>7, <1>8, <1>9, <1>10, <1>11, <1>12, <1>13
  DEF Next

-----------------------------------------------------------------------------
(* The theorems *)

DueType == due \in [Item -> BOOLEAN]

(* Every step leaves due a function to BOOLEAN. *)
LEMMA DueNext == ASSUME DueType, [Next]_vars PROVE DueType'
<1> USE DEF DueType, tables
<1>1. ASSUME NEW B, NEW n, NEW d, Send(B, n, d) PROVE DueType'
  BY <1>1 DEF Send, Append, InsertItems
<1>2. ASSUME NEW c, ReadMessages(c) \/ ReadMessagesFails(c) PROVE DueType'
  BY <1>2 DEF ReadMessages, ReadMessagesFails, ToProcessing
<1>3. ASSUME NEW c, CancelMessages(c) \/ ConsumerRestarts(c) PROVE DueType'
  BY <1>3 DEF CancelMessages, ProcessingToReady, ConsumerRestarts
<1>4. ASSUME NEW c, NEW i \in Item, Consume(c, i) PROVE DueType'
  BY <1>4 DEF Consume, PreCommit, HandlerFails, Commit, DeleteItem, CommitMessageFails,
              RejectSystem, ProcessingToRetryOne, RejectOther, RejectMessageFails
<1>5. ASSUME RetryToReady \/ ProcessingToRetry PROVE DueType'
  BY <1>5 DEF RetryToReady, RetryItems, ProcessingToRetry, TimedOutItems
<1>6. ASSUME CleanForgotten \/ CleanCompleted \/ CleanCrashed PROVE DueType'
  BY <1>6 DEF CleanForgotten, ForgottenItems, CleanCompleted, CleanCrashed
<1>7. ASSUME NEW i \in Item, Elapse(i) \/ ElapseWhileHeld(i) PROVE DueType'
  BY <1>7 DEF Elapse, ElapseWhileHeld, Passes
<1>8. CASE UNCHANGED vars BY <1>8 DEF vars
<1> QED BY <1>1, <1>2, <1>3, <1>4, <1>5, <1>6, <1>7, <1>8 DEF Next

(* The inductive invariant of the specification. *)
LEMMA Invariant == Spec => [](Inv /\ Account /\ DueType)
<1>1. Init => Inv /\ Account /\ DueType
  BY InvInit, AccountInit DEF Init, DueType
<1>2. Inv /\ Account /\ DueType /\ [Next]_vars => (Inv /\ Account /\ DueType)'
  <2> SUFFICES ASSUME Inv, Account, DueType, [Next]_vars
               PROVE  Inv' /\ Account' /\ DueType'
    OBVIOUS
  <2>1. TypeButDue' BY TypeNext DEF Inv
  <2>2. Safe' BY <2>1, SafeNext
  <2>3. Inv' BY <2>1, <2>2 DEF Inv, Safe
  <2>4. Account' BY <2>1, AccountNext
  <2>5. DueType' BY DueNext
  <2> QED BY <2>3, <2>4, <2>5
<1> QED BY <1>1, <1>2, PTL DEF Spec

(* Whatever consumers, the scheduler and time do in whatever order, and
   whatever fails: the tables keep their types, no decrement of the attempts
   is refused, an item is committed at most once, no message is orphaned, and
   an item that never timed out has one consumer at most. *)
THEOREM QueueIsSafe ==
  Spec => [](/\ TypeOK /\ LiveHasAttempts /\ CommittedAtMostOnce
             /\ NoOrphanMessages /\ ExclusiveUnlessTimedOut)
<1>1. Inv /\ DueType => /\ TypeOK /\ LiveHasAttempts /\ CommittedAtMostOnce
                       /\ NoOrphanMessages /\ ExclusiveUnlessTimedOut
  <2> SUFFICES ASSUME Inv, DueType
               PROVE  /\ TypeOK /\ LiveHasAttempts /\ CommittedAtMostOnce
                      /\ NoOrphanMessages /\ ExclusiveUnlessTimedOut
    OBVIOUS
  <2>1. TypeOK BY DEF Inv, TypeButDue, DueType, TypeOK
  <2>2. CommittedAtMostOnce BY DEF Inv, TypeButDue, Once, CommittedAtMostOnce
  <2> QED BY <2>1, <2>2 DEF Inv, Found
<1> QED BY <1>1, Invariant, PTL

(* The tables keep their types, remaining_attempts its CHECK(>= 0) included. *)
THEOREM TypeIsKept == Spec => []TypeOK
BY QueueIsSafe, PTL

(* The transaction of preCommit and Commit commits for one of the consumers of
   an item at most, and a completed item is out of the queue. *)
THEOREM CommittedOnce == Spec => []CommittedAtMostOnce
BY QueueIsSafe, PTL

(* Whatever fails, the cleaner still has a row to find a message by. *)
THEOREM MessagesAreFound == Spec => []NoOrphanMessages
BY QueueIsSafe, PTL

(* FOR UPDATE SKIP LOCKED gives an item to one consumer until it times out. *)
THEOREM OneConsumerAtATime == Spec => []ExclusiveUnlessTimedOut
BY QueueIsSafe, PTL

(* A message is never sent out more often than its attempts and its timeouts
   add up to, however consumers and timeouts interleave. *)
THEOREM SendsAreBounded == Spec => []SendsBounded
<1>1. Inv /\ Account => SendsBounded
  <2> SUFFICES ASSUME Inv, Account, NEW i \in Item PROVE sent[i] <= given[i] + timeouts[i]
    BY DEF SendsBounded
  <2>1. Holders(i) \in Nat
    BY ConsumerAssumption, FS_Subset, FS_CardinalityType DEF Holders
  <2>2. sent[i] + Holders(i) <= (given[i] - attempts[i]) + timeouts[i] + Lease(i)
    BY DEF Account
  <2>3. status[i] = "processing" => attempts[i] >= 1
    BY DEF Inv, LiveHasAttempts
  <2> QED BY <2>1, <2>2, <2>3 DEF Inv, TypeButDue, Lease
<1> QED BY <1>1, Invariant, PTL

(* An item that has left the queue does not return to it. *)
THEOREM ItemsLeaveForGood == Spec => LeavesForGood
<1>1. Inv /\ [Next]_vars =>
        [\A i \in Item : given[i] > 0 /\ status[i] = "none" => status'[i] = "none"]_vars
  <2> SUFFICES ASSUME Inv, Next, NEW x \in Item, given[x] > 0, status[x] = "none"
               PROVE  status'[x] = "none"
    OBVIOUS
  <2> USE DEF Inv, TypeButDue, tables, Batches
  <2>1. ASSUME NEW B \in SUBSET Item, NEW n, NEW d, Send(B, n, d) PROVE status'[x] = "none"
    BY <2>1 DEF Send, Append, InsertItems
  <2>2. ASSUME NEW c, ReadMessages(c) \/ ReadMessagesFails(c) PROVE status'[x] = "none"
    BY <2>2 DEF ReadMessages, ReadMessagesFails, ToProcessing, ReadyItems
  <2>3. ASSUME NEW c, CancelMessages(c) \/ ConsumerRestarts(c) PROVE status'[x] = "none"
    BY <2>3 DEF CancelMessages, ProcessingToReady, ConsumerRestarts
  <2>4. ASSUME NEW c, NEW i \in Item, Consume(c, i) PROVE status'[x] = "none"
    BY <2>4 DEF Consume, PreCommit, HandlerFails, Commit, DeleteItem, CommitMessageFails,
                RejectSystem, ProcessingToRetryOne, RejectOther, RejectMessageFails
  <2>5. ASSUME RetryToReady \/ ProcessingToRetry PROVE status'[x] = "none"
    BY <2>5 DEF RetryToReady, RetryItems, ProcessingToRetry, TimedOutItems
  <2>6. ASSUME CleanForgotten \/ CleanCompleted \/ CleanCrashed PROVE status'[x] = "none"
    BY <2>6 DEF CleanForgotten, ForgottenItems, CleanCompleted, CleanCrashed
  <2>7. ASSUME NEW i, Elapse(i) \/ ElapseWhileHeld(i) PROVE status'[x] = "none"
    BY <2>7 DEF Elapse, ElapseWhileHeld, Passes
  <2> QED BY <2>1, <2>2, <2>3, <2>4, <2>5, <2>6, <2>7 DEF Next
<1> QED BY <1>1, Invariant, PTL DEF Spec, LeavesForGood

-----------------------------------------------------------------------------
(* Queue implements QueueSpec *)

(* What a step does to an item that the step does not put in, complete or
   drop: nothing that QueueSpec can see. *)
Same(x) ==
  /\ given'[x] = given[x]
  /\ effects'[x] = effects[x]
  /\ (status'[x] = "none") <=> (status[x] = "none")

(* Steps of the queue, as far as QueueSpec can see them. *)
Enters(B) ==
  /\ B # {}
  /\ \A x \in B : given[x] = 0 /\ given'[x] > 0 /\ status'[x] # "none"
  /\ \A x \in Item \ B : Same(x)

Completes(i) ==
  /\ status[i] # "none" /\ status'[i] = "none"
  /\ given'[i] = given[i] /\ effects'[i] > 0
  /\ \A x \in Item \ {i} : Same(x)

Drops(B) ==
  /\ \A x \in B : status[x] # "none" /\ status'[x] = "none"
  /\ \A x \in B : given'[x] = given[x] /\ effects'[x] = effects[x]
  /\ \A x \in Item \ B : Same(x)

(* A step of consumers is a completion, the rejection of one item, or
   nothing that can be seen. *)
LEMMA ConsumeSeen ==
  ASSUME Inv, NEW c \in Consumer, NEW i \in Item, Consume(c, i)
  PROVE  Completes(i) \/ \E B \in SUBSET Item : Drops(B)
<1> USE DEF Inv, TypeButDue, tables, Same
<1>1. CASE PreCommit(c, i) \/ HandlerFails(c, i)
  <2>1. Drops({}) BY <1>1 DEF PreCommit, HandlerFails, Drops
  <2> QED BY <2>1
<1>2. CASE Commit(c, i)
  <2>1. Completes(i) BY <1>2 DEF Commit, DeleteItem, Completes
  <2> QED BY <2>1
<1>3. CASE CommitMessageFails(c, i) \/ RejectMessageFails(c, i)
  <2>1. Drops({}) BY <1>3 DEF CommitMessageFails, RejectMessageFails, Drops
  <2> QED BY <2>1
<1>4. CASE RejectSystem(c, i)
  <2>1. Drops({}) BY <1>4 DEF RejectSystem, ProcessingToRetryOne, Drops
  <2> QED BY <2>1
<1>5. CASE RejectOther(c, i)
  <2>1. Drops({i}) BY <1>5 DEF RejectOther, DeleteItem, Drops
  <2> QED BY <2>1
<1> QED BY <1>1, <1>2, <1>3, <1>4, <1>5 DEF Consume

(* Every step enters items, completes one, drops some, or cannot be seen. *)
LEMMA StepSeen ==
  ASSUME Inv, Next
  PROVE  \/ \E B \in SUBSET Item : Enters(B)
         \/ \E i \in Item : Completes(i)
         \/ \E B \in SUBSET Item : Drops(B)
<1> USE DEF Inv, TypeButDue, tables, Same
<1>1. ASSUME NEW B \in (SUBSET Item) \ {{}}, NEW n \in AttemptsInput,
             NEW d \in DelayInput, Send(B, n, d)
      PROVE  Enters(B)
  <2>1. given' = [x \in Item |-> IF x \in B THEN GetRetryAttempts(n) ELSE given[x]]
    BY <1>1 DEF Send
  <2>2. GetRetryAttempts(n) > 0
    BY <1>1 DEF Send, Append
  <2>3. status' = [x \in Item |-> IF x \in B THEN "ready" ELSE status[x]]
    BY <1>1 DEF Send, Append, InsertItems
  <2>4. B # {} /\ effects' = effects /\ \A x \in B : given[x] = 0
    BY <1>1 DEF Send
  <2> QED BY <2>1, <2>2, <2>3, <2>4 DEF Enters
<1>2. ASSUME NEW c \in Consumer,
             ReadMessages(c) \/ ReadMessagesFails(c) \/ CancelMessages(c) \/ ConsumerRestarts(c)
      PROVE  Drops({})
  <2>1. given' = given /\ effects' = effects
    BY <1>2 DEF ReadMessages, ReadMessagesFails, CancelMessages, ConsumerRestarts
  <2>2. ASSUME NEW B \in Batches(ReadyItems), ToProcessing(B)
        PROVE  \A x \in Item : (status'[x] = "none") <=> (status[x] = "none")
    BY <2>2 DEF ToProcessing, Batches, ReadyItems
  <2>3. ASSUME CancelMessages(c)
        PROVE  \A x \in Item : (status'[x] = "none") <=> (status[x] = "none")
    BY <2>3 DEF CancelMessages, ProcessingToReady
  <2>4. ASSUME ConsumerRestarts(c) PROVE status' = status
    BY <2>4 DEF ConsumerRestarts
  <2>5. \A x \in Item : (status'[x] = "none") <=> (status[x] = "none")
    BY <1>2, <2>2, <2>3, <2>4 DEF ReadMessages, ReadMessagesFails
  <2> QED BY <2>1, <2>5 DEF Drops
<1>3. ASSUME NEW c \in Consumer, NEW i \in Item, Consume(c, i)
      PROVE  Completes(i) \/ \E B \in SUBSET Item : Drops(B)
  BY <1>3, ConsumeSeen
<1>4. ASSUME RetryToReady \/ ProcessingToRetry PROVE Drops({})
  <2>1. given' = given /\ effects' = effects
    BY <1>4 DEF RetryToReady, ProcessingToRetry
  <2>2. CASE RetryToReady
    <3>1. \A x \in Item : (status'[x] = "none") <=> (status[x] = "none")
      BY <2>2 DEF RetryToReady, Batches, RetryItems
    <3> QED BY <2>1, <3>1 DEF Drops
  <2>3. CASE ProcessingToRetry
    <3>1. \A x \in Item : (status'[x] = "none") <=> (status[x] = "none")
      BY <2>3 DEF ProcessingToRetry, Batches, TimedOutItems
    <3> QED BY <2>1, <3>1 DEF Drops
  <2> QED BY <1>4, <2>2, <2>3
<1>5. ASSUME CleanForgotten PROVE \E B \in SUBSET Item : Drops(B)
  <2>1. PICK B \in Batches(ForgottenItems) :
          status' = [x \in Item |-> IF x \in B THEN "none" ELSE status[x]]
    BY <1>5 DEF CleanForgotten
  <2>2. Drops(B)
    BY <1>5, <2>1 DEF CleanForgotten, Batches, ForgottenItems, Drops
  <2> QED BY <2>1, <2>2 DEF Batches, ForgottenItems
<1>6. ASSUME CleanCompleted \/ CleanCrashed PROVE Drops({})
  BY <1>6 DEF CleanCompleted, CleanCrashed, Drops
<1>7. ASSUME NEW i \in Item, Elapse(i) \/ ElapseWhileHeld(i) PROVE Drops({})
  BY <1>7 DEF Elapse, ElapseWhileHeld, Passes, Drops
<1>8. {} \in SUBSET Item
  OBVIOUS
<1> HIDE DEF Inv, TypeButDue, tables, Same
<1> QED BY <1>1, <1>2, <1>3, <1>4, <1>5, <1>6, <1>7, <1>8 DEF Next

(* Items of which only those of B change their place change as QueueSpec
   says. *)
LEMMA PlacesBecome ==
  ASSUME NEW B \in SUBSET Item, NEW p,
         \A x \in B : PlaceOf(x)' = p,
         \A x \in Item \ B : PlaceOf(x)' = PlaceOf(x)
  PROVE  Contents!Becomes(B, p)
BY DEF Contents!Becomes

(* An item that is left alone stays where it is. *)
LEMMA SamePlace ==
  ASSUME NEW x \in Item, Same(x)
  PROVE  PlaceOf(x)' = PlaceOf(x)
BY DEF Same, PlaceOf

(* Every step is one of QueueSpec, or one that those who use the queue do not
   see. *)
LEMMA StepImplements == Inv /\ [Next]_vars => [Contents!Next]_([i \in Item |-> PlaceOf(i)])
<1>1. CASE UNCHANGED vars
  BY <1>1 DEF vars, tables, PlaceOf
<1>2. ASSUME Inv, NEW B \in SUBSET Item, Enters(B) PROVE Contents!Append(B)
  <2>1. \A x \in B : PlaceOf(x) = "new" /\ PlaceOf(x)' = "queued"
    BY <1>2 DEF Enters, PlaceOf, Inv, TypeButDue
  <2>2. \A x \in Item \ B : PlaceOf(x)' = PlaceOf(x)
    BY <1>2, SamePlace DEF Enters
  <2>3. Contents!Becomes(B, "queued")
    BY <2>1, <2>2, PlacesBecome
  <2> QED BY <1>2, <2>1, <2>3 DEF Enters, Contents!Append, Contents!Are
<1>3. ASSUME Inv, NEW i \in Item, Completes(i) PROVE Contents!Complete(i)
  <2>1. PlaceOf(i) = "queued" /\ PlaceOf(i)' = "done"
    BY <1>3 DEF Completes, PlaceOf, Inv, TypeButDue, Fresh
  <2>2. \A x \in Item \ {i} : PlaceOf(x)' = PlaceOf(x)
    BY <1>3, SamePlace DEF Completes
  <2>3. Contents!Becomes({i}, "done")
    BY <2>1, <2>2, PlacesBecome
  <2> QED BY <2>1, <2>3 DEF Contents!Complete, Contents!Are
<1>4. ASSUME Inv, NEW B \in SUBSET Item, B # {}, Drops(B) PROVE Contents!Drop(B)
  <2>1. \A x \in B : PlaceOf(x) = "queued" /\ PlaceOf(x)' = "dropped"
    BY <1>4 DEF Drops, PlaceOf, Inv, TypeButDue, Fresh, Once
  <2>2. \A x \in Item \ B : PlaceOf(x)' = PlaceOf(x)
    BY <1>4, SamePlace DEF Drops
  <2>3. Contents!Becomes(B, "dropped")
    BY <2>1, <2>2, PlacesBecome
  <2> QED BY <1>4, <2>1, <2>3 DEF Contents!Drop, Contents!Are
<1>5. ASSUME Drops({}) PROVE UNCHANGED [i \in Item |-> PlaceOf(i)]
  BY <1>5, SamePlace DEF Drops
<1> QED BY <1>1, <1>2, <1>3, <1>4, <1>5, StepSeen DEF Contents!Next

(* Whatever consumers, the scheduler and faults do, to those who use it the
   queue behaves as QueueSpec: one entry, one departure, and an effect only
   in the step of the departure. *)
THEOREM QueueImplementsSpec == Spec => Contents!Spec
<1>1. Init => Contents!Init
  BY DEF Init, Contents!Init, PlaceOf
<1> QED BY <1>1, StepImplements, Invariant, PTL DEF Spec, Contents!Spec
=============================================================================
