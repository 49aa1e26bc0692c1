--------------------------- MODULE NotifierProofs ---------------------------
(***************************************************************************)
(* Proofs about Notifier, for any notes, consumers, templates and bounds.  *)
(*                                                                         *)
(* The notifier runs a Queue of notes, so what is proved of every Queue is *)
(* a fact about it, and the invariant of the notifier is inductive         *)
(* relative to it.  From both follows that the queue of notes and the      *)
(* queue of messages are one queue to those who send notes.                *)
(***************************************************************************)
EXTENDS Notifier, FiniteSetTheorems, TLAPS

Q == INSTANCE QueueProofs WITH
  Item <- Note, NoItem <- NoNote, AttemptsInput <- {RetryAttempts},
  DefaultAttempts <- RetryAttempts, DelayInput <- {0}, Second <- 1,
  DelayCorrection <- 0, PrimaryKey <- "note_id", JournalOutlivesQueue <- TRUE

-----------------------------------------------------------------------------
(* The notifier is a queue of notes *)

(* No step of a producer, a handler, a task, an editor of templates or of
   mrmailer does anything to the queue of notes that Queue does not do. *)
LEMMA NextIsNotes == Next => Notes!Next \/ UNCHANGED Notes!vars
<1> USE DEF Alone
<1>1. ASSUME NEW n \in Note, Send(n) PROVE Notes!Next
  <2>1. Notes!Send({n}, RetryAttempts, 0)
    BY <1>1 DEF Send, InsertNote
  <2>2. {n} \in (SUBSET Note) \ {{}} /\ RetryAttempts \in {RetryAttempts} /\ 0 \in {0}
    OBVIOUS
  <2> QED BY <2>1, <2>2, Zenon DEF Notes!Next
<1>2. ASSUME NEW lang \in Lang, NEW t \in Templates, EditTemplate(lang, t)
      PROVE  UNCHANGED Notes!vars
  BY <1>2 DEF EditTemplate, queue, Notes!vars, Notes!tables
<1>3. ASSUME NEW c \in Consumer, NEW n \in Note, Handle(c, n)
      PROVE  Notes!Next \/ UNCHANGED Notes!vars
  <2>1. CASE Build(c, n)
    BY <2>1 DEF Build, queue, Notes!vars, Notes!tables
  <2>2. ASSUME Notes!Consume(c, n) PROVE Notes!Next
    BY <2>2, Zenon DEF Notes!Next
  <2>3. CASE HandlerFails(c, n)
    BY <2>2, <2>3, Zenon DEF HandlerFails, Notes!Consume
  <2>4. CASE SendMessages(c, n)
    BY <2>2, <2>4, Zenon DEF SendMessages, Notes!Consume
  <2>5. CASE Commit(c, n)
    BY <2>2, <2>5, Zenon DEF Commit, Notes!Consume
  <2>6. CASE Settle(c, n)
    BY <2>2, <2>6, Zenon DEF Settle, Notes!Consume
  <2> QED BY <1>3, <2>1, <2>3, <2>4, <2>5, <2>6 DEF Handle
<1>4. CASE QueueStep
  BY <1>4, Zenon
  DEF QueueStep, Retry, TimeOut, Forget, Clean, Elapse, ReadMessages, Notes!Next
<1>5. ASSUME NEW m \in MailID, Deliver(m) PROVE UNCHANGED Notes!vars
  BY <1>5 DEF Deliver, queue, Notes!vars, Notes!tables
<1> QED BY <1>1, <1>2, <1>3, <1>4, <1>5, Zenon DEF Next

(* So the queue of notes has the properties of every queue. *)
LEMMA NotesAreAQueue == Spec => Notes!Spec
<1>1. Init => Notes!Init
  BY DEF Init
<1>2. [Next]_vars => [Notes!Next]_Notes!vars
  <2>1. vars' = vars => UNCHANGED Notes!vars
    BY DEF vars, queue, Notes!vars, Notes!tables
  <2> QED BY <2>1, NextIsNotes
<1> QED BY <1>1, <1>2, PTL DEF Spec, Notes!Spec

(* The queue of notes that Notifier names and the one proved about are one. *)
LEMMA SameQueue == Notes!Spec => Q!Spec
<1>1. Notes!Init => Q!Init
  BY DEF Notes!Init, Q!Init
<1>2. UNCHANGED Notes!vars => UNCHANGED Q!vars
  BY DEF Notes!vars, Q!vars, Notes!tables, Q!tables
<1>3. \A S : Notes!Batches(S) = Q!Batches(S)
  BY Zenon DEF Notes!Batches, Q!Batches, Notes!Cardinality, Q!Cardinality
<1>4. Notes!Next => Q!Next
  <2>1. ASSUME NEW B, NEW k, NEW d, Notes!Send(B, k, d) PROVE Q!Send(B, k, d)
    BY <2>1, Zenon DEF Notes!Send, Q!Send, Notes!InsertMessages, Q!InsertMessages,
         Notes!Append, Q!Append, Notes!InsertItems, Q!InsertItems,
         Notes!GetRetryAttempts, Q!GetRetryAttempts, Notes!GetReadyDelayed,
         Q!GetReadyDelayed
  <2>2. ASSUME NEW c, Notes!ReadMessages(c) PROVE Q!ReadMessages(c)
    BY <2>2, <1>3, Zenon DEF Notes!ReadMessages, Q!ReadMessages, Notes!ToProcessing,
         Q!ToProcessing, Notes!ReadyItems, Q!ReadyItems,
         Notes!Idle, Q!Idle, Notes!tables, Q!tables
  <2>3. ASSUME NEW c, Notes!ReadMessagesFails(c) PROVE Q!ReadMessagesFails(c)
    BY <2>3, <1>3, Zenon DEF Notes!ReadMessagesFails, Q!ReadMessagesFails, Notes!ToProcessing,
         Q!ToProcessing, Notes!ReadyItems, Q!ReadyItems,
         Notes!Idle, Q!Idle, Notes!Fault, Q!Fault, Notes!tables, Q!tables
  <2>4. ASSUME NEW c, Notes!CancelMessages(c) PROVE Q!CancelMessages(c)
    BY <2>4, Zenon DEF Notes!CancelMessages, Q!CancelMessages, Notes!HeldItems,
         Q!HeldItems, Notes!ProcessingToReady, Q!ProcessingToReady, Notes!Fault, Q!Fault
  <2>5. ASSUME NEW c, Notes!ConsumerRestarts(c) PROVE Q!ConsumerRestarts(c)
    BY <2>5, Zenon DEF Notes!ConsumerRestarts, Q!ConsumerRestarts, Notes!Idle, Q!Idle,
         Notes!Fault, Q!Fault, Notes!tables, Q!tables
  <2>6. ASSUME NEW c, NEW i, Notes!Consume(c, i) PROVE Q!Consume(c, i)
    <3>1. Notes!PreCommit(c, i) => Q!PreCommit(c, i)
      BY Zenon DEF Notes!PreCommit, Q!PreCommit, Notes!JobBecomes, Q!JobBecomes,
           Notes!tables, Q!tables
    <3>2. Notes!HandlerFails(c, i) => Q!HandlerFails(c, i)
      BY Zenon DEF Notes!HandlerFails, Q!HandlerFails, Notes!JobBecomes, Q!JobBecomes,
           Notes!tables, Q!tables
    <3>3. Notes!Commit(c, i) => Q!Commit(c, i)
      BY Zenon DEF Notes!Commit, Q!Commit, Notes!JobBecomes, Q!JobBecomes,
           Notes!DeleteItem, Q!DeleteItem, Notes!InsertCompleted, Q!InsertCompleted
    <3>4. Notes!CommitMessageFails(c, i) => Q!CommitMessageFails(c, i)
      BY Zenon DEF Notes!CommitMessageFails, Q!CommitMessageFails, Notes!JobBecomes,
           Q!JobBecomes, Notes!Fault, Q!Fault, Notes!tables, Q!tables
    <3>5. Notes!RejectSystem(c, i) => Q!RejectSystem(c, i)
      BY Zenon DEF Notes!RejectSystem, Q!RejectSystem, Notes!JobBecomes, Q!JobBecomes,
           Notes!ProcessingToRetryOne, Q!ProcessingToRetryOne, Notes!Journal, Q!Journal
    <3>6. Notes!RejectOther(c, i) => Q!RejectOther(c, i)
      BY Zenon DEF Notes!RejectOther, Q!RejectOther, Notes!JobBecomes, Q!JobBecomes,
           Notes!DeleteItem, Q!DeleteItem, Notes!Journal, Q!Journal
    <3>7. Notes!RejectMessageFails(c, i) => Q!RejectMessageFails(c, i)
      BY Zenon DEF Notes!RejectMessageFails, Q!RejectMessageFails, Notes!JobBecomes,
           Q!JobBecomes, Notes!Fault, Q!Fault, Notes!tables, Q!tables
    <3> QED BY <2>6, <3>1, <3>2, <3>3, <3>4, <3>5, <3>6, <3>7, Zenon DEF Notes!Consume, Q!Consume
  <2>7. Notes!RetryToReady => Q!RetryToReady
    BY <1>3, Zenon DEF Notes!RetryToReady, Q!RetryToReady, Notes!AmbiguousKey,
         Q!AmbiguousKey, Notes!RetryItems, Q!RetryItems
  <2>8. Notes!ProcessingToRetry => Q!ProcessingToRetry
    BY <1>3, Zenon DEF Notes!ProcessingToRetry, Q!ProcessingToRetry, Notes!AmbiguousKey,
         Q!AmbiguousKey, Notes!TimedOutItems, Q!TimedOutItems,
         Notes!Journal, Q!Journal
  <2>9. Notes!CleanForgotten => Q!CleanForgotten
    BY <1>3, Zenon DEF Notes!CleanForgotten, Q!CleanForgotten,
         Notes!ForgottenItems, Q!ForgottenItems
  <2>10. Notes!CleanCompleted => Q!CleanCompleted
    BY <1>3, Zenon DEF Notes!CleanCompleted, Q!CleanCompleted,
         Notes!DeleteByIDs, Q!DeleteByIDs
  <2>11. Notes!CleanCrashed => Q!CleanCrashed
    BY <1>3, Zenon DEF Notes!CleanCrashed, Q!CleanCrashed,
         Notes!ExpiredErrors, Q!ExpiredErrors, Notes!Queued, Q!Queued,
         Notes!DeleteByIDs, Q!DeleteByIDs
  <2>12. ASSUME NEW i, Notes!Elapse(i) \/ Notes!ElapseWhileHeld(i)
        PROVE  Q!Elapse(i) \/ Q!ElapseWhileHeld(i)
    BY <2>12, Zenon DEF Notes!Elapse, Q!Elapse, Notes!ElapseWhileHeld,
         Q!ElapseWhileHeld, Notes!Passes, Q!Passes, Notes!Queued, Q!Queued,
         Notes!HeldBySomeone, Q!HeldBySomeone, Notes!Fault, Q!Fault
  <2> QED BY <2>1, <2>2, <2>3, <2>4, <2>5, <2>6, <2>7, <2>8, <2>9, <2>10, <2>11, <2>12, Zenon
          DEF Notes!Next, Q!Next
<1>5. [Notes!Next]_Notes!vars => [Q!Next]_Q!vars
  BY <1>2, <1>4
<1> QED BY <1>1, <1>5, PTL DEF Notes!Spec, Q!Spec

(* The constants of Notifier are constants a Queue may have. *)
LEMMA QueueAssumptions ==
  /\ Q!ItemAssumption /\ Q!ConsumerAssumption /\ Q!AttemptsAssumption
  /\ Q!DelayAssumption /\ Q!BoundAssumption
BY NoteAssumption, NotesAssumption
DEF Q!ItemAssumption, Q!ConsumerAssumption, Q!AttemptsAssumption, Q!DelayAssumption,
    Q!BoundAssumption, Q!IsFiniteSet, IsFiniteSet

(* A note is handled at most as often as its attempts and its timeouts add up
   to, whatever is built from it meanwhile. *)
THEOREM NotesAreHandledBounded == Spec => []Notes!SendsBounded
<1>1. Q!Spec => []Q!SendsBounded
  BY QueueAssumptions, Q!SendsAreBounded
<1>2. Q!SendsBounded => Notes!SendsBounded
  BY DEF Q!SendsBounded, Notes!SendsBounded
<1> QED BY <1>1, <1>2, NotesAreAQueue, SameQueue, PTL

(* A note that has left its queue, handed over or not, does not return. *)
THEOREM NotesLeaveForGood == Spec => Notes!LeavesForGood
<1>1. Q!Spec => Q!LeavesForGood
  BY QueueAssumptions, Q!ItemsLeaveForGood
<1>2. [\A i \in Note : given[i] > 0 /\ status[i] = "none" => status'[i] = "none"]_Q!vars =>
        [\A i \in Note : given[i] > 0 /\ status[i] = "none" => status'[i] = "none"]_Notes!vars
  BY DEF Q!vars, Notes!vars, Q!tables, Notes!tables
<1> QED BY <1>1, <1>2, NotesAreAQueue, SameQueue, PTL
        DEF Q!LeavesForGood, Notes!LeavesForGood

(* What the proofs below need to know of the queue of notes: a note that is
   in it has not been committed before. *)
QueueOK ==
  /\ job \in [Consumer -> [Note -> Notes!JobState]]
  /\ effects \in [Note -> Nat]
  /\ given \in [Note -> Nat]
  /\ status \in [Note -> Notes!Status]
  /\ \A n \in Note : status[n] # "none" => effects[n] = 0
  /\ \A n \in Note : given[n] = 0 => status[n] = "none" /\ effects[n] = 0

(* It is part of what QueueProofs shows of every queue. *)
LEMMA NotesAreCommittedOnce == Notes!Spec => []QueueOK
<1>2. Q!Spec => [](Q!Inv /\ Q!Account /\ Q!DueType)
  BY QueueAssumptions, Q!Invariant, PTL
<1>3. Q!Inv => QueueOK
  <2> SUFFICES ASSUME Q!Inv PROVE QueueOK
    OBVIOUS
  <2>1. /\ job \in [Consumer -> [Note -> Notes!JobState]]
        /\ effects \in [Note -> Nat]
        /\ given \in [Note -> Nat]
        /\ status \in [Note -> Notes!Status]
    BY DEF Q!Inv, Q!TypeButDue, Q!Status, Notes!Status, Q!JobState, Notes!JobState
  <2>2. \A n \in Note : effects[n] <= 1 /\ (effects[n] = 1 => status[n] = "none")
    BY DEF Q!Inv, Q!Once
  <2>3. ASSUME NEW n \in Note, status[n] # "none" PROVE effects[n] = 0
    <3>1. effects[n] \in Nat /\ effects[n] <= 1 /\ effects[n] # 1
      BY <2>1, <2>2, <2>3
    <3> QED BY <3>1
  <2>4. \A n \in Note : given[n] = 0 => status[n] = "none" /\ effects[n] = 0
    BY DEF Q!Inv, Q!Fresh
  <2> QED BY <2>1, <2>3, <2>4 DEF QueueOK
<1> QED BY <1>2, <1>3, SameQueue, PTL

-----------------------------------------------------------------------------
(* The notices of a template *)

(* There are finitely many, and where there are any the first is among them. *)
LEMMA NoticesAre ==
  ASSUME NEW t \in Templates
  PROVE  /\ IsFiniteSet(NoticesOf(t))
         /\ NoticesOf(t) # {} => \E x \in NoticesOf(t) : x.nr = 0
<1>1. t.observers \in {<<>>, <<TRUE>>, <<FALSE>>, <<TRUE, FALSE>>}
  BY TemplatesAssumption DEF TemplateData
<1>2. IsFiniteSet({1, 2})
  <2>1. IsFiniteSet({1} \cup {2})
    BY FS_Singleton, FS_AddElement
  <2>2. {1} \cup {2} = {1, 2}
    OBVIOUS
  <2> QED BY <2>1, <2>2
<1>3. IsFiniteSet(DOMAIN t.observers)
  <2>1. DOMAIN t.observers \subseteq {1, 2}
    <3>1. CASE t.observers = <<>>
      BY <3>1
    <3>2. CASE t.observers = <<TRUE>> \/ t.observers = <<FALSE>>
      <4>1. DOMAIN <<TRUE>> = {1} /\ DOMAIN <<FALSE>> = {1}
        OBVIOUS
      <4> QED BY <3>2, <4>1, Zenon
    <3>3. CASE t.observers = <<TRUE, FALSE>>
      BY <3>3
    <3> QED BY <1>1, <3>1, <3>2, <3>3
  <2> QED BY <1>2, <2>1, FS_Subset
<1>4. IsFiniteSet({Notice("mail", k, t.observers[k]) : k \in DOMAIN t.observers})
  <2> DEFINE D == DOMAIN t.observers
             T == {Notice("mail", k, t.observers[k]) : k \in D}
             f == [k \in D |-> Notice("mail", k, t.observers[k])]
  <2>1. f \in Surjection(D, T)
    BY DEF Surjection
  <2> HIDE DEF f
  <2>2. IsFiniteSet(T)
    BY <1>3, <2>1, FS_Surjection
  <2> QED BY <2>2
<1>5. IsFiniteSet(MailNotices(t)) /\ IsFiniteSet(MessengerNotices(t))
  BY <1>4, FS_EmptySet, FS_Singleton, FS_Union DEF MailNotices, MessengerNotices
<1>6. IsFiniteSet(NoticesOf(t))
  BY <1>5, FS_Union DEF NoticesOf
<1>7. ASSUME NoticesOf(t) # {} PROVE \E x \in NoticesOf(t) : x.nr = 0
  <2>1. Notice("mail", 0, TRUE).nr = 0 /\ Notice("messenger", 0, TRUE).nr = 0
    BY DEF Notice
  <2>2. CASE t.mail
    BY <2>1, <2>2 DEF NoticesOf, MailNotices
  <2>3. CASE ~t.mail
    BY <1>7, <2>1, <2>3 DEF NoticesOf, MailNotices, MessengerNotices
  <2> QED BY <2>2, <2>3
<1> QED BY <1>6, <1>7

(* The order the transaction puts the notices in. *)
Order(notices) ==
  CHOOSE f \in [NewIDs(notices) -> notices] :
    \A x \in notices : \E m \in NewIDs(notices) : f[m] = x

(* Each notice has one of the new IDs. *)
LEMMA OrderIs ==
  ASSUME nextID \in Nat, NEW S, IsFiniteSet(S)
  PROVE  /\ Cardinality(S) \in Nat
         /\ Order(S) \in [NewIDs(S) -> S]
         /\ \A x \in S : \E m \in NewIDs(S) : Order(S)[m] = x
         /\ \A m, k \in NewIDs(S) : Order(S)[m] = Order(S)[k] => m = k
<1>1. Cardinality(S) \in Nat
  BY FS_CardinalityType
<1>2. IsFiniteSet(NewIDs(S)) /\ Cardinality(NewIDs(S)) = Cardinality(S)
  <2>1. ASSUME NEW i \in Nat, NEW k \in Nat
        PROVE  IsFiniteSet(i..(i + k - 1)) /\ Cardinality(i..(i + k - 1)) = k
    BY FS_Interval, i + k - 1 \in Int
  <2> QED BY <1>1, <2>1 DEF NewIDs
<1>3. \E f \in [NewIDs(S) -> S] : \A x \in S : \E m \in NewIDs(S) : f[m] = x
  <2>1. ExistsBijection(NewIDs(S), S)
    BY <1>2, FS_SameCardinalityBij, Zenon
  <2>2. PICK f \in Bijection(NewIDs(S), S) : TRUE
    BY <2>1, Zenon DEF ExistsBijection
  <2>3. f \in Surjection(NewIDs(S), S)
    BY <2>2, Zenon DEF Bijection
  <2> QED BY <2>3 DEF Surjection
<1>4. /\ Order(S) \in [NewIDs(S) -> S]
      /\ \A x \in S : \E m \in NewIDs(S) : Order(S)[m] = x
  BY <1>3, Zenon DEF Order
<1>5. Order(S) \in Surjection(NewIDs(S), S)
  BY <1>4 DEF Surjection
<1>6. Order(S) \in Injection(NewIDs(S), S)
  BY <1>2, <1>5, FS_SurjSameCardinalityImpliesInj
<1>7. \A m, k \in NewIDs(S) : Order(S)[m] = Order(S)[k] => m = k
  BY <1>4, <1>6 DEF Injection, IsInjective
<1> QED BY <1>1, <1>4, <1>7

-----------------------------------------------------------------------------
(* The inductive invariant: it says of the notices a handler keeps what the
   properties say of the messages it makes of them. *)

(* What a handler has built is nothing, or all the notices of a template. *)
BuiltNotices ==
  {Nothing} \cup
  {[notices |-> NoticesOf(t), lang |-> lang] :
     t \in {x \in Templates : NoticesOf(x) # {}}, lang \in Lang}

BuiltOK ==
  /\ built \in [Consumer -> [Note -> BuiltNotices]]
  /\ \A c \in Consumer, n \in Note :
       /\ job[c][n] \notin {"held", "sent"} => built[c][n] = Nothing
       /\ job[c][n] = "sent" => Accepted(built[c][n].notices)

MailOK ==
  /\ mail \in [MailID -> Mail!Place]
  /\ nextID \in 1..(MaxMail + 1)
  /\ edits \in 0..MaxEdits

ContentOK ==
  /\ DOMAIN content = 1..(nextID - 1)
  /\ MessagesHaveBody

Inv ==
  /\ template \in [Lang -> Templates]
  /\ BuiltOK
  /\ MailOK
  /\ ContentOK
  /\ HandedOverWhole

(* A handler has built nothing, or a first notice and others. *)
LEMMA BuiltIs ==
  ASSUME BuiltOK, NEW c \in Consumer, NEW n \in Note, built[c][n].notices # {}
  PROVE  /\ built[c][n].lang \in Lang
         /\ \E t \in Templates : built[c][n].notices = NoticesOf(t)
         /\ IsFiniteSet(built[c][n].notices)
         /\ \E x \in built[c][n].notices : x.nr = 0
<1>1. built[c][n] \in BuiltNotices /\ built[c][n] # Nothing
  BY DEF BuiltOK, Nothing
<1>2. PICK t \in Templates, lang \in Lang :
        built[c][n] = [notices |-> NoticesOf(t), lang |-> lang]
  BY <1>1 DEF BuiltNotices
<1>3. built[c][n].notices = NoticesOf(t) /\ built[c][n].lang = lang
  BY <1>2
<1> QED BY <1>3, NoticesAre, Zenon

(* Nothing is built, put into a queue or completed before the first step. *)
LEMMA InvInit == Init => Inv
<1> SUFFICES ASSUME Init PROVE Inv
  OBVIOUS
<1>1. template \in [Lang -> Templates]
  BY DEF Init
<1>2. BuiltOK
  BY DEF Init, BuiltOK, BuiltNotices, Notes!Init, Accepted
<1>3. MailOK
  BY BoundAssumption DEF Init, MailOK, Mail!Init, Mail!Place
<1>4. ContentOK
  BY DEF Init, ContentOK, MessagesHaveBody
<1>5. HandedOverWhole
  BY DEF Init, HandedOverWhole, MessagesOf, Notes!Init
<1> QED BY <1>1, <1>2, <1>3, <1>4, <1>5 DEF Inv

(* What is kept was built before, or there is nothing. *)
LEMMA KeptIsBuilt ==
  ASSUME BuiltOK, KeepBuilt,
         \A c \in Consumer, n \in Note :
           job'[c][n] = "sent" => job[c][n] = "sent" \/ Accepted(built[c][n].notices)
  PROVE  BuiltOK'
<1>1. ASSUME NEW c \in Consumer, NEW n \in Note
      PROVE  /\ built'[c][n] \in BuiltNotices
             /\ job'[c][n] \notin {"held", "sent"} => built'[c][n] = Nothing
             /\ job'[c][n] = "sent" => Accepted(built'[c][n].notices)
  <2>1. built'[c][n] = IF job'[c][n] \in {"held", "sent"} THEN built[c][n] ELSE Nothing
    BY DEF KeepBuilt
  <2>2. built[c][n] \in BuiltNotices /\ Nothing \in BuiltNotices
    BY DEF BuiltOK, BuiltNotices
  <2>3. job[c][n] = "sent" => Accepted(built[c][n].notices)
    BY DEF BuiltOK
  <2> QED BY <2>1, <2>2, <2>3
<1>2. built' \in [Consumer -> [Note -> BuiltNotices]]
  BY <1>1 DEF KeepBuilt
<1> QED BY <1>1, <1>2 DEF BuiltOK

(* As long as nothing is committed, messages stay what they are. *)
LEMMA QuietKeeps ==
  ASSUME Inv, UNCHANGED <<content, nextID, effects>>, BuiltOK',
         template' \in [Lang -> Templates],
         mail' \in [MailID -> Mail!Place],
         edits' \in 0..MaxEdits
  PROVE  Inv'
<1>1. MailOK'
  BY DEF Inv, MailOK, Mail!Place
<1>2. ContentOK'
  BY DEF Inv, ContentOK, MessagesHaveBody
<1>3. HandedOverWhole'
  <2>1. content' = content /\ effects' = effects
    OBVIOUS
  <2>2. HandedOverWhole
    BY DEF Inv
  <2>3. \A n : MessagesOf(n)' = MessagesOf(n)
    BY <2>1 DEF MessagesOf
  <2>4. \A n : {content'[m].notice : m \in MessagesOf(n)} =
              {content[m].notice : m \in MessagesOf(n)}
    BY <2>1
  <2>5. \A n \in Note : effects[n] > 0 => \A m, x \in MessagesOf(n) :
          /\ content'[m].lang = content'[x].lang
          /\ content'[m].notice = content'[x].notice => m = x
    BY <2>1, <2>2 DEF HandedOverWhole
  <2>6. \A n \in Note : effects[n] > 0 =>
          /\ \E m \in MessagesOf(n) : content'[m].notice.nr = 0
          /\ \E t \in Templates : {content'[m].notice : m \in MessagesOf(n)} = NoticesOf(t)
    BY <2>1, <2>2, <2>4, Zenon DEF HandedOverWhole
  <2>7. \A n \in Note : effects[n] = 0 => MessagesOf(n) = {}
    BY <2>2, Zenon DEF HandedOverWhole
  <2> QED BY <2>1, <2>3, <2>5, <2>6, <2>7 DEF HandedOverWhole
<1> QED BY <1>1, <1>2, <1>3 DEF Inv

(* A step of the queue of notes that commits nothing keeps the invariant. *)
LEMMA AloneKeeps ==
  ASSUME Inv, KeepBuilt, UNCHANGED <<template, mails, edits, effects>>,
         \A c \in Consumer, n \in Note :
           job'[c][n] = "sent" => job[c][n] = "sent" \/ Accepted(built[c][n].notices)
  PROVE  Inv'
<1>1. BuiltOK'
  BY KeptIsBuilt DEF Inv
<1> QED BY <1>1, QuietKeeps DEF Inv, MailOK, mails

(* A commit puts in the notices that were built as the next messages. *)
LEMMA AppendIs ==
  ASSUME MailOK, ContentOK, NEW n, NEW S, NEW lang, IsFiniteSet(S), S # {},
         Append(n, S, lang)
  PROVE  /\ nextID' \in 1..(MaxMail + 1)
         /\ mail' \in [MailID -> Mail!Place]
         /\ DOMAIN content' = (DOMAIN content) \cup NewIDs(S)
         /\ DOMAIN content' = 1..(nextID' - 1)
         /\ (DOMAIN content) \cap NewIDs(S) = {}
         /\ \A m \in DOMAIN content : content'[m] = content[m]
         /\ \A m \in NewIDs(S) :
              content'[m] = [note |-> n, notice |-> Order(S)[m], lang |-> lang]
<1> DEFINE k == Cardinality(S)
<1>1. nextID \in Nat /\ nextID >= 1 /\ MaxMail \in Nat /\ k \in Nat /\ k # 0
  BY BoundAssumption, FS_CardinalityType, FS_EmptySet DEF MailOK
<1>2. NewIDs(S) = nextID..(nextID + k - 1)
  BY DEF NewIDs
<1>3. /\ nextID' = nextID + k
      /\ NewIDs(S) \subseteq 1..MaxMail
      /\ content' = [m \in 1..(nextID' - 1) |->
                       IF m < nextID THEN content[m]
                       ELSE [note |-> n, notice |-> Order(S)[m], lang |-> lang]]
  BY Zenon DEF Append, Order, MailID
<1>4. nextID + k - 1 <= MaxMail
  <2> HIDE DEF k
  <2>1. nextID + k - 1 \in NewIDs(S)
    BY <1>1, <1>2
  <2> QED BY <1>1, <1>3, <2>1
<1>5. nextID' \in 1..(MaxMail + 1)
  <2> HIDE DEF k
  <2> QED BY <1>1, <1>3, <1>4
<1>6. mail' \in [MailID -> Mail!Place]
  BY DEF Append, MailOK, Mail!Append, Mail!Becomes, Mail!Place
<1>7. DOMAIN content = 1..(nextID - 1)
  BY DEF ContentOK
<1>8. /\ 1..(nextID + k - 1) = (1..(nextID - 1)) \cup (nextID..(nextID + k - 1))
      /\ (1..(nextID - 1)) \cap (nextID..(nextID + k - 1)) = {}
      /\ nextID + k - 1 = (nextID + k) - 1
  <2> HIDE DEF k
  <2> QED BY <1>1
<1>9. DOMAIN content' = 1..(nextID' - 1) /\ nextID' - 1 = nextID + k - 1
  BY <1>3, <1>8
<1>10. /\ DOMAIN content' = (DOMAIN content) \cup NewIDs(S)
       /\ (DOMAIN content) \cap NewIDs(S) = {}
  BY <1>2, <1>7, <1>8, <1>9, Zenon
<1>11. ASSUME NEW m \in DOMAIN content PROVE content'[m] = content[m]
  <2>1. m \in 1..(nextID' - 1) /\ m < nextID
    BY <1>1, <1>7, <1>9, <1>10
  <2> QED BY <1>3, <2>1
<1>12. ASSUME NEW m \in NewIDs(S)
       PROVE  content'[m] = [note |-> n, notice |-> Order(S)[m], lang |-> lang]
  <2>1. m \in 1..(nextID' - 1) /\ ~(m < nextID)
    BY <1>1, <1>2, <1>9, <1>10
  <2> QED BY <1>3, <2>1
<1> QED BY <1>5, <1>6, <1>9, <1>10, <1>11, <1>12

(* The commit of a note hands over all the notices of a template, and no
   message of any other note. *)
LEMMA CommitKeeps ==
  ASSUME Inv, QueueOK, NEW c \in Consumer, NEW n \in Note, Commit(c, n)
  PROVE  Inv'
<1> DEFINE S == built[c][n].notices
           lang == built[c][n].lang
           New == NewIDs(S)
<1>1. /\ job[c][n] = "sent" /\ status[n] = "processing"
      /\ effects' = [effects EXCEPT ![n] = @ + 1]
      /\ job' = [job EXCEPT ![c][n] = "none"]
      /\ Append(n, S, lang) /\ KeepBuilt /\ UNCHANGED <<template, edits>>
  BY DEF Commit, Notes!Commit, Notes!DeleteItem, Notes!JobBecomes
<1>2. S # {} /\ \A x \in S : x.body
  BY <1>1, Zenon DEF Inv, BuiltOK, Accepted
<1>3. /\ lang \in Lang
      /\ \E t \in Templates : S = NoticesOf(t)
      /\ IsFiniteSet(S)
      /\ \E x \in S : x.nr = 0
  BY <1>2, BuiltIs, Zenon DEF Inv
<1>4. /\ nextID' \in 1..(MaxMail + 1)
      /\ mail' \in [MailID -> Mail!Place]
      /\ DOMAIN content' = (DOMAIN content) \cup New
      /\ DOMAIN content' = 1..(nextID' - 1)
      /\ (DOMAIN content) \cap New = {}
      /\ \A m \in DOMAIN content : content'[m] = content[m]
      /\ \A m \in New :
           content'[m] = [note |-> n, notice |-> Order(S)[m], lang |-> lang]
  <2> HIDE DEF S, lang, New
  <2>1. MailOK /\ ContentOK
    BY DEF Inv
  <2> QED BY <1>1, <1>2, <1>3, <2>1, AppendIs DEF New
<1>5. /\ Order(S) \in [New -> S]
      /\ \A x \in S : \E m \in New : Order(S)[m] = x
      /\ \A m, x \in New : Order(S)[m] = Order(S)[x] => m = x
  BY <1>3, OrderIs DEF Inv, MailOK
<1>6. BuiltOK'
  <2>1. \A e \in Consumer, x \in Note : job'[e][x] = "sent" => job[e][x] = "sent"
    BY <1>1 DEF QueueOK
  <2> QED BY <1>1, <2>1, KeptIsBuilt, Zenon DEF Inv
<1>7. MailOK'
  BY <1>1, <1>4 DEF Inv, MailOK, Mail!Place
<1>8. \A m \in New : /\ content'[m].note = n
                     /\ content'[m].notice = Order(S)[m]
                     /\ content'[m].lang = lang
  BY <1>4
<1>9. ContentOK'
  <2>1. ASSUME NEW m \in DOMAIN content' PROVE content'[m].notice.body
    <3>1. CASE m \in DOMAIN content
      BY <1>4, <3>1, Zenon DEF Inv, ContentOK, MessagesHaveBody
    <3>2. CASE m \in New
      <4>1. Order(S)[m] \in S
        BY <1>5, <3>2
      <4> QED BY <1>2, <1>8, <3>2, <4>1, Zenon
    <3> QED BY <1>4, <2>1, <3>1, <3>2
  <2> QED BY <1>4, <2>1 DEF ContentOK, MessagesHaveBody
<1>10. HandedOverWhole'
  <2>1. effects[n] = 0 /\ MessagesOf(n) = {}
    BY <1>1, Zenon DEF QueueOK, Inv, HandedOverWhole
  <2>2. MessagesOf(n)' = New
    BY <1>4, <1>8, <2>1 DEF MessagesOf
  <2>3. \A x \in Note \ {n} : MessagesOf(x)' = MessagesOf(x) /\ effects'[x] = effects[x]
    BY <1>1, <1>4, <1>8 DEF MessagesOf, QueueOK
  <2>4. effects'[n] = 1
    BY <1>1, <2>1 DEF QueueOK
  <2>5. {content'[m].notice : m \in New} = S
    BY <1>5, <1>8
  <2>6. ASSUME NEW y \in Note
        PROVE  /\ effects'[y] = 0 => MessagesOf(y)' = {}
               /\ effects'[y] > 0 =>
                    /\ \E m \in MessagesOf(y)' : content'[m].notice.nr = 0
                    /\ \A m, x \in MessagesOf(y)' :
                         /\ content'[m].lang = content'[x].lang
                         /\ content'[m].notice = content'[x].notice => m = x
                    /\ \E t \in Templates :
                         {content'[m].notice : m \in MessagesOf(y)'} = NoticesOf(t)
    <3>1. CASE y = n
      <4>1. \E m \in New : content'[m].notice.nr = 0
        <5>1. PICK x \in S : x.nr = 0
          BY <1>3
        <5>2. PICK m \in New : Order(S)[m] = x
          BY <1>5
        <5>3. content'[m].notice = x
          BY <1>8, <5>2
        <5> QED BY <5>1, <5>3
      <4>2. \A m, x \in New : /\ content'[m].lang = content'[x].lang
                              /\ content'[m].notice = content'[x].notice => m = x
        BY <1>5, <1>8
      <4> HIDE DEF S, New
      <4> QED BY <1>3, <2>2, <2>4, <2>5, <3>1, <4>1, <4>2
    <3>2. CASE y # n
      <4>1. \A m \in MessagesOf(y) : content'[m] = content[m]
        BY <1>4 DEF MessagesOf
      <4>2. {content'[m].notice : m \in MessagesOf(y)} = {content[m].notice : m \in MessagesOf(y)}
        BY <4>1
      <4>3. MessagesOf(y)' = MessagesOf(y) /\ effects'[y] = effects[y]
        BY <2>3, <3>2
      <4>4. /\ effects[y] = 0 => MessagesOf(y) = {}
            /\ effects[y] > 0 =>
                 /\ \E m \in MessagesOf(y) : content[m].notice.nr = 0
                 /\ \A m, x \in MessagesOf(y) :
                      /\ content[m].lang = content[x].lang
                      /\ content[m].notice = content[x].notice => m = x
                 /\ \E t \in Templates :
                      {content[m].notice : m \in MessagesOf(y)} = NoticesOf(t)
        BY Zenon DEF Inv, HandedOverWhole
      <4> QED BY <4>1, <4>2, <4>3, <4>4
    <3> QED BY <3>1, <3>2
  <2> QED BY <2>6 DEF HandedOverWhole
<1> QED BY <1>1, <1>6, <1>7, <1>9, <1>10 DEF Inv

(* What a handler builds is what the template in its language says. *)
LEMMA BuildKeeps ==
  ASSUME Inv, QueueOK, NEW c \in Consumer, NEW n \in Note, Build(c, n)
  PROVE  Inv'
<1>1. /\ job[c][n] = "held" /\ UNCHANGED <<job, effects, template, mails, edits>>
  BY DEF Build, queue
<1>2. PICK lang \in ChosenLangs(n) :
        /\ built' = [built EXCEPT ![c][n] = BuiltIn(lang)]
        /\ NoticesOf(template[lang]) # {}
  BY DEF Build, Builds, FetchOneByKey
<1>3. BuiltIn(lang) \in BuiltNotices
  <2>1. lang \in Lang
    BY TemplatesAssumption DEF ChosenLangs
  <2>2. template[lang] \in {x \in Templates : NoticesOf(x) # {}}
    BY <1>2, <2>1 DEF Inv
  <2> QED BY <2>1, <2>2 DEF BuiltIn, FetchOneByKey, BuiltNotices
<1>4. BuiltOK'
  <2>1. BuiltOK /\ built \in [Consumer -> [Note -> BuiltNotices]]
    BY DEF Inv, BuiltOK
  <2>2. built' \in [Consumer -> [Note -> BuiltNotices]]
    BY <1>2, <1>3, <2>1
  <2>3. \A e \in Consumer, x \in Note :
          job[e][x] # "held" => built'[e][x] = built[e][x]
    BY <1>1, <1>2, <2>1
  <2>4. ASSUME NEW e \in Consumer, NEW x \in Note
        PROVE  /\ job'[e][x] \notin {"held", "sent"} => built'[e][x] = Nothing
               /\ job'[e][x] = "sent" => Accepted(built'[e][x].notices)
    BY <1>1, <2>1, <2>3 DEF BuiltOK
  <2> QED BY <2>2, <2>4 DEF BuiltOK
<1> QED BY <1>1, <1>4, QuietKeeps DEF Inv, MailOK, mails

(* Every step keeps the invariant. *)
LEMMA InvNext ==
  ASSUME Inv, QueueOK, [Next]_vars
  PROVE  Inv'
<1> USE DEF Alone
<1>1. ASSUME UNCHANGED <<job, effects, built, content, nextID>>,
             template' \in [Lang -> Templates],
             mail' \in [MailID -> Mail!Place],
             edits' \in 0..MaxEdits
      PROVE  Inv'
  <2>1. BuiltOK'
    BY <1>1 DEF Inv, BuiltOK
  <2> QED BY <1>1, <2>1, QuietKeeps
<1>2. ASSUME NEW n \in Note, Send(n) PROVE Inv'
  <2>1. UNCHANGED <<job, effects>>
    BY <1>2 DEF Send, InsertNote, Notes!Send
  <2> QED BY <1>1, <1>2, <2>1 DEF Send, mails, Inv, MailOK
<1>3. ASSUME NEW lang \in Lang, NEW t \in Templates, EditTemplate(lang, t) PROVE Inv'
  <2>1. template' \in [Lang -> Templates] /\ edits' \in 0..MaxEdits
    BY <1>3, BoundAssumption DEF EditTemplate, Inv, MailOK
  <2>2. UNCHANGED <<job, effects, built, mail, content, nextID>>
    BY <1>3 DEF EditTemplate, queue, mails
  <2> QED BY <1>1, <2>1, <2>2 DEF Inv, MailOK
<1>4. ASSUME NEW m \in MailID, Deliver(m) PROVE Inv'
  <2>1. mail' \in [MailID -> Mail!Place]
    BY <1>4 DEF Deliver, Inv, MailOK, Mail!Complete, Mail!Drop, Mail!Becomes, Mail!Place
  <2>2. UNCHANGED <<job, effects, built, template, edits, content, nextID>>
    BY <1>4 DEF Deliver, queue
  <2> QED BY <1>1, <2>1, <2>2 DEF Inv, MailOK
<1>5. ASSUME KeepBuilt, UNCHANGED <<template, mails, edits>>, UNCHANGED effects,
             \A c \in Consumer, n \in Note : job'[c][n] = "sent" => job[c][n] = "sent"
      PROVE  Inv'
  BY <1>5, AloneKeeps
<1>6. ASSUME NEW c \in Consumer, NEW n \in Note, Handle(c, n) PROVE Inv'
  <2> USE DEF QueueOK, Notes!JobBecomes
  <2>1. CASE Build(c, n)
    BY <2>1, BuildKeeps
  <2>2. CASE HandlerFails(c, n)
    BY <1>5, <2>2 DEF HandlerFails, Notes!HandlerFails
  <2>3. CASE SendMessages(c, n)
    <3>1. \A e \in Consumer, x \in Note :
            job'[e][x] = "sent" => job[e][x] = "sent" \/ Accepted(built[e][x].notices)
      BY <2>3 DEF SendMessages, Notes!PreCommit
    <3>2. UNCHANGED effects
      BY <2>3 DEF SendMessages, Notes!PreCommit
    <3> QED BY <2>3, <3>1, <3>2, AloneKeeps DEF SendMessages
  <2>4. CASE Commit(c, n)
    BY <2>4, CommitKeeps
  <2>5. CASE Settle(c, n)
    BY <1>5, <2>5
    DEF Settle, Notes!CommitMessageFails, Notes!RejectSystem, Notes!RejectOther,
        Notes!RejectMessageFails
  <2> QED BY <1>6, <2>1, <2>2, <2>3, <2>4, <2>5 DEF Handle
<1>7. CASE QueueStep
  <2> USE DEF QueueOK
  <2>1. CASE Retry \/ TimeOut \/ Forget \/ Clean
    BY <1>5, <2>1
    DEF Retry, TimeOut, Forget, Clean, Notes!RetryToReady, Notes!ProcessingToRetry,
        Notes!CleanForgotten, Notes!CleanCompleted, Notes!CleanCrashed
  <2>2. ASSUME NEW n \in Note, Elapse(n) \/ Alone(Notes!ElapseWhileHeld(n)) PROVE Inv'
    BY <1>5, <2>2 DEF Elapse, Notes!Elapse, Notes!ElapseWhileHeld, Notes!Passes
  <2>3. ASSUME NEW c \in Consumer, ReadMessages(c) PROVE Inv'
    BY <1>5, <2>3 DEF ReadMessages, Notes!ReadMessages
  <2>4. ASSUME NEW c \in Consumer,
               \/ Alone(Notes!ReadMessagesFails(c))
               \/ Alone(Notes!CancelMessages(c))
               \/ Alone(Notes!ConsumerRestarts(c))
        PROVE  Inv'
    BY <1>5, <2>4
    DEF Notes!ReadMessagesFails, Notes!CancelMessages, Notes!ConsumerRestarts
  <2> QED BY <1>7, <2>1, <2>2, <2>3, <2>4 DEF QueueStep
<1>8. CASE UNCHANGED vars
  BY <1>1, <1>8 DEF vars, queue, mails, Inv, MailOK
<1> QED BY <1>2, <1>3, <1>4, <1>6, <1>7, <1>8 DEF Next

-----------------------------------------------------------------------------
(* Theorems *)

(* The invariant, from what is true of the queue of notes at every moment. *)
LEMMA Invariance == Spec => []Inv
<1>1. Spec => []QueueOK
  BY NotesAreAQueue, NotesAreCommittedOnce, PTL
<1>2. Inv /\ QueueOK /\ [Next]_vars => Inv'
  BY InvNext
<1> QED BY <1>1, <1>2, InvInit, PTL DEF Spec

(* Types, and a handler keeps what it has built only as long as it has the
   note in hand. *)
THEOREM TypeIsKept == Spec => []TypeOK
<1>1. Inv => TypeOK
  <2> SUFFICES ASSUME Inv PROVE TypeOK
    OBVIOUS
  <2>1. ASSUME NEW c \in Consumer, NEW n \in Note PROVE built[c][n].lang \in Lang
    <3>1. built[c][n] \in BuiltNotices
      BY DEF Inv, BuiltOK
    <3> QED BY <3>1, TemplatesAssumption DEF BuiltNotices, Nothing
  <2> QED BY <2>1 DEF Inv, BuiltOK, MailOK, ContentOK, TypeOK
<1> QED BY <1>1, Invariance, PTL

(* A note that was committed has become all the messages of one template in
   one language, each once, and a note that was not has become none, however
   often it was built, by however many consumers, from whatever templates. *)
THEOREM NotesAreHandedOverWhole == Spec => []HandedOverWhole
<1>1. Inv => HandedOverWhole
  BY DEF Inv
<1> QED BY <1>1, Invariance, PTL

(* checkMessage keeps every message without a body out of the queue. *)
THEOREM EveryMessageHasBody == Spec => []MessagesHaveBody
<1>1. Inv => MessagesHaveBody
  BY DEF Inv, ContentOK
<1> QED BY <1>1, Invariance, PTL

-----------------------------------------------------------------------------
(* The two queues are one *)

(* A note in its queue has no messages, and one that was completed has. *)
PlacesOK ==
  \A n \in Note :
    /\ Notes!PlaceOf(n) \in {"new", "queued", "done", "dropped"}
    /\ Notes!PlaceOf(n) = "done" => MessagesOf(n) # {}
    /\ Notes!PlaceOf(n) # "done" => /\ MessagesOf(n) = {}
                                   /\ WholePlace(n) = Notes!PlaceOf(n)

LEMMA PlacesAre == QueueOK /\ HandedOverWhole => PlacesOK
<1> SUFFICES ASSUME QueueOK, HandedOverWhole, NEW n \in Note
             PROVE  /\ Notes!PlaceOf(n) \in {"new", "queued", "done", "dropped"}
                    /\ Notes!PlaceOf(n) = "done" => MessagesOf(n) # {}
                    /\ Notes!PlaceOf(n) # "done" => /\ MessagesOf(n) = {}
                                                   /\ WholePlace(n) = Notes!PlaceOf(n)
  BY DEF PlacesOK
<1>1. given[n] \in Nat /\ effects[n] \in Nat
  BY DEF QueueOK
<1>2. Notes!PlaceOf(n) \in {"new", "queued", "done", "dropped"}
  BY <1>1 DEF Notes!PlaceOf
<1>3. CASE effects[n] > 0
  <2>1. MessagesOf(n) # {}
    BY <1>3 DEF HandedOverWhole
  <2>2. Notes!PlaceOf(n) = "done"
    BY <1>1, <1>3 DEF QueueOK, Notes!PlaceOf
  <2> QED BY <2>1, <2>2
<1>4. CASE ~(effects[n] > 0)
  <2>1. effects[n] = 0
    BY <1>1, <1>4
  <2>2. MessagesOf(n) = {}
    BY <2>1, Zenon DEF HandedOverWhole
  <2>3. Notes!PlaceOf(n) \in {"new", "queued", "dropped"}
    BY <1>1, <2>1 DEF Notes!PlaceOf
  <2>4. {mail[m] : m \in MessagesOf(n)} = {}
    BY <2>2
  <2>5. WholePlace(n) = Notes!PlaceOf(n)
    BY <2>3, <2>4 DEF WholePlace
  <2> QED BY <2>2, <2>3, <2>5
<1> QED BY <1>2, <1>3, <1>4

(* Notes of which those of B go from one place to another. *)
QueueMoves(B, p, q) ==
  \A n \in Note : IF n \in B THEN Notes!PlaceOf(n) = p /\ Notes!PlaceOf(n)' = q
                 ELSE Notes!PlaceOf(n)' = Notes!PlaceOf(n)

WholeMoves(B, p, q) ==
  \A n \in Note : IF n \in B THEN WholePlace(n) = p /\ WholePlace(n)' = q
                 ELSE WholePlace(n)' = WholePlace(n)

WholeStep == [Whole!Next]_([n \in Note |-> WholePlace(n)])

(* Moves of whole notes that QueueSpec has. *)
LEMMA WholeMoved ==
  ASSUME NEW B \in SUBSET Note
  PROVE  /\ WholeMoves(B, "new", "queued") => WholeStep
         /\ WholeMoves(B, "queued", "dropped") => WholeStep
         /\ \A n \in Note : WholeMoves({n}, "queued", "done") => WholeStep
         /\ (\A n \in Note : WholePlace(n)' = WholePlace(n)) => WholeStep
<1>1. ASSUME \A n \in Note : WholePlace(n)' = WholePlace(n) PROVE WholeStep
  BY <1>1 DEF WholeStep
<1>2. ASSUME NEW C \in SUBSET Note, NEW p, NEW q, WholeMoves(C, p, q)
      PROVE  Whole!Are(C, p) /\ Whole!Becomes(C, q)
  BY <1>2 DEF WholeMoves, Whole!Are, Whole!Becomes
<1>3. ASSUME B = {}, NEW p, NEW q, WholeMoves(B, p, q) PROVE WholeStep
  BY <1>1, <1>3 DEF WholeMoves
<1>4. ASSUME B # {}, WholeMoves(B, "new", "queued") PROVE Whole!Append(B)
  BY <1>2, <1>4 DEF Whole!Append
<1>5. ASSUME B # {}, WholeMoves(B, "queued", "dropped") PROVE Whole!Drop(B)
  BY <1>2, <1>5 DEF Whole!Drop
<1>6. ASSUME NEW n \in Note, WholeMoves({n}, "queued", "done") PROVE Whole!Complete(n)
  BY <1>2, <1>6, {n} \in SUBSET Note DEF Whole!Complete
<1> QED BY <1>1, <1>3, <1>4, <1>5, <1>6 DEF WholeStep, Whole!Next

(* A step of the queue of notes, by the places of the notes in it. *)
QueueMove ==
  \/ QueueMoves({}, "new", "new")
  \/ \E B \in SUBSET Note : QueueMoves(B, "new", "queued") \/ QueueMoves(B, "queued", "dropped")
  \/ \E n \in Note : QueueMoves({n}, "queued", "done")

(* What the queue of notes does, as QueueProofs shows of every queue. *)
LEMMA QueueMoved ==
  ASSUME [Q!Contents!Next]_([i \in Note |-> Q!PlaceOf(i)])
  PROVE  QueueMove
<1>1. \A n \in Note : Notes!PlaceOf(n) = Q!PlaceOf(n) /\ Notes!PlaceOf(n)' = Q!PlaceOf(n)'
  BY DEF Notes!PlaceOf, Q!PlaceOf
<1>2. ASSUME NEW B \in SUBSET Note, NEW p, NEW q, Q!Contents!Are(B, p), Q!Contents!Becomes(B, q)
      PROVE  QueueMoves(B, p, q)
  BY <1>1, <1>2 DEF Q!Contents!Are, Q!Contents!Becomes, QueueMoves
<1>3. ASSUME UNCHANGED [n \in Note |-> Q!PlaceOf(n)] PROVE QueueMoves({}, "new", "new")
  BY <1>1, <1>3 DEF QueueMoves
<1>4. ASSUME NEW n \in Note, Q!Contents!Complete(n) PROVE QueueMoves({n}, "queued", "done")
  BY <1>2, <1>4, {n} \in SUBSET Note DEF Q!Contents!Complete
<1>5. ASSUME NEW B \in SUBSET Note, Q!Contents!Append(B) \/ Q!Contents!Drop(B)
      PROVE  QueueMoves(B, "new", "queued") \/ QueueMoves(B, "queued", "dropped")
  BY <1>2, <1>5 DEF Q!Contents!Append, Q!Contents!Drop
<1> QED BY <1>3, <1>4, <1>5 DEF Q!Contents!Next, QueueMove

(* A step that leaves the messages alone is one of the queue of notes, and
   completes no note: it would have to have messages. *)
LEMMA QuietMoves ==
  ASSUME PlacesOK, PlacesOK', QueueMove, UNCHANGED <<mail, content>>
  PROVE  WholeStep
<1>1. \A n : /\ MessagesOf(n)' = MessagesOf(n)
            /\ {mail'[m] : m \in MessagesOf(n)'} = {mail[m] : m \in MessagesOf(n)}
  BY DEF MessagesOf
<1>2. ASSUME NEW n \in Note, Notes!PlaceOf(n)' = Notes!PlaceOf(n)
      PROVE  WholePlace(n)' = WholePlace(n)
  BY <1>1, <1>2 DEF WholePlace
<1>3. \A n \in Note : ~(Notes!PlaceOf(n) = "queued" /\ Notes!PlaceOf(n)' = "done")
  BY <1>1 DEF PlacesOK
<1>4. ASSUME NEW B \in SUBSET Note, NEW p, NEW q, QueueMoves(B, p, q), p # "done", q # "done"
      PROVE  WholeMoves(B, p, q)
  BY <1>2, <1>4 DEF QueueMoves, WholeMoves, PlacesOK
<1>5. CASE QueueMoves({}, "new", "new")
  BY <1>2, <1>5, WholeMoved, {} \in SUBSET Note DEF QueueMoves
<1>6. ASSUME NEW n \in Note, QueueMoves({n}, "queued", "done") PROVE FALSE
  BY <1>3, <1>6 DEF QueueMoves
<1>7. ASSUME NEW B \in SUBSET Note, QueueMoves(B, "new", "queued") PROVE WholeStep
  BY <1>4, <1>7, WholeMoved
<1>8. ASSUME NEW B \in SUBSET Note, QueueMoves(B, "queued", "dropped") PROVE WholeStep
  BY <1>4, <1>8, WholeMoved
<1> QED BY <1>5, <1>6, <1>7, <1>8 DEF QueueMove

(* mrmailer sends or drops a message: the note it was made of leaves when it
   was the last of its messages on the way. *)
LEMMA DeliverMoves ==
  ASSUME PlacesOK, MailOK, ContentOK, NEW k \in MailID, Deliver(k)
  PROVE  WholeStep
<1>1. /\ UNCHANGED <<queue, content>>
      /\ mail[k] = "queued"
      /\ \A m \in MailID \ {k} : mail'[m] = mail[m]
      /\ mail'[k] \in {"done", "dropped"}
  BY DEF Deliver, MailOK, Mail!Complete, Mail!Drop, Mail!Are, Mail!Becomes
<1>2. \A n : /\ MessagesOf(n)' = MessagesOf(n)
            /\ Notes!PlaceOf(n)' = Notes!PlaceOf(n)
            /\ MessagesOf(n) \subseteq MailID
  <2>1. DOMAIN content \subseteq MailID
    BY BoundAssumption DEF MailOK, ContentOK, MailID
  <2> QED BY <1>1, <2>1 DEF MessagesOf, Notes!PlaceOf, queue
<1>3. ASSUME NEW n \in Note, k \notin MessagesOf(n) PROVE WholePlace(n)' = WholePlace(n)
  <2>1. {mail'[m] : m \in MessagesOf(n)'} = {mail[m] : m \in MessagesOf(n)}
    BY <1>1, <1>2, <1>3
  <2> QED BY <1>2, <2>1 DEF WholePlace
<1>4. CASE \A n \in Note : k \notin MessagesOf(n)
  BY <1>3, <1>4, WholeMoved, {} \in SUBSET Note
<1>5. ASSUME NEW n \in Note, k \in MessagesOf(n) PROVE WholeStep
  <2>1. Notes!PlaceOf(n) = "done"
    BY <1>5 DEF PlacesOK
  <2>2. WholePlace(n) = "queued"
    BY <1>1, <1>5, <2>1 DEF WholePlace
  <2>3. WholePlace(n)' \in {"queued", "done", "dropped"}
    BY <1>2, <2>1 DEF WholePlace
  <2>4. \A y \in Note \ {n} : WholePlace(y)' = WholePlace(y)
    BY <1>3, <1>5 DEF MessagesOf
  <2>5. CASE WholePlace(n)' = "queued"
    BY <2>2, <2>4, <2>5, WholeMoved, {} \in SUBSET Note
  <2>6. CASE WholePlace(n)' = "done"
    <3>1. WholeMoves({n}, "queued", "done")
      BY <2>2, <2>4, <2>6 DEF WholeMoves
    <3> QED BY <3>1, WholeMoved, {n} \in SUBSET Note
  <2>7. CASE WholePlace(n)' = "dropped"
    <3>1. WholeMoves({n}, "queued", "dropped")
      BY <2>2, <2>4, <2>7 DEF WholeMoves
    <3> QED BY <3>1, WholeMoved, {n} \in SUBSET Note
  <2> QED BY <2>3, <2>5, <2>6, <2>7
<1> QED BY <1>4, <1>5

(* The commit of a note: it leaves the first queue in the step that its
   messages enter the second one, and as a whole stays where it is. *)
LEMMA CommitMoves ==
  ASSUME Inv, QueueOK, PlacesOK, QueueMove, NEW c \in Consumer, NEW n \in Note, Commit(c, n)
  PROVE  WholeStep
<1> DEFINE S == built[c][n].notices
           lang == built[c][n].lang
           New == NewIDs(S)
<1>1. /\ job[c][n] = "sent" /\ status[n] = "processing"
      /\ effects' = [effects EXCEPT ![n] = @ + 1]
      /\ status' = [status EXCEPT ![n] = "none"] /\ given' = given
      /\ Append(n, S, lang)
  BY DEF Commit, Notes!Commit, Notes!DeleteItem, Notes!JobBecomes
<1>2. S # {} /\ IsFiniteSet(S) /\ MailOK /\ ContentOK
  <2>1. S # {} /\ BuiltOK
    BY <1>1, Zenon DEF Inv, BuiltOK, Accepted
  <2> QED BY <2>1, BuiltIs, Zenon DEF Inv
<1>3. /\ DOMAIN content' = (DOMAIN content) \cup New
      /\ (DOMAIN content) \cap New = {}
      /\ \A m \in DOMAIN content : content'[m] = content[m]
      /\ \A m \in New : content'[m].note = n
  <2> HIDE DEF S, lang, New
  <2>1. /\ DOMAIN content' = (DOMAIN content) \cup New
        /\ (DOMAIN content) \cap New = {}
        /\ \A m \in DOMAIN content : content'[m] = content[m]
        /\ \A m \in New : content'[m] = [note |-> n, notice |-> Order(S)[m], lang |-> lang]
    BY <1>1, <1>2, AppendIs DEF New
  <2> QED BY <2>1
<1>4. New # {}
  <2>1. Cardinality(S) \in Nat /\ Cardinality(S) # 0 /\ nextID \in Nat
    BY <1>2, FS_CardinalityType, FS_EmptySet DEF MailOK
  <2> HIDE DEF S
  <2>2. nextID \in New
    BY <2>1 DEF NewIDs
  <2> QED BY <2>2
<1>5. /\ DOMAIN content \subseteq MailID /\ New \subseteq MailID
      /\ \A m \in New : mail'[m] = "queued"
      /\ \A m \in DOMAIN content : mail'[m] = mail[m]
  <2>1. DOMAIN content \subseteq MailID
    BY <1>2, BoundAssumption DEF MailOK, ContentOK, MailID
  <2> HIDE DEF S, lang
  <2>2. New \subseteq MailID /\ Mail!Becomes(New, "queued")
    BY <1>1 DEF Append, Mail!Append
  <2> QED BY <1>2, <1>3, <2>1, <2>2 DEF Mail!Becomes, MailOK
<1> HIDE DEF New
<1>6. Notes!PlaceOf(n) = "queued" /\ Notes!PlaceOf(n)' = "done"
  <2>1. status \in [Note -> Notes!Status]
    BY DEF QueueOK
  <2> QED BY <1>1, <2>1 DEF QueueOK, Notes!PlaceOf
<1>7. \A y \in Note \ {n} : Notes!PlaceOf(y)' = Notes!PlaceOf(y)
  BY <1>6 DEF QueueMove, QueueMoves
<1>8. WholePlace(n) = "queued" /\ MessagesOf(n) = {}
  BY <1>6 DEF PlacesOK
<1>9. WholePlace(n)' = "queued"
  <2>1. MessagesOf(n)' = New
    BY <1>3, <1>8 DEF MessagesOf
  <2>2. "queued" \in {mail'[m] : m \in MessagesOf(n)'}
    BY <1>4, <1>5, <2>1
  <2> QED BY <1>6, <2>2 DEF WholePlace
<1>10. ASSUME NEW y \in Note \ {n} PROVE WholePlace(y)' = WholePlace(y)
  <2>1. MessagesOf(y)' = MessagesOf(y) /\ MessagesOf(y) \subseteq DOMAIN content
    BY <1>3 DEF MessagesOf
  <2>2. {mail'[m] : m \in MessagesOf(y)'} = {mail[m] : m \in MessagesOf(y)}
    BY <1>5, <2>1
  <2> QED BY <1>7, <2>2 DEF WholePlace
<1> QED BY <1>8, <1>9, <1>10, WholeMoved, {} \in SUBSET Note

(* Every step, as far as the senders of notes can see. *)
LEMMA NextMoves ==
  ASSUME Inv, QueueOK, PlacesOK, PlacesOK', QueueMove, [Next]_vars
  PROVE  WholeStep
<1> USE DEF Alone
<1>1. ASSUME UNCHANGED <<mail, content>> PROVE WholeStep
  BY <1>1, QuietMoves
<1>2. ASSUME NEW n \in Note, Send(n) PROVE WholeStep
  BY <1>1, <1>2 DEF Send, mails
<1>3. ASSUME NEW lang \in Lang, NEW t \in Templates, EditTemplate(lang, t) PROVE WholeStep
  BY <1>1, <1>3 DEF EditTemplate, mails
<1>4. ASSUME NEW m \in MailID, Deliver(m) PROVE WholeStep
  BY <1>4, DeliverMoves DEF Inv
<1>5. ASSUME NEW c \in Consumer, NEW n \in Note, Handle(c, n) PROVE WholeStep
  <2>1. CASE Commit(c, n)
    BY <2>1, CommitMoves
  <2>2. CASE Build(c, n) \/ HandlerFails(c, n) \/ SendMessages(c, n) \/ Settle(c, n)
    BY <1>1, <2>2 DEF Build, HandlerFails, SendMessages, Settle, mails
  <2> QED BY <1>5, <2>1, <2>2 DEF Handle
<1>6. CASE QueueStep
  BY <1>1, <1>6 DEF QueueStep, Retry, TimeOut, Forget, Clean, Elapse, ReadMessages, mails
<1>7. CASE UNCHANGED vars
  BY <1>1, <1>7 DEF vars, mails
<1> QED BY <1>2, <1>3, <1>4, <1>5, <1>6, <1>7 DEF Next

(* The queue of notes and the queue of messages behind it are one queue to
   those who send notes: each note is in it once, is in one of the two queues
   until the last of its messages has left, and does not come back, however
   many consumers built it and whatever became of their transactions. *)
THEOREM NotesGoThroughOnce == Spec => QueuesAreOne
<1>1. Init => Whole!Init
  <2> SUFFICES ASSUME Init, NEW n \in Note PROVE WholePlace(n) = "new"
    BY DEF Whole!Init
  <2>1. Notes!PlaceOf(n) = "new"
    BY DEF Init, Notes!Init, Notes!PlaceOf
  <2> QED BY <2>1 DEF WholePlace
<1>2. Spec => [](Inv /\ QueueOK /\ PlacesOK)
  <2>1. Inv /\ QueueOK => PlacesOK
    BY PlacesAre DEF Inv
  <2> QED BY <2>1, Invariance, NotesAreAQueue, NotesAreCommittedOnce, PTL
<1>3. Q!Spec => []Q!Inv
  BY QueueAssumptions, Q!Invariant, PTL
<1>4. /\ Inv /\ QueueOK /\ PlacesOK /\ PlacesOK' /\ Q!Inv
      /\ [Next]_vars /\ [Q!Next]_Q!vars
      => [Whole!Next]_([n \in Note |-> WholePlace(n)])
  BY Q!StepImplements, QueueMoved, NextMoves, QueueAssumptions DEF WholeStep
<1>5. Q!Spec => [][Q!Next]_Q!vars
  BY PTL DEF Q!Spec
<1> QED BY <1>1, <1>2, <1>3, <1>4, <1>5, NotesAreAQueue, SameQueue, PTL
        DEF Spec, QueuesAreOne, Whole!Spec
=============================================================================
