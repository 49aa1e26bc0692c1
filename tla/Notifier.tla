------------------------------- MODULE Notifier -------------------------------
(***************************************************************************)
(* mrnotifier in front of mrmailer: a note is put into the queue of notes, *)
(* its handler builds the notices of it from a template, and the commit of *)
(* the note hands them over to mrmailer as messages.                       *)
(*                                                                         *)
(* The queue of notes is Queue, with the notes for its items; the queue of *)
(* messages behind it is QueueSpec, which Queue implements.  Templates are *)
(* edited meanwhile.                                                       *)
(***************************************************************************)
EXTENDS Integers, FiniteSets

CONSTANTS Note,          \* IDs of notes
          NoNote,        \* the zero ID
          Consumer,      \* workers that read the queue of notes
          NoteData,      \* what each note was sent with, see Data
          DefaultLang,   \* Template.defaultLang
          Lang,          \* languages templates are written in
          Templates,     \* what a row of the table of templates may hold
          Clients,       \* kinds of messages mrmailer has a client for
          Limit,
          RetryAttempts, \* NoteProducer.retryAttempts
          MaxMail,       \* bound: messages
          MaxEdits,      \* bound: changes of templates
          MaxFaults      \* bound: faults of consumers and of the database

(* A note names its language, or none, its receiver, or none, and the time
   it is to be sent at in a form that is understood, or not. *)
Data == [lang : Lang \cup {"auto"}, to : BOOLEAN, delayTime : {"ok", "garbage"}]

(* A template in one language: the parts that are not disabled, the
   observers whose address is not empty, and whether it names a receiver,
   itself or by the default of a variable. *)
TemplateData ==
  [status : {"enabled", "disabled", "missing"}, mail : BOOLEAN,
   to : {"none", "template", "variable"},
   observers : {<<>>, <<TRUE>>, <<FALSE>>, <<TRUE, FALSE>>},
   messenger : {"none", "ok", "bad"}]

ASSUME NoteAssumption == NoNote \notin Note /\ NoteData \in [Note -> Data]
ASSUME TemplatesAssumption == Templates \subseteq TemplateData /\ DefaultLang \in Lang
ASSUME NotesAssumption ==     \* as in Queue
  /\ IsFiniteSet(Consumer)
  /\ RetryAttempts \in Int
  /\ Limit \in Nat \ {0}
  /\ MaxFaults \in Nat
ASSUME BoundAssumption == MaxMail \in Nat /\ MaxEdits \in Nat

VARIABLES status, attempts, due, completed, crashed, messages, job,
          given, sent, effects, timeouts, faults   \* see Queue
VARIABLES template,   \* language -> the row of the notes' template
          built,      \* notices each handler has built, in memory
          mail,       \* where each message is, see QueueSpec
          content,    \* what each message was made of
          nextID,     \* the sequence of the messages
          edits

queue == <<status, attempts, due, completed, crashed, messages, job,
           given, sent, effects, timeouts, faults>>
mails == <<mail, content, nextID>>
vars == <<queue, template, built, mails, edits>>

MailID == 1..MaxMail

Notes == INSTANCE Queue WITH
  Item <- Note, NoItem <- NoNote, AttemptsInput <- {RetryAttempts},
  DefaultAttempts <- RetryAttempts, DelayInput <- {0}, Second <- 1,
  DelayCorrection <- 0, PrimaryKey <- "note_id", JournalOutlivesQueue <- TRUE

Mail == INSTANCE QueueSpec WITH Item <- MailID, place <- mail

-----------------------------------------------------------------------------
(* Building of notices *)

(* TemplatePostgres.FetchOneByKey, for the key of the notes. *)
FetchOneByKey(lang) == template[lang]

(* getItemByKey: the template in one language, if there is one to use. *)
Usable(lang) == FetchOneByKey(lang).status = "enabled"

(* VariablePostgres.Fetch: the rows there are for the variables asked. *)
FetchVars(names) == names \cap {"to"}

(* getVars: the variables of the template that have a default value. *)
GetVars(t) == IF t.to = "variable" THEN FetchVars({"to"}) ELSE {}

(* GetItemByKey: the language of the note, and after any error of reading its
   template, be it there or not, the default one. *)
ChosenLangs(n) == {DefaultLang} \cup {lang \in Lang : lang = NoteData[n].lang /\ Usable(lang)}

Notice(type, nr, body) == [type |-> type, nr |-> nr, body |-> body]

(* MailBuilder.Build: the receiver and a copy for each observer; where the
   address of an observer is empty, a notice without a body is left. *)
MailNotices(t) ==
  IF ~t.mail THEN {}
  ELSE {Notice("mail", 0, TRUE)} \cup
       {Notice("mail", k, t.observers[k]) : k \in DOMAIN t.observers}

(* messengerBuilder.Build. *)
MessengerNotices(t) == IF t.messenger = "none" THEN {} ELSE {Notice("messenger", 0, TRUE)}

(* BuildManager.Build; smsBuilder builds nothing. *)
NoticesOf(t) == MailNotices(t) \cup MessengerNotices(t)

(* What the note was sent with, and the defaults of the template. *)
NoteVars(n, t) == (IF NoteData[n].to THEN {"to"} ELSE {}) \cup GetVars(t)

(* emailAddress: the variable, or what the template says. *)
HasReceiver(n, t) == "to" \in NoteVars(n, t) \/ t.to = "template"

(* getSendAfter: seconds, a period or a time. *)
HasSendAfter(n) == NoteData[n].delayTime # "garbage"

(* BuildNotice.Execute and all it calls return no error. *)
Builds(n, t) ==
  /\ t.status = "enabled"
  /\ t.mail => HasReceiver(n, t)
  /\ t.messenger # "bad"
  /\ HasSendAfter(n)
  /\ NoticesOf(t) # {}

Nothing == [notices |-> {}, lang |-> DefaultLang]

BuiltIn(lang) == [notices |-> NoticesOf(FetchOneByKey(lang)), lang |-> lang]

(* Mutant of KeepBuilt: nothing is ever forgotten. *)
KeepBuiltForever == UNCHANGED built

(* What a handler has built is kept as long as it has the note in hand. *)
KeepBuilt ==
  built' = [c \in Consumer |-> [n \in Note |->
              IF job'[c][n] \in {"held", "sent"} THEN built[c][n] ELSE Nothing]]

(* A step of the queue of notes, and none of the templates and messages. *)
Alone(A) == A /\ KeepBuilt /\ UNCHANGED <<template, mails, edits>>

-----------------------------------------------------------------------------
Init ==
  /\ Notes!Init
  /\ template \in [Lang -> Templates]
  /\ built = [c \in Consumer |-> [n \in Note |-> Nothing]]
  /\ Mail!Init
  /\ content = [m \in {} |-> Nothing]
  /\ nextID = 1
  /\ edits = 0

(* NotePostgres.Insert, in the transaction that appends the item. *)
InsertNote(n) == n \notin messages /\ Notes!Send({n}, RetryAttempts, 0)

(* NoteProducer.Send: the note and its item in one transaction. *)
Send(n) ==
  /\ InsertNote(n)
  /\ UNCHANGED <<template, built, mails, edits>>

(* External: a row of the table of templates is inserted, changed or
   deleted. *)
EditTemplate(lang, t) ==
  /\ edits < MaxEdits /\ edits' = edits + 1
  /\ template' = [template EXCEPT ![lang] = t]
  /\ UNCHANGED <<queue, built, mails>>

(* SendNotice.Execute builds the notices outside of any transaction. *)
Build(c, n) ==
  /\ job[c][n] = "held"
  /\ built[c][n] = Nothing
  /\ \E lang \in ChosenLangs(n) :
       /\ Builds(n, FetchOneByKey(lang))
       /\ built' = [built EXCEPT ![c][n] = BuiltIn(lang)]
  /\ UNCHANGED <<queue, template, mails, edits>>

(* The notices cannot be built, or not now, or the producer refuses them. *)
HandlerFails(c, n) == Alone(Notes!HandlerFails(c, n))

(* Mutant of Accepted: a message need not have a body. *)
AcceptedAll(notices) == notices # {}

(* checkMessage: each message has a body. *)
Accepted(notices) == notices # {} /\ \A x \in notices : x.body

(* The commit function of the handler: NoticeToMessageAdapterFunc.Send and
   MessageProducer.Send, inside of the transaction of CommitMessage. *)
SendMessages(c, n) ==
  /\ Accepted(built[c][n].notices)
  /\ Alone(Notes!PreCommit(c, n))

(* The messages the transaction put into the queue of mrmailer, with the
   next IDs in any order. *)
NewIDs(notices) == nextID..(nextID + Cardinality(notices) - 1)

Append(n, notices, lang) ==
  /\ NewIDs(notices) \subseteq MailID
  /\ Mail!Append(NewIDs(notices))
  /\ nextID' = nextID + Cardinality(notices)
  /\ LET order == CHOOSE f \in [NewIDs(notices) -> notices] :
                    \A x \in notices : \E m \in NewIDs(notices) : f[m] = x
     IN  content' = [m \in 1..(nextID' - 1) |->
           IF m < nextID THEN content[m]
           ELSE [note |-> n, notice |-> order[m], lang |-> lang]]

(* Mutant of Commit: the messages are put into their queue by a transaction
   of their own, whatever becomes of the note. *)
CommitApart(c, n) ==
  /\ job[c][n] = "sent"
  /\ IF status[n] = "processing" /\ n \notin completed
     THEN Notes!Commit(c, n)
     ELSE Notes!CommitMessageFails(c, n)
  /\ Append(n, built[c][n].notices, built[c][n].lang)
  /\ KeepBuilt
  /\ UNCHANGED <<template, edits>>

(* CommitMessage: the note leaves its queue and the messages enter theirs. *)
Commit(c, n) ==
  /\ Notes!Commit(c, n)
  /\ Append(n, built[c][n].notices, built[c][n].lang)
  /\ KeepBuilt
  /\ UNCHANGED <<template, edits>>

(* Mutant of ReadMessages: a note is not read for its last attempt. *)
ReadMessagesNotLast(c) == Alone(Notes!ReadMessages(c) /\ \A n \in Note : attempts[n] # 1)

(* Consumers and tasks of the queue of notes. *)
ReadMessages(c) == Alone(Notes!ReadMessages(c))
Retry == Alone(Notes!RetryToReady)
TimeOut == Alone(Notes!ProcessingToRetry)
Forget == Alone(Notes!CleanForgotten)
Elapse(n) == Alone(Notes!Elapse(n))

(* The rows of the journals that have expired, with DeleteByIDs on the notes. *)
Clean == Alone(Notes!CleanCompleted) \/ Alone(Notes!CleanCrashed)

QueueStep ==
  \/ Retry \/ TimeOut \/ Forget \/ Clean
  \/ \E n \in Note : Elapse(n) \/ Alone(Notes!ElapseWhileHeld(n))
  \/ \E c \in Consumer :
       \/ ReadMessages(c) \/ Alone(Notes!ReadMessagesFails(c))
       \/ Alone(Notes!CancelMessages(c)) \/ Alone(Notes!ConsumerRestarts(c))

(* The transaction of the handler fails, or its rejection ends somehow. *)
Settle(c, n) ==
  \/ Alone(Notes!CommitMessageFails(c, n))
  \/ Alone(Notes!RejectSystem(c, n)) \/ Alone(Notes!RejectOther(c, n))
  \/ Alone(Notes!RejectMessageFails(c, n))

Handle(c, n) ==
  \/ Build(c, n) \/ HandlerFails(c, n) \/ SendMessages(c, n)
  \/ Commit(c, n) \/ Settle(c, n)

(* messageSender.Sender: there is a client for that kind of message. *)
HasSender(m) == content[m].notice.type \in Clients

(* The queue of messages on its own: a message is sent or given up. *)
Deliver(m) ==
  /\ m < nextID
  /\ (HasSender(m) /\ Mail!Complete(m)) \/ Mail!Drop({m})
  /\ UNCHANGED <<queue, template, built, content, nextID, edits>>

Next ==
  \/ \E n \in Note : Send(n)
  \/ \E lang \in Lang, t \in Templates : EditTemplate(lang, t)
  \/ \E c \in Consumer, n \in Note : Handle(c, n)
  \/ QueueStep
  \/ \E m \in MailID : Deliver(m)

Spec == Init /\ [][Next]_vars

(* As in Queue: the tasks of the scheduler run, consumers poll and finish
   what they read, and time passes; mrmailer delivers or gives up. *)
FairSpec ==
  /\ Spec
  /\ WF_vars(Retry) /\ WF_vars(TimeOut) /\ WF_vars(Forget)
  /\ \A n \in Note : WF_vars(Elapse(n))
  /\ \A c \in Consumer : WF_vars(ReadMessages(c))
  /\ \A c \in Consumer, n \in Note : WF_vars(Handle(c, n))
  /\ \A m \in MailID : WF_vars(Deliver(m))

-----------------------------------------------------------------------------
(* Properties *)

MessagesOf(n) == {m \in DOMAIN content : content[m].note = n}

(* Type invariant of what the notifier adds to the queue. *)
TypeOK ==
  /\ template \in [Lang -> Templates]
  /\ \A c \in Consumer, n \in Note :
       /\ built[c][n].lang \in Lang
       /\ built[c][n] # Nothing => job[c][n] \in {"held", "sent"}
  /\ mail \in [MailID -> Mail!Place]
  /\ nextID \in 1..(MaxMail + 1)
  /\ DOMAIN content = 1..(nextID - 1)
  /\ edits \in 0..MaxEdits

(* The messages of a note and its departure are one step, however often the
   note was built, from whatever templates: a note that was not completed has
   no message, one that was has each of its messages once, all of them in
   the same language and for the same template. *)
HandedOverWhole ==
  \A n \in Note :
    /\ effects[n] = 0 => MessagesOf(n) = {}
    /\ effects[n] > 0 =>
         /\ \E m \in MessagesOf(n) : content[m].notice.nr = 0
         /\ \A m, x \in MessagesOf(n) :
              /\ content[m].lang = content[x].lang
              /\ content[m].notice = content[x].notice => m = x
         /\ \E t \in Templates :
              {content[m].notice : m \in MessagesOf(n)} = NoticesOf(t)

(* No message without a body gets into the queue of messages: there is no
   sender for one. *)
MessagesHaveBody == \A m \in DOMAIN content : content[m].notice.body

(* Where a note is in the eyes of its sender, who knows of no second queue:
   it is on its way as long as it or a message made of it is in a queue, and
   done when each of its messages was sent. *)
WholePlace(n) ==
  LET left == {mail[m] : m \in MessagesOf(n)}
  IN  IF Notes!PlaceOf(n) \in {"new", "queued"} THEN Notes!PlaceOf(n)
      ELSE IF "queued" \in left THEN "queued"
      ELSE IF left = {"done"} THEN "done" ELSE "dropped"

Whole == INSTANCE QueueSpec WITH Item <- Note, place <- [n \in Note |-> WholePlace(n)]

(* The two queues one behind the other are one queue of notes: there is no
   moment between them at which a note is lost from sight, and a note that has
   left as a whole does not come back with messages of another commit. *)
QueuesAreOne == Whole!Spec

(* Every note that was sent leaves its queue, and whatever messages it
   became leave theirs. *)
EveryNoteSettles ==
  \A n \in Note :
    given[n] > 0 ~> /\ status[n] = "none"
                    /\ \A m \in MessagesOf(n) : mail[m] \in {"done", "dropped"}
=============================================================================
