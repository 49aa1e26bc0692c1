------------------------------ MODULE MCNotifier ------------------------------
(***************************************************************************)
(* Notifier with a note whose language is not the default one, and one     *)
(* template of each sort.                                                  *)
(***************************************************************************)
EXTENDS Notifier

MCNoteData == [n \in Note |-> [lang |-> "en", to |-> FALSE, delayTime |-> "ok"]]

Missing == [status |-> "missing", mail |-> FALSE, to |-> "none",
            observers |-> <<>>, messenger |-> "none"]
Copied == [status |-> "enabled", mail |-> TRUE, to |-> "variable",
           observers |-> <<TRUE>>, messenger |-> "none"]
EmptyObserver == [Copied EXCEPT !.to = "template", !.observers = <<FALSE>>, !.messenger = "ok"]
NoReceiver == [Copied EXCEPT !.to = "none"]
Chat == [Missing EXCEPT !.status = "enabled", !.messenger = "ok"]

MCTemplates == {Missing, Copied, EmptyObserver, NoReceiver, Chat}
=============================================================================
