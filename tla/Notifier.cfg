\* One note for two consumers, with a fault of any kind: the note may time out
\* in the hands of one, be built again by the other, and from another template.
CONSTANTS
  Note = {n1}
  NoNote = zero
  Consumer = {c1, c2}
  NoteData <- MCNoteData
  DefaultLang = "ru"
  Lang = {"en", "ru"}
  Templates <- MCTemplates
  Clients = {"mail"}
  Limit = 1
  RetryAttempts = 2
  MaxMail = 4
  MaxEdits = 1
  MaxFaults = 1
SPECIFICATION FairSpec
CHECK_DEADLOCK FALSE
INVARIANTS
  TypeOK
  HandedOverWhole
  MessagesHaveBody
PROPERTIES
  QueuesAreOne
  EveryNoteSettles
