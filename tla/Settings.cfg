\* Two callers of the setter and edits by hand over a setting of each kind:
\* two changes in all, in any order of their times, commits and reloads, with
\* two restarts or failures of the reload.  Only the log of the volume holds
\* rows to copy.
CONSTANTS
  volume = volume
  list = list
  greeting = greeting
  text = text
  n1 = n1
  n2 = n2
  Ids = {volume, list, greeting}
  TypeOf <- MCTypeOf
  Initial <- MCInitial
  Texts = {text}
  Numbers = {n1, n2}
  Writers = {w1, w2}
  Free = free
  Calls = {"SetInt64", "SetList"}
  Seeded = {volume}
  MaxClock = 3
  MaxChanges = 2
  MaxFaults = 2
SPECIFICATION FairSpec
CHECK_DEADLOCK FALSE
INVARIANTS
  FreshUnlessLate
  EveryChangeLogged
PROPERTY ChangeIsServed
