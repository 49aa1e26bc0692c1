\* Two settings that can be cached; each changes at most twice.
CONSTANTS
  volume = volume
  list = list
  greeting = greeting
  text = text
  n1 = n1
  n2 = n2
  Ids = {volume, list}
  TypeOf <- MCTypeOf
  Initial <- MCInitial
  Texts = {text}
  Numbers = {n1, n2}
  Writers = {w1, w2}
  Free = free
  Calls = {"SetInt64", "SetList"}
  Seeded = {volume}
  MaxClock = 3
  MaxChanges = 2
  MaxFaults = 2
SPECIFICATION Spec
INVARIANT LoadedStaysCached
