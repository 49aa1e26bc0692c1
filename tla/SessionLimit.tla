---------------------------- MODULE SessionLimit ----------------------------
(* What the sessions of a user in a realm are called and how many of them   *)
(* there may be: the parameters that Session and SessionList share.         *)
CONSTANTS
  Sessions,    \* identifiers genSessionID draws: random, none is drawn twice
  SessionMax,  \* limit of sessions of the user's kind in the realm; newLimitResolver makes it
               \* positive
  NoSession    \* no session: of a token that is not issued, of a list for another realm
=============================================================================
