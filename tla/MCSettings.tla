------------------------------ MODULE MCSettings ------------------------------
(***************************************************************************)
(* Settings with one setting of numbers, one list of them and one string.  *)
(***************************************************************************)
EXTENDS Settings

CONSTANTS volume, list, greeting,   \* settings
          text, n1, n2              \* values

MCTypeOf == [i \in Ids |-> CASE i = volume -> "Integer"
                             [] i = list -> "IntegerList"
                             [] OTHER -> "String"]
MCInitial == [i \in Ids |-> IF i = greeting THEN text ELSE n1]
=============================================================================
