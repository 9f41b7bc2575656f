----------------------------- MODULE JsonValues ------------------------------
(***************************************************************************)
(* JSON values.  A JSON value is a record with one field, named for its    *)
(* type.  Numbers are counted in tenths, so that there are some that are   *)
(* not whole.                                                              *)
(*                                                                         *)
(* Whether a value is one that a schema describes is for the checker of    *)
(* module JsonSchema to say.  What is true of the JSON server and of the   *)
(* effect files does not depend on it, and so the checker is a parameter.  *)
(***************************************************************************)
EXTENDS Integers, SequencesExt

CONSTANT IsValid(_, _)   \* IsValid(v, schema), CheckJson of JsonSchema

Str(s)  == [string |-> s]
Num(n)  == [number |-> 10 * n]
Bool(b) == [boolean |-> b]
Arr(s)  == [array |-> s]
Obj(f)  == [object |-> f]

==============================================================================
