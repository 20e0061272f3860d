--------------------------------- MODULE Null ---------------------------------
(* The value of what is missing: null and undefined of the program, a column *)
(* that is NULL, a row that does not exist, a call that is over.             *)
CONSTANT None
=============================================================================
