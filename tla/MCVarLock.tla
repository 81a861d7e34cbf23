----------------------------- MODULE MCVarLock -----------------------------
(* Two variables, asked for one at a time or both by one query.  Words     *)
(* have 32 values and a millisecond 2 units: timeouts of 0 (the default),  *)
(* of 1 ms, and of 31 ms, the largest uint, which as a Duration is -2.     *)
EXTENDS VarLock

MCAll == (SUBSET Var) \ {{}}
============================================================================
