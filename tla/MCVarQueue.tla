---------------------------- MODULE MCVarQueue -----------------------------
(* Two posters, a program with two goroutines that consume and one with    *)
(* one, three messages.                                                    *)
EXTENDS VarQueue, TLC

MCConsumerOf == "r1" :> "q1" @@ "r2" :> "q1" @@ "r3" :> "q2"
============================================================================
