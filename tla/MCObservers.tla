---------------------------- MODULE MCObservers ----------------------------
(* Two goroutines, so that any two steps of two commands or notifications  *)
(* meet, and two clients.  A longer history of orderly clients, and a      *)
(* shorter one in which everything may go wrong.                           *)
EXTENDS Observers

MCSetting ==
    {[serial |-> TRUE,  timeouts |-> FALSE, restarts |-> FALSE, jobs |-> 5],
     [serial |-> FALSE, timeouts |-> TRUE,  restarts |-> TRUE,  jobs |-> 3]}

MCSymmetry == Permutations(Worker) \cup Permutations(Client)
============================================================================
