------------------------------- MODULE Mutex -------------------------------
(***************************************************************************)
(* What the callers of misc.NamedLockRun rely on, and nothing about how it *)
(* is achieved: a family of critical sections, one for each name, each     *)
(* with room for a single process.                                         *)
(***************************************************************************)
CONSTANTS Proc, Name, NoName

VARIABLE inside     \* the section each process is in, NoName when in none

Init == inside = [p \in Proc |-> NoName]

Enter(p, n) ==
    /\ inside[p] = NoName
    /\ \A q \in Proc : inside[q] # n
    /\ inside' = [inside EXCEPT ![p] = n]

Leave(p) ==
    /\ inside[p] # NoName
    /\ inside' = [inside EXCEPT ![p] = NoName]

Next == \E p \in Proc : Leave(p) \/ \E n \in Name : Enter(p, n)

Spec == Init /\ [][Next]_inside
============================================================================
