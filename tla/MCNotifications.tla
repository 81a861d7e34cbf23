-------------------------- MODULE MCNotifications --------------------------
(* What becomes of a change, and the named locks under which the lists of  *)
(* observers are read and written.                                         *)
(*                                                                         *)
(* Notifications: two clients; changes and commands enough for a change to *)
(* meet a subscription, and for a session to be interrupted and resumed.   *)
(*                                                                         *)
(* Named locks: three goroutines on two names, enough for one to hold, one *)
(* to wait without a timeout and one to give up, on the same name or on    *)
(* another.                                                                *)
EXTENDS Notifications, NamedLock

VARIABLE part

(* The part that a behaviour is not about stays as it begins. *)
MCInit == Init /\ LockInit /\ part \in {"notifications", "locks"}

MCNext ==
    /\ \/ part = "notifications" /\ Next /\ UNCHANGED lockVars
       \/ part = "locks" /\ LockNext /\ UNCHANGED vars
    /\ UNCHANGED part

(* The fairness of FairSpec, and of FairLockSpec. *)
MCSpec ==
    /\ MCInit /\ [][MCNext]_<<part, vars, lockVars>>
    /\ \A c \in Client : WF_vars(CommandStep(c))
    /\ WF_vars(NotifyStep)
    /\ TimerFairness
============================================================================
