----------------------------- MODULE NamedLock -----------------------------
(***************************************************************************)
(* The process-wide named locks of sources/misc/namedlock.go.              *)
(*                                                                         *)
(* A name is given a channel of capacity one the first time it is used;    *)
(* the channel holds one token, and the body passed to NamedLockRun runs   *)
(* while the caller has the token.  A caller with a positive timeout may   *)
(* give up, and then its body does not run.  Bodies never call             *)
(* NamedLockRun, so a process has at most one call under way.              *)
(***************************************************************************)
EXTENDS Naturals

CONSTANTS Proc,     \* goroutines that call NamedLockRun
          Name,     \* lock names
          NoName    \* the name field of a process with no call under way

ASSUME NoNameAssumption == NoName \notin Name

VARIABLES created,  \* names present in namedLocks.locks
          token,    \* tokens in the channel of each name
          pc,       \* where each process is in NamedLockRun
          name,     \* the lock each process asked for
          timed,    \* whether its call has a positive timeout
          ret       \* what its last call returned, when none is under way

lockVars == <<created, token, pc, name, timed, ret>>

LockTypeOK ==
    /\ created \in SUBSET Name
    /\ token \in [Name -> {0, 1}]
    /\ pc \in [Proc -> {"idle", "waiting", "running"}]
    /\ name \in [Proc -> Name \cup {NoName}]
    /\ timed \in [Proc -> BOOLEAN]
    /\ ret \in [Proc -> {"none", "ok", "timeout"}]

LockInit ==
    /\ created = {}
    /\ token = [n \in Name |-> 0]
    /\ pc = [p \in Proc |-> "idle"]
    /\ name = [p \in Proc |-> NoName]
    /\ timed = [p \in Proc |-> FALSE]
    /\ ret = [p \in Proc |-> "none"]

----------------------------------------------------------------------------
(* The channel with its token is made by the first caller only, under mu.  *)
(* Faulty variants of an operation stand before it and are named for what  *)
(* they get wrong; no specification uses them.                             *)
ChannelOf_TokenAlways(n) ==
    /\ created' = created \cup {n}
    /\ token' = [token EXCEPT ![n] = 1]

ChannelOf(n) ==
    /\ created' = created \cup {n}
    /\ token' = IF n \in created THEN token ELSE [token EXCEPT ![n] = 1]

Call(p, n, t) ==
    /\ pc[p] = "idle"
    /\ ChannelOf(n)
    /\ pc' = [pc EXCEPT ![p] = "waiting"]
    /\ name' = [name EXCEPT ![p] = n]
    /\ timed' = [timed EXCEPT ![p] = t]
    /\ ret' = [ret EXCEPT ![p] = "none"]

(* <-ch: the caller has the token and starts its body. *)
Take_TokenKept(p) ==
    /\ pc[p] = "waiting"
    /\ token[name[p]] = 1
    /\ pc' = [pc EXCEPT ![p] = "running"]
    /\ UNCHANGED <<created, token, name, timed, ret>>

Take(p) ==
    /\ pc[p] = "waiting"
    /\ token[name[p]] = 1
    /\ token' = [token EXCEPT ![name[p]] = 0]
    /\ pc' = [pc EXCEPT ![p] = "running"]
    /\ UNCHANGED <<created, name, timed, ret>>

(* time.After fires first: an error, and the body is not run. *)
TimeOut_Releases(p) ==
    /\ pc[p] = "waiting"
    /\ timed[p]
    /\ token' = [token EXCEPT ![name[p]] = 1]
    /\ pc' = [pc EXCEPT ![p] = "idle"]
    /\ name' = [name EXCEPT ![p] = NoName]
    /\ ret' = [ret EXCEPT ![p] = "timeout"]
    /\ UNCHANGED <<created, timed>>

TimeOut_Retries(p) ==
    /\ pc[p] = "waiting"
    /\ timed[p]
    /\ ret' = [ret EXCEPT ![p] = "timeout"]
    /\ UNCHANGED <<created, token, pc, name, timed>>

TimeOut(p) ==
    /\ pc[p] = "waiting"
    /\ timed[p]
    /\ pc' = [pc EXCEPT ![p] = "idle"]
    /\ name' = [name EXCEPT ![p] = NoName]
    /\ ret' = [ret EXCEPT ![p] = "timeout"]
    /\ UNCHANGED <<created, token, timed>>

(* The body returned; the token goes back unless the channel is full. *)
Release_TokenLost(p) ==
    /\ pc[p] = "running"
    /\ pc' = [pc EXCEPT ![p] = "idle"]
    /\ name' = [name EXCEPT ![p] = NoName]
    /\ ret' = [ret EXCEPT ![p] = "ok"]
    /\ UNCHANGED <<created, token, timed>>

Release(p) ==
    /\ pc[p] = "running"
    /\ token' = [token EXCEPT ![name[p]] = 1]
    /\ pc' = [pc EXCEPT ![p] = "idle"]
    /\ name' = [name EXCEPT ![p] = NoName]
    /\ ret' = [ret EXCEPT ![p] = "ok"]
    /\ UNCHANGED <<created, timed>>
----------------------------------------------------------------------------

LockNext == \E p \in Proc :
    \/ \E n \in Name, t \in BOOLEAN : Call(p, n, t)
    \/ Take(p)
    \/ TimeOut(p)
    \/ Release(p)

(* A timer fires, and a receiver whose channel has a token takes it. *)
TimerFairness == \A p \in Proc : WF_lockVars(Take(p) \/ TimeOut(p))

(* Bodies return (they only read and write the in-memory storage), and Go  *)
(* serves the receivers of a channel in arrival order, so a receiver that  *)
(* finds the token in the channel again and again gets it.                 *)
BodyFairness == \A p \in Proc : WF_lockVars(Release(p)) /\ SF_lockVars(Take(p))

LockSpec == LockInit /\ [][LockNext]_lockVars

FairLockSpec == LockSpec /\ TimerFairness
----------------------------------------------------------------------------
Runner(p, n) == pc[p] = "running" /\ name[p] = n

(* Two bodies for the same name never overlap: the observer lists and the  *)
(* client list are rewritten key by key inside them.                       *)
MutualExclusion == \A n \in Name, p, q \in Proc :
    Runner(p, n) /\ Runner(q, n) => p = q

(* The token of a channel is either in it or with the one caller whose     *)
(* body runs: neither a timeout nor a release loses or doubles it.         *)
TokenConserved == \A n \in created :
    (token[n] = 1) <=> \A p \in Proc : ~Runner(p, n)

(* A process that has asked for a lock asked for one that has a channel.   *)
CalledIsCreated == \A p \in Proc :
    pc[p] # "idle" => name[p] \in created

(* The inductive invariant behind the theorems of NamedLockProofs. *)
LockIInv == LockTypeOK /\ MutualExclusion /\ TokenConserved /\ CalledIsCreated

(* A call with a positive timeout stops waiting even when the body that    *)
(* has the token never returns.                                            *)
TimedCallStopsWaiting == \A p \in Proc :
    (pc[p] = "waiting" /\ timed[p]) ~> (pc[p] # "waiting")

(* As long as the bodies return, a call without a timeout (varLockerSystem *)
(* is one) gets to run its own.                                            *)
UntimedCallRuns == BodyFairness => \A p \in Proc :
    (pc[p] = "waiting" /\ ~timed[p]) ~> (pc[p] = "running")

(* The channels implement one critical section for each name. *)
Section == INSTANCE Mutex WITH
    inside <- [p \in Proc |-> IF pc[p] = "running" THEN name[p] ELSE NoName]

SectionSpec == Section!Spec
============================================================================
