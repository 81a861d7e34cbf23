------------------------------ MODULE VarLock ------------------------------
(***************************************************************************)
(* Locking, setting and deleting variables: LockVar, UnlockVar,            *)
(* IsVarLocked, SetVar and DelVar of sources/controller/controller.go on   *)
(* top of the _lock flag kept by VarHelper.                                *)
(*                                                                         *)
(* A call works through the names its query resolved to, one at a time;    *)
(* the names under a wildcard come in the order of a map iteration, so     *)
(* they are a set here.  Bodies run under the named lock "varLockerSystem" *)
(* are atomic (module NamedLock); the IsLocked test and the write of a set *)
(* are not inside it and are two steps.  Durations are counted in units of *)
(* which a millisecond has UnitsPerMs, in words of WordSize values.        *)
(***************************************************************************)
EXTENDS Integers

CONSTANTS Client,       \* callers, each with one call under way at a time
          Var,          \* variables
          NoVar,        \* the current name of a caller without a call
          Value,        \* non-empty values
          Empty,        \* the value of a variable that has none
          Request,      \* sets of names a query may resolve to
          WordSize,     \* number of values of a uint and of a Duration
          UnitsPerMs,   \* time.Millisecond
          DefaultWait,  \* the 30 seconds used for a timeout of zero
          TimeoutMs,    \* timeouts, in milliseconds, a caller may give
          MaxSleepMs    \* longest pause between two attempts

ASSUME RequestAssumption == Request \subseteq SUBSET Var
ASSUME NoneAssumption == Empty \notin Value /\ NoVar \notin Var
ASSUME TimeAssumption ==
    /\ {WordSize, UnitsPerMs, DefaultWait, MaxSleepMs} \subseteq Nat \ {0}
    /\ TimeoutMs \subseteq 0 .. WordSize - 1

VARIABLES locked,   \* variables whose _lock flag is set
          value,    \* the value of each variable
          pc,       \* the next step of each caller's call
          cur,      \* the name that call is working on
          todo,     \* the names that call still has to work on
          arg,      \* the value to set
          timeout,  \* the timeout of a lock call, in milliseconds
          waited,   \* how long the current name has been waited for
          got,      \* names locked by the call under way
          told      \* names a finished call reported locked to the caller

vars == <<locked, value, pc, cur, todo, arg, timeout, waited, got, told>>

Steps == {"idle", "try", "elapsed", "sleep", "unlock", "status",
          "setcheck", "setwrite", "delread", "delwrite"}

TypeOK ==
    /\ locked \in SUBSET Var
    /\ value \in [Var -> Value \cup {Empty}]
    /\ pc \in [Client -> Steps]
    /\ cur \in [Client -> Var \cup {NoVar}]
    /\ todo \in [Client -> SUBSET Var]
    /\ arg \in [Client -> Value \cup {Empty}]
    /\ timeout \in [Client -> Nat]
    /\ waited \in [Client -> Nat]
    /\ got \in [Client -> SUBSET Var]
    /\ told \in [Client -> SUBSET Var]

Init ==
    /\ locked = {}
    /\ value = [v \in Var |-> Empty]
    /\ pc = [p \in Client |-> "idle"]
    /\ cur = [p \in Client |-> NoVar]
    /\ todo = [p \in Client |-> {}]
    /\ arg = [p \in Client |-> Empty]
    /\ timeout = [p \in Client |-> 0]
    /\ waited = [p \in Client |-> 0]
    /\ got = [p \in Client |-> {}]
    /\ told = [p \in Client |-> {}]
----------------------------------------------------------------------------
(* time.Duration(waitTimeoutMs) * time.Millisecond, a signed word, and     *)
(* the default that replaces a zero.                                       *)
Signed(n) == IF 2 * n >= WordSize THEN n - WordSize ELSE n

MaxTimeout(ms) ==
    LET d == Signed((ms * UnitsPerMs) % WordSize)
    IN  IF d = 0 THEN DefaultWait ELSE d

(* A call begins with any one of its names. *)
Begin(p, names, step, x, ms) ==
    /\ pc[p] = "idle"
    /\ \E v \in names :
         /\ cur' = [cur EXCEPT ![p] = v]
         /\ todo' = [todo EXCEPT ![p] = names \ {v}]
    /\ pc' = [pc EXCEPT ![p] = step]
    /\ arg' = [arg EXCEPT ![p] = x]
    /\ timeout' = [timeout EXCEPT ![p] = ms]
    /\ UNCHANGED <<locked, value, waited, got, told>>

(* It returns, with an error at the first name that fails ... *)
Return(p) ==
    /\ pc' = [pc EXCEPT ![p] = "idle"]
    /\ cur' = [cur EXCEPT ![p] = NoVar]
    /\ todo' = [todo EXCEPT ![p] = {}]
    /\ arg' = [arg EXCEPT ![p] = Empty]
    /\ timeout' = [timeout EXCEPT ![p] = 0]
    /\ waited' = [waited EXCEPT ![p] = 0]
    /\ got' = [got EXCEPT ![p] = {}]

NextName(p, step) == \E v \in todo[p] :
    /\ cur' = [cur EXCEPT ![p] = v]
    /\ todo' = [todo EXCEPT ![p] = @ \ {v}]
    /\ pc' = [pc EXCEPT ![p] = step]
    /\ waited' = [waited EXCEPT ![p] = 0]
    /\ UNCHANGED <<arg, timeout>>

(* ... or goes on to the next name and returns success after the last. *)
Proceed(p, step) ==
    \/ todo[p] = {} /\ Return(p)
    \/ NextName(p, step) /\ UNCHANGED got

Goto(p, step) ==
    /\ pc' = [pc EXCEPT ![p] = step]
    /\ UNCHANGED <<cur, todo, arg, timeout, got>>
----------------------------------------------------------------------------
LockVar(p, names, ms) == Begin(p, names, "try", Empty, ms)

(* tryLock finds the flag clear and sets it; the caller is told once its   *)
(* last name is locked.                                                    *)
Granted(p) ==
    /\ locked' = locked \cup {cur[p]}
    /\ LET mine == got[p] \cup {cur[p]} IN
         \/ /\ todo[p] = {}
            /\ Return(p)
            /\ told' = [told EXCEPT ![p] = @ \cup mine]
         \/ /\ NextName(p, "try")
            /\ got' = [got EXCEPT ![p] = mine]
            /\ UNCHANGED told
    /\ UNCHANGED value

TryLock_NoTest(p) == pc[p] = "try" /\ Granted(p)

TryLock(p) ==
    /\ pc[p] = "try"
    /\ cur[p] \notin locked
    /\ Granted(p)

TryLockFails(p) ==
    /\ pc[p] = "try"
    /\ cur[p] \in locked
    /\ Goto(p, "elapsed")
    /\ UNCHANGED <<locked, value, waited, told>>

(* time.Since(start) >= maxTimeout: the names already locked stay locked. *)
LockTimesOut_TooSoon(p) ==
    /\ pc[p] = "elapsed"
    /\ Return(p)
    /\ UNCHANGED <<locked, value, told>>

LockTimesOut(p) ==
    /\ pc[p] = "elapsed"
    /\ waited[p] >= MaxTimeout(timeout[p])
    /\ Return(p)
    /\ UNCHANGED <<locked, value, told>>

LockGoesOn(p) ==
    /\ pc[p] = "elapsed"
    /\ waited[p] < MaxTimeout(timeout[p])
    /\ Goto(p, "sleep")
    /\ UNCHANGED <<locked, value, waited, told>>

BackOff_NoTime(p, ms) ==
    /\ pc[p] = "sleep"
    /\ Goto(p, "try")
    /\ UNCHANGED <<locked, value, waited, told>>

BackOff(p, ms) ==
    /\ pc[p] = "sleep"
    /\ waited' = [waited EXCEPT ![p] = @ + ms * UnitsPerMs]
    /\ Goto(p, "try")
    /\ UNCHANGED <<locked, value, told>>

(* The server does not know who holds a lock; callers are assumed to       *)
(* unlock only what they were told they locked.                            *)
UnlockVar(p, names) ==
    /\ names \subseteq told[p]
    /\ Begin(p, names, "unlock", Empty, 0)

UnlockName_KeepsFlag(p) ==
    /\ pc[p] = "unlock"
    /\ told' = [told EXCEPT ![p] = @ \ {cur[p]}]
    /\ Proceed(p, "unlock")
    /\ UNCHANGED <<locked, value>>

UnlockName_ClearsAll(p) ==
    /\ pc[p] = "unlock"
    /\ locked' = {}
    /\ told' = [told EXCEPT ![p] = @ \ {cur[p]}]
    /\ Proceed(p, "unlock")
    /\ UNCHANGED value

UnlockName(p) ==
    /\ pc[p] = "unlock"
    /\ locked' = locked \ {cur[p]}
    /\ told' = [told EXCEPT ![p] = @ \ {cur[p]}]
    /\ Proceed(p, "unlock")
    /\ UNCHANGED value

IsVarLocked(p, names) == Begin(p, names, "status", Empty, 0)

(* The first locked name answers for all. *)
StatusOfName(p) ==
    /\ pc[p] = "status"
    /\ IF cur[p] \in locked THEN Return(p) ELSE Proceed(p, "status")
    /\ UNCHANGED <<locked, value, told>>
----------------------------------------------------------------------------
SetVar(p, names, x) == Begin(p, names, "setcheck", x, 0)

SetCheck(p) ==
    /\ pc[p] = "setcheck"
    /\ IF cur[p] \in locked THEN Return(p)
                            ELSE Goto(p, "setwrite") /\ UNCHANGED waited
    /\ UNCHANGED <<locked, value, told>>

SetWrite(p) ==
    /\ pc[p] = "setwrite"
    /\ value' = [value EXCEPT ![cur[p]] = arg[p]]
    /\ Proceed(p, "setcheck")
    /\ UNCHANGED <<locked, told>>

DelVar(p, names) == Begin(p, names, "delread", Empty, 0)

(* delVar reads the value to see whether there is one, and does not look   *)
(* at the lock.                                                            *)
DelRead(p) ==
    /\ pc[p] = "delread"
    /\ IF value[cur[p]] = Empty THEN Return(p)
                                ELSE Goto(p, "delwrite") /\ UNCHANGED waited
    /\ UNCHANGED <<locked, value, told>>

DelWrite(p) ==
    /\ pc[p] = "delwrite"
    /\ value' = [value EXCEPT ![cur[p]] = Empty]
    /\ Proceed(p, "delread")
    /\ UNCHANGED <<locked, told>>
----------------------------------------------------------------------------
(* The steps a call takes by itself once it has been made. *)
CallStep(p) ==
    \/ TryLock(p)
    \/ TryLockFails(p)
    \/ LockTimesOut(p)
    \/ LockGoesOn(p)
    \/ \E ms \in 1 .. MaxSleepMs : BackOff(p, ms)
    \/ UnlockName(p)
    \/ StatusOfName(p)
    \/ SetCheck(p)
    \/ SetWrite(p)
    \/ DelRead(p)
    \/ DelWrite(p)

Next == \E p \in Client :
    \/ CallStep(p)
    \/ \E names \in Request :
         \/ \E ms \in TimeoutMs : LockVar(p, names, ms)
         \/ UnlockVar(p, names)
         \/ IsVarLocked(p, names)
         \/ \E x \in Value : SetVar(p, names, x)
         \/ DelVar(p, names)

Spec == Init /\ [][Next]_vars

(* The goroutine of a call is scheduled; nobody has to make calls. *)
FairSpec == Spec /\ \A p \in Client : WF_vars(CallStep(p))
----------------------------------------------------------------------------
(* A name is locked for at most one caller, counting both those that have  *)
(* been told so and those whose call has not returned yet.                 *)
LockExclusive == \A p, q \in Client :
    p # q => (got[p] \cup told[p]) \cap (got[q] \cup told[q]) = {}

(* A caller that believes it has a lock has the flag to show for it: no    *)
(* unlock by somebody else took it away.                                   *)
HeldIsLocked == \A p \in Client : got[p] \cup told[p] \subseteq locked

(* An unlock call under way is about names its caller still holds. *)
UnlocksOwn == \A p \in Client :
    pc[p] = "unlock" => {cur[p]} \cup todo[p] \subseteq told[p]

(* A call under way is at a name that is not among those still to visit;   *)
(* only a lock call has names it locked itself.                            *)
CallShape == \A p \in Client :
    /\ pc[p] # "idle" => cur[p] \in Var \ todo[p]
    /\ pc[p] \notin {"try", "elapsed", "sleep"} => got[p] = {}

(* The inductive invariant behind the theorems of VarLockProofs. *)
IInv == TypeOK /\ LockExclusive /\ HeldIsLocked /\ UnlocksOwn /\ CallShape

(* A call that gives up waited for as long as its caller asked, as long as *)
(* what it asked for fits a Duration.                                      *)
WaitedLongEnough == [][\A p \in Client :
    (pc[p] = "elapsed" /\ pc'[p] = "idle" /\ 2 * timeout[p] * UnitsPerMs < WordSize)
        => waited[p] >= timeout[p] * UnitsPerMs]_vars

(* Every call returns. *)
CallReturns == \A p \in Client : (pc[p] # "idle") ~> (pc[p] = "idle")

(* A flag that no caller knows it has to clear comes from one thing only:  *)
(* a lock call over several names that gave up at a later one and, in      *)
(* LockVar, left those it had already locked.                              *)
Orphans == locked \ UNION {got[p] \cup told[p] : p \in Client}

OnlyFailedLockLeaks == [][\A v \in Orphans' \ Orphans : \E p \in Client :
    pc[p] = "elapsed" /\ pc'[p] = "idle" /\ v \in got[p]]_vars
============================================================================
