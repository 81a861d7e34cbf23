--------------------------- MODULE VarLockProofs ---------------------------
(***************************************************************************)
(* VarLock for any callers, variables, queries and timeouts: as long as    *)
(* callers unlock only what they were told they locked, a variable is      *)
(* locked for one caller at a time and nobody else clears its flag.        *)
(***************************************************************************)
EXTENDS VarLock, TLAPS

USE DEF Steps

LEMMA InitIInv == Init => IInv
BY DEF Init, IInv, TypeOK, LockExclusive, HeldIsLocked, UnlocksOwn, CallShape

(* Making a call changes no lock. *)
LEMMA BeginIInv ==
    ASSUME IInv, NEW p \in Client, NEW names \in Request, NEW step \in Steps \ {"idle"},
           NEW x \in Value \cup {Empty}, NEW ms \in Nat,
           step = "unlock" => names \subseteq told[p],
           Begin(p, names, step, x, ms)
    PROVE  IInv'
<1> USE RequestAssumption DEF IInv, TypeOK, Begin
<1>1. PICK v \in names : /\ cur' = [cur EXCEPT ![p] = v]
                         /\ todo' = [todo EXCEPT ![p] = names \ {v}]
    OBVIOUS
<1>2. names \subseteq Var
    OBVIOUS
<1>3. TypeOK'
    BY <1>1, <1>2
<1>4. LockExclusive' /\ HeldIsLocked'
    BY DEF LockExclusive, HeldIsLocked
<1>5. UnlocksOwn'
    BY <1>1 DEF UnlocksOwn
<1>6. CallShape'
    BY <1>1, <1>2 DEF CallShape
<1> QED BY <1>3, <1>4, <1>5, <1>6

(* Neither does returning, or a step that only moves the call on. *)
LEMMA ReturnIInv ==
    ASSUME IInv, NEW p \in Client, Return(p), UNCHANGED <<locked, told>>,
           value' \in [Var -> Value \cup {Empty}]
    PROVE  IInv'
<1> USE DEF IInv, TypeOK, Return
<1>1. TypeOK'
    OBVIOUS
<1>2. LockExclusive' /\ HeldIsLocked'
    BY DEF LockExclusive, HeldIsLocked
<1>3. UnlocksOwn' /\ CallShape'
    BY DEF UnlocksOwn, CallShape
<1> QED BY <1>1, <1>2, <1>3

LEMMA NextNameIInv ==
    ASSUME IInv, NEW p \in Client, NEW step \in {"status", "setcheck", "delread"},
           NextName(p, step), got[p] = {}, UNCHANGED <<locked, got, told>>,
           value' \in [Var -> Value \cup {Empty}]
    PROVE  IInv'
<1> USE DEF IInv, TypeOK, NextName
<1>1. TypeOK'
    OBVIOUS
<1>2. LockExclusive' /\ HeldIsLocked'
    BY DEF LockExclusive, HeldIsLocked
<1>3. UnlocksOwn' /\ CallShape'
    BY DEF UnlocksOwn, CallShape
<1> QED BY <1>1, <1>2, <1>3

LEMMA GotoIInv ==
    ASSUME IInv, NEW p \in Client, NEW step \in Steps \ {"idle", "unlock"},
           Goto(p, step), UNCHANGED <<locked, value, told>>, waited' \in [Client -> Nat],
           pc[p] # "idle",
           pc[p] \in {"try", "elapsed", "sleep"} => step \in {"try", "elapsed", "sleep"}
    PROVE  IInv'
<1> USE DEF IInv, TypeOK, Goto
<1>1. TypeOK'
    OBVIOUS
<1>2. LockExclusive' /\ HeldIsLocked'
    BY DEF LockExclusive, HeldIsLocked
<1>3. UnlocksOwn' /\ CallShape'
    BY DEF UnlocksOwn, CallShape
<1> QED BY <1>1, <1>2, <1>3

(* The flag was clear, so nobody else had the name. *)
LEMMA TryLockIInv == ASSUME IInv, NEW p \in Client, TryLock(p) PROVE IInv'
<1> DEFINE mine == got[p] \cup {cur[p]}
<1> USE DEF IInv, TypeOK, TryLock, Granted
<1>1. cur[p] \in Var /\ cur[p] \notin todo[p] /\ cur[p] \notin locked
    BY DEF CallShape
<1>2. \A q \in Client : cur[p] \notin got[q] \cup told[q]
    BY <1>1 DEF HeldIsLocked
<1>3. /\ locked' = locked \cup {cur[p]} /\ value' = value
      /\ got'[p] \cup told'[p] \subseteq mine \cup told[p]
      /\ \A q \in Client \ {p} : got'[q] = got[q] /\ told'[q] = told[q]
    BY DEF Return, NextName
<1>4. TypeOK'
  <2>1. CASE todo[p] = {} /\ Return(p) /\ told' = [told EXCEPT ![p] = @ \cup mine]
      BY <1>1, <2>1 DEF Return
  <2>2. CASE NextName(p, "try") /\ got' = [got EXCEPT ![p] = mine] /\ UNCHANGED told
      BY <1>1, <2>2 DEF NextName
  <2> QED BY <2>1, <2>2
<1>5. HeldIsLocked'
    BY <1>3 DEF HeldIsLocked
<1>6. LockExclusive'
    BY <1>2, <1>3 DEF LockExclusive
<1>7. UnlocksOwn' /\ CallShape'
    BY DEF UnlocksOwn, CallShape, Return, NextName
<1> QED BY <1>4, <1>5, <1>6, <1>7

(* The name unlocked is the caller's own, so nobody else loses it. *)
LEMMA UnlockIInv == ASSUME IInv, NEW p \in Client, UnlockName(p) PROVE IInv'
<1> USE DEF IInv, TypeOK, UnlockName, Proceed
<1>1. cur[p] \in told[p] /\ todo[p] \subseteq told[p] /\ cur[p] \notin todo[p] /\ got[p] = {}
    BY DEF UnlocksOwn, CallShape
<1>2. \A q \in Client \ {p} : cur[p] \notin got[q] \cup told[q]
    BY <1>1 DEF LockExclusive
<1>3. /\ \A q \in Client : got'[q] = got[q]
      /\ \A q \in Client \ {p} : told'[q] = told[q]
      /\ told'[p] = told[p] \ {cur[p]}
    BY <1>1, ZenonT(30) DEF Return, NextName
<1>4. TypeOK'
    BY DEF Return, NextName
<1>5. HeldIsLocked'
    BY <1>1, <1>2, <1>3 DEF HeldIsLocked
<1>6. LockExclusive'
    BY <1>3 DEF LockExclusive
<1>7. UnlocksOwn' /\ CallShape'
    BY <1>1, <1>3 DEF UnlocksOwn, CallShape, Return, NextName
<1> QED BY <1>4, <1>5, <1>6, <1>7

(* Writes of values: the steps of SetVar and DelVar. *)
LEMMA ValueStepIInv ==
    ASSUME IInv, NEW p \in Client,
           StatusOfName(p) \/ SetCheck(p) \/ SetWrite(p) \/ DelRead(p) \/ DelWrite(p)
    PROVE  IInv'
<1>1. value' \in [Var -> Value \cup {Empty}] /\ UNCHANGED <<locked, told>>
    BY DEF IInv, TypeOK, StatusOfName, SetCheck, SetWrite, DelRead, DelWrite
<1>2. CASE Return(p)
    BY <1>1, <1>2, ReturnIInv
<1>3. CASE \E step \in {"status", "setcheck", "delread"} :
             NextName(p, step) /\ UNCHANGED got
  <2>1. got[p] = {}
      BY DEF IInv, CallShape, StatusOfName, SetCheck, SetWrite, DelRead, DelWrite
  <2> QED BY <1>1, <1>3, <2>1, NextNameIInv
<1>4. CASE \/ SetCheck(p) /\ Goto(p, "setwrite") /\ UNCHANGED waited
           \/ DelRead(p) /\ Goto(p, "delwrite") /\ UNCHANGED waited
  <2>1. pc[p] \in {"setcheck", "delread"} /\ waited' \in [Client -> Nat] /\ UNCHANGED value
      BY <1>4 DEF SetCheck, DelRead, IInv, TypeOK
  <2> QED BY <1>1, <1>4, <2>1, GotoIInv
<1> QED BY <1>2, <1>3, <1>4 DEF StatusOfName, SetCheck, SetWrite, DelRead, DelWrite, Proceed

LEMMA LockStepIInv ==
    ASSUME IInv, NEW p \in Client,
           \/ TryLockFails(p)
           \/ LockTimesOut(p)
           \/ LockGoesOn(p)
           \/ \E ms \in 1 .. MaxSleepMs : BackOff(p, ms)
    PROVE  IInv'
<1>1. CASE TryLockFails(p) \/ LockGoesOn(p)
    BY <1>1, GotoIInv DEF TryLockFails, LockGoesOn, IInv, TypeOK
<1>2. CASE LockTimesOut(p)
    BY <1>2, ReturnIInv DEF LockTimesOut, IInv, TypeOK
<1>3. ASSUME NEW ms \in 1 .. MaxSleepMs, BackOff(p, ms) PROVE IInv'
  <2>1. waited' \in [Client -> Nat]
      BY <1>3, TimeAssumption DEF BackOff, IInv, TypeOK
  <2> QED BY <1>3, <2>1, GotoIInv DEF BackOff
<1> QED BY <1>1, <1>2, <1>3

LEMMA NextIInv == IInv /\ [Next]_vars => IInv'
<1> SUFFICES ASSUME IInv, [Next]_vars PROVE IInv'
    OBVIOUS
<1>1. ASSUME NEW p \in Client, CallStep(p) PROVE IInv'
    BY <1>1, TryLockIInv, UnlockIInv, ValueStepIInv, LockStepIInv DEF CallStep
<1>2. ASSUME NEW p \in Client, NEW names \in Request,
             \/ \E ms \in TimeoutMs : LockVar(p, names, ms)
             \/ UnlockVar(p, names)
             \/ IsVarLocked(p, names)
             \/ \E x \in Value : SetVar(p, names, x)
             \/ DelVar(p, names)
      PROVE IInv'
  <2>1. TimeoutMs \subseteq Nat
      BY TimeAssumption
  <2> QED BY <1>2, <2>1, BeginIInv
          DEF LockVar, UnlockVar, IsVarLocked, SetVar, DelVar
<1>3. CASE UNCHANGED vars
    BY <1>3 DEF vars, IInv, TypeOK, LockExclusive, HeldIsLocked, UnlocksOwn, CallShape
<1> QED BY <1>1, <1>2, <1>3 DEF Next

(* The invariant holds in every reachable state. *)
THEOREM VarLockIInv == Spec => []IInv
BY InitIInv, NextIInv, PTL DEF Spec

(* Every variable of the lock model keeps its type. *)
THEOREM VarLockTypeOK == Spec => []TypeOK
<1>1. IInv => TypeOK
    BY DEF IInv
<1> QED BY VarLockIInv, <1>1, PTL

(* VarHelper.Lock grants a variable to one caller at a time. *)
THEOREM VarLockExclusive == Spec => []LockExclusive
<1>1. IInv => LockExclusive
    BY DEF IInv
<1> QED BY VarLockIInv, <1>1, PTL

(* The _lock flag stays set until its holder unlocks it. *)
THEOREM VarLockHeldIsLocked == Spec => []HeldIsLocked
<1>1. IInv => HeldIsLocked
    BY DEF IInv
<1> QED BY VarLockIInv, <1>1, PTL

(* A lock call that gives up has waited as long as it was asked to, for    *)
(* every timeout whose Duration does not overflow.                         *)
THEOREM VarLockWaitedLongEnough == Spec => WaitedLongEnough
<1>1. IInv /\ [Next]_vars => [\A p \in Client :
        (pc[p] = "elapsed" /\ pc'[p] = "idle" /\ 2 * timeout[p] * UnitsPerMs < WordSize)
          => waited[p] >= timeout[p] * UnitsPerMs]_vars
  <2> SUFFICES ASSUME IInv, Next, NEW p \in Client,
                      pc[p] = "elapsed", pc'[p] = "idle",
                      2 * timeout[p] * UnitsPerMs < WordSize
               PROVE  waited[p] >= timeout[p] * UnitsPerMs
      BY DEF vars
  <2>1. LockTimesOut(p)
    <3>1. ASSUME NEW q \in Client, q # p, CallStep(q) PROVE pc'[p] = pc[p]
        BY <3>1 DEF CallStep, IInv, TypeOK, TryLock, Granted, TryLockFails, LockTimesOut,
           LockGoesOn, BackOff, UnlockName, StatusOfName, SetCheck, SetWrite, DelRead,
           DelWrite, Return, NextName, Proceed, Goto
    <3>2. ASSUME NEW q \in Client, NEW names \in Request,
             \/ \E ms \in TimeoutMs : LockVar(q, names, ms)
             \/ UnlockVar(q, names)
             \/ IsVarLocked(q, names)
             \/ \E x \in Value : SetVar(q, names, x)
             \/ DelVar(q, names)
          PROVE pc'[p] # "idle"
        BY <3>2 DEF IInv, TypeOK, LockVar, UnlockVar, IsVarLocked, SetVar, DelVar, Begin
    <3>3. CallStep(p) => LockTimesOut(p)
        BY DEF CallStep, IInv, TypeOK, TryLock, TryLockFails, LockGoesOn, BackOff,
           UnlockName, StatusOfName, SetCheck, SetWrite, DelRead, DelWrite, Goto
    <3> QED BY <3>1, <3>2, <3>3 DEF Next
  <2>2. timeout[p] \in Nat /\ UnitsPerMs \in Nat /\ WordSize \in Nat /\ waited[p] \in Nat
      BY TimeAssumption DEF IInv, TypeOK
  <2> DEFINE d == timeout[p] * UnitsPerMs
  <2>3. d \in Nat
      BY <2>2
  <2>a. 2 * d < WordSize
      BY <2>2
  <2> HIDE DEF d
  <2>4. d % WordSize = d
      BY <2>2, <2>3, <2>a
  <2>5. d # 0 => MaxTimeout(timeout[p]) = d
      BY <2>2, <2>3, <2>a, <2>4 DEF MaxTimeout, Signed, d
  <2>6. waited[p] >= MaxTimeout(timeout[p])
      BY <2>1 DEF LockTimesOut
  <2> QED BY <2>2, <2>3, <2>5, <2>6 DEF d
<1> QED BY VarLockIInv, <1>1, PTL DEF Spec, WaitedLongEnough

(* The flags nobody knows of grow by the failure of a lock call, and by    *)
(* nothing else: whatever locks or unlocks a name tells its caller, and    *)
(* whatever else a call does keeps what callers know.                      *)
THEOREM VarLockOnlyFailedLockLeaks == Spec => OnlyFailedLockLeaks
<1>1. IInv /\ [Next]_vars => [\A v \in Orphans' \ Orphans : \E p \in Client :
        pc[p] = "elapsed" /\ pc'[p] = "idle" /\ v \in got[p]]_vars
  <2> SUFFICES ASSUME IInv, Next, NEW v, v \in Orphans', v \notin Orphans
               PROVE  \E p \in Client : pc[p] = "elapsed" /\ pc'[p] = "idle" /\ v \in got[p]
      BY DEF vars
  <2>1. v \in locked' /\ \A q \in Client : v \notin got'[q] /\ v \notin told'[q]
      BY DEF Orphans
  <2>2. v \in locked => \E q \in Client : v \in got[q] \/ v \in told[q]
      BY DEF Orphans
  <2>3. ASSUME UNCHANGED <<locked, got, told>> PROVE FALSE
      BY <2>1, <2>2, <2>3
  <2>4. ASSUME NEW p \in Client, Return(p), UNCHANGED <<locked, told>>, got[p] = {} PROVE FALSE
    <3>1. got' = got
        BY <2>4 DEF Return, IInv, TypeOK
    <3> QED BY <2>3, <2>4, <3>1
  <2>5. ASSUME NEW p \in Client, TryLock(p) PROVE FALSE
    <3>1. /\ locked' = locked \cup {cur[p]}
          /\ cur[p] \in got'[p] \cup told'[p]
          /\ \A q \in Client : got[q] \cup told[q] \subseteq got'[q] \cup told'[q]
        BY <2>5 DEF TryLock, Granted, Return, NextName, IInv, TypeOK
    <3> QED BY <2>1, <2>2, <3>1
  <2>6. ASSUME NEW p \in Client, UnlockName(p) PROVE FALSE
    <3>1. got[p] = {}
        BY <2>6 DEF UnlockName, IInv, CallShape
    <3>2. /\ locked' = locked \ {cur[p]}
          /\ \A q \in Client : got'[q] = got[q] /\ told[q] \subseteq told'[q] \cup {cur[p]}
        BY <2>6, <3>1, ZenonT(30) DEF UnlockName, Proceed, Return, NextName, IInv, TypeOK
    <3> QED BY <2>1, <2>2, <3>2
  <2>7. ASSUME NEW p \in Client, LockTimesOut(p)
        PROVE  pc[p] = "elapsed" /\ pc'[p] = "idle" /\ v \in got[p]
    <3>1. /\ UNCHANGED <<locked, told>> /\ pc[p] = "elapsed" /\ pc'[p] = "idle"
          /\ \A q \in Client \ {p} : got'[q] = got[q]
        BY <2>7 DEF LockTimesOut, Return, IInv, TypeOK
    <3> QED BY <2>1, <2>2, <3>1
  <2>8. ASSUME NEW p \in Client,
               StatusOfName(p) \/ SetCheck(p) \/ SetWrite(p) \/ DelRead(p) \/ DelWrite(p)
        PROVE  FALSE
    <3>1. got[p] = {} /\ UNCHANGED <<locked, told>>
        BY <2>8 DEF StatusOfName, SetCheck, SetWrite, DelRead, DelWrite, IInv, CallShape
    <3>2. Return(p) \/ UNCHANGED got
        BY <2>8 DEF StatusOfName, SetCheck, SetWrite, DelRead, DelWrite, Proceed, Goto
    <3> QED BY <2>3, <2>4, <3>1, <3>2
  <2>9. ASSUME NEW p \in Client, \/ TryLockFails(p) \/ LockGoesOn(p)
                                 \/ \E ms \in 1 .. MaxSleepMs : BackOff(p, ms)
        PROVE  FALSE
      BY <2>3, <2>9 DEF TryLockFails, LockGoesOn, BackOff, Goto
  <2>10. ASSUME NEW p \in Client, NEW names \in Request,
             \/ \E ms \in TimeoutMs : LockVar(p, names, ms)
             \/ UnlockVar(p, names)
             \/ IsVarLocked(p, names)
             \/ \E x \in Value : SetVar(p, names, x)
             \/ DelVar(p, names)
         PROVE FALSE
      BY <2>3, <2>10 DEF LockVar, UnlockVar, IsVarLocked, SetVar, DelVar, Begin
  <2> QED BY <2>5, <2>6, <2>7, <2>8, <2>9, <2>10 DEF Next, CallStep
<1> QED BY VarLockIInv, <1>1, PTL DEF Spec, OnlyFailedLockLeaks
============================================================================
