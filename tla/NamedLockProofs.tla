-------------------------- MODULE NamedLockProofs --------------------------
(***************************************************************************)
(* NamedLock for any set of goroutines and of lock names: the token is     *)
(* conserved, bodies for a name exclude each other, and the channels       *)
(* implement the critical sections of Mutex.                               *)
(***************************************************************************)
EXTENDS NamedLock, TLAPS

LEMMA InitIInv == LockInit => LockIInv
BY NoNameAssumption DEF LockInit, LockIInv, LockTypeOK, MutualExclusion, TokenConserved,
   CalledIsCreated, Runner

(* The step cases: each action keeps types, the token and the exclusion. *)
LEMMA NextIInv == LockIInv /\ [LockNext]_lockVars => LockIInv'
<1> SUFFICES ASSUME LockIInv, [LockNext]_lockVars PROVE LockIInv'
    OBVIOUS
<1> USE NoNameAssumption DEF LockIInv, LockTypeOK, MutualExclusion, TokenConserved,
        CalledIsCreated, Runner
<1>1. ASSUME NEW p \in Proc, NEW n \in Name, NEW t \in BOOLEAN, Call(p, n, t)
      PROVE LockIInv'
  <2>1. LockTypeOK'
      BY <1>1 DEF Call, ChannelOf
  <2>2. MutualExclusion' /\ CalledIsCreated'
      BY <1>1 DEF Call, ChannelOf
  <2>3. ASSUME NEW m \in created' PROVE (token'[m] = 1) <=> \A q \in Proc : ~Runner(q, m)
    <3>1. CASE m \in created
        BY <1>1, <3>1 DEF Call, ChannelOf
    <3>2. CASE m \notin created
      <4>1. m = n /\ token'[n] = 1
          BY <1>1, <2>3, <3>2 DEF Call, ChannelOf
      <4> QED BY <4>1, <3>2
    <3> QED BY <3>1, <3>2
  <2>4. ASSUME NEW q \in Proc, NEW m \in Name PROVE Runner(q, m)' <=> Runner(q, m)
      BY <1>1 DEF Call
  <2>5. created' \subseteq Name
      BY <2>1
  <2>6. TokenConserved'
      BY <2>3, <2>4, <2>5
  <2> QED BY <2>1, <2>2, <2>6
<1>2. ASSUME NEW p \in Proc, Take(p) PROVE LockIInv'
  <2>1. LockTypeOK' /\ CalledIsCreated'
      BY <1>2 DEF Take
  <2>2. MutualExclusion'
      BY <1>2 DEF Take
  <2>3. TokenConserved'
      BY <1>2 DEF Take
  <2> QED BY <2>1, <2>2, <2>3
<1>3. ASSUME NEW p \in Proc, TimeOut(p) PROVE LockIInv'
  <2>1. LockTypeOK' /\ MutualExclusion' /\ CalledIsCreated'
      BY <1>3 DEF TimeOut
  <2>2. TokenConserved'
      BY <1>3 DEF TimeOut
  <2> QED BY <2>1, <2>2
<1>4. ASSUME NEW p \in Proc, Release(p) PROVE LockIInv'
  <2>1. LockTypeOK' /\ MutualExclusion' /\ CalledIsCreated'
      BY <1>4 DEF Release
  <2>2. TokenConserved'
      BY <1>4 DEF Release
  <2> QED BY <2>1, <2>2
<1>5. CASE UNCHANGED lockVars
    BY <1>5 DEF lockVars
<1> QED BY <1>1, <1>2, <1>3, <1>4, <1>5 DEF LockNext

(* The invariant holds in every reachable state. *)
THEOREM NamedLockIInv == LockSpec => []LockIInv
BY InitIInv, NextIInv, PTL DEF LockSpec

(* Bodies passed to NamedLockRun for one name never overlap. *)
THEOREM NamedLockMutualExclusion == LockSpec => []MutualExclusion
<1>1. LockIInv => MutualExclusion
    BY DEF LockIInv
<1> QED BY NamedLockIInv, <1>1, PTL

(* The token of every channel is in it exactly when no body runs. *)
THEOREM NamedLockTokenConserved == LockSpec => []TokenConserved
<1>1. LockIInv => TokenConserved
    BY DEF LockIInv
<1> QED BY NamedLockIInv, <1>1, PTL

(* acquireNamedLock/releaseNamedLock implement the critical sections of    *)
(* Mutex: only taking the token enters one, only a release leaves it.      *)
THEOREM NamedLockImplementsMutex == LockSpec => SectionSpec
<1>1. LockInit => Section!Init
    BY DEF LockInit, Section!Init
<1>2. LockIInv /\ [LockNext]_lockVars => [Section!Next]_([p \in Proc |-> IF pc[p] = "running" THEN name[p] ELSE NoName])
  <2> SUFFICES ASSUME LockIInv, [LockNext]_lockVars
               PROVE [Section!Next]_([p \in Proc |-> IF pc[p] = "running" THEN name[p] ELSE NoName])
      OBVIOUS
  <2> DEFINE in == [p \in Proc |-> IF pc[p] = "running" THEN name[p] ELSE NoName]
  <2> USE NoNameAssumption DEF LockIInv, LockTypeOK
  <2>1. ASSUME NEW p \in Proc, NEW n \in Name, NEW t \in BOOLEAN, Call(p, n, t)
        PROVE in' = in
      BY <2>1 DEF Call
  <2>2. ASSUME NEW p \in Proc, Take(p) PROVE Section!Enter(p, name[p]) /\ name[p] \in Name
      BY <2>2 DEF Take, Section!Enter, TokenConserved, CalledIsCreated, Runner
  <2>3. ASSUME NEW p \in Proc, TimeOut(p) PROVE in' = in
      BY <2>3 DEF TimeOut
  <2>4. ASSUME NEW p \in Proc, Release(p) PROVE Section!Leave(p)
      BY <2>4 DEF Release, Section!Leave, CalledIsCreated
  <2>5. ASSUME UNCHANGED lockVars PROVE in' = in
      BY <2>5 DEF lockVars
  <2>6. ASSUME NEW p \in Proc, Take(p) \/ Release(p) PROVE Section!Next
    <3>1. CASE Take(p)
      <4>1. name[p] \in Name /\ Section!Enter(p, name[p])
          BY <2>2, <3>1
      <4>2. \E n \in Name : Section!Enter(p, n)
          BY <4>1 DEF Section!Enter
      <4> QED BY <4>2, Zenon DEF Section!Next
    <3>2. CASE Release(p)
        BY <2>4, <3>2, Zenon DEF Section!Next
    <3> QED BY <2>6, <3>1, <3>2
  <2>7. Section!Next \/ in' = in
    <3> HIDE DEF in
    <3> QED BY <2>1, <2>3, <2>5, <2>6 DEF LockNext
  <2> QED BY <2>7
<1> QED BY <1>1, <1>2, NamedLockIInv, PTL DEF LockSpec, SectionSpec, Section!Spec
============================================================================
