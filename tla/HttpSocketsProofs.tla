------------------------- MODULE HttpSocketsProofs -------------------------
(***************************************************************************)
(* Who is taken for gone, for any number of goroutines and any waiting     *)
(* time: a client is deleted only after it has left or when no API could   *)
(* be found for it, and an open WebSocket whose writes succeed keeps its   *)
(* client, with the same exception.                                        *)
(***************************************************************************)
EXTENDS HttpSockets, TLAPS

LEMMA LaterType == ASSUME NEW t \in 0 .. MaxWait PROVE Later(t) \in 0 .. MaxWait
<1> DEFINE S == {t + 1, MaxWait}
<1>1. \E m \in S : \A y \in S : m <= y
    BY WaitAssumption
<1>2. Min(S) \in S
    BY <1>1 DEF Min
<1>3. t + 1 \in Nat /\ MaxWait \in Nat
    BY WaitAssumption
<1>4. \A y \in S : Min(S) <= y
    BY <1>1 DEF Min
<1>5. Min(S) \in 0 .. MaxWait
    BY <1>2, <1>3, <1>4
<1> QED BY <1>5 DEF Later

(* Typing of what the clients of VSTP and WebSockets have in common. *)
Begun == /\ connected \in BOOLEAN /\ started \in BOOLEAN /\ known \in BOOLEAN
         /\ fault \in BOOLEAN /\ since \in {0, MaxWait}

LEMMA FreshType == Fresh /\ Begun => TimeTypeOK
<1> SUFFICES ASSUME Fresh, Begun PROVE TimeTypeOK
    OBVIOUS
<1>1. left \in BOOLEAN /\ deleted \in BOOLEAN /\ orphaned \in BOOLEAN
    BY Zenon DEF Fresh
<1>2. since \in 0 .. MaxWait /\ age \in [Worker -> 0 .. Slow]
    BY WaitAssumption DEF Fresh, Begun
<1>3. at \in [Worker -> Places]
    BY DEF Fresh, Places
<1> QED BY <1>1, <1>2, <1>3 DEF TimeTypeOK, Begun

LEMMA TickType == TimeTypeOK /\ Tick => TimeTypeOK'
<1> SUFFICES ASSUME TimeTypeOK, Tick PROVE TimeTypeOK'
    OBVIOUS
<1>1. since' \in 0 .. MaxWait
    BY LaterType DEF TimeTypeOK, Tick
<1>2. age' \in [Worker -> 0 .. Slow]
    BY WaitAssumption DEF TimeTypeOK, Tick
<1> QED BY <1>1, <1>2 DEF TimeTypeOK, Tick, history

LEMMA GotoType ==
    ASSUME TimeTypeOK, NEW w \in Worker, since' \in {since, 0, MaxWait},
           known' \in BOOLEAN, deleted' \in BOOLEAN,
           orphaned' \in BOOLEAN, fault' \in BOOLEAN,
           NEW next \in Places, Proceed(w, next)
    PROVE  TimeTypeOK'
<1>1. age' \in [Worker -> 0 .. Slow]
    BY WaitAssumption DEF TimeTypeOK, Proceed
<1>2. since' \in 0 .. MaxWait
    BY WaitAssumption DEF TimeTypeOK
<1>3. at' \in [Worker -> Places]
    BY DEF TimeTypeOK, Proceed
<1>4. connected' \in BOOLEAN /\ left' \in BOOLEAN /\ started' \in BOOLEAN
    BY DEF TimeTypeOK, Proceed
<1> QED BY <1>1, <1>2, <1>3, <1>4 DEF TimeTypeOK

(* What each step of a goroutine does to the record, in one place. *)
LEMMA InitializedType ==
    ASSUME TimeTypeOK, Initialized
    PROVE  /\ since' \in {since, 0} /\ known' \in BOOLEAN /\ fault' \in BOOLEAN
           /\ fault => fault'
           /\ ~known' => ~known /\ fault'
<1>1. CASE since' = 0 /\ known' = TRUE /\ UNCHANGED fault
    BY <1>1, Zenon DEF TimeTypeOK
<1>2. CASE UNCHANGED record /\ fault' = (fault \/ ~known)
  <2>1. since' = since /\ known' = known
      BY <1>2 DEF record
  <2>2. fault' \in BOOLEAN /\ (fault => fault') /\ (~known => fault')
      BY <1>2, Zenon DEF TimeTypeOK
  <2> QED BY <2>1, <2>2 DEF TimeTypeOK
<1> QED BY <1>1, <1>2 DEF Initialized

LEMMA FindApiFacts ==
    ASSUME TimeTypeOK, NEW w \in Worker, FindApi(w)
    PROVE  /\ TimeTypeOK'
           /\ orphaned' \in BOOLEAN /\ fault' \in BOOLEAN
           /\ (orphaned => orphaned') /\ (fault => fault')
           /\ at'[w] \in {"init", "nil"}
           /\ at'[w] = "nil" => orphaned' /\ ~(known /\ started)
           /\ ~started => fault'
<1>1. orphaned' \in BOOLEAN /\ fault' \in BOOLEAN
    BY Zenon DEF FindApi
<1>2. /\ orphaned => orphaned'
      /\ fault => fault'
      /\ ~(known /\ started) => orphaned'
      /\ ~started => fault'
    BY Zenon DEF FindApi
<1>3. at' = [at EXCEPT ![w] = IF known /\ started THEN "init" ELSE "nil"]
    BY DEF FindApi, Proceed
<1>4. at'[w] = IF known /\ started THEN "init" ELSE "nil"
    BY <1>3 DEF TimeTypeOK
<1>5. since' = since /\ known' = known /\ deleted' = deleted
    BY DEF FindApi, record
<1>6. (IF known /\ started THEN "init" ELSE "nil") \in Places
    BY DEF Places
<1>7. TimeTypeOK'
    BY <1>1, <1>5, <1>6, GotoType DEF FindApi, TimeTypeOK
<1> QED BY <1>1, <1>2, <1>4, <1>7

----------------------------------------------------------------------------
(* A client of VSTP.  One that is not connected has left, and only then    *)
(* does a worker come to look at the time; the other way to a deletion is  *)
(* a lookup of its API.  Without an id in its record it was deleted, or an *)
(* initialize gave up.                                                     *)
Excused == left \/ (orphaned /\ fault)

LeftInv ==
    /\ TimeTypeOK
    /\ ~connected => left
    /\ at \in [Worker -> Places]
    /\ \A w \in Worker : at[w] = "time" => left
    /\ \A w \in Worker : at[w] \in {"nil", "delete"} => Excused
    /\ ~known => Excused \/ fault
    /\ DeletedHadLeft

LEMMA LeftInit == TimeInit => LeftInv
<1> SUFFICES ASSUME TimeInit PROVE LeftInv
    OBVIOUS
<1>1. connected /\ ~deleted /\ connected \in BOOLEAN /\ known \in BOOLEAN
      /\ fault \in BOOLEAN /\ (~known => fault) /\ started \in BOOLEAN /\ since = 0
    BY Zenon DEF TimeInit, Fresh
<1>2. \A w \in Worker : at[w] = "idle"
    BY DEF TimeInit, Fresh
<1>3. TimeTypeOK
    BY <1>1, FreshType DEF TimeInit, Begun
<1> QED BY <1>1, <1>2, <1>3 DEF LeftInv, DeletedHadLeft, TimeTypeOK

(* One step per action; what is left stays left. *)
LEMMA LeftStep == ASSUME LeftInv, [TimeNext]_timeVars PROVE LeftInv'
<1> USE DEF LeftInv, DeletedHadLeft, Excused, Places
<1>1. CASE Tick
    BY <1>1, TickType DEF Tick, history
<1>2. CASE Leave
    BY <1>2 DEF Leave, TimeTypeOK, record, history
<1>3. CASE APIStarted
    BY <1>3 DEF APIStarted, TimeTypeOK, record, history
<1>4. ASSUME NEW w \in Worker, Change(w) \/ ClientConnected(w) PROVE LeftInv'
  <2>1. TimeTypeOK'
      BY <1>4 DEF Change, ClientConnected, Start, TimeTypeOK, record, history
  <2> QED BY <1>4, <2>1 DEF Change, ClientConnected, Start, TimeTypeOK, record, history
<1>5. ASSUME NEW w \in Worker, FindApi(w) PROVE LeftInv'
    BY <1>5, FindApiFacts DEF FindApi, Proceed, record
<1>6. ASSUME NEW w \in Worker, initialize(w) PROVE LeftInv'
  <2>1. TimeTypeOK'
      BY <1>6, InitializedType, GotoType DEF initialize, TimeTypeOK
  <2> QED BY <1>6, <2>1, InitializedType DEF initialize, Proceed
<1>7. ASSUME NEW w \in Worker, initializeNil(w) PROVE LeftInv'
    BY <1>7, GotoType DEF initializeNil, UpdateLiveTime, Proceed, TimeTypeOK, record, history
<1>8. ASSUME NEW w \in Worker, Lookup(w) PROVE LeftInv'
    BY <1>8, GotoType DEF Lookup, Proceed, TimeTypeOK, record, history
<1>9. ASSUME NEW w \in Worker, Write(w) PROVE LeftInv'
    BY <1>9, GotoType DEF Write, UpdateLiveTime, Proceed, TimeTypeOK, record, history
<1>10. ASSUME NEW w \in Worker, IsConnected(w) PROVE LeftInv'
    BY <1>10, GotoType DEF IsConnected, UpdateLiveTime, Proceed, TimeTypeOK, record, history
<1>11. ASSUME NEW w \in Worker, TimeSinceLastLiveTime(w) PROVE LeftInv'
    BY <1>11, GotoType DEF TimeSinceLastLiveTime, Proceed, TimeTypeOK, record, history
<1>12. ASSUME NEW w \in Worker, deleteClient(w) PROVE LeftInv'
    BY <1>12, GotoType DEF deleteClient, Proceed, TimeTypeOK, record, history
<1>13. CASE UNCHANGED timeVars
    BY <1>13 DEF timeVars, TimeTypeOK, record, history
<1> QED BY <1>1, <1>2, <1>3, <1>4, <1>5, <1>6, <1>7, <1>8, <1>9, <1>10, <1>11, <1>12, <1>13
        DEF TimeNext, WorkerStep

(* A client that has not disconnected is deleted only by a change that     *)
(* finds no API for it, and that only after an initialize that gave up or  *)
(* before APIStarted; however many notifications fail and whatever the     *)
(* time stored last.                                                       *)
THEOREM VstpDeletedHadLeft == TimeSpec => []DeletedHadLeft
<1>1. LeftInv => DeletedHadLeft
    BY DEF LeftInv
<1> QED BY LeftInit, LeftStep, <1>1, PTL DEF TimeSpec
----------------------------------------------------------------------------
(* A WebSocket.  Its client is in the maps from File until its handler     *)
(* ends or a write to it fails; before File nobody works for it, and only  *)
(* afterwards does a worker find it gone.  Until the handler has made the  *)
(* client known there is no record, and afterwards there is one, unless    *)
(* an initialize gave up or the client was deleted.                        *)
Doubting == {"alive", "time"}

SocketGone == broken \/ sock = "ended"

Lost == SocketGone \/ (orphaned /\ fault)

SocketInv ==
    /\ WsTypeOK
    /\ started
    /\ sock = "upgraded" => ~broken
    /\ sock \in {"upgraded", "filed", "introduced"} =>
          ~deleted /\ \A w \in Worker : at[w] = "idle"
    /\ sock # "upgraded" /\ ~SocketGone => connected
    /\ deleted => Lost
    /\ \A w \in Worker : at[w] \in Doubting => SocketGone
    /\ \A w \in Worker : at[w] \in {"nil", "delete"} => Lost
    /\ sock \notin {"upgraded", "filed"} /\ ~known => Lost \/ fault
    /\ SocketGone => left

LEMMA SocketInit == WsInit => SocketInv
<1> SUFFICES ASSUME WsInit PROVE SocketInv
    OBVIOUS
<1>1. /\ ~broken /\ ~deleted /\ connected \in BOOLEAN /\ broken \in BOOLEAN
      /\ started /\ started \in BOOLEAN /\ known \in BOOLEAN /\ fault \in BOOLEAN
    BY Zenon DEF WsInit, Fresh
<1>2. \A w \in Worker : at[w] = "idle"
    BY DEF WsInit, Fresh
<1>3. WsTypeOK
    BY <1>1, FreshType DEF WsInit, WsTypeOK, Begun
<1>4. sock = "upgraded"
    BY DEF WsInit
<1> QED BY <1>1, <1>2, <1>3, <1>4 DEF SocketInv, SocketGone, Doubting

(* The handler: the steps of handleWSForVar. *)
LEMMA HandlerStep ==
    ASSUME SocketInv,
           File \/ Introduce \/ Observe \/ Subscribe \/ Unsubscribe \/ ReadFails \/ Cleanup
    PROVE  SocketInv'
<1> USE ReaderAssumption, WaitAssumption
        DEF SocketInv, SocketGone, Lost, Doubting, WsTypeOK, TimeTypeOK, Places, record, history
<1>1. CASE File
    BY <1>1 DEF File
<1>2. CASE Introduce
    BY <1>2, InitializedType DEF Introduce
<1>3. CASE Observe
    BY <1>3 DEF Observe, Start
<1>4. CASE Subscribe
    BY <1>4 DEF Subscribe, Reading
<1>5. CASE Unsubscribe
    BY <1>5, InitializedType DEF Unsubscribe, Reading
<1>6. CASE ReadFails
    BY <1>6 DEF ReadFails, Reading, timeVars
<1>7. CASE Cleanup
    BY <1>7 DEF Cleanup, Unfile
<1> QED BY <1>1, <1>2, <1>3, <1>4, <1>5, <1>6, <1>7

(* The workers: notifications, which may fail, and what follows. *)
LEMMA NotifierStep ==
    ASSUME SocketInv, NEW w \in Worker, Changed(w) \/ WsStep(w)
    PROVE  SocketInv'
<1> USE DEF SocketInv, SocketGone, Lost, Doubting, WsTypeOK, Places
<1>1. CASE Changed(w)
    BY <1>1 DEF Changed, Change, Start, TimeTypeOK, record, history
<1>2. CASE WriteMessage(w)
    BY <1>2, GotoType DEF WriteMessage, UpdateLiveTime, Proceed, TimeTypeOK, history
<1>3. CASE WriteFails(w)
    BY <1>3 DEF WriteFails, Unfile, TimeTypeOK, record, history
<1>4. CASE FindApi(w) /\ UNCHANGED <<sock, broken>>
  <2>1. /\ TimeTypeOK' /\ WsTypeOK'
        /\ orphaned' \in BOOLEAN /\ fault' \in BOOLEAN
      BY <1>4, FindApiFacts
  <2>2. /\ UNCHANGED <<connected, started, known, deleted, left, sock, broken>>
        /\ \A v \in Worker : v # w => at'[v] = at[v]
      BY <1>4 DEF FindApi, Proceed, record, TimeTypeOK
  <2>3. /\ orphaned => orphaned'
        /\ fault => fault'
        /\ at'[w] \in {"init", "nil"}
        /\ at'[w] = "nil" => orphaned' /\ ~known
      BY <1>4, FindApiFacts
  <2>4. sock \notin {"upgraded", "filed", "introduced"}
      BY <1>4 DEF FindApi
  <2>5. Lost => Lost'
      BY <2>2, <2>3
  <2>6. at'[w] = "nil" => Lost'
      BY <2>2, <2>3, <2>4
  <2>7. \A v \in Worker : at'[v] \in {"nil", "delete"} => Lost'
      BY <2>2, <2>3, <2>5, <2>6
  <2>8. \A v \in Worker : at'[v] \in Doubting => SocketGone'
      BY <2>2, <2>3
  <2> QED BY <2>1, <2>2, <2>3, <2>4, <2>5, <2>7, <2>8
<1>5. CASE initialize(w) /\ UNCHANGED <<sock, broken>>
  <2>1. TimeTypeOK'
      BY <1>5, InitializedType, GotoType DEF initialize, TimeTypeOK
  <2> QED BY <1>5, <2>1, InitializedType DEF initialize, Proceed
<1>6. CASE initializeNil(w) /\ UNCHANGED <<sock, broken>>
    BY <1>6, GotoType DEF initializeNil, UpdateLiveTime, Proceed, TimeTypeOK, record, history
<1>7. CASE Lookup(w) /\ UNCHANGED <<sock, broken>>
    BY <1>7, GotoType DEF Lookup, Proceed, TimeTypeOK, record, history
<1>8. CASE IsConnected(w) /\ UNCHANGED <<sock, broken>>
    BY <1>8, GotoType DEF IsConnected, UpdateLiveTime, Proceed, TimeTypeOK, record, history
<1>9. CASE TimeSinceLastLiveTime(w) /\ UNCHANGED <<sock, broken>>
    BY <1>9, GotoType DEF TimeSinceLastLiveTime, Proceed, TimeTypeOK, record, history
<1>10. CASE deleteClient(w) /\ UNCHANGED <<sock, broken>>
    BY <1>10, GotoType DEF deleteClient, Proceed, TimeTypeOK, record, history
<1> QED BY <1>1, <1>2, <1>3, <1>4, <1>5, <1>6, <1>7, <1>8, <1>9, <1>10 DEF WsStep

LEMMA SocketStep == ASSUME SocketInv, [WsNext]_wsVars PROVE SocketInv'
<1> USE DEF SocketInv, SocketGone, Lost, WsTypeOK
<1>1. CASE Tick /\ UNCHANGED <<sock, broken>>
    BY <1>1, TickType DEF Tick, history
<1>2. CASE UNCHANGED wsVars
    BY <1>2 DEF wsVars, timeVars, TimeTypeOK, record, history
<1> QED BY <1>1, <1>2, HandlerStep, NotifierStep DEF WsNext

(* The invariant holds in every reachable state of a WebSocket. *)
THEOREM SocketIInv == WsSpec => []SocketInv
BY SocketInit, SocketStep, PTL DEF WsSpec

(* Whatever notifications are late, an open WebSocket to which no write    *)
(* failed is in the maps of the API, and its client is not deleted unless  *)
(* a change found no API for it, after an initialize that gave up.         *)
THEOREM WebSocketOpenIsServed == WsSpec => []OpenIsServed
<1>1. SocketInv => OpenIsServed
    BY DEF SocketInv, SocketGone, Lost, OpenIsServed
<1> QED BY SocketIInv, <1>1, PTL

(* And a WebSocket client is deleted only after a write to it failed or    *)
(* its handler ended, with the same exception.                             *)
THEOREM WebSocketDeletedHadLeft == WsSpec => []DeletedHadLeft
<1>1. SocketInv => DeletedHadLeft
    BY DEF SocketInv, SocketGone, Lost, DeletedHadLeft
<1> QED BY SocketIInv, <1>1, PTL
============================================================================
