----------------------------- MODULE HttpSockets ----------------------------
(***************************************************************************)
(* A WebSocket client of the HTTP API (handleWSForVar, NotifyClient and    *)
(* CheckAlive of sources/services/apis/httpapi/httpapi.go), with the live  *)
(* time the controller keeps of it.                                        *)
(*                                                                         *)
(* The id of the client is the time it connected, so it never comes back.  *)
(* `connected' says whether the id is in the API's maps, where it is put   *)
(* and removed under one lock.  The handler calls the controller itself,   *)
(* as one of the workers; a change of the variable runs another.           *)
(***************************************************************************)
EXTENDS ClientLiveTime

CONSTANT Reader    \* the worker that runs handleWSForVar

ASSUME ReaderAssumption == Reader \in Worker

VARIABLES sock,     \* how far the handler is
          broken    \* a write has failed: so will every later one

wsVars == <<timeVars, sock, broken>>

WsTypeOK ==
    /\ TimeTypeOK
    /\ sock \in {"upgraded", "filed", "introduced", "reading", "ending", "ended"}
    /\ broken \in BOOLEAN

WsInit ==
    /\ connected = FALSE
    /\ started = TRUE           \* APIStarted comes before the server listens
    /\ known = FALSE /\ since = MaxWait
    /\ fault = FALSE
    /\ Fresh
    /\ sock = "upgraded"
    /\ broken = FALSE
----------------------------------------------------------------------------
(* handleWSForVar: the client is filed, then made known to the controller  *)
(* (ClientConnected, which finds nothing to send to a new id), and the     *)
(* variable it names is observed.                                          *)
File ==
    /\ sock = "upgraded"
    /\ sock' = "filed"
    /\ connected' = TRUE
    /\ UNCHANGED <<started, record, left, deleted, at, age, history, broken>>

Introduce ==
    /\ sock = "filed"
    /\ sock' = "introduced"
    /\ Initialized
    /\ UNCHANGED <<connected, started, left, deleted, at, age, orphaned, broken>>

Observe_Unfiled ==
    /\ sock \in {"upgraded", "introduced"}
    /\ sock' = "reading"
    /\ Start(Reader, "init")
    /\ UNCHANGED <<connected, broken>>

Observe ==
    /\ sock = "introduced"
    /\ sock' = "reading"
    /\ Start(Reader, "init")
    /\ UNCHANGED <<connected, broken>>

(* The read loop goes on once the call it made has returned.               *)
Reading == sock = "reading" /\ at[Reader] = "idle"

(* A subscription makes a client that was deleted known again.             *)
Subscribe ==
    /\ Reading
    /\ deleted' = FALSE
    /\ at' = [at EXCEPT ![Reader] = "init"]
    /\ UNCHANGED <<connected, started, record, left, age, history, sock, broken>>

(* Of another variable: initialize is all that concerns the client.        *)
Unsubscribe ==
    /\ Reading
    /\ Initialized
    /\ UNCHANGED <<connected, started, left, deleted, at, age, orphaned, sock, broken>>

ReadFails ==
    /\ Reading
    /\ sock' = "ending"
    /\ UNCHANGED <<timeVars, broken>>

Unfile == connected' = FALSE /\ left' = TRUE

Cleanup ==
    /\ sock = "ending"
    /\ sock' = "ended"
    /\ Unfile
    /\ UNCHANGED <<started, record, deleted, at, age, history, broken>>

(* A change of the variable, once it is observed. *)
Changed(w) ==
    /\ w # Reader
    /\ sock \in {"reading", "ending", "ended"}
    /\ at[Reader] # "init"
    /\ Change(w)
    /\ UNCHANGED <<sock, broken>>

(* NotifyClient *)
WriteMessage(w) ==
    /\ at[w] = "write"
    /\ ~broken /\ sock # "ended"
    /\ UpdateLiveTime
    /\ Proceed(w, "idle")
    /\ UNCHANGED <<deleted, history, sock, broken>>

WriteFails(w) ==
    /\ at[w] = "write"
    /\ at' = [at EXCEPT ![w] = "alive"]
    /\ broken' = TRUE
    /\ Unfile
    /\ UNCHANGED <<started, record, deleted, age, history, sock>>

WsStep(w) ==
    \/ WriteMessage(w)
    \/ WriteFails(w)
    \/ /\ \/ FindApi(w)
          \/ initialize(w)
          \/ initializeNil(w)
          \/ Lookup(w)
          \/ IsConnected(w)
          \/ TimeSinceLastLiveTime(w)
          \/ deleteClient(w)
       /\ UNCHANGED <<sock, broken>>

WsNext ==
    \/ Tick /\ UNCHANGED <<sock, broken>>
    \/ File
    \/ Introduce
    \/ Observe
    \/ Subscribe
    \/ Unsubscribe
    \/ ReadFails
    \/ Cleanup
    \/ \E w \in Worker : Changed(w) \/ WsStep(w)

WsSpec == WsInit /\ [][WsNext]_wsVars
----------------------------------------------------------------------------
(* As long as a WebSocket is read from and no write to it has failed, its  *)
(* client is found by CheckAlive and NotifyClient, and is not deleted,     *)
(* whatever goroutines of the controller are late.  It may be deleted only *)
(* when a change found no id of the API stored for it, after an initialize *)
(* that gave up.                                                           *)
OpenIsServed ==
    sock \in {"filed", "introduced", "reading"} /\ ~broken =>
        connected /\ (deleted => orphaned /\ fault)
=============================================================================
