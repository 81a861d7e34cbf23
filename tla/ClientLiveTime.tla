--------------------------- MODULE ClientLiveTime --------------------------
(***************************************************************************)
(* When a client that is gone is deleted: the live time kept by            *)
(* sources/controller/controller_clienthelper.go and checkClientLiveTime   *)
(* of controller.go, for one client that observes variables.               *)
(*                                                                         *)
(* Every change of an observed variable, and every connection of the       *)
(* client, runs a goroutine that makes a ClientHelper (initialize stores   *)
(* the id of its API and the live time, unless its named lock times out),  *)
(* notifies the client and, when that fails, checks its live time.  A      *)
(* change has to find the API first, and deletes the client when there is  *)
(* none.  Time is in seconds and is counted up to MaxWait.                 *)
(***************************************************************************)
EXTENDS Integers, FiniteSetsExt

CONSTANTS Worker,       \* goroutines
          MaxWait,      \* maxTimeWaitingClientSecond
          Slow,         \* bound on the seconds a goroutine takes
          LockTimeouts  \* the lock of initialize may time out

ASSUME WaitAssumption == MaxWait \in Nat \ {0} /\ Slow \in Nat \ {0}

VARIABLES connected,  \* the API finds the client
          started,    \* the API is in the controller's table
          known,      \* the apiId of the client is stored
          since,      \* seconds since lastLiveTime
          left,       \* the client has disconnected at some time
          deleted,    \* deleteClient was run
          at,         \* what each worker is doing
          age,        \* the seconds it has been at it
          orphaned,   \* a change has found no API for the client ...
          fault       \* ... as it may when this has happened: initialize
                      \* gave up, or the change came before APIStarted

record == <<known, since>>
history == <<orphaned, fault>>
timeVars == <<connected, started, record, left, deleted, at, age, history>>

Places == {"idle", "api", "init", "nil", "notify", "write", "alive", "time", "delete"}

TimeTypeOK ==
    /\ connected \in BOOLEAN /\ started \in BOOLEAN /\ known \in BOOLEAN
    /\ since \in 0 .. MaxWait
    /\ left \in BOOLEAN
    /\ deleted \in BOOLEAN
    /\ at \in [Worker -> Places]
    /\ age \in [Worker -> 0 .. Slow]
    /\ orphaned \in BOOLEAN /\ fault \in BOOLEAN

Fresh ==
    /\ left = FALSE
    /\ deleted = FALSE
    /\ at = [w \in Worker |-> "idle"]
    /\ age = [w \in Worker |-> 0]
    /\ orphaned = FALSE

(* An observer of VSTP that is connected.  The API may not be in the table *)
(* yet, since the server listens before APIStarted; and the client's first *)
(* initialize may have given up.                                           *)
TimeInit ==
    /\ connected = TRUE
    /\ started \in BOOLEAN
    /\ since = 0
    /\ known \in {TRUE} \cup {~LockTimeouts}
    /\ fault = ~known
    /\ Fresh
----------------------------------------------------------------------------
Later(t) == Min({t + 1, MaxWait})

Tick ==
    /\ \A w \in Worker : at[w] # "idle" => age[w] < Slow
    /\ since' = Later(since)
    /\ age' = [w \in Worker |-> IF at[w] = "idle" THEN 0 ELSE age[w] + 1]
    /\ UNCHANGED <<connected, started, known, left, deleted, at, history>>

Leave ==
    /\ connected
    /\ connected' = FALSE
    /\ left' = TRUE
    /\ UNCHANGED <<started, record, deleted, at, age, history>>

APIStarted ==
    /\ ~started
    /\ started' = TRUE
    /\ UNCHANGED <<connected, record, left, deleted, at, age, history>>

Start(w, place) ==
    /\ ~deleted
    /\ at[w] = "idle"
    /\ at' = [at EXCEPT ![w] = place]
    /\ UNCHANGED <<started, record, left, deleted, age, history>>

Change(w) == Start(w, "api") /\ UNCHANGED connected

ClientConnected(w) == ~connected /\ connected' = TRUE /\ Start(w, "init")

Proceed(w, next) ==
    /\ at' = [at EXCEPT ![w] = next]
    /\ age' = IF next = "idle" THEN [age EXCEPT ![w] = 0] ELSE age
    /\ UNCHANGED <<connected, started, left>>

(* NewControllerClientHelperWithApis *)
FindApi(w) ==
    /\ at[w] = "api"
    /\ Proceed(w, IF known /\ started THEN "init" ELSE "nil")
    /\ orphaned' = (orphaned \/ ~(known /\ started))
    /\ fault' = (fault \/ ~started)
    /\ UNCHANGED <<record, deleted>>

(* currentTimeSeconds() becomes the live time. *)
UpdateLiveTime == since' = 0 /\ UNCHANGED known

(* initialize, with an API whose id it stores: the body runs or the named  *)
(* lock has timed out, which matters when there was no id before.          *)
Initialized ==
    \/ since' = 0 /\ known' = TRUE /\ UNCHANGED fault
    \/ LockTimeouts /\ UNCHANGED record /\ fault' = (fault \/ ~known)

initialize(w) ==
    /\ at[w] = "init"
    /\ Initialized
    /\ Proceed(w, "notify")
    /\ UNCHANGED <<deleted, orphaned>>

(* NewControllerClientHelper without an API, to delete the client with.    *)
initializeNil(w) ==
    /\ at[w] = "nil"
    /\ UpdateLiveTime \/ (LockTimeouts /\ UNCHANGED record)
    /\ Proceed(w, "delete")
    /\ UNCHANGED <<deleted, history>>

(* NotifyClient looks the connection up and writes to it later.  The write *)
(* may fail while the client is connected, and succeed when it is not.     *)
Lookup(w) ==
    /\ at[w] = "notify"
    /\ Proceed(w, IF connected THEN "write" ELSE "alive")
    /\ UNCHANGED <<record, deleted, history>>

Write(w) ==
    /\ at[w] = "write"
    /\ \/ UpdateLiveTime /\ Proceed(w, "idle")
       \/ UNCHANGED record /\ Proceed(w, "alive")
    /\ UNCHANGED <<deleted, history>>

(* checkClientLiveTime *)
IsConnected_NotAsked(w) ==
    /\ at[w] = "alive"
    /\ Proceed(w, "time")
    /\ UNCHANGED <<record, deleted, history>>

IsConnected(w) ==
    /\ at[w] = "alive"
    /\ IF connected THEN UpdateLiveTime /\ Proceed(w, "idle")
                    ELSE UNCHANGED record /\ Proceed(w, "time")
    /\ UNCHANGED <<deleted, history>>

TimeSinceLastLiveTime(w) ==
    /\ at[w] = "time"
    /\ Proceed(w, IF since >= MaxWait THEN "delete" ELSE "idle")
    /\ UNCHANGED <<record, deleted, history>>

(* The lists lose the client, and its record goes, unless the lock of that *)
(* times out; without a record the live time reads as 0.                   *)
deleteClient(w) ==
    /\ at[w] = "delete"
    /\ deleted' = TRUE
    /\ \/ known' = FALSE /\ since' = MaxWait
       \/ LockTimeouts /\ UNCHANGED record
    /\ Proceed(w, "idle")
    /\ UNCHANGED history
----------------------------------------------------------------------------
WorkerStep(w) ==
    \/ FindApi(w)
    \/ initialize(w)
    \/ initializeNil(w)
    \/ Lookup(w)
    \/ Write(w)
    \/ IsConnected(w)
    \/ TimeSinceLastLiveTime(w)
    \/ deleteClient(w)

TimeNext ==
    \/ Tick
    \/ Leave
    \/ APIStarted
    \/ \E w \in Worker : Change(w) \/ ClientConnected(w) \/ WorkerStep(w)

TimeSpec == TimeInit /\ [][TimeNext]_timeVars

(* Time passes, goroutines are scheduled, and the observed variables keep  *)
(* changing; the client may come and go.                                   *)
FairTimeSpec ==
    /\ TimeSpec
    /\ WF_timeVars(Tick)
    /\ WF_timeVars(APIStarted)
    /\ \A w \in Worker : WF_timeVars(WorkerStep(w)) /\ WF_timeVars(Change(w))
----------------------------------------------------------------------------
(* A client that never disconnected is deleted only when a change finds no *)
(* API for it, and that happens only after an initialize gave up before    *)
(* any had stored the id of the API, or before APIStarted.  Otherwise it   *)
(* stays, whatever the live time stored last and whatever writes failed.   *)
DeletedHadLeft == deleted => left \/ (orphaned /\ fault)

(* "deletes a client when it has been disconnected for longer than the     *)
(* configured timeout": a client that stays away is deleted at last.       *)
DisconnectedIsDeleted == (<>[]~connected) => <>deleted
============================================================================
