----------------------------- MODULE Observers -----------------------------
(***************************************************************************)
(* Who observes what: observeVar, stopObservingVar, ClientConnected,       *)
(* deleteClient and the notification of one observer, from                 *)
(* sources/controller/controller.go, with the records that                 *)
(* controller_clienthelper.go keeps of the clients.                        *)
(*                                                                         *)
(* Every subscription is kept twice, in the variable's observers and in    *)
(* the client's observing list, under two named locks and in separate      *)
(* steps.  A step here is the body of one NamedLockRun, which may be       *)
(* skipped when its lock times out, or one unlocked access.  Each command  *)
(* and each notification runs in a goroutine of its own, a worker.         *)
(***************************************************************************)
EXTENDS VarObservers, Integers, TLC

CONSTANTS Worker,       \* goroutines
          Var,          \* variables
          NoClient, NoVar,
          Setting       \* what a behaviour may be faced with, records of
                        \*   serial    a client has one command under way at
                        \*             a time, and only unsubscribes from
                        \*             what it subscribed to
                        \*   timeouts  named locks may time out
                        \*   restarts  the server may restart
                        \*   jobs      bound on the commands and
                        \*             notifications started

ASSUME SettingAssumption ==
    Setting \subseteq [serial : BOOLEAN, timeouts : BOOLEAN, restarts : BOOLEAN, jobs : Nat]
ASSUME NoneAssumption == NoClient \notin Client /\ NoVar \notin Var

VARIABLES observers,    \* the observers of each variable
          observing,    \* the observing list of each client
          cnode,        \* clients with a node internal.clients.byId.C
          cidx,         \* the value of that node; the empty string reads 0
          clist,        \* internal.clients.list, by index
          ccount,       \* internal.clients.list.count
          capi,         \* clients with an apiId
          started,      \* the API of the clients is in TheController.apis
          job,          \* what each worker is doing
          jobs,         \* number of jobs started
          env           \* the setting of this behaviour, which never changes

vars == <<observers, observing, cnode, cidx, clist, ccount, capi, started, job, jobs, env>>
clientRecs == <<observing, cnode, cidx, clist, ccount, capi>>

NoJob == [at |-> "idle", c |-> NoClient, v |-> NoVar, m |-> NoMeta, left |-> {}]

Places == {"idle", "obsCheck", "obsInit", "obsRegister", "obsNew", "send",
           "stopRemove", "stopInit", "stopUnregister", "connInit",
           "ntfApi", "ntfInit", "ntfInitNil", "delSnap", "delVars", "delClient"}

TypeOK ==
    /\ \A v \in Var :
         /\ observers[v].list \in Seq(Pair)
         /\ observers[v].ent \subseteq Pair
         /\ observers[v].root \subseteq Client
    /\ observing \in [Client -> Seq(Var)]
    /\ cnode \in SUBSET Client
    /\ cidx \in [Client -> Int]
    /\ Range(clist) \subseteq Client \cup {NoClient}
    /\ ccount \in Int
    /\ capi \in SUBSET Client
    /\ started \in BOOLEAN
    /\ \A w \in Worker : job[w].at \in Places
    /\ jobs \in 0 .. env.jobs
    /\ env \in Setting

Init ==
    /\ observers = [v \in Var |-> NoObservers]
    /\ observing = [c \in Client |-> <<>>]
    /\ cnode = {}
    /\ cidx = [c \in Client |-> 0]
    /\ clist = [i \in {} |-> NoClient]
    /\ ccount = 0
    /\ capi = {}
    /\ started = TRUE
    /\ job = [w \in Worker |-> NoJob]
    /\ jobs = 0
    /\ env \in Setting
----------------------------------------------------------------------------
(* The records of a client; each runs under "db.intenal.clients" but for   *)
(* UpdateLiveTime, which Notify and IsConnected also run by themselves.    *)

(* Storing the live time creates the client's node, without a value. *)
UpdateLiveTime(c) ==
    /\ cnode' = cnode \cup {c}
    /\ UNCHANGED <<observing, cidx, clist, ccount, capi>>

initialize(c, hasApi) ==
    /\ IF c \in cnode
       THEN UNCHANGED <<cidx, clist, ccount>>
       ELSE /\ ccount' = ccount + 1
            /\ clist' = (ccount :> c) @@ clist
            /\ cidx' = [cidx EXCEPT ![c] = ccount]
    /\ capi' = IF hasApi THEN capi \cup {c} ELSE capi
    /\ cnode' = cnode \cup {c}
    /\ UNCHANGED observing

RegisterNewObservation(c, v) ==
    /\ cnode' = cnode \cup {c}
    /\ observing' = [observing EXCEPT ![c] = Append(@, v)]
    /\ UNCHANGED <<cidx, clist, ccount, capi>>

(* The first occurrence of the variable goes. *)
UnregisterObservation_All(c, v) ==
    /\ cnode' = cnode \cup {c}
    /\ observing' = [observing EXCEPT ![c] = Remove(@, v)]
    /\ UNCHANGED <<cidx, clist, ccount, capi>>

UnregisterObservation(c, v) ==
    /\ cnode' = cnode \cup {c}
    /\ observing' = [observing EXCEPT ![c] = RemoveFirst(@, v)]
    /\ UNCHANGED <<cidx, clist, ccount, capi>>

(* The list is closed up from the client's index on; the indexes of the    *)
(* clients that move are not rewritten.                                    *)
RemoveClientFromObservationSystem(c) ==
    /\ IF c \in cnode /\ cidx[c] > -1
       THEN LET moved == cidx[c] .. ccount - 2
                at(i) == IF i \in DOMAIN clist THEN clist[i] ELSE NoClient
            IN  /\ clist' = [i \in (DOMAIN clist \cup moved) \ {ccount - 1} |->
                               IF i \in moved THEN at(i + 1) ELSE at(i)]
                /\ ccount' = ccount - 1
       ELSE UNCHANGED <<clist, ccount>>
    /\ cnode' = cnode \ {c}
    /\ cidx' = [cidx EXCEPT ![c] = 0]
    /\ capi' = capi \ {c}
    /\ observing' = [observing EXCEPT ![c] = <<>>]
----------------------------------------------------------------------------
(* Workers. *)
Busy(c) == \E w \in Worker :
    job[w].c = c /\ job[w].at \notin {"ntfApi", "ntfInit"}

Start(w, at, c, v, m) ==
    /\ job[w] = NoJob
    /\ jobs < env.jobs
    /\ jobs' = jobs + 1
    /\ job' = [job EXCEPT ![w] = [NoJob EXCEPT !.at = at, !.c = c, !.v = v, !.m = m]]
    /\ UNCHANGED <<observers, clientRecs, started, env>>

Goto(w, at) ==
    /\ job' = [job EXCEPT ![w] = IF at = "idle" THEN NoJob ELSE [@ EXCEPT !.at = at]]
    /\ UNCHANGED <<started, jobs, env>>

(* A step that is the body of NamedLockRun: when the lock is not had in    *)
(* time, the caller carries on without it having run.                      *)
Skip(w, at, next) ==
    /\ env.timeouts
    /\ job[w].at = at
    /\ Goto(w, next)
    /\ UNCHANGED <<observers, clientRecs>>

ClientStep(w, at, next, A) ==
    /\ job[w].at = at
    /\ A
    /\ Goto(w, next)
    /\ UNCHANGED observers

SetObservers(w, at, next, v, o) ==
    /\ job[w].at = at
    /\ observers' = [observers EXCEPT ![v] = o]
    /\ Goto(w, next)
    /\ UNCHANGED clientRecs

(* observeVar *)
ObserveVar(w, c, v, m) ==
    /\ env.serial => ~Busy(c)
    /\ Start(w, "obsCheck", c, v, m)

ObserveCheck_Always(w) ==
    /\ job[w].at = "obsCheck"
    /\ Goto(w, "obsInit")
    /\ UNCHANGED <<observers, clientRecs>>

ObserveCheck(w) ==
    /\ job[w].at = "obsCheck"
    /\ Goto(w, IF IsClientObserving(observers[job[w].v], job[w].c, job[w].m)
               THEN "idle" ELSE "obsInit")
    /\ UNCHANGED <<observers, clientRecs>>

ObserveInit(w) ==
    \/ ClientStep(w, "obsInit", "obsRegister", initialize(job[w].c, TRUE))
    \/ Skip(w, "obsInit", "obsRegister")

ObserveRegister(w) ==
    LET j == job[w] IN
    \/ /\ j.v # NoVar
       /\ SetObservers(w, "obsRegister", "obsNew", j.v,
                       RegisterObservation(observers[j.v], j.c, j.m))
    \/ Skip(w, "obsRegister", "obsNew")

ObserveNew(w) ==
    \/ ClientStep(w, "obsNew", "send", RegisterNewObservation(job[w].c, job[w].v))
    \/ Skip(w, "obsNew", "send")

(* Notify: the API delivers and the live time is stored, or it does not    *)
(* and checkClientLiveTime follows.  The job stored the live time when it  *)
(* began, so the check finds the client recently alive, unless the lock    *)
(* for that timed out (module ClientLiveTime).                             *)
Send(w) ==
    \/ ClientStep(w, "send", "idle", UpdateLiveTime(job[w].c))
    \/ ClientStep(w, "send", "idle", UNCHANGED clientRecs)
    \/ Skip(w, "send", "delSnap")

(* stopObservingVar *)
StopObservingVar(w, c, v, m) ==
    /\ env.serial => ~Busy(c) /\ <<c, m>> \in Listed(observers[v])
    /\ Start(w, "stopRemove", c, v, m)

StopRemove(w) ==
    LET j == job[w] IN
    \/ /\ j.v # NoVar
       /\ SetObservers(w, "stopRemove", "stopInit", j.v,
                       internalRemoveObserving(observers[j.v], j.c, j.m))
    \/ Skip(w, "stopRemove", "stopInit")

StopInit(w) ==
    \/ ClientStep(w, "stopInit", "stopUnregister", initialize(job[w].c, TRUE))
    \/ Skip(w, "stopInit", "stopUnregister")

StopUnregister(w) ==
    \/ ClientStep(w, "stopUnregister", "idle", UnregisterObservation(job[w].c, job[w].v))
    \/ Skip(w, "stopUnregister", "idle")

(* ClientConnected, and the values sent to the client after it *)
ClientConnected(w, c) ==
    /\ env.serial => ~Busy(c)
    /\ Start(w, "connInit", c, NoVar, NoMeta)

ConnectInit(w) ==
    \/ ClientStep(w, "connInit", "send", initialize(job[w].c, TRUE))
    \/ Skip(w, "connInit", "send")

(* A change of a variable: a goroutine for an observer in its list *)
NotifyObserver(w, v) == \E e \in Listed(observers[v]) :
    Start(w, "ntfApi", e[1], v, e[2])

NotifyApi(w) ==
    /\ job[w].at = "ntfApi"
    /\ Goto(w, IF started /\ job[w].c \in capi THEN "ntfInit" ELSE "ntfInitNil")
    /\ UNCHANGED <<observers, clientRecs>>

NotifyInit(w) ==
    \/ ClientStep(w, "ntfInit", "send", initialize(job[w].c, TRUE))
    \/ Skip(w, "ntfInit", "send")

NotifyInitNil(w) ==
    \/ ClientStep(w, "ntfInitNil", "delSnap", initialize(job[w].c, FALSE))
    \/ Skip(w, "ntfInitNil", "delSnap")

(* deleteClient: the variables to visit are read without a lock *)
DeleteSnapshot(w) ==
    /\ job[w].at = "delSnap"
    /\ job' = [job EXCEPT ![w].at = "delVars",
                          ![w].left = Range(observing[job[w].c])]
    /\ UNCHANGED <<observers, clientRecs, started, jobs, env>>

DeleteFromVar(w) == \E v \in job[w].left :
    /\ job[w].at = "delVars"
    /\ job' = [job EXCEPT ![w].left = @ \ {v}]
    /\ \/ observers' = [observers EXCEPT
                          ![v] = RemoveAllClientObservations(@, job[w].c)]
       \/ env.timeouts /\ UNCHANGED observers
    /\ UNCHANGED <<clientRecs, started, jobs, env>>

DeleteVarsDone(w) ==
    /\ job[w].at = "delVars"
    /\ job[w].left = {}
    /\ Goto(w, "delClient")
    /\ UNCHANGED <<observers, clientRecs>>

DeleteRecord(w) ==
    \/ ClientStep(w, "delClient", "idle", RemoveClientFromObservationSystem(job[w].c))
    \/ Skip(w, "delClient", "idle")
----------------------------------------------------------------------------
(* The records are in the storage and outlive the process (the storage's   *)
(* own losses are in RamCachedDB); the goroutines and the table of APIs do *)
(* not.                                                                    *)
Restart ==
    /\ env.restarts
    /\ started
    /\ job' = [w \in Worker |-> NoJob]
    /\ started' = FALSE
    /\ UNCHANGED <<observers, clientRecs, jobs, env>>

APIStarted ==
    /\ ~started
    /\ started' = TRUE
    /\ UNCHANGED <<observers, clientRecs, job, jobs, env>>

WorkerStep(w) ==
    \/ ObserveCheck(w)
    \/ ObserveInit(w)
    \/ ObserveRegister(w)
    \/ ObserveNew(w)
    \/ Send(w)
    \/ StopRemove(w)
    \/ StopInit(w)
    \/ StopUnregister(w)
    \/ ConnectInit(w)
    \/ NotifyApi(w)
    \/ NotifyInit(w)
    \/ NotifyInitNil(w)
    \/ DeleteSnapshot(w)
    \/ DeleteFromVar(w)
    \/ DeleteVarsDone(w)
    \/ DeleteRecord(w)

Request(w) == \E c \in Client :
    \/ ClientConnected(w, c)
    \/ \E v \in Var, m \in Meta \cup {NoMeta} :
         ObserveVar(w, c, v, m) \/ StopObservingVar(w, c, v, m)

Next ==
    \/ \E w \in Worker : WorkerStep(w) \/ Request(w) \/ \E v \in Var : NotifyObserver(w, v)
    \/ Restart
    \/ APIStarted

Spec == Init /\ [][Next]_vars
----------------------------------------------------------------------------
Times(s, e) == Cardinality({i \in DOMAIN s : s[i] = e})

Quiet(c) == \A w \in Worker : job[w].c = c => job[w].at \in {"idle", "ntfApi", "ntfInit", "send"}

(* The subscriptions of others than c are the same, and in the same order, *)
(* in the lists s and t: each has its place in t.                          *)
OthersKept(s, t, c) ==
    LET others(l) == {i \in DOMAIN l : l[i][1] # c}
    IN  \E place \in [others(s) -> others(t)] :
          /\ \A i \in others(s) : t[place[i]] = s[i]
          /\ \A i, j \in others(s) : i < j => place[i] < place[j]
          /\ \A k \in others(t) : \E i \in others(s) : place[i] = k

(* A step of a worker takes nobody off an observers list but the client it *)
(* works for, and leaves the others in the order they were in: a shift in  *)
(* the list never costs a bystander its subscription.                      *)
RemovesOnlyOwn == [][\A v \in Var : \E c \in Client \cup {NoClient} :
    /\ OthersKept(observers[v].list, observers'[v].list, c)
    /\ observers'[v] # observers[v] => \E w \in Worker : job[w].c = c]_vars

(* The same subscription is not listed twice, or its client would be       *)
(* notified twice of a change and once more after it unsubscribed.  Like   *)
(* the next two this holds for clients that send one command at a time,    *)
(* when no lock times out and no restart interrupts a command.             *)
Orderly == env.serial /\ ~env.timeouts /\ ~env.restarts

NoDuplicate == Orderly =>
    \A v \in Var : \A e \in Pair : Times(observers[v].list, e) <= 1

(* IsClientObserving finds every subscription that is listed. *)
ListedIsObserving == Orderly =>
    \A v \in Var : \A e \in Listed(observers[v]) :
        IsClientObserving(observers[v], e[1], e[2])

(* Both records of a client's subscriptions agree when it has no command   *)
(* under way: deleteClient visits the variables of one to clean the other, *)
(* and a resumed session is sent the variables of the client's record.     *)
TwoSidesAgree == Orderly => \A c \in Client : Quiet(c) =>
    \A v \in Var :
        Times(observing[c], v) =
        Cardinality({i \in DOMAIN observers[v].list : observers[v].list[i][1] = c})
============================================================================
