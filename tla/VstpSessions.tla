---------------------------- MODULE VstpSessions ---------------------------
(***************************************************************************)
(* The sessions of the VSTP API, sources/services/apis/vstp/vstp.go, on    *)
(* the callbacks of the TCP server, sources/misc/evttcp/server.            *)
(*                                                                         *)
(* A session is a connection and the client id it goes by.  Each           *)
(* connection has a goroutine that runs its callbacks one after another;   *)
(* each line it receives is handled by a goroutine of its own, and so is   *)
(* each notification.  A step is one section under clientsLock or one      *)
(* access without it.  Ids are the ones the server makes up; a client that *)
(* resumes a session claims the id it was given on an earlier connection.  *)
(***************************************************************************)
EXTENDS Naturals, FiniteSets

CONSTANTS Conn,          \* TCP connections
          NoConn, NoId,
          Worker,        \* goroutines of lines and notifications
          Setting        \* what a behaviour may be faced with, records of
                         \*   startup    connections may come before NewVSTP
                         \*              returns
                         \*   overlap    an id may be claimed while the server
                         \*              still works for another connection
                         \*              that has it
                         \*   pipelines  a client may send a line before the
                         \*              answer to the last
                         \*   abrupt     a connection may close while its
                         \*              lines are handled
                         \*   jobs       bound on the goroutines started

ASSUME SettingAssumption ==
    Setting \subseteq [startup : BOOLEAN, overlap : BOOLEAN, pipelines : BOOLEAN,
                      abrupt : BOOLEAN, jobs : Nat]

(* The id suggested to a connection, and the one a subscribe makes up for  *)
(* a connection it does not find.                                          *)
Id == {"uid", "late"} \X Conn

Uid(c) == <<"uid", c>>

LateId(c) == <<"late", c>>

ASSUME NoneAssumption == NoConn \notin Conn /\ NoId \notin Id

VARIABLES hooks,      \* steps of NewVSTP taken: the three callbacks, APIStarted
          phase,      \* what the goroutine of each connection is at
          clientsById,
          clientsByTcpCli,
          buffered,   \* connections with an entry in incomingDataBuffer
          unseen,     \* connections accepted with no connect callback to run
          stuck,      \* clientsLock is held by a goroutine that waits for it
          observed,   \* ids with a subscription in the controller
          asked,      \* the id each connection last asked for
          job,        \* what each worker is doing
          jobs,       \* number of jobs started
          env         \* the setting of this behaviour, which never changes

maps == <<clientsById, clientsByTcpCli>>
buffers == <<buffered, unseen>>
vars == <<hooks, phase, maps, buffers, stuck, observed, asked, job, jobs, env>>

NoJob == [at |-> "idle", c |-> NoConn, id |-> NoId]

Phases == {"none", "accepted", "serving", "hung", "closing", "gone"}

Places == {"idle", "setid", "connected", "subscribe", "observe", "unsubscribe",
           "unobserve", "notify", "write"}

TypeOK ==
    /\ hooks \in 0 .. 4
    /\ phase \in [Conn -> Phases]
    /\ clientsById \in [Id -> Conn \cup {NoConn}]
    /\ clientsByTcpCli \in [Conn -> Id \cup {NoId}]
    /\ buffered \in SUBSET Conn
    /\ unseen \in SUBSET Conn
    /\ stuck \in BOOLEAN
    /\ observed \in SUBSET Id
    /\ asked \in [Conn -> Id]
    /\ job \in [Worker -> [at : Places, c : Conn \cup {NoConn}, id : Id \cup {NoId}]]
    /\ jobs \in 0 .. env.jobs
    /\ env \in Setting

Init ==
    /\ hooks = 0
    /\ phase = [c \in Conn |-> "none"]
    /\ clientsById = [i \in Id |-> NoConn]
    /\ clientsByTcpCli = [c \in Conn |-> NoId]
    /\ buffered = {}
    /\ unseen = {}
    /\ stuck = FALSE
    /\ observed = {}
    /\ asked = [c \in Conn |-> Uid(c)]
    /\ job = [w \in Worker |-> NoJob]
    /\ jobs = 0
    /\ env \in Setting
----------------------------------------------------------------------------
(* The server listens before NewVSTP sets the connect, disconnect and data *)
(* callbacks and registers the API with the controller, in this order.     *)
NewVSTP ==
    /\ hooks < 4
    /\ hooks' = hooks + 1
    /\ UNCHANGED <<phase, maps, buffers, stuck, observed, asked, job, jobs, env>>

Accept(c) ==
    /\ phase[c] = "none"
    /\ env.startup \/ hooks = 4
    /\ phase' = [phase EXCEPT ![c] = "accepted"]
    /\ UNCHANGED <<hooks, maps, buffers, stuck, observed, asked, job, jobs, env>>

(* The connect callback, or nothing while it is not set. *)
OnClientConnect_NoBuffer(c) ==
    /\ phase[c] = "accepted"
    /\ phase' = [phase EXCEPT ![c] = "serving"]
    /\ IF hooks >= 1
       THEN /\ ~stuck
            /\ clientsById' = [clientsById EXCEPT ![Uid(c)] = c]
            /\ clientsByTcpCli' = [clientsByTcpCli EXCEPT ![c] = Uid(c)]
            /\ UNCHANGED unseen
       ELSE unseen' = unseen \cup {c} /\ UNCHANGED maps
    /\ UNCHANGED <<hooks, buffered, stuck, observed, asked, job, jobs, env>>

OnClientConnect(c) ==
    /\ phase[c] = "accepted"
    /\ phase' = [phase EXCEPT ![c] = "serving"]
    /\ IF hooks >= 1
       THEN /\ ~stuck
            /\ clientsById' = [clientsById EXCEPT ![Uid(c)] = c]
            /\ clientsByTcpCli' = [clientsByTcpCli EXCEPT ![c] = Uid(c)]
            /\ buffered' = buffered \cup {c}
            /\ UNCHANGED unseen
       ELSE unseen' = unseen \cup {c} /\ UNCHANGED <<maps, buffered>>
    /\ UNCHANGED <<hooks, stuck, observed, asked, job, jobs, env>>

(* The read loop ends when the peer closes or is given up. *)
Close(c) ==
    /\ phase[c] = "serving"
    /\ ~env.abrupt => \A w \in Worker : job[w].c # c
    /\ phase' = [phase EXCEPT ![c] = "closing"]
    /\ UNCHANGED <<hooks, maps, buffers, stuck, observed, asked, job, jobs, env>>

(* The disconnect callback: the id of the connection is forgotten, whoever *)
(* has it by now; without an id, one of the ids that lead here.            *)
Forget_ByConnOnly(c) ==
    /\ clientsByTcpCli' = [clientsByTcpCli EXCEPT ![c] = NoId]
    /\ UNCHANGED clientsById

Forget(c) ==
    LET id == clientsByTcpCli[c]
        found == {i \in Id : clientsById[i] = c}
    IN  /\ clientsByTcpCli' = [clientsByTcpCli EXCEPT ![c] = NoId]
        /\ \/ /\ id # NoId
              /\ clientsById' = [clientsById EXCEPT ![id] = NoConn]
           \/ /\ id = NoId
              /\ found = {}
              /\ UNCHANGED clientsById
           \/ /\ id = NoId
              /\ \E i \in found : clientsById' = [clientsById EXCEPT ![i] = NoConn]

OnClientDisconnect(c) ==
    /\ phase[c] = "closing"
    /\ phase' = [phase EXCEPT ![c] = "gone"]
    /\ IF hooks >= 2
       THEN ~stuck /\ Forget(c) /\ buffered' = buffered \ {c}
       ELSE UNCHANGED <<maps, buffered>>
    /\ UNCHANGED <<hooks, unseen, stuck, observed, asked, job, jobs, env>>
----------------------------------------------------------------------------
Start(w, at, c, id) ==
    /\ job[w] = NoJob
    /\ jobs < env.jobs
    /\ jobs' = jobs + 1
    /\ job' = [job EXCEPT ![w] = [at |-> at, c |-> c, id |-> id]]

(* What the clients are assumed to do. *)
MaySend(c) == env.pipelines \/ \A w \in Worker : job[w].c # c

Claimable(c, id) ==
    \/ id = Uid(c)
    \/ \E d \in Conn : id = Uid(d) /\ phase[d] # "none"

Done(d) == phase[d] = "gone" /\ \A w \in Worker : job[w].c # d

MayClaim(c, id) ==
    /\ Claimable(c, id)
    /\ env.overlap \/ \A d \in Conn \ {c} :
         (id \in {Uid(d), asked[d], clientsByTcpCli[d]}) => Done(d)

(* The data callback for a connection it knows: a goroutine for the line. *)
OnClientData(w, c, at, id) ==
    /\ phase[c] = "serving"
    /\ hooks >= 3
    /\ c \in buffered
    /\ ~stuck
    /\ MaySend(c)
    /\ Start(w, at, c, id)
    /\ UNCHANGED <<hooks, phase, maps, buffers, stuck, observed, env>>

SetIdLine(w, c, id) ==
    /\ MayClaim(c, id)
    /\ OnClientData(w, c, "setid", id)
    /\ asked' = [asked EXCEPT ![c] = id]

Line(w, c, at) ==
    /\ OnClientData(w, c, at, NoId)
    /\ UNCHANGED asked

(* For a connection it does not know it takes clientsLock, makes the       *)
(* buffer and takes clientsLock again; the lock is not reentrant, so the   *)
(* connection's goroutine hangs and what follows is never reached.         *)
OnUnknownClientData(c) ==
    /\ phase[c] = "serving"
    /\ hooks >= 3
    /\ c \notin buffered
    /\ ~stuck
    /\ buffered' = buffered \cup {c}
    /\ stuck' = TRUE
    /\ phase' = [phase EXCEPT ![c] = "hung"]
    /\ UNCHANGED <<hooks, maps, unseen, observed, asked, job, jobs, env>>
----------------------------------------------------------------------------
(* processReceivedMessage, the commands that use the session. *)
Goto(w, at, id) ==
    job' = [job EXCEPT ![w] = IF at = "idle" THEN NoJob ELSE [@ EXCEPT !.at = at, !.id = id]]

Claim_DeletesLast(c, newId) ==
    /\ clientsById' = [i \in Id |->
         CASE i = clientsByTcpCli[c] -> NoConn
           [] i = newId /\ i # clientsByTcpCli[c] -> c
           [] OTHER -> clientsById[i]]
    /\ clientsByTcpCli' = [clientsByTcpCli EXCEPT ![c] = newId]

Claim_ByIdOnly(c, newId) ==
    /\ clientsById' = [clientsById EXCEPT ![newId] = c]
    /\ UNCHANGED clientsByTcpCli

(* setid: the connection's old id goes, then the new one leads to it. *)
Claim(c, newId) ==
    /\ clientsById' = [i \in Id |->
         CASE i = newId -> c
           [] i = clientsByTcpCli[c] /\ i # newId -> NoConn
           [] OTHER -> clientsById[i]]
    /\ clientsByTcpCli' = [clientsByTcpCli EXCEPT ![c] = newId]

SetId(w) ==
    /\ job[w].at = "setid"
    /\ ~stuck
    /\ Claim(job[w].c, job[w].id)
    /\ Goto(w, "connected", job[w].id)
    /\ UNCHANGED <<hooks, phase, buffers, stuck, observed, asked, jobs, env>>

(* ClientConnected and the answer; the values of an id with subscriptions  *)
(* are sent by a goroutine, like those of any change.                      *)
AnswerSetId(w) ==
    /\ job[w].at = "connected"
    /\ IF job[w].id \in observed
       THEN job' = [job EXCEPT ![w].at = "notify", ![w].c = NoConn]
       ELSE Goto(w, "idle", NoId)
    /\ UNCHANGED <<hooks, phase, maps, buffers, stuck, observed, asked, jobs, env>>

(* The id of the connection, made up and stored when there is none. *)
Subscribe(w) ==
    LET c == job[w].c IN
    /\ job[w].at = "subscribe"
    /\ ~stuck
    /\ IF clientsByTcpCli[c] # NoId
       THEN Goto(w, "observe", clientsByTcpCli[c]) /\ UNCHANGED maps
       ELSE /\ Goto(w, "observe", LateId(c))
            /\ clientsById' = [clientsById EXCEPT ![LateId(c)] = c]
            /\ clientsByTcpCli' = [clientsByTcpCli EXCEPT ![c] = LateId(c)]
    /\ UNCHANGED <<hooks, phase, buffers, stuck, observed, asked, jobs, env>>

(* ObserveVar registers the id and notifies it of the current value. *)
Observe(w) ==
    /\ job[w].at = "observe"
    /\ observed' = observed \cup {job[w].id}
    /\ Goto(w, "notify", job[w].id)
    /\ UNCHANGED <<hooks, phase, maps, buffers, stuck, asked, jobs, env>>

(* A connection without an id gets no answer. *)
Unsubscribe(w) ==
    LET id == clientsByTcpCli[job[w].c] IN
    /\ job[w].at = "unsubscribe"
    /\ ~stuck
    /\ IF id # NoId THEN Goto(w, "unobserve", id) ELSE Goto(w, "idle", NoId)
    /\ UNCHANGED <<hooks, phase, maps, buffers, stuck, observed, asked, jobs, env>>

StopObserving(w) ==
    /\ job[w].at = "unobserve"
    /\ observed' = observed \ {job[w].id}
    /\ Goto(w, "idle", NoId)
    /\ UNCHANGED <<hooks, phase, maps, buffers, stuck, asked, jobs, env>>

(* A change of an observed variable. *)
Change(w, id) ==
    /\ id \in observed
    /\ Start(w, "notify", NoConn, id)
    /\ UNCHANGED <<hooks, phase, maps, buffers, stuck, observed, asked, env>>

(* NotifyClient: the connection is looked up, then written to; CheckAlive, *)
(* which follows a failure, is the same look-up.                           *)
NotifyClient(w) ==
    /\ job[w].at = "notify"
    /\ ~stuck
    /\ IF clientsById[job[w].id] = NoConn THEN Goto(w, "idle", NoId)
                                          ELSE Goto(w, "write", job[w].id)
    /\ UNCHANGED <<hooks, phase, maps, buffers, stuck, observed, asked, jobs, env>>

Write(w) ==
    /\ job[w].at = "write"
    /\ Goto(w, "idle", NoId)
    /\ UNCHANGED <<hooks, phase, maps, buffers, stuck, observed, asked, jobs, env>>
----------------------------------------------------------------------------
JobStep(w) ==
    \/ SetId(w)
    \/ AnswerSetId(w)
    \/ Subscribe(w)
    \/ Observe(w)
    \/ Unsubscribe(w)
    \/ StopObserving(w)
    \/ NotifyClient(w)
    \/ Write(w)

Receive(w, c) ==
    \/ \E id \in Id : SetIdLine(w, c, id)
    \/ Line(w, c, "subscribe")
    \/ Line(w, c, "unsubscribe")

Next ==
    \/ NewVSTP
    \/ \E c \in Conn :
         \/ Accept(c)
         \/ OnClientConnect(c)
         \/ OnUnknownClientData(c)
         \/ Close(c)
         \/ OnClientDisconnect(c)
    \/ \E w \in Worker :
         \/ JobStep(w)
         \/ \E c \in Conn : Receive(w, c)
         \/ \E id \in Id : Change(w, id)

Spec == Init /\ [][Next]_vars
----------------------------------------------------------------------------
(* Clients as docs/VSTP.md has them: they wait for answers, close when all *)
(* is answered, and resume a session when the server has seen its end.     *)
Patient == ~env.overlap /\ ~env.pipelines /\ ~env.abrupt

(* A connection of such clients that is being served can be found by the   *)
(* id it goes by: a notification for that id comes to it and to no other.  *)
Reachable == Patient => \A c \in Conn :
    phase[c] = "serving" /\ clientsByTcpCli[c] # NoId => clientsById[clientsByTcpCli[c]] = c

(* What such a client subscribes to is filed under the id it last asked    *)
(* for, which is the one it will resume with.                              *)
FiledUnderClaim == Patient => \A w \in Worker :
    job[w].at \in {"observe", "unobserve"} => job[w].id = asked[job[w].c]

(* A connection whose lines are handled and whose disconnect callback ran  *)
(* is in no map, so that CheckAlive does not take its client for alive.    *)
GoneIsForgotten == Patient /\ ~env.startup => \A c \in Conn : Done(c) =>
    /\ clientsByTcpCli[c] = NoId
    /\ c \notin {clientsById[i] : i \in Id} \cup buffered

(* Data that no connect callback announced hangs the API for all its       *)
(* clients, whenever it comes.  Nothing else does: a connection that has   *)
(* been announced has its buffer as long as it is read, however hurried    *)
(* the clients are, and is never the one that takes clientsLock twice.     *)
OnlyUnseenHangs ==
    /\ stuck => \E c \in Conn : phase[c] = "hung"
    /\ \A c \in Conn : phase[c] = "hung" => c \in unseen

(* "On reconnection, use setid with your previous ID to restore            *)
(* subscriptions": once a connection has an id, only another claim of it   *)
(* takes it away, and not the end of the connection that had it before.    *)
ResumedStaysReachable == [][\A c \in Conn : \A i \in Id :
    /\ clientsById[i] = c /\ clientsByTcpCli[c] = i /\ clientsByTcpCli'[c] = i
    /\ phase[c] = "serving" /\ phase'[c] = "serving"
    => clientsById'[i] # NoConn]_vars
============================================================================
