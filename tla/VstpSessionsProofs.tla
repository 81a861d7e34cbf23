------------------------ MODULE VstpSessionsProofs -------------------------
(***************************************************************************)
(* The sessions of VSTP for any number of connections and goroutines: what *)
(* patient clients can rely on, and which connections can hang the API.    *)
(***************************************************************************)
EXTENDS VstpSessions, TLAPS

LineSteps == {"setid", "connected", "subscribe", "observe", "unsubscribe", "unobserve"}

Open == {"serving", "hung", "closing"}

(* A job for a line knows its connection, and its id once it needs one. *)
JobsTyped == \A w \in Worker :
    /\ job[w].at \in LineSteps => job[w].c \in Conn
    /\ job[w].at \notin {"idle", "subscribe", "unsubscribe"} => job[w].id \in Id

(* A connection that was announced has its buffer as long as it is served, *)
(* so that no data callback misses it; without connections before NewVSTP  *)
(* returns, all of them are announced, and forgotten.                      *)
Started ==
    /\ OnlyUnseenHangs
    /\ \A c \in Conn : phase[c] \in Open /\ c \notin unseen => c \in buffered
    /\ ~env.startup => \A c \in Conn : phase[c] # "none" => hooks = 4

(* The lines of a patient client are handled one by one, while it is       *)
(* served.                                                                 *)
OneByOne ==
    /\ \A w \in Worker : job[w].c # NoConn =>
         phase[job[w].c] = "serving" /\ job[w].c \in buffered
    /\ \A v, w \in Worker : v # w /\ job[w].c # NoConn => job[v].c # job[w].c

(* A connection is in the maps under one id from its connect callback on. *)
OneId ==
    /\ \A c \in Conn : phase[c] \in {"none", "accepted"} =>
         clientsByTcpCli[c] = NoId /\ asked[c] = Uid(c) /\ c \notin buffered
    /\ \A c \in Conn : phase[c] \in {"serving", "closing"} /\ c \in buffered =>
         clientsByTcpCli[c] # NoId
    /\ \A i \in Id : \A c \in Conn : clientsById[i] = c => clientsByTcpCli[c] = i
    /\ \A c \in Conn : phase[c] \in Open /\ clientsByTcpCli[c] # NoId =>
         clientsById[clientsByTcpCli[c]] = c

(* The id of a connection is taken by another only after its end, which    *)
(* nothing undoes; a claim that is under way is the only one of its id.    *)
OneClaim ==
    /\ \A c, d \in Conn : c # d /\ Uid(c) \in {asked[d], clientsByTcpCli[d]} => Done(c)
    /\ \A w \in Worker : job[w].at = "setid" =>
         /\ job[w].id = asked[job[w].c]
         /\ \E c \in Conn : job[w].id = Uid(c)
         /\ \A d \in Conn \ {job[w].c} :
              job[w].id \in {Uid(d), asked[d], clientsByTcpCli[d]} => Done(d)

(* Between claims a connection goes by the id it asked for. *)
Agreed == \A c \in Conn : phase[c] = "serving" /\ clientsByTcpCli[c] # NoId =>
    \/ clientsByTcpCli[c] = asked[c]
    \/ \E w \in Worker : job[w].at = "setid" /\ job[w].c = c

Filed == \A w \in Worker :
    job[w].at \in {"observe", "unobserve"} => job[w].id = asked[job[w].c]

(* The disconnect callback, once it is set, leaves nothing behind. *)
Forgotten == ~env.startup => \A c \in Conn : phase[c] = "gone" =>
    clientsByTcpCli[c] = NoId /\ c \notin buffered

PatientInv == OneByOne /\ OneId /\ OneClaim /\ Agreed /\ Filed /\ Forgotten

SessionInv == TypeOK /\ JobsTyped /\ Started /\ (Patient => PatientInv)
----------------------------------------------------------------------------
LEMMA IdFacts ==
    /\ \A c \in Conn : Uid(c) \in Id /\ LateId(c) \in Id /\ c # NoConn
    /\ \A c, d \in Conn : Uid(c) # LateId(d)
    /\ \A c, d \in Conn : Uid(c) = Uid(d) => c = d
    /\ NoId \notin Id
BY NoneAssumption DEF Id, Uid, LateId

LEMMA SessionInit == Init => SessionInv
<1> SUFFICES ASSUME Init PROVE SessionInv
    OBVIOUS
<1> USE IdFacts, NoneAssumption
<1>1. ~stuck /\ stuck \in BOOLEAN
    BY Zenon DEF Init
<1>2. env.jobs \in Nat
    BY SettingAssumption DEF Init
<1>3. \A w \in Worker : job[w] = NoJob
    BY DEF Init
<1>4. TypeOK
    BY <1>1, <1>2 DEF Init, TypeOK, NoJob, Phases, Places
<1>5. JobsTyped /\ Started
    BY <1>1, <1>3 DEF Init, NoJob, JobsTyped, Started, OnlyUnseenHangs, LineSteps, Open
<1>6. PatientInv
  <2>1. OneByOne /\ Filed /\ Forgotten /\ Agreed
      BY <1>3 DEF Init, NoJob, OneByOne, Filed, Forgotten, Agreed
  <2>2. OneId
      BY DEF Init, OneId, Open
  <2>3. OneClaim
      BY <1>3 DEF Init, NoJob, OneClaim
  <2> QED BY <2>1, <2>2, <2>3 DEF PatientInv
<1> QED BY <1>4, <1>5, <1>6 DEF SessionInv

(* The callbacks of a connection, in the order of its life. *)
LEMMA NewVSTPStep == ASSUME SessionInv, NewVSTP PROVE SessionInv'
<1> USE DEF NewVSTP, maps, buffers, SessionInv
<1>1. TypeOK' /\ JobsTyped' /\ Started'
    BY DEF TypeOK, JobsTyped, Started, OnlyUnseenHangs
<1>2. Patient => PatientInv'
    BY DEF PatientInv, OneByOne, OneId, OneClaim, Agreed, Filed, Forgotten, Done
<1> QED BY <1>1, <1>2 DEF Patient

LEMMA AcceptStep == ASSUME SessionInv, NEW c \in Conn, Accept(c) PROVE SessionInv'
<1> USE DEF Accept, maps, buffers, SessionInv
<1>1. TypeOK' /\ JobsTyped' /\ Started'
    BY DEF TypeOK, JobsTyped, Started, OnlyUnseenHangs, Phases, Open
<1>2. ASSUME Patient PROVE PatientInv'
  <2> USE <1>2 DEF PatientInv, TypeOK
  <2>1. OneByOne' /\ Agreed' /\ Filed' /\ Forgotten'
      BY DEF OneByOne, Agreed, Filed, Forgotten
  <2>2. OneId'
      BY DEF OneId, Open
  <2>3. OneClaim'
      BY DEF OneClaim, Done
  <2> QED BY <2>1, <2>2, <2>3
<1> QED BY <1>1, <1>2 DEF Patient

LEMMA ConnectStep == ASSUME SessionInv, NEW c \in Conn, OnClientConnect(c) PROVE SessionInv'
<1> USE IdFacts DEF OnClientConnect, maps, buffers, SessionInv
<1>1. TypeOK' /\ JobsTyped' /\ Started'
    BY DEF TypeOK, JobsTyped, Started, OnlyUnseenHangs, Phases, Open
<1>2. ASSUME Patient PROVE PatientInv'
  <2> USE <1>2 DEF PatientInv, TypeOK
  <2>1. OneByOne' /\ Agreed' /\ Filed' /\ Forgotten'
      BY DEF OneByOne, OneId, Agreed, Filed, Forgotten
(* No other connection goes by the id of one that has not ended. *)
  <2>2. OneId'
      BY SMTT(20) DEF OneId, OneClaim, Done, Open
  <2>3. OneClaim'
      BY DEF OneClaim, Done
  <2> QED BY <2>1, <2>2, <2>3
<1> QED BY <1>1, <1>2 DEF Patient

LEMMA CloseStep == ASSUME SessionInv, NEW c \in Conn, Close(c) PROVE SessionInv'
<1> USE DEF Close, maps, buffers, SessionInv
<1>1. TypeOK' /\ JobsTyped' /\ Started'
    BY DEF TypeOK, JobsTyped, Started, OnlyUnseenHangs, Phases, Open
<1>2. ASSUME Patient PROVE PatientInv'
  <2> USE <1>2 DEF PatientInv, TypeOK, Patient
  <2>1. OneByOne' /\ Agreed' /\ Filed' /\ Forgotten'
      BY DEF OneByOne, Agreed, Filed, Forgotten
  <2>2. OneId'
      BY DEF OneId, Open
  <2>3. OneClaim'
      BY DEF OneClaim, Done
  <2> QED BY <2>1, <2>2, <2>3
<1> QED BY <1>1, <1>2 DEF Patient

LEMMA UnknownDataStep ==
    ASSUME SessionInv, NEW c \in Conn, OnUnknownClientData(c) PROVE SessionInv'
<1> USE DEF OnUnknownClientData, maps, buffers, SessionInv
<1>1. TypeOK' /\ JobsTyped' /\ Started'
    BY DEF TypeOK, JobsTyped, Started, OnlyUnseenHangs, Phases, Open
<1>2. ASSUME Patient PROVE PatientInv'
  <2> USE <1>2 DEF PatientInv, TypeOK
  <2>1. OneByOne' /\ Agreed' /\ Filed' /\ Forgotten'
      BY DEF OneByOne, Agreed, Filed, Forgotten
  <2>2. OneId'
      BY DEF OneId, Open
  <2>3. OneClaim'
      BY DEF OneClaim, Done
  <2> QED BY <2>1, <2>2, <2>3
<1> QED BY <1>1, <1>2 DEF Patient

LEMMA DisconnectStep ==
    ASSUME SessionInv, NEW c \in Conn, OnClientDisconnect(c) PROVE SessionInv'
<1> USE IdFacts DEF OnClientDisconnect, Forget, maps, buffers, SessionInv
<1>1. TypeOK'
    BY NoneAssumption DEF TypeOK, Phases
<1>2. JobsTyped' /\ Started'
    BY DEF TypeOK, JobsTyped, Started, OnlyUnseenHangs, Open
<1>3. ASSUME Patient PROVE PatientInv'
  <2> USE <1>3 DEF PatientInv, TypeOK
  <2>1. OneByOne' /\ Agreed' /\ Filed'
      BY DEF OneByOne, Agreed, Filed
  <2>2. Forgotten'
      BY DEF Forgotten, Started
(* What is forgotten is the id of this connection and of no other. *)
  <2>3. OneId'
      BY DEF OneId, Open
  <2>4. OneClaim'
      BY DEF OneClaim, Done
  <2> QED BY <2>1, <2>2, <2>3, <2>4
<1> QED BY <1>1, <1>2, <1>3 DEF Patient
----------------------------------------------------------------------------
(* Lines and changes start a job; the claim of a patient client is the     *)
(* only one of its id.                                                     *)
LEMMA SetIdLineStep ==
    ASSUME SessionInv, NEW w \in Worker, NEW c \in Conn, NEW id \in Id,
           SetIdLine(w, c, id)
    PROVE  SessionInv'
<1> USE IdFacts DEF SetIdLine, OnClientData, Start, maps, buffers, SessionInv
<1>1. env.jobs \in Nat
    BY SettingAssumption DEF TypeOK
<1>2. TypeOK'
    BY <1>1 DEF TypeOK, Places
<1>3. JobsTyped' /\ Started'
    BY DEF TypeOK, JobsTyped, Started, OnlyUnseenHangs, LineSteps, Open
<1>4. ASSUME Patient PROVE PatientInv'
  <2> USE <1>4 DEF PatientInv, TypeOK, NoJob, Patient, MaySend, MayClaim, Claimable
  <2>1. OneByOne' /\ Agreed' /\ Filed' /\ Forgotten' /\ OneId'
      BY DEF OneByOne, Agreed, Filed, Forgotten, OneId, Open
  <2>2. job[w].c # c /\ \A v \in Worker \ {w} : job'[v] = job[v] /\ job[v].c # c
      BY DEF OneByOne
  <2>3. \A d \in Conn \ {c} : Done(d) => Done(d)'
      BY DEF Done
  <2>4. \A d, e \in Conn : d # e /\ Uid(d) \in {asked'[e], clientsByTcpCli'[e]} => Done(d)'
      BY <2>2, <2>3 DEF OneClaim, Done
  <2>5. ASSUME NEW v \in Worker, job'[v].at = "setid"
        PROVE  /\ job'[v].id = asked'[job'[v].c]
               /\ \E x \in Conn : job'[v].id = Uid(x)
               /\ \A d \in Conn \ {job'[v].c} :
                    job'[v].id \in {Uid(d), asked'[d], clientsByTcpCli'[d]} => Done(d)'
    <3>1. CASE v = w
        BY <2>3, <3>1
    <3>2. CASE v # w
      <4>1. job'[v] = job[v] /\ job[v].c \in Conn /\ job[v].c # c
          BY <2>2, <2>5, <3>2 DEF JobsTyped, LineSteps
(* Two claims of one id: the first of them would have ended. *)
      <4>2. asked[job[v].c] # id
          BY <4>1 DEF Done
      <4> QED BY <2>2, <2>3, <2>5, <4>1, <4>2 DEF OneClaim, Done
    <3> QED BY <3>1, <3>2
  <2>6. OneClaim'
      BY <2>4, <2>5 DEF OneClaim
  <2> QED BY <2>1, <2>6
<1> QED BY <1>2, <1>3, <1>4 DEF Patient

LEMMA LineStep ==
    ASSUME SessionInv, NEW w \in Worker, NEW c \in Conn,
           NEW at \in {"subscribe", "unsubscribe"}, Line(w, c, at)
    PROVE  SessionInv'
<1> USE IdFacts DEF Line, OnClientData, Start, maps, buffers, SessionInv
<1>1. env.jobs \in Nat
    BY SettingAssumption DEF TypeOK
<1>2. TypeOK'
    BY <1>1 DEF TypeOK, Places
<1>3. JobsTyped' /\ Started'
    BY DEF TypeOK, JobsTyped, Started, OnlyUnseenHangs, LineSteps, Open
<1>4. ASSUME Patient PROVE PatientInv'
  <2> USE <1>4 DEF PatientInv, TypeOK, NoJob, Patient, MaySend
  <2>1. OneByOne' /\ Agreed' /\ Filed' /\ Forgotten' /\ OneId'
      BY DEF OneByOne, Agreed, Filed, Forgotten, OneId, Open
  <2>2. \A d \in Conn : Done(d) => Done(d)'
      BY DEF Done
  <2>3. OneClaim'
      BY <2>2 DEF OneClaim
  <2> QED BY <2>1, <2>3
<1> QED BY <1>2, <1>3, <1>4 DEF Patient

LEMMA ChangeStep ==
    ASSUME SessionInv, NEW w \in Worker, NEW id \in Id, Change(w, id)
    PROVE  SessionInv'
<1> USE IdFacts DEF Change, Start, maps, buffers, SessionInv
<1>1. env.jobs \in Nat
    BY SettingAssumption DEF TypeOK
<1>2. TypeOK'
    BY <1>1 DEF TypeOK, Places
<1>3. JobsTyped' /\ Started'
    BY DEF TypeOK, JobsTyped, Started, OnlyUnseenHangs, LineSteps, Open
<1>4. ASSUME Patient PROVE PatientInv'
  <2> USE <1>4 DEF PatientInv, TypeOK, NoJob
  <2>1. OneByOne' /\ Agreed' /\ Filed' /\ Forgotten' /\ OneId'
      BY DEF OneByOne, Agreed, Filed, Forgotten, OneId, Open
  <2>2. \A d \in Conn : Done(d) => Done(d)'
      BY DEF Done
  <2>3. OneClaim'
      BY <2>2 DEF OneClaim
  <2> QED BY <2>1, <2>3
<1> QED BY <1>2, <1>3, <1>4 DEF Patient

LEMMA JobFields ==
    ASSUME NEW r \in [at : Places, c : Conn \cup {NoConn}, id : Id \cup {NoId}]
    PROVE  r = [at |-> r.at, c |-> r.c, id |-> r.id]
OBVIOUS

(* What a worker is at after a step of its job. *)
LEMMA GotoJob ==
    ASSUME TypeOK, NEW w \in Worker, NEW at \in Places \ {"idle"},
           NEW id \in Id \cup {NoId}, Goto(w, at, id)
    PROVE  job' = [job EXCEPT ![w] = [at |-> at, c |-> job[w].c, id |-> id]]
<1>1. job[w] \in [at : Places, c : Conn \cup {NoConn}, id : Id \cup {NoId}]
    BY DEF TypeOK
<1> DEFINE r == [job[w] EXCEPT !.at = at, !.id = id]
<1>2. /\ r \in [at : Places, c : Conn \cup {NoConn}, id : Id \cup {NoId}]
      /\ r.at = at /\ r.c = job[w].c /\ r.id = id
    BY <1>1
<1> HIDE DEF r
<1>3. r = [at |-> r.at, c |-> r.c, id |-> r.id]
    BY <1>2, JobFields
<1> QED BY <1>2, <1>3 DEF Goto, r

LEMMA GotoIdle ==
    ASSUME NEW w \in Worker, NEW id, Goto(w, "idle", id)
    PROVE  job' = [job EXCEPT ![w] = NoJob]
BY DEF Goto

(* setid: the claim of OneClaim is carried out. *)
LEMMA SetIdStep == ASSUME SessionInv, NEW w \in Worker, SetId(w) PROVE SessionInv'
<1> DEFINE c == job[w].c
           id == job[w].id
<1> USE IdFacts DEF SetId, Claim, maps, buffers, SessionInv
<1>1. c \in Conn /\ id \in Id
    BY DEF JobsTyped, LineSteps
<1>a. job' = [job EXCEPT ![w] = [at |-> "connected", c |-> c, id |-> id]]
  <2>1. Goto(w, "connected", id) /\ "connected" \in Places \ {"idle"}
      BY DEF Places
  <2> QED BY <1>1, <2>1, GotoJob
<1> USE <1>a
<1>2. TypeOK'
  <2>1. clientsById' \in [Id -> Conn \cup {NoConn}]
      BY <1>1 DEF TypeOK
  <2>2. clientsByTcpCli' \in [Conn -> Id \cup {NoId}]
      BY <1>1 DEF TypeOK
  <2>3. job' \in [Worker -> [at : Places, c : Conn \cup {NoConn}, id : Id \cup {NoId}]]
      BY <1>1 DEF TypeOK, Places
  <2> QED BY <2>1, <2>2, <2>3 DEF TypeOK
<1>3. JobsTyped' /\ Started'
    BY <1>1 DEF TypeOK, JobsTyped, Started, OnlyUnseenHangs, LineSteps, Open
<1>4. ASSUME Patient PROVE PatientInv'
  <2> USE <1>1, <1>4 DEF PatientInv, TypeOK
  <2>1. OneByOne' /\ Filed' /\ Forgotten'
      BY DEF OneByOne, Filed, Forgotten
  <2>2. phase[c] = "serving" /\ id = asked[c] /\ \A d \in Conn : Done(d) => Done(d)'
      BY DEF OneByOne, OneClaim, Done
  <2>3. \A d \in Conn \ {c} : id \in {Uid(d), asked[d], clientsByTcpCli[d]} => Done(d)
      BY DEF OneClaim
  <2>4. OneId'
      BY <2>2, <2>3 DEF OneId, Open, Done
  <2>5. OneClaim'
      BY <2>2, <2>3 DEF OneClaim, OneByOne, Done
  <2>6. Agreed'
      BY <2>2 DEF Agreed, OneByOne
  <2> QED BY <2>1, <2>4, <2>5, <2>6
<1> QED BY <1>2, <1>3, <1>4 DEF Patient

(* The steps that change no map: the job goes on, or ends. *)
LEMMA OtherStep ==
    ASSUME SessionInv, NEW w \in Worker,
           \/ AnswerSetId(w) \/ Observe(w) \/ Unsubscribe(w) \/ StopObserving(w)
           \/ NotifyClient(w) \/ Write(w)
    PROVE  SessionInv'
<1> DEFINE go == \/ job'[w] = NoJob
                 \/ /\ job'[w].at \in {"notify", "write"} /\ job'[w].id \in Id
                    /\ job'[w].c \in {job[w].c, NoConn}
                 \/ /\ job[w].at = "unsubscribe" /\ job'[w].at = "unobserve"
                    /\ job'[w].c = job[w].c /\ job[w].c \in Conn
                    /\ job'[w].id = clientsByTcpCli[job[w].c] /\ job'[w].id \in Id
<1> USE IdFacts DEF maps, buffers, SessionInv
<1>1. /\ UNCHANGED <<hooks, phase, clientsById, clientsByTcpCli, buffered, unseen, stuck, asked, jobs, env>>
      /\ observed' \in SUBSET Id
      /\ job' = [job EXCEPT ![w] = job'[w]]
      /\ job'[w] \in [at : Places, c : Conn \cup {NoConn}, id : Id \cup {NoId}]
      /\ job[w].at # "setid"
      /\ go
  <2> USE DEF TypeOK, JobsTyped, LineSteps, Places, NoJob
  <2>1. CASE AnswerSetId(w)
    <3>1. CASE job[w].id \in observed
        BY <2>1, <3>1 DEF AnswerSetId
    <3>2. CASE job[w].id \notin observed
        BY <2>1, <3>2, GotoIdle DEF AnswerSetId
    <3> QED BY <3>1, <3>2
  <2>2. CASE Observe(w)
      BY <2>2, GotoJob DEF Observe
  <2>3. CASE Unsubscribe(w)
    <3>1. CASE clientsByTcpCli[job[w].c] # NoId
        BY <2>3, <3>1, GotoJob DEF Unsubscribe
    <3>2. CASE clientsByTcpCli[job[w].c] = NoId
        BY <2>3, <3>2, GotoIdle DEF Unsubscribe
    <3> QED BY <3>1, <3>2
  <2>4. CASE StopObserving(w)
      BY <2>4, GotoIdle DEF StopObserving
  <2>5. CASE NotifyClient(w)
    <3>1. CASE clientsById[job[w].id] # NoConn
        BY <2>5, <3>1, GotoJob DEF NotifyClient
    <3>2. CASE clientsById[job[w].id] = NoConn
        BY <2>5, <3>2, GotoIdle DEF NotifyClient
    <3> QED BY <3>1, <3>2
  <2>6. CASE Write(w)
      BY <2>6, GotoIdle DEF Write
  <2> QED BY <2>1, <2>2, <2>3, <2>4, <2>5, <2>6
<1>2. TypeOK'
    BY <1>1 DEF TypeOK
<1>3. JobsTyped' /\ Started'
    BY <1>1 DEF TypeOK, JobsTyped, Started, OnlyUnseenHangs, NoJob, LineSteps
<1>4. ASSUME Patient PROVE PatientInv'
  <2> USE <1>1, <1>4 DEF PatientInv, TypeOK, NoJob
  <2>1. OneByOne' /\ Forgotten' /\ OneId'
    <3>1. /\ job'[w].c \in {job[w].c, NoConn}
          /\ \A v \in Worker \ {w} : job'[v] = job[v]
        OBVIOUS
    <3>2. OneByOne'
        BY <3>1 DEF OneByOne
    <3>3. Forgotten' /\ OneId'
        BY DEF Forgotten, OneId
    <3> QED BY <3>2, <3>3
  <2>2. \A d \in Conn : Done(d) => Done(d)'
      BY DEF Done
  <2>3. OneClaim'
    <3>1. \A v \in Worker : job'[v].at = "setid" => job'[v] = job[v]
        OBVIOUS
    <3>2. UNCHANGED <<asked, clientsByTcpCli>>
        OBVIOUS
    <3> QED BY <2>2, <3>1, <3>2 DEF OneClaim
  <2>4. Agreed'
      BY DEF Agreed
(* No claim is under way for a connection that unsubscribes. *)
  <2>5. Filed'
      BY DEF Filed, Agreed, OneByOne
  <2> QED BY <2>1, <2>3, <2>4, <2>5
<1> QED BY <1>1, <1>2, <1>3, <1>4 DEF Patient

(* subscribe: a patient connection that is served has an id. *)
LEMMA SubscribeStep == ASSUME SessionInv, NEW w \in Worker, Subscribe(w) PROVE SessionInv'
<1> DEFINE c == job[w].c
<1> USE IdFacts DEF Subscribe, maps, buffers, SessionInv
<1>1. c \in Conn
    BY DEF JobsTyped, LineSteps
<1>a. PICK i \in Id :
        /\ job' = [job EXCEPT ![w] = [at |-> "observe", c |-> c, id |-> i]]
        /\ i = IF clientsByTcpCli[c] # NoId THEN clientsByTcpCli[c] ELSE LateId(c)
    BY <1>1, GotoJob DEF Places, TypeOK
<1> USE <1>a
<1>2. TypeOK'
  <2>1. job' \in [Worker -> [at : Places, c : Conn \cup {NoConn}, id : Id \cup {NoId}]]
      BY <1>1 DEF TypeOK, Places
  <2>2. /\ clientsById' \in [Id -> Conn \cup {NoConn}]
        /\ clientsByTcpCli' \in [Conn -> Id \cup {NoId}]
      BY <1>1, ZenonT(30) DEF TypeOK
  <2> QED BY <2>1, <2>2 DEF TypeOK
<1>3. JobsTyped' /\ Started'
    BY <1>1 DEF TypeOK, JobsTyped, Started, OnlyUnseenHangs, LineSteps
<1>4. ASSUME Patient PROVE PatientInv'
  <2> USE <1>1, <1>4 DEF PatientInv, TypeOK
  <2>1. clientsByTcpCli[c] # NoId /\ phase[c] = "serving"
      BY DEF OneByOne, OneId
  <2>2. UNCHANGED maps /\ clientsByTcpCli[c] = asked[c]
      BY <2>1 DEF Agreed, OneByOne
  <2>3. OneByOne' /\ Filed' /\ Forgotten' /\ OneId' /\ Agreed'
      BY <2>2 DEF OneByOne, Filed, Forgotten, OneId, Agreed
  <2>4. \A d \in Conn : Done(d) => Done(d)'
      BY DEF Done
  <2>5. OneClaim'
      BY <2>2, <2>4 DEF OneClaim
  <2> QED BY <2>3, <2>5
<1> QED BY <1>2, <1>3, <1>4 DEF Patient
----------------------------------------------------------------------------
LEMMA SessionStep == ASSUME SessionInv, [Next]_vars PROVE SessionInv'
<1>1. CASE UNCHANGED vars
  <2>1. TypeOK' /\ JobsTyped' /\ Started' /\ (Patient' => Patient)
      BY <1>1 DEF vars, maps, buffers, SessionInv, TypeOK, JobsTyped, Started, OnlyUnseenHangs, Patient
  <2>2. PatientInv => PatientInv'
      BY <1>1 DEF vars, maps, buffers, PatientInv, OneByOne, OneId, OneClaim, Agreed, Filed, Forgotten, Done
  <2> QED BY <2>1, <2>2 DEF SessionInv
<1>2. ASSUME NEW w \in Worker, JobStep(w) PROVE SessionInv'
    BY <1>2, SetIdStep, SubscribeStep, OtherStep DEF JobStep
<1>3. ASSUME NEW w \in Worker, NEW c \in Conn, Receive(w, c) PROVE SessionInv'
    BY <1>3, SetIdLineStep, LineStep DEF Receive
<1> QED BY <1>1, <1>2, <1>3, ChangeStep, NewVSTPStep, AcceptStep, ConnectStep, CloseStep,
           UnknownDataStep, DisconnectStep DEF Next

(* The invariant holds in every reachable state, of patient clients and    *)
(* hurried ones, with and without a startup that is raced.                 *)
THEOREM VstpIInv == Spec => []SessionInv
BY SessionInit, SessionStep, PTL DEF Spec

(* NotifyClient finds a patient client on the connection it came back on,  *)
(* however its lines, its end and its return interleave with others'.      *)
THEOREM VstpReachable == Spec => []Reachable
<1>1. SessionInv => Reachable
    BY DEF SessionInv, PatientInv, OneId, Open, Reachable
<1> QED BY VstpIInv, <1>1, PTL

(* subscribe and unsubscribe act on the id that was last claimed. *)
THEOREM VstpFiledUnderClaim == Spec => []FiledUnderClaim
<1>1. SessionInv => FiledUnderClaim
    BY DEF SessionInv, PatientInv, Filed, FiledUnderClaim
<1> QED BY VstpIInv, <1>1, PTL

(* The disconnect callback takes a patient connection out of every map. *)
THEOREM VstpGoneIsForgotten == Spec => []GoneIsForgotten
<1>1. SessionInv => GoneIsForgotten
    BY IdFacts DEF SessionInv, PatientInv, OneId, Forgotten, Done, GoneIsForgotten
<1> QED BY VstpIInv, <1>1, PTL

(* Only a connection that came before NewVSTP had set the connect callback *)
(* can make the data callback take clientsLock twice.                      *)
THEOREM VstpOnlyUnseenHangs == Spec => []OnlyUnseenHangs
<1>1. SessionInv => OnlyUnseenHangs
    BY DEF SessionInv, Started
<1> QED BY VstpIInv, <1>1, PTL
============================================================================
