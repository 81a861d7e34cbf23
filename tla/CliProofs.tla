----------------------------- MODULE CliProofs -----------------------------
(***************************************************************************)
(* Proofs about the Go client: what becomes of its sessions when it is     *)
(* told to disconnect and when it reconnects, and who has a lock when      *)
(* calls time out and their answers are taken by later ones.               *)
(***************************************************************************)
EXTENDS CliConnection, CliCalls, TLAPS

(* Where the subscriptions are: one that is kept is at the server or on    *)
(* its way there, and what is taken back is not kept.                      *)
Arrives(s) == s \in known \/ <<"subscribe", s>> \in lines

ConnSubscribed ==
    /\ ~named => kept = {}
    /\ \A s \in kept : <<"unsubscribe", s>> \notin lines
    /\ habits.reuse /\ ~vanished => \A s \in kept : Arrives(s)

(* An application that does not disconnect in the middle of a Connect has, *)
(* after Disconnect, no goroutine left that could connect again, and the   *)
(* reader that ends later finds connectionIsActive cleared.                *)
ConnQuiet == quit /\ ~habits.hasty => conn # "up" /\ at = "none" /\ ~loop /\ ~active

ConnInv == ConnTypeOK /\ ConnQuiet /\ ConnSubscribed

ConnBools == {loop, handler, active, named, vanished, quit}

LEMMA ConnInitInv == ConnInit => ConnInv
<1> SUFFICES ASSUME ConnInit PROVE ConnInv
    OBVIOUS
<1>1. /\ ~loop /\ ~handler /\ ~active /\ ~named /\ ~vanished /\ ~quit
      /\ ConnBools \subseteq BOOLEAN
    BY Zenon DEF ConnInit, ConnBools
<1>2. /\ ids \in 0 .. MaxSubscriptions /\ kept \subseteq 1 .. ids /\ known \subseteq 1 .. ids
      /\ lines \subseteq {"subscribe", "unsubscribe"} \X (1 .. ids)
    BY SubscriptionsAssumption DEF ConnInit
<1>3. ConnTypeOK
    BY <1>1, <1>2 DEF ConnInit, ConnTypeOK, ConnBools
<1>4. ConnQuiet /\ ConnSubscribed
    BY <1>1 DEF ConnInit, ConnQuiet, ConnSubscribed
<1> QED BY <1>3, <1>4 DEF ConnInv

(* The steps that leave the subscriptions alone. *)
LEMMA UnsentSteps ==
    ASSUME ConnInv, UNCHANGED <<habits, subscriptions>>,
           ConnTypeOK', ConnQuiet', named' = named
    PROVE  ConnInv'
BY DEF ConnInv, ConnSubscribed, Arrives, subscriptions

(* What is on its way when a connection ends is counted as vanished. *)
LEMMA DroppedLines ==
    ASSUME ConnInv, LinesAreDropped, UNCHANGED <<habits, named>>
    PROVE  ConnSubscribed'
<1>1. lines' = {} /\ kept' = kept /\ known' = known
      /\ vanished' = (vanished \/ \E l \in lines : l[1] = "subscribe")
    BY DEF LinesAreDropped
<1>2. \A s \in kept : <<"subscribe", s>> \in lines => vanished'
    BY <1>1
<1>3. vanished => vanished'
    BY <1>1
<1>4. habits.reuse /\ ~vanished' => \A s \in kept' : s \in known'
    BY <1>1, <1>2, <1>3 DEF ConnInv, ConnSubscribed, Arrives
<1> QED BY <1>1, <1>4 DEF ConnInv, ConnSubscribed, Arrives

LEMMA DroppedTyped ==
    ASSUME ConnTypeOK, LinesAreDropped
    PROVE  /\ ids' \in 0 .. MaxSubscriptions /\ kept' \subseteq 1 .. ids'
           /\ known' \subseteq 1 .. ids' /\ vanished' \in BOOLEAN
           /\ lines' \subseteq {"subscribe", "unsubscribe"} \X (1 .. ids')
BY DEF ConnTypeOK, LinesAreDropped

(* Connect, its steps and the goroutine that installs the monitor. *)
LEMMA ConnectSteps ==
    ASSUME ConnInv,
           \/ AppConnects \/ LoopConnects \/ Dialed \/ DialFails \/ HeadersPass
           \/ Listen \/ readHeaders \/ HeadersTimeOut \/ exchangeFails
           \/ monitorConnection
    PROVE  ConnInv'
<1> USE DEF ConnInv, ConnTypeOK, ConnQuiet, Step, subscriptions
<1>1. CASE AppConnects \/ LoopConnects
  <2>1. Connect /\ (quit' = FALSE \/ (quit' = quit /\ loop /\ active))
      BY <1>1 DEF AppConnects, LoopConnects
  <2>2. ConnSubscribed'
      BY <2>1, DroppedLines DEF Connect
  <2>3. ConnTypeOK'
      BY <2>1, DroppedTyped DEF Connect
  <2> QED BY <2>1, <2>2, <2>3 DEF Connect
<1>2. CASE Dialed
    BY <1>2, UnsentSteps DEF Dialed
<1>3. CASE DialFails
    BY <1>3, UnsentSteps DEF DialFails
<1>4. CASE HeadersPass
    BY <1>4, UnsentSteps DEF HeadersPass
<1>5. CASE Listen
    BY <1>5, UnsentSteps DEF Listen
<1>6. CASE readHeaders
    BY <1>6, UnsentSteps DEF readHeaders
<1>7. CASE HeadersTimeOut
    BY <1>7, UnsentSteps DEF HeadersTimeOut
<1>8. CASE exchangeFails
    BY <1>8, UnsentSteps DEF exchangeFails
<1>9. CASE monitorConnection
    BY <1>9, UnsentSteps DEF monitorConnection
<1> QED BY <1>1, <1>2, <1>3, <1>4, <1>5, <1>6, <1>7, <1>8, <1>9

(* An id that is asked for again finds no subscriptions, and the client    *)
(* that has none yet keeps none.                                           *)
LEMMA ExchangeSteps ==
    ASSUME ConnInv, exchangeIds \/ setid
    PROVE  ConnInv'
<1> USE DEF ConnInv, ConnTypeOK, ConnQuiet, subscriptions
<1>1. CASE exchangeIds
  <2>1. ConnTypeOK'
      BY <1>1 DEF exchangeIds, Filed
  <2>2. habits.reuse => known' = known \/ kept = {}
      BY <1>1 DEF exchangeIds, NeedsId, ConnSubscribed
  <2>3. ConnSubscribed'
      BY <1>1, <2>2 DEF exchangeIds, ConnSubscribed, Arrives
  <2> QED BY <1>1, <2>1, <2>3 DEF exchangeIds
<1>2. CASE setid
    BY <1>2, UnsentSteps DEF setid
<1> QED BY <1>1, <1>2

LEMMA LossSteps ==
    ASSUME ConnInv, Lose \/ ReaderEnds \/ LoopEnds \/ Disconnect
    PROVE  ConnInv'
<1> USE DEF ConnInv, ConnTypeOK, ConnQuiet, subscriptions
<1>1. CASE Lose
    BY <1>1, DroppedLines, DroppedTyped DEF Lose
<1>2. CASE ReaderEnds
    BY <1>2, UnsentSteps DEF ReaderEnds
<1>3. CASE LoopEnds
  <2>1. ConnTypeOK'
      BY <1>3 DEF LoopEnds
  <2>2. ConnQuiet'
      BY <1>3 DEF LoopEnds
  <2> QED BY <1>3, <2>1, <2>2, UnsentSteps DEF LoopEnds
<1>4. CASE Disconnect
  <2>1. ConnSubscribed'
      BY <1>4, DroppedLines DEF Disconnect
  <2>2. conn' \in {"none", "up", "lost", "ended"} /\ active' = FALSE /\ quit' = TRUE
      BY <1>4 DEF Disconnect
  <2>3. vanished' \in BOOLEAN /\ UNCHANGED <<habits, at, loop, handler, headers, suggested, named, filed>>
      BY <1>4, DroppedTyped DEF Disconnect
  <2>4. {loop', handler', active', named', vanished', quit'} \subseteq BOOLEAN
      BY <2>2, <2>3
  <2>5. ConnTypeOK'
      BY <1>4, <2>2, <2>3, <2>4, DroppedTyped DEF Disconnect
  <2>6. ConnQuiet'
      BY <1>4 DEF Disconnect
  <2> QED BY <2>1, <2>5, <2>6
<1> QED BY <1>1, <1>2, <1>3, <1>4

LEMMA SubscriptionSteps ==
    ASSUME ConnInv,
           \/ Subscribe \/ \E s \in kept : Unsubscribe(s)
           \/ \E l \in lines : processReceivedMessage(l)
    PROVE  ConnInv'
<1> USE DEF ConnInv, ConnTypeOK, ConnQuiet, ConnSubscribed
<1>1. CASE Subscribe
  <2>1. ids' = ids + 1 /\ ids' \in 0 .. MaxSubscriptions /\ ids + 1 \notin 1 .. ids
      BY <1>1, SubscriptionsAssumption DEF Subscribe
  <2>2. 1 .. ids \subseteq 1 .. ids' /\ ids + 1 \in 1 .. ids'
      BY <2>1, SubscriptionsAssumption
  <2>3. /\ kept' \in {kept, kept \cup {ids + 1}}
        /\ lines' \in {lines, lines \cup {<<"subscribe", ids + 1>>}}
        /\ vanished' \in BOOLEAN
      BY <1>1 DEF Subscribe, Send
  <2>4. lines' \subseteq {"subscribe", "unsubscribe"} \X (1 .. ids')
      BY <2>2, <2>3
  <2>5. ConnTypeOK'
      BY <1>1, <2>1, <2>2, <2>3, <2>4 DEF Subscribe
  <2>6. \A s \in kept' : <<"unsubscribe", s>> \notin lines'
    <3>1. <<"unsubscribe", ids + 1>> \notin lines
        BY <2>1
    <3>2. \A s \in kept' : <<"unsubscribe", s>> \notin lines
        BY <2>3, <3>1
    <3>3. \A s : <<"unsubscribe", s>> # <<"subscribe", ids + 1>>
        OBVIOUS
    <3> QED BY <2>3, <3>2, <3>3
  <2>7. vanished => vanished'
      BY <1>1 DEF Subscribe
  <2>8. ~vanished' /\ ids + 1 \in kept' => <<"subscribe", ids + 1>> \in lines'
      BY <1>1, <2>1 DEF Subscribe, Send
  <2>9. \A s \in kept : Arrives(s) => Arrives(s)'
      BY <1>1, <2>3 DEF Subscribe, Arrives
  <2>10. habits'.reuse /\ ~vanished' => \A s \in kept' : Arrives(s)'
      BY <1>1, <2>3, <2>7, <2>8, <2>9 DEF Subscribe, Arrives
  <2> QED BY <1>1, <2>5, <2>6, <2>10 DEF Subscribe, CallAllowed
<1>2. ASSUME NEW s \in kept, Unsubscribe(s) PROVE ConnInv'
  <2>1. lines' \in {lines, lines \cup {<<"unsubscribe", s>>}} /\ kept' = kept \ {s}
      BY <1>2 DEF Unsubscribe, Send
  <2>2. lines' \subseteq {"subscribe", "unsubscribe"} \X (1 .. ids)
      BY <2>1
  <2>3. ConnTypeOK' /\ ConnQuiet'
      BY <1>2, <2>1, <2>2 DEF Unsubscribe, CallAllowed
  <2>4. \A t \in kept' : <<"unsubscribe", t>> \notin lines'
      BY <2>1
  <2>5. \A t \in kept : Arrives(t) => Arrives(t)'
      BY <1>2, <2>1 DEF Unsubscribe, Arrives
  <2> QED BY <1>2, <2>1, <2>3, <2>4, <2>5 DEF Unsubscribe
<1>3. ASSUME NEW l \in lines, processReceivedMessage(l) PROVE ConnInv'
  <2>1. l \in {"subscribe", "unsubscribe"} \X (1 .. ids)
      OBVIOUS
  <2>2. lines' = lines \ {l} /\ kept' = kept /\ ids' = ids /\ habits' = habits
      BY <1>3 DEF processReceivedMessage
  <2>3. known' \subseteq 1 .. ids
    <3>1. known' \in {known, known \cup {l[2]}, known \ {l[2]}}
        BY <1>3, <2>1 DEF processReceivedMessage
    <3> QED BY <2>1, <3>1
  <2>4. vanished' \in BOOLEAN /\ (vanished => vanished')
      BY <1>3 DEF processReceivedMessage
  <2>5. ConnTypeOK' /\ ConnQuiet'
      BY <1>3, <2>2, <2>3, <2>4 DEF processReceivedMessage
  <2>6. ~vanished' => \A s \in kept : Arrives(s) => Arrives(s)'
    <3> SUFFICES ASSUME ~vanished', NEW s \in kept, Arrives(s) PROVE Arrives(s)'
        OBVIOUS
    <3>1. CASE filed # "yes"
        BY <1>3, <2>1, <2>2, <3>1 DEF processReceivedMessage, Arrives
    <3>2. CASE filed = "yes" /\ l[1] = "subscribe"
      <4>1. known' = known \cup {l[2]} /\ l = <<"subscribe", l[2]>>
          BY <1>3, <2>1, <3>2 DEF processReceivedMessage
      <4> QED BY <2>2, <4>1 DEF Arrives
    <3>3. CASE filed = "yes" /\ l[1] = "unsubscribe"
      <4>1. known' = known \ {l[2]} /\ l = <<"unsubscribe", l[2]>>
          BY <1>3, <2>1, <3>3 DEF processReceivedMessage
      <4>2. l[2] # s
          BY <4>1
      <4> QED BY <2>2, <4>1, <4>2 DEF Arrives
    <3> QED BY <2>1, <3>1, <3>2, <3>3
  <2>7. ConnSubscribed'
      BY <1>3, <2>2, <2>4, <2>6 DEF processReceivedMessage
  <2> QED BY <2>5, <2>7
<1> QED BY <1>1, <1>2, <1>3

(* The invariant holds in every reachable state of a connection. *)
THEOREM ConnIInv == ConnSpec => []ConnInv
<1>1. ConnInv /\ UNCHANGED connVars => ConnInv'
    BY DEF connVars, ConnInv, ConnTypeOK, ConnQuiet, ConnSubscribed, Arrives
<1>2. ConnInv /\ [ConnNext]_connVars => ConnInv'
    BY <1>1, ConnectSteps, ExchangeSteps, LossSteps, SubscriptionSteps
    DEF ConnNext, ClientStep
<1> QED BY ConnInitInv, <1>2, PTL DEF ConnSpec

(* Disconnect is not undone by the loop of OnDisconnect, by a reader that  *)
(* ends later, or by the monitor.                                          *)
THEOREM ConnDisconnectIsFinal == ConnSpec => []DisconnectIsFinal
<1>1. ConnInv => DisconnectIsFinal
    BY DEF ConnInv, ConnQuiet, DisconnectIsFinal
<1> QED BY ConnIInv, <1>1, PTL

(* A session resumed with vssReuseID has its subscriptions at the server   *)
(* or on their way there, whatever Connects failed in between and however  *)
(* often it was lost, except for those whose lines vanished.               *)
THEOREM ConnSubscriptionsSurvive == ConnSpec => []SubscriptionsSurvive
<1>1. ConnInv => SubscriptionsSurvive
    BY DEF ConnInv, ConnSubscribed, Arrives, SubscriptionsSurvive
<1> QED BY ConnIInv, <1>1, PTL
----------------------------------------------------------------------------
(* Calls that share connections. *)
Pattern == Name \cup {NoName} \cup {Before[n] : n \in Name}

CallType == [op : Ops \cup {"none"}, name : Name \cup {NoName}, pattern : Pattern,
             end : Whose, err : BOOLEAN, got : Nat, alien : BOOLEAN]

Asking(w) == w.op \in Ops /\ w.name \in Name /\ w.pattern \in {w.name, Before[w.name]}

CallsTyped ==
    /\ setting \in CallSetting
    /\ call \in [Goroutine -> CallType]
    /\ \A g \in Goroutine : call[g] # Idle => Asking(call[g])
    /\ held \subseteq Name
    /\ holds \in [Goroutine -> SUBSET Name]

(* The lines of an answer before its last. *)
Size(c) == IF c.op = "get" THEN Len(Found[c.name]) ELSE 1

(* A command with its owner, its result and its progress replaced. *)
With(c, own, result, sent) ==
    [no |-> c.no, by |-> c.by, own |-> own, op |-> c.op, name |-> c.name,
     result |-> result, sent |-> sent]

CmdTyped(c) ==
    /\ c = With(c, c.own, c.result, c.sent)
    /\ c.by \in Goroutine /\ c.own \in BOOLEAN /\ c.op \in Ops /\ c.name \in Name
    /\ c.result \in {"none", "success", "failure"}
    /\ c.sent \in Nat /\ c.sent <= Size(c)
    /\ c.result = "none" => c.sent = 0

(* What Tidy asks of a call holds as long as its command is under way. *)
Separate == \A g \in Goroutine : call[g] # Idle => \A c \in cmds :
    /\ c.by = g /\ ~c.own =>
         \/ Deaf(call[g].name, c.op, c.name)
         \/ c.name = call[g].name /\ Wordless(c.name)
    /\ c.by # g /\ ConnOf[c.by] = ConnOf[g] =>
         /\ Deaf(call[g].name, c.op, c.name)
         /\ ~(call[g].op = "getchilds" /\ c.op = "getchilds")

(* A lock that was granted is on its way to its owner, has reached the     *)
(* call, is held, or is being given back: in one of these places at most,  *)
(* and as long as it is in one, it is locked at the server.                *)
Fair(n) == n \notin spoiled /\ ~ReadsAsSuccess(n)

Granted(c) == c.op = "lock" /\ c.result = "success" /\ c.sent = 0
GivenBack(c) == c.op = "unlock" /\ c.result = "none"
Carries(c) == Fair(c.name) /\ (Granted(c) \/ GivenBack(c))
Told(g) == call[g].op = "lock" /\ call[g].end # "none" /\ ~call[g].err /\ Fair(call[g].name)

OnePlace ==
    /\ LockIsExclusive
    /\ \A g \in Goroutine : Told(g) =>
         /\ call[g].name \in held
         /\ \A h \in Goroutine : call[g].name \notin holds[h]
         /\ \A h \in Goroutine \ {g} : Told(h) => call[h].name # call[g].name
    /\ \A c \in cmds : Carries(c) =>
         /\ c.name \in held
         /\ \A h \in Goroutine : c.name \notin holds[h]
         /\ \A h \in Goroutine : Told(h) => call[h].name # c.name
         /\ \A d \in cmds : Carries(d) /\ d.name = c.name => d = c

(* Of the answer to a command that is spent only the last line is to come, *)
(* and that is nobody's.                                                   *)
Spent(c) == c.op \in {"lock", "unlock"} /\ c.result # "none" /\ c.sent = Size(c)

(* A call has one command of its own.                                      *)
OwnCommand ==
    /\ \A c, d \in cmds : c.own /\ d.own /\ c.by = d.by => c = d
    /\ \A c \in cmds : c.own => call[c.by].op = c.op /\ call[c.by].name = c.name

(* One that is patient has no other under way that could answer it, and    *)
(* has taken from its own what came.                                       *)
OwnAnswer ==
    /\ \A c \in cmds : ~c.own \/ call[c.by].end # "none" => Spent(c)
    /\ \A c \in cmds : c.own /\ call[c.by].end = "none" =>
         call[c.by].got = IF c.op \in {"get", "getchilds"} THEN c.sent ELSE 0
    /\ \A g \in Goroutine : ~call[g].alien
    /\ \A g \in Goroutine : call[g].end # "none" =>
         call[g].end = "own" /\ call[g].got = Brings(call[g].op, call[g].name)

CallsInv ==
    /\ CallsTyped /\ (\A c \in cmds : CmdTyped(c)) /\ Separate /\ OnePlace /\ OwnCommand
    /\ setting.patient => OwnAnswer
----------------------------------------------------------------------------
(* The lines of an answer. *)
LineFits(c, l) ==
    /\ l.cmd \in {"varvalue", "lockresult", "unlockdone", "endresponse"} =>
         l.payload \in Payloads(c.op, c.name)
    /\ l.cmd = "varvalue" => /\ c.op = "get" /\ c.sent < Size(c)
                             /\ Contains(l.payload, <<Before[c.name]>>)
    /\ l.cmd = "childs" => c.op = "getchilds" /\ c.sent = 0
    /\ l.cmd = "lockresult" => c.op = "lock" /\ c.sent = 0 /\ l.payload = <<c.name, c.result>>
    /\ l.cmd = "unlockdone" => c.op = "unlock" /\ c.sent = 0
    /\ l.cmd = "endresponse" => /\ c.sent = Size(c)
                                /\ l.payload \in {<<c.op, c.name>>, <<c.op, NoName>>}
    /\ l.cmd # "endresponse" => /\ c.sent < Size(c)
                                /\ c.op = "get" => l.cmd = "varvalue"
                                /\ c.op = "getchilds" => l.cmd = "childs"

LEMMA SizeFacts ==
    ASSUME NEW c, c.op \in Ops, c.name \in Name
    PROVE  Size(c) \in Nat /\ Len(Data(c)) = Size(c)
<1>1. Len(Found[c.name]) \in Nat
    BY CallsAssumption
<1>2. CASE c.op = "get"
  <2> DEFINE n == Len(Found[c.name])
             s == [i \in 1 .. n |-> Reply("varvalue", Found[c.name][i])]
  <2>1. Data(c) = s
      BY <1>2 DEF Data
  <2> HIDE DEF n
  <2>2. n \in Nat => Len(s) = n
      OBVIOUS
  <2> QED BY <1>1, <1>2, <2>1, <2>2 DEF Size, n
<1>3. CASE c.op # "get"
  <2>1. \E l : Data(c) = <<l>>
      BY <1>3 DEF Data
  <2> QED BY <1>3, <2>1 DEF Size
<1> QED BY <1>2, <1>3

LEMMA NextLineFits ==
    ASSUME NEW c, CmdTyped(c), c.result # "none"
    PROVE  LineFits(c, NextLine(c))
<1> DEFINE l == NextLine(c)
<1>1. /\ c.op \in Ops /\ c.name \in Name /\ c.sent \in Nat /\ c.sent <= Size(c)
      /\ c.result \in {"success", "failure"}
    BY DEF CmdTyped
<1>2. Size(c) \in Nat /\ Len(Data(c)) = Size(c)
    BY <1>1, SizeFacts
<1>3. CASE c.sent = Size(c)
  <2>1. l.cmd = "endresponse" /\ l.payload \in {<<c.op, c.name>>, <<c.op, NoName>>}
      BY <1>1, <1>2, <1>3 DEF NextLine, Last, Reply
  <2>2. l.payload \in Payloads(c.op, c.name)
      BY <2>1 DEF Payloads
  <2> QED BY <1>3, <2>1, <2>2 DEF LineFits
<1>4. CASE c.sent < Size(c)
  <2>1. l = Data(c)[c.sent + 1]
      BY <1>2, <1>4 DEF NextLine
  <2>2. CASE c.op = "get"
    <3>1. c.sent + 1 \in 1 .. Len(Found[c.name])
        BY <1>1, <1>2, <1>4, <2>2 DEF Size
    <3>2. l = Reply("varvalue", Found[c.name][c.sent + 1])
        BY <2>1, <2>2, <3>1 DEF Data
    <3>3. l.cmd = "varvalue" /\ l.payload = Found[c.name][c.sent + 1]
        BY <3>2 DEF Reply
    <3>4. l.payload \in Payloads("get", c.name)
        BY <3>1, <3>3 DEF Payloads
    <3>5. Contains(l.payload, <<Before[c.name]>>)
        BY <1>1, <3>1, <3>3, CallsAssumption
    <3> QED BY <1>4, <2>2, <3>3, <3>4, <3>5 DEF LineFits
  <2>3. CASE c.op # "get"
    <3>1. c.sent = 0 /\ l = Data(c)[1]
        BY <1>1, <1>4, <2>1, <2>3 DEF Size
    <3>2. CASE c.op = "getchilds"
      <4>1. l.cmd = "childs"
          BY <3>1, <3>2 DEF Data, Reply
      <4> QED BY <1>4, <3>1, <3>2, <4>1 DEF LineFits
    <3>3. CASE c.op = "lock" /\ setting.server = "documented"
      <4>1. l.cmd = "lockresult" /\ l.payload = <<c.name, c.result>>
          BY <3>1, <3>3 DEF Data, Reply
      <4>2. l.payload \in Payloads("lock", c.name)
          BY <1>1, <4>1 DEF Payloads
      <4> QED BY <1>4, <3>1, <3>3, <4>1, <4>2 DEF LineFits
    <3>4. CASE c.op = "unlock"
      <4>1. l.cmd = "unlockdone" /\ l.payload = <<c.name, NoName>>
          BY <3>1, <3>4 DEF Data, Reply
      <4>2. l.payload \in Payloads("unlock", c.name)
          BY <4>1 DEF Payloads
      <4> QED BY <1>4, <3>1, <3>4, <4>1, <4>2 DEF LineFits
    <3>5. CASE /\ c.op \notin {"getchilds", "unlock"}
               /\ ~(c.op = "lock" /\ setting.server = "documented")
      <4>1. l.cmd \in {"success", "error"}
          BY <2>3, <3>1, <3>5 DEF Data, Reply
      <4> QED BY <1>4, <2>3, <3>5, <4>1 DEF LineFits
    <3> QED BY <3>2, <3>3, <3>4, <3>5
  <2> QED BY <2>2, <2>3
<1> QED BY <1>1, <1>2, <1>3, <1>4

(* A call does not hear the lines of a command that it is deaf to.         *)
LEMMA DeafFacts ==
    ASSUME NEW w, Asking(w), NEW c, NEW l, LineFits(c, l), Deaf(w.name, c.op, c.name)
    PROVE  ~Ends(w, l) /\ ~Gathers(w, l)
<1>1. Before[Before[w.name]] = Before[w.name]
    BY CallsAssumption DEF Asking
<1>2. l.payload \in Payloads(c.op, c.name) =>
        /\ ~Contains(l.payload, <<w.name>>) /\ ~Contains(l.payload, <<Before[w.name]>>)
        /\ w.op \in {"set", "delete"} => ~Contains(l.payload, <<w.op, w.name>>)
  <2> SUFFICES ASSUME l.payload \in Payloads(c.op, c.name)
               PROVE  /\ ~Contains(l.payload, <<w.name>>) /\ ~Contains(l.payload, <<Before[w.name]>>)
                      /\ w.op \in {"set", "delete"} => ~Contains(l.payload, <<w.op, w.name>>)
      OBVIOUS
  <2>1. ~Contains(l.payload, <<Before[w.name]>>)
      BY DEF Deaf
  <2>2. Contains(l.payload, <<w.name>>) => Contains(l.payload, <<Before[w.name]>>)
      BY PartsAssumption DEF Asking, Contains
  <2>3. w.op \in {"set", "delete"} /\ Contains(l.payload, <<w.op, w.name>>) =>
          Contains(l.payload, <<w.name>>)
      BY PartsAssumption DEF Asking, Contains
  <2> QED BY <2>1, <2>2, <2>3
<1>3. ~Ends(w, l)
    BY <1>2 DEF Ends, Asking, Ops, LineFits
<1>4. ~Gathers(w, l)
    BY <1>1, <1>2 DEF Gathers, Cuts, Asking, LineFits
<1> QED BY <1>3, <1>4

(* What a waiting call makes of a line. *)
LEMMA ReceivedFields ==
    ASSUME NEW w \in CallType, Asking(w), NEW l, NEW whose \in Whose
    PROVE  LET r == Received(w, l, whose) IN
           /\ r \in CallType /\ Asking(r)
           /\ r.op = w.op /\ r.name = w.name
           /\ r.end = IF Ends(w, l) THEN whose ELSE w.end
           /\ r.err = (w.err \/ (w.op = "lock" /\ Ends(w, l) /\ ~Contains(l.payload, <<"success">>)))
           /\ r.got = IF Gathers(w, l) THEN w.got + 1 ELSE IF Replaces(w, l) THEN 1 ELSE w.got
           /\ r.alien = IF Gathers(w, l) THEN w.alien \/ whose = "other"
                        ELSE IF Replaces(w, l) THEN whose = "other" ELSE w.alien
<1> DEFINE e == IF Ends(w, l) THEN whose ELSE w.end
           b == w.err \/ (w.op = "lock" /\ Ends(w, l) /\ ~Contains(l.payload, <<"success">>))
           p == IF Cuts(w, l) THEN Before[w.pattern] ELSE w.pattern
           s == IF Gathers(w, l) THEN w.got + 1 ELSE IF Replaces(w, l) THEN 1 ELSE w.got
           a == IF Gathers(w, l) THEN w.alien \/ whose = "other"
                ELSE IF Replaces(w, l) THEN whose = "other" ELSE w.alien
           r == [op |-> w.op, name |-> w.name, pattern |-> p, end |-> e, err |-> b, got |-> s,
                 alien |-> a]
<1>1. w = [op |-> w.op, name |-> w.name, pattern |-> w.pattern, end |-> w.end, err |-> w.err,
           got |-> w.got, alien |-> w.alien]
    BY DEF CallType
<1>2. \A x, y, z, u, v :
        [w EXCEPT !.end = x, !.err = y, !.pattern = z, !.got = u, !.alien = v]
      = [op |-> w.op, name |-> w.name, pattern |-> z, end |-> x, err |-> y, got |-> u, alien |-> v]
  <2> TAKE x, y, z, u, v
  <2> DEFINE Call(i, j, k, m, n) == [op |-> w.op, name |-> w.name, pattern |-> k, end |-> i,
                                     err |-> j, got |-> m, alien |-> n]
  <2>1. [Call(w.end, w.err, w.pattern, w.got, w.alien) EXCEPT !.end = x]
        = Call(x, w.err, w.pattern, w.got, w.alien)
      OBVIOUS
  <2>2. [Call(x, w.err, w.pattern, w.got, w.alien) EXCEPT !.err = y]
        = Call(x, y, w.pattern, w.got, w.alien)
      OBVIOUS
  <2>3. [Call(x, y, w.pattern, w.got, w.alien) EXCEPT !.pattern = z]
        = Call(x, y, z, w.got, w.alien)
      OBVIOUS
  <2>4. [Call(x, y, z, w.got, w.alien) EXCEPT !.got = u] = Call(x, y, z, u, w.alien)
      OBVIOUS
  <2>5. [Call(x, y, z, u, w.alien) EXCEPT !.alien = v] = Call(x, y, z, u, v)
      OBVIOUS
  <2>6. w = Call(w.end, w.err, w.pattern, w.got, w.alien)
      BY <1>1
  <2> HIDE DEF Call
  <2>7. [[[w EXCEPT !.end = x] EXCEPT !.err = y] EXCEPT !.pattern = z]
        = Call(x, y, z, w.got, w.alien)
      BY <2>1, <2>2, <2>3, <2>6, Zenon
  <2>8. [[[[[w EXCEPT !.end = x] EXCEPT !.err = y] EXCEPT !.pattern = z] EXCEPT !.got = u]
           EXCEPT !.alien = v] = Call(x, y, z, u, v)
      BY <2>4, <2>5, <2>7, Zenon
  <2>9. [w EXCEPT !.end = x, !.err = y, !.pattern = z, !.got = u, !.alien = v]
        = Call(x, y, z, u, v)
      BY <2>8, Zenon
  <2> QED BY <2>9 DEF Call
<1>3. Received(w, l, whose) = r
  <2>1. Received(w, l, whose)
        = [w EXCEPT !.end = e, !.err = b, !.pattern = p, !.got = s, !.alien = a]
      BY DEF Received
  <2> HIDE DEF e, b, p, s, a
  <2> QED BY <1>2, <2>1, Zenon
<1>4. /\ w.op \in Ops \cup {"none"} /\ w.name \in Name \cup {NoName} /\ w.pattern \in Pattern
      /\ w.end \in Whose /\ w.err \in BOOLEAN /\ w.got \in Nat /\ w.alien \in BOOLEAN
    BY DEF CallType
<1>5. e \in Whose /\ b \in BOOLEAN /\ a \in BOOLEAN
    BY <1>4, Zenon
<1>6. s \in Nat
    BY <1>4
<1>7. p \in {w.name, Before[w.name]} /\ p \in Pattern
  <2>1. w.name \in Name /\ w.pattern \in {w.name, Before[w.name]}
      BY DEF Asking
  <2>2. Before[Before[w.name]] = Before[w.name]
      BY <2>1, CallsAssumption
  <2>3. p \in {w.name, Before[w.name]}
      BY <2>1, <2>2
  <2> QED BY <2>1, <2>3 DEF Pattern
<1> HIDE DEF e, b, p, s, a
<1>8. r \in CallType
    BY <1>4, <1>5, <1>6, <1>7 DEF CallType
<1>9. r.op = w.op /\ r.name = w.name /\ r.pattern = p
    BY DEF r
<1>10. r.end = e /\ r.err = b /\ r.got = s /\ r.alien = a
    BY DEF r
<1> HIDE DEF r
<1>11. Asking(r)
    BY <1>7, <1>9 DEF Asking
<1> QED BY <1>3, <1>8, <1>9, <1>10, <1>11, Zenon DEF e, b, s, a

LEMMA WithFields ==
    \A c, own, result, sent : LET d == With(c, own, result, sent) IN
        /\ d.no = c.no /\ d.by = c.by /\ d.own = own /\ d.op = c.op
        /\ d.name = c.name /\ d.result = result /\ d.sent = sent
        /\ d = With(d, d.own, d.result, d.sent)
        /\ Size(d) = Size(c)
    BY DEF With, Size

LEMMA CommandExcept ==
    ASSUME NEW c, CmdTyped(c)
    PROVE  /\ \A x : [c EXCEPT !.sent = x] = With(c, c.own, c.result, x)
           /\ \A x : [c EXCEPT !.result = x] = With(c, c.own, x, c.sent)
           /\ [c EXCEPT !.own = FALSE] = With(c, FALSE, c.result, c.sent)
<1> DEFINE r == With(c, c.own, c.result, c.sent)
<1>1. c = r
    BY DEF CmdTyped
<1>2. \A x : [r EXCEPT !.sent = x] = With(c, c.own, c.result, x)
    BY DEF With
<1>3. \A x : [r EXCEPT !.result = x] = With(c, c.own, x, c.sent)
    BY DEF With
<1>4. \A b : [r EXCEPT !.own = b] = With(c, b, c.result, c.sent)
    BY DEF With
<1> QED BY <1>1, <1>2, <1>3, <1>4, Zenon
----------------------------------------------------------------------------
LEMMA CallsInitInv == CallsInit => CallsInv
<1> SUFFICES ASSUME CallsInit PROVE CallsInv
    OBVIOUS
<1>1. Idle \in CallType
    BY DEF Idle, CallType, Whose, Pattern
<1>2. \A g \in Goroutine : call[g] = Idle /\ holds[g] = {}
    BY DEF CallsInit
<1>3. Idle.op = "none" /\ Idle.end = "none" /\ Idle.alien = FALSE
    BY DEF Idle
<1>4. CallsTyped
    BY <1>1, <1>2 DEF CallsInit, CallsTyped
<1>5. LockIsExclusive
    BY <1>2 DEF LockIsExclusive
<1>6. OnePlace
    BY <1>2, <1>3, <1>5 DEF CallsInit, OnePlace, Told
<1>7. Separate /\ OwnCommand
    BY <1>2 DEF CallsInit, Separate, OwnCommand
<1>8. OwnAnswer
    BY <1>2, <1>3 DEF CallsInit, OwnAnswer
<1> QED BY <1>4, <1>6, <1>7, <1>8 DEF CallsInit, CallsInv

(* A goroutine that starts a call has no command of its own under way, and *)
(* the lock it gives back is nowhere else.                                 *)
LEMMA AskInv ==
    ASSUME CallsInv, NEW g \in Goroutine, NEW op \in Ops, NEW name \in Name, Ask(g, op, name)
    PROVE  CallsInv'
<1> DEFINE n == [no |-> Unused(g), by |-> g, own |-> TRUE, op |-> op, name |-> name,
                 result |-> "none", sent |-> 0]
           w == [Idle EXCEPT !.op = op, !.name = name, !.pattern = name]
<1>1. /\ call[g] = Idle /\ call' = [call EXCEPT ![g] = w]
      /\ cmds' = cmds \cup {n}
      /\ holds' = IF op = "unlock" THEN [holds EXCEPT ![g] = @ \ {name}] ELSE holds
      /\ spoiled' = IF op = "unlock" /\ name \notin holds[g] THEN spoiled \cup {name} ELSE spoiled
      /\ setting' = setting /\ held' = held
      /\ Tidy(g, op, name)
    BY DEF Ask
<1>2. w = [op |-> op, name |-> name, pattern |-> name, end |-> "none", err |-> FALSE, got |-> 0,
           alien |-> FALSE]
  <2> DEFINE Call(i, j, k, b) == [op |-> i, name |-> j, pattern |-> k, end |-> "none", err |-> b,
                                  got |-> 0, alien |-> b]
  <2>1. \A b : [Call("none", NoName, NoName, b) EXCEPT !.op = op] = Call(op, NoName, NoName, b)
      OBVIOUS
  <2>2. \A b : [Call(op, NoName, NoName, b) EXCEPT !.name = name] = Call(op, name, NoName, b)
      OBVIOUS
  <2>3. \A b : [Call(op, name, NoName, b) EXCEPT !.pattern = name] = Call(op, name, name, b)
      OBVIOUS
  <2>4. w = [[[Idle EXCEPT !.op = op] EXCEPT !.name = name] EXCEPT !.pattern = name]
      OBVIOUS
  <2>5. Idle = Call("none", NoName, NoName, FALSE)
      BY DEF Idle
  <2> HIDE DEF Call
  <2>6. w = Call(op, name, name, FALSE)
      BY <2>1, <2>2, <2>3, <2>4, <2>5, Zenon
  <2> QED BY <2>6 DEF Call
<1>3. /\ w \in CallType /\ Asking(w) /\ w.op = op /\ w.name = name /\ w.end = "none"
      /\ w.got = 0 /\ ~w.alien
  <2>1. name \in Pattern
      BY DEF Pattern
  <2>2. w \in CallType
    <3>1. \A b \in BOOLEAN : \A k \in Nat :
            [op |-> op, name |-> name, pattern |-> name, end |-> "none", err |-> b, got |-> k,
             alien |-> b] \in CallType
        BY <2>1 DEF CallType, Whose
    <3> QED BY <1>2, <3>1
  <2>3. w.op = op /\ w.name = name /\ w.pattern = name /\ w.end = "none" /\ w.got = 0
      BY <1>2
  <2>4. w.alien = FALSE
      BY <1>2
  <2> HIDE DEF w
  <2> QED BY <2>2, <2>3, <2>4 DEF Asking
<1>4. /\ n.by = g /\ n.own = TRUE /\ n.op = op /\ n.name = name
      /\ n.result = "none" /\ n.sent = 0
      /\ n = With(n, n.own, n.result, n.sent)
    BY DEF With
<1> HIDE DEF n, w
<1>5. Idle.op = "none" /\ Idle.end = "none" /\ "none" \notin Ops
    BY DEF Idle, Ops
<1>6. \A h \in Goroutine : call'[h] = IF h = g THEN w ELSE call[h]
    BY <1>1 DEF CallsInv, CallsTyped
<1>7. \A c \in cmds : CmdTyped(c)
    BY DEF CallsInv
<1>8. CallsTyped'
    BY <1>1, <1>3, <1>6 DEF CallsInv, CallsTyped
<1>9. \A c \in cmds' : CmdTyped(c)
  <2>1. Size(n) \in Nat
      BY <1>4, SizeFacts
  <2>2. n.sent \in Nat /\ n.sent <= Size(n)
      BY <1>4, <2>1
  <2>3. n.own \in BOOLEAN
      BY <1>4, Zenon
  <2>4. CmdTyped(n)
      BY <1>4, <2>2, <2>3 DEF CmdTyped
  <2> QED BY <1>1, <1>7, <2>4
<1>10. \A c \in cmds : c.own => c.by # g
    BY <1>1, <1>5, <1>7 DEF CallsInv, OwnCommand, CmdTyped
<1>11. Separate'
  <2> SUFFICES ASSUME NEW h \in Goroutine, call'[h] # Idle, NEW c \in cmds'
               PROVE  /\ c.by = h /\ ~c.own =>
                           \/ Deaf(call'[h].name, c.op, c.name)
                           \/ c.name = call'[h].name /\ Wordless(c.name)
                      /\ c.by # h /\ ConnOf[c.by] = ConnOf[h] =>
                           /\ Deaf(call'[h].name, c.op, c.name)
                           /\ ~(call'[h].op = "getchilds" /\ c.op = "getchilds")
      BY DEF Separate
  <2>1. CASE h = g /\ c \in cmds
    <3>1. c.by \in Goroutine
        BY <1>7, <2>1 DEF CmdTyped
    <3>2. c.by # g /\ ConnOf[c.by] = ConnOf[g] =>
            Deaf(name, c.op, c.name) /\ ~(op = "getchilds" /\ c.op = "getchilds")
        BY <1>1, <2>1, <3>1 DEF Tidy, Strangers
    <3>3. c.by = g => Deaf(name, c.op, c.name) \/ (c.name = name /\ Wordless(name))
        BY <1>1, <2>1 DEF Tidy
    <3> QED BY <1>3, <1>6, <2>1, <3>2, <3>3
  <2>2. CASE h = g /\ c = n
      BY <1>4, <2>2
  <2>3. CASE h # g /\ c = n
    <3>1. call'[h] = call[h] /\ call[h] # Idle
        BY <1>6, <2>3
    <3>2. ConnOf[h] = ConnOf[g] =>
            Deaf(call[h].name, op, name) /\ ~(op = "getchilds" /\ call[h].op = "getchilds")
        BY <1>1, <2>3, <3>1 DEF Tidy, Strangers
    <3> QED BY <1>4, <2>3, <3>1, <3>2
  <2>4. CASE h # g /\ c \in cmds
    <3>1. call'[h] = call[h] /\ call[h] # Idle
        BY <1>6, <2>4
    <3> QED BY <2>4, <3>1 DEF CallsInv, Separate
  <2> QED BY <1>1, <2>1, <2>2, <2>3, <2>4
<1>12. OnePlace'
  <2> DEFINE fair(x) == Fair(x)'
  <2>1. \A x : fair(x) => Fair(x)
      BY <1>1 DEF Fair
  <2>2. op = "unlock" /\ fair(name) => name \in holds[g]
      BY <1>1 DEF Fair
  <2>3. \A h \in Goroutine : Told(h)' => h # g /\ Told(h) /\ call'[h] = call[h]
      BY <1>3, <1>6, <2>1 DEF Told
  <2>4. \A c : Carries(c)' /\ c = n => op = "unlock" /\ fair(name)
    <3>1. \A c : Carries(c)' => fair(c.name) /\ (Granted(c) \/ GivenBack(c))
        BY DEF Carries, Granted, GivenBack
    <3>2. ~Granted(n) /\ (GivenBack(n) <=> op = "unlock")
        BY <1>4 DEF Granted, GivenBack
    <3> QED BY <1>4, <3>1, <3>2
  <2>5. \A c \in cmds : Carries(c)' => Carries(c)
      BY <2>1 DEF Carries, Granted, GivenBack
  <2>6. \A h \in Goroutine : holds'[h] = IF h = g /\ op = "unlock" THEN holds[g] \ {name} ELSE holds[h]
      BY <1>1 DEF CallsInv, CallsTyped
  <2>7. LockIsExclusive'
      BY <1>1, <2>6 DEF CallsInv, OnePlace, LockIsExclusive
  <2>8. op = "unlock" /\ fair(name) =>
            /\ name \in held /\ \A h \in Goroutine : name \notin holds'[h]
            /\ \A h \in Goroutine : Told(h) => call[h].name # name
            /\ \A c \in cmds : Carries(c) => c.name # name
    <3> SUFFICES ASSUME op = "unlock", fair(name)
                 PROVE  /\ name \in held /\ \A h \in Goroutine : name \notin holds'[h]
                        /\ \A h \in Goroutine : Told(h) => call[h].name # name
                        /\ \A c \in cmds : Carries(c) => c.name # name
        OBVIOUS
    <3>1. name \in holds[g] /\ name \in Name \ spoiled /\ ~ReadsAsSuccess(name)
        BY <2>1, <2>2 DEF Fair
    <3> HIDE DEF fair
    <3>2. name \in held /\ \A h \in Goroutine \ {g} : name \notin holds[h]
        BY <3>1 DEF CallsInv, OnePlace, LockIsExclusive
    <3> QED BY <2>6, <3>1, <3>2 DEF CallsInv, OnePlace
  <2> HIDE DEF fair
  <2>9. ASSUME NEW h \in Goroutine, Told(h)'
        PROVE  /\ call'[h].name \in held'
               /\ \A i \in Goroutine : call'[h].name \notin holds'[i]
               /\ \A i \in Goroutine \ {h} : Told(i)' => call'[i].name # call'[h].name
      BY <1>1, <2>3, <2>6, <2>9 DEF CallsInv, OnePlace
  <2>10. ASSUME NEW c \in cmds', Carries(c)'
        PROVE  /\ c.name \in held'
               /\ \A h \in Goroutine : c.name \notin holds'[h]
               /\ \A h \in Goroutine : Told(h)' => call'[h].name # c.name
               /\ \A d \in cmds' : Carries(d)' /\ d.name = c.name => d = c
    <3>1. CASE c = n
        BY <1>1, <1>4, <2>3, <2>4, <2>5, <2>8, <2>10, <3>1
    <3>2. CASE c \in cmds
        BY <1>1, <1>4, <2>3, <2>4, <2>5, <2>6, <2>8, <2>10, <3>2 DEF CallsInv, OnePlace
    <3> QED BY <1>1, <3>1, <3>2
  <2> QED BY <2>7, <2>9, <2>10 DEF OnePlace
<1>13. OwnCommand'
    BY <1>1, <1>3, <1>4, <1>6, <1>7, <1>10 DEF CallsInv, OwnCommand, CmdTyped
<1>14. ASSUME setting'.patient PROVE OwnAnswer'
  <2>1. OwnAnswer
      BY <1>1, <1>14 DEF CallsInv
  <2>2. \A c \in cmds : c.own => c.by \in Goroutine /\ call'[c.by] = call[c.by]
      BY <1>6, <1>7, <1>10 DEF CmdTyped
  <2>3. call'[n.by].end = "none" /\ call'[n.by].got = 0
      BY <1>3, <1>4, <1>6
  <2>4. \A c \in cmds' : ~c.own \/ call'[c.by].end # "none" => Spent(c)
      BY <1>1, <1>4, <2>1, <2>2, <2>3 DEF OwnAnswer
  <2>5. \A c \in cmds' : c.own /\ call'[c.by].end = "none" =>
          call'[c.by].got = IF c.op \in {"get", "getchilds"} THEN c.sent ELSE 0
      BY <1>1, <1>4, <2>1, <2>2, <2>3 DEF OwnAnswer
  <2>6. \A h \in Goroutine : ~call'[h].alien
      BY <1>3, <1>6, <2>1 DEF OwnAnswer
  <2>7. \A h \in Goroutine : call'[h].end # "none" =>
          call'[h].end = "own" /\ call'[h].got = Brings(call'[h].op, call'[h].name)
      BY <1>3, <1>6, <2>1 DEF OwnAnswer
  <2> QED BY <2>4, <2>5, <2>6, <2>7 DEF OwnAnswer
<1> QED BY <1>8, <1>9, <1>11, <1>12, <1>13, <1>14 DEF CallsInv

(* The server answers: a lock is granted only when it is nowhere, and what *)
(* was being given back is then free.                                      *)
LEMMA AnsweredInv ==
    ASSUME CallsInv, NEW c \in cmds, Execute(c) \/ Refuse(c)
    PROVE  CallsInv'
<1>1. /\ c.result = "none" /\ setting' = setting /\ call' = call /\ holds' = holds
      /\ spoiled' = spoiled
    BY DEF Execute, Refuse
<1>2. CmdTyped(c) /\ \A b \in cmds : CmdTyped(b)
    BY DEF CallsInv
<1>3. /\ c.by \in Goroutine /\ c.own \in BOOLEAN /\ c.op \in Ops /\ c.name \in Name
      /\ c.sent = 0
    BY <1>1, <1>2 DEF CmdTyped
<1>4. \A r : Answered(c, r) => cmds' = (cmds \ {c}) \cup {With(c, c.own, r, c.sent)}
  <2>1. \A r : [c EXCEPT !.result = r] = With(c, c.own, r, c.sent)
      BY <1>2, CommandExcept, Zenon
  <2> QED BY <2>1, Zenon DEF Answered
<1>5. \E r \in {"success", "failure"} :
        /\ cmds' = (cmds \ {c}) \cup {With(c, c.own, r, c.sent)}
        /\ r = "success" => Execute(c)
        /\ r = "failure" => Refuse(c)
  <2>1. CASE Execute(c)
    <3>1. cmds' = (cmds \ {c}) \cup {With(c, c.own, "success", c.sent)}
        BY <1>4, <2>1, Zenon DEF Execute
    <3> QED BY <2>1, <3>1
  <2>2. CASE Refuse(c)
    <3>1. cmds' = (cmds \ {c}) \cup {With(c, c.own, "failure", c.sent)}
        BY <1>4, <2>2, Zenon DEF Refuse
    <3> QED BY <2>2, <3>1
  <2> QED BY <2>1, <2>2
<1>6. PICK r \in {"success", "failure"} :
        /\ cmds' = (cmds \ {c}) \cup {With(c, c.own, r, c.sent)}
        /\ r = "success" => Execute(c)
        /\ r = "failure" => Refuse(c)
    BY <1>5
<1> DEFINE d == With(c, c.own, r, c.sent)
<1>7. /\ d.by = c.by /\ d.own = c.own /\ d.op = c.op /\ d.name = c.name
      /\ d.result = r /\ d.sent = c.sent /\ Size(d) = Size(c)
      /\ d = With(d, d.own, d.result, d.sent)
    BY DEF With, Size
<1>8. cmds' = (cmds \ {c}) \cup {d}
    BY <1>6
<1> HIDE DEF d
<1>9. \A b \in cmds' : CmdTyped(b)
  <2>1. CmdTyped(d)
      BY <1>2, <1>7 DEF CmdTyped
  <2> QED BY <1>2, <1>8, <2>1
<1>10. held' \subseteq held \cup {c.name}
    BY DEF Execute, Refuse
<1>11. CallsTyped'
    BY <1>1, <1>3, <1>10 DEF CallsInv, CallsTyped
<1>12. Separate'
    BY <1>1, <1>7, <1>8 DEF CallsInv, Separate
<1>13. OnePlace'
  <2>1. \A h \in Goroutine : Told(h)' <=> Told(h)
      BY <1>1 DEF Told, Fair
  <2>2. OnePlace
      BY DEF CallsInv
  <2>3. \A b : Carries(b)' <=> Carries(b)
      BY <1>1 DEF Carries, Fair, Granted, GivenBack
  <2>4. Carries(c) <=> c.op = "unlock" /\ Fair(c.name)
      BY <1>1 DEF Carries, Granted, GivenBack
  <2>5. Carries(d) <=> c.op = "lock" /\ r = "success" /\ Fair(c.name)
      BY <1>3, <1>7 DEF Carries, GivenBack, Granted
  <2>6. CASE r = "success" /\ c.op = "lock"
    <3>1. c.name \notin held /\ held' = held \cup {c.name}
        BY <1>6, <2>6 DEF Execute
    <3>2. LockIsExclusive'
        BY <1>1, <2>2, <3>1 DEF LockIsExclusive, OnePlace
    <3>3. Fair(c.name) => \A h \in Goroutine : c.name \notin holds[h]
        BY <1>3, <2>2, <3>1 DEF LockIsExclusive, OnePlace, Fair
    <3>4. ASSUME NEW b \in cmds', Carries(b)'
          PROVE  /\ b.name \in held'
                 /\ \A h \in Goroutine : b.name \notin holds'[h]
                 /\ \A h \in Goroutine : Told(h)' => call'[h].name # b.name
                 /\ \A e \in cmds' : Carries(e)' /\ e.name = b.name => e = b
      <4>1. CASE b = d
          BY <1>1, <1>7, <1>8, <2>1, <2>2, <2>3, <2>5, <3>1, <3>3, <3>4, <4>1 DEF OnePlace
      <4>2. CASE b \in cmds
          BY <1>1, <1>7, <1>8, <2>1, <2>2, <2>3, <3>1, <3>4, <4>2 DEF OnePlace
      <4> QED BY <1>8, <4>1, <4>2
    <3> QED BY <1>1, <2>1, <2>2, <3>1, <3>2, <3>4 DEF OnePlace
  <2>7. CASE r = "success" /\ c.op = "unlock"
    <3>1. held' = held \ {c.name} /\ ~Carries(d)
        BY <1>6, <2>5, <2>7 DEF Execute
    <3>2. Fair(c.name) => /\ \A h \in Goroutine : c.name \notin holds[h]
                          /\ \A h \in Goroutine : Told(h) => call[h].name # c.name
                          /\ \A b \in cmds : Carries(b) /\ b.name = c.name => b = c
        BY <2>2, <2>4, <2>7 DEF OnePlace
    <3>3. LockIsExclusive'
        BY <1>1, <2>2, <3>1, <3>2 DEF LockIsExclusive, OnePlace, Fair
    <3>4. \A h \in Goroutine : Told(h) => Fair(call[h].name)
        BY DEF Told
    <3>5. \A b : Carries(b) => Fair(b.name)
        BY DEF Carries
    <3> QED BY <1>1, <1>8, <2>1, <2>2, <2>3, <3>1, <3>2, <3>3, <3>4, <3>5 DEF OnePlace
  <2>8. CASE ~(r = "success" /\ c.op \in {"lock", "unlock"})
    <3>1. held' = held
        BY <1>6, <2>8 DEF Execute, Refuse
    <3>2. ~Carries(d)
        BY <2>5, <2>8
    <3>3. LockIsExclusive'
        BY <1>1, <2>2, <3>1 DEF LockIsExclusive, OnePlace
    <3> QED BY <1>1, <1>8, <2>1, <2>2, <2>3, <3>1, <3>2, <3>3 DEF OnePlace
  <2> QED BY <2>6, <2>7, <2>8
<1>14. OwnCommand'
    BY <1>1, <1>7, <1>8 DEF CallsInv, OwnCommand
<1>15. ASSUME setting'.patient PROVE OwnAnswer'
  <2>1. OwnAnswer
      BY <1>1, <1>15 DEF CallsInv
  <2>2. ~Spent(c)
      BY <1>1 DEF Spent
  <2>3. c.own /\ call[c.by].end = "none"
      BY <1>3, <2>1, <2>2 DEF OwnAnswer
  <2>4. \A b \in cmds' : ~b.own \/ call'[b.by].end # "none" => Spent(b)
      BY <1>1, <1>7, <1>8, <2>1, <2>3 DEF OwnAnswer
  <2>5. \A b \in cmds' : b.own /\ call'[b.by].end = "none" =>
          call'[b.by].got = IF b.op \in {"get", "getchilds"} THEN b.sent ELSE 0
      BY <1>1, <1>7, <1>8, <2>1, <2>3 DEF OwnAnswer
  <2> QED BY <1>1, <2>1, <2>4, <2>5 DEF OwnAnswer
<1> QED BY <1>9, <1>11, <1>12, <1>13, <1>14, <1>15 DEF CallsInv

(* A call that is over leaves its command to nobody.  What it was told of  *)
(* a lock is held from then on, or forgotten.                              *)
LEMMA HangUpInv ==
    ASSUME CallsInv, NEW g \in Goroutine, Answer(g) \/ TimeOut(g)
    PROVE  CallsInv'
<1> DEFINE f(c) == With(c, IF c.by = g THEN FALSE ELSE c.own, c.result, c.sent)
<1>1. /\ setting' = setting /\ held' = held /\ spoiled' = spoiled
      /\ call' = [call EXCEPT ![g] = Idle]
      /\ cmds' = {IF c.by = g THEN [c EXCEPT !.own = FALSE] ELSE c : c \in cmds}
    BY DEF Answer, TimeOut, HangUp
<1>2. \A c \in cmds : CmdTyped(c)
    BY DEF CallsInv
<1>3. \A c \in cmds : (IF c.by = g THEN [c EXCEPT !.own = FALSE] ELSE c) = f(c)
  <2>1. \A c \in cmds : c = With(c, c.own, c.result, c.sent)
      BY <1>2 DEF CmdTyped
  <2> QED BY <1>2, <2>1, CommandExcept, Zenon
<1>4. cmds' = {f(c) : c \in cmds}
    BY <1>1, <1>3, Zenon
<1>5. \A c : /\ f(c).by = c.by /\ f(c).op = c.op /\ f(c).name = c.name
             /\ f(c).result = c.result /\ f(c).sent = c.sent /\ Size(f(c)) = Size(c)
             /\ f(c).own = IF c.by = g THEN FALSE ELSE c.own
             /\ f(c) = With(f(c), f(c).own, f(c).result, f(c).sent)
  <2>1. \A c, own : LET d == With(c, own, c.result, c.sent) IN
           /\ d.by = c.by /\ d.op = c.op /\ d.name = c.name
           /\ d.result = c.result /\ d.sent = c.sent /\ d.own = own
           /\ Size(d) = Size(c)
           /\ d = With(d, d.own, d.result, d.sent)
      BY WithFields
  <2> QED BY <2>1, Zenon
<1>6. \A c \in cmds : CmdTyped(f(c))
  <2> SUFFICES ASSUME NEW c \in cmds PROVE CmdTyped(f(c))
      OBVIOUS
  <2>1. (IF c.by = g THEN FALSE ELSE c.own) \in BOOLEAN
      BY <1>2, Zenon DEF CmdTyped
  <2>2. f(c).own \in BOOLEAN
      BY <1>5, <2>1, Zenon
  <2> HIDE DEF f
  <2> QED BY <1>2, <1>5, <2>2 DEF CmdTyped
<1> HIDE DEF f
<1>7. \A h \in Goroutine : call'[h] = IF h = g THEN Idle ELSE call[h]
    BY <1>1 DEF CallsInv, CallsTyped
<1>8. /\ Idle \in CallType /\ Idle.op = "none" /\ Idle.end = "none" /\ Idle.alien = FALSE
    BY DEF Idle, CallType, Whose, Pattern
<1>9. \A h \in Goroutine : holds'[h] = IF h = g /\ holds' # holds THEN holds[g] \cup {call[g].name}
                                                                ELSE holds[h]
    BY DEF Answer, TimeOut, CallsInv, CallsTyped
<1>10. holds' # holds =>
         /\ call[g].op = "lock" /\ call[g].end # "none" /\ ~call[g].err
         /\ call[g].name \in Name
    BY <1>8 DEF Answer, TimeOut, CallsInv, CallsTyped, Asking
<1>11. CallsTyped'
  <2>1. call' \in [Goroutine -> CallType]
      BY <1>1, <1>8 DEF CallsInv, CallsTyped
  <2>2. holds' \in [Goroutine -> SUBSET Name]
      BY <1>10 DEF Answer, TimeOut, CallsInv, CallsTyped
  <2> QED BY <1>1, <1>7, <2>1, <2>2 DEF CallsInv, CallsTyped
<1>12. \A c \in cmds' : CmdTyped(c)
    BY <1>4, <1>6
<1>13. Separate'
  <2>1. \A h \in Goroutine : call'[h] # Idle => h # g /\ call'[h] = call[h]
      BY <1>7
  <2> SUFFICES ASSUME NEW h \in Goroutine, call'[h] # Idle, NEW c \in cmds'
               PROVE  /\ c.by = h /\ ~c.own =>
                           \/ Deaf(call'[h].name, c.op, c.name)
                           \/ c.name = call'[h].name /\ Wordless(c.name)
                      /\ c.by # h /\ ConnOf[c.by] = ConnOf[h] =>
                           /\ Deaf(call'[h].name, c.op, c.name)
                           /\ ~(call'[h].op = "getchilds" /\ c.op = "getchilds")
      BY DEF Separate
  <2>2. PICK b \in cmds : c = f(b)
      BY <1>4
  <2>3. c.by = b.by /\ c.op = b.op /\ c.name = b.name
      BY <1>5, <2>2
  <2>4. c.by = h /\ ~c.own => ~b.own
      BY <1>5, <2>1, <2>2, Zenon
  <2> QED BY <2>1, <2>3, <2>4 DEF CallsInv, Separate
<1>14. OnePlace'
  <2>1. \A h \in Goroutine : Told(h)' <=> h # g /\ Told(h)
      BY <1>1, <1>7, <1>8 DEF Told, Fair
  <2>2. \A c : Carries(c)' <=> Carries(c)
      BY <1>1 DEF Carries, Fair, Granted, GivenBack
  <2>3. \A c : Carries(f(c)) <=> Carries(c)
      BY <1>5 DEF Carries, Granted, GivenBack
  <2>4. OnePlace
      BY DEF CallsInv
  <2>5. \A n : Fair(n) /\ holds' # holds /\ n = call[g].name => Told(g)
      BY <1>10 DEF Told
  <2>6. LockIsExclusive'
    <3> SUFFICES ASSUME NEW n \in Name, n \notin spoiled, ~ReadsAsSuccess(n),
                        NEW h \in Goroutine, n \in holds'[h]
                 PROVE  n \in held /\ \A i \in Goroutine \ {h} : n \notin holds'[i]
        BY <1>1 DEF LockIsExclusive
    <3>1. Fair(n)
        BY DEF Fair
    <3>2. CASE holds' # holds /\ n = call[g].name
      <4>1. n \in held /\ \A i \in Goroutine : n \notin holds[i]
          BY <2>4, <2>5, <3>1, <3>2 DEF OnePlace
      <4> QED BY <1>9, <4>1
    <3>3. CASE ~(holds' # holds /\ n = call[g].name)
      <4>1. \A i \in Goroutine : n \in holds'[i] <=> n \in holds[i]
          BY <1>9, <3>3
      <4> QED BY <2>4, <4>1 DEF OnePlace, LockIsExclusive
    <3> QED BY <3>2, <3>3
  <2>7. ASSUME NEW h \in Goroutine, Told(h)'
        PROVE  /\ call'[h].name \in held'
               /\ \A i \in Goroutine : call'[h].name \notin holds'[i]
               /\ \A i \in Goroutine \ {h} : Told(i)' => call'[i].name # call'[h].name
    <3>1. h # g /\ Told(h) /\ call'[h] = call[h] /\ Fair(call[h].name)
        BY <1>7, <2>1, <2>7 DEF Told
    <3> QED BY <1>1, <1>7, <1>9, <2>1, <2>4, <2>5, <3>1 DEF OnePlace
  <2>8. ASSUME NEW c \in cmds', Carries(c)'
        PROVE  /\ c.name \in held'
               /\ \A h \in Goroutine : c.name \notin holds'[h]
               /\ \A h \in Goroutine : Told(h)' => call'[h].name # c.name
               /\ \A d \in cmds' : Carries(d)' /\ d.name = c.name => d = c
    <3>1. PICK b \in cmds : c = f(b)
        BY <1>4
    <3>2. Carries(b) /\ b.name = c.name /\ Fair(c.name)
        BY <1>5, <2>2, <2>3, <2>8, <3>1 DEF Carries
    <3>3. /\ c.name \in held
          /\ \A h \in Goroutine : c.name \notin holds[h]
          /\ \A h \in Goroutine : Told(h) => call[h].name # c.name
          /\ \A d \in cmds : Carries(d) /\ d.name = c.name => d = b
        BY <2>4, <3>2 DEF OnePlace
    <3>4. \A d \in cmds' : Carries(d)' /\ d.name = c.name => d = c
        BY <1>4, <1>5, <2>2, <2>3, <3>1, <3>3
    <3> QED BY <1>1, <1>7, <1>9, <2>1, <2>5, <3>2, <3>3, <3>4
  <2> QED BY <2>6, <2>7, <2>8 DEF OnePlace
<1>15. OwnCommand'
  <2>1. \A c \in cmds : f(c).own => c.own /\ c.by # g /\ c.by \in Goroutine
      BY <1>2, <1>5 DEF CmdTyped
  <2> QED BY <1>4, <1>5, <1>7, <2>1 DEF CallsInv, OwnCommand
<1>16. ASSUME setting'.patient PROVE OwnAnswer'
  <2>1. OwnAnswer
      BY <1>1, <1>16 DEF CallsInv
  <2>2. \A c \in cmds : c.by = g => Spent(c)
      BY <1>1, <1>16, <2>1 DEF OwnAnswer, Answer, TimeOut
  <2>3. \A c \in cmds : Spent(f(c)) <=> Spent(c)
      BY <1>5 DEF Spent
  <2>4. \A c \in cmds : f(c).own => c.own /\ call'[c.by] = call[c.by]
      BY <1>2, <1>5, <1>7 DEF CmdTyped
  <2>5. ASSUME NEW b \in cmds, ~f(b).own \/ call'[f(b).by].end # "none"
        PROVE  Spent(f(b))
    <3>1. CASE b.by = g
        BY <2>2, <2>3, <3>1
    <3>2. CASE b.by # g
      <4>1. (~b.own \/ call[b.by].end # "none") => Spent(b)
          BY <2>1 DEF OwnAnswer
      <4>2. f(b).by = b.by /\ (f(b).own <=> b.own)
          BY <1>2, <1>5, <3>2 DEF CmdTyped
      <4>3. f(b).own => call'[b.by] = call[b.by]
          BY <2>4
      <4> QED BY <2>3, <2>5, <4>1, <4>2, <4>3
    <3> QED BY <3>1, <3>2
  <2>6. \A c \in cmds' : ~c.own \/ call'[c.by].end # "none" => Spent(c)
      BY <1>4, <2>5
  <2>7. \A c \in cmds' : c.own /\ call'[c.by].end = "none" =>
           call'[c.by].got = IF c.op \in {"get", "getchilds"} THEN c.sent ELSE 0
      BY <1>4, <1>5, <2>1, <2>4 DEF OwnAnswer
  <2>8. \A h \in Goroutine : call'[h].end # "none" =>
          call'[h].end = "own" /\ call'[h].got = Brings(call'[h].op, call'[h].name)
      BY <1>7, <1>8, <2>1 DEF OwnAnswer
  <2>9. \A h \in Goroutine : ~call'[h].alien
      BY <1>7, <1>8, <2>1 DEF OwnAnswer
  <2> QED BY <2>6, <2>7, <2>8, <2>9 DEF OwnAnswer
<1> QED BY <1>11, <1>12, <1>13, <1>14, <1>15, <1>16 DEF CallsInv

(* A line reaches every call that waits on its connection, and changes     *)
(* what none but the one of the goroutine that sent the command has got.   *)
LEMMA PackInv ==
    ASSUME CallsInv, NEW c \in cmds, processReceivedPack(c)
    PROVE  CallsInv'
<1> DEFINE l == NextLine(c)
           w == call[c.by]
           whose(h) == IF h = c.by /\ c.own THEN "own" ELSE "other"
           rest == With(c, c.own, c.result, c.sent + 1)
           hears(h) == ConnOf[h] = ConnOf[c.by] /\ call[h] # Idle
<1>1. /\ c.result # "none" /\ setting' = setting /\ held' = held /\ holds' = holds
      /\ spoiled' = spoiled
    BY DEF processReceivedPack
<1>2. CmdTyped(c) /\ \A b \in cmds : CmdTyped(b)
    BY DEF CallsInv
<1>3. /\ c.by \in Goroutine /\ c.own \in BOOLEAN /\ c.op \in Ops /\ c.name \in Name
      /\ c.result \in {"success", "failure"} /\ c.sent \in Nat /\ c.sent <= Size(c)
    BY <1>1, <1>2 DEF CmdTyped
<1>4. Size(c) \in Nat /\ Len(Data(c)) = Size(c)
    BY <1>3, SizeFacts
<1>5. cmds' = (cmds \ {c}) \cup (IF c.sent < Size(c) THEN {rest} ELSE {})
  <2>1. [c EXCEPT !.sent = c.sent + 1] = rest
      BY <1>2, CommandExcept, Zenon
  <2> QED BY <1>4, <2>1 DEF processReceivedPack
<1>6. /\ rest.by = c.by /\ rest.own = c.own /\ rest.op = c.op /\ rest.name = c.name
      /\ rest.result = c.result /\ rest.sent = c.sent + 1 /\ Size(rest) = Size(c)
      /\ rest = With(rest, rest.own, rest.result, rest.sent)
    BY DEF With, Size
<1>7. LineFits(c, l)
    BY <1>1, <1>2, NextLineFits
<1>8. \A h \in Goroutine : call[h] \in CallType /\ (call[h] # Idle => Asking(call[h]))
    BY DEF CallsInv, CallsTyped
<1>9. \A h : whose(h) \in Whose
    BY DEF Whose
<1>10. \A h \in Goroutine :
         call'[h] = IF hears(h) THEN Received(call[h], l, whose(h)) ELSE call[h]
    BY DEF processReceivedPack
<1>11. call' = [h \in Goroutine |-> call'[h]]
    BY DEF processReceivedPack
<1>12. hears(c.by) <=> w # Idle
    OBVIOUS
<1>13. Idle \in CallType /\ Idle.op = "none" /\ Idle.end = "none" /\ "none" \notin Ops
    BY DEF Idle, CallType, Whose, Pattern, Ops
<1>14. c.own => w.op = c.op /\ w.name = c.name /\ w # Idle
    BY <1>3, <1>13 DEF CallsInv, OwnCommand
<1>15. w # Idle /\ ~c.own => \/ Deaf(w.name, c.op, c.name)
                             \/ c.name = w.name /\ Wordless(c.name)
    BY <1>3 DEF CallsInv, Separate
<1> HIDE DEF l, rest, whose, hears
<1>16. ASSUME NEW h \in Goroutine
       PROVE  /\ call'[h] \in CallType /\ call'[h].op = call[h].op /\ call'[h].name = call[h].name
              /\ call'[h] # Idle => call[h] # Idle /\ Asking(call'[h])
  <2>1. CASE hears(h)
    <3>1. call[h] # Idle /\ call'[h] = Received(call[h], l, whose(h))
        BY <1>10, <2>1 DEF hears
    <3> QED BY <1>8, <1>9, <3>1, ReceivedFields
  <2>2. CASE ~hears(h)
      BY <1>8, <1>10, <2>2
  <2> QED BY <2>1, <2>2
<1>17. ASSUME NEW h \in Goroutine, h # c.by
       PROVE  /\ call'[h].end = call[h].end /\ call'[h].err = call[h].err
              /\ call'[h].got = call[h].got /\ call'[h].alien = call[h].alien
  <2>1. CASE hears(h)
    <3>1. call[h] # Idle /\ call'[h] = Received(call[h], l, whose(h))
        BY <1>10, <2>1 DEF hears
    <3>2. /\ Deaf(call[h].name, c.op, c.name)
          /\ ~(call[h].op = "getchilds" /\ c.op = "getchilds")
        BY <1>17, <2>1, <3>1 DEF hears, CallsInv, Separate
    <3>3. ~Ends(call[h], l) /\ ~Gathers(call[h], l)
        BY <1>7, <1>8, <3>1, <3>2, DeafFacts
    <3>4. ~Replaces(call[h], l)
        BY <1>7, <3>2 DEF Replaces, LineFits
    <3>5. call[h].err \in BOOLEAN
        BY <1>8 DEF CallType
    <3>6. call'[h].err = (call[h].err \/ FALSE)
        BY <1>8, <1>9, <3>1, <3>3, ReceivedFields
    <3>7. call'[h].err = call[h].err
        BY <3>5, <3>6, Zenon
    <3> QED BY <1>8, <1>9, <3>1, <3>3, <3>4, <3>7, ReceivedFields
  <2>2. CASE ~hears(h)
      BY <1>10, <2>2
  <2> QED BY <2>1, <2>2
<1> DEFINE v == call'[c.by]
<1>18. w # Idle =>
         /\ v.op = w.op /\ v.name = w.name
         /\ v.end = IF Ends(w, l) THEN whose(c.by) ELSE w.end
         /\ v.err = (w.err \/ (w.op = "lock" /\ Ends(w, l) /\ ~Contains(l.payload, <<"success">>)))
         /\ v.got = IF Gathers(w, l) THEN w.got + 1 ELSE IF Replaces(w, l) THEN 1 ELSE w.got
         /\ v.alien = IF Gathers(w, l) THEN w.alien \/ whose(c.by) = "other"
                      ELSE IF Replaces(w, l) THEN whose(c.by) = "other" ELSE w.alien
    BY <1>3, <1>8, <1>9, <1>10, <1>12, ReceivedFields
<1>19. w = Idle => v = Idle
    BY <1>3, <1>10, <1>12
<1> HIDE DEF v
<1>20. CallsTyped'
  <2>1. call' \in [Goroutine -> CallType]
      BY <1>11, <1>16
  <2> QED BY <1>1, <1>16, <2>1 DEF CallsInv, CallsTyped
<1>21. \A b \in cmds' : CmdTyped(b)
  <2>1. c.sent < Size(c) => CmdTyped(rest)
      BY <1>3, <1>4, <1>6 DEF CmdTyped
  <2> QED BY <1>2, <1>5, <2>1
<1>22. Separate'
  <2>1. \A h \in Goroutine : /\ call'[h] # Idle => call[h] # Idle
                             /\ call'[h].op = call[h].op /\ call'[h].name = call[h].name
      BY <1>16
  <2> SUFFICES ASSUME NEW h \in Goroutine, call'[h] # Idle, NEW b \in cmds'
               PROVE  /\ b.by = h /\ ~b.own =>
                           \/ Deaf(call'[h].name, b.op, b.name)
                           \/ b.name = call'[h].name /\ Wordless(b.name)
                      /\ b.by # h /\ ConnOf[b.by] = ConnOf[h] =>
                           /\ Deaf(call'[h].name, b.op, b.name)
                           /\ ~(call'[h].op = "getchilds" /\ b.op = "getchilds")
      BY DEF Separate
  <2>2. PICK d \in cmds : b.by = d.by /\ b.own = d.own /\ b.op = d.op /\ b.name = d.name
      BY <1>5, <1>6
  <2> QED BY <2>1, <2>2 DEF CallsInv, Separate
<1>23. OnePlace'
  <2>1. c.sent < Size(c) => ~Carries(rest)
      BY <1>3, <1>6 DEF Carries, Granted, GivenBack
  <2>2. \A b : Carries(b)' <=> Carries(b)
      BY <1>1 DEF Carries, Fair, Granted, GivenBack
  <2>3. \A n : Fair(n)' <=> Fair(n)
      BY <1>1 DEF Fair
  <2>4. Told(c.by)' /\ ~Told(c.by) => Carries(c) /\ w.name = c.name
    <3> SUFFICES ASSUME Told(c.by)', ~Told(c.by) PROVE Carries(c) /\ w.name = c.name
        OBVIOUS
    <3>1. v.op = "lock" /\ v.end # "none" /\ ~v.err /\ Fair(v.name)
        BY <2>3 DEF Told, v
    <3>2. w # Idle /\ w.op = "lock" /\ Fair(w.name)
        BY <1>13, <1>18, <1>19, <3>1
    <3>3. ~w.err
        BY <1>18, <3>1, <3>2
    <3>4. Ends(w, l)
        BY <1>18, <3>1, <3>2, <3>3 DEF Told
    <3>5. Contains(l.payload, <<"success">>)
        BY <1>18, <3>1, <3>2, <3>4
    <3>6. ~Deaf(w.name, c.op, c.name)
        BY <1>3, <1>7, <1>8, <3>2, <3>4, DeafFacts
    <3>7. w.name = c.name
        BY <1>3, <1>14, <1>15, <3>2, <3>6
    <3>8. l.cmd = "lockresult"
        BY <3>2, <3>4 DEF Ends
    <3>9. c.op = "lock" /\ c.sent = 0 /\ l.payload = <<c.name, c.result>>
        BY <1>7, <3>8 DEF LineFits
    <3>10. c.result # "failure"
        BY <3>2, <3>5, <3>7, <3>9 DEF Fair, ReadsAsSuccess
    <3> QED BY <1>3, <3>2, <3>7, <3>9, <3>10 DEF Carries, Granted
  <2>5. \A h \in Goroutine : call'[h].name = call[h].name /\ (h # c.by => (Told(h)' <=> Told(h)))
      BY <1>16, <1>17, <2>3 DEF Told
  <2>6. \A b \in cmds' : Carries(b)' => Carries(b) /\ b \in cmds /\ b # c
      BY <1>5, <2>1, <2>2
  <2>7. OnePlace
      BY DEF CallsInv
  <2>8. LockIsExclusive'
      BY <1>1, <2>7 DEF OnePlace, LockIsExclusive
  <2>9. \A i \in Goroutine : Told(i)' => Told(i) \/ (i = c.by /\ Carries(c) /\ call[i].name = c.name)
      BY <2>4, <2>5
  <2>10. ASSUME NEW h \in Goroutine, Told(h)'
         PROVE  /\ call'[h].name \in held'
                /\ \A i \in Goroutine : call'[h].name \notin holds'[i]
                /\ \A i \in Goroutine \ {h} : Told(i)' => call'[i].name # call'[h].name
      BY <1>1, <2>5, <2>7, <2>9, <2>10 DEF OnePlace
  <2>11. ASSUME NEW b \in cmds', Carries(b)'
         PROVE  /\ b.name \in held'
                /\ \A h \in Goroutine : b.name \notin holds'[h]
                /\ \A h \in Goroutine : Told(h)' => call'[h].name # b.name
                /\ \A d \in cmds' : Carries(d)' /\ d.name = b.name => d = b
      BY <1>1, <2>5, <2>6, <2>7, <2>9, <2>11 DEF OnePlace
  <2> QED BY <2>8, <2>10, <2>11 DEF OnePlace
<1>24. OwnCommand'
  <2>1. \A b \in cmds : call'[b.by].op = call[b.by].op /\ call'[b.by].name = call[b.by].name
      BY <1>2, <1>16 DEF CmdTyped
  <2> QED BY <1>5, <1>6, <2>1 DEF CallsInv, OwnCommand
<1>25. ASSUME setting'.patient PROVE OwnAnswer'
  <2>1. OwnAnswer
      BY <1>1, <1>25 DEF CallsInv
  <2>2. w.alien = FALSE
    <3>1. w.alien \in BOOLEAN /\ ~w.alien
        BY <1>3, <1>8, <2>1 DEF OwnAnswer, CallType
    <3> QED BY <3>1, Zenon
(* A line that is left of a spent command changes no call.                 *)
  <2>3. CASE Spent(c)
    <3>1. /\ l.cmd = "endresponse" /\ ~(c.sent < Size(c)) /\ c.op \in {"lock", "unlock"}
          /\ l.payload \in {<<c.op, c.name>>, <<c.op, NoName>>}
      <4>1. c.sent = Size(c) /\ c.op \in {"lock", "unlock"}
          BY <2>3 DEF Spent
      <4>2. ~(c.sent < Size(c))
          BY <1>4, <4>1
      <4> QED BY <1>7, <4>1, <4>2 DEF LineFits
    <3>2. w # Idle => ~Ends(w, l)
      <4> SUFFICES ASSUME w # Idle PROVE ~Ends(w, l)
          OBVIOUS
      <4>1. Asking(w)
          BY <1>3, <1>8
      <4>2. CASE w.op \in {"lock", "unlock"}
          BY <3>1, <4>2 DEF Ends
      <4>3. CASE w.op \notin {"lock", "unlock"} /\ Deaf(w.name, c.op, c.name)
          BY <1>7, <4>1, <4>3, DeafFacts
      <4>4. CASE w.op \notin {"lock", "unlock"} /\ c.name = w.name /\ Wordless(c.name)
        <5>1. /\ ~Contains(l.payload, <<"get">>) /\ ~Contains(l.payload, <<"getchilds">>)
              /\ ~Contains(l.payload, <<"set", w.name>>)
              /\ ~Contains(l.payload, <<"delete", w.name>>)
            BY <3>1, <4>4 DEF Wordless
        <5> QED BY <4>1, <4>4, <5>1 DEF Ends, Asking, Ops
      <4> QED BY <1>14, <1>15, <3>1, <4>2, <4>3, <4>4
    <3>3. ~Gathers(w, l) /\ ~Replaces(w, l)
        BY <3>1 DEF Gathers, Cuts, Replaces
    <3>4. v.op = w.op /\ v.name = w.name /\ v.end = w.end /\ v.got = w.got /\ v.alien = w.alien
        BY <1>18, <1>19, <3>2, <3>3
    <3>5. \A h \in Goroutine : /\ call'[h].op = call[h].op /\ call'[h].name = call[h].name
                               /\ call'[h].end = call[h].end /\ call'[h].got = call[h].got
                               /\ call'[h].alien = call[h].alien
        BY <1>16, <1>17, <3>4 DEF v
    <3>6. cmds' = cmds \ {c}
        BY <1>5, <3>1
    <3>7. \A b \in cmds : b.by \in Goroutine
        BY <1>2 DEF CmdTyped
    <3> QED BY <2>1, <3>5, <3>6, <3>7 DEF OwnAnswer
(* Any other line is one of the command that the call waits for.           *)
  <2>4. CASE ~Spent(c)
    <3>1. /\ c.own /\ w.end = "none"
          /\ w.got = IF c.op \in {"get", "getchilds"} THEN c.sent ELSE 0
        BY <2>1, <2>4 DEF OwnAnswer
    <3>2. w.op = c.op /\ w.name = c.name /\ w # Idle
        BY <1>14, <3>1
    <3>3. whose(c.by) = "own"
        BY <3>1, Zenon DEF whose
    <3>4. v.end = IF Ends(w, l) THEN "own" ELSE "none"
        BY <1>18, <3>1, <3>2, <3>3
    <3>5. v.alien = FALSE
      <4>1. whose(c.by) # "other"
          BY <3>3
      <4> QED BY <1>18, <2>2, <3>2, <4>1
    <3>6. c.sent < Size(c) => v.got = IF c.op \in {"get", "getchilds"} THEN c.sent + 1 ELSE 0
      <4> SUFFICES ASSUME c.sent < Size(c)
                   PROVE  v.got = IF c.op \in {"get", "getchilds"} THEN c.sent + 1 ELSE 0
          OBVIOUS
      <4>1. l.cmd # "endresponse"
          BY <1>3, <1>4, <1>7 DEF LineFits
      <4>2. CASE c.op = "get"
        <5>1. l.cmd = "varvalue" /\ Contains(l.payload, <<Before[c.name]>>)
            BY <1>7, <4>1, <4>2 DEF LineFits
        <5>2. Before[w.pattern] = Before[c.name]
          <6>1. w.pattern \in {c.name, Before[c.name]}
              BY <1>3, <1>8, <3>2 DEF Asking
          <6> QED BY <1>3, <6>1, CallsAssumption
        <5>3. Gathers(w, l)
            BY <3>2, <4>2, <5>1, <5>2 DEF Gathers, Cuts
        <5> QED BY <1>18, <3>1, <3>2, <4>2, <5>3
      <4>3. CASE c.op = "getchilds"
        <5>1. l.cmd = "childs" /\ c.sent = 0
            BY <1>7, <4>1, <4>3 DEF LineFits
        <5>2. ~Gathers(w, l) /\ Replaces(w, l)
            BY <3>2, <4>3, <5>1 DEF Gathers, Cuts, Replaces
        <5> QED BY <1>18, <3>2, <4>3, <5>1, <5>2
      <4>4. CASE c.op \notin {"get", "getchilds"}
        <5>1. ~Gathers(w, l) /\ ~Replaces(w, l)
            BY <3>2, <4>4 DEF Gathers, Cuts, Replaces
        <5> QED BY <1>18, <3>1, <3>2, <4>4, <5>1
      <4> QED BY <4>2, <4>3, <4>4
    <3>7. c.sent < Size(c) /\ Ends(w, l) => Spent(rest)
      <4> SUFFICES ASSUME c.sent < Size(c), Ends(w, l) PROVE Spent(rest)
          OBVIOUS
      <4>1. l.cmd \in {"lockresult", "unlockdone"}
        <5>1. l.cmd # "endresponse"
            BY <1>3, <1>4, <1>7 DEF LineFits
        <5>2. w.op \in Ops
            BY <1>3, <1>8, <3>2 DEF Asking
        <5> QED BY <5>1, <5>2 DEF Ends, Ops
      <4>2. c.op \in {"lock", "unlock"} /\ c.sent = 0
          BY <1>7, <4>1 DEF LineFits
      <4>3. Size(c) = 1
          BY <4>2 DEF Size
      <4> QED BY <1>1, <1>6, <4>2, <4>3 DEF Spent
    <3>8. ~(c.sent < Size(c)) => v.got = Brings(c.op, c.name)
      <4> SUFFICES ASSUME ~(c.sent < Size(c)) PROVE v.got = Brings(c.op, c.name)
          OBVIOUS
      <4>1. c.sent = Size(c)
          BY <1>3, <1>4
      <4>2. l.cmd = "endresponse"
          BY <1>4, <1>7, <4>1 DEF LineFits
      <4>3. ~Gathers(w, l) /\ ~Replaces(w, l)
          BY <4>2 DEF Gathers, Cuts, Replaces
      <4>4. v.got = w.got
          BY <1>18, <3>2, <4>3
      <4> QED BY <3>1, <4>1, <4>4 DEF Size, Brings
    <3>9. Ends(w, l) => v.got = Brings(c.op, c.name)
      <4>1. c.sent < Size(c) /\ Ends(w, l) => c.op \in {"lock", "unlock"}
          BY <1>6, <3>7 DEF Spent
      <4>2. c.op \in {"lock", "unlock"} => Brings(c.op, c.name) = 0
          BY DEF Brings
      <4> QED BY <3>6, <3>8, <4>1, <4>2
    <3>10. \A b \in cmds \ {c} : b.own => b.by # c.by /\ b.by \in Goroutine
        BY <1>2, <3>1 DEF CallsInv, OwnCommand, CmdTyped
    <3>11. ASSUME NEW b \in cmds'
           PROVE  /\ ~b.own \/ call'[b.by].end # "none" => Spent(b)
                  /\ b.own /\ call'[b.by].end = "none" =>
                       call'[b.by].got = IF b.op \in {"get", "getchilds"} THEN b.sent ELSE 0
      <4>1. CASE b \in cmds \ {c}
        <5>1. b.own => call'[b.by].end = call[b.by].end /\ call'[b.by].got = call[b.by].got
            BY <1>17, <3>10, <4>1
        <5>2. /\ ~b.own \/ call[b.by].end # "none" => Spent(b)
              /\ b.own /\ call[b.by].end = "none" =>
                   call[b.by].got = IF b.op \in {"get", "getchilds"} THEN b.sent ELSE 0
            BY <2>1, <4>1 DEF OwnAnswer
        <5> QED BY <5>1, <5>2
      <4>2. CASE b = rest /\ c.sent < Size(c)
        <5>1. b.own /\ call'[b.by] = v /\ b.op = c.op /\ b.sent = c.sent + 1
            BY <1>6, <3>1, <4>2 DEF v
        <5> QED BY <3>4, <3>6, <3>7, <4>2, <5>1
      <4> QED BY <1>5, <4>1, <4>2
    <3>12. \A h \in Goroutine : ~call'[h].alien
        BY <1>17, <2>1, <3>5 DEF OwnAnswer, v
    <3>13. \A h \in Goroutine : call'[h].end # "none" =>
             call'[h].end = "own" /\ call'[h].got = Brings(call'[h].op, call'[h].name)
      <4>1. v.op = c.op /\ v.name = c.name
          BY <1>18, <3>2
      <4> QED BY <1>16, <1>17, <2>1, <3>4, <3>9, <4>1 DEF OwnAnswer, v
    <3> QED BY <3>11, <3>12, <3>13 DEF OwnAnswer
  <2> QED BY <2>3, <2>4
<1> QED BY <1>20, <1>21, <1>22, <1>23, <1>24, <1>25 DEF CallsInv

(* The invariant holds in every reachable state of the calls. *)
THEOREM CallsIInv == CallsSpec => []CallsInv
<1>1. CallsInv /\ CallsNext => CallsInv'
  <2> SUFFICES ASSUME CallsInv, CallsNext PROVE CallsInv'
      OBVIOUS
  <2>1. ASSUME NEW g \in Goroutine, NEW r \in setting.requests[g], Ask(g, r[1], r[2])
        PROVE  CallsInv'
    <3>1. setting.requests[g] \subseteq Ops \X Name
        BY CallsAssumption DEF CallsInv, CallsTyped
    <3> QED BY <2>1, <3>1, AskInv
  <2> QED BY <2>1, AnsweredInv, PackInv, HangUpInv DEF CallsNext
<1>2. CallsInv /\ UNCHANGED callVars => CallsInv'
  <2> SUFFICES ASSUME CallsInv, UNCHANGED callVars PROVE CallsInv'
      OBVIOUS
  <2> USE DEF callVars
  <2>1. \A n : Fair(n)' <=> Fair(n)
      BY DEF Fair
  <2>2. CallsTyped' /\ Separate'
      BY DEF CallsInv, CallsTyped, Separate
  <2>3. \A g \in Goroutine : Told(g)' <=> Told(g)
      BY <2>1 DEF Told
  <2>4. \A c : Carries(c)' <=> Carries(c)
      BY <2>1 DEF Carries, Granted, GivenBack
  <2>5. LockIsExclusive'
      BY DEF CallsInv, OnePlace, LockIsExclusive
  <2>6. OnePlace'
      BY <2>3, <2>4, <2>5 DEF CallsInv, OnePlace
  <2>7. OwnCommand' /\ (setting'.patient => OwnAnswer')
      BY DEF CallsInv, OwnCommand, OwnAnswer
  <2> QED BY <2>2, <2>6, <2>7 DEF CallsInv
<1> QED BY CallsInitInv, <1>1, <1>2, PTL DEF CallsSpec

(* No two goroutines, of one process or of two, have the same lock, even   *)
(* when calls time out and their answers are taken by later ones, unless   *)
(* its name contains "success" or it was unlocked by one who had it not.   *)
THEOREM CallsLockIsExclusive == CallsSpec => []LockIsExclusive
<1>1. CallsInv => LockIsExclusive
    BY DEF CallsInv, OnePlace
<1> QED BY CallsIInv, <1>1, PTL

(* Patient calls whose names occur in no line of each other's answers take *)
(* none of these lines for their own, and miss none that is their own.     *)
THEOREM CallsSuccessIsOwn == CallsSpec => []SuccessIsOwn
<1>1. CallsInv => SuccessIsOwn
    BY DEF CallsInv, OwnAnswer, SuccessIsOwn
<1> QED BY CallsIInv, <1>1, PTL
============================================================================
