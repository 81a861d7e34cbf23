--------------------------- MODULE MCHttpRequests ----------------------------
(* The HTTP API: a behaviour is one of clients of the controller alone,    *)
(* with everything they may ask for, of requests of HTTP among a few of    *)
(* them, of a WebSocket, or of a VSTP client with the live time that the   *)
(* controller keeps of either.                                             *)
(*                                                                         *)
(* Requests meet in a tree of three levels, in which a variable, a leaf    *)
(* and a lock share a node.  It starts full, with a lock, or with a node   *)
(* without a value over two variables.  Operations meet plain names, a     *)
(* wildcard at the end, in the middle or alone, internal names, the empty  *)
(* name and increment instructions.                                        *)
(*                                                                         *)
(* A WebSocket, or a VSTP client, meets two goroutines of the controller   *)
(* that may take as long as the three seconds of waiting time.             *)
EXTENDS HttpRequests, HttpSockets

MCKey == {<<>>, <<"a">>, <<"a", "0">>, <<"a", "1">>,
          <<"a", "0", "1">>, <<"a", "0", "_lock">>}

MCAbove ==
    <<>> :> {} @@ <<"a">> :> {<<>>}
    @@ <<"a", "0">> :> {<<>>, <<"a">>} @@ <<"a", "1">> :> {<<>>, <<"a">>}
    @@ <<"a", "0", "1">> :> {<<>>, <<"a">>, <<"a", "0">>}
    @@ <<"a", "0", "_lock">> :> {<<>>, <<"a">>, <<"a", "0">>}

Plain(pre) == [NoQuery EXCEPT !.pre = pre]
Wild(pre, rest) == [Plain(pre) EXCEPT !.star = TRUE, !.rest = rest]
Incr(kind) == [Plain(<<"a">>) EXCEPT !.incr = kind,
                 !.words = IF kind = "valid" THEN <<"0", "1">> ELSE <<>>]
Ask(op, queries, args) == [op : {op}, q : queries, arg : args]

AX == Plain(<<"a", "0">>)
AXLock == Plain(<<"a", "0", "_lock">>)
Star == Wild(<<>>, <<>>)
AStar == Wild(<<"a">>, <<>>)
AStarY == Wild(<<"a">>, <<"1">>)

MCRequest ==
    Ask("get", {NoQuery, AXLock, Star, AStarY, Incr("endless")}, {""})
    \cup Ask("children", {AStar, Incr("invalid")}, {""})
    \cup Ask("set", {AX}, {"", "too long"})
    \cup Ask("set", {AXLock, AStar, Incr("valid")}, {"0"})
    \cup Ask("del", {AX, AXLock, AStar}, {""})

MCDump ==
    UNION {[K -> {"1"}] :
             K \in {MCKey \ {<<>>}, {<<"a", "0">>, <<"a", "1">>}}}

MCIndex == "0" :> 0 @@ "1" :> 1

MCSlot == <<"[0]", "[1]">>

Http(method, q, arg) ==
    [method |-> method, q |-> q, arg |-> arg, full |-> FALSE, export |-> "json"]

HttpGet(q) == Http("GET", q, "")

Document(method, q, doc) == Http(method, q, "") @@ [doc |-> doc]

Deep == <<"a", "0", "1">> :> "0" @@ <<"a", "1">> :> "0"
Kept == <<"a", "_value">> :> "1" @@ <<"a", "1">> :> "0"

MCHttpRequest ==
    {HttpGet(Plain(<<"a">>)), HttpGet(AX), HttpGet(AStar), HttpGet(AStarY),
     HttpGet(Incr("invalid")), [HttpGet(AStar) EXCEPT !.full = TRUE],
     [HttpGet(AX) EXCEPT !.export = "plain"], [HttpGet(AX) EXCEPT !.export = "other"]}
    \cup {Http("POST", AX, "0"), Http("DELETE", AX, ""), Http("UNLOCK", AX, ""),
          Http("LOCK", AX, "seconds"), Http("LOCK", AX, "x"),
          Http("bad json", AX, ""), Http("other", AX, ""), Http("no path", NoQuery, "")}
    \cup {Document("POST json", AX, doc) : doc \in {Deep, Kept}}
    \cup {Document("setjson", Plain(<<"a">>), <<"0">> :> "0" @@ <<"1">> :> "0"),
          Document("setjson", Plain(<<"a">>), <<>>)}

MCRival == Ask("set", {AX}, {"", "0"}) \cup Ask("del", {AX}, {""})

VARIABLE part

observed == <<timeVars, sock, broken>>

(* The parts that a behaviour is not about stay as they begin. *)
MCInit ==
    /\ HttpInit
    /\ part \in {"direct", "http", "websocket", "vstp"}
    /\ IF part = "vstp" THEN TimeInit /\ sock = "upgraded" /\ broken = FALSE ELSE WsInit
    /\ part \in {"websocket", "vstp"} => val = [k \in Key |-> IF k = <<>> THEN "" ELSE "1"]

MCNext ==
    /\ \/ part = "direct" /\ Next /\ UNCHANGED <<web, observed>>
       \/ part = "http" /\ HttpNext /\ UNCHANGED observed
       \/ part = "websocket" /\ WsNext /\ UNCHANGED httpVars
       \/ part = "vstp" /\ TimeNext /\ UNCHANGED <<httpVars, sock, broken>>
    /\ UNCHANGED part

MCSpec == MCInit /\ [][MCNext]_<<part, httpVars, observed>>

DirectOnly == MCInit /\ part = "direct" /\ [][MCNext]_<<part, httpVars, observed>>

MCSymmetry == Permutations(Client)
============================================================================
