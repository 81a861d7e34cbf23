------------------------------ MODULE MCVstp -------------------------------
(* The VSTP API and its clients: a behaviour is one of the sessions that   *)
(* the server keeps, or one of the calls of the Go client library.         *)
(*                                                                         *)
(* Sessions: three connections, so that one can resume the session of      *)
(* another that is open, closing or gone, and two goroutines.  Patient     *)
(* clients, with and without the startup of the server, and hurried ones.  *)
(*                                                                         *)
(* Calls: g1 and g2 share a connection, g3 is another process.  With all   *)
(* calls patient, g1 locks the lamp and gets all below it, and g2 gets the *)
(* fan, whose value has no other name in it, or the note, whose value      *)
(* names the lamp.  With calls that time out, g1 and g3 lock and unlock    *)
(* the lamp over and over, at times without having it.                     *)
EXTENDS VstpSessions, CliCalls, TLC

Patience(starting) ==
    [startup |-> starting, overlap |-> FALSE, pipelines |-> FALSE,
     abrupt |-> FALSE, jobs |-> 4]

Hurry(starting, n) ==
    [startup |-> starting, overlap |-> TRUE, pipelines |-> TRUE,
     abrupt |-> TRUE, jobs |-> n]

MCSetting ==
    {Patience(TRUE), Patience(FALSE), Hurry(TRUE, 2), Hurry(FALSE, 3)}

MCOverlap == {[Patience(FALSE) EXCEPT !.overlap = TRUE]}

MCSymmetry == Permutations(Conn) \cup Permutations(Worker)

MCConnOf == "g1" :> "c1" @@ "g2" :> "c1" @@ "g3" :> "c2"

MCName == {"lamp", "lamp.*", "fan", "note", "success"}

MCBefore == [n \in MCName \cup {"lamp."} |-> IF n = "lamp.*" THEN "lamp." ELSE n]

MCFound ==
    "lamp" :> << <<"lamp", "on">> >> @@
    "lamp.*" :> << <<"lamp.dim", "3">>, <<"lamp.hue", "4">> >> @@
    "fan" :> << <<"fan", "off">> >> @@
    "note" :> << <<"note", "lamp broken">> >> @@
    "success" :> << >>

(* Texts that are parts of other texts.                                    *)
Inside ==
    {<<"lamp", "lamp.*">>, <<"lamp.", "lamp.*">>, <<"lamp", "lamp.dim">>, <<"lamp.", "lamp.dim">>,
     <<"lamp", "lamp.hue">>, <<"lamp.", "lamp.hue">>, <<"lamp", "lamp broken">>,
     <<"get", "getchilds">>, <<"lock", "unlock">>}

Word == Ops \cup {"success"}

Payload ==
    (Ops \X (MCName \cup {NoName})) \cup (MCName \X {NoName, "success", "failure"})
    \cup UNION {{MCFound[n][i] : i \in 1 .. Len(MCFound[n])} : n \in MCName}

MCOccurs ==
    {<<t, p>> \in {<<x>> : x \in MCName \cup {"lamp."} \cup Word} \X Payload :
        \E i \in 1 .. 2 : t[1] = p[i] \/ <<t[1], p[i]>> \in Inside}
    \cup {<<p, p>> : p \in {"set", "delete"} \X MCName}

Locks(n) == {"lock", "unlock"} \X {n}

Anything ==
    "g1" :> Locks("lamp") \cup {<<"get", "lamp.*">>, <<"getchilds", "lamp">>}
    @@ "g2" :> {<<"get", "fan">>, <<"get", "note">>, <<"getchilds", "fan">>, <<"delete", "fan">>}
    @@ "g3" :> {}

LockOf(n) == "g1" :> Locks(n) @@ "g2" :> {} @@ "g3" :> Locks(n)

Calls(server, patient, n, requests) ==
    [server |-> server, patient |-> patient, inFlight |-> n, requests |-> requests]

MCCallSetting ==
    {Calls("documented", TRUE, 3, Anything), Calls("vstp", TRUE, 3, Anything),
     Calls("documented", FALSE, 2, LockOf("lamp")), Calls("documented", TRUE, 2, LockOf("success"))}

MCVstpCalls == {Calls("vstp", TRUE, 3, Anything)}

VARIABLE part

all == <<part, vars, callVars>>

(* The part that a behaviour is not about stays as it begins.              *)
MCInit ==
    /\ Init /\ CallsInit
    /\ part \in {"sessions", "calls"}
    /\ part # "sessions" => env = CHOOSE e \in Setting : TRUE
    /\ part # "calls" => setting = CHOOSE s \in CallSetting : TRUE

MCNext ==
    /\ \/ part = "sessions" /\ Next /\ UNCHANGED callVars
       \/ part = "calls" /\ CallsNext /\ UNCHANGED vars
    /\ UNCHANGED part

MCSpec == MCInit /\ [][MCNext]_all

SessionsOnly == MCInit /\ part = "sessions" /\ [][MCNext]_all

CallsOnly == MCInit /\ part = "calls" /\ [][MCNext]_all
============================================================================
