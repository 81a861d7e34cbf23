----------------------------- MODULE CliCalls ------------------------------
(***************************************************************************)
(* The calls of the Go client library that wait for an answer (GetVar,     *)
(* SetVar, DeleteVar, GetChildNames, Lock and Unlock of vsscli.go), made   *)
(* by goroutines that share the connections of their processes, and the    *)
(* server at the other end.                                                *)
(*                                                                         *)
(* A call subscribes to every line that its connection receives, sends its *)
(* command and waits until some line looks like its answer or the time is  *)
(* up; the stream hands each line to all calls that wait.  Lines carry no  *)
(* number of a call: a call looks for texts in the whole payload of the    *)
(* line (strings.Contains), values and results included.                   *)
(*                                                                         *)
(* Two servers are possible: the one of docs/VSTP.md, which the library is *)
(* written for and which repeats the command in its answer, and the one    *)
(* of sources/services/apis/vstp/vstp.go.  Both handle the lines of a      *)
(* client concurrently.  The value of a set and the timeout of a lock are  *)
(* left out, and so are the values a get returns, of which module VarQueue *)
(* says what becomes.                                                      *)
(***************************************************************************)
EXTENDS Naturals, Sequences, FiniteSetsExt

CONSTANTS Goroutine,
          ConnOf,       \* the connection each goroutine uses
          Name,         \* names of variables
          Before,       \* a name up to its '*'; the name itself if it has none
          Found,        \* what a get of each name finds: payloads, the pairs
                        \* of a name and a value
          Occurs,       \* pairs <<text, payload>>, the text being part of the
                        \* payload's; texts are tuples of words, names and
                        \* values, payloads are pairs of these
          CallSetting   \* what a behaviour chooses from: see setting

Ops == {"set", "get", "delete", "getchilds", "lock", "unlock"}

NoName == "no name"

Whose == {"none", "own", "other"}

Contains(payload, text) == <<text, payload>> \in Occurs

(* Texts are parts of texts as the words, names and values are; what a get *)
(* finds, some number of payloads, begins with the name up to the '*'.     *)
ASSUME CallsAssumption ==
    /\ NoName \notin Name
    /\ CallSetting \subseteq [server : {"documented", "vstp"}, patient : BOOLEAN, inFlight : Nat,
                              requests : [Goroutine -> SUBSET (Ops \X Name)]]
    /\ \A n \in Name :
        /\ Before[Before[n]] = Before[n]
        /\ Len(Found[n]) \in Nat
        /\ \A i \in 1 .. Len(Found[n]) : Contains(Found[n][i], <<Before[n]>>)

(* A payload with a name has every part of the name.                       *)
ASSUME PartsAssumption ==
    \A p \in Occurs : \A n \in Name :
        /\ p[1] = <<n>> => Contains(p[2], <<Before[n]>>)
        /\ p[1] \in {<<"set", n>>, <<"delete", n>>} => Contains(p[2], <<n>>)

VARIABLES setting,  \* server: "documented" or "vstp"; patient: no call times
                    \* out while its answer is still to come; inFlight: bound
                    \* on the commands under way; requests: the pairs
                    \* <<op, name>> each goroutine asks for
          call,     \* the call each goroutine waits in: the name it looks
                    \* for, whose command the line belongs to that ended it,
                    \* how many lines it has gathered, some of them alien
          cmds,     \* commands on their way, in execution or being answered:
                    \* the result and the number of lines sent; the caller
                    \* still waits for the one that is `own'
          held,     \* the names that are locked
          holds,    \* the names each goroutine believes to have locked
          spoiled   \* names unlocked by one who did not have them

callVars == <<setting, call, cmds, held, holds, spoiled>>

Idle == [op |-> "none", name |-> NoName, pattern |-> NoName, end |-> "none", err |-> FALSE,
         got |-> 0, alien |-> FALSE]

CallsTypeOK ==
    /\ setting \in CallSetting
    /\ \A g \in Goroutine : call[g] # Idle =>
          call[g].op \in Ops /\ call[g].name \in Name /\ call[g].end \in Whose
    /\ Cardinality(cmds) <= setting.inFlight
    /\ held \subseteq Name /\ spoiled \subseteq Name
    /\ holds \in [Goroutine -> SUBSET Name]

CallsInit ==
    /\ setting \in CallSetting
    /\ call = [g \in Goroutine |-> Idle]
    /\ cmds = {}
    /\ held = {} /\ spoiled = {}
    /\ holds = [g \in Goroutine |-> {}]
----------------------------------------------------------------------------
(* What the goroutines may ask for.  Those of one process keep to names    *)
(* that occur in no line of an answer to the other, values included, and   *)
(* ask for children one at a time; one with lines of an earlier call still *)
(* to come asks for such a name, or for the same one if that has no word   *)
(* of a command in it.  Others do take lines that are not meant for them:  *)
(* two goroutines of a process that lock one name are both told success.   *)
Payloads(op, n) ==
    {<<op, n>>, <<op, NoName>>} \cup
    CASE op = "get"    -> {Found[n][i] : i \in 1 .. Len(Found[n])}
      [] op = "lock"   -> {<<n, "success">>, <<n, "failure">>}
      [] op = "unlock" -> {<<n, NoName>>}
      [] OTHER         -> {}

Deaf(n, op, m) == \A t \in Payloads(op, m) : ~Contains(t, <<Before[n]>>)

Wordless(n) ==
    \A op \in {"lock", "unlock"}, m \in {n, NoName} :
        \A word \in {<<"get">>, <<"getchilds">>, <<"set", n>>, <<"delete", n>>} : ~Contains(<<op, m>>, word)

Strangers(c, d) ==
    /\ Deaf(c.name, d.op, d.name) /\ Deaf(d.name, c.op, c.name)
    /\ ~(c.op = "getchilds" /\ d.op = "getchilds")

Tidy(g, op, n) ==
    /\ \A h \in Goroutine \ {g} : ConnOf[h] = ConnOf[g] =>
          \A c \in {d \in cmds : d.by = h} \cup ({call[h]} \ {Idle}) :
             Strangers([op |-> op, name |-> n], [op |-> c.op, name |-> c.name])
    /\ \A c \in cmds : c.by = g => Deaf(n, c.op, c.name) \/ (c.name = n /\ Wordless(n))

(* Equal commands of one goroutine are told apart by a number.             *)
Unused(g) == Min((1 .. setting.inFlight) \ {c.no : c \in {d \in cmds : d.by = g}})

(* The subscription, then the command.                                     *)
Ask(g, op, n) ==
    /\ call[g] = Idle
    /\ Cardinality(cmds) < setting.inFlight
    /\ Tidy(g, op, n)
    /\ call' = [call EXCEPT ![g] = [Idle EXCEPT !.op = op, !.name = n, !.pattern = n]]
    /\ cmds' = cmds \cup {[no |-> Unused(g), by |-> g, own |-> TRUE, op |-> op, name |-> n,
                           result |-> "none", sent |-> 0]}
    /\ holds' = IF op = "unlock" THEN [holds EXCEPT ![g] = @ \ {n}] ELSE holds
    /\ spoiled' = IF op = "unlock" /\ n \notin holds[g] THEN spoiled \cup {n} ELSE spoiled
    /\ UNCHANGED <<setting, held>>
----------------------------------------------------------------------------
(* The server. *)
Reply(cmd, payload) == [cmd |-> cmd, payload |-> payload]

(* The lines of an answer between its first and its last, and the last.    *)
Data(c) ==
    CASE c.op = "get" ->
            [i \in 1 .. Len(Found[c.name]) |-> Reply("varvalue", Found[c.name][i])]
      [] c.op = "getchilds" -> <<Reply("childs", <<NoName, NoName>>)>>
      [] c.op = "lock" /\ setting.server = "documented" ->
            <<Reply("lockresult", <<c.name, c.result>>)>>
      [] c.op = "unlock"    -> <<Reply("unlockdone", <<c.name, NoName>>)>>
      [] OTHER ->
            <<Reply(IF c.result = "success" THEN "success" ELSE "error", <<NoName, NoName>>)>>

(* processReceivedMessage ends with the command and no name.               *)
Last(c) ==
    Reply("endresponse", <<c.op, IF setting.server = "documented" THEN c.name ELSE NoName>>)

(* The library ends a name to delete with "=", which vstp.go takes for a   *)
(* part of the name.                                                       *)
Understood(c) == ~(setting.server = "vstp" /\ c.op = "delete")

Answered(c, result) == cmds' = (cmds \ {c}) \cup {[c EXCEPT !.result = result]}

Execute(c) ==
    /\ c.result = "none"
    /\ Understood(c)
    /\ c.op = "lock" => c.name \notin held
    /\ held' = CASE c.op = "lock"   -> held \cup {c.name}
                 [] c.op = "unlock" -> held \ {c.name}
                 [] OTHER           -> held
    /\ Answered(c, "success")
    /\ UNCHANGED <<setting, call, holds, spoiled>>

(* A lock that is not free in time, a name that nobody has, a set refused. *)
Refuse(c) ==
    /\ c.result = "none"
    /\ c.op = "lock" => c.name \in held
    /\ c.op \in {"set", "delete", "lock"}
    /\ Answered(c, "failure")
    /\ UNCHANGED <<setting, call, held, holds, spoiled>>
----------------------------------------------------------------------------
(* The client: what the function given to subscribeOnCommandWithATimeout   *)
(* makes of a line.                                                        *)
Ends_AnyName(w, l) ==
    CASE w.op \in {"set", "delete"}    -> l.cmd = "endresponse" /\ l.payload[1] = w.op
      [] w.op \in {"get", "getchilds"} -> l.cmd = "endresponse" /\ Contains(l.payload, <<w.op>>)
      [] w.op = "lock"                 -> l.cmd = "lockresult"
      [] w.op = "unlock"               -> l.cmd = "unlockdone"

(* "getchilds" contains "get".                                             *)
Ends(w, l) ==
    CASE w.op \in {"set", "delete"} ->
            l.cmd = "endresponse" /\ Contains(l.payload, <<w.op, w.name>>)
      [] w.op \in {"get", "getchilds"} ->
            l.cmd = "endresponse" /\ Contains(l.payload, <<w.op>>) /\ Contains(l.payload, <<w.pattern>>)
      [] w.op = "lock" ->
            l.cmd = "lockresult" /\ Contains(l.payload, <<w.pattern>>)
      [] w.op = "unlock" ->
            l.cmd = "unlockdone" /\ Contains(l.payload, <<w.pattern>>)

(* The first value makes a get look for its name up to the '*' only.       *)
Cuts(w, l) == w.op = "get" /\ l.cmd = "varvalue"

Gathers(w, l) == Cuts(w, l) /\ Contains(l.payload, <<Before[w.pattern]>>)

(* A list of children replaces the one before.                             *)
Replaces(w, l) == w.op = "getchilds" /\ l.cmd = "childs"

Received(w, l, whose) ==
    [w EXCEPT
        !.end = IF Ends(w, l) THEN whose ELSE @,
        !.err = @ \/ (w.op = "lock" /\ Ends(w, l) /\ ~Contains(l.payload, <<"success">>)),
        !.pattern = IF Cuts(w, l) THEN Before[@] ELSE @,
        !.got = IF Gathers(w, l) THEN @ + 1 ELSE IF Replaces(w, l) THEN 1 ELSE @,
        !.alien = IF Gathers(w, l) THEN @ \/ whose = "other"
                  ELSE IF Replaces(w, l) THEN whose = "other" ELSE @]

NextLine(c) == IF c.sent < Len(Data(c)) THEN Data(c)[c.sent + 1] ELSE Last(c)

(* processReceivedPack streams the line to every waiting call.             *)
processReceivedPack(c) ==
    /\ c.result # "none"
    /\ call' = [g \in Goroutine |->
                  IF ConnOf[g] = ConnOf[c.by] /\ call[g] # Idle
                  THEN Received(call[g], NextLine(c), IF g = c.by /\ c.own THEN "own" ELSE "other")
                  ELSE call[g]]
    /\ cmds' = (cmds \ {c}) \cup
               (IF c.sent < Len(Data(c)) THEN {[c EXCEPT !.sent = @ + 1]} ELSE {})
    /\ UNCHANGED <<setting, held, holds, spoiled>>

(* The subscription of the call is over, with its command or without it.   *)
HangUp(g) ==
    /\ call' = [call EXCEPT ![g] = Idle]
    /\ cmds' = {IF c.by = g THEN [c EXCEPT !.own = FALSE] ELSE c : c \in cmds}

Answer_ErrorIgnored(g) ==
    /\ call[g].end # "none"
    /\ holds' = IF call[g].op = "lock" THEN [holds EXCEPT ![g] = @ \cup {call[g].name}] ELSE holds
    /\ HangUp(g)
    /\ UNCHANGED <<setting, held, spoiled>>

Answer(g) ==
    /\ call[g].end # "none"
    /\ holds' = IF call[g].op = "lock" /\ ~call[g].err
                THEN [holds EXCEPT ![g] = @ \cup {call[g].name}] ELSE holds
    /\ HangUp(g)
    /\ UNCHANGED <<setting, held, spoiled>>

(* select may take the timeout even when there is an answer.               *)
TimeOut(g) ==
    /\ call[g] # Idle
    /\ setting.patient => call[g].end = "none" /\ ~\E c \in cmds : c.by = g /\ c.own
    /\ HangUp(g)
    /\ UNCHANGED <<setting, held, holds, spoiled>>
----------------------------------------------------------------------------
CallsNext ==
    \/ \E g \in Goroutine : \E r \in setting.requests[g] : Ask(g, r[1], r[2])
    \/ \E c \in cmds : Execute(c) \/ Refuse(c) \/ processReceivedPack(c)
    \/ \E g \in Goroutine : Answer(g) \/ TimeOut(g)

CallsSpec == CallsInit /\ [][CallsNext]_callVars
----------------------------------------------------------------------------
Brings(op, n) ==
    CASE op = "get"       -> Len(Found[n])
      [] op = "getchilds" -> 1
      [] OTHER            -> 0

(* Goroutines that share a connection and keep to names that occur in no   *)
(* line of each other's answers get their own answers, as long as they are *)
(* patient: a call ends with the last line of its own command, and brings  *)
(* back each variable that it found, once and no other.                    *)
SuccessIsOwn ==
    setting.patient =>
        \A g \in Goroutine : LET w == call[g] IN
            w.end # "none" => w.end = "own" /\ ~w.alien /\ w.got = Brings(w.op, w.name)

(* What a refused lock is taken for when its name contains "success".      *)
ReadsAsSuccess(n) == Contains(<<n, "failure">>, <<"success">>)

(* No two goroutines, of one process or of two, believe to have the same   *)
(* lock, and what they believe to have is locked at the server, even when  *)
(* calls time out and their answers come late, or in a later call.  The    *)
(* exceptions are names that contain "success", and names that were        *)
(* unlocked by one who did not have them, as a queue does after a Lock     *)
(* that failed and a caller does who repeats an Unlock that timed out.     *)
LockIsExclusive ==
    \A n \in Name \ spoiled : ~ReadsAsSuccess(n) =>
        \A g \in Goroutine : n \in holds[g] =>
            n \in held /\ \A h \in Goroutine \ {g} : n \notin holds[h]

(* docs/VSTP.md: the server answers a lock with                            *)
(* "lockresult:<variable-name>=success", and other commands with an        *)
(* endresponse that repeats them.  So a call waits only as long as its     *)
(* command is under way: once the server has said all it has to say, the   *)
(* call has its answer.                                                    *)
AnsweredIsReported ==
    \A g \in Goroutine :
        call[g] # Idle =>
            call[g].end # "none" \/ \E c \in cmds : c.by = g /\ c.own
============================================================================
