--------------------------- MODULE CliConnection ---------------------------
(***************************************************************************)
(* The connection of the Go client library (sources/misc/goVssClient/      *)
(* vsscli/vsscli.go on sources/misc/evttcp/client): Connect and its steps, *)
(* the goroutine that installs the monitor, the loss of the connection and *)
(* the loop that connects again, Disconnect, and the subscriptions, which  *)
(* the client keeps by number and the server by the client's id.           *)
(*                                                                         *)
(* The library waits for no answer to setid, subscribe and unsubscribe,    *)
(* and the server (sources/services/apis/vstp/vstp.go) handles each line   *)
(* in a goroutine of its own: the lines of a connection are handled in any *)
(* order, under the id the connection has at that moment.                  *)
(* That the server forgets clients that stay away (module ClientLiveTime)  *)
(* is left out.                                                            *)
(*                                                                         *)
(* Every Connect makes a new TCPClient.  Its reader goroutine runs from    *)
(* the dial on, the subscription to the headers comes after it, and the    *)
(* handler of a loss after everything else.  A behaviour begins by         *)
(* choosing how the application and the network behave (habits).           *)
(***************************************************************************)
EXTENDS Naturals

CONSTANT MaxSubscriptions   \* bound on calls of Subscribe

ASSUME SubscriptionsAssumption == MaxSubscriptions \in Nat

VARIABLES habits,     \* reuse: vssReuseID; early: a connection may be lost
                      \* before it is monitored; hasty: Disconnect and
                      \* Subscribe are also called while Connect is running
          at,         \* the step of the Connect under way
          loop,       \* a reader goroutine is in the loop of OnDisconnect
          conn,       \* con of the current TCPClient: "none" is nil, "lost"
                      \* broken, "ended" broken and left by its reader
          handler,    \* OnDisconnect is installed in the current TCPClient
          active,     \* connectionIsActive
          headers,    \* what became of the server's headers
          suggested,  \* the suggested id in serverHeaders: "none", that of
                      \* an "old" connection or of the "new" one
          named,      \* clientId is not ""
          filed,      \* the server has the connection under clientId: "no",
                      \* "asked" (setid is on its way) or "yes"
          ids,        \* CustomObserverIdCount
          kept,       \* VarChangeObservings
          lines,      \* lines of subscriptions the server has not handled
          known,      \* subscriptions the server has under clientId
          vanished,   \* a subscription was sent that the server will not
                      \* have under clientId
          quit        \* Disconnect was called after the last Connect

connVars == <<habits, at, loop, conn, handler, active, headers, suggested, named,
              filed, ids, kept, lines, known, vanished, quit>>
subscriptions == <<ids, kept, lines, known, vanished>>

ConnTypeOK ==
    /\ habits \in [reuse : BOOLEAN, early : BOOLEAN, hasty : BOOLEAN]
    /\ at \in {"none", "dial", "listen", "headers", "exchange", "monitor"}
    /\ conn \in {"none", "up", "lost", "ended"}
    /\ headers \in {"due", "partly", "missed", "read"}
    /\ suggested \in {"none", "old", "new"}
    /\ filed \in {"no", "asked", "yes"}
    /\ {loop, handler, active, named, vanished, quit} \subseteq BOOLEAN
    /\ ids \in 0 .. MaxSubscriptions
    /\ kept \subseteq 1 .. ids
    /\ lines \subseteq {"subscribe", "unsubscribe"} \X (1 .. ids)
    /\ known \subseteq 1 .. ids

ConnInit ==
    /\ habits \in [reuse : BOOLEAN, early : BOOLEAN, hasty : BOOLEAN]
    /\ at = "none"
    /\ conn = "none"
    /\ headers = "due"
    /\ loop = FALSE /\ handler = FALSE /\ active = FALSE
    /\ suggested = "none" /\ filed = "no"
    /\ named = FALSE
    /\ ids = 0 /\ kept = {} /\ lines = {} /\ known = {}
    /\ vanished = FALSE /\ quit = FALSE
----------------------------------------------------------------------------
(* What the server has not handled when it loses a connection comes too    *)
(* late: it no longer knows whose it is.                                   *)
LinesAreDropped ==
    /\ lines' = {}
    /\ vanished' = (vanished \/ \E l \in lines : l[1] = "subscribe")
    /\ UNCHANGED <<ids, kept, known>>

(* Connect *)
Connect ==
    /\ at = "none"
    /\ at' = "dial"
    /\ conn' = "none"
    /\ handler' = FALSE
    /\ headers' = "due"
    /\ suggested' = IF suggested = "new" THEN "old" ELSE suggested
    /\ filed' = "no"
    /\ LinesAreDropped
    /\ UNCHANGED <<habits, loop, active, named>>

(* After Disconnect the application waits until the old reader is gone. *)
AppConnects ==
    /\ ~loop
    /\ ~named \/ quit
    /\ ~(conn = "lost" /\ handler)
    /\ Connect
    /\ quit' = FALSE

LoopConnects ==
    /\ loop /\ active
    /\ Connect
    /\ UNCHANGED quit

Step(here, next) ==
    /\ at = here
    /\ at' = next
    /\ UNCHANGED <<habits, active, subscriptions, quit>>

Dialed ==
    /\ Step("dial", "listen")
    /\ conn' = "up"
    /\ UNCHANGED <<loop, handler, headers, suggested, named, filed>>

DialFails ==
    /\ Step("dial", "none")
    /\ UNCHANGED <<loop, conn, handler, headers, suggested, named, filed>>

(* The reader goroutine streams headers before readHeaders has subscribed; *)
(* the id that the server suggests is among the first of them.             *)
HeadersPass ==
    /\ conn = "up"
    /\ headers' = IF headers = "due" THEN "partly" ELSE "missed"
    /\ headers \in {"due", "partly"}
    /\ Step("listen", "listen")
    /\ UNCHANGED <<loop, conn, handler, suggested, named, filed>>

Listen ==
    /\ Step("listen", "headers")
    /\ UNCHANGED <<loop, conn, handler, headers, suggested, named, filed>>

readHeaders ==
    /\ conn = "up"
    /\ headers \in {"due", "partly"}
    /\ Step("headers", "exchange")
    /\ suggested' = IF headers = "due" THEN "new" ELSE suggested
    /\ headers' = "read"
    /\ UNCHANGED <<loop, conn, handler, named, filed>>

(* Five seconds are enough for headers that come at all.  The TCP          *)
(* connection of a Connect that fails is left open.                        *)
HeadersTimeOut_NoRetry ==
    /\ headers = "missed" \/ conn # "up"
    /\ Step("headers", "none")
    /\ loop' = FALSE
    /\ UNCHANGED <<conn, handler, headers, suggested, named, filed>>

HeadersTimeOut ==
    /\ headers = "missed" \/ conn # "up"
    /\ Step("headers", "none")
    /\ UNCHANGED <<loop, conn, handler, headers, suggested, named, filed>>

NeedsId == ~named \/ ~habits.reuse

exchangeFails ==
    /\ NeedsId /\ suggested = "none"
    /\ Step("exchange", "none")
    /\ UNCHANGED <<loop, conn, handler, headers, suggested, named, filed>>

(* Whether setid could be sent is not looked at.  A connection has the id  *)
(* that was suggested on it before setid is handled.                       *)
Filed == IF conn # "up" THEN "no"
         ELSE IF NeedsId /\ suggested = "new" THEN "yes" ELSE "asked"

exchangeIds_AlwaysNew ==
    /\ suggested # "none"
    /\ at = "exchange"
    /\ at' = "monitor"
    /\ loop' = FALSE
    /\ named' = TRUE
    /\ filed' = Filed
    /\ known' = {}
    /\ UNCHANGED <<habits, conn, handler, active, headers, suggested, ids, kept, lines, vanished, quit>>

exchangeIds ==
    /\ NeedsId => suggested # "none"
    /\ at = "exchange"
    /\ at' = "monitor"
    /\ loop' = FALSE
    /\ named' = TRUE
    /\ filed' = Filed
    /\ known' = IF NeedsId THEN {} ELSE known
    /\ UNCHANGED <<habits, conn, handler, active, headers, suggested, ids, kept, lines, vanished, quit>>

(* The server handles setid. *)
setid ==
    /\ conn = "up"
    /\ filed = "asked"
    /\ filed' = "yes"
    /\ UNCHANGED <<habits, at, loop, conn, handler, active, headers, suggested, named,
                   subscriptions, quit>>

(* Connect has returned; the goroutine it started runs some time later. *)
monitorConnection ==
    /\ at = "monitor"
    /\ at' = "none"
    /\ active' = TRUE
    /\ handler' = TRUE
    /\ UNCHANGED <<habits, loop, conn, headers, suggested, named, filed, subscriptions, quit>>
----------------------------------------------------------------------------
(* The end of a connection. *)
Lose ==
    /\ conn = "up"
    /\ habits.early \/ handler
    /\ conn' = "lost"
    /\ LinesAreDropped
    /\ UNCHANGED <<habits, at, loop, handler, active, headers, suggested, named, filed, quit>>

(* readDataProcess gets an error and calls OnDisconnect, which does        *)
(* nothing unless monitorConnection has run.                               *)
ReaderEnds ==
    /\ conn = "lost"
    /\ conn' = "ended"
    /\ loop' = (loop \/ (handler /\ active))
    /\ UNCHANGED <<habits, at, handler, active, headers, suggested, named, filed,
                   subscriptions, quit>>

LoopEnds ==
    /\ loop /\ ~active
    /\ at = "none"
    /\ loop' = FALSE
    /\ UNCHANGED <<habits, at, conn, handler, active, headers, suggested, named, filed,
                   subscriptions, quit>>

(* With a nil con this would panic. *)
Disconnect_OnlyCloses ==
    /\ conn # "none"
    /\ ~quit
    /\ ~habits.hasty => at = "none" /\ ~loop
    /\ conn' = IF conn = "up" THEN "lost" ELSE conn
    /\ quit' = TRUE
    /\ LinesAreDropped
    /\ UNCHANGED <<habits, at, loop, handler, active, headers, suggested, named, filed>>

Disconnect ==
    /\ conn # "none"
    /\ ~quit
    /\ ~habits.hasty => at = "none" /\ ~loop
    /\ active' = FALSE
    /\ conn' = IF conn = "up" THEN "lost" ELSE conn
    /\ quit' = TRUE
    /\ LinesAreDropped
    /\ UNCHANGED <<habits, at, loop, handler, headers, suggested, named, filed>>
----------------------------------------------------------------------------
(* Subscriptions.  A line written to a connection that is broken may be    *)
(* taken by the system all the same.                                       *)
Fails == conn # "up"
Passes == conn # "none"

CallAllowed == named /\ (habits.hasty \/ (at = "none" /\ ~loop))

Send(l) == lines' = IF conn = "up" THEN lines \cup {l} ELSE lines

Subscribe ==
    /\ CallAllowed
    /\ ids < MaxSubscriptions
    /\ ids' = ids + 1
    /\ \/ Fails /\ UNCHANGED <<kept, lines, vanished>>
       \/ /\ Passes
          /\ kept' = kept \cup {ids + 1}
          /\ Send(<<"subscribe", ids + 1>>)
          /\ vanished' = (vanished \/ conn # "up")
    /\ UNCHANGED <<habits, at, loop, conn, handler, active, headers, suggested, named, filed,
                   known, quit>>

Unsubscribe(s) ==
    /\ CallAllowed
    /\ s \in kept
    /\ kept' = kept \ {s}
    /\ Send(<<"unsubscribe", s>>)
    /\ UNCHANGED <<habits, at, loop, conn, handler, active, headers, suggested, named, filed,
                   ids, known, vanished, quit>>

(* The server handles a line.  A subscription that overtakes the setid of  *)
(* a resumed session is filed under the id the server suggested.           *)
processReceivedMessage(l) ==
    /\ conn = "up"
    /\ lines' = lines \ {l}
    /\ known' = CASE filed # "yes"     -> known
                  [] filed = "yes" /\ l[1] = "subscribe"   -> known \cup {l[2]}
                  [] filed = "yes" /\ l[1] = "unsubscribe" -> known \ {l[2]}
    /\ vanished' = (vanished \/ (filed # "yes" /\ l[1] = "subscribe"))
    /\ UNCHANGED <<habits, at, loop, conn, handler, active, headers, suggested, named, filed,
                   ids, kept, quit>>
----------------------------------------------------------------------------
ClientStep ==
    \/ LoopConnects
    \/ DialFails
    \/ readHeaders
    \/ HeadersTimeOut
    \/ exchangeFails
    \/ exchangeIds
    \/ monitorConnection
    \/ ReaderEnds
    \/ LoopEnds

ConnNext ==
    \/ ClientStep
    \/ AppConnects
    \/ Dialed
    \/ HeadersPass
    \/ Listen
    \/ Lose
    \/ Disconnect
    \/ Subscribe
    \/ \E s \in kept : Unsubscribe(s)
    \/ setid
    \/ \E l \in lines : processReceivedMessage(l)

ConnSpec == ConnInit /\ [][ConnNext]_connVars

(* The client's goroutines run.  A server that is tried again and again    *)
(* answers once in a while, and readHeaders, which needs no message to     *)
(* subscribe, is not overtaken every time by headers that do.              *)
ConnFairness ==
    /\ WF_connVars(ClientStep)
    /\ WF_connVars(Listen)
    /\ SF_connVars(Dialed)
    /\ SF_connVars(Listen /\ headers = "due")
----------------------------------------------------------------------------
(* "If the connection results in sucess (error == nil), the server will    *)
(* monitor the connection and will retry the connection when it is lost":  *)
(* a connection lost while monitored comes back, as far as setid, whatever *)
(* Connects fail in between, unless the application disconnects.           *)
LossIsRepaired ==
    (conn = "lost" /\ handler /\ active /\ ~habits.early /\ ~habits.hasty)
        ~> ((conn = "up" /\ filed # "no") \/ ~active)

(* After Disconnect nothing connects again, for an application that does   *)
(* not disconnect in the middle of a Connect.                              *)
DisconnectIsFinal ==
    quit /\ ~habits.hasty => conn # "up" /\ at = "none" /\ ~loop

(* "It allow a better integration with vss server, avoid the need to redo  *)
(* the observations": with its id reused, a client that is connected again *)
(* has every subscription that it keeps at the server, or on its way       *)
(* there, across any number of losses and failed Connects.  The exceptions *)
(* are subscriptions whose line went to a broken connection, was not       *)
(* handled when the connection was lost, or overtook the setid of a        *)
(* resumed session: nothing repeats these (see vanished).                  *)
SubscriptionsSurvive ==
    habits.reuse /\ ~vanished /\ conn = "up" /\ filed = "yes" =>
        \A s \in kept : s \in known \/ <<"subscribe", s>> \in lines
============================================================================
