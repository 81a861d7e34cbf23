--------------------------- MODULE Notifications ---------------------------
(***************************************************************************)
(* From a change of one variable to the clients that observe it: the write *)
(* of setVar or delVar, notifyVarModification, notifyClientsAboutVarChange *)
(* and the values sent to a client that subscribes or reconnects           *)
(* (sources/controller/controller.go).                                     *)
(*                                                                         *)
(* Each change starts a goroutine, which reads the observers and starts    *)
(* one more for each of them; nothing orders these goroutines.  The lists  *)
(* of the wildcard names above and below the variable are read as well,    *)
(* but nobody is ever on them: ObserveVar resolves a wildcard to the names *)
(* that match it before it registers.  A change is known by its number;    *)
(* the records behind `listed' are in module Observers.                    *)
(***************************************************************************)
EXTENDS Naturals, Sequences, SequencesExt

CONSTANTS Client,       \* clients that may observe the variable
          MaxChanges,   \* bound on the number of changes
          MaxCommands   \* bound on subscribe, unsubscribe and reconnect

Number == 0 .. MaxChanges

VARIABLES changes,    \* number of changes made; the last one is in the storage
          deletes,    \* the numbers of those that deleted the variable
          spawned,    \* changes whose goroutine has not read the observers
          missed,     \* changes whose observers could not be read in time
          sending,    \* pairs <<client, change>> about to be sent
          listed,     \* clients on the observers list
          at,         \* the command each client has under way
          read,       \* the change whose value that command has read
          connected,  \* clients the API can reach
          got,        \* the changes each client was notified of, in order
          commands    \* number of commands

vars == <<changes, deletes, spawned, missed, sending, listed, at, read, connected,
          got, commands>>

Places == {"idle", "register", "read", "send", "remove"}

TypeOK ==
    /\ changes \in Number
    /\ deletes \in SUBSET Number
    /\ spawned \in SUBSET Number
    /\ missed \in SUBSET Number
    /\ sending \in SUBSET (Client \X Number)
    /\ listed \in SUBSET Client
    /\ at \in [Client -> Places]
    /\ read \in [Client -> Number]
    /\ connected \in SUBSET Client
    /\ got \in [Client -> Seq(Number)]
    /\ commands \in 0 .. MaxCommands

Init ==
    /\ changes = 0
    /\ deletes = {}
    /\ spawned = {}
    /\ missed = {}
    /\ sending = {}
    /\ listed = {}
    /\ at = [c \in Client |-> "idle"]
    /\ read = [c \in Client |-> 0]
    /\ connected = Client
    /\ got = [c \in Client |-> <<>>]
    /\ commands = 0
----------------------------------------------------------------------------
(* There is a value: getVarInternal returns it. *)
HasValue == changes > 0 /\ changes \notin deletes

Change ==
    /\ changes < MaxChanges
    /\ changes' = changes + 1
    /\ spawned' = spawned \cup {changes'}
    /\ UNCHANGED <<missed, sending, listed, at, read, connected, got, commands>>

setVar == Change /\ UNCHANGED deletes

delVar ==
    /\ HasValue
    /\ Change
    /\ deletes' = deletes \cup {changes'}

(* notifyVarModification: the observers of the moment, which need not be   *)
(* those of the time of the change, or none of them when the named lock of *)
(* the list is not had in time.                                            *)
notifyVarModification_OneClient(n) ==
    /\ n \in spawned
    /\ spawned' = spawned \ {n}
    /\ IF listed = {} THEN UNCHANGED sending
       ELSE sending' = sending \cup {<<CHOOSE c \in listed : TRUE, n>>}
    /\ UNCHANGED <<changes, deletes, missed, listed, at, read, connected, got, commands>>

notifyVarModification(n) ==
    /\ n \in spawned
    /\ spawned' = spawned \ {n}
    /\ \/ sending' = sending \cup (listed \X {n}) /\ UNCHANGED missed
       \/ missed' = missed \cup {n} /\ UNCHANGED sending
    /\ UNCHANGED <<changes, deletes, listed, at, read, connected, got, commands>>

(* A client that cannot be reached is not sent it, now or later. *)
Receive(c, n) == got' = IF c \in connected THEN [got EXCEPT ![c] = Append(@, n)] ELSE got

notifyClient(c, n) ==
    /\ <<c, n>> \in sending
    /\ sending' = sending \ {<<c, n>>}
    /\ Receive(c, n)
    /\ UNCHANGED <<changes, deletes, spawned, missed, listed, at, read, connected, commands>>
----------------------------------------------------------------------------
Command(c, step) ==
    /\ at[c] = "idle"
    /\ commands < MaxCommands
    /\ commands' = commands + 1
    /\ at' = [at EXCEPT ![c] = step]
    /\ UNCHANGED <<changes, deletes, spawned, missed, sending, listed, read, got>>

Goto(c, step) ==
    /\ at' = [at EXCEPT ![c] = step]
    /\ UNCHANGED <<changes, deletes, spawned, missed, sending, connected, commands>>

(* observeVar: registered first, the value read after that.  A client that *)
(* observes already is sent nothing.                                       *)
ObserveVar(c) ==
    /\ c \in connected \ listed
    /\ Command(c, "register")
    /\ UNCHANGED connected

Register(c) ==
    /\ at[c] = "register"
    /\ listed' = listed \cup {c}
    /\ Goto(c, "read")
    /\ UNCHANGED <<read, got>>

ReadValue_NotSent(c) ==
    /\ at[c] = "read"
    /\ Goto(c, "idle")
    /\ UNCHANGED <<listed, read, got>>

(* getVarInternal: without a value there is nothing to send. *)
ReadValue(c) ==
    /\ at[c] = "read"
    /\ IF HasValue THEN read' = [read EXCEPT ![c] = changes] /\ Goto(c, "send")
                   ELSE UNCHANGED read /\ Goto(c, "idle")
    /\ UNCHANGED <<listed, got>>

SendValue(c) ==
    /\ at[c] = "send"
    /\ Receive(c, read[c])
    /\ read' = [read EXCEPT ![c] = 0]
    /\ Goto(c, "idle")
    /\ UNCHANGED listed

StopObservingVar(c) ==
    /\ c \in connected \cap listed
    /\ Command(c, "remove")
    /\ UNCHANGED connected

RemoveObserver(c) ==
    /\ at[c] = "remove"
    /\ listed' = listed \ {c}
    /\ Goto(c, "idle")
    /\ UNCHANGED <<read, got>>

Disconnect(c) ==
    /\ at[c] = "idle"
    /\ c \in connected
    /\ connected' = connected \ {c}
    /\ UNCHANGED <<changes, deletes, spawned, missed, sending, listed, at, read, got, commands>>

(* ClientConnected: updateClientAboutObservatingVars sends the values of   *)
(* the variables the client observes.                                      *)
ClientConnected(c) ==
    /\ c \notin connected
    /\ connected' = connected \cup {c}
    /\ Command(c, IF c \in listed THEN "read" ELSE "idle")
----------------------------------------------------------------------------
CommandStep(c) ==
    \/ Register(c)
    \/ ReadValue(c)
    \/ SendValue(c)
    \/ RemoveObserver(c)

NotifyStep ==
    \/ \E n \in Number : notifyVarModification(n)
    \/ \E c \in Client, n \in Number : notifyClient(c, n)

Next ==
    \/ setVar
    \/ delVar
    \/ NotifyStep
    \/ \E c \in Client :
         \/ CommandStep(c)
         \/ ObserveVar(c)
         \/ StopObservingVar(c)
         \/ Disconnect(c)
         \/ ClientConnected(c)

Spec == Init /\ [][Next]_vars

(* Every goroutine that was started is scheduled. *)
FairSpec ==
    /\ Spec
    /\ \A c \in Client : WF_vars(CommandStep(c))
    /\ WF_vars(NotifyStep)
----------------------------------------------------------------------------
Observes(c) == c \in listed \cap connected /\ at[c] = "idle"

Told(c, n) == n \in Range(got[c])

Interrupted(c) == c \notin listed \cap connected \/ at[c] = "remove"

(* A change made while a client observes the variable and is connected is  *)
(* sent to it, unless it unsubscribes or disconnects first, or the lock of *)
(* the observers list timed out.                                           *)
EveryChangeArrives == \A c \in Client, n \in Number :
    (Observes(c) /\ n \in spawned) ~> (Told(c, n) \/ Interrupted(c) \/ n \in missed)

(* A client that has subscribed, or has resumed its session, comes to know *)
(* the value there is, however the change and the command interleaved.     *)
LatestArrives == \A c \in Client, n \in Number :
    (Observes(c) /\ changes = n /\ HasValue)
        ~> (Told(c, n) \/ Interrupted(c) \/ n \in missed \/ changes # n)
============================================================================
