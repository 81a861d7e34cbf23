----------------------------- MODULE VarQueue ------------------------------
(***************************************************************************)
(* A queue of messages kept in variables of a server: sources/misc/        *)
(* goVssClient/varbasedrsm/varbasedqueue_default_impl.go over the Go       *)
(* client.  The variables of a queue are .lock, .count, .next and          *)
(* .items.N; programs post and consume through calls of the client, each   *)
(* of which is one step here.  Calls other than Lock do not fail.          *)
(*                                                                         *)
(* Every change of .count is notified to the programs that consume, and    *)
(* each notification starts a goroutine there, which goes through the      *)
(* queue unless another one does already.                                  *)
(*                                                                         *)
(* The code writes a number as NewDynamicVar(WithInt(n)) and reads a value *)
(* as NewDynamicVar(WithString(text)) (GetVar of vsscli.go).  NewDynamicVar*)
(* takes the option itself for the value: as it is no string and has no    *)
(* JSON, the result is the text of the option's address.                   *)
(***************************************************************************)
EXTENDS Integers, Sequences, SequencesExt

CONSTANTS Poster,       \* goroutines that post
          Consumer,     \* programs that consume, each with one Queue
          Runner,       \* goroutines for consumeMessages
          ConsumerOf,   \* the program of each runner
          MaxPosts      \* bound on the messages posted

Message == 1 .. MaxPosts

(* What a variable can have: nothing, a message, a number or an address.   *)
Missing == -1
WithInt == -2
WithString == -3

Place == 0 .. MaxPosts \cup {WithInt, WithString}

VARIABLES locked,     \* the flag of .lock, which knows no owner
          failed,     \* a Lock failed at some time
          count,      \* .count
          next,       \* .next
          items,      \* .items.N
          posting,    \* what each poster is doing
          size,       \* the .count it has read
          mine,       \* the message it posts
          posts,      \* number of messages that were begun to be posted
          posted,     \* the messages whose item was set
          watching,   \* consumers that have subscribed
          bells,      \* notifications that have not started a goroutine yet
          consuming,  \* currentlyConsuming
          running,    \* what each runner is doing
          pos,        \* the .next it has read
          taken,      \* the item it has read
          delivered   \* what IncomingMessages was given

posterVars == <<posting, size, mine, posts, posted>>
runnerVars == <<consuming, running, pos, taken, delivered>>
queueVars == <<locked, failed, count, next, items, watching, bells, posterVars, runnerVars>>

(* The code never creates .next; somebody else may have.                   *)
QueueInit ==
    /\ next \in {0, Missing}
    /\ locked = FALSE /\ failed = FALSE
    /\ count = Missing
    /\ items = [i \in Place |-> Missing]
    /\ posting = [p \in Poster |-> "idle"]
    /\ size = [p \in Poster |-> 0]
    /\ mine = [p \in Poster |-> 1]
    /\ posts = 0 /\ posted = {}
    /\ watching = {}
    /\ bells = [c \in Consumer |-> 0]
    /\ consuming = [c \in Consumer |-> FALSE]
    /\ running = [r \in Runner |-> "idle"]
    /\ pos = [r \in Runner |-> 0]
    /\ taken = [r \in Runner |-> Missing]
    /\ delivered = <<>>

NewDynamicVar(option, value) == option

GetVar(v) == IF v = Missing THEN Missing ELSE NewDynamicVar(WithString, v)

GetInt64(v) == IF v \in {WithInt, WithString} THEN 0 ELSE v
----------------------------------------------------------------------------
(* PostMessage *)
PostStep(p, here, there) ==
    /\ posting[p] = here
    /\ posting' = [posting EXCEPT ![p] = there]
    /\ UNCHANGED <<next, watching, runnerVars>>

PostMessage(p) ==
    /\ posts < MaxPosts
    /\ PostStep(p, "idle", "lock")
    /\ posts' = posts + 1
    /\ mine' = [mine EXCEPT ![p] = posts + 1]
    /\ UNCHANGED <<locked, failed, count, items, bells, size, posted>>

PostLock(p) ==
    /\ ~locked
    /\ PostStep(p, "lock", "count")
    /\ locked' = TRUE
    /\ UNCHANGED <<failed, count, items, bells, size, mine, posts, posted>>

(* It unlocks what it could not lock, and goes on.                         *)
PostLockFails(p) ==
    /\ PostStep(p, "lock", "count")
    /\ locked' = FALSE
    /\ failed' = TRUE
    /\ UNCHANGED <<count, items, bells, size, mine, posts, posted>>

PostReadsCount(p) ==
    /\ PostStep(p, "count", "item")
    /\ size' = [size EXCEPT ![p] = IF GetVar(count) = Missing THEN NewDynamicVar(WithInt, 0)
                                   ELSE GetVar(count)]
    /\ UNCHANGED <<locked, failed, count, items, bells, mine, posts, posted>>

PostSetsItem(p) ==
    /\ PostStep(p, "item", "bump")
    /\ items' = [items EXCEPT ![size[p]] = mine[p]]
    /\ posted' = posted \cup {mine[p]}
    /\ UNCHANGED <<locked, failed, count, bells, size, mine, posts>>

PostSetsCount(p) ==
    /\ PostStep(p, "bump", "unlock")
    /\ count' = NewDynamicVar(WithInt, GetInt64(size[p]) + 1)
    /\ bells' = [c \in Consumer |-> IF c \in watching THEN bells[c] + 1 ELSE bells[c]]
    /\ UNCHANGED <<locked, failed, items, size, mine, posts, posted>>

PostUnlocks(p) ==
    /\ PostStep(p, "unlock", "idle")
    /\ locked' = FALSE
    /\ UNCHANGED <<failed, count, items, bells, size, mine, posts, posted>>
----------------------------------------------------------------------------
(* BeginConsume: the server sends the value of .count, if there is one.    *)
BeginConsume(c) ==
    /\ c \notin watching
    /\ watching' = watching \cup {c}
    /\ bells' = IF count = Missing THEN bells ELSE [bells EXCEPT ![c] = @ + 1]
    /\ UNCHANGED <<locked, failed, count, next, items, posterVars, runnerVars>>

(* consumeMessages *)
RunStep(r, here, there) ==
    /\ running[r] = here
    /\ running' = [running EXCEPT ![r] = there]
    /\ UNCHANGED <<count, posterVars, watching>>

Notified(r) ==
    /\ bells[ConsumerOf[r]] > 0
    /\ RunStep(r, "idle", "check")
    /\ bells' = [bells EXCEPT ![ConsumerOf[r]] = @ - 1]
    /\ UNCHANGED <<locked, failed, next, items, consuming, pos, taken, delivered>>

(* The load and the store of currentlyConsuming are two steps.             *)
Check(r) ==
    /\ RunStep(r, "check", IF consuming[ConsumerOf[r]] THEN "idle" ELSE "mark")
    /\ UNCHANGED <<locked, failed, next, items, bells, consuming, pos, taken, delivered>>

Mark(r) ==
    /\ RunStep(r, "mark", "lock")
    /\ consuming' = [consuming EXCEPT ![ConsumerOf[r]] = TRUE]
    /\ UNCHANGED <<locked, failed, next, items, bells, pos, taken, delivered>>

RunnerLock(r) ==
    /\ ~locked
    /\ RunStep(r, "lock", "next")
    /\ locked' = TRUE
    /\ UNCHANGED <<failed, next, items, bells, consuming, pos, taken, delivered>>

RunnerLockFails(r) ==
    /\ RunStep(r, "lock", "next")
    /\ failed' = TRUE
    /\ UNCHANGED <<locked, next, items, bells, consuming, pos, taken, delivered>>

(* tryGetNextMessage; an error is tried again after an unlock.             *)
ReadNext(r) ==
    /\ RunStep(r, "next", IF GetVar(next) = Missing THEN "again" ELSE "count")
    /\ pos' = [pos EXCEPT ![r] = IF GetVar(next) = Missing THEN @ ELSE GetInt64(GetVar(next))]
    /\ UNCHANGED <<locked, failed, next, items, bells, consuming, taken, delivered>>

ReadCount(r) ==
    /\ RunStep(r, "count", IF GetVar(count) = Missing THEN "again"
                           ELSE IF pos[r] >= GetInt64(GetVar(count)) THEN "end" ELSE "item")
    /\ UNCHANGED <<locked, failed, next, items, bells, consuming, pos, taken, delivered>>

ReadItem(r) ==
    /\ RunStep(r, "item", IF GetVar(items[pos[r]]) = Missing THEN "again" ELSE "advance")
    /\ taken' = [taken EXCEPT ![r] = GetVar(items[pos[r]])]
    /\ UNCHANGED <<locked, failed, next, items, bells, consuming, pos, delivered>>

Advance(r) ==
    /\ RunStep(r, "advance", "delete")
    /\ next' = NewDynamicVar(WithInt, pos[r] + 1)
    /\ UNCHANGED <<locked, failed, items, bells, consuming, pos, taken, delivered>>

DeleteItem(r) ==
    /\ RunStep(r, "delete", "unlock")
    /\ items' = [items EXCEPT ![pos[r]] = Missing]
    /\ UNCHANGED <<locked, failed, next, bells, consuming, pos, taken, delivered>>

RunnerUnlock(r) ==
    /\ \/ RunStep(r, "unlock", "deliver")
       \/ RunStep(r, "again", "lock")
       \/ RunStep(r, "end", "clear")
    /\ locked' = FALSE
    /\ UNCHANGED <<failed, next, items, bells, consuming, pos, taken, delivered>>

processReceivedData(r) ==
    /\ RunStep(r, "deliver", "lock")
    /\ delivered' = Append(delivered, taken[r])
    /\ UNCHANGED <<locked, failed, next, items, bells, consuming, pos, taken>>

Clear(r) ==
    /\ RunStep(r, "clear", "idle")
    /\ consuming' = [consuming EXCEPT ![ConsumerOf[r]] = FALSE]
    /\ UNCHANGED <<locked, failed, next, items, bells, pos, taken, delivered>>
----------------------------------------------------------------------------
PosterStep(p) ==
    \/ PostMessage(p)
    \/ PostLock(p)
    \/ PostLockFails(p)
    \/ PostReadsCount(p)
    \/ PostSetsItem(p)
    \/ PostSetsCount(p)
    \/ PostUnlocks(p)

RunnerStep(r) ==
    \/ Notified(r)
    \/ Check(r)
    \/ Mark(r)
    \/ RunnerLock(r)
    \/ RunnerLockFails(r)
    \/ ReadNext(r)
    \/ ReadCount(r)
    \/ ReadItem(r)
    \/ Advance(r)
    \/ DeleteItem(r)
    \/ RunnerUnlock(r)
    \/ processReceivedData(r)
    \/ Clear(r)

QueueNext ==
    \/ \E p \in Poster : PosterStep(p)
    \/ \E c \in Consumer : BeginConsume(c)
    \/ \E r \in Runner : RunnerStep(r)

QueueSpec == QueueInit /\ [][QueueNext]_queueVars
----------------------------------------------------------------------------
(* The comment of NewDynamicVar: "You can use the functions 'WithString',  *)
(* 'WithInt', ... to specify the initial value".  Then .count is a number, *)
(* each message has a place of its own, and one that was posted stays in   *)
(* it until a consumer takes it, as long as no Lock failed.                *)
PostedIsKept ==
    ~failed => \A m \in posted :
        \/ \E i \in Place : items[i] = m
        \/ \E r \in Runner : taken[r] = m
        \/ m \in ToSet(delivered)
============================================================================
