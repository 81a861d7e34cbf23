------------------------------ MODULE VarNames ------------------------------
(***************************************************************************)
(* Queries: how GetVars, SetVar, DelVar and GetChildsOfVar of              *)
(* sources/controller/controller.go turn the name a client sends into the  *)
(* names of variables, and work through them while other clients change    *)
(* the tree.                                                               *)
(*                                                                         *)
(* A name is the sequence of the words between its dots, below "vars.",    *)
(* which is the empty sequence.  A query has at most one '*' or increment  *)
(* instruction, a word of its own: pre.*.rest.  Words are made of the      *)
(* characters that setVar keeps, so that GetOnly leaves a name as it is.   *)
(* Key holds the names a variable may have; any other is over maxKeyLength *)
(* or maxKeyWordLength.  Raw access to the database is off.  Locking is    *)
(* module VarLock; here a lock is a child of the variable, that may appear *)
(* and change between any two steps.  Notifications are module             *)
(* Notifications.                                                          *)
(***************************************************************************)
EXTENDS RamTree, SequencesExt

CONSTANTS Client,       \* callers, each with one call under way at a time
          HiddenWord,   \* words that begin with an underscore
          LockWord,     \* "_lock"
          Locked,       \* the flag's "1"
          Unlocked,     \* and its "0"
          Request,      \* what clients ask for: an operation, a query, a value
          Dump,         \* dumps the server may have been started from
          MaxCalls      \* bound on calls and lock changes

(* Names that are no longer than the limits are finitely many, and so are  *)
(* their prefixes among them.                                              *)
ASSUME NameAssumption ==
    /\ Key \subseteq Seq(STRING) /\ IsFiniteSet(Key)
    /\ \A k \in Key : \A i \in 0 .. Len(k) : SubSeq(k, 1, i) \in Key
    /\ <<>> \in Key
    /\ \A k \in Key : Above[k] = {j \in Key : IsStrictPrefix(j, k)}
    /\ LockWord \in HiddenWord
    /\ {Locked, Unlocked} \subseteq Value

VARIABLES call,     \* the call each client has under way
          calls     \* how many there have been

vars == <<node, val, pending, call, calls>>

(* step    "idle", "walk", "work", "write", "done" or, for ever, "spin"    *)
(* walk    the names whose children are still to be listed                 *)
(* names   the names resolved and not yet worked on                        *)
(* acc     the names, with their values, to be returned                    *)
(* err     whether an error is returned                                    *)
(* stood   ghost: the variables that had a value when the call began       *)
(* touched ghost: the keys others have written since                       *)
NoQuery == [incr |-> "none", words |-> <<>>, pre |-> <<>>, star |-> FALSE,
            rest |-> <<>>]

Idle == [step |-> "idle", op |-> "none", q |-> NoQuery, arg |-> Empty,
         walk |-> <<>>, names |-> <<>>, acc |-> {}, err |-> FALSE,
         stood |-> {}, touched |-> {}]

Ops == {"get", "set", "del", "children"}

(* words are the numbers from initialvalue to maxValue of an instruction.  *)
Query == [incr : {"none", "valid", "invalid", "endless"}, words : Seq(STRING),
          pre : Seq(STRING), star : BOOLEAN, rest : Seq(STRING)]

IsRequest(r) == r.op \in Ops /\ r.q \in Query

ASSUME RequestAssumption == \A r \in Request : IsRequest(r)

(* A dump has keys and values. *)
ASSUME DumpAssumption == Dump \subseteq UNION {[K -> Value] : K \in SUBSET Key}

TypeOK ==
    /\ TreeTypeOK
    /\ \A p \in Client :
         /\ call[p].step \in {"idle", "walk", "work", "write", "done", "spin"}
         /\ call[p].op \in Ops \cup {"none"}
         /\ call[p].q.pre \in Seq(STRING)
         /\ ToSet(call[p].walk) \subseteq Key
         /\ call[p].step \in {"work", "write"} => call[p].names # <<>>
         /\ \A a \in call[p].acc : a.key \in Seq(STRING) /\ a.val \in Value \cup {Empty}
    /\ calls \in 0 .. MaxCalls

Init ==
    /\ \E lines \in Dump :
         /\ node = UNION {Above[k] \cup {k} : k \in DOMAIN lines}
         /\ val = [k \in Key |-> IF k \in DOMAIN lines THEN lines[k] ELSE Empty]
    /\ pending = FALSE
    /\ call = [p \in Client |-> Idle]
    /\ calls = 0
----------------------------------------------------------------------------
(* Name resolution. *)
IsHidden(k) == \E i \in DOMAIN k : k[i] \in HiddenWord

(* VarHelper.GetChildNames: the children whose own word is not hidden. *)
VisibleChildren_All(k) == IF k \in Key THEN GetChildNames(k) ELSE {}

VisibleChildren(k) ==
    IF k \in Key THEN {c \in GetChildNames(k) : Last(c) \notin HiddenWord} ELSE {}

(* What a name stands for in the tree; a name that ends in a dot is the    *)
(* same node as the name without it.                                       *)
ValueOf(n) == IF n.key \in Key THEN Get(n.key, Empty) ELSE Empty

(* ... but not when its lock is looked for: below "a." that is "a.._lock". *)
IsLocked(n) ==
    LET flag == Append(n.key, LockWord)
    IN  ~n.dotted /\ flag \in Key /\ Get(flag, Unlocked) \notin {Unlocked, Empty}

After(names) == IF names = <<>> THEN "done" ELSE "work"

(* How a call begins.  resolveIncrementInstructions returns no names for   *)
(* an instruction it understands, an error for one it does not (of which   *)
(* GetChildsOfVar makes an empty answer), and never returns when the step  *)
(* does not lead to the maximum.  The name before a '*' is the first one   *)
(* resolved, with its dot.                                                 *)
Resolving(q) ==
    CASE q.incr = "valid"   -> [step |-> "done", names |-> <<>>, err |-> FALSE]
      [] q.incr = "invalid" -> [step |-> "done", names |-> <<>>, err |-> TRUE]
      [] q.incr = "endless" -> [step |-> "spin", names |-> <<>>, err |-> FALSE]
      [] OTHER -> [step  |-> IF q.star THEN "walk" ELSE "work",
                   names |-> <<[key |-> q.pre, dotted |-> q.star]>>,
                   err   |-> FALSE]

Begin(p, r) ==
    /\ call[p].step = "idle"
    /\ calls < MaxCalls
    /\ LET first == IF r.op = "get" /\ r.q = NoQuery      \* "cannot be empty"
                    THEN [step |-> "done", names |-> <<>>, err |-> TRUE]
                    ELSE Resolving(r.q)
       IN  call' = [call EXCEPT ![p] =
             [Idle EXCEPT !.op = r.op, !.q = r.q, !.arg = r.arg,
                          !.walk = IF first.step = "walk" THEN <<r.q.pre>> ELSE <<>>,
                          !.step = first.step, !.names = first.names,
                          !.err = first.err,
                          !.stood = {k \in Key : val[k] # Empty}]]
    /\ calls' = calls + 1
    /\ UNCHANGED tree

(* resolveWildCardsgetAllChildNames goes depth first, each node's children *)
(* read when it is reached and taken in the order of a map iteration.      *)
Visit_OneLevel(p) ==
    /\ call[p].step = "walk"
    /\ LET h == Head(call[p].walk)
           new == IF h = call[p].q.pre THEN <<>>
                  ELSE <<[key |-> h \o call[p].q.rest, dotted |-> FALSE]>>
       IN \E kids \in SetToSeqs(IF new = <<>> THEN VisibleChildren(h) ELSE {}) :
            LET walk == kids \o Tail(call[p].walk) IN
              call' = [call EXCEPT ![p].walk = walk,
                                   ![p].names = @ \o new,
                                   ![p].step = IF walk = <<>> THEN "work" ELSE "walk"]
    /\ UNCHANGED <<tree, calls>>

Visit(p) ==
    /\ call[p].step = "walk"
    /\ LET h == Head(call[p].walk)
           new == IF h = call[p].q.pre THEN <<>>
                  ELSE <<[key |-> h \o call[p].q.rest, dotted |-> FALSE]>>
       IN \E kids \in SetToSeqs(VisibleChildren(h)) :
            LET walk == kids \o Tail(call[p].walk) IN
              call' = [call EXCEPT ![p].walk = walk,
                                   ![p].names = @ \o new,
                                   ![p].step = IF walk = <<>> THEN "work" ELSE "walk"]
    /\ UNCHANGED <<tree, calls>>
----------------------------------------------------------------------------
(* Working through the names. *)
AtName(p, op, step) == call[p].step = step /\ call[p].op = op

Name(p) == Head(call[p].names)

(* The call as it is once its current name is done with. *)
Onward(p, new) ==
    [call[p] EXCEPT !.names = Tail(@), !.step = After(Tail(call[p].names)),
                    !.acc = @ \cup new]

Fail(p) ==
    /\ call' = [call EXCEPT ![p].names = <<>>, ![p].step = "done", ![p].err = TRUE]
    /\ UNCHANGED <<tree, calls>>

Goto(p, step) ==
    /\ call' = [call EXCEPT ![p].step = step]
    /\ UNCHANGED <<tree, calls>>

(* A write to k, noted by every other call under way. *)
Wrote(p, k, next) ==
    call' = [r \in Client |->
               CASE r = p                   -> next
                 [] call[r].step = "idle"   -> call[r]
                 [] OTHER -> [call[r] EXCEPT !.touched = @ \cup {k}]]

GetName(p) ==
    /\ AtName(p, "get", "work")
    /\ LET v == ValueOf(Name(p)) IN
         call' = [call EXCEPT ![p] =
           Onward(p, IF v = Empty THEN {} ELSE {[key |-> Name(p).key, val |-> v]})]
    /\ UNCHANGED <<tree, calls>>

(* A child is returned by its own word, without the name it is below.      *)
ChildrenOfName_LastOnly(p) ==
    /\ AtName(p, "children", "work")
    /\ call' = [call EXCEPT ![p] =
         [Onward(p, {}) EXCEPT !.acc = {[key |-> <<Last(c)>>, val |-> Empty] :
                                          c \in VisibleChildren(Name(p).key)}]]
    /\ UNCHANGED <<tree, calls>>

ChildrenOfName(p) ==
    /\ AtName(p, "children", "work")
    /\ call' = [call EXCEPT ![p] =
         Onward(p, {[key |-> <<Last(c)>>, val |-> Empty] :
                      c \in VisibleChildren(Name(p).key)})]
    /\ UNCHANGED <<tree, calls>>

(* What setVar refuses whatever the state of the variable. *)
Refused(n, v) ==
    n.key = <<>> \/ IsHidden(n.key) \/ n.key \notin Key \/ v \notin Value \cup {Empty}

SetRefused(p) ==
    /\ AtName(p, "set", "work")
    /\ Refused(Name(p), call[p].arg)
    /\ Fail(p)

SetLocked_GoesOn(p) ==
    /\ AtName(p, "set", "work")
    /\ ~Refused(Name(p), call[p].arg)
    /\ IsLocked(Name(p))
    /\ call' = [call EXCEPT ![p] = Onward(p, {})]
    /\ UNCHANGED <<tree, calls>>

SetLocked(p) ==
    /\ AtName(p, "set", "work")
    /\ ~Refused(Name(p), call[p].arg)
    /\ IsLocked(Name(p))
    /\ Fail(p)

SetAllowed(p) ==
    /\ AtName(p, "set", "work")
    /\ ~Refused(Name(p), call[p].arg)
    /\ ~IsLocked(Name(p))
    /\ Goto(p, "write")

SetWrite(p) ==
    /\ AtName(p, "set", "write")
    /\ Set(Name(p).key, call[p].arg)
    /\ Wrote(p, Name(p).key, Onward(p, {}))
    /\ UNCHANGED calls

(* delVar looks first whether there is a value ... *)
DelMissing(p) ==
    /\ AtName(p, "del", "work")
    /\ ValueOf(Name(p)) = Empty
    /\ Fail(p)

DelFound(p) ==
    /\ AtName(p, "del", "work")
    /\ ValueOf(Name(p)) # Empty
    /\ Goto(p, "write")

(* ... and deletes the variable, which may have gone meanwhile. *)
DelWrite(p) ==
    /\ AtName(p, "del", "write")
    /\ \/ DeleteValue(Name(p).key, FALSE)
       \/ ~HasValue(Name(p).key) /\ UNCHANGED tree
    /\ Wrote(p, Name(p).key, Onward(p, {}))
    /\ UNCHANGED calls

Return(p) ==
    /\ call[p].step = "done"
    /\ call' = [call EXCEPT ![p] = Idle]
    /\ UNCHANGED <<tree, calls>>

(* LockVar and UnlockVar of a plain name, as far as the tree is concerned. *)
SetFlag(flag, v) ==
    /\ calls < MaxCalls
    /\ Last(flag) = LockWord
    /\ v = Locked => Get(flag, Unlocked) \in {Unlocked, Empty}
    /\ Set(flag, v)
    /\ call' = [r \in Client |-> IF call[r].step = "idle" THEN call[r]
                                 ELSE [call[r] EXCEPT !.touched = @ \cup {flag}]]
    /\ calls' = calls + 1

Work(p) ==
    \/ Visit(p)
    \/ GetName(p)
    \/ ChildrenOfName(p)
    \/ SetRefused(p)
    \/ SetLocked(p)
    \/ SetAllowed(p)
    \/ SetWrite(p)
    \/ DelMissing(p)
    \/ DelFound(p)
    \/ DelWrite(p)

Step(p) == Work(p) \/ Return(p)

Next ==
    \/ \E p \in Client : Step(p) \/ \E r \in Request : Begin(p, r)
    \/ \E flag \in Key \ {<<>>}, v \in {Locked, Unlocked} : SetFlag(flag, v)

Spec == Init /\ [][Next]_vars
----------------------------------------------------------------------------
(* What a query asks for, said without reference to how it is resolved:    *)
(* the name itself or, for a '*', the name before it and, below it, every  *)
(* name on a path of words that are not hidden, followed by the rest.      *)
VisibleBelow(pre) ==
    {d \in Key : /\ IsStrictPrefix(pre, d)
                 /\ ~IsHidden(SubSeq(d, Len(pre) + 1, Len(d)))}

Matches(q) ==
    {q.pre} \cup (IF q.star THEN {d \o q.rest : d \in VisibleBelow(q.pre)} ELSE {})

Asked(p) == Matches(call[p].q)

(* A call without an increment instruction has returned its answer.  What  *)
(* becomes of a call with one is said in IncrementSetsAll.                 *)
Done(p, op) ==
    /\ call[p].step = "done" /\ call[p].op = op /\ ~call[p].err
    /\ call[p].q.incr = "none"

(* A returned GetVars has every variable the query asks for, and nothing   *)
(* else, as far as others left them alone: the walk misses none that stays *)
(* in place while its neighbours come and go.                              *)
AnswerIsExact == \A p \in Client : Done(p, "get") =>
    {a \in call[p].acc : a.key \notin call[p].touched} =
        {[key |-> k, val |-> val[k]] :
            k \in {j \in Asked(p) \cap Key :
                     val[j] # Empty /\ j \notin call[p].touched}}

(* A returned GetChildsOfVar lists the own word of every variable directly *)
(* below one that was asked for, as far as others left it alone, and no    *)
(* word that is internal or is of no name below one that was asked for.    *)
ChildrenAreListed == \A p \in Client : Done(p, "children") =>
    LET listed == {a.key : a \in call[p].acc} IN
      /\ \A c \in call[p].stood \ (call[p].touched \cup {<<>>}) :
            Front(c) \in Asked(p) /\ Last(c) \notin HiddenWord => <<Last(c)>> \in listed
      /\ \A n \in listed : \E c \in Key \ {<<>>} :
            n = <<Last(c)>> /\ Front(c) \in Asked(p) /\ Last(c) \notin HiddenWord

(* A SetVar or DelVar that reports success has reached every variable the  *)
(* query asks for that existed when it began, unless another call has      *)
(* written it since.                                                       *)
SuccessReachesAll == \A p \in Client : Done(p, "set") \/ Done(p, "del") =>
    \A k \in (call[p].stood \cap Asked(p)) \ call[p].touched :
        val[k] = IF call[p].op = "set" THEN call[p].arg ELSE Empty

(* controller.go:236-237 says that an increment instruction stands for the *)
(* values from initialvalue to maxValue: a SetVar that reports success has *)
(* set the variable of each of them.  It has not: none of the names that   *)
(* are generated is returned (controller.go:268-282).                      *)
IncrementSetsAll == \A p \in Client :
    /\ call[p].step = "done" /\ call[p].op = "set" /\ ~call[p].err
    /\ call[p].q.incr = "valid" /\ ~call[p].q.star
    => \A i \in DOMAIN call[p].q.words :
         LET k == call[p].q.pre \o <<call[p].q.words[i]>> \o call[p].q.rest
         IN  k \in Key \ call[p].touched => val[k] = call[p].arg

(* An internal name, such as a lock, is written by its owner or by a       *)
(* deletion that spells it out: no SetVar reaches one, and no deletion by  *)
(* what the '*' in its name stands for.                                    *)
HiddenIsKept ==
    [][\A k \in Key : IsHidden(k) /\ val'[k] # val[k] =>
         \/ \E v \in {Locked, Unlocked} : SetFlag(k, v)
         \/ \E p \in Client : /\ call[p].op = "del" /\ call'[p] # call[p]
                              /\ IsHidden(call[p].q.pre \o call[p].q.rest)]_vars
============================================================================
