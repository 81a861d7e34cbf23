---------------------------- MODULE HttpRequests ----------------------------
(***************************************************************************)
(* Requests of the HTTP API (handlePath and what it calls in               *)
(* sources/services/apis/httpapi/httpapi.go) and the setjson command of    *)
(* VSTP, over the calls of the controller in module VarNames.              *)
(*                                                                         *)
(* A JSON document is the function from the paths of its leaves to their   *)
(* values; one that is being built maps the paths of its objects to Object *)
(* as well.  Values are texts that are the same as a JSON value and back,  *)
(* `true' among them; a text that is itself an object is left out, and so  *)
(* are null, '*' and dots in the keys of a document.  Locking goes on in   *)
(* module VarLock: here it waits, is granted or times out.                 *)
(***************************************************************************)
EXTENDS VarNames

CONSTANTS HttpRequest,  \* what clients of HTTP, or setjson, may ask for
          Rival,        \* what others ask of the controller meanwhile
          Object,       \* marks an object in a JSON tree
          ValueWord,    \* "_value"
          True,         \* the value true
          Trye,         \* what is written for it when it is all there is
          Index,        \* the numbers that words spell
          Slot          \* Slot[n + 1] is the place of element n of an array

(* What is passed on to the controller, a lock, whose flag is a name too,  *)
(* and a document, whose leaves have names.                                *)
ASSUME HttpAssumption ==
    /\ \A r \in Rival : IsRequest(r)
    /\ \A r \in HttpRequest :
         /\ r.method \in {"GET", "POST", "DELETE"} => r.q \in Query
         /\ r.method \in {"LOCK", "UNLOCK"} => Append(r.q.pre, LockWord) \in Key
         /\ r.method \in {"POST json", "setjson"} =>
              r.q.pre \in Seq(STRING) /\ DOMAIN r.doc \subseteq Seq(STRING)

(* The names of answers.  Left out are names with an empty word, which     *)
(* insertNested skips, and numbers with leading zeros, which an array does *)
(* not show.  No variable ends in _value, which is hidden, and a GET       *)
(* without a name is not found.                                            *)
ASSUME AnswerAssumption ==
    /\ \A k \in Key : \A i \in DOMAIN k : k[i] # "" /\ k[i] \notin Range(Slot)
    /\ {ValueWord, ""} \subseteq STRING /\ ValueWord \in HiddenWord \ {LockWord, ""}
    /\ ValueWord \notin DOMAIN Index \cup Range(Slot)
    /\ \A lines \in Dump : \A k \in DOMAIN lines \ {<<>>} : Last(k) # ValueWord
    /\ Object \notin Value \cup {Trye}
    /\ \A j \in DOMAIN Index : Index[j] \in Nat /\ Index[j] + 1 \in DOMAIN Slot
    /\ \A j, k \in DOMAIN Index : Index[j] = Index[k] => j = k
    /\ Slot \in Seq(STRING) /\ \A i, j \in DOMAIN Slot : Slot[i] = Slot[j] => i = j
    /\ \A r \in HttpRequest : r.method = "GET" => r.q.star \/ r.q.pre # <<>>

VARIABLE web            \* the request each client has under way

httpVars == <<vars, web>>

(* step    "idle", "call" (in the controller), "build", "leaves", "lock",  *)
(*         "waiting" or "answered"                                         *)
(* found   what GetVars returned                                           *)
(* todo    names and values to put in the JSON, or leaves to set           *)
(* json    the JSON built                                                  *)
(* last    the leaf set last                                               *)
(* wrote   the leaves set, and failed those that SetVar refused            *)
NoRequest ==
    [step |-> "idle", req |-> [method |-> "none"], found |-> {}, todo |-> {},
     json |-> <<>>, last |-> <<>>, wrote |-> {}, failed |-> {}, status |-> 0]

HttpInit == Init /\ web = [p \in Client |-> NoRequest]

WebGoto(p, step) == web' = [web EXCEPT ![p].step = step]

Answer(p, status) ==
    web' = [web EXCEPT ![p].step = "answered", ![p].status = status]
----------------------------------------------------------------------------
(* handlePath *)
Free(p) == web[p].step = "idle" /\ call[p].step = "idle"

Accept(p, r, step) ==
    /\ Free(p)
    /\ web' = [web EXCEPT ![p] = [NoRequest EXCEPT !.req = r, !.step = step]]

Refusal(r) ==
    CASE r.method = "no path"                   -> 404
      [] r.method = "LOCK" /\ r.arg # "seconds" -> 400
      [] r.method = "bad json"                  -> 400
      [] r.method = "other"                     -> 405
      [] OTHER                                  -> 0

Reject(p, r) ==
    /\ Free(p)
    /\ Refusal(r) # 0
    /\ web' = [web EXCEPT ![p] = [NoRequest EXCEPT !.req = r, !.step = "answered",
                                                   !.status = Refusal(r)]]
    /\ UNCHANGED vars

CallOf(r) ==
    [op |-> CASE r.method = "GET"  -> "get"
              [] r.method = "POST" -> "set"
              [] OTHER             -> "del",
     q |-> r.q, arg |-> r.arg]

handleByName(p, r) ==
    /\ r.method \in {"GET", "POST", "DELETE"}
    /\ Accept(p, r, "call")
    /\ Begin(p, CallOf(r))

(* handlePostByName of a raw value, and handleDeleteByName *)
PostReturns(p) ==
    /\ web[p].step = "call" /\ web[p].req.method = "POST"
    /\ Return(p)
    /\ Answer(p, IF call[p].err THEN 403 ELSE 204)

DeleteReturns(p) ==
    /\ web[p].step = "call" /\ web[p].req.method = "DELETE"
    /\ Return(p)
    /\ Answer(p, IF call[p].err THEN 500 ELSE 204)
----------------------------------------------------------------------------
(* handleGetByName *)

(* trimWildcardBase: all of a name without a '*' at its end. *)
Base(r) == IF r.q.star /\ r.q.rest # <<>> THEN <<>> ELSE r.q.pre

(* The name before a '*' comes with its dot: its last word is empty. *)
NameOf(r, key) == IF r.q.star /\ key = r.q.pre THEN Append(key, "") ELSE key

Lone(r) == ~r.full /\ ~r.q.star /\ Len(r.q.pre) > 1

Relative(r, name) ==
    IF ~r.full /\ IsStrictPrefix(Base(r), name)
    THEN SubSeq(name, Len(Base(r)) + 1, Len(name)) ELSE name

Scalar(v) == IF v = True THEN Trye ELSE v

(* What there is to report, under the names it is reported by. *)
Items(p) ==
    {[path |-> Relative(web[p].req, NameOf(web[p].req, a.key)), val |-> a.val] :
        a \in call[p].acc}

GetFails(p) ==
    /\ web[p].step = "call" /\ web[p].req.method = "GET"
    /\ call[p].err
    /\ Return(p)
    /\ Answer(p, 500)

GetReturns(p) ==
    /\ web[p].step = "call" /\ web[p].req.method = "GET"
    /\ ~call[p].err
    /\ Return(p)
    /\ LET json == web[p].req.export = "json"
           lone == json /\ Lone(web[p].req) /\ call[p].acc # {} IN
         web' = [web EXCEPT
           ![p].found = call[p].acc,
           ![p].todo = IF lone THEN {} ELSE Items(p),
           ![p].json = IF lone
                       THEN [q \in {<<>>} |-> Scalar((CHOOSE a \in call[p].acc : TRUE).val)]
                       ELSE <<>>,
           ![p].status = IF web[p].req.export = "other" THEN 400 ELSE 200,
           ![p].step = IF json /\ ~lone THEN "build" ELSE "answered"]

(* insertNested: what is on the way becomes an object, with the value it   *)
(* had under _value; a value whose place is an object goes there too, and  *)
(* one without a last word goes nowhere.                                   *)
OnTheWay(path) == {SubSeq(path, 1, i) : i \in 1 .. Len(path) - 1}

insertNested_Replaces(t, path, v) ==
    [q \in (DOMAIN t \cup OnTheWay(path) \cup {path}) |->
        CASE q = path            -> v
          [] q \in OnTheWay(path) -> Object
          [] OTHER               -> t[q]]

insertNested(t, path, v) ==
    LET primitive == {m \in OnTheWay(path) \cap DOMAIN t : t[m] # Object}
        moved == {Append(m, ValueWord) : m \in primitive}
        place == IF path \in DOMAIN t /\ t[path] = Object
                 THEN Append(path, ValueWord) ELSE path
        new == IF Last(path) = "" THEN {} ELSE {place}
    IN  [q \in DOMAIN t \cup OnTheWay(path) \cup moved \cup new |->
            CASE q \in new            -> v
              [] q \in OnTheWay(path) -> Object
              [] q \in moved          -> t[Front(q)]
              [] OTHER                -> t[q]]

(* GetVars returns a name before those below it. *)
Insert(p) ==
    /\ web[p].step = "build"
    /\ \E i \in web[p].todo :
         /\ \A j \in web[p].todo : ~IsStrictPrefix(j.path, i.path)
         /\ web' = [web EXCEPT ![p].todo = @ \ {i},
                               ![p].json = insertNested(@, i.path, i.val)]
    /\ UNCHANGED vars

(* normalizeArrays: an object whose keys are the numbers from 0 on becomes *)
(* an array when the iteration over its map meets them in order, which it  *)
(* is sure to do with one only.                                            *)
KeysAt(t, m) == {Last(q) : q \in {q \in DOMAIN t : Front(q) = m}}

Arrayable(t) ==
    {m \in {<<>>} \cup {q \in DOMAIN t : t[q] = Object} :
       LET keys == KeysAt(t, m) IN
         /\ keys # {} /\ keys \subseteq DOMAIN Index
         /\ {Index[k] : k \in keys} = 0 .. Cardinality(keys) - 1}

Placed(q, arrays) ==
    [i \in DOMAIN q |-> IF SubSeq(q, 1, i - 1) \in arrays
                        THEN Slot[Index[q[i]] + 1] ELSE q[i]]

normalizeArrays(t, arrays) ==
    [q \in {Placed(r, arrays) : r \in DOMAIN t} |->
        t[CHOOSE r \in DOMAIN t : Placed(r, arrays) = q]]

Encode(p) ==
    /\ web[p].step = "build"
    /\ web[p].todo = {}
    /\ LET t == web[p].json IN
         \E arrays \in SUBSET Arrayable(t) :
           /\ \A m \in Arrayable(t) : Cardinality(KeysAt(t, m)) = 1 => m \in arrays
           /\ web' = [web EXCEPT ![p].json = normalizeArrays(t, arrays),
                                 ![p].step = "answered"]
    /\ UNCHANGED vars
----------------------------------------------------------------------------
(* The leaves of a document are set one by one: by setJson, whose parent   *)
(* is empty whatever path the request has, or by setJsonVars.              *)
Leaves(r) ==
    LET parent == IF r.method = "setjson" THEN r.q.pre ELSE <<>>
    IN  {[path |-> parent \o k, val |-> r.doc[k]] : k \in DOMAIN r.doc}

handlePostJson(p, r) ==
    /\ r.method \in {"POST json", "setjson"}
    /\ Free(p)
    /\ web' = [web EXCEPT ![p] = [NoRequest EXCEPT
                 !.req = r, !.step = "leaves", !.todo = Leaves(r)]]
    /\ UNCHANGED vars

(* setJson is done with an object before it goes on to the next key. *)
Shared(q, last) == Len(LongestCommonPrefix({q, last}))

InTurn(p, i) ==
    web[p].req.method = "setjson"
    \/ \A j \in web[p].todo : Shared(j.path, web[p].last) <= Shared(i.path, web[p].last)

SetLeaf(p) ==
    /\ web[p].step = "leaves" /\ call[p].step = "idle"
    /\ \E i \in web[p].todo :
         /\ InTurn(p, i)
         /\ Begin(p, [op |-> "set", q |-> [NoQuery EXCEPT !.pre = i.path], arg |-> i.val])
         /\ web' = [web EXCEPT ![p].todo = @ \ {i}, ![p].last = i.path]

LeafIsSet_EndsObject(p) ==
    /\ web[p].step = "leaves" /\ call[p].step = "done"
    /\ ~call[p].err
    /\ Return(p)
    /\ web' = [web EXCEPT ![p].wrote = @ \cup {web[p].last},
                          ![p].todo = {i \in @ : Front(i.path) = Front(web[p].last)}]

LeafIsSet(p) ==
    /\ web[p].step = "leaves" /\ call[p].step = "done"
    /\ ~call[p].err
    /\ Return(p)
    /\ web' = [web EXCEPT ![p].wrote = @ \cup {web[p].last}]

(* setJson returns at the first error, which the handler ignores;          *)
(* setJsonVars answers with it and goes on.                                *)
LeafFails(p) ==
    /\ web[p].step = "leaves" /\ call[p].step = "done"
    /\ call[p].err
    /\ Return(p)
    /\ web' = [web EXCEPT ![p].failed = @ \cup {web[p].last},
                          ![p].todo = IF web[p].req.method = "setjson" THEN @ ELSE {}]

AllLeaves(p) ==
    /\ web[p].step = "leaves" /\ call[p].step = "idle"
    /\ web[p].todo = {}
    /\ Answer(p, 204)
    /\ UNCHANGED vars
----------------------------------------------------------------------------
(* handleLockByName and handleUnlockByName *)
FlagOf(r) == Append(r.q.pre, LockWord)

handleLock(p, r) ==
    /\ r.method = "LOCK" /\ Refusal(r) = 0
    /\ Accept(p, r, "lock")
    /\ UNCHANGED vars

LockGranted(p) ==
    /\ web[p].step \in {"lock", "waiting"}
    /\ SetFlag(FlagOf(web[p].req), Locked)
    /\ Answer(p, 204)

LockWaits(p) ==
    /\ web[p].step = "lock"
    /\ Get(FlagOf(web[p].req), Unlocked) \notin {Unlocked, Empty}
    /\ WebGoto(p, "waiting")
    /\ UNCHANGED vars

LockTimesOut(p) ==
    /\ web[p].step = "waiting"
    /\ Answer(p, 408)
    /\ UNCHANGED vars

handleUnlock(p, r) ==
    /\ r.method = "UNLOCK"
    /\ Free(p)
    /\ SetFlag(FlagOf(r), Unlocked)
    /\ web' = [web EXCEPT ![p] = [NoRequest EXCEPT !.req = r, !.step = "answered",
                                                   !.status = 204]]

Finish(p) ==
    /\ web[p].step = "answered"
    /\ web' = [web EXCEPT ![p] = NoRequest]
    /\ UNCHANGED vars
----------------------------------------------------------------------------
Arrive(p) ==
    \E r \in HttpRequest :
        \/ Reject(p, r)
        \/ handleByName(p, r)
        \/ handlePostJson(p, r)
        \/ handleLock(p, r)
        \/ handleUnlock(p, r)

Handler(p) ==
    \/ web[p].step \in {"call", "leaves"} /\ Work(p) /\ UNCHANGED web
    \/ PostReturns(p)
    \/ DeleteReturns(p)
    \/ GetFails(p)
    \/ GetReturns(p)
    \/ Insert(p)
    \/ Encode(p)
    \/ SetLeaf(p)
    \/ LeafIsSet(p)
    \/ LeafFails(p)
    \/ AllLeaves(p)
    \/ LockGranted(p)
    \/ LockWaits(p)
    \/ LockTimesOut(p)
    \/ Finish(p)

Elsewhere(p) ==
    /\ web[p].step = "idle"
    /\ Step(p) \/ \E r \in Rival : Begin(p, r)
    /\ UNCHANGED web

HttpNext == \E p \in Client : Arrive(p) \/ Handler(p) \/ Elsewhere(p)

HttpSpec == HttpInit /\ [][HttpNext]_httpVars
----------------------------------------------------------------------------
(* What a JSON answer says: the word for each place in an array, and the   *)
(* value under _value for the name above it.                               *)
WordAt(w) ==
    IF w \in Range(Slot)
    THEN CHOOSE k \in DOMAIN Index : Slot[Index[k] + 1] = w ELSE w

Named(path) ==
    LET words == [i \in DOMAIN path |-> WordAt(path[i])]
    IN  IF path # <<>> /\ Last(path) = ValueWord THEN Front(words) ELSE words

Context(r) ==
    IF Lone(r) \/ (~r.full /\ r.q.star) THEN Base(r) ELSE <<>>

Said(w) ==
    {[key |-> Context(w.req) \o Named(q), val |-> w.json[q]] :
        q \in {q \in DOMAIN w.json : w.json[q] # Object}}

Own(w) == {a \in w.found : w.req.q.star /\ a.key = w.req.q.pre}

(* The JSON answer to a GET has every value that was found, under its own  *)
(* name and nothing else, in whatever order names came, whether objects    *)
(* became arrays or not; except the value of the name before a '*', which  *)
(* is left out, and a lone true, which is misspelt.                        *)
AnswerKeepsAll == \A p \in Client :
    LET w == web[p] IN
      w.step = "answered" /\ w.status = 200 /\ w.req.export = "json" =>
        Said(w) = IF Lone(w.req)
                  THEN {[a EXCEPT !.val = Scalar(@)] : a \in w.found}
                  ELSE w.found \ Own(w)

(* When a JSON document has been posted, every name in it was set, or one  *)
(* was refused, and was the only one; setjson tries the others all the     *)
(* same.  Nothing outside of the document was set.                         *)
PostIsHonest == \A p \in Client :
    LET w == web[p] IN
      w.step = "answered" /\ w.req.method \in {"POST json", "setjson"} =>
        LET names == {i.path : i \in Leaves(w.req)} IN
          /\ w.wrote \cup w.failed \subseteq names
          /\ w.wrote \cap w.failed = {}
          /\ \/ w.wrote \cup w.failed = names
             \/ w.req.method = "POST json" /\ Cardinality(w.failed) = 1
=============================================================================
