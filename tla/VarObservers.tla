---------------------------- MODULE VarObservers ---------------------------
(***************************************************************************)
(* The observers of one variable as VarHelper keeps them in the storage,   *)
(* sources/controller/controller_varhelper.go:                             *)
(*   list  the pairs <<client, metadata>> of ._observers.list;             *)
(*   ent   the pairs that have a node ._observers.byId.C.byMetadata.M;     *)
(*   root  the clients that have a node ._observers.byId.C.byMetadata.     *)
(* A key that ends in a dot names the node before the dot, so the entry of *)
(* a client with the empty metadata is the byMetadata node itself.  The    *)
(* index stored in an entry is never read and is left out.                 *)
(***************************************************************************)
EXTENDS SequencesExt, Naturals

CONSTANTS Client, Meta, NoMeta

ASSUME NoMetaAssumption == NoMeta \notin Meta

Pair == Client \X (Meta \cup {NoMeta})

NoObservers == [list |-> <<>>, ent |-> {}, root |-> {}]

(* HasValue of the entry: the node exists. *)
IsClientObserving(o, c, m) ==
    IF m = NoMeta THEN c \in o.root ELSE <<c, m>> \in o.ent

(* The nodes that storing the entries of these pairs creates. *)
WithEntries(o, pairs) ==
    [o EXCEPT !.ent = @ \cup {e \in pairs : e[2] # NoMeta},
              !.root = @ \cup {e[1] : e \in pairs}]

(* DeleteValue(entry, false): the byMetadata node goes only when it has no *)
(* children, and stays when the last of its children goes.                 *)
WithoutEntry(o, c, m) ==
    IF m # NoMeta
    THEN [o EXCEPT !.ent = @ \ {<<c, m>>}]
    ELSE [o EXCEPT !.root = IF \E e \in o.ent : e[1] = c THEN @ ELSE @ \ {c}]

RegisterObservation_NoEntry(o, c, m) ==
    [o EXCEPT !.list = Append(@, <<c, m>>)]

RegisterObservation(o, c, m) ==
    WithEntries([o EXCEPT !.list = Append(@, <<c, m>>)], {<<c, m>>})

(* The last occurrence of the pair goes; the entries of those after it are *)
(* stored again with their new place.                                      *)
internalRemoveObserving_OffByOne(o, c, m) ==
    LET i == SelectLastInSeq(o.list, LAMBDA e : e = <<c, m>>)
        j == IF i < Len(o.list) THEN i + 1 ELSE i
    IN  IF i = 0 THEN o
        ELSE WithoutEntry([o EXCEPT !.list = RemoveAt(@, j)], c, m)

internalRemoveObserving(o, c, m) ==
    LET i == SelectLastInSeq(o.list, LAMBDA e : e = <<c, m>>)
        shifted == {o.list[j] : j \in i + 1 .. Len(o.list)}
    IN  IF i = 0 THEN o
        ELSE WithoutEntry(WithEntries([o EXCEPT !.list = RemoveAt(@, i)], shifted), c, m)

(* From the end of the list to its beginning, every pair of the client. *)
Visit(o, i, c) ==
    IF o.list[i][1] = c THEN internalRemoveObserving(o, c, o.list[i][2]) ELSE o

RemoveAllClientObservations(o, c) ==
    LET n == Len(o.list)
        visited[k \in 0 .. n] ==
            IF k = 0 THEN o ELSE Visit(visited[k - 1], n - k + 1, c)
    IN  visited[n]

Listed(o) == Range(o.list)
============================================================================
