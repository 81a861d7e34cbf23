------------------------------ MODULE RamTree ------------------------------
(***************************************************************************)
(* The in-memory tree of sources/services/storage/ramcacheddb.go, common   *)
(* to the text driver (RamCachedDB) and to the prefix-tree driver          *)
(* (RamCachedDBPkv).                                                       *)
(*                                                                         *)
(* A key is a dot-separated name; only its place in the tree matters, so   *)
(* keys are opaque and Above[k] is the set of the proper prefixes of k     *)
(* that name a node ("a" and "a.b" for "a.b.c").  The root is no key.      *)
(***************************************************************************)
EXTENDS Naturals, FiniteSets

CONSTANTS Key,      \* names a client may use, and all their prefixes
          Above,    \* the proper prefixes of each key
          Value,    \* the non-empty values
          Empty     \* the empty string, also the value of a valueless node

ASSUME AboveAssumption ==
    /\ Above \in [Key -> SUBSET Key]
    /\ \A k \in Key : k \notin Above[k]
    /\ \A k \in Key : \A a \in Above[k] : Above[a] \subseteq Above[k]
    /\ \A d \in Key : \A a \in Above[d] :       \* a child of a leads to d
          \E c \in Above[d] \cup {d} : Above[c] = Above[a] \cup {a}

ASSUME EmptyAssumption == Empty \notin Value

VARIABLES node,     \* keys that have a ramNode
          val,      \* the value of each node; Empty for a key without node
          pending   \* pendingChanges

tree == <<node, val, pending>>

TreeTypeOK ==
    /\ node \in SUBSET Key
    /\ val \in [Key -> Value \cup {Empty}]
    /\ pending \in BOOLEAN

EmptyTree ==
    /\ node = {}
    /\ val = [k \in Key |-> Empty]
    /\ pending = FALSE
----------------------------------------------------------------------------
(* Reading. *)
Below(k) == {d \in Key : k \in Above[d]}

(* GetChildNames: the children of a node, not its deeper descendants. *)
GetChildNames(k) == {c \in node : Above[c] = Above[k] \cup {k}}

(* HasValue asks for a node, with or without a value. *)
HasValue(k) == k \in node

(* Get: the node's own value, even an empty one, before the default. *)
Get(k, default) == IF HasValue(k) THEN val[k] ELSE default

(* scrollTree creates the missing nodes on the way to k. *)
scrollTree(k) == node \cup Above[k] \cup {k}
----------------------------------------------------------------------------
(* Writing; each of these runs under mu.  The "changed" tag they leave is  *)
(* only read by the prefix-tree driver, whose module keeps it.             *)
(*                                                                         *)
(* Faulty variants of an operation stand before it and are named for what  *)
(* they get wrong; no specification uses them.                             *)
Set_NotPending(k, v) ==
    /\ node' = scrollTree(k)
    /\ val' = [val EXCEPT ![k] = v]
    /\ UNCHANGED pending

Set_NoAncestors(k, v) ==
    /\ node' = node \cup {k}
    /\ val' = [val EXCEPT ![k] = v]
    /\ pending' = TRUE

Set(k, v) ==
    /\ node' = scrollTree(k)
    /\ val' = [val EXCEPT ![k] = v]
    /\ pending' = TRUE

(* The nodes that go when k is deleted: its descendants in a cascade, and  *)
(* k itself once it has no children.  Emptied ancestors stay.              *)
Pruned(k, cascade) ==
    (IF cascade THEN Below(k) ELSE {}) \cup
    (IF cascade \/ GetChildNames(k) = {} THEN {k} ELSE {})

DeleteValue(k, cascade) ==
    /\ HasValue(k)
    /\ LET gone == Pruned(k, cascade) IN
         /\ node' = node \ gone
         /\ val' = [j \in Key |-> IF j \in gone \cup {k} THEN Empty ELSE val[j]]
    /\ pending' = TRUE

(* A fresh tree in which every line of a dump has been stored. *)
LoadedFrom(lines) ==
    /\ node' = UNION {Above[k] \cup {k} : k \in DOMAIN lines}
    /\ val' = [k \in Key |-> IF k \in DOMAIN lines THEN lines[k] ELSE Empty]
    /\ pending' = FALSE
----------------------------------------------------------------------------
(* Every node but the root's children has a parent node, and only nodes    *)
(* have values: a value that is stored can be reached by scrollTree and by *)
(* the recursive walk of a dump.                                           *)
TreeClosed ==
    /\ \A k \in node : Above[k] \subseteq node
    /\ \A k \in Key \ node : val[k] = Empty
============================================================================
