-------------------------- MODULE RamCachedDBPkv ---------------------------
(***************************************************************************)
(* The prefix-tree storage driver, sources/services/storage/               *)
(* ramcacheddbpkv.go: the same in-memory tree and the same dumper as       *)
(* RamCachedDB, with another dump and another load.  Finalize and the exit *)
(* of the process are those of RamCachedDB and are not repeated here.      *)
(***************************************************************************)
EXTENDS RamTree

CONSTANT OldDumps   \* what a load may make of a text dump left in dataDir

Contents == UNION {[K -> Value] : K \in SUBSET Key}
Images == UNION {[K -> Value \cup {Empty}] : K \in SUBSET Key}

VARIABLES changed,  \* nodes whose "changed" tag is set
          pkv,      \* the contents of the prefix-tree file
          old,      \* what a text dump left in dataDir assigns, if there is one
          proc      \* "up" or "down"

vars == <<node, val, pending, changed, pkv, old, proc>>

TypeOK ==
    /\ TreeTypeOK
    /\ changed \in SUBSET node
    /\ pkv \in Contents
    /\ old \in Images
    /\ proc \in {"up", "down"}

Init ==
    /\ EmptyTree
    /\ changed = {}
    /\ pkv = [k \in {} |-> Empty]
    /\ old \in OldDumps
    /\ proc = "down"
----------------------------------------------------------------------------
SetValue(k, v) ==
    /\ proc = "up"
    /\ Set(k, v)
    /\ changed' = changed \cup {k}
    /\ UNCHANGED <<pkv, old, proc>>

(* The tag goes with the node when the node is pruned. *)
Delete(k, cascade) ==
    /\ proc = "up"
    /\ DeleteValue(k, cascade)
    /\ changed' = (changed \cup {k}) \ Pruned(k, cascade)
    /\ UNCHANGED <<pkv, old, proc>>

(* dumpNodesPkv looks at the children of the root and does not descend. *)
Dumped_Inverted == {k \in node \ changed : Above[k] = {}}

Dumped == {k \in changed : Above[k] = {}}

(* Tagged nodes are stored, or removed from the file when they have no     *)
(* value; the tag is never cleared.                                        *)
dumpPkv ==
    /\ proc = "up"
    /\ pending
    /\ LET kept == (DOMAIN pkv \ Dumped) \cup {k \in Dumped : val[k] # Empty} IN
         pkv' = [k \in kept |-> IF k \in Dumped THEN val[k] ELSE pkv[k]]
    /\ pending' = FALSE
    /\ UNCHANGED <<node, val, changed, old, proc>>

Crash ==
    /\ proc = "up"
    /\ proc' = "down"
    /\ UNCHANGED <<node, val, pending, changed, pkv, old>>

(* loadPkv stores every key of the file with Set; load then puts the lines *)
(* of an old text dump over them, and only load clears pendingChanges.     *)
NewRamCachedDBPkv ==
    /\ proc = "down"
    /\ LET both == DOMAIN pkv \cup DOMAIN old IN
         /\ node' = UNION {Above[k] \cup {k} : k \in both}
         /\ val' = [k \in Key |-> CASE k \in DOMAIN old -> old[k]
                                    [] k \in DOMAIN pkv \ DOMAIN old -> pkv[k]
                                    [] OTHER -> Empty]
    /\ changed' = DOMAIN pkv
    /\ pending' = (DOMAIN old = {} /\ DOMAIN pkv # {})
    /\ proc' = "up"
    /\ UNCHANGED <<pkv, old>>

Next ==
    \/ \E k \in Key, v \in Value \cup {Empty} : SetValue(k, v)
    \/ \E k \in Key, cascade \in BOOLEAN : Delete(k, cascade)
    \/ dumpPkv
    \/ Crash
    \/ NewRamCachedDBPkv

Spec == Init /\ [][Next]_vars
----------------------------------------------------------------------------
(* "When data is changed, only the changed date are written to the prefix  *)
(* tree": once nothing is pending, every changed value is in the file.     *)
ChangedIsSaved ==
    proc = "up" /\ ~pending =>
        \A k \in changed : val[k] # Empty => (k \in DOMAIN pkv /\ pkv[k] = val[k])
============================================================================
