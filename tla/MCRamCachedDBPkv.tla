-------------------------- MODULE MCRamCachedDBPkv -------------------------
(* A top-level name and a child of it, in a fresh directory. *)
EXTENDS RamCachedDBPkv

MCKey == {"a", "a.b"}

MCAbove == [k \in MCKey |-> IF k = "a.b" THEN {"a"} ELSE {}]

MCOldDumps == {[k \in {} |-> "v1"]}
============================================================================
