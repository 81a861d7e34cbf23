------------------------------ MODULE Storage ------------------------------
(***************************************************************************)
(* initStorage of main.go starts the one storage driver or the other: a    *)
(* behaviour is one of the text driver or, with its tree in variables of   *)
(* its own, one of the prefix-tree driver, in a directory that the text    *)
(* driver may have used before.                                            *)
(***************************************************************************)
EXTENDS RamCachedDB

CONSTANT OldDumps   \* what a load may make of a text dump left in dataDir

ASSUME OldDumpsAssumption == OldDumps \subseteq Images

VARIABLES driver, pnode, pval, ppending, changed, pkv, old, pproc

P == INSTANCE RamCachedDBPkv WITH
    node <- pnode, val <- pval, pending <- ppending, proc <- pproc

prefix == <<pnode, pval, ppending, changed, pkv, old, pproc>>

(* The names of the two are exchanged there. *)
initStorage(DbDriver) == IF DbDriver = "ramcacheddbpkv" THEN "text" ELSE "pkv"

StorageInit ==
    /\ Init
    /\ P!Init
    /\ \E DbDriver \in {"ramcacheddb", "ramcacheddbpkv"} : driver = initStorage(DbDriver)
    /\ driver = "text" => DOMAIN old = {}

StorageNext ==
    /\ \/ driver = "text" /\ Next /\ UNCHANGED prefix
       \/ driver = "pkv" /\ P!Next /\ UNCHANGED vars
    /\ UNCHANGED driver

(* The fairness of RamCachedDB, for the driver that runs. *)
StorageSpec ==
    /\ StorageInit
    /\ [][StorageNext]_<<driver, vars, prefix>>
    /\ WF_vars(driver = "text" /\ DumpBegin /\ UNCHANGED <<driver, prefix>>)
    /\ WF_dumper(driver = "text" /\ AfterDump)
----------------------------------------------------------------------------
(* Whichever driver runs, its tree is closed: a value that was set or      *)
(* loaded is found by scrollTree, and by the walk of the next dump.        *)
TreesClosed == TreeClosed /\ P!TreeClosed
============================================================================
