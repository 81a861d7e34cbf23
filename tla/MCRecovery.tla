----------------------------- MODULE MCRecovery ----------------------------
(* What must come through an interruption: a behaviour is one of a storage *)
(* driver, whose process may be killed, or one of the connection of a Go   *)
(* client, which may be lost.                                              *)
(*                                                                         *)
(* Storage: three names, a parent with a child and a name beside them, so  *)
(* that deletions meet nodes with and without children, with and without a *)
(* value of their own, and siblings are dumped in either order.  Three     *)
(* values: "1", "12" of which a cut may leave "1", and one of two lines,   *)
(* "1" and "b=12", which read back sets b.  Of what a cut leaves of the    *)
(* last, the texts that would be values of their own are left out.         *)
EXTENDS Storage, CliConnection

MCKey == {"a", "a.c", "b"}

MCAbove == [k \in MCKey |-> IF k = "a.c" THEN {"a"} ELSE {}]

MCFirstLine == [v \in {"", "1", "12", "1/b=12"} |-> IF v = "1/b=12" THEN "1" ELSE v]

MCMore ==
    [v \in {"", "1", "12", "1/b=12"} |->
        [k \in IF v = "1/b=12" THEN {"b"} ELSE {} |-> "12"]]

MCCuts == [v \in {"1", "12", "1/b=12"} |-> IF v = "1" THEN {""} ELSE {"", "1"}]

MCOldDumps == {[k \in K |-> "1"] : K \in {{}, {"a.c"}}}
VARIABLE part

storageVars == <<driver, vars, prefix>>

all == <<part, storageVars, connVars>>

(* The part that a behaviour is not about stays as it begins.              *)
MCInit ==
    /\ StorageInit /\ ConnInit
    /\ part \in {"storage", "connection"}
    /\ part # "storage" => driver = "text"
    /\ part # "connection" => habits = [reuse |-> TRUE, early |-> FALSE, hasty |-> FALSE]

MCNext ==
    /\ \/ part = "storage" /\ StorageNext /\ UNCHANGED connVars
       \/ part = "connection" /\ ConnNext /\ UNCHANGED storageVars
    /\ UNCHANGED part

(* The fairness of StorageSpec and of the client.  No step it is about is  *)
(* enabled where the other part begins.                                    *)
MCSpec ==
    /\ MCInit /\ [][MCNext]_all
    /\ WF_vars(driver = "text" /\ DumpBegin /\ UNCHANGED <<driver, prefix>>)
    /\ WF_dumper(driver = "text" /\ AfterDump)
    /\ ConnFairness
============================================================================
