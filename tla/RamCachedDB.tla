---------------------------- MODULE RamCachedDB ----------------------------
(***************************************************************************)
(* The text storage driver: the in-memory tree, the background dumper that *)
(* rewrites RamCacheDb.dump.txt, shutdown, crash and restart.              *)
(*                                                                         *)
(* A value is a text.  The dump writes it as it is behind its key, and the *)
(* load takes the text apart at newlines: the value ends with its first    *)
(* line, and each line after it that has a '=' is read as a key and its    *)
(* value.  The file is kept as what a load would make of it, the keys it   *)
(* assigns with their values, since nothing else reads it.  Memory keeps   *)
(* its last contents while the process is down: the next start is what     *)
(* replaces it.                                                            *)
(***************************************************************************)
EXTENDS RamTree

Text == Value \cup {Empty}

(* What a load may make of a file. *)
Images == UNION {[K -> Text] : K \in SUBSET Key}

CONSTANTS FirstLine,    \* the part of each text before its first newline
          More,         \* what the lines after it assign
          Cuts          \* what a cut may leave of each value, maybe nothing

OneLine(v) == FirstLine[v] = v /\ DOMAIN More[v] = {}

ASSUME TextAssumption ==
    /\ IsFiniteSet(Key)
    /\ FirstLine \in [Text -> Text]
    /\ More \in [Text -> Images]
    /\ Cuts \in [Value -> SUBSET Text]
    /\ OneLine(Empty)
    /\ \A v \in Text : /\ OneLine(FirstLine[v])
                       /\ \A k \in DOMAIN More[v] : OneLine(More[v][k])

VARIABLES proc,     \* "up", or how the process ended: "exited", "crashed"
          stopping, \* stopCh is closed
          dumper,   \* "select", "dumping" (mu held) or "stopped"
          file,     \* what a load would make of the dump file
          lost      \* a dump went wrong since the start or the last whole one

vars == <<node, val, pending, proc, stopping, dumper, file, lost>>
life == <<proc, stopping, dumper, file, lost>>

TypeOK ==
    /\ TreeTypeOK
    /\ proc \in {"up", "exited", "crashed"}
    /\ stopping \in BOOLEAN
    /\ dumper \in {"select", "dumping", "stopped"}
    /\ file \in Images
    /\ lost \in BOOLEAN

Init ==
    /\ EmptyTree
    /\ proc = "up"
    /\ stopping = FALSE
    /\ dumper = "select"
    /\ file = [k \in {} |-> Empty]
    /\ lost = FALSE
----------------------------------------------------------------------------
(* dumpToStringLocked writes a child, if it has a value, and then the tree *)
(* below it; the children of a node come in the order of a map iteration.  *)
Orders ==
    {order \in [Key -> 1..Cardinality(Key)] :
        /\ \A j, k \in Key : order[j] = order[k] => j = k
        /\ \A k \in Key : \A a \in Above[k] :
              /\ order[a] < order[k]
              /\ \A j \in Key : order[j] \in order[a] + 1 .. order[k] => a \in Above[j]}

dumpToString_Appended ==
    LET now == {n \in node : val[n] # Empty}
        old == {k \in DOMAIN file : file[k] # Empty}
    IN  [k \in now \cup old |-> IF k \in now THEN val[k] ELSE file[k]]

dumpToString ==
    [k \in {n \in node : val[n] # Empty} |-> val[k]]

(* What load makes of a text: of the lines that name a key, its own or     *)
(* some in the value of another, it keeps what the last one says.          *)
Writers(text, k) == {j \in DOMAIN text : j = k \/ k \in DOMAIN More[text[j]]}

Says(text, j, k) ==
    IF k \in DOMAIN More[text[j]] THEN More[text[j]][k] ELSE FirstLine[text[j]]

Parsed(text, order) ==
    LET LastWriter(k) ==
          CHOOSE j \in Writers(text, k) :
              \A i \in Writers(text, k) : order[i] <= order[j]
    IN  [k \in {k \in Key : Writers(text, k) # {}} |-> Says(text, LastWriter(k), k)]

(* What an interrupted os.WriteFile may leave of a text: nothing, or all   *)
(* lines up to some value, of which the end may be missing.  It may also   *)
(* end within a key, which load then skips.                                *)
Until(text, order, last, cut) ==
    [k \in {j \in DOMAIN text : order[j] <= order[last]} |->
        IF k = last THEN cut ELSE text[k]]

PartOf(text, order) ==
    {[k \in {} |-> Empty]} \cup
    UNION {{Until(text, order, last, cut) : cut \in Cuts[text[last]] \cup {text[last]}} :
           last \in DOMAIN text}

(* What the file may be after a dump that did not come to its end. *)
TornFiles ==
    {file} \cup UNION {{Parsed(part, order) : part \in PartOf(dumpToString, order)} :
                     order \in Orders}

MuFree == proc = "up" /\ dumper # "dumping"

SetValue(k, v) ==
    /\ MuFree
    /\ Set(k, v)
    /\ UNCHANGED life

Delete(k, cascade) ==
    /\ MuFree
    /\ DeleteValue(k, cascade)
    /\ UNCHANGED life

(* The dumper wakes up, on its ticker or because stopCh was closed, takes  *)
(* mu and finds changes.                                                   *)
DumpBegin_OnlyWhenStopped ==
    /\ proc = "up" /\ dumper = "select"
    /\ pending /\ stopping
    /\ dumper' = "dumping"
    /\ UNCHANGED <<node, val, pending, proc, stopping, file, lost>>

DumpBegin ==
    /\ proc = "up" /\ dumper = "select"
    /\ pending
    /\ dumper' = "dumping"
    /\ UNCHANGED <<node, val, pending, proc, stopping, file, lost>>

(* ... or finds none, and returns if it was stopped.  select takes either  *)
(* case when both are ready, so a stopped dumper may still tick.           *)
DumpNothing ==
    /\ proc = "up" /\ dumper = "select"
    /\ ~pending /\ stopping
    /\ dumper' = "stopped"
    /\ UNCHANGED <<node, val, pending, proc, stopping, file, lost>>

(* The dump ends, somehow; then the dumper goes back to select, or ends if *)
(* it was woken by stopCh.                                                 *)
AfterDump_StillPending ==
    /\ proc = "up" /\ dumper = "dumping"
    /\ dumper' \in {"select"} \cup (IF stopping THEN {"stopped"} ELSE {})
    /\ UNCHANGED <<node, val, pending, proc, stopping>>

AfterDump ==
    /\ proc = "up" /\ dumper = "dumping"
    /\ pending' = FALSE
    /\ dumper' \in {"select"} \cup (IF stopping THEN {"stopped"} ELSE {})
    /\ UNCHANGED <<node, val, proc, stopping>>

DumpEnd ==
    /\ AfterDump
    /\ \E order \in Orders : file' = Parsed(dumpToString, order)
    /\ lost' = FALSE

(* MkdirAll or WriteFile fails: logged, and pendingChanges cleared all the *)
(* same.  The file is as it was, or truncated with part of the new text.   *)
DumpFail ==
    /\ AfterDump
    /\ file' \in TornFiles
    /\ lost' = TRUE

Finalize ==
    /\ proc = "up"
    /\ ~stopping
    /\ stopping' = TRUE
    /\ UNCHANGED <<node, val, pending, proc, dumper, file, lost>>

(* What a process that ends leaves of a dump it was writing. *)
CutShort ==
    \/ dumper # "dumping" /\ UNCHANGED <<file, lost>>
    \/ /\ dumper = "dumping"
       /\ file' \in TornFiles
       /\ lost' = TRUE

(* os.Exit, a second after Finalize, with the APIs still serving until it. *)
Exit ==
    /\ proc = "up"
    /\ stopping
    /\ CutShort
    /\ proc' = "exited"
    /\ UNCHANGED <<node, val, pending, stopping, dumper>>

Crash ==
    /\ proc = "up"
    /\ CutShort
    /\ proc' = "crashed"
    /\ UNCHANGED <<node, val, pending, stopping, dumper>>

(* NewRamCacheDB: the dump file is loaded (twice, to the same effect) and  *)
(* a new dumper started.                                                   *)
Start ==
    /\ proc # "up"
    /\ LoadedFrom(file)
    /\ proc' = "up"
    /\ stopping' = FALSE
    /\ dumper' = "select"
    /\ lost' = FALSE
    /\ UNCHANGED file

Next ==
    \/ \E k \in Key, v \in Value \cup {Empty} : SetValue(k, v)
    \/ \E k \in Key, cascade \in BOOLEAN : Delete(k, cascade)
    \/ DumpBegin
    \/ DumpNothing
    \/ DumpEnd
    \/ DumpFail
    \/ Finalize
    \/ Exit
    \/ Crash
    \/ Start

Spec == Init /\ [][Next]_vars

(* The dumper's goroutine is scheduled: its ticker fires for ever, and a   *)
(* dump that was begun ends.                                               *)
FairSpec == Spec /\ WF_vars(DumpBegin) /\ WF_dumper(AfterDump)
----------------------------------------------------------------------------
(* While nothing is pending and no dump went wrong, every name has in the  *)
(* file the value it has in memory, so that a crash at that moment does    *)
(* not change it.  Two cases are excepted because the load changes them: a *)
(* value of several lines, of which it keeps the first, and a name that a  *)
(* later line of such a value assigns.                                     *)
CleanIsSaved ==
    proc = "up" /\ ~pending /\ ~lost =>
        \A k \in Key :
            OneLine(val[k]) /\ (\A j \in Key : k \notin DOMAIN More[val[j]])
                => val[k] = (IF k \in DOMAIN file THEN file[k] ELSE Empty)

(* The inductive invariant behind the theorems of RamCachedDBProofs. *)
IInv == TypeOK /\ TreeClosed /\ CleanIsSaved

(* Pending changes do not stay pending in a process that stays up. *)
PendingIsDumped == pending ~> (~pending \/ proc # "up" \/ dumper = "stopped")

(* Whatever happens to the dumps, reads, writes, deletions and restarts    *)
(* are those of an abstract store: deletion touches no key but the deleted *)
(* ones, and a restart goes back to the last dump, from which a failure or *)
(* a crash may have dropped values, cutting one, but not mixed in older    *)
(* ones.                                                                   *)
FirstOf(v) == FirstLine[v]

MoreOf(v) == More[v]

CutsOf(v) == IF v = Empty THEN {Empty} ELSE {Empty, v} \cup Cuts[v]

Abstract == INSTANCE Store WITH
    live <- [k \in Key |-> Get(k, Empty)],
    saved <- [k \in Key |-> IF k \in DOMAIN file THEN file[k] ELSE Empty],
    First <- FirstOf, More <- MoreOf, Cut <- CutsOf

IsStore == Abstract!Spec
============================================================================
