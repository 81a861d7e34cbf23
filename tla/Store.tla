------------------------------- MODULE Store -------------------------------
(***************************************************************************)
(* What a storage driver promises its callers: a map from names to texts,  *)
(* of which images are saved from time to time and to one of which the map *)
(* goes back when the process is restarted.                                *)
(*                                                                         *)
(* An image is not the map itself: a text is cut at its first newline, and *)
(* the rest of it may assign other names.  A save that goes wrong leaves   *)
(* some names without a text and may cut short one more; but it mixes in   *)
(* nothing that was not current.                                           *)
(***************************************************************************)
CONSTANTS Key, Value, Empty, Below(_),
          First(_),     \* the first line of a text
          More(_),      \* what the other lines assign
          Cut(_)        \* what may be left of a text that is cut short

VARIABLES live,     \* the value read for each key, Empty when it has none
          saved     \* the image a restart goes back to

Init ==
    /\ live = [k \in Key |-> Empty]
    /\ saved = live

Put(k, v) ==
    /\ live' = [live EXCEPT ![k] = v]
    /\ UNCHANGED saved

Remove(gone) ==
    /\ live' = [k \in Key |-> IF k \in gone THEN Empty ELSE live[k]]
    /\ UNCHANGED saved

(* What may be read back of a map of texts. *)
Images(text) ==
    {image \in [Key -> Value \cup {Empty}] :
        \A k \in Key :
            \/ image[k] = First(text[k])
            \/ \E j \in Key : k \in DOMAIN More(text[j]) /\ image[k] = More(text[j])[k]}

Save ==
    /\ saved' \in Images(live)
    /\ UNCHANGED live

(* The texts of kept are saved, that of c perhaps in part. *)
Torn(kept, c, part) ==
    [k \in Key |-> IF k = c THEN part ELSE IF k \in kept THEN live[k] ELSE Empty]

Tear(kept) ==
    /\ \E c \in Key : \E part \in Cut(live[c]) : saved' \in Images(Torn(kept, c, part))
    /\ UNCHANGED live

Restart == live' = saved /\ UNCHANGED saved

Next ==
    \/ \E k \in Key, v \in Value \cup {Empty} : Put(k, v)
    \/ \E k \in Key : Remove({k}) \/ Remove({k} \cup Below(k))
    \/ Save
    \/ \E kept \in SUBSET Key : Tear(kept)
    \/ Restart

Spec == Init /\ [][Next]_<<live, saved>>
============================================================================
