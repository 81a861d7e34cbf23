------------------------- MODULE RamCachedDBProofs -------------------------
(***************************************************************************)
(* The text driver for any tree of names and any values: the tree stays    *)
(* closed under prefixes, and a driver with nothing pending and no failed  *)
(* dump has its memory on disk, through crashes and restarts.  The prefix- *)
(* tree driver keeps its tree closed, too, whatever it loads.              *)
(***************************************************************************)
EXTENDS Storage, FiniteSetTheorems, WellFoundedInduction, TLAPS

LEMMA InitIInv == Init => IInv
<1> SUFFICES ASSUME Init PROVE IInv
    OBVIOUS
<1> USE DEF Init, EmptyTree
<1>1. file \in Images
  <2>1. file \in [{} -> Text]
      BY DEF Text
  <2> QED BY <2>1 DEF Images
<1>2. TypeOK
    BY <1>1 DEF TypeOK, TreeTypeOK
<1>3. TreeClosed
    BY DEF TreeClosed
<1>4. CleanIsSaved
    BY DEF CleanIsSaved
<1> QED BY <1>2, <1>3, <1>4 DEF IInv

(* Texts to be written: for some names, a text each. *)
LEMMA ImageFacts ==
    ASSUME NEW f \in Images
    PROVE  /\ DOMAIN f \in SUBSET Key
           /\ \A k \in DOMAIN f : f[k] \in Text
<1>1. PICK D \in SUBSET Key : f \in [D -> Text]
    BY DEF Images
<1> QED BY <1>1

LEMMA DumpIsImage == TypeOK => dumpToString \in Images
<1> SUFFICES ASSUME TypeOK PROVE dumpToString \in Images
    OBVIOUS
<1> DEFINE K == {n \in node : val[n] # Empty}
<1>1. K \in SUBSET Key
    BY DEF TypeOK, TreeTypeOK
<1>2. dumpToString \in [K -> Text]
    BY <1>1 DEF dumpToString, TypeOK, TreeTypeOK, Text
<1> QED BY <1>1, <1>2 DEF Images

(* Of finitely many natural numbers one is the greatest. *)
LEMMA Greatest ==
    ASSUME NEW S, S # {}, NEW n \in Nat, NEW f, \A x \in S : f[x] \in 1..n
    PROVE  \E x \in S : \A y \in S : f[y] <= f[x]
<1> DEFINE T == {n - f[x] : x \in S}
           R == OpToRel(<, Nat)
<1>1. T \subseteq Nat /\ T # {}
    OBVIOUS
<1>2. IsWellFoundedOn(R, Nat)
    BY NatLessThanWellFounded
<1>3. \E t \in T : \A u \in T : ~(<<u, t>> \in R)
  <2> HIDE DEF R, T
  <2> QED BY <1>1, <1>2, WFMin
<1>4. \A t, u \in T : ~(<<u, t>> \in R) => t <= u
    BY <1>1 DEF OpToRel
<1>5. PICK t \in T : \A u \in T : t <= u
  <2> HIDE DEF R, T
  <2> QED BY <1>3, <1>4, Zenon
<1>6. PICK x \in S : t = n - f[x]
    OBVIOUS
<1>7. \A y \in S : n - f[x] <= n - f[y]
    BY <1>5, <1>6
<1> QED BY <1>6, <1>7

(* What a load reads for a name is what a line of some value says of it. *)
LEMMA ParsedFacts ==
    ASSUME NEW text \in Images, NEW order \in Orders
    PROVE  /\ DOMAIN Parsed(text, order) = {k \in Key : Writers(text, k) # {}}
           /\ \A k \in DOMAIN Parsed(text, order) :
                \E j \in Writers(text, k) : Parsed(text, order)[k] = Says(text, j, k)
<1> DEFINE Later(j, k) == \A i \in Writers(text, k) : order[i] <= order[j]
           Last(k) == CHOOSE j \in Writers(text, k) : Later(j, k)
<1>1. Parsed(text, order) =
        [k \in {k \in Key : Writers(text, k) # {}} |-> Says(text, Last(k), k)]
    BY DEF Parsed
<1>2. ASSUME NEW k \in Key, Writers(text, k) # {}
      PROVE  Last(k) \in Writers(text, k)
  <2>1. Cardinality(Key) \in Nat
      BY TextAssumption, FS_CardinalityType
  <2>2. \A j \in Writers(text, k) : order[j] \in 1..Cardinality(Key)
      BY ImageFacts DEF Writers, Orders
  <2>3. \E j \in Writers(text, k) : Later(j, k)
      BY <1>2, <2>1, <2>2, Greatest
  <2> QED BY <2>3
<1> HIDE DEF Last
<1> QED BY <1>1, <1>2

LEMMA SaysIsText ==
    ASSUME NEW text \in Images, NEW k \in Key, NEW j \in Writers(text, k)
    PROVE  Says(text, j, k) \in Text /\ OneLine(Says(text, j, k))
<1>1. text[j] \in Text
    BY ImageFacts DEF Writers
<1>2. More[text[j]] \in Images
    BY <1>1, TextAssumption
<1>3. \A i \in DOMAIN More[text[j]] : More[text[j]][i] \in Text
    BY <1>2, ImageFacts
<1> QED BY <1>1, <1>3, TextAssumption DEF Says

LEMMA ParsedIsImage ==
    ASSUME NEW text \in Images, NEW order \in Orders
    PROVE  Parsed(text, order) \in Images
<1> DEFINE K == {k \in Key : Writers(text, k) # {}}
           p == Parsed(text, order)
<1>0. /\ DOMAIN p = K
      /\ \A k \in DOMAIN p : \E j \in Writers(text, k) : p[k] = Says(text, j, k)
    BY ParsedFacts
<1>1. DOMAIN p = K /\ \A k \in K : p[k] \in Text
  <2> HIDE DEF p
  <2> QED BY <1>0, SaysIsText
<1>2. p = [k \in DOMAIN p |-> p[k]]
    BY DEF Parsed
<1>3. p \in [K -> Text]
  <2> HIDE DEF p
  <2> QED BY <1>1, <1>2
<1> QED BY <1>3 DEF Images

(* What is left of a dump is no more than names with texts. *)
LEMMA PartIsImage ==
    ASSUME NEW text \in Images, \A k \in DOMAIN text : text[k] \in Value,
           NEW order, NEW part \in PartOf(text, order)
    PROVE  part \in Images
<1>1. CASE part = [k \in {} |-> Empty]
  <2>1. part \in [{} -> Text]
      BY <1>1
  <2> QED BY <2>1 DEF Images
<1>2. CASE part # [k \in {} |-> Empty]
  <2>1. PICK last \in DOMAIN text : \E cut \in Cuts[text[last]] \cup {text[last]} :
                part = Until(text, order, last, cut)
      BY <1>2 DEF PartOf
  <2>2. PICK cut \in Cuts[text[last]] \cup {text[last]} : part = Until(text, order, last, cut)
      BY <2>1
  <2>3. cut \in Text
      BY TextAssumption DEF Text
  <2> DEFINE K == {j \in DOMAIN text : order[j] <= order[last]}
  <2>4. K \in SUBSET Key /\ part \in [K -> Text]
      BY <2>2, <2>3, ImageFacts DEF Until
  <2> QED BY <2>4 DEF Images
<1> QED BY <1>1, <1>2

LEMMA TornIsImage == ASSUME TypeOK PROVE TornFiles \subseteq Images
<1>1. dumpToString \in Images
    BY DumpIsImage
<1>2. \A k \in DOMAIN dumpToString : dumpToString[k] \in Value
    BY DEF dumpToString, TypeOK, TreeTypeOK
<1>3. ASSUME NEW order \in Orders, NEW part \in PartOf(dumpToString, order)
      PROVE  Parsed(part, order) \in Images
    BY <1>1, <1>2, <1>3, PartIsImage, ParsedIsImage
<1> QED BY <1>3 DEF TornFiles, TypeOK

LEMMA SetIInv ==
    ASSUME IInv, NEW k \in Key, NEW v \in Value \cup {Empty}, SetValue(k, v)
    PROVE  IInv'
<1> USE AboveAssumption DEF IInv, SetValue, Set, life, scrollTree
<1>1. TypeOK'
    BY DEF TypeOK, TreeTypeOK
<1>2. TreeClosed'
    BY DEF TreeClosed, TypeOK, TreeTypeOK
<1>3. CleanIsSaved'
    BY DEF CleanIsSaved
<1> QED BY <1>1, <1>2, <1>3

(* In a closed tree a node with a descendant has a child. *)
LEMMA DescendantMeansChild ==
    ASSUME TypeOK, TreeClosed, NEW d \in node, NEW k \in Above[d]
    PROVE  GetChildNames(k) # {}
<1>1. d \in Key /\ Above[d] \subseteq node
    BY DEF TypeOK, TreeTypeOK, TreeClosed
<1>2. PICK c \in Above[d] \cup {d} : Above[c] = Above[k] \cup {k}
    BY <1>1, AboveAssumption
<1> QED BY <1>1, <1>2 DEF GetChildNames

LEMMA DeleteIInv ==
    ASSUME IInv, NEW k \in Key, NEW c \in BOOLEAN, Delete(k, c)
    PROVE  IInv'
<1> DEFINE gone == Pruned(k, c)
<1>1. /\ node' = node \ gone
      /\ val' = [j \in Key |-> IF j \in gone \cup {k} THEN Empty ELSE val[j]]
      /\ pending' = TRUE
      /\ UNCHANGED life
    BY DEF Delete, DeleteValue
<1>2. TypeOK'
    BY <1>1 DEF IInv, TypeOK, TreeTypeOK, life
(* What goes is a subtree, or a node without children. *)
<1>3. ASSUME NEW d \in node, NEW a \in gone, a \in Above[d] PROVE d \in gone
  <2>1. CASE c
    <3>1. gone = Below(k) \cup {k}
        BY <2>1 DEF Pruned
    <3>2. d \in Key
        BY DEF IInv, TypeOK, TreeTypeOK
    <3>3. CASE a = k
        BY <1>3, <3>1, <3>2, <3>3 DEF Below
    <3>4. CASE a \in Below(k)
        BY <1>3, <3>1, <3>2, <3>4, AboveAssumption DEF Below
    <3> QED BY <1>3, <3>1, <3>3, <3>4
  <2>2. CASE ~c
    <3>1. a = k /\ GetChildNames(k) = {}
        BY <1>3, <2>2 DEF Pruned
    <3> QED BY <1>3, <3>1, DescendantMeansChild DEF IInv
  <2> QED BY <2>1, <2>2
<1>4. TreeClosed'
    BY <1>1, <1>3, AboveAssumption DEF TreeClosed, IInv, TypeOK, TreeTypeOK
<1>5. CleanIsSaved'
    BY <1>1 DEF CleanIsSaved
<1> QED BY <1>2, <1>4, <1>5 DEF IInv
(* After a whole dump a name whose text is one line, and which no value    *)
(* but its own has a line for, is written by its own line only.            *)
LEMMA DumpedIsSaved ==
    ASSUME IInv, NEW order \in Orders, NEW k \in Key, OneLine(val[k]),
           \A j \in Key : k \notin DOMAIN More[val[j]]
    PROVE  LET image == Parsed(dumpToString, order)
           IN  val[k] = (IF k \in DOMAIN image THEN image[k] ELSE Empty)
<1> DEFINE text == dumpToString
           image == Parsed(text, order)
<1>1. text \in Images
    BY DumpIsImage DEF IInv
<1>2. \A j \in DOMAIN text : j \in Key /\ text[j] = val[j] /\ val[j] # Empty
    BY DEF dumpToString, IInv, TypeOK, TreeTypeOK
<1>3. k \in DOMAIN text <=> val[k] # Empty
    BY DEF dumpToString, IInv, TreeClosed
<1>4. Writers(text, k) = IF val[k] # Empty THEN {k} ELSE {}
  <2> HIDE DEF text
  <2> QED BY <1>2, <1>3 DEF Writers
<1>5. /\ DOMAIN image = {i \in Key : Writers(text, i) # {}}
      /\ \A i \in DOMAIN image : \E j \in Writers(text, i) : image[i] = Says(text, j, i)
    BY <1>1, ParsedFacts
<1>6. CASE val[k] = Empty
    BY <1>4, <1>5, <1>6
<1>7. CASE val[k] # Empty
  <2> HIDE DEF text, image
  <2>1. k \in DOMAIN image /\ image[k] = Says(text, k, k)
      BY <1>4, <1>5, <1>7
  <2>2. Says(text, k, k) = FirstLine[val[k]]
      BY <1>2, <1>3, <1>7 DEF Says
  <2> QED BY <2>1, <2>2 DEF OneLine, text, image
<1> QED BY <1>6, <1>7

(* A dump that ends, whole or not, leaves an image in the file. *)
LEMMA DumpIInv == ASSUME IInv, DumpEnd \/ DumpFail PROVE IInv'
<1> USE DEF AfterDump
<1>1. file' \in Images
  <2>1. CASE DumpEnd
      BY <2>1, DumpIsImage, ParsedIsImage DEF DumpEnd, IInv
  <2>2. CASE DumpFail
      BY <2>2, TornIsImage DEF DumpFail, IInv
  <2> QED BY <2>1, <2>2
<1>2. TypeOK'
    BY <1>1 DEF DumpEnd, DumpFail, IInv, TypeOK, TreeTypeOK
<1>3. TreeClosed'
    BY DEF DumpEnd, DumpFail, IInv, TreeClosed
<1>4. CleanIsSaved'
  <2>1. CASE DumpEnd
    <3>1. PICK order \in Orders : file' = Parsed(dumpToString, order)
        BY <2>1 DEF DumpEnd
    <3>2. val' = val
        BY <2>1 DEF DumpEnd
    <3> QED BY <3>1, <3>2, DumpedIsSaved DEF CleanIsSaved
  <2>2. CASE DumpFail
      BY <2>2 DEF DumpFail, CleanIsSaved
  <2> QED BY <2>1, <2>2
<1> QED BY <1>2, <1>3, <1>4 DEF IInv

LEMMA EndIInv == ASSUME IInv, Exit \/ Crash PROVE IInv'
<1> USE DEF CutShort
<1>1. file' \in Images
    BY TornIsImage DEF Exit, Crash, IInv, TypeOK
<1>2. TypeOK'
    BY <1>1 DEF Exit, Crash, IInv, TypeOK, TreeTypeOK
<1>3. TreeClosed'
    BY DEF Exit, Crash, IInv, TreeClosed
<1>4. CleanIsSaved'
    BY DEF Exit, Crash, CleanIsSaved
<1> QED BY <1>2, <1>3, <1>4 DEF IInv

(* A restart reads the file: its keys and their prefixes become the nodes. *)
LEMMA StartIInv == ASSUME IInv, Start PROVE IInv'
<1> DEFINE D == DOMAIN file
<1>1. D \in SUBSET Key /\ \A k \in D : file[k] \in Text
    BY ImageFacts DEF IInv, TypeOK
<1>2. /\ node' = UNION {Above[k] \cup {k} : k \in D}
      /\ val' = [k \in Key |-> IF k \in D THEN file[k] ELSE Empty]
      /\ pending' = FALSE /\ file' = file /\ lost' = FALSE
      /\ proc' = "up" /\ stopping' = FALSE /\ dumper' = "select"
    BY DEF Start, LoadedFrom
<1>3. node' \subseteq Key /\ D \subseteq node'
  <2>1. \A k \in D : Above[k] \cup {k} \subseteq Key
      BY <1>1, AboveAssumption
  <2> QED BY <1>2, <2>1
<1>4. val' \in [Key -> Value \cup {Empty}]
    BY <1>1, <1>2 DEF Text
<1>5. TypeOK'
    BY <1>2, <1>3, <1>4 DEF IInv, TypeOK, TreeTypeOK
<1>6. TreeClosed'
    BY <1>1, <1>2, AboveAssumption DEF TreeClosed
<1>7. CleanIsSaved'
    BY <1>2 DEF CleanIsSaved
<1> QED BY <1>5, <1>6, <1>7 DEF IInv

LEMMA NextIInv == IInv /\ [Next]_vars => IInv'
<1> SUFFICES ASSUME IInv, [Next]_vars PROVE IInv'
    OBVIOUS
<1>1. CASE DumpBegin \/ DumpNothing \/ Finalize
  <2>1. TypeOK' /\ TreeClosed'
      BY <1>1 DEF DumpBegin, DumpNothing, Finalize, IInv, TypeOK, TreeTypeOK, TreeClosed
  <2>2. CleanIsSaved'
      BY <1>1 DEF DumpBegin, DumpNothing, Finalize, IInv, CleanIsSaved
  <2> QED BY <2>1, <2>2 DEF IInv
<1>2. CASE UNCHANGED vars
    BY <1>2 DEF vars, IInv, TypeOK, TreeTypeOK, TreeClosed, CleanIsSaved
<1> QED BY <1>1, <1>2, SetIInv, DeleteIInv, DumpIInv, EndIInv, StartIInv DEF Next

(* The invariant holds in every reachable state, whatever the faults. *)
THEOREM RamCachedDBIInv == Spec => []IInv
BY InitIInv, NextIInv, PTL DEF Spec

(* Every variable of the driver keeps its type. *)
THEOREM RamCachedDBTypeOK == Spec => []TypeOK
<1>1. IInv => TypeOK
    BY DEF IInv
<1> QED BY RamCachedDBIInv, <1>1, PTL

(* DeleteValue and load leave no value outside the reach of scrollTree. *)
THEOREM RamCachedDBTreeClosed == Spec => []TreeClosed
<1>1. IInv => TreeClosed
    BY DEF IInv
<1> QED BY RamCachedDBIInv, <1>1, PTL

(* pendingChanges = false means that memory is on disk, as far as a load   *)
(* brings it back as it was written, unless a dump failed.                 *)
THEOREM RamCachedDBCleanIsSaved == Spec => []CleanIsSaved
<1>1. IInv => CleanIsSaved
    BY DEF IInv
<1> QED BY RamCachedDBIInv, <1>1, PTL
----------------------------------------------------------------------------
(* The driver implements Store.  In a closed tree what Get returns is the  *)
(* value of the key, with a node or without one.                           *)
Live == [k \in Key |-> Get(k, Empty)]
Saved == [k \in Key |-> IF k \in DOMAIN file THEN file[k] ELSE Empty]

LEMMA LiveIsVal == IInv => Live = val
BY DEF IInv, TypeOK, TreeTypeOK, TreeClosed, Live, Get, HasValue

(* What a load makes of some texts is an image of them. *)
WithEmpty(text) == [k \in Key |-> IF k \in DOMAIN text THEN text[k] ELSE Empty]

LEMMA ParsedIsStoreImage ==
    ASSUME NEW text \in Images, NEW order \in Orders
    PROVE  WithEmpty(Parsed(text, order)) \in Abstract!Images(WithEmpty(text))
<1> DEFINE image == Parsed(text, order)
           full == WithEmpty(text)
           saved == WithEmpty(image)
<1>1. /\ DOMAIN image = {i \in Key : Writers(text, i) # {}}
      /\ \A i \in DOMAIN image : \E j \in Writers(text, i) : image[i] = Says(text, j, i)
    BY ParsedFacts
<1>2. \A i \in DOMAIN image : image[i] \in Text
    BY <1>1, SaysIsText
<1>3. DOMAIN text \subseteq Key
    BY ImageFacts
<1>4. /\ \A k \in Key : full[k] = (IF k \in DOMAIN text THEN text[k] ELSE Empty)
      /\ \A k \in Key : saved[k] = (IF k \in DOMAIN image THEN image[k] ELSE Empty)
    BY DEF WithEmpty
<1>5. saved \in [Key -> Value \cup {Empty}]
    BY <1>2 DEF WithEmpty, Text
<1>6. ASSUME NEW k \in Key
      PROVE  \/ saved[k] = FirstOf(full[k])
             \/ \E j \in Key : k \in DOMAIN MoreOf(full[j]) /\ saved[k] = MoreOf(full[j])[k]
  <2> HIDE DEF image, full, saved
  <2>1. CASE Writers(text, k) = {}
    <3>1. k \notin DOMAIN text /\ k \notin DOMAIN image
        BY <1>1, <2>1 DEF Writers
    <3> QED BY <1>4, <3>1, TextAssumption DEF FirstOf, OneLine
  <2>2. CASE Writers(text, k) # {}
    <3>1. PICK j \in Writers(text, k) : image[k] = Says(text, j, k)
        BY <1>1, <2>2
    <3>2. saved[k] = Says(text, j, k)
        BY <1>1, <1>4, <2>2, <3>1
    <3>3. j \in DOMAIN text /\ j \in Key /\ full[j] = text[j]
        BY <1>3, <1>4 DEF Writers
    <3>4. CASE k \in DOMAIN More[text[j]]
        BY <3>2, <3>3, <3>4 DEF Says, MoreOf
    <3>5. CASE k \notin DOMAIN More[text[j]]
        BY <3>2, <3>3, <3>5 DEF Says, FirstOf, Writers
    <3> QED BY <3>4, <3>5
  <2> QED BY <2>1, <2>2
<1> HIDE DEF image, full, saved
<1>7. saved \in Abstract!Images(full)
    BY <1>5, <1>6 DEF Abstract!Images
<1> QED BY <1>7 DEF saved, full, image

(* What is left of an interrupted dump are the texts of some keys, with    *)
(* one of them cut.                                                        *)
Torn(kept, c, cut) ==
    [k \in Key |-> IF k = c THEN cut ELSE IF k \in kept THEN val[k] ELSE Empty]

LEMMA PartIsTorn ==
    ASSUME IInv, NEW order \in Orders, NEW part \in PartOf(dumpToString, order), Key # {}
    PROVE  \E kept \in SUBSET Key, c \in Key :
             \E cut \in CutsOf(val[c]) :
               WithEmpty(part) = Torn(kept, c, cut)
<1> DEFINE text == dumpToString
<1>1. \A k \in DOMAIN text : k \in Key /\ text[k] = val[k] /\ val[k] # Empty
    BY DEF dumpToString, IInv, TypeOK, TreeTypeOK
<1>2. CASE part = [k \in {} |-> Empty]
  <2>1. PICK c \in Key : TRUE
      OBVIOUS
  <2>2. Empty \in CutsOf(val[c])
      BY DEF CutsOf
  <2>3. WithEmpty(part) = Torn({}, c, Empty)
      BY <1>2 DEF WithEmpty, Torn
  <2> QED BY <2>1, <2>2, <2>3
<1>3. CASE part # [k \in {} |-> Empty]
  <2>1. PICK c \in DOMAIN text : \E cut \in Cuts[text[c]] \cup {text[c]} :
                part = Until(text, order, c, cut)
      BY <1>3 DEF PartOf
  <2>2. PICK cut \in Cuts[text[c]] \cup {text[c]} : part = Until(text, order, c, cut)
      BY <2>1
  <2> DEFINE kept == {j \in DOMAIN text : order[j] <= order[c]}
  <2> HIDE DEF text
  <2>3. c \in Key /\ cut \in CutsOf(val[c]) /\ kept \in SUBSET Key
      BY <1>1, <2>2 DEF CutsOf
  <2>4. part = [k \in kept |-> IF k = c THEN cut ELSE text[k]]
      BY <2>2 DEF Until
  <2>5. DOMAIN part = kept /\ \A k \in kept : part[k] = IF k = c THEN cut ELSE val[k]
      BY <1>1, <2>4
  <2>6. c \in kept
    <3>1. Cardinality(Key) \in Nat /\ order[c] \in 1..Cardinality(Key)
        BY <2>3, TextAssumption, FS_CardinalityType DEF Orders
    <3> QED BY <3>1
  <2>7. WithEmpty(part) = Torn(kept, c, cut)
    <3> HIDE DEF kept
    <3> QED BY <2>5, <2>6, <2>3 DEF WithEmpty, Torn
  <2> QED BY <2>3, <2>7
<1> QED BY <1>2, <1>3

(* A dump that ends saves what is live, or a part of it, or nothing. *)
LEMMA DumpIsSave ==
    ASSUME IInv, UNCHANGED <<node, val>>,
           \/ \E order \in Orders : file' = Parsed(dumpToString, order)
           \/ file' \in TornFiles
    PROVE  \/ Abstract!Save
           \/ \E kept \in SUBSET Key : Abstract!Tear(kept)
           \/ UNCHANGED <<Live, Saved>>
<1>1. Live = val /\ Live' = Live
    BY LiveIsVal DEF Live, Get, HasValue
<1>2. Saved' = WithEmpty(file')
    BY DEF Saved, WithEmpty
<1>3. CASE file' = file
    BY <1>1, <1>3 DEF Saved
<1>4. ASSUME NEW order \in Orders, file' = Parsed(dumpToString, order)
      PROVE  Abstract!Save
  <2>1. WithEmpty(dumpToString) = val
      BY DEF WithEmpty, dumpToString, IInv, TypeOK, TreeTypeOK, TreeClosed
  <2>2. Saved' \in Abstract!Images(Live)
      BY <1>1, <1>2, <1>4, <2>1, DumpIsImage, ParsedIsStoreImage DEF IInv
  <2> QED BY <1>1, <2>2 DEF Abstract!Save, Live, Saved
<1>5. ASSUME NEW order \in Orders, NEW part \in PartOf(dumpToString, order),
             file' = Parsed(part, order), Key # {}
      PROVE  \E kept \in SUBSET Key : Abstract!Tear(kept)
  <2>1. part \in Images
    <3>1. \A k \in DOMAIN dumpToString : dumpToString[k] \in Value
        BY DEF dumpToString, IInv, TypeOK, TreeTypeOK
    <3> QED BY <3>1, DumpIsImage, PartIsImage DEF IInv
  <2>2. PICK kept \in SUBSET Key, c \in Key : \E cut \in CutsOf(val[c]) :
               WithEmpty(part) = Torn(kept, c, cut)
      BY <1>5, PartIsTorn
  <2>3. PICK cut \in CutsOf(val[c]) :
               WithEmpty(part) = Torn(kept, c, cut)
      BY <2>2
  <2>4. WithEmpty(part) = Abstract!Torn(kept, c, cut)
      BY <1>1, <2>3 DEF Abstract!Torn, Torn, Live
  <2>5. Saved' \in Abstract!Images(Abstract!Torn(kept, c, cut))
      BY <1>2, <1>5, <2>1, <2>4, ParsedIsStoreImage
  <2>6. cut \in CutsOf(Live[c])
      BY <1>1, <2>3
  <2> QED BY <1>1, <2>5, <2>6 DEF Abstract!Tear, Live, Saved
<1>6. CASE Key = {}
  <2>1. Saved = Saved'
      BY <1>6 DEF Saved
  <2> QED BY <1>1, <2>1
<1> QED BY <1>3, <1>4, <1>5, <1>6 DEF TornFiles

LEMMA StepIsStoreStep ==
    IInv /\ IInv' /\ [Next]_vars => [Abstract!Next]_<<Live, Saved>>
<1> SUFFICES ASSUME IInv, IInv', [Next]_vars PROVE Abstract!Next \/ UNCHANGED <<Live, Saved>>
    OBVIOUS
<1>1. Live = val /\ Live' = val'
    BY DEF IInv, TypeOK, TreeTypeOK, TreeClosed, Live, Get, HasValue
<1>2. ASSUME NEW k \in Key, NEW v \in Value \cup {Empty}, SetValue(k, v)
      PROVE  Abstract!Next
  <2>1. Live' = [Live EXCEPT ![k] = v] /\ Saved' = Saved
      BY <1>1, <1>2 DEF SetValue, Set, life, Saved
  <2>2. Abstract!Put(k, v)
      BY <2>1 DEF Abstract!Put, Live, Saved
  <2> QED BY <2>2 DEF Abstract!Next
<1>3. ASSUME NEW k \in Key, NEW c \in BOOLEAN, Delete(k, c)
      PROVE  Abstract!Next
  <2>1. Pruned(k, c) \cup {k} = IF c THEN {k} \cup Below(k) ELSE {k}
      BY DEF Pruned
  <2>2. /\ Live' = [j \in Key |-> IF j \in Pruned(k, c) \cup {k} THEN Empty ELSE Live[j]]
        /\ Saved' = Saved
      BY <1>1, <1>3 DEF Delete, DeleteValue, life, Saved
  <2>3. Abstract!Remove(Pruned(k, c) \cup {k})
      BY <2>2 DEF Abstract!Remove, Live, Saved
  <2> QED BY <2>1, <2>3 DEF Abstract!Next
<1>4. CASE DumpEnd \/ DumpFail \/ Exit \/ Crash
  <2>1. /\ UNCHANGED <<node, val>>
        /\ \/ \E order \in Orders : file' = Parsed(dumpToString, order)
           \/ file' \in TornFiles
      BY <1>4 DEF DumpEnd, DumpFail, Exit, Crash, CutShort, AfterDump, TornFiles
  <2> QED BY <2>1, DumpIsSave DEF Abstract!Next
<1>5. CASE Start
  <2>1. val' = Saved /\ Saved' = Saved
      BY <1>5 DEF Start, LoadedFrom, Saved
  <2>2. Abstract!Restart
      BY <1>1, <2>1 DEF Abstract!Restart, Live, Saved
  <2> QED BY <2>2 DEF Abstract!Next
<1>6. CASE DumpBegin \/ DumpNothing \/ Finalize \/ UNCHANGED vars
    BY <1>1, <1>6 DEF DumpBegin, DumpNothing, Finalize, vars, Saved
<1> QED BY <1>2, <1>3, <1>4, <1>5, <1>6 DEF Next

(* Whatever happens to the dumps, reads, writes, deletions and restarts of *)
(* the driver are those of a map of which images are saved.                *)
THEOREM RamCachedDBIsStore == Spec => IsStore
<1>1. Init => Abstract!Init
  <2> SUFFICES ASSUME Init PROVE Abstract!Init
      OBVIOUS
  <2>1. Live = [k \in Key |-> Empty] /\ Saved = [k \in Key |-> Empty]
      BY DEF Init, EmptyTree, Live, Saved, Get, HasValue
  <2> QED BY <2>1 DEF Abstract!Init, Live, Saved
<1>2. IInv /\ IInv' /\ [Next]_vars
        => [Abstract!Next]_<<[k \in Key |-> Get(k, Empty)],
                [k \in Key |-> IF k \in DOMAIN file THEN file[k] ELSE Empty]>>
    BY StepIsStoreStep DEF Live, Saved
<1> QED BY <1>1, <1>2, RamCachedDBIInv, PTL DEF Spec, IsStore, Abstract!Spec
----------------------------------------------------------------------------
(* The prefix-tree driver, in a directory in which any text dump may have  *)
(* been left.                                                              *)
PkvInv == P!TypeOK /\ P!TreeClosed

LEMMA ContentsFacts ==
    ASSUME NEW f, f \in P!Contents \/ f \in P!Images
    PROVE  /\ DOMAIN f \in SUBSET Key
           /\ \A k \in DOMAIN f : f[k] \in Value \cup {Empty}
<1>1. PICK D \in SUBSET Key : f \in [D -> Value] \/ f \in [D -> Value \cup {Empty}]
    BY DEF P!Contents, P!Images
<1> QED BY <1>1

LEMMA PkvInitInv == P!Init => PkvInv
<1> SUFFICES ASSUME P!Init PROVE PkvInv
    OBVIOUS
<1>1. pkv \in P!Contents
  <2>1. pkv \in [{} -> Value]
      BY DEF P!Init
  <2> QED BY <2>1 DEF P!Contents
<1>2. old \in P!Images
    BY OldDumpsAssumption DEF P!Init, P!Images, Images, Text
<1>3. P!TypeOK
    BY <1>1, <1>2 DEF P!Init, P!EmptyTree, P!TypeOK, P!TreeTypeOK
<1>4. P!TreeClosed
    BY DEF P!Init, P!EmptyTree, P!TreeClosed
<1> QED BY <1>3, <1>4 DEF PkvInv

LEMMA PkvSetInv ==
    ASSUME PkvInv, NEW k \in Key, NEW v \in Value \cup {Empty}, P!SetValue(k, v)
    PROVE  PkvInv'
<1> USE AboveAssumption DEF PkvInv, P!SetValue, P!Set, P!scrollTree
<1>1. P!TypeOK'
    BY DEF P!TypeOK, P!TreeTypeOK
<1>2. P!TreeClosed'
    BY DEF P!TreeClosed, P!TypeOK, P!TreeTypeOK
<1> QED BY <1>1, <1>2

LEMMA PkvDescendantMeansChild ==
    ASSUME PkvInv, NEW d \in pnode, NEW k \in Above[d]
    PROVE  P!GetChildNames(k) # {}
<1>1. d \in Key /\ Above[d] \subseteq pnode
    BY DEF PkvInv, P!TypeOK, P!TreeTypeOK, P!TreeClosed
<1>2. PICK c \in Above[d] \cup {d} : Above[c] = Above[k] \cup {k}
    BY <1>1, AboveAssumption
<1> QED BY <1>1, <1>2 DEF P!GetChildNames

LEMMA PkvDeleteInv ==
    ASSUME PkvInv, NEW k \in Key, NEW c \in BOOLEAN, P!Delete(k, c)
    PROVE  PkvInv'
<1> DEFINE gone == P!Pruned(k, c)
<1>1. /\ k \in pnode
      /\ pnode' = pnode \ gone
      /\ pval' = [j \in Key |-> IF j \in gone \cup {k} THEN Empty ELSE pval[j]]
      /\ changed' = (changed \cup {k}) \ gone
      /\ ppending' = TRUE /\ pkv' = pkv /\ old' = old /\ pproc' = pproc
    BY DEF P!Delete, P!DeleteValue, P!HasValue
<1>2. P!TypeOK'
    BY <1>1 DEF PkvInv, P!TypeOK, P!TreeTypeOK
<1>3. ASSUME NEW d \in pnode, NEW a \in gone, a \in Above[d] PROVE d \in gone
  <2>1. CASE c
    <3>1. gone = P!Below(k) \cup {k}
        BY <2>1 DEF P!Pruned
    <3>2. d \in Key
        BY DEF PkvInv, P!TypeOK, P!TreeTypeOK
    <3>3. CASE a = k
        BY <1>3, <3>1, <3>2, <3>3 DEF P!Below
    <3>4. CASE a \in P!Below(k)
        BY <1>3, <3>1, <3>2, <3>4, AboveAssumption DEF P!Below
    <3> QED BY <1>3, <3>1, <3>3, <3>4
  <2>2. CASE ~c
    <3>1. a = k /\ P!GetChildNames(k) = {}
        BY <1>3, <2>2 DEF P!Pruned
    <3> QED BY <1>3, <3>1, PkvDescendantMeansChild
  <2> QED BY <2>1, <2>2
<1>4. P!TreeClosed'
    BY <1>1, <1>3, AboveAssumption DEF P!TreeClosed, PkvInv, P!TypeOK, P!TreeTypeOK
<1> QED BY <1>2, <1>4 DEF PkvInv

LEMMA PkvDumpInv == ASSUME PkvInv, P!dumpPkv PROVE PkvInv'
<1> DEFINE kept == (DOMAIN pkv \ P!Dumped) \cup {k \in P!Dumped : pval[k] # Empty}
<1>1. /\ pkv' = [k \in kept |-> IF k \in P!Dumped THEN pval[k] ELSE pkv[k]]
      /\ ppending' = FALSE /\ UNCHANGED <<pnode, pval, changed, old, pproc>>
    BY DEF P!dumpPkv
<1>2. P!Dumped \subseteq pnode /\ pnode \subseteq Key
    BY DEF PkvInv, P!TypeOK, P!TreeTypeOK, P!Dumped
<1>3. DOMAIN pkv \in SUBSET Key /\ \A k \in DOMAIN pkv : pkv[k] \in Value
  <2>1. PICK D \in SUBSET Key : pkv \in [D -> Value]
      BY DEF PkvInv, P!TypeOK, P!Contents
  <2> QED BY <2>1
<1>4. pkv' \in [kept -> Value] /\ kept \in SUBSET Key
  <2>1. \A k \in kept : (IF k \in P!Dumped THEN pval[k] ELSE pkv[k]) \in Value
      BY <1>2, <1>3 DEF PkvInv, P!TypeOK, P!TreeTypeOK
  <2> QED BY <1>1, <1>2, <1>3, <2>1
<1>5. pkv' \in P!Contents
    BY <1>4 DEF P!Contents
<1>6. P!TypeOK'
    BY <1>1, <1>5 DEF PkvInv, P!TypeOK, P!TreeTypeOK
<1>7. P!TreeClosed'
    BY <1>1 DEF PkvInv, P!TreeClosed
<1> QED BY <1>6, <1>7 DEF PkvInv

(* Loading builds the nodes above each name of the file and of a text dump *)
(* left beside it.                                                         *)
LEMMA PkvLoadInv == ASSUME PkvInv, P!NewRamCachedDBPkv PROVE PkvInv'
<1> DEFINE both == DOMAIN pkv \cup DOMAIN old
<1>1. /\ pnode' = UNION {Above[k] \cup {k} : k \in both}
      /\ pval' = [k \in Key |-> CASE k \in DOMAIN old -> old[k]
                                 [] k \in DOMAIN pkv \ DOMAIN old -> pkv[k]
                                 [] OTHER -> Empty]
      /\ changed' = DOMAIN pkv
      /\ ppending' = (DOMAIN old = {} /\ DOMAIN pkv # {})
      /\ pproc' = "up" /\ pkv' = pkv /\ old' = old
    BY DEF P!NewRamCachedDBPkv
<1>2. /\ DOMAIN pkv \in SUBSET Key /\ \A k \in DOMAIN pkv : pkv[k] \in Value \cup {Empty}
      /\ DOMAIN old \in SUBSET Key /\ \A k \in DOMAIN old : old[k] \in Value \cup {Empty}
    BY ContentsFacts DEF PkvInv, P!TypeOK
<1>3. pnode' \subseteq Key /\ both \subseteq pnode'
  <2>1. \A k \in both : Above[k] \cup {k} \subseteq Key
      BY <1>2, AboveAssumption
  <2> QED BY <1>1, <2>1
<1>4. pval' \in [Key -> Value \cup {Empty}]
    BY <1>1, <1>2
<1>5. ppending' \in BOOLEAN
    BY <1>1, Zenon
<1>6. P!TypeOK'
    BY <1>1, <1>3, <1>4, <1>5 DEF PkvInv, P!TypeOK, P!TreeTypeOK
<1>7. \A k \in Key \ pnode' : pval'[k] = Empty
    BY <1>1, <1>3
<1>8. \A k \in pnode' : Above[k] \subseteq pnode'
    BY <1>1, <1>2, AboveAssumption
<1> QED BY <1>6, <1>7, <1>8 DEF PkvInv, P!TreeClosed

(* The prefix-tree driver keeps its tree closed. *)
THEOREM PkvInvariant == P!Spec => []PkvInv
<1>1. PkvInv /\ P!Crash => PkvInv'
    BY DEF PkvInv, P!TypeOK, P!TreeTypeOK, P!Crash, P!TreeClosed
<1>2. PkvInv /\ UNCHANGED P!vars => PkvInv'
    BY DEF P!vars, PkvInv, P!TypeOK, P!TreeTypeOK, P!TreeClosed
<1>3. PkvInv /\ [P!Next]_(P!vars) => PkvInv'
    BY <1>1, <1>2, PkvSetInv, PkvDeleteInv, PkvDumpInv, PkvLoadInv DEF P!Next
<1> QED BY <1>3, PkvInitInv, PTL DEF P!Spec

(* Whichever driver initStorage starts, what happens is a behaviour of the *)
(* specification of each: the one that does not run does nothing.  So all  *)
(* that is proved of the drivers holds of the storage.                     *)
THEOREM StorageIsItsDriver == StorageSpec => Spec /\ P!Spec
<1>1. StorageInit => Init /\ P!Init
    BY DEF StorageInit
<1>2. [StorageNext]_<<driver, vars, prefix>> => [Next]_vars
    BY DEF StorageNext
<1>3. [StorageNext]_<<driver, vars, prefix>> => [P!Next]_(P!vars)
    BY DEF StorageNext, prefix, P!vars
<1> QED BY <1>1, <1>2, <1>3, PTL DEF StorageSpec, Spec, P!Spec

(* Whichever driver runs, DeleteValue and the loads leave no value outside *)
(* the reach of scrollTree.                                                *)
THEOREM StorageTreesClosed == StorageSpec => []TreesClosed
<1>1. TreeClosed /\ PkvInv => TreesClosed
    BY DEF PkvInv, TreesClosed
<1> QED BY <1>1, StorageIsItsDriver, RamCachedDBTreeClosed, PkvInvariant, PTL
============================================================================
