------------------------- MODULE HttpRequestsProofs ------------------------
(***************************************************************************)
(* Queries over a tree that changes under them, documents that are set     *)
(* leaf by leaf and answers in JSON, for any names, requests and number of *)
(* clients.                                                                *)
(***************************************************************************)
EXTENDS HttpRequests, FiniteSetTheorems, SequenceTheorems, WellFoundedInduction, TLAPS

(* A call has its fields; the names it has to visit and to work on are     *)
(* sequences of words.                                                     *)
NameRec == [key : Seq(STRING), dotted : BOOLEAN]

IsCall(c) ==
    c = [step |-> c.step, op |-> c.op, q |-> c.q, arg |-> c.arg, walk |-> c.walk,
         names |-> c.names, acc |-> c.acc, err |-> c.err, stood |-> c.stood,
         touched |-> c.touched]

CallTyped(c) ==
    /\ IsCall(c)
    /\ c.step \in {"idle", "walk", "work", "write", "done", "spin"}
    /\ c.op \in Ops \cup {"none"} /\ c.q \in Query
    /\ c.walk \in Seq(Seq(STRING)) /\ c.names \in Seq(NameRec)
    /\ c.step \in {"work", "write"} => c.names # <<>> /\ c.q.incr = "none"
    /\ c.step = "walk" => c.walk # <<>> /\ c.names # <<>> /\ c.q.incr = "none" /\ c.q.star
    /\ c.step = "done" /\ ~c.err => c.names = <<>>
    /\ c.step = "write" => c.op \in {"set", "del"}
    /\ c.step = "write" => c.names[1].key \in Key
    /\ c.step = "write" /\ c.op = "set" => ~Refused(c.names[1], c.arg)

(* A walk goes down from the name before the '*', past no hidden word. *)
WalkGoesDown(c) ==
    /\ \A i \in DOMAIN c.walk : c.walk[i] = c.q.pre \/ c.walk[i] \in VisibleBelow(c.q.pre)
    /\ \A i \in DOMAIN c.names : c.names[i].key \in Matches(c.q)

(* What stood when the call began, and was left alone, stands until the    *)
(* call itself changes it.                                                 *)
Left(c) == c.stood \ c.touched

Standing(c) == {k \in Key : \E j \in Left(c) : j = k \/ k \in Above[j]}

Stands(c, v) ==
    /\ c.stood \subseteq Key
    /\ c.op \in {"get", "children"} \/ c.step = "walk" =>
         \A k \in Key \ c.touched : v[k] # Empty <=> k \in c.stood

(* A name that is asked for and stands is among the names to work on, or   *)
(* the walk has still to come past it, or it has been worked on.           *)
InNames(c, k) == \E i \in DOMAIN c.names : c.names[i].key = k

Passes(c, d) == \E i \in DOMAIN c.walk : c.walk[i] = d \/ IsStrictPrefix(c.walk[i], d)

Ahead(c, k) ==
    InNames(c, k) \/ \E d \in VisibleBelow(c.q.pre) : k = d \o c.q.rest /\ Passes(c, d)

Found(c, v, k) == c.op = "get" /\ k \in Left(c) => [key |-> k, val |-> v[k]] \in c.acc

ListedBelow(c, k) ==
    c.op = "children" => \A j \in Left(c) \ {<<>>} :
        Front(j) = k /\ Last(j) \notin HiddenWord => \E a \in c.acc : a.key = <<Last(j)>>

Written(c, v, k) ==
    /\ c.op = "set" /\ k \in Left(c) => v[k] = c.arg
    /\ c.op = "del" /\ k \in Left(c) => v[k] = Empty

WorkedOn(c, v, k) == Found(c, v, k) /\ ListedBelow(c, k) /\ Written(c, v, k)

Asking(c) == IF c.q.incr = "none" THEN Matches(c.q) ELSE {}

NothingMissed(c, v) ==
    /\ c.step = "walk" => \A k \in Asking(c) \cap Standing(c) : Ahead(c, k)
    /\ c.step \in {"work", "write"} \/ (c.step = "done" /\ ~c.err) =>
         \A k \in Asking(c) \cap Standing(c) : InNames(c, k) \/ WorkedOn(c, v, k)

(* The own word of a name directly below one of the set. *)
IsChildOf(n, set) ==
    \E j \in Key \ {<<>>} :
        n = <<Last(j)>> /\ Front(j) \in set /\ Last(j) \notin HiddenWord

(* What has been gathered was asked for, and is so still. *)
NothingElse(c, v) ==
    /\ c.op = "get" => \A a \in c.acc :
         /\ a = [key |-> a.key, val |-> a.val]
         /\ a.key \in Asking(c) \cap Key /\ a.val # Empty /\ a.val \in Value
         /\ a.key # <<>> => Last(a.key) # ValueWord
         /\ a.key \notin c.touched => a.val = v[a.key]
    /\ c.op = "children" => \A a \in c.acc : IsChildOf(a.key, Asking(c))

(* No name is found twice: the names still to be visited lie apart, and    *)
(* what the walk has still to come past has not been named.                *)
Apart(a, b) == a # b /\ ~IsStrictPrefix(a, b) /\ ~IsStrictPrefix(b, a)

WalkOnce(c) ==
    /\ \A i, j \in DOMAIN c.walk : i # j => Apart(c.walk[i], c.walk[j])
    /\ \A d \in VisibleBelow(c.q.pre) : Passes(c, d) => ~InNames(c, d \o c.q.rest)

NamedOnce(c) ==
    /\ \A i, j \in DOMAIN c.names : c.names[i].key = c.names[j].key => i = j
    /\ c.step = "walk" => WalkOnce(c) /\ c.acc = {}
    /\ c.op = "get" =>
         /\ \A a \in c.acc : ~InNames(c, a.key)
         /\ \A a, b \in c.acc : a.key = b.key => a = b

(* No variable has _value for its last word. *)
NoneEndsInValue(v) == \A k \in Key \ {<<>>} : Last(k) = ValueWord => v[k] = Empty

(* A call c over the values v. *)
CallInv(c, v) ==
    /\ CallTyped(c)
    /\ c.step \in {"walk", "work", "write"} => WalkGoesDown(c)
    /\ c.step # "idle" =>
         Stands(c, v) /\ NothingMissed(c, v) /\ NothingElse(c, v) /\ NamedOnce(c)

QueryInv ==
    /\ TreeTypeOK /\ TreeClosed /\ NoneEndsInValue(val)
    /\ call = [p \in Client |-> call[p]]
    /\ \A p \in Client : CallInv(call[p], val)
----------------------------------------------------------------------------
(* Words. *)
LEMMA StrictPrefixes == \A a, b \in Seq(STRING) :
    IsStrictPrefix(a, b) <=> Len(a) < Len(b) /\ \A i \in 1 .. Len(a) : a[i] = b[i]
<1> SUFFICES ASSUME NEW a \in Seq(STRING), NEW b \in Seq(STRING)
             PROVE  IsStrictPrefix(a, b)
                      <=> Len(a) < Len(b) /\ \A i \in 1 .. Len(a) : a[i] = b[i]
    OBVIOUS
<1>1. SubSeq(a, 1, Len(a)) = a /\ Len(a) \in Nat /\ Len(b) \in Nat
    BY SubSeqFull, LenProperties
<1>2. ASSUME Len(a) <= Len(b)
      PROVE  a = SubSeq(b, 1, Len(a)) <=> \A i \in 1 .. Len(a) : a[i] = b[i]
    BY <1>1, <1>2
<1>3. Len(a) = Len(b) /\ (\A i \in 1 .. Len(a) : a[i] = b[i]) => a = b
    BY SeqEqual
<1> QED BY <1>1, <1>2, <1>3 DEF IsStrictPrefix, IsPrefix

(* What is below a key in the tree, said of its words. *)
LEMMA AboveIsPrefix == \A j, k \in Key : j \in Above[k] <=> IsStrictPrefix(j, k)
BY NameAssumption

LEMMA PrefixIsKey ==
    ASSUME NEW d \in Key, NEW a \in Seq(STRING), IsStrictPrefix(a, d)
    PROVE  a \in Key /\ a \in Above[d]
<1>1. d \in Seq(STRING)
    BY NameAssumption
<1>2. Len(a) < Len(d) /\ \A i \in 1 .. Len(a) : a[i] = d[i]
    BY <1>1, StrictPrefixes
<1>3. Len(a) \in 0 .. Len(d)
    BY <1>1, <1>2
<1>4. SubSeq(d, 1, Len(a)) = a
    BY <1>1, <1>2
<1>5. a \in Key
    BY <1>3, <1>4, NameAssumption
<1> QED BY <1>5, AboveIsPrefix

(* A child's name is its parent's with one more word. *)
LEMMA ChildIsLonger ==
    ASSUME NEW h \in Key, NEW c \in Key, Above[c] = Above[h] \cup {h}
    PROVE  Len(c) = Len(h) + 1 /\ IsStrictPrefix(h, c)
<1>1. h \in Seq(STRING) /\ c \in Seq(STRING) /\ Len(h) \in Nat /\ Len(c) \in Nat
    BY NameAssumption, LenProperties
<1>2. IsStrictPrefix(h, c)
    BY AboveIsPrefix
<1>3. Len(h) < Len(c)
    BY <1>1, <1>2, StrictPrefixes
<1>4. ASSUME Len(c) > Len(h) + 1 PROVE FALSE
  <2> DEFINE e == SubSeq(c, 1, Len(h) + 1)
  <2>1. e \in Key
      BY <1>1, <1>4, NameAssumption
  <2>2. Len(e) = Len(h) + 1 /\ (\A i \in 1 .. Len(e) : e[i] = c[i]) /\ e \in Seq(STRING)
      BY <1>1, <1>4
  <2> HIDE DEF e
  <2>3. IsStrictPrefix(e, c)
      BY <1>1, <1>4, <2>2, StrictPrefixes
  <2>4. e \in Above[h] \/ e = h
      BY <2>1, <2>3, AboveIsPrefix
  <2>5. IsStrictPrefix(e, h) \/ e = h
      BY <2>1, <2>4, AboveIsPrefix
  <2> QED BY <1>1, <2>2, <2>5, StrictPrefixes
<1> QED BY <1>1, <1>2, <1>3, <1>4

(* ... and a name with one more word is a child's. *)
LEMMA LongerIsChild ==
    ASSUME NEW h \in Key, NEW c \in Key, Len(c) = Len(h) + 1, IsStrictPrefix(h, c)
    PROVE  Above[c] = Above[h] \cup {h}
<1>1. h \in Seq(STRING) /\ c \in Seq(STRING) /\ Len(h) \in Nat /\ Len(c) \in Nat
    BY NameAssumption, LenProperties
<1>2. \A i \in 1 .. Len(h) : h[i] = c[i]
    BY <1>1, StrictPrefixes
<1>3. ASSUME NEW j \in Key PROVE IsStrictPrefix(j, c) <=> IsStrictPrefix(j, h) \/ j = h
  <2>1. j \in Seq(STRING) /\ Len(j) \in Nat
      BY NameAssumption, LenProperties
  <2>2. IsStrictPrefix(j, h) => IsStrictPrefix(j, c)
      BY <1>1, <1>2, <2>1, StrictPrefixes
  <2>3. ASSUME IsStrictPrefix(j, c), Len(j) < Len(h) PROVE IsStrictPrefix(j, h)
      BY <1>1, <1>2, <2>1, <2>3, StrictPrefixes
  <2>4. ASSUME IsStrictPrefix(j, c), Len(j) >= Len(h) PROVE j = h
    <3>1. Len(j) = Len(h) /\ \A i \in 1 .. Len(j) : j[i] = c[i]
        BY <1>1, <2>1, <2>4, StrictPrefixes
    <3> QED BY <1>1, <1>2, <2>1, <3>1, SeqEqual
  <2> QED BY <1>1, <2>1, <2>2, <2>3, <2>4
<1>4. Above[c] \subseteq Key /\ Above[h] \subseteq Key
    BY AboveAssumption
<1> QED BY <1>3, <1>4, AboveIsPrefix

LEMMA FrontIsShorter ==
    ASSUME NEW c \in Key, c # <<>>
    PROVE  /\ Front(c) \in Seq(STRING) /\ Len(Front(c)) = Len(c) - 1
           /\ \A i \in 1 .. Len(Front(c)) : Front(c)[i] = c[i]
<1>1. c \in Seq(STRING) /\ Len(c) \in Nat \ {0}
    BY NameAssumption, EmptySeq
<1>2. Front(c) = SubSeq(c, 1, Len(c) - 1)
    BY DEF Front
<1>3. /\ SubSeq(c, 1, Len(c) - 1) \in Seq(STRING)
      /\ Len(SubSeq(c, 1, Len(c) - 1)) = Len(c) - 1
      /\ \A i \in 1 .. Len(c) - 1 : SubSeq(c, 1, Len(c) - 1)[i] = c[i]
  <2> DEFINE n == Len(c) - 1
  <2>1. n \in Nat /\ n \in Int /\ \A i \in 1 .. n : c[i] \in STRING
      BY <1>1
  <2> HIDE DEF n
  <2>2. SubSeq(c, 1, n) \in Seq(STRING) /\ Len(SubSeq(c, 1, n)) = n
        /\ \A i \in 1 .. n : SubSeq(c, 1, n)[i] = c[i]
      BY <2>1
  <2> QED BY <2>2 DEF n
<1> QED BY <1>2, <1>3

LEMMA FrontIsParent ==
    ASSUME NEW c \in Key, c # <<>>
    PROVE  /\ Front(c) \in Key /\ Above[c] = Above[Front(c)] \cup {Front(c)}
           /\ Last(c) = c[Len(c)]
<1>1. c \in Seq(STRING) /\ Len(c) \in Nat \ {0}
    BY NameAssumption, EmptySeq
<1>3. /\ Front(c) \in Seq(STRING) /\ Len(Front(c)) = Len(c) - 1
      /\ \A i \in 1 .. Len(Front(c)) : Front(c)[i] = c[i]
    BY FrontIsShorter
<1>4. IsStrictPrefix(Front(c), c)
    BY <1>1, <1>3, StrictPrefixes
<1>5. Front(c) \in Key
    BY <1>3, <1>4, PrefixIsKey
<1>6. Above[c] = Above[Front(c)] \cup {Front(c)}
    BY <1>1, <1>3, <1>4, <1>5, LongerIsChild
<1> QED BY <1>5, <1>6 DEF Last

LEMMA ChildFront ==
    ASSUME NEW k \in Key, TreeTypeOK, NEW c \in GetChildNames(k)
    PROVE  c \in Key \ {<<>>} /\ Front(c) = k
<1>1. c \in Key /\ Above[c] = Above[k] \cup {k}
    BY DEF GetChildNames, TreeTypeOK
<1>2. c \in Seq(STRING) /\ k \in Seq(STRING) /\ Len(c) \in Nat /\ Len(k) \in Nat
    BY <1>1, NameAssumption, LenProperties
<1>3. Len(c) = Len(k) + 1 /\ IsStrictPrefix(k, c)
    BY <1>1, ChildIsLonger
<1>4. c # <<>>
    BY <1>2, <1>3
<1>5. \A i \in 1 .. Len(k) : k[i] = c[i]
    BY <1>2, <1>3, StrictPrefixes
<1>6. Front(c) \in Seq(STRING) /\ Len(Front(c)) = Len(c) - 1
      /\ \A i \in 1 .. Len(Front(c)) : Front(c)[i] = c[i]
    BY <1>1, <1>4, FrontIsShorter
<1>7. Len(Front(c)) = Len(k) /\ \A i \in 1 .. Len(Front(c)) : Front(c)[i] = k[i]
    BY <1>2, <1>3, <1>5, <1>6
<1> QED BY <1>1, <1>2, <1>4, <1>6, <1>7, SeqEqual

LEMMA InVisibleBelow ==
    ASSUME NEW pre \in Seq(STRING), NEW d
    PROVE  d \in VisibleBelow(pre) <=>
             /\ d \in Key /\ IsStrictPrefix(pre, d)
             /\ \A i \in 1 .. Len(d) : i > Len(pre) => d[i] \notin HiddenWord
<1> SUFFICES ASSUME d \in Key, IsStrictPrefix(pre, d)
             PROVE  ~IsHidden(SubSeq(d, Len(pre) + 1, Len(d)))
                      <=> \A i \in 1 .. Len(d) : i > Len(pre) => d[i] \notin HiddenWord
    BY DEF VisibleBelow
<1>1. d \in Seq(STRING) /\ Len(d) \in Nat /\ Len(pre) \in Nat
    BY NameAssumption, LenProperties
<1>2. Len(pre) < Len(d)
    BY <1>1, StrictPrefixes
<1> DEFINE t == SubSeq(d, Len(pre) + 1, Len(d))
<1>3. DOMAIN t = 1 .. Len(d) - Len(pre) /\ \A i \in DOMAIN t : t[i] = d[i + Len(pre)]
    BY <1>1, <1>2
<1> HIDE DEF t
<1>4. IsHidden(t) <=> \E i \in 1 .. Len(d) : i > Len(pre) /\ d[i] \in HiddenWord
  <2>1. ASSUME NEW i \in DOMAIN t, t[i] \in HiddenWord
        PROVE  \E j \in 1 .. Len(d) : j > Len(pre) /\ d[j] \in HiddenWord
      BY <1>1, <1>2, <1>3, <2>1
  <2>2. ASSUME NEW j \in 1 .. Len(d), j > Len(pre), d[j] \in HiddenWord
        PROVE  \E i \in DOMAIN t : t[i] \in HiddenWord
    <3>1. j - Len(pre) \in DOMAIN t /\ (j - Len(pre)) + Len(pre) = j
        BY <1>1, <1>2, <1>3, <2>2
    <3> QED BY <1>3, <2>2, <3>1
  <2> QED BY <2>1, <2>2 DEF IsHidden
<1> QED BY <1>4 DEF t

(* The walk: the visible children of a visible name are visible ... *)
LEMMA ChildIsVisible ==
    ASSUME NEW pre \in Seq(STRING), NEW h, h = pre \/ h \in VisibleBelow(pre),
           TreeTypeOK, NEW c \in VisibleChildren(h)
    PROVE  c \in VisibleBelow(pre)
<1>1. h \in Key /\ c \in node /\ c \in Key /\ Above[c] = Above[h] \cup {h}
      /\ Last(c) \notin HiddenWord
    BY DEF VisibleChildren, GetChildNames, TreeTypeOK
<1>2. h \in Seq(STRING) /\ c \in Seq(STRING) /\ Len(h) \in Nat /\ Len(c) \in Nat
      /\ Len(pre) \in Nat
    BY <1>1, NameAssumption, LenProperties
<1>3. Len(c) = Len(h) + 1 /\ IsStrictPrefix(h, c)
    BY <1>1, ChildIsLonger
<1>4. \A i \in 1 .. Len(h) : h[i] = c[i]
    BY <1>2, <1>3, StrictPrefixes
<1>5. c[Len(c)] \notin HiddenWord
    BY <1>1 DEF Last
<1>6. CASE h = pre
  <2>1. \A i \in 1 .. Len(c) : i > Len(pre) => i = Len(c)
      BY <1>2, <1>3, <1>6
  <2> QED BY <1>1, <1>3, <1>5, <1>6, <2>1, InVisibleBelow
<1>7. CASE h \in VisibleBelow(pre)
  <2>1. IsStrictPrefix(pre, h) /\ \A i \in 1 .. Len(h) : i > Len(pre) => h[i] \notin HiddenWord
      BY <1>7, InVisibleBelow
  <2>2. Len(pre) < Len(h) /\ \A i \in 1 .. Len(pre) : pre[i] = h[i]
      BY <1>2, <2>1, StrictPrefixes
  <2>3. IsStrictPrefix(pre, c)
      BY <1>2, <1>3, <1>4, <2>2, StrictPrefixes
  <2>4. \A i \in 1 .. Len(c) : i > Len(pre) => c[i] \notin HiddenWord
      BY <1>2, <1>3, <1>4, <1>5, <2>1
  <2> QED BY <1>1, <2>3, <2>4, InVisibleBelow
<1> QED BY <1>6, <1>7

(* ... and one of them is on the way to any node below that is visible. *)
LEMMA WayDown ==
    ASSUME NEW pre \in Seq(STRING), NEW h \in Seq(STRING), h = pre \/ h \in VisibleBelow(pre),
           TreeTypeOK, TreeClosed,
           NEW d \in VisibleBelow(pre), IsStrictPrefix(h, d), d \in node
    PROVE  \E c \in VisibleChildren(h) : c = d \/ IsStrictPrefix(c, d)
<1> DEFINE c == SubSeq(d, 1, Len(h) + 1)
<1>1. d \in Key /\ IsStrictPrefix(pre, d)
      /\ \A i \in 1 .. Len(d) : i > Len(pre) => d[i] \notin HiddenWord
    BY InVisibleBelow
<1>2. d \in Seq(STRING) /\ Len(h) \in Nat /\ Len(d) \in Nat /\ Len(pre) \in Nat
    BY <1>1, NameAssumption, LenProperties
<1>3. Len(h) < Len(d) /\ \A i \in 1 .. Len(h) : h[i] = d[i]
    BY <1>2, StrictPrefixes
<1>4. h \in Key
    BY <1>1, PrefixIsKey
<1>5. Len(pre) <= Len(h)
    BY <1>2, StrictPrefixes, InVisibleBelow
<1>6. c \in Seq(STRING) /\ Len(c) = Len(h) + 1 /\ \A i \in 1 .. Len(c) : c[i] = d[i]
    BY <1>2, <1>3
<1>7. c \in Key
    BY <1>1, <1>2, <1>3, NameAssumption
<1> HIDE DEF c
<1>8. IsStrictPrefix(h, c)
  <2>1. Len(h) < Len(c) /\ \A i \in 1 .. Len(h) : h[i] = c[i]
      BY <1>2, <1>3, <1>6
  <2> QED BY <1>6, <2>1, StrictPrefixes
<1>9. Above[c] = Above[h] \cup {h}
    BY <1>4, <1>6, <1>7, <1>8, LongerIsChild
<1>10. c = d \/ IsStrictPrefix(c, d)
  <2>1. CASE Len(d) = Len(h) + 1
      BY <1>2, <1>6, <2>1, SeqEqual
  <2>2. CASE Len(d) # Len(h) + 1
      BY <1>2, <1>3, <1>6, <2>2, StrictPrefixes
  <2> QED BY <2>1, <2>2
<1>11. c \in node
    BY <1>1, <1>7, <1>10, AboveIsPrefix DEF TreeClosed
<1>12. Last(c) \notin HiddenWord
  <2>1. Len(c) \in 1 .. Len(d) /\ Len(c) > Len(pre) /\ c[Len(c)] = d[Len(c)]
      BY <1>2, <1>3, <1>5, <1>6
  <2> QED BY <1>1, <2>1 DEF Last
<1> QED BY <1>4, <1>9, <1>10, <1>11, <1>12 DEF VisibleChildren, GetChildNames

(* Enumerating the children. *)
LEMMA Enumeration ==
    ASSUME NEW S, IsFiniteSet(S), NEW kids \in SetToSeqs(S)
    PROVE  /\ kids \in Seq(S) /\ DOMAIN kids = 1 .. Len(kids)
           /\ \A x \in S : \E i \in DOMAIN kids : kids[i] = x
           /\ \A i, j \in DOMAIN kids : i # j => kids[i] # kids[j]
<1> DEFINE n == Cardinality(S)
           D == 1 .. n
<1>1. n \in Nat
    BY FS_CardinalityType
<1>2. kids \in [D -> S] /\ \A i, j \in D : i # j => kids[i] # kids[j]
    BY DEF SetToSeqs
<1>3. kids \in Seq(S) /\ DOMAIN kids = D /\ Len(kids) = n
    BY <1>1, <1>2
<1>4. IsFiniteSet(D) /\ Cardinality(D) = n
  <2>1. IsFiniteSet(1 .. n) /\ Cardinality(1 .. n) = n
      BY <1>1, FS_Interval
  <2> QED BY <2>1
<1>5. D = 1 .. Len(kids)
    BY <1>3
<1>s. Cardinality(S) = n
    OBVIOUS
<1> HIDE DEF n, D
<1>6. kids \in Injection(D, S)
    BY <1>2 DEF Injection, IsInjective
<1>7. kids \in Surjection(D, S)
    BY <1>4, <1>6, <1>s, FS_Injection
<1> QED BY <1>2, <1>3, <1>5, <1>7 DEF Surjection
----------------------------------------------------------------------------
(* What the steps do to a call. *)
Made(step, op, q, arg, walk, names, acc, err, stood, touched) ==
    [step |-> step, op |-> op, q |-> q, arg |-> arg, walk |-> walk, names |-> names,
     acc |-> acc, err |-> err, stood |-> stood, touched |-> touched]

LEMMA MadeIsCall == \A s, o, q, a, w, n, x, e, z, t : IsCall(Made(s, o, q, a, w, n, x, e, z, t))
BY DEF IsCall, Made

LEMMA Altered ==
    ASSUME NEW c, IsCall(c)
    PROVE  /\ \A s : [c EXCEPT !.step = s] =
                Made(s, c.op, c.q, c.arg, c.walk, c.names, c.acc, c.err, c.stood, c.touched)
           /\ \A w : [c EXCEPT !.walk = w] =
                Made(c.step, c.op, c.q, c.arg, w, c.names, c.acc, c.err, c.stood, c.touched)
           /\ \A n : [c EXCEPT !.names = n] =
                Made(c.step, c.op, c.q, c.arg, c.walk, n, c.acc, c.err, c.stood, c.touched)
           /\ \A a : [c EXCEPT !.acc = a] =
                Made(c.step, c.op, c.q, c.arg, c.walk, c.names, a, c.err, c.stood, c.touched)
           /\ \A e : [c EXCEPT !.err = e] =
                Made(c.step, c.op, c.q, c.arg, c.walk, c.names, c.acc, e, c.stood, c.touched)
           /\ \A t : [c EXCEPT !.touched = t] =
                Made(c.step, c.op, c.q, c.arg, c.walk, c.names, c.acc, c.err, c.stood, t)
BY DEF IsCall, Made

LEMMA MadeAltered == \A s, o, q, a, w, n, x, e, z, t, y :
    /\ [Made(s, o, q, a, w, n, x, e, z, t) EXCEPT !.step = y] = Made(y, o, q, a, w, n, x, e, z, t)
    /\ [Made(s, o, q, a, w, n, x, e, z, t) EXCEPT !.op = y] = Made(s, y, q, a, w, n, x, e, z, t)
    /\ [Made(s, o, q, a, w, n, x, e, z, t) EXCEPT !.q = y] = Made(s, o, y, a, w, n, x, e, z, t)
    /\ [Made(s, o, q, a, w, n, x, e, z, t) EXCEPT !.arg = y] = Made(s, o, q, y, w, n, x, e, z, t)
    /\ [Made(s, o, q, a, w, n, x, e, z, t) EXCEPT !.walk = y] = Made(s, o, q, a, y, n, x, e, z, t)
    /\ [Made(s, o, q, a, w, n, x, e, z, t) EXCEPT !.stood = y] = Made(s, o, q, a, w, n, x, e, y, t)
    /\ [Made(s, o, q, a, w, n, x, e, z, t) EXCEPT !.names = y] = Made(s, o, q, a, w, y, x, e, z, t)
    /\ [Made(s, o, q, a, w, n, x, e, z, t) EXCEPT !.acc = y] = Made(s, o, q, a, w, n, y, e, z, t)
    /\ [Made(s, o, q, a, w, n, x, e, z, t) EXCEPT !.err = y] = Made(s, o, q, a, w, n, x, y, z, t)
BY DEF Made

(* Two or three fields at once, one after the other. *)
LEMMA VisitedCall ==
    ASSUME NEW c, IsCall(c), NEW w, NEW n, NEW s
    PROVE  [c EXCEPT !.walk = w, !.names = n, !.step = s] =
             Made(s, c.op, c.q, c.arg, w, n, c.acc, c.err, c.stood, c.touched)
<1> DEFINE d == [c EXCEPT !.walk = w]
           e == [d EXCEPT !.names = n]
           f == [e EXCEPT !.step = s]
<1>1. [c EXCEPT !.walk = w, !.names = n, !.step = s] = f
    OBVIOUS
<1>2. d = Made(c.step, c.op, c.q, c.arg, w, c.names, c.acc, c.err, c.stood, c.touched)
    BY Altered
<1> HIDE DEF d
<1>3. e = Made(c.step, c.op, c.q, c.arg, w, n, c.acc, c.err, c.stood, c.touched)
    BY <1>2, MadeAltered
<1> HIDE DEF e
<1>4. f = Made(s, c.op, c.q, c.arg, w, n, c.acc, c.err, c.stood, c.touched)
    BY <1>3, MadeAltered
<1> QED BY <1>1, <1>4

LEMMA FailedCall ==
    ASSUME NEW c, IsCall(c)
    PROVE  [c EXCEPT !.names = <<>>, !.step = "done", !.err = TRUE] =
             Made("done", c.op, c.q, c.arg, c.walk, <<>>, c.acc, TRUE, c.stood, c.touched)
<1> DEFINE d == [c EXCEPT !.names = <<>>]
           e == [d EXCEPT !.step = "done"]
           f == [e EXCEPT !.err = TRUE]
<1>1. [c EXCEPT !.names = <<>>, !.step = "done", !.err = TRUE] = f
    OBVIOUS
<1>2. d = Made(c.step, c.op, c.q, c.arg, c.walk, <<>>, c.acc, c.err, c.stood, c.touched)
    BY Altered
<1> HIDE DEF d
<1>3. e = Made("done", c.op, c.q, c.arg, c.walk, <<>>, c.acc, c.err, c.stood, c.touched)
    BY <1>2, MadeAltered
<1> HIDE DEF e
<1>4. \A y : [e EXCEPT !.err = y] =
          Made("done", c.op, c.q, c.arg, c.walk, <<>>, c.acc, y, c.stood, c.touched)
    BY <1>3, MadeAltered
<1> QED BY <1>1, <1>4, Zenon

LEMMA OnwardCall ==
    ASSUME NEW p, NEW new, IsCall(call[p])
    PROVE  LET c == call[p] IN
           Onward(p, new) = Made(After(Tail(c.names)), c.op, c.q, c.arg, c.walk, Tail(c.names),
                                 c.acc \cup new, c.err, c.stood, c.touched)
<1> DEFINE c == call[p]
           s == After(Tail(c.names))
           d == [c EXCEPT !.names = Tail(c.names)]
           e == [d EXCEPT !.step = s]
           f == [e EXCEPT !.acc = c.acc \cup new]
<1>1. Onward(p, new) = f
    BY DEF Onward
<1>c. IsCall(c)
    OBVIOUS
<1> HIDE DEF c, s
<1>2. d = Made(c.step, c.op, c.q, c.arg, c.walk, Tail(c.names), c.acc, c.err, c.stood, c.touched)
    BY <1>c, Altered
<1> HIDE DEF d
<1>3. e = Made(s, c.op, c.q, c.arg, c.walk, Tail(c.names), c.acc, c.err, c.stood, c.touched)
    BY <1>2, MadeAltered
<1> HIDE DEF e
<1>4. \A y : [e EXCEPT !.acc = y] =
          Made(s, c.op, c.q, c.arg, c.walk, Tail(c.names), y, c.err, c.stood, c.touched)
    BY <1>3, MadeAltered
<1> QED BY <1>1, <1>4, Zenon DEF c, s

Begun(c, o, q, a, w, s, n, e, z) ==
    [c EXCEPT !.op = o, !.q = q, !.arg = a, !.walk = w, !.step = s, !.names = n, !.err = e,
              !.stood = z]

LEMMA BegunCall ==
    ASSUME NEW c, IsCall(c), NEW o, NEW q, NEW a, NEW w, NEW s, NEW n, NEW e, NEW z
    PROVE  Begun(c, o, q, a, w, s, n, e, z) = Made(s, o, q, a, w, n, c.acc, e, z, c.touched)
<1> DEFINE c1 == [c EXCEPT !.op = o]
           c2 == [c1 EXCEPT !.q = q]
           c3 == [c2 EXCEPT !.arg = a]
           c4 == [c3 EXCEPT !.walk = w]
           c5 == [c4 EXCEPT !.step = s]
           c6 == [c5 EXCEPT !.names = n]
           c7 == [c6 EXCEPT !.err = e]
           c8 == [c7 EXCEPT !.stood = z]
<1>0. Begun(c, o, q, a, w, s, n, e, z) = c8
    BY DEF Begun
<1>1. c = Made(c.step, c.op, c.q, c.arg, c.walk, c.names, c.acc, c.err, c.stood, c.touched)
    BY DEF IsCall, Made
<1>2. c1 = Made(c.step, o, c.q, c.arg, c.walk, c.names, c.acc, c.err, c.stood, c.touched)
    BY <1>1, MadeAltered
<1> HIDE DEF c1
<1>3. c2 = Made(c.step, o, q, c.arg, c.walk, c.names, c.acc, c.err, c.stood, c.touched)
    BY <1>2, MadeAltered
<1> HIDE DEF c2
<1>4. c3 = Made(c.step, o, q, a, c.walk, c.names, c.acc, c.err, c.stood, c.touched)
    BY <1>3, MadeAltered
<1> HIDE DEF c3
<1>5. c4 = Made(c.step, o, q, a, w, c.names, c.acc, c.err, c.stood, c.touched)
    BY <1>4, MadeAltered
<1> HIDE DEF c4
<1>6. c5 = Made(s, o, q, a, w, c.names, c.acc, c.err, c.stood, c.touched)
    BY <1>5, MadeAltered
<1> HIDE DEF c5
<1>7. c6 = Made(s, o, q, a, w, n, c.acc, c.err, c.stood, c.touched)
    BY <1>6, MadeAltered
<1> HIDE DEF c6
<1>8. c7 = Made(s, o, q, a, w, n, c.acc, e, c.stood, c.touched)
    BY <1>7, MadeAltered
<1> HIDE DEF c7
<1>9. c8 = Made(s, o, q, a, w, n, c.acc, e, z, c.touched)
    BY <1>8, MadeAltered
<1> QED BY <1>0, <1>9

LEMMA IdleIsCall == IsCall(Idle)
<1>1. Idle = Made("idle", "none", NoQuery, Empty, <<>>, <<>>, {}, FALSE, {}, {})
    BY DEF Idle, Made
<1> QED BY <1>1, MadeIsCall

(* A call under way, once somebody else has written k. *)
Noted(c, k) ==
    IF c.step = "idle" THEN c
    ELSE Made(c.step, c.op, c.q, c.arg, c.walk, c.names, c.acc, c.err, c.stood,
              c.touched \cup {k})

LEMMA NotedInv ==
    ASSUME NEW c, NEW v, NEW w, CallInv(c, v), NEW k, \A j \in Key \ {k} : w[j] = v[j]
    PROVE  CallInv(Noted(c, k), w)
<1>1. CASE c.step = "idle"
    BY <1>1 DEF Noted, CallInv
<1>2. CASE c.step # "idle"
  <2> DEFINE d == Noted(c, k)
  <2>1. /\ d.step = c.step /\ d.op = c.op /\ d.q = c.q /\ d.arg = c.arg /\ d.walk = c.walk
        /\ d.names = c.names /\ d.acc = c.acc /\ d.err = c.err /\ d.stood = c.stood
        /\ d.touched = c.touched \cup {k}
      BY <1>2 DEF Noted, Made
  <2>2. IsCall(d)
      BY <1>2, MadeIsCall DEF Noted
  <2> HIDE DEF d
  <2>3. /\ CallTyped(c) /\ Stands(c, v) /\ NothingMissed(c, v) /\ NothingElse(c, v)
        /\ NamedOnce(c)
      BY <1>2 DEF CallInv
  <2>4. CallTyped(d)
      BY <2>1, <2>2, <2>3 DEF CallTyped
  <2>5. d.step \in {"walk", "work", "write"} => WalkGoesDown(d)
      BY <2>1 DEF CallInv, WalkGoesDown
  <2>6. Stands(d, w)
      BY <2>1, <2>3 DEF Stands
  <2>7. Left(d) = Left(c) \ {k} /\ Left(d) \subseteq Key /\ Left(d) \subseteq Left(c)
      BY <2>1, <2>3 DEF Left, Stands
  <2>8. Standing(d) \subseteq Standing(c)
      BY <2>7 DEF Standing
  <2>9. Asking(d) = Asking(c) /\ \A j : (InNames(d, j) <=> InNames(c, j)) /\ (Ahead(d, j) <=> Ahead(c, j))
      BY <2>1 DEF Asking, InNames, Ahead, Passes
  <2>10. ASSUME NEW j, WorkedOn(c, v, j) PROVE WorkedOn(d, w, j)
    <3>1. j \in Left(d) => j \in Left(c) /\ w[j] = v[j]
        BY <2>7
    <3>2. Found(d, w, j)
        BY <2>1, <2>10, <3>1 DEF WorkedOn, Found
    <3>3. Written(d, w, j)
        BY <2>1, <2>10, <3>1 DEF WorkedOn, Written
    <3>4. ListedBelow(d, j)
        BY <2>1, <2>10, <2>7 DEF WorkedOn, ListedBelow
    <3> QED BY <3>2, <3>3, <3>4 DEF WorkedOn
  <2>11. NothingMissed(d, w)
      BY <2>1, <2>3, <2>8, <2>9, <2>10 DEF NothingMissed
  <2>12. NothingElse(d, w)
      BY <2>1, <2>3, <2>9 DEF NothingElse
  <2>13. NamedOnce(d)
    <3>1. WalkOnce(c) => WalkOnce(d)
        BY <2>1, <2>9 DEF WalkOnce, Passes
    <3> QED BY <2>1, <2>3, <2>9, <3>1 DEF NamedOnce
  <2> QED BY <2>4, <2>5, <2>6, <2>11, <2>12, <2>13 DEF CallInv, d
<1> QED BY <1>1, <1>2
----------------------------------------------------------------------------
(* The tree stays a tree, and a write changes one key. *)
LEMMA WriteKeepsTree ==
    ASSUME TreeTypeOK, TreeClosed, NEW k \in Key, NEW x \in Value \cup {Empty},
           Set(k, x) \/ DeleteValue(k, FALSE)
    PROVE  /\ TreeTypeOK' /\ TreeClosed'
           /\ \A j \in Key \ {k} : val'[j] = val[j]
           /\ Set(k, x) => val'[k] = x
           /\ DeleteValue(k, FALSE) => val'[k] = Empty
<1> USE AboveAssumption DEF TreeTypeOK
<1>1. CASE Set(k, x)
  <2>1. node' = node \cup Above[k] \cup {k} /\ val' = [val EXCEPT ![k] = x] /\ pending' = TRUE
      BY <1>1 DEF Set, scrollTree
  <2>2. TreeTypeOK'
      BY <2>1
  <2>3. TreeClosed'
      BY <2>1 DEF TreeClosed
  <2>4. DeleteValue(k, FALSE) => val'[k] = Empty
      BY DEF DeleteValue
  <2> QED BY <2>1, <2>2, <2>3, <2>4
<1>2. CASE DeleteValue(k, FALSE)
  <2> DEFINE gone == IF GetChildNames(k) = {} THEN {k} ELSE {}
  <2>1. Pruned(k, FALSE) = gone
      BY DEF Pruned
  <2>2. /\ node' = node \ gone /\ pending' = TRUE
        /\ val' = [j \in Key |-> IF j \in gone \cup {k} THEN Empty ELSE val[j]]
      BY <1>2, <2>1 DEF DeleteValue
  <2>3. TreeTypeOK'
      BY <2>2
  <2>4. \A j \in Key : val'[j] = IF j = k THEN Empty ELSE val[j]
      BY <2>2
  <2>5. ASSUME NEW j \in node', NEW a \in Above[j] PROVE a \in node'
    <3>1. j \in node /\ j \in Key /\ a \in Key /\ a \in node
        BY <2>2, <2>5 DEF TreeClosed
    <3>2. ASSUME a = k, GetChildNames(k) = {} PROVE FALSE
      <4>1. PICK c \in Above[j] \cup {j} : Above[c] = Above[a] \cup {a}
          BY <3>1
      <4>2. c \in node
          BY <3>1, <4>1 DEF TreeClosed
      <4> QED BY <3>2, <4>1, <4>2 DEF GetChildNames
    <3> QED BY <2>2, <3>1, <3>2
  <2>6. ASSUME NEW j \in Key \ node' PROVE val'[j] = Empty
      BY <2>2, <2>4 DEF TreeClosed
  <2>7. TreeClosed'
      BY <2>5, <2>6 DEF TreeClosed
  <2>8. Set(k, x) => val'[k] = x
      BY DEF Set
  <2> QED BY <2>3, <2>4, <2>7, <2>8
<1> QED BY <1>1, <1>2

(* What has a value is a node, and so is all that is above it. *)
LEMMA StandingIsNode ==
    ASSUME TreeTypeOK, TreeClosed, NEW c, Stands(c, val),
           c.op \in {"get", "children"} \/ c.step = "walk"
    PROVE  /\ \A k \in Left(c) : k \in Key /\ k \in node /\ val[k] # Empty
           /\ \A k \in Standing(c) : k \in node
           /\ \A k \in Standing(c), a \in Seq(STRING) : IsStrictPrefix(a, k) => a \in node
<1>1. \A k \in Left(c) : k \in Key /\ k \in node /\ val[k] # Empty
    BY DEF Left, Stands, TreeClosed
<1>2. \A k \in Standing(c) : k \in node /\ k \in Key
    BY <1>1 DEF Standing, TreeClosed
<1>3. \A k \in Standing(c), a \in Seq(STRING) : IsStrictPrefix(a, k) => a \in node
    BY <1>2, PrefixIsKey DEF TreeClosed
<1> QED BY <1>1, <1>2, <1>3
----------------------------------------------------------------------------
(* The steps of a call. *)
LEMMA NamesOfCall ==
    ASSUME NEW c, CallTyped(c), c.step \in {"walk", "work", "write"}
    PROVE  /\ c.names \in Seq(NameRec) /\ c.names # <<>> /\ Head(c.names) = c.names[1]
           /\ c.names[1] \in NameRec /\ Tail(c.names) \in Seq(NameRec)
           /\ \A i \in DOMAIN Tail(c.names) : i + 1 \in DOMAIN c.names
                                              /\ Tail(c.names)[i] = c.names[i + 1]
           /\ \A i \in DOMAIN c.names :
                i = 1 \/ (i - 1 \in DOMAIN Tail(c.names) /\ Tail(c.names)[i - 1] = c.names[i])
<1> DEFINE s == c.names
<1>1. s \in Seq(NameRec) /\ s # <<>>
    BY DEF CallTyped
<1> HIDE DEF s
<1> HIDE DEF NameRec
<1>2. /\ Head(s) = s[1] /\ s[1] \in NameRec /\ Tail(s) \in Seq(NameRec)
      /\ Len(s) \in Nat \ {0} /\ Len(Tail(s)) = Len(s) - 1
      /\ DOMAIN s = 1 .. Len(s) /\ DOMAIN Tail(s) = 1 .. Len(s) - 1
      /\ \A i \in 1 .. Len(s) - 1 : Tail(s)[i] = s[i + 1]
    BY <1>1
<1>3. \A i \in DOMAIN Tail(s) : i + 1 \in DOMAIN s /\ Tail(s)[i] = s[i + 1]
    BY <1>2
<1>4. \A i \in DOMAIN s : i = 1 \/ (i - 1 \in DOMAIN Tail(s) /\ Tail(s)[i - 1] = s[i])
    BY <1>2
<1> QED BY <1>1, <1>2, <1>3, <1>4 DEF s

LEMMA OnwardInv ==
    ASSUME NEW p \in Client, NEW v, NEW w, NEW new,
           CallInv(call[p], v), call[p].step \in {"work", "write"},
           \A j \in Key : j # Name(p).key \/ call[p].op \in {"get", "children"} => w[j] = v[j],
           WorkedOn(Onward(p, new), w, Name(p).key), NothingElse(Onward(p, new), w),
           call[p].op = "get" => /\ \A a \in new : a.key = Name(p).key
                                 /\ \A a, b \in new : a = b
    PROVE  CallInv(Onward(p, new), w)
<1> DEFINE c == call[p]
           d == Onward(p, new)
           rest == Tail(c.names)
<1>1. /\ CallTyped(c) /\ WalkGoesDown(c) /\ Stands(c, v) /\ NothingMissed(c, v)
      /\ NamedOnce(c) /\ c.step \in {"work", "write"} /\ c.q.incr = "none" /\ IsCall(c)
    BY DEF CallInv, CallTyped
<1>2. d = Made(After(rest), c.op, c.q, c.arg, c.walk, rest, c.acc \cup new, c.err, c.stood,
               c.touched)
    BY <1>1, OnwardCall
<1>3. /\ d.step = After(rest) /\ d.op = c.op /\ d.q = c.q /\ d.arg = c.arg /\ d.walk = c.walk
      /\ d.names = rest /\ d.err = c.err /\ d.stood = c.stood /\ d.touched = c.touched
      /\ d.acc = c.acc \cup new
    BY <1>2 DEF Made
<1>4. IsCall(d)
    BY <1>2, MadeIsCall
<1>5. Name(p) = c.names[1]
    BY <1>1, NamesOfCall DEF Name
<1>6. /\ rest \in Seq(NameRec)
      /\ \A i \in DOMAIN rest : i + 1 \in DOMAIN c.names /\ rest[i] = c.names[i + 1]
      /\ \A i \in DOMAIN c.names : i = 1 \/ (i - 1 \in DOMAIN rest /\ rest[i - 1] = c.names[i])
    BY <1>1, NamesOfCall
<1>h. /\ \A j \in Key : j # Name(p).key \/ c.op \in {"get", "children"} => w[j] = v[j]
      /\ WorkedOn(d, w, Name(p).key) /\ NothingElse(d, w)
      /\ c.op = "get" => (\A a \in new : a.key = Name(p).key) /\ \A a, b \in new : a = b
    OBVIOUS
<1> HIDE DEF c, d, rest
<1>7. d.step \in {"work", "done"} /\ (d.step = "done" => rest = <<>>)
      /\ (d.step = "work" => rest # <<>>)
    BY <1>3 DEF After
<1>8. CallTyped(d)
    BY <1>1, <1>3, <1>4, <1>6, <1>7 DEF CallTyped
<1>9. WalkGoesDown(d)
    BY <1>1, <1>3, <1>6 DEF WalkGoesDown
<1>10. Stands(d, w)
  <2>1. c.op \in {"get", "children"} => \A k \in Key : w[k] = v[k]
      BY <1>h
  <2> QED BY <1>1, <1>3, <1>7, <2>1 DEF Stands
<1>11. NothingMissed(d, w)
  <2>1. Left(d) = Left(c) /\ Standing(d) = Standing(c) /\ Asking(d) = Asking(c)
        /\ Left(c) \subseteq Key
      BY <1>1, <1>3 DEF Left, Standing, Asking, Stands
  <2>2. ASSUME NEW k, InNames(c, k) PROVE InNames(d, k) \/ WorkedOn(d, w, k)
    <3>1. PICK i \in DOMAIN c.names : c.names[i].key = k
        BY <2>2 DEF InNames
    <3>2. CASE i = 1
        BY <1>5, <1>h, <3>1, <3>2
    <3>3. CASE i # 1
        BY <1>3, <1>6, <3>1, <3>3 DEF InNames
    <3> QED BY <3>2, <3>3
  <2>3. ASSUME NEW k, WorkedOn(c, v, k), k # Name(p).key PROVE WorkedOn(d, w, k)
    <3>1. k \in Left(c) => w[k] = v[k]
        BY <1>h, <2>1, <2>3
    <3>2. Found(d, w, k)
        BY <1>3, <2>1, <2>3, <3>1 DEF WorkedOn, Found
    <3>3. ListedBelow(d, k)
        BY <1>3, <2>1, <2>3 DEF WorkedOn, ListedBelow
    <3>4. Written(d, w, k)
        BY <1>3, <2>1, <2>3, <3>1 DEF WorkedOn, Written
    <3> QED BY <3>2, <3>3, <3>4 DEF WorkedOn
  <2>4. \A k \in Asking(c) \cap Standing(c) : InNames(c, k) \/ WorkedOn(c, v, k)
      BY <1>1 DEF NothingMissed
  <2>5. \A k \in Asking(d) \cap Standing(d) : InNames(d, k) \/ WorkedOn(d, w, k)
      BY <1>h, <2>1, <2>2, <2>3, <2>4
  <2> QED BY <1>7, <2>5 DEF NothingMissed
<1>o. NamedOnce(d)
  <2>1. \A i, j \in DOMAIN d.names : d.names[i].key = d.names[j].key => i = j
    <3> SUFFICES ASSUME NEW i \in DOMAIN rest, NEW j \in DOMAIN rest, rest[i].key = rest[j].key
                 PROVE  i = j
        BY <1>3
    <3>1. i + 1 = j + 1
        BY <1>1, <1>6 DEF NamedOnce
    <3>2. i \in Nat /\ j \in Nat
        BY <1>6
    <3> QED BY <3>1, <3>2
  <2>2. \A k : InNames(d, k) => InNames(c, k) /\ k # c.names[1].key
    <3> SUFFICES ASSUME NEW i \in DOMAIN rest
                 PROVE  InNames(c, rest[i].key) /\ rest[i].key # c.names[1].key
        BY <1>3 DEF InNames
    <3>1. i + 1 \in DOMAIN c.names /\ rest[i] = c.names[i + 1] /\ 1 \in DOMAIN c.names
        BY <1>1, <1>6 DEF CallTyped
    <3>2. i + 1 # 1
        BY <1>6
    <3> QED BY <1>1, <3>1, <3>2 DEF NamedOnce, InNames
  <2>3. ASSUME c.op = "get"
        PROVE  /\ \A a \in d.acc : ~InNames(d, a.key)
               /\ \A a, b \in d.acc : a.key = b.key => a = b
    <3>1. /\ \A a \in c.acc : ~InNames(c, a.key)
          /\ \A a, b \in c.acc : a.key = b.key => a = b
        BY <1>1, <2>3 DEF NamedOnce
    <3>2. InNames(c, c.names[1].key)
        BY <1>1 DEF InNames, CallTyped
    <3>3. (\A a \in new : a.key = c.names[1].key) /\ \A a, b \in new : a = b
        BY <1>5, <1>h, <2>3
    <3> QED BY <1>3, <2>2, <3>1, <3>2, <3>3
  <2> QED BY <1>3, <1>7, <2>1, <2>3 DEF NamedOnce
<1>12. CallInv(d, w)
    BY <1>7, <1>8, <1>9, <1>10, <1>11, <1>h, <1>o DEF CallInv
<1> QED BY <1>12 DEF d

(* The elements of u are those of s and of t. *)
Joins(u, s, t) ==
    /\ \A i \in DOMAIN u : (\E j \in DOMAIN s : u[i] = s[j]) \/ (\E j \in DOMAIN t : u[i] = t[j])
    /\ \A j \in DOMAIN s : \E i \in DOMAIN u : u[i] = s[j]
    /\ \A j \in DOMAIN t : \E i \in DOMAIN u : u[i] = t[j]

LEMMA InConcat ==
    ASSUME NEW S, NEW s \in Seq(S), NEW t \in Seq(S)
    PROVE  s \o t \in Seq(S) /\ Joins(s \o t, s, t)
<1> DEFINE u == s \o t
<1>1. /\ u \in Seq(S) /\ Len(u) = Len(s) + Len(t) /\ Len(s) \in Nat /\ Len(t) \in Nat
      /\ DOMAIN u = 1 .. Len(s) + Len(t) /\ DOMAIN s = 1 .. Len(s) /\ DOMAIN t = 1 .. Len(t)
      /\ \A i \in 1 .. Len(s) + Len(t) : u[i] = IF i <= Len(s) THEN s[i] ELSE t[i - Len(s)]
    BY ConcatProperties, LenProperties
<1> HIDE DEF u
<1>2. ASSUME NEW i \in DOMAIN u
      PROVE  (\E j \in DOMAIN s : u[i] = s[j]) \/ (\E j \in DOMAIN t : u[i] = t[j])
  <2>1. CASE i <= Len(s)
      BY <1>1, <2>1
  <2>2. CASE i > Len(s)
    <3>1. i - Len(s) \in DOMAIN t /\ u[i] = t[i - Len(s)]
        BY <1>1, <2>2
    <3> QED BY <3>1
  <2> QED BY <1>1, <2>1, <2>2
<1>3. \A j \in DOMAIN s : j \in DOMAIN u /\ u[j] = s[j]
    BY <1>1
<1>4. \A j \in DOMAIN t : j + Len(s) \in DOMAIN u /\ u[j + Len(s)] = t[j]
    BY <1>1
<1> QED BY <1>1, <1>2, <1>3, <1>4 DEF u, Joins

LEMMA InTail ==
    ASSUME NEW S, NEW s \in Seq(S), s # <<>>
    PROVE  /\ Head(s) \in S /\ Head(s) = s[1] /\ 1 \in DOMAIN s /\ Tail(s) \in Seq(S)
           /\ \A i \in DOMAIN s : s[i] = Head(s) \/ \E j \in DOMAIN Tail(s) : s[i] = Tail(s)[j]
           /\ \A j \in DOMAIN Tail(s) : \E i \in DOMAIN s : s[i] = Tail(s)[j]
<1>1. /\ Head(s) = s[1] /\ s[1] \in S /\ Tail(s) \in Seq(S)
      /\ Len(s) \in Nat \ {0} /\ Len(Tail(s)) = Len(s) - 1
      /\ DOMAIN s = 1 .. Len(s) /\ DOMAIN Tail(s) = 1 .. Len(s) - 1
      /\ \A i \in 1 .. Len(s) - 1 : Tail(s)[i] = s[i + 1]
    OBVIOUS
<1>2. \A j \in DOMAIN Tail(s) : j + 1 \in DOMAIN s /\ s[j + 1] = Tail(s)[j]
    BY <1>1
<1>3. \A i \in DOMAIN s : i = 1 \/ (i - 1 \in DOMAIN Tail(s) /\ s[i] = Tail(s)[i - 1])
    BY <1>1
<1>4. 1 \in DOMAIN s
    BY <1>1
<1>5. \A i \in DOMAIN s : s[i] = Head(s) \/ \E j \in DOMAIN Tail(s) : s[i] = Tail(s)[j]
    BY <1>1, <1>3
<1>6. \A j \in DOMAIN Tail(s) : \E i \in DOMAIN s : s[i] = Tail(s)[j]
    BY <1>2
<1> QED BY <1>1, <1>4, <1>5, <1>6

(* Sequences of names that lie apart, and of different names. *)
LEMMA ApartTail ==
    ASSUME NEW S, NEW s \in Seq(S), s # <<>>,
           \A i, j \in DOMAIN s : i # j => Apart(s[i], s[j])
    PROVE  /\ \A i, j \in DOMAIN Tail(s) : i # j => Apart(Tail(s)[i], Tail(s)[j])
           /\ \A j \in DOMAIN Tail(s) : Apart(Head(s), Tail(s)[j])
<1>1. /\ Len(s) \in Nat \ {0} /\ DOMAIN s = 1 .. Len(s) /\ DOMAIN Tail(s) = 1 .. Len(s) - 1
      /\ Head(s) = s[1] /\ \A i \in 1 .. Len(s) - 1 : Tail(s)[i] = s[i + 1]
    OBVIOUS
<1>2. \A j \in DOMAIN Tail(s) : j + 1 \in DOMAIN s /\ j + 1 # 1 /\ Tail(s)[j] = s[j + 1]
    BY <1>1
<1>3. 1 \in DOMAIN s /\ \A i, j \in DOMAIN Tail(s) : i # j => i + 1 # j + 1
    BY <1>1
<1> QED BY <1>1, <1>2, <1>3

LEMMA ApartConcat ==
    ASSUME NEW S, NEW s \in Seq(S), NEW t \in Seq(S),
           \A i, j \in DOMAIN s : i # j => Apart(s[i], s[j]),
           \A i, j \in DOMAIN t : i # j => Apart(t[i], t[j]),
           \A i \in DOMAIN s, j \in DOMAIN t : Apart(s[i], t[j])
    PROVE  \A i, j \in DOMAIN (s \o t) : i # j => Apart((s \o t)[i], (s \o t)[j])
<1> DEFINE u == s \o t
           m == Len(s)
           n == Len(t)
<1>1. /\ m \in Nat /\ n \in Nat /\ DOMAIN u = 1 .. m + n
      /\ DOMAIN s = 1 .. m /\ DOMAIN t = 1 .. n
      /\ \A i \in 1 .. m + n : u[i] = IF i <= m THEN s[i] ELSE t[i - m]
    BY ConcatProperties, LenProperties
<1> HIDE DEF u, m, n
<1>2. \A i \in DOMAIN u : \/ i <= m /\ i \in DOMAIN s /\ u[i] = s[i]
                          \/ i > m /\ i - m \in DOMAIN t /\ u[i] = t[i - m]
    BY <1>1
<1>3. \A i, j \in DOMAIN u : i # j => i - m # j - m
    BY <1>1
<1>4. \A a, b : Apart(a, b) <=> Apart(b, a)
    BY DEF Apart
<1> HIDE DEF Apart
<1>5. \A i, j \in DOMAIN u : i # j => Apart(u[i], u[j])
  <2> SUFFICES ASSUME NEW i \in DOMAIN u, NEW j \in DOMAIN u, i # j PROVE Apart(u[i], u[j])
      OBVIOUS
  <2>1. CASE i <= m /\ j <= m
      BY <1>1, <1>2, <2>1
  <2>2. CASE i > m /\ j > m
    <3> DEFINE a == i - m
               b == j - m
    <3>1. a \in DOMAIN t /\ b \in DOMAIN t /\ a # b /\ u[i] = t[a] /\ u[j] = t[b]
        BY <1>1, <1>2, <1>3, <2>2
    <3> HIDE DEF a, b
    <3> QED BY <3>1
  <2>3. CASE i <= m /\ j > m
      BY <1>1, <1>2, <2>3
  <2>4. CASE i > m /\ j <= m
      BY <1>1, <1>2, <1>4, <2>4
  <2> QED BY <1>1, <2>1, <2>2, <2>3, <2>4
<1> QED BY <1>5 DEF u

LEMMA DifferentNames ==
    ASSUME NEW S, NEW s \in Seq(S), NEW t \in Seq(S),
           \A i, j \in DOMAIN s : s[i].key = s[j].key => i = j,
           \A i, j \in DOMAIN t : t[i].key = t[j].key => i = j,
           \A i \in DOMAIN s, j \in DOMAIN t : s[i].key # t[j].key
    PROVE  \A i, j \in DOMAIN (s \o t) : (s \o t)[i].key = (s \o t)[j].key => i = j
<1> DEFINE u == s \o t
           m == Len(s)
           n == Len(t)
<1>1. /\ m \in Nat /\ n \in Nat /\ DOMAIN u = 1 .. m + n
      /\ DOMAIN s = 1 .. m /\ DOMAIN t = 1 .. n
      /\ \A i \in 1 .. m + n : u[i] = IF i <= m THEN s[i] ELSE t[i - m]
    BY ConcatProperties, LenProperties
<1> HIDE DEF u, m, n
<1>2. \A i \in DOMAIN u : \/ i <= m /\ i \in DOMAIN s /\ u[i] = s[i]
                          \/ i > m /\ i - m \in DOMAIN t /\ u[i] = t[i - m]
    BY <1>1
<1>3. \A i, j \in DOMAIN u : i - m = j - m => i = j
    BY <1>1
<1>4. \A i, j \in DOMAIN u : u[i].key = u[j].key => i = j
    BY <1>2, <1>3
<1> QED BY <1>4 DEF u

(* A step of one call that leaves the tree alone, and one that writes; the *)
(* other calls stay where they are.                                        *)
OthersStay(p) == \A r \in Client \ {p} : call'[r].step = call[r].step

LEMMA NotedStep == \A c, k : Noted(c, k).step = c.step
BY DEF Noted, Made

LEMMA MoveInv ==
    ASSUME QueryInv, NEW p \in Client, NEW d, CallInv(d, val),
           call' = [call EXCEPT ![p] = d], UNCHANGED tree
    PROVE  QueryInv' /\ OthersStay(p) /\ call'[p] = d
<1>1. \A r \in Client : call'[r] = IF r = p THEN d ELSE call[r]
    BY DEF QueryInv
<1>2. call' = [r \in Client |-> call'[r]]
    BY DEF QueryInv
<1>3. TreeTypeOK' /\ TreeClosed' /\ NoneEndsInValue(val') /\ val' = val
    BY DEF QueryInv, TreeTypeOK, TreeClosed, tree
<1>4. \A r \in Client : CallInv(call'[r], val')
    BY <1>1, <1>3 DEF QueryInv
<1> QED BY <1>1, <1>2, <1>3, <1>4 DEF QueryInv, OthersStay

LEMMA WriteInv ==
    ASSUME QueryInv, NEW p, NEW k \in Key, NEW d, p \in Client => CallInv(d, val'),
           TreeTypeOK', TreeClosed', \A j \in Key \ {k} : val'[j] = val[j],
           k = <<>> \/ Last(k) # ValueWord \/ val'[k] = Empty,
           call' = [r \in Client |-> IF r = p THEN d ELSE Noted(call[r], k)]
    PROVE  QueryInv' /\ OthersStay(p) /\ (p \in Client => call'[p] = d)
<1>1. \A r \in Client : call'[r] = IF r = p THEN d ELSE Noted(call[r], k)
    OBVIOUS
<1>2. call' = [r \in Client |-> call'[r]]
    OBVIOUS
<1>3. \A r \in Client : CallInv(Noted(call[r], k), val')
    BY NotedInv DEF QueryInv
<1>4. \A r \in Client : CallInv(call'[r], val')
    BY <1>1, <1>3
<1>5. NoneEndsInValue(val')
    BY DEF QueryInv, NoneEndsInValue
<1> QED BY <1>1, <1>2, <1>4, <1>5, NotedStep DEF QueryInv, OthersStay

LEMMA WroteIsNoted ==
    ASSUME QueryInv, NEW p \in Client, call[p].step # "idle", NEW k, NEW d, Wrote(p, k, d)
    PROVE  call' = [r \in Client |-> IF r = p THEN d ELSE Noted(call[r], k)]
<1>1. \A r \in Client : call[r].step # "idle" =>
        [call[r] EXCEPT !.touched = @ \cup {k}] = Noted(call[r], k)
  <2> SUFFICES ASSUME NEW r \in Client, call[r].step # "idle"
               PROVE  [call[r] EXCEPT !.touched = @ \cup {k}] = Noted(call[r], k)
      OBVIOUS
  <2>1. IsCall(call[r])
      BY DEF QueryInv, CallInv, CallTyped
  <2>2. \A t : [call[r] EXCEPT !.touched = t] =
          Made(call[r].step, call[r].op, call[r].q, call[r].arg, call[r].walk, call[r].names,
               call[r].acc, call[r].err, call[r].stood, t)
      BY <2>1, Altered
  <2> QED BY <2>2, Zenon DEF Noted
<1>2. \A r \in Client : call[r].step = "idle" => Noted(call[r], k) = call[r]
    BY DEF Noted
<1>3. \A r \in Client :
        (CASE r = p                 -> d
           [] call[r].step = "idle" -> call[r]
           [] OTHER -> [call[r] EXCEPT !.touched = @ \cup {k}])
          = IF r = p THEN d ELSE Noted(call[r], k)
  <2> DEFINE T(r) == [call[r] EXCEPT !.touched = @ \cup {k}]
  <2>1. \A r \in Client : call[r].step # "idle" => T(r) = Noted(call[r], k)
      BY <1>1
  <2> HIDE DEF T
  <2>2. \A r \in Client :
          (CASE r = p -> d [] call[r].step = "idle" -> call[r] [] OTHER -> T(r))
            = IF r = p THEN d ELSE Noted(call[r], k)
      BY <1>2, <2>1
  <2> QED BY <2>2 DEF T
<1> QED BY <1>3, Zenon DEF Wrote

(* Failing, and going on to the write. *)
LEMMA FailInv ==
    ASSUME QueryInv, NEW p \in Client, call[p].step = "work", Fail(p)
    PROVE  QueryInv' /\ OthersStay(p) /\ call'[p].step # "idle"
<1> DEFINE c == call[p]
           d == [c EXCEPT !.names = <<>>, !.step = "done", !.err = TRUE]
<1>1. call' = [call EXCEPT ![p] = d] /\ UNCHANGED tree
    BY DEF Fail, tree
<1>2. CallInv(c, val) /\ c.step = "work"
    BY DEF QueryInv
<1>3. IsCall(c) /\ CallTyped(c)
    BY <1>2 DEF CallInv, CallTyped
<1>4. d = Made("done", c.op, c.q, c.arg, c.walk, <<>>, c.acc, TRUE, c.stood, c.touched)
    BY <1>3, FailedCall
<1> HIDE DEF c, d
<1>5. IsCall(d) /\ d.step = "done" /\ d.op = c.op /\ d.q = c.q /\ d.walk = c.walk
      /\ d.names = <<>> /\ d.acc = c.acc /\ d.stood = c.stood /\ d.touched = c.touched
    BY <1>4, MadeIsCall DEF Made
<1>6. d.err
    BY <1>4 DEF Made
<1>7. CallTyped(d)
    BY <1>3, <1>5, <1>6 DEF CallTyped
<1>8. Stands(d, val) /\ NothingElse(d, val)
    BY <1>2, <1>5 DEF CallInv, Stands, NothingElse, Asking
<1>9. NothingMissed(d, val)
    BY <1>5, <1>6 DEF NothingMissed
<1>o. NamedOnce(d)
  <2>1. NamedOnce(c)
      BY <1>2 DEF CallInv
  <2>2. DOMAIN d.names = {}
      BY <1>5
  <2> QED BY <1>5, <2>1, <2>2 DEF NamedOnce, InNames
<1>10. CallInv(d, val)
    BY <1>5, <1>7, <1>8, <1>9, <1>o DEF CallInv
<1> QED BY <1>1, <1>5, <1>10, MoveInv

LEMMA AllowedInv ==
    ASSUME QueryInv, NEW p \in Client, SetAllowed(p) \/ DelFound(p)
    PROVE  QueryInv' /\ OthersStay(p) /\ call'[p].step # "idle"
<1> DEFINE c == call[p]
           d == [c EXCEPT !.step = "write"]
<1>1. call' = [call EXCEPT ![p] = d] /\ UNCHANGED tree
    BY DEF SetAllowed, DelFound, Goto, tree
<1>2. CallInv(c, val) /\ c.step = "work"
    BY DEF QueryInv, SetAllowed, DelFound, AtName
<1>3. IsCall(c) /\ CallTyped(c)
    BY <1>2 DEF CallInv, CallTyped
<1>4. d = Made("write", c.op, c.q, c.arg, c.walk, c.names, c.acc, c.err, c.stood, c.touched)
    BY <1>3, Altered
<1>n. Name(p) = c.names[1]
    BY <1>2, <1>3, NamesOfCall DEF Name
<1>k. c.op \in {"set", "del"} /\ c.names[1].key \in Key
      /\ (c.op = "set" => ~Refused(c.names[1], c.arg))
  <2>1. CASE SetAllowed(p)
      BY <1>n, <2>1 DEF SetAllowed, AtName, Refused
  <2>2. CASE DelFound(p)
      BY <1>n, <2>2 DEF DelFound, AtName, ValueOf
  <2> QED BY <2>1, <2>2
<1> HIDE DEF c, d
<1>5. IsCall(d) /\ d.step = "write" /\ d.op = c.op /\ d.q = c.q /\ d.walk = c.walk
      /\ d.names = c.names /\ d.acc = c.acc /\ d.stood = c.stood /\ d.touched = c.touched
      /\ d.arg = c.arg /\ d.err = c.err
    BY <1>4, MadeIsCall DEF Made
<1>7. CallTyped(d)
    BY <1>2, <1>3, <1>5, <1>k DEF CallTyped
<1>8. Stands(d, val) /\ NothingElse(d, val) /\ WalkGoesDown(d)
    BY <1>2, <1>5 DEF CallInv, Stands, NothingElse, Asking, WalkGoesDown
<1>9. NothingMissed(d, val)
  <2>1. Asking(d) = Asking(c) /\ Standing(d) = Standing(c) /\ Left(d) = Left(c)
      BY <1>5 DEF Asking, Standing, Left
  <2>2. \A k : (InNames(c, k) => InNames(d, k)) /\ (WorkedOn(c, val, k) => WorkedOn(d, val, k))
      BY <1>5, <2>1 DEF InNames, WorkedOn, Found, ListedBelow, Written
  <2> QED BY <1>2, <1>5, <2>1, <2>2 DEF CallInv, NothingMissed
<1>o. NamedOnce(d)
  <2>1. NamedOnce(c)
      BY <1>2 DEF CallInv
  <2> QED BY <1>5, <2>1 DEF NamedOnce, InNames
<1>10. CallInv(d, val)
    BY <1>5, <1>7, <1>8, <1>9, <1>o DEF CallInv
<1> QED BY <1>1, <1>5, <1>10, MoveInv

(* Working on a name: its value, its children ... *)
LEMMA OnwardFields ==
    ASSUME NEW p \in Client, NEW v, CallInv(call[p], v), NEW new
    PROVE  LET c == call[p]
               d == Onward(p, new)
           IN  /\ d.op = c.op /\ d.q = c.q /\ d.arg = c.arg /\ d.acc = c.acc \cup new
               /\ d.stood = c.stood /\ d.touched = c.touched /\ d.names = Tail(c.names)
               /\ Left(d) = Left(c) /\ Asking(d) = Asking(c) /\ d.step # "idle"
<1> DEFINE c == call[p]
           d == Onward(p, new)
<1>1. IsCall(c)
    BY DEF CallInv, CallTyped
<1>2. d = Made(After(Tail(c.names)), c.op, c.q, c.arg, c.walk, Tail(c.names),
               c.acc \cup new, c.err, c.stood, c.touched)
    BY <1>1, OnwardCall
<1> HIDE DEF c, d
<1>3. /\ d.op = c.op /\ d.q = c.q /\ d.arg = c.arg /\ d.acc = c.acc \cup new
      /\ d.stood = c.stood /\ d.touched = c.touched /\ d.names = Tail(c.names)
    BY <1>2 DEF Made
<1>4. Left(d) = Left(c) /\ Asking(d) = Asking(c)
    BY <1>3 DEF Left, Asking
<1>5. d.step # "idle"
    BY <1>2 DEF Made, After
<1> QED BY <1>3, <1>4, <1>5 DEF c, d

LEMMA NameIsAsked ==
    ASSUME NEW p \in Client, NEW v, CallInv(call[p], v), call[p].step \in {"work", "write"}
    PROVE  Name(p) = call[p].names[1] /\ Name(p).key \in Asking(call[p])
           /\ Name(p).key \in Seq(STRING)
<1>1. CallTyped(call[p]) /\ WalkGoesDown(call[p])
    BY DEF CallInv
<1>2. /\ Name(p) = call[p].names[1] /\ 1 \in DOMAIN call[p].names
      /\ call[p].names[1] \in NameRec
    BY <1>1, InTail DEF Name, CallTyped
<1> QED BY <1>1, <1>2 DEF WalkGoesDown, Asking, CallTyped, NameRec

LEMMA GetInv ==
    ASSUME QueryInv, NEW p \in Client, GetName(p)
    PROVE  QueryInv' /\ OthersStay(p) /\ call'[p].step # "idle"
<1> DEFINE c == call[p]
           k == Name(p).key
           x == ValueOf(Name(p))
           new == IF x = Empty THEN {} ELSE {[key |-> k, val |-> x]}
           d == Onward(p, new)
<1>1. call' = [call EXCEPT ![p] = d] /\ UNCHANGED tree
    BY DEF GetName, tree
<1>2. CallInv(c, val) /\ c.step = "work" /\ c.op = "get" /\ TreeTypeOK /\ TreeClosed
      /\ NoneEndsInValue(val)
    BY DEF QueryInv, GetName, AtName
<1>3. /\ d.op = "get" /\ d.acc = c.acc \cup new /\ d.stood = c.stood /\ d.touched = c.touched
      /\ Left(d) = Left(c) /\ Asking(d) = Asking(c) /\ d.step # "idle"
    BY <1>2, OnwardFields
<1>4. k \in Asking(c)
    BY <1>2, NameIsAsked
<1>5. x # Empty => /\ k \in Key /\ x = val[k] /\ x \in Value
                   /\ k # <<>> => Last(k) # ValueWord
  <2>1. x # Empty => k \in Key
      BY DEF ValueOf
  <2>2. x # Empty => x = val[k]
      BY <1>2, <2>1 DEF ValueOf, Get, HasValue, TreeTypeOK
  <2>3. k \in Key => val[k] \in Value \cup {Empty}
      BY <1>2 DEF TreeTypeOK
  <2>4. x # Empty /\ k # <<>> => Last(k) # ValueWord
    <3> HIDE DEF k, x
    <3> QED BY <1>2, <2>1, <2>2 DEF NoneEndsInValue
  <2> HIDE DEF k, x
  <2> QED BY <2>1, <2>2, <2>3, <2>4
<1>6. k \in Left(c) => k \in Key /\ k \in node /\ val[k] # Empty
    BY <1>2, StandingIsNode DEF CallInv
<1>7. k \in Left(c) => x = val[k] /\ x # Empty
    BY <1>6 DEF ValueOf, Get, HasValue
<1>8. WorkedOn(d, val, k)
    BY <1>3, <1>7 DEF WorkedOn, Found, ListedBelow, Written
<1>9. NothingElse(d, val)
  <2>1. ASSUME NEW a \in new
        PROVE /\ a = [key |-> a.key, val |-> a.val] /\ a.key \in Asking(d) \cap Key
              /\ a.val # Empty /\ a.val = val[a.key] /\ a.val \in Value
              /\ a.key # <<>> => Last(a.key) # ValueWord
      BY <1>3, <1>4, <1>5, <2>1
  <2>2. NothingElse(c, val)
      BY <1>2 DEF CallInv
  <2> HIDE DEF new, d
  <2> QED BY <1>2, <1>3, <2>1, <2>2 DEF NothingElse
<1>10. CallInv(d, val)
  <2>1. (\A a \in new : a.key = k) /\ \A a, b \in new : a = b
      OBVIOUS
  <2> HIDE DEF new
  <2> QED BY <1>2, <1>8, <1>9, <2>1, OnwardInv
<1> QED BY <1>1, <1>3, <1>10, MoveInv

LEMMA ChildrenInv ==
    ASSUME QueryInv, NEW p \in Client, ChildrenOfName(p)
    PROVE  QueryInv' /\ OthersStay(p) /\ call'[p].step # "idle"
<1> DEFINE c == call[p]
           k == Name(p).key
           new == {[key |-> <<Last(j)>>, val |-> Empty] : j \in VisibleChildren(k)}
           d == Onward(p, new)
<1>1. call' = [call EXCEPT ![p] = d] /\ UNCHANGED tree
    BY DEF ChildrenOfName, tree
<1>2. CallInv(c, val) /\ c.step = "work" /\ c.op = "children" /\ TreeTypeOK /\ TreeClosed
    BY DEF QueryInv, ChildrenOfName, AtName
<1>3. /\ d.op = "children" /\ d.acc = c.acc \cup new /\ d.stood = c.stood
      /\ d.touched = c.touched /\ Left(d) = Left(c) /\ Asking(d) = Asking(c) /\ d.step # "idle"
    BY <1>2, OnwardFields
<1>4. ASSUME NEW j \in Left(c) \ {<<>>}, Front(j) = k, Last(j) \notin HiddenWord
      PROVE  \E a \in new : a.key = <<Last(j)>>
  <2>1. j \in Key /\ j \in node
      BY <1>2, StandingIsNode DEF CallInv
  <2>2. k \in Key /\ Above[j] = Above[k] \cup {k}
      BY <1>4, <2>1, FrontIsParent
  <2>3. j \in VisibleChildren(k)
      BY <1>4, <2>1, <2>2 DEF VisibleChildren, GetChildNames
  <2>4. [key |-> <<Last(j)>>, val |-> Empty] \in new
        /\ [key |-> <<Last(j)>>, val |-> Empty].key = <<Last(j)>>
      BY <2>3
  <2> QED BY <2>4
<1>5. ASSUME NEW a \in new PROVE IsChildOf(a.key, Asking(c))
  <2>1. PICK j \in VisibleChildren(k) : a = [key |-> <<Last(j)>>, val |-> Empty]
      OBVIOUS
  <2>2. k \in Key /\ j \in GetChildNames(k) /\ Last(j) \notin HiddenWord
      BY DEF VisibleChildren
  <2>3. j \in Key \ {<<>>} /\ Front(j) = k
      BY <1>2, <2>2, ChildFront
  <2>4. k \in Asking(c)
      BY <1>2, NameIsAsked
  <2> QED BY <2>1, <2>2, <2>3, <2>4 DEF IsChildOf
<1> HIDE DEF new
<1>6. WorkedOn(d, val, k)
    BY <1>3, <1>4 DEF WorkedOn, Found, ListedBelow, Written
<1>7. NothingElse(d, val)
    BY <1>2, <1>3, <1>5 DEF NothingElse, CallInv
<1>8. CallInv(d, val)
    BY <1>2, <1>6, <1>7, OnwardInv
<1> QED BY <1>1, <1>3, <1>8, MoveInv

(* ... or a write, of which the other calls under way take note. *)
(* The word _value. *)
LEMMA ValueWordIs ==
    ValueWord \in STRING /\ ValueWord # "" /\ ValueWord # LockWord /\ ValueWord \in HiddenWord
BY AnswerAssumption

LEMMA WriteStepInv ==
    ASSUME QueryInv, NEW p \in Client, SetWrite(p) \/ DelWrite(p)
    PROVE  QueryInv' /\ OthersStay(p) /\ call'[p].step # "idle"
<1> DEFINE c == call[p]
           k == Name(p).key
           d == Onward(p, {})
<1>1. CallInv(c, val) /\ c.step = "write" /\ TreeTypeOK /\ TreeClosed /\ Wrote(p, k, d)
      /\ (c.op = "set" \/ c.op = "del")
    BY DEF QueryInv, SetWrite, DelWrite, AtName
<1>2. /\ k \in Key /\ (c.op = "set" => c.arg \in Value \cup {Empty})
      /\ c.op = "set" => ~IsHidden(k)
  <2>1. k = c.names[1].key
      BY <1>1, NameIsAsked
  <2> QED BY <1>1, <2>1 DEF CallInv, CallTyped, Refused
<1>3. /\ TreeTypeOK' /\ TreeClosed' /\ \A j \in Key \ {k} : val'[j] = val[j]
      /\ c.op = "set" => val'[k] = c.arg
      /\ c.op = "del" => val'[k] = Empty
  <2>1. CASE SetWrite(p)
    <3>1. Set(k, c.arg) /\ c.op = "set"
        BY <2>1 DEF SetWrite, AtName
    <3> QED BY <1>1, <1>2, <3>1, WriteKeepsTree
  <2>2. CASE DelWrite(p) /\ DeleteValue(k, FALSE)
    <3>1. c.op = "del"
        BY <2>2 DEF DelWrite, AtName
    <3> QED BY <1>1, <1>2, <2>2, <3>1, WriteKeepsTree
  <2>3. CASE DelWrite(p) /\ ~HasValue(k) /\ UNCHANGED tree
    <3>1. c.op = "del" /\ val' = val /\ node' = node /\ pending' = pending
        BY <2>3 DEF DelWrite, AtName, tree
    <3>2. val[k] = Empty
        BY <1>1, <1>2, <2>3 DEF HasValue, TreeClosed
    <3> QED BY <1>1, <3>1, <3>2 DEF TreeTypeOK, TreeClosed
  <2> QED BY <2>1, <2>2, <2>3 DEF DelWrite
<1>4. /\ d.op = c.op /\ d.acc = c.acc \cup {} /\ d.arg = c.arg
      /\ Left(d) = Left(c) /\ Asking(d) = Asking(c) /\ d.step # "idle"
    BY <1>1, OnwardFields
<1>5. WorkedOn(d, val', k)
    BY <1>1, <1>3, <1>4 DEF WorkedOn, Found, ListedBelow, Written
<1>6. NothingElse(d, val')
    BY <1>1, <1>4 DEF NothingElse
<1>7. CallInv(d, val')
    BY <1>1, <1>3, <1>5, <1>6, OnwardInv
<1>8. call' = [r \in Client |-> IF r = p THEN d ELSE Noted(call[r], k)]
    BY <1>1, WroteIsNoted
<1>9. k = <<>> \/ Last(k) # ValueWord \/ val'[k] = Empty
  <2>1. ASSUME c.op = "set", k # <<>> PROVE Last(k) # ValueWord
    <3>1. k \in Seq(STRING)
        BY <1>2, NameAssumption
    <3> HIDE DEF k
    <3>2. Len(k) \in DOMAIN k
        BY <2>1, <3>1
    <3> QED BY <1>2, <2>1, <3>2, ValueWordIs DEF IsHidden, Last
  <2> QED BY <1>1, <1>3, <2>1
<1> HIDE DEF c, d, k
<1>10. QueryInv' /\ OthersStay(p) /\ call'[p] = d
    BY <1>2, <1>3, <1>7, <1>8, <1>9, WriteInv
<1> QED BY <1>4, <1>10

(* A visit replaces a name in the walk by its children, and puts it among  *)
(* the names to work on.                                                   *)
LEMMA VisitInv ==
    ASSUME QueryInv, NEW p \in Client, Visit(p)
    PROVE  QueryInv' /\ OthersStay(p) /\ call'[p].step # "idle"
<1> DEFINE c == call[p]
           h == Head(c.walk)
           entry == [key |-> h \o c.q.rest, dotted |-> FALSE]
           new == IF h = c.q.pre THEN <<>> ELSE <<entry>>
           S == VisibleChildren(h)
<1>1. PICK kids \in SetToSeqs(S) :
        call' = [call EXCEPT
                   ![p].walk = kids \o Tail(c.walk), ![p].names = @ \o new,
                   ![p].step = IF kids \o Tail(c.walk) = <<>> THEN "work" ELSE "walk"]
    BY DEF Visit
<1> DEFINE tail == Tail(c.walk)
           walk == kids \o tail
           names == c.names \o new
           step == IF walk = <<>> THEN "work" ELSE "walk"
           d == [c EXCEPT !.walk = walk, !.names = names, !.step = step]
<1>2. call' = [call EXCEPT ![p] = d] /\ UNCHANGED tree
  <2>1. UNCHANGED tree
      BY DEF Visit, tree
  <2>2. call' = [call EXCEPT ![p].walk = walk, ![p].names = @ \o new, ![p].step = step]
      BY <1>1
  <2> HIDE DEF walk, step, new
  <2> QED BY <2>1, <2>2, ZenonT(30)
<1>3. CallInv(c, val) /\ c.step = "walk" /\ TreeTypeOK /\ TreeClosed
    BY DEF QueryInv, Visit
<1>4. /\ CallTyped(c) /\ IsCall(c) /\ WalkGoesDown(c) /\ Stands(c, val)
      /\ NothingMissed(c, val) /\ NothingElse(c, val) /\ NamedOnce(c)
    BY <1>3 DEF CallInv, CallTyped
<1>5. /\ c.walk \in Seq(Seq(STRING)) /\ c.walk # <<>> /\ c.names \in Seq(NameRec)
      /\ c.names # <<>> /\ c.q.incr = "none" /\ c.q.star
      /\ c.q.pre \in Seq(STRING) /\ c.q.rest \in Seq(STRING)
    BY <1>3, <1>4 DEF CallTyped, Query
<1>6. d = Made(step, c.op, c.q, c.arg, walk, names, c.acc, c.err, c.stood, c.touched)
  <2> HIDE DEF c, walk, names, step
  <2>1. \A w, n, s : [c EXCEPT !.walk = w, !.names = n, !.step = s] =
          Made(s, c.op, c.q, c.arg, w, n, c.acc, c.err, c.stood, c.touched)
      BY <1>4, VisitedCall
  <2> QED BY <2>1, Zenon
<1>7. /\ d.step = step /\ d.op = c.op /\ d.q = c.q /\ d.walk = walk /\ d.names = names
      /\ d.acc = c.acc /\ d.err = c.err /\ d.stood = c.stood /\ d.touched = c.touched
      /\ d.arg = c.arg
  <2> HIDE DEF c, d, walk, names, step
  <2> QED BY <1>6 DEF Made
<1>8. IsCall(d)
  <2> HIDE DEF c, d, walk, names, step
  <2> QED BY <1>6, MadeIsCall
<1>9. /\ h \in Seq(STRING) /\ h = c.walk[1] /\ 1 \in DOMAIN c.walk
      /\ tail \in Seq(Seq(STRING))
      /\ \A i \in DOMAIN c.walk :
           c.walk[i] = h \/ \E j \in DOMAIN tail : c.walk[i] = tail[j]
      /\ \A j \in DOMAIN tail : \E i \in DOMAIN c.walk : c.walk[i] = tail[j]
  <2> DEFINE s == c.walk
             T == Seq(STRING)
  <2>1. s \in Seq(T) /\ s # <<>>
      BY <1>5
  <2> HIDE DEF s, T
  <2>2. /\ Head(s) \in T /\ Head(s) = s[1] /\ 1 \in DOMAIN s /\ Tail(s) \in Seq(T)
        /\ \A i \in DOMAIN s : s[i] = Head(s) \/ \E j \in DOMAIN Tail(s) : s[i] = Tail(s)[j]
        /\ \A j \in DOMAIN Tail(s) : \E i \in DOMAIN s : s[i] = Tail(s)[j]
      BY <2>1, InTail, Zenon
  <2> QED BY <2>2, Zenon DEF s, T
<1>10. h = c.q.pre \/ h \in VisibleBelow(c.q.pre)
    BY <1>4, <1>9 DEF WalkGoesDown
<1>11. S \subseteq Key /\ IsFiniteSet(S) /\ S \subseteq VisibleBelow(c.q.pre)
  <2>1. S \subseteq Key
      BY <1>3 DEF VisibleChildren, GetChildNames, TreeTypeOK
  <2>2. IsFiniteSet(Key)
      BY NameAssumption
  <2>3. S \subseteq VisibleBelow(c.q.pre)
      BY <1>3, <1>5, <1>10, ChildIsVisible
  <2> QED BY <2>1, <2>2, <2>3, FS_Subset
<1>12. /\ kids \in Seq(S) /\ DOMAIN kids = 1 .. Len(kids)
       /\ \A x \in S : \E i \in DOMAIN kids : kids[i] = x
       /\ \A i, j \in DOMAIN kids : i # j => kids[i] # kids[j]
    BY <1>11, Enumeration
<1>13. kids \in Seq(Seq(STRING)) /\ \A i \in DOMAIN kids : kids[i] \in S
  <2>1. S \subseteq Seq(STRING)
      BY <1>11, NameAssumption
  <2>2. \A i \in DOMAIN kids : kids[i] \in S
      BY <1>12, ElementOfSeq
  <2> HIDE DEF S
  <2> QED BY <1>12, <2>1, <2>2, SeqMonotonic
<1>14. entry \in NameRec /\ new \in Seq(NameRec)
  <2>1. h \o c.q.rest \in Seq(STRING)
      BY <1>5, <1>9, ConcatProperties
  <2>2. entry \in NameRec
      BY <2>1 DEF NameRec
  <2> HIDE DEF entry, h
  <2> HIDE DEF NameRec
  <2> QED BY <2>2
<1>c. CallInv(c, val) /\ call[p] = c
    BY <1>3
<1>e. /\ entry.key = h \o c.q.rest
      /\ h # c.q.pre => DOMAIN new = {1} /\ new[1] = entry
      /\ h = c.q.pre => DOMAIN new = {}
  <2>1. entry.key = h \o c.q.rest
      OBVIOUS
  <2> HIDE DEF entry
  <2>2. DOMAIN <<entry>> = {1} /\ <<entry>>[1] = entry /\ DOMAIN <<>> = {}
      OBVIOUS
  <2> QED BY <2>1, <2>2
<1>t. /\ step \in {"walk", "work"}
      /\ step = "work" => DOMAIN walk = {}
      /\ step = "walk" => walk # <<>>
    OBVIOUS
<1>a. /\ \A i, j \in DOMAIN tail : i # j => Apart(tail[i], tail[j])
      /\ \A j \in DOMAIN tail : Apart(h, tail[j])
  <2> DEFINE s == c.walk
             T == Seq(STRING)
  <2>1. s \in Seq(T) /\ s # <<>> /\ \A i, j \in DOMAIN s : i # j => Apart(s[i], s[j])
      BY <1>3, <1>4, <1>5 DEF NamedOnce, WalkOnce
  <2> HIDE DEF s, T
  <2>2. /\ \A i, j \in DOMAIN Tail(s) : i # j => Apart(Tail(s)[i], Tail(s)[j])
        /\ \A j \in DOMAIN Tail(s) : Apart(Head(s), Tail(s)[j])
      BY <2>1, ApartTail, Zenon
  <2> QED BY <2>2, Zenon DEF s
<1>k. /\ \A x \in S : /\ x \in Seq(STRING) /\ Len(x) = Len(h) + 1
                       /\ IsStrictPrefix(h, x)
  <2> SUFFICES ASSUME NEW x \in S
               PROVE  x \in Seq(STRING) /\ Len(x) = Len(h) + 1 /\ IsStrictPrefix(h, x)
      OBVIOUS
  <2>1. h \in Key /\ x \in Key /\ Above[x] = Above[h] \cup {h}
      BY <1>3 DEF VisibleChildren, GetChildNames, TreeTypeOK
  <2> QED BY <2>1, NameAssumption, ChildIsLonger
<1> HIDE DEF c, h, new, S, entry, tail
<1>15. walk \in Seq(Seq(STRING)) /\ Joins(walk, kids, tail)
    BY <1>9, <1>13, InConcat
<1>16. names \in Seq(NameRec) /\ Joins(names, c.names, new)
    BY <1>5, <1>14, InConcat
<1>17. names # <<>>
    BY <1>5, <1>14, ConcatEqualIffEmpty
<1> HIDE DEF walk, names, step, d
<1>18. CallTyped(d)
    BY <1>4, <1>5, <1>7, <1>8, <1>15, <1>16, <1>17, <1>t DEF CallTyped
<1>19. WalkGoesDown(d)
  <2>1. \A i \in DOMAIN walk : walk[i] = c.q.pre \/ walk[i] \in VisibleBelow(c.q.pre)
    <3>1. \A j \in DOMAIN kids : kids[j] \in VisibleBelow(c.q.pre)
        BY <1>11, <1>13
    <3>2. \A j \in DOMAIN tail : tail[j] = c.q.pre \/ tail[j] \in VisibleBelow(c.q.pre)
        BY <1>4, <1>9 DEF WalkGoesDown
    <3> QED BY <1>15, <3>1, <3>2 DEF Joins
  <2>2. h # c.q.pre => entry.key \in Matches(c.q)
      BY <1>5, <1>10, <1>e DEF Matches
  <2>3. \A i \in DOMAIN names : names[i].key \in Matches(c.q)
      BY <1>4, <1>16, <1>e, <2>2 DEF WalkGoesDown, Joins
  <2> QED BY <1>7, <2>1, <2>3 DEF WalkGoesDown
<1>20. Stands(d, val) /\ NothingElse(d, val)
    BY <1>3, <1>4, <1>7 DEF Stands, NothingElse, Asking
<1>21. NothingMissed(d, val)
  <2>1. Asking(d) = Asking(c) /\ Standing(d) = Standing(c)
      BY <1>7 DEF Asking, Standing, Left
  <2>2. \A k : InNames(c, k) => InNames(d, k)
      BY <1>7, <1>16 DEF InNames, Joins
  <2>3. ASSUME NEW k \in Standing(c), NEW b \in VisibleBelow(c.q.pre), k = b \o c.q.rest,
               Passes(c, b)
        PROVE  InNames(d, k) \/ Passes(d, b)
    <3>1. PICK i \in DOMAIN c.walk : c.walk[i] = b \/ IsStrictPrefix(c.walk[i], b)
        BY <2>3 DEF Passes
    <3>2. b \in Key /\ b \in Seq(STRING) /\ IsStrictPrefix(c.q.pre, b)
        BY <1>5, InVisibleBelow, NameAssumption
    <3>3. CASE \E j \in DOMAIN tail : c.walk[i] = tail[j]
        BY <1>7, <1>15, <3>1, <3>3 DEF Passes, Joins
    <3>4. CASE c.walk[i] = h /\ h = b
      <4>1. h # c.q.pre
          BY <1>5, <3>2, <3>4, StrictPrefixes
      <4>2. \E j \in DOMAIN names : names[j] = entry
          BY <1>16, <1>e, <4>1 DEF Joins
      <4> QED BY <1>7, <1>e, <2>3, <3>4, <4>2 DEF InNames
    <3>5. CASE c.walk[i] = h /\ IsStrictPrefix(h, b)
      <4>1. b \in node
        <5>1. CASE c.q.rest = <<>>
          <6>1. k = b
              BY <2>3, <3>2, <5>1, ConcatEmptySeq
          <6> QED BY <1>3, <1>4, <6>1, StandingIsNode
        <5>2. CASE c.q.rest # <<>>
          <6>1. Len(c.q.rest) \in Nat \ {0}
              BY <1>5, <5>2, EmptySeq
          <6>2. IsStrictPrefix(b, k)
            <7>1. /\ k \in Seq(STRING) /\ Len(k) = Len(b) + Len(c.q.rest)
                  /\ \A j \in 1 .. Len(b) + Len(c.q.rest) :
                       k[j] = IF j <= Len(b) THEN b[j] ELSE c.q.rest[j - Len(b)]
                BY <1>5, <2>3, <3>2, ConcatProperties
            <7>2. Len(b) \in Nat
                BY <3>2, LenProperties
            <7>3. Len(b) < Len(k) /\ \A j \in 1 .. Len(b) : b[j] = k[j]
              <8> DEFINE m == Len(b)
                         n == Len(c.q.rest)
              <8>1. m \in Nat /\ n \in Nat \ {0}
                  BY <6>1, <7>2
              <8>2. Len(k) = m + n /\ \A j \in 1 .. m + n :
                      k[j] = IF j <= m THEN b[j] ELSE c.q.rest[j - m]
                  BY <7>1
              <8>3. m = Len(b)
                  OBVIOUS
              <8> HIDE DEF m, n
              <8>4. m < m + n /\ \A j \in 1 .. m : j \in 1 .. m + n /\ j <= m
                  BY <8>1
              <8> QED BY <8>2, <8>3, <8>4
            <7> QED BY <3>2, <7>1, <7>3, StrictPrefixes
          <6> QED BY <1>3, <1>4, <3>2, <6>2, StandingIsNode
        <5> QED BY <5>1, <5>2
      <4>2. PICK x \in S : x = b \/ IsStrictPrefix(x, b)
          BY <1>3, <1>5, <1>9, <1>10, <3>5, <4>1, WayDown DEF S
      <4>3. \E j \in DOMAIN walk : walk[j] = x
          BY <1>12, <1>15 DEF Joins
      <4> QED BY <1>7, <4>2, <4>3 DEF Passes
    <3> QED BY <1>9, <3>1, <3>3, <3>4, <3>5
  <2>4. \A k \in Asking(d) \cap Standing(d) : Ahead(d, k)
    <3>1. \A k \in Asking(c) \cap Standing(c) : Ahead(c, k)
        BY <1>3, <1>4 DEF NothingMissed
    <3> QED BY <1>7, <2>1, <2>2, <2>3, <3>1 DEF Ahead
  <2>5. step = "work" => \A k : Ahead(d, k) => InNames(d, k)
      BY <1>7, <1>t DEF Ahead, Passes
  <2> QED BY <1>7, <1>t, <2>4, <2>5 DEF NothingMissed
<1>23. WalkOnce(d)
  <2>1. \A i, j \in DOMAIN kids : i # j => Apart(kids[i], kids[j])
      BY <1>12, <1>13, <1>k, StrictPrefixes DEF Apart
  <2>2. ASSUME NEW x \in S, NEW j \in DOMAIN tail PROVE Apart(x, tail[j])
    <3> DEFINE y == tail[j]
    <3>1. y \in Seq(STRING) /\ x \in Seq(STRING) /\ h \in Seq(STRING)
          /\ Len(x) = Len(h) + 1 /\ IsStrictPrefix(h, x) /\ Apart(h, y)
        BY <1>9, <1>a, <1>k
    <3> HIDE DEF y
    <3>2. Len(h) \in Nat /\ Len(x) \in Nat /\ Len(y) \in Nat
        BY <3>1, LenProperties
    <3>3. \A i \in 1 .. Len(h) : h[i] = x[i]
        BY <3>1, StrictPrefixes
    <3>4. ASSUME x = y \/ IsStrictPrefix(x, y) PROVE FALSE
      <4>1. Len(x) <= Len(y) /\ \A i \in 1 .. Len(x) : x[i] = y[i]
          BY <3>1, <3>2, <3>4, StrictPrefixes
      <4>2. Len(h) < Len(y) /\ \A i \in 1 .. Len(h) : h[i] = y[i]
          BY <3>1, <3>2, <3>3, <4>1
      <4> QED BY <3>1, <4>2, StrictPrefixes DEF Apart
    <3>5. ASSUME IsStrictPrefix(y, x) PROVE FALSE
      <4>1. Len(y) <= Len(h) /\ \A i \in 1 .. Len(y) : y[i] = h[i]
          BY <3>1, <3>2, <3>3, <3>5, StrictPrefixes
      <4>2. CASE Len(y) = Len(h)
          BY <3>1, <3>2, <4>1, <4>2, SeqEqual DEF Apart
      <4>3. CASE Len(y) < Len(h)
          BY <3>1, <4>1, <4>3, StrictPrefixes DEF Apart
      <4> QED BY <3>2, <4>1, <4>2, <4>3
    <3> QED BY <3>4, <3>5 DEF Apart, y
  <2>3. \A i \in DOMAIN kids, j \in DOMAIN tail : Apart(kids[i], tail[j])
      BY <1>13, <2>2
  <2>4. \A i, j \in DOMAIN walk : i # j => Apart(walk[i], walk[j])
    <3> DEFINE W == Seq(STRING)
    <3>1. kids \in Seq(W) /\ tail \in Seq(W)
        BY <1>9, <1>13
    <3> HIDE DEF W
    <3>2. \A i, j \in DOMAIN (kids \o tail) :
            i # j => Apart((kids \o tail)[i], (kids \o tail)[j])
        BY <1>a, <2>1, <2>3, <3>1, ApartConcat
    <3> QED BY <3>2 DEF walk
  <2>5. ASSUME NEW b \in VisibleBelow(c.q.pre), Passes(d, b)
        PROVE  Passes(c, b) /\ b # h
    <3>1. b \in Seq(STRING) /\ Len(b) \in Nat /\ Len(h) \in Nat
        BY <1>5, <1>9, InVisibleBelow, NameAssumption, LenProperties
    <3>2. ASSUME NEW x \in S, x = b \/ IsStrictPrefix(x, b) PROVE Passes(c, b) /\ b # h
      <4>1. /\ x \in Seq(STRING) /\ Len(x) = Len(h) + 1 /\ Len(h) < Len(x)
            /\ \A i \in 1 .. Len(h) : h[i] = x[i]
          BY <1>9, <1>k, StrictPrefixes
      <4>2. Len(x) <= Len(b) /\ \A i \in 1 .. Len(x) : x[i] = b[i]
          BY <3>1, <3>2, <4>1, StrictPrefixes
      <4>3. Len(h) < Len(b) /\ \A i \in 1 .. Len(h) : h[i] = b[i]
          BY <3>1, <4>1, <4>2
      <4>4. IsStrictPrefix(h, b)
          BY <1>9, <3>1, <4>3, StrictPrefixes
      <4> QED BY <1>9, <3>1, <4>3, <4>4 DEF Passes
    <3>3. ASSUME NEW j \in DOMAIN tail, tail[j] = b \/ IsStrictPrefix(tail[j], b)
          PROVE  Passes(c, b) /\ b # h
        BY <1>9, <1>a, <3>3 DEF Passes, Apart
    <3>4. PICK i \in DOMAIN walk : walk[i] = b \/ IsStrictPrefix(walk[i], b)
        BY <1>7, <2>5 DEF Passes
    <3>5. (\E j \in DOMAIN kids : walk[i] = kids[j]) \/ (\E j \in DOMAIN tail : walk[i] = tail[j])
        BY <1>15 DEF Joins
    <3> QED BY <1>13, <3>2, <3>3, <3>4, <3>5
  <2>6. ASSUME NEW b \in VisibleBelow(c.q.pre), Passes(d, b)
        PROVE  ~InNames(d, b \o c.q.rest)
    <3>1. ~InNames(c, b \o c.q.rest)
        BY <1>3, <1>4, <2>5, <2>6 DEF NamedOnce, WalkOnce
    <3>2. b \o c.q.rest # h \o c.q.rest
      <4>1. b \in Seq(STRING)
          BY <1>5, InVisibleBelow, NameAssumption
      <4>2. b # h
          BY <2>5, <2>6
      <4>3. \A x, y, z \in Seq(STRING) : x \o z = y \o z => x = y
          BY ConcatSimplifications
      <4> QED BY <1>5, <1>9, <4>1, <4>2, <4>3
    <3>3. \A j \in DOMAIN new : new[j].key = h \o c.q.rest
        BY <1>e
    <3> DEFINE k == b \o c.q.rest
    <3>4. ~InNames(c, k) /\ \A j \in DOMAIN new : new[j].key # k
        BY <3>1, <3>2, <3>3
    <3> HIDE DEF k
    <3>5. \A i \in DOMAIN names : names[i].key # k
        BY <1>16, <3>4 DEF InNames, Joins
    <3>6. ~InNames(d, k)
        BY <1>7, <3>5 DEF InNames
    <3> QED BY <3>6 DEF k
  <2> QED BY <1>7, <2>4, <2>6 DEF WalkOnce
<1>24. \A i, j \in DOMAIN names : names[i].key = names[j].key => i = j
  <2>1. ASSUME NEW i \in DOMAIN c.names, NEW j \in DOMAIN new PROVE c.names[i].key # new[j].key
    <3>1. h # c.q.pre /\ new[j].key = h \o c.q.rest
        BY <1>e
    <3>2. h \in VisibleBelow(c.q.pre) /\ Passes(c, h)
        BY <1>9, <1>10, <3>1 DEF Passes
    <3>3. ~InNames(c, h \o c.q.rest)
        BY <1>3, <1>4, <3>2 DEF NamedOnce, WalkOnce
    <3> QED BY <3>1, <3>3 DEF InNames
  <2>2. \A i, j \in DOMAIN new : i = j
      BY <1>e
  <2>3. \A i, j \in DOMAIN c.names : c.names[i].key = c.names[j].key => i = j
      BY <1>4 DEF NamedOnce
  <2> DEFINE s == c.names
  <2>4. /\ s \in Seq(NameRec) /\ new \in Seq(NameRec)
        /\ \A i, j \in DOMAIN s : s[i].key = s[j].key => i = j
        /\ \A i, j \in DOMAIN new : new[i].key = new[j].key => i = j
        /\ \A i \in DOMAIN s, j \in DOMAIN new : s[i].key # new[j].key
      BY <1>5, <1>14, <2>1, <2>2, <2>3
  <2> HIDE DEF s
  <2> HIDE DEF NameRec
  <2>5. \A i, j \in DOMAIN (s \o new) : (s \o new)[i].key = (s \o new)[j].key => i = j
      BY <2>4, DifferentNames, Zenon
  <2> QED BY <2>5 DEF names, s
<1>25. NamedOnce(d)
    BY <1>3, <1>4, <1>7, <1>23, <1>24 DEF NamedOnce
<1>22. CallInv(d, val)
    BY <1>7, <1>18, <1>19, <1>20, <1>21, <1>25 DEF CallInv
<1> QED BY <1>2, <1>7, <1>22, <1>t, MoveInv

(* A call begins with the name before the '*', or the only one. *)
LEMMA BeginInv ==
    ASSUME QueryInv, NEW p \in Client, NEW r, IsRequest(r), Begin(p, r)
    PROVE  QueryInv' /\ OthersStay(p) /\ call'[p].step # "idle"
<1> DEFINE first == IF r.op = "get" /\ r.q = NoQuery
                    THEN [step |-> "done", names |-> <<>>, err |-> TRUE] ELSE Resolving(r.q)
           walk == IF first.step = "walk" THEN <<r.q.pre>> ELSE <<>>
           stood == {k \in Key : val[k] # Empty}
           entry == [key |-> r.q.pre, dotted |-> r.q.star]
           d == [Idle EXCEPT !.op = r.op, !.q = r.q, !.arg = r.arg, !.walk = walk,
                             !.step = first.step, !.names = first.names, !.err = first.err,
                             !.stood = stood]
<1>1. call' = [call EXCEPT ![p] = d] /\ UNCHANGED tree
    BY DEF Begin
<1>2. d = Made(first.step, r.op, r.q, r.arg, walk, first.names, {}, first.err, stood, {})
  <2> HIDE DEF first, walk, stood
  <2>1. IsCall(Idle) /\ Idle.acc = {} /\ Idle.touched = {}
      BY IdleIsCall DEF Idle
  <2>2. d = Begun(Idle, r.op, r.q, r.arg, walk, first.step, first.names, first.err, stood)
      BY DEF Begun
  <2> HIDE DEF d
  <2> QED BY <2>1, <2>2, BegunCall
<1>3. r.op \in Ops /\ r.q \in Query /\ r.q.pre \in Seq(STRING) /\ r.q.star \in BOOLEAN
      /\ r.q.incr \in {"none", "valid", "invalid", "endless"}
    BY DEF IsRequest, Query
<1>4. entry \in NameRec /\ entry.key = r.q.pre
    BY <1>3 DEF NameRec
<1> HIDE DEF entry
<1>5. \/ first.step = "done" /\ first.names = <<>> /\ first.err
      \/ first.step = "done" /\ first.names = <<>> /\ r.q.incr # "none"
      \/ first.step = "spin" /\ first.names = <<>>
      \/ first.step = "walk" /\ first.names = <<entry>> /\ r.q.incr = "none" /\ r.q.star
      \/ first.step = "work" /\ first.names = <<entry>> /\ r.q.incr = "none" /\ ~r.q.star
  <2>1. CASE r.op = "get" /\ r.q = NoQuery
      BY <2>1
  <2>2. CASE ~(r.op = "get" /\ r.q = NoQuery)
    <3>1. first = Resolving(r.q)
        BY <2>2
    <3> HIDE DEF first
    <3>2. CASE r.q.incr = "none"
        BY <1>3, <3>1, <3>2 DEF Resolving, entry
    <3>3. CASE r.q.incr = "valid"
        BY <3>1, <3>3 DEF Resolving
    <3>4. CASE r.q.incr = "invalid"
        BY <3>1, <3>4 DEF Resolving
    <3>5. CASE r.q.incr = "endless"
        BY <3>1, <3>5 DEF Resolving
    <3> QED BY <1>3, <3>2, <3>3, <3>4, <3>5
  <2> QED BY <2>1, <2>2
<1>6. walk = IF first.step = "walk" THEN <<r.q.pre>> ELSE <<>>
    OBVIOUS
<1>7. stood = {k \in Key : val[k] # Empty}
    OBVIOUS
<1> HIDE DEF first, walk, stood, d, NameRec
<1>8. /\ walk \in Seq(Seq(STRING)) /\ first.names \in Seq(NameRec)
      /\ first.step = "walk" => walk # <<>> /\ DOMAIN walk = {1} /\ walk[1] = r.q.pre
      /\ first.step # "walk" => DOMAIN walk = {}
      /\ first.step \in {"walk", "work"} => first.names # <<>> /\ DOMAIN first.names = {1}
                                            /\ first.names[1] = entry
  <2> DEFINE W == Seq(STRING)
  <2>1. r.q.pre \in W
      BY <1>3
  <2>2. W = Seq(STRING)
      OBVIOUS
  <2> HIDE DEF W
  <2>3. /\ <<r.q.pre>> \in Seq(W) /\ <<>> \in Seq(W) /\ <<entry>> \in Seq(NameRec)
        /\ <<>> \in Seq(NameRec)
        /\ <<r.q.pre>> # <<>> /\ DOMAIN <<r.q.pre>> = {1} /\ <<r.q.pre>>[1] = r.q.pre
        /\ <<entry>> # <<>> /\ DOMAIN <<entry>> = {1} /\ <<entry>>[1] = entry
        /\ DOMAIN <<>> = {}
      BY <1>4, <2>1
  <2>4. walk \in Seq(W) /\ first.names \in Seq(NameRec)
      BY <1>5, <1>6, <2>3, Zenon
  <2>5. /\ first.step = "walk" => walk # <<>> /\ DOMAIN walk = {1} /\ walk[1] = r.q.pre
        /\ first.step # "walk" => DOMAIN walk = {}
      BY <1>6, <2>3
  <2>6. first.step \in {"walk", "work"} => first.names = <<entry>>
      BY <1>5
  <2> QED BY <2>2, <2>3, <2>4, <2>5, <2>6, Zenon
<1>9. /\ IsCall(d) /\ d.step = first.step /\ d.op = r.op /\ d.q = r.q /\ d.walk = walk
      /\ d.names = first.names /\ d.acc = {} /\ d.err = first.err /\ d.stood = stood
      /\ d.touched = {}
    BY <1>2, MadeIsCall DEF Made
<1>10. CallTyped(d)
    BY <1>3, <1>5, <1>8, <1>9 DEF CallTyped
<1>11. d.step \in {"walk", "work", "write"} => WalkGoesDown(d)
    BY <1>4, <1>5, <1>8, <1>9 DEF WalkGoesDown, Matches
<1>12. Stands(d, val) /\ NothingElse(d, val)
    BY <1>7, <1>9 DEF Stands, NothingElse
<1>13. NothingMissed(d, val)
  <2>1. CASE first.step = "done"
    <3>1. d.err \/ Asking(d) = {}
        BY <1>5, <1>9, <2>1 DEF Asking
    <3> QED BY <1>9, <2>1, <3>1 DEF NothingMissed
  <2>2. CASE first.step = "spin"
      BY <1>9, <2>2 DEF NothingMissed
  <2>3. ASSUME first.step \in {"walk", "work"} PROVE InNames(d, r.q.pre)
      BY <1>4, <1>8, <1>9, <2>3 DEF InNames
  <2>4. CASE first.step = "work"
    <3>1. ~r.q.star /\ r.q.incr = "none"
        BY <1>5, <2>4
    <3>2. Asking(d) = {r.q.pre}
        BY <1>9, <3>1 DEF Asking, Matches
    <3> QED BY <1>9, <2>3, <2>4, <3>2 DEF NothingMissed
  <2>5. CASE first.step = "walk"
    <3>1. ASSUME NEW k \in Asking(d), k # r.q.pre PROVE Ahead(d, k)
      <4>1. PICK b \in VisibleBelow(r.q.pre) : k = b \o r.q.rest
          BY <1>9, <3>1 DEF Asking, Matches
      <4>2. IsStrictPrefix(r.q.pre, b)
          BY <1>3, InVisibleBelow
      <4> QED BY <1>8, <1>9, <2>5, <4>1, <4>2 DEF Ahead, Passes
    <3> QED BY <1>9, <2>3, <2>5, <3>1 DEF NothingMissed, Ahead
  <2> QED BY <1>5, <2>1, <2>2, <2>4, <2>5
<1>o. NamedOnce(d)
  <2>1. \A i, j \in DOMAIN d.names : i = j
      BY <1>5, <1>8, <1>9
  <2>2. ASSUME d.step = "walk" PROVE WalkOnce(d)
    <3>1. \A i, j \in DOMAIN d.walk : i = j
        BY <1>8, <1>9, <2>2
    <3>2. ASSUME NEW b \in VisibleBelow(r.q.pre) PROVE r.q.pre # b \o r.q.rest
      <4>1. b \in Seq(STRING) /\ Len(r.q.pre) < Len(b)
          BY <1>3, InVisibleBelow, NameAssumption, StrictPrefixes
      <4>2. r.q.rest \in Seq(STRING)
          BY <1>3 DEF Query
      <4>3. Len(b \o r.q.rest) = Len(b) + Len(r.q.rest)
          BY <4>1, <4>2, ConcatProperties
      <4>4. Len(r.q.rest) \in Nat /\ Len(b) \in Nat /\ Len(r.q.pre) \in Nat
          BY <1>3, <4>1, <4>2, LenProperties
      <4>5. Len(b \o r.q.rest) > Len(r.q.pre)
          BY <4>1, <4>3, <4>4
      <4> QED BY <4>4, <4>5
    <3>3. \A k : InNames(d, k) => k = r.q.pre
        BY <1>4, <1>8, <1>9, <2>2 DEF InNames
    <3> QED BY <1>9, <3>1, <3>2, <3>3 DEF WalkOnce
  <2> QED BY <1>9, <2>1, <2>2 DEF NamedOnce
<1>14. CallInv(d, val)
    BY <1>10, <1>11, <1>12, <1>13, <1>o DEF CallInv
<1> QED BY <1>1, <1>5, <1>9, <1>14, MoveInv

LEMMA IdleInv == \A v : CallInv(Idle, v)
<1>3. <<>> \in Seq(STRING) /\ <<>> \in Seq(Seq(STRING)) /\ <<>> \in Seq(NameRec)
    OBVIOUS
<1>4. NoQuery \in Query
    BY <1>3 DEF NoQuery, Query
<1>5. /\ Idle.step = "idle" /\ Idle.op = "none" /\ Idle.q = NoQuery /\ Idle.walk = <<>>
      /\ Idle.names = <<>>
    BY DEF Idle
<1> QED BY <1>3, <1>4, <1>5, IdleIsCall DEF CallInv, CallTyped

LEMMA ReturnInv ==
    ASSUME QueryInv, NEW p \in Client, Return(p)
    PROVE  QueryInv' /\ OthersStay(p) /\ call'[p].step = "idle"
<1>1. QueryInv' /\ OthersStay(p) /\ call'[p] = Idle
    BY IdleInv, MoveInv DEF Return, tree
<1> QED BY <1>1 DEF Idle

LEMMA SetFlagInv ==
    ASSUME QueryInv, NEW flag \in Key, NEW x \in {Locked, Unlocked}, SetFlag(flag, x)
    PROVE  QueryInv' /\ \A r \in Client : call'[r].step = call[r].step
<1>1. PICK none : none \notin Client
    BY NoSetContainsEverything
<1>2. x \in Value \cup {Empty}
    BY NameAssumption
<1>3. TreeTypeOK' /\ TreeClosed' /\ \A j \in Key \ {flag} : val'[j] = val[j]
    BY <1>2, WriteKeepsTree DEF SetFlag, QueryInv
<1>4. \A r \in Client : IF call[r].step = "idle" THEN Noted(call[r], flag) = call[r]
        ELSE [call[r] EXCEPT !.touched = @ \cup {flag}] = Noted(call[r], flag)
  <2> SUFFICES ASSUME NEW r \in Client, call[r].step # "idle"
               PROVE  [call[r] EXCEPT !.touched = @ \cup {flag}] = Noted(call[r], flag)
      BY DEF Noted
  <2>1. IsCall(call[r])
      BY DEF QueryInv, CallInv, CallTyped
  <2>2. \A t : [call[r] EXCEPT !.touched = t] =
          Made(call[r].step, call[r].op, call[r].q, call[r].arg, call[r].walk, call[r].names,
               call[r].acc, call[r].err, call[r].stood, t)
      BY <2>1, Altered
  <2> QED BY <2>2, Zenon DEF Noted
<1>5. call' = [r \in Client |-> IF r = none THEN Idle ELSE Noted(call[r], flag)]
  <2> DEFINE T(r) == [call[r] EXCEPT !.touched = @ \cup {flag}]
  <2>1. call' = [r \in Client |-> IF call[r].step = "idle" THEN call[r] ELSE T(r)]
      BY DEF SetFlag
  <2>2. \A r \in Client : IF call[r].step = "idle" THEN Noted(call[r], flag) = call[r]
                          ELSE T(r) = Noted(call[r], flag)
      BY <1>4
  <2> HIDE DEF T
  <2> QED BY <1>1, <2>1, <2>2
<1>6. Last(flag) # ValueWord
    BY AnswerAssumption DEF SetFlag
<1> QED BY <1>1, <1>3, <1>5, <1>6, WriteInv DEF OthersStay
----------------------------------------------------------------------------
(* Everything that may happen to the calls and to the tree. *)
AnyStep ==
    \/ \E p \in Client : Step(p)
    \/ \E p \in Client : \E r : IsRequest(r) /\ Begin(p, r)
    \/ \E flag \in Key, x \in {Locked, Unlocked} : SetFlag(flag, x)

LEMMA WorkInv ==
    ASSUME QueryInv, NEW p \in Client, Work(p)
    PROVE  QueryInv' /\ OthersStay(p) /\ call'[p].step # "idle" /\ call[p].step # "idle"
<1>1. call[p].step # "idle"
    BY DEF Work, Visit, GetName, ChildrenOfName, SetRefused, SetLocked, SetAllowed, SetWrite,
       DelMissing, DelFound, DelWrite, AtName
<1>2. CASE SetRefused(p) \/ SetLocked(p) \/ DelMissing(p)
    BY <1>1, <1>2, FailInv DEF SetRefused, SetLocked, DelMissing, AtName
<1> QED BY <1>1, <1>2, VisitInv, GetInv, ChildrenInv, AllowedInv, WriteStepInv DEF Work

LEMMA AnyStepInv == QueryInv /\ [AnyStep]_vars => QueryInv'
<1> SUFFICES ASSUME QueryInv, [AnyStep]_vars PROVE QueryInv'
    OBVIOUS
<1>1. ASSUME NEW p \in Client, Step(p) PROVE QueryInv'
    BY <1>1, WorkInv, ReturnInv DEF Step
<1>2. ASSUME NEW p \in Client, NEW r, IsRequest(r), Begin(p, r) PROVE QueryInv'
    BY <1>2, BeginInv
<1>3. ASSUME NEW flag \in Key, NEW x \in {Locked, Unlocked}, SetFlag(flag, x) PROVE QueryInv'
    BY <1>3, SetFlagInv
<1>4. CASE UNCHANGED vars
    BY <1>4 DEF vars, QueryInv, TreeTypeOK, TreeClosed
<1> QED BY <1>1, <1>2, <1>3, <1>4 DEF AnyStep

LEMMA InitInv == Init => QueryInv
<1> SUFFICES ASSUME Init PROVE QueryInv
    OBVIOUS
<1>1. PICK lines \in Dump :
        /\ node = UNION {Above[k] \cup {k} : k \in DOMAIN lines}
        /\ val = [k \in Key |-> IF k \in DOMAIN lines THEN lines[k] ELSE Empty]
    BY DEF Init
<1>2. DOMAIN lines \subseteq Key /\ \A k \in DOMAIN lines : lines[k] \in Value
    BY DumpAssumption
<1>3. TreeTypeOK
  <2>1. node \subseteq Key
      BY <1>1, <1>2, AboveAssumption
  <2>2. val \in [Key -> Value \cup {Empty}]
      BY <1>1, <1>2
  <2> QED BY <2>1, <2>2 DEF TreeTypeOK, Init
<1>4. TreeClosed
    BY <1>1, <1>2, AboveAssumption DEF TreeClosed
<1>5. call = [p \in Client |-> Idle]
    BY DEF Init
<1>6. call = [p \in Client |-> call[p]] /\ \A p \in Client : CallInv(call[p], val)
    BY <1>5, IdleInv
<1>7. NoneEndsInValue(val)
    BY <1>1, AnswerAssumption DEF NoneEndsInValue
<1> QED BY <1>3, <1>4, <1>6, <1>7 DEF QueryInv

LEMMA NextIsAnyStep == [Next]_vars => [AnyStep]_vars
BY RequestAssumption DEF Next, AnyStep
----------------------------------------------------------------------------
(* What the invariant says of a call that has been worked through. *)
LEMMA InvIsExact == QueryInv => AnswerIsExact
<1> SUFFICES ASSUME QueryInv, NEW p \in Client, Done(p, "get")
             PROVE  {a \in call[p].acc : a.key \notin call[p].touched} =
                      {[key |-> k, val |-> val[k]] :
                          k \in {j \in Asked(p) \cap Key :
                                   val[j] # Empty /\ j \notin call[p].touched}}
    BY DEF AnswerIsExact
<1> DEFINE c == call[p]
<1>1. c.step = "done" /\ c.op = "get" /\ ~c.err /\ CallTyped(c) /\ Stands(c, val)
      /\ NothingMissed(c, val) /\ NothingElse(c, val) /\ Asked(p) = Asking(c)
    BY DEF Done, QueryInv, CallInv, Asked, Asking
<1>2. c.names = <<>>
    BY <1>1 DEF CallTyped
<1>3. \A k : ~InNames(c, k)
  <2>1. DOMAIN c.names = {}
      BY <1>2
  <2> QED BY <2>1 DEF InNames
<1>4. ASSUME NEW a \in c.acc, a.key \notin c.touched
      PROVE  a.key \in Asking(c) \cap Key /\ val[a.key] # Empty
             /\ a = [key |-> a.key, val |-> val[a.key]]
    BY <1>1, <1>4 DEF NothingElse
<1>5. ASSUME NEW k \in Asking(c) \cap Key, val[k] # Empty, k \notin c.touched
      PROVE  [key |-> k, val |-> val[k]] \in c.acc
  <2>1. k \in Left(c)
      BY <1>1, <1>5 DEF Stands, Left
  <2>2. k \in Standing(c)
      BY <2>1 DEF Standing
  <2>3. WorkedOn(c, val, k)
      BY <1>1, <1>3, <2>2 DEF NothingMissed
  <2> QED BY <1>1, <2>1, <2>3 DEF WorkedOn, Found
<1> QED BY <1>1, <1>4, <1>5

LEMMA InvIsListed == QueryInv => ChildrenAreListed
<1> SUFFICES ASSUME QueryInv, NEW p \in Client, Done(p, "children")
             PROVE  LET listed == {a.key : a \in call[p].acc} IN
               /\ \A c \in call[p].stood \ (call[p].touched \cup {<<>>}) :
                    Front(c) \in Asked(p) /\ Last(c) \notin HiddenWord
                      => <<Last(c)>> \in listed
               /\ \A n \in listed : IsChildOf(n, Asked(p))
    BY DEF ChildrenAreListed, IsChildOf
<1> DEFINE c == call[p]
<1>1. c.step = "done" /\ c.op = "children" /\ ~c.err /\ CallTyped(c) /\ Stands(c, val)
      /\ NothingMissed(c, val) /\ NothingElse(c, val) /\ Asked(p) = Asking(c)
    BY DEF Done, QueryInv, CallInv, Asked, Asking
<1>2. c.names = <<>>
    BY <1>1 DEF CallTyped
<1>3. \A k : ~InNames(c, k)
  <2>1. DOMAIN c.names = {}
      BY <1>2
  <2> QED BY <2>1 DEF InNames
<1>4. ASSUME NEW j \in Left(c) \ {<<>>}, Front(j) \in Asking(c), Last(j) \notin HiddenWord
      PROVE  \E a \in c.acc : a.key = <<Last(j)>>
  <2>1. j \in Key
      BY <1>1 DEF Left, Stands
  <2>2. Front(j) \in Key /\ Front(j) \in Above[j]
      BY <2>1, <1>4, FrontIsParent
  <2>3. Front(j) \in Standing(c)
      BY <2>2 DEF Standing
  <2>4. WorkedOn(c, val, Front(j))
      BY <1>1, <1>3, <1>4, <2>3 DEF NothingMissed
  <2> QED BY <1>1, <1>4, <2>4 DEF WorkedOn, ListedBelow
<1>5. \A a \in c.acc : IsChildOf(a.key, Asked(p))
    BY <1>1 DEF NothingElse
<1> HIDE DEF c
<1>6. \A j \in c.stood \ (c.touched \cup {<<>>}) :
        Front(j) \in Asked(p) /\ Last(j) \notin HiddenWord
          => \E a \in c.acc : a.key = <<Last(j)>>
    BY <1>1, <1>4 DEF Left
<1> QED BY <1>5, <1>6 DEF c

LEMMA InvReachesAll == QueryInv => SuccessReachesAll
<1> SUFFICES ASSUME QueryInv, NEW p \in Client, Done(p, "set") \/ Done(p, "del"),
                    NEW k \in (call[p].stood \cap Asked(p)) \ call[p].touched
             PROVE  val[k] = IF call[p].op = "set" THEN call[p].arg ELSE Empty
    BY DEF SuccessReachesAll
<1> DEFINE c == call[p]
<1>1. c.step = "done" /\ (c.op = "set" \/ c.op = "del") /\ ~c.err /\ CallTyped(c)
      /\ Stands(c, val) /\ NothingMissed(c, val) /\ Asked(p) = Asking(c)
    BY DEF Done, QueryInv, CallInv, Asked, Asking
<1>2. c.names = <<>>
    BY <1>1 DEF CallTyped
<1>3. \A j : ~InNames(c, j)
  <2>1. DOMAIN c.names = {}
      BY <1>2
  <2> QED BY <2>1 DEF InNames
<1>4. k \in Left(c) /\ k \in Standing(c)
    BY <1>1 DEF Left, Standing, Stands
<1>5. WorkedOn(c, val, k)
    BY <1>1, <1>3, <1>4 DEF NothingMissed
<1> QED BY <1>1, <1>4, <1>5 DEF WorkedOn, Written

(* A name with a hidden word, if it matches a query, has it from there. *)
LEMMA HiddenIsSpelt ==
    ASSUME NEW q \in Query, NEW k \in Matches(q), IsHidden(k)
    PROVE  IsHidden(q.pre \o q.rest)
<1>1. q.pre \in Seq(STRING) /\ q.rest \in Seq(STRING)
    BY DEF Query
<1>2. Joins(q.pre \o q.rest, q.pre, q.rest)
    BY <1>1, InConcat
<1>3. IsHidden(q.pre) \/ IsHidden(q.rest) => IsHidden(q.pre \o q.rest)
    BY <1>2 DEF IsHidden, Joins
<1>4. CASE k = q.pre
    BY <1>3, <1>4
<1>5. ASSUME NEW d \in VisibleBelow(q.pre), k = d \o q.rest
      PROVE  IsHidden(q.pre) \/ IsHidden(q.rest)
  <2>1. /\ d \in Key /\ IsStrictPrefix(q.pre, d)
        /\ \A i \in 1 .. Len(d) : i > Len(q.pre) => d[i] \notin HiddenWord
      BY <1>1, InVisibleBelow
  <2>2. d \in Seq(STRING) /\ DOMAIN d = 1 .. Len(d) /\ DOMAIN q.pre = 1 .. Len(q.pre)
        /\ Len(q.pre) \in Nat
      BY <1>1, <2>1, NameAssumption, LenProperties
  <2>3. Joins(k, d, q.rest)
      BY <1>1, <1>5, <2>2, InConcat
  <2>4. ASSUME NEW i \in DOMAIN d, d[i] \in HiddenWord PROVE IsHidden(q.pre)
    <3>1. i \in DOMAIN q.pre
        BY <2>1, <2>2, <2>4
    <3>2. q.pre[i] = d[i]
        BY <1>1, <2>1, <2>2, <3>1, StrictPrefixes
    <3> QED BY <2>4, <3>1, <3>2 DEF IsHidden
  <2> QED BY <2>3, <2>4 DEF IsHidden, Joins
<1> QED BY <1>3, <1>4, <1>5 DEF Matches

HiddenStays ==
    \A k \in Key : IsHidden(k) /\ val'[k] # val[k] =>
      \/ \E v \in {Locked, Unlocked} : SetFlag(k, v)
      \/ \E p \in Client : /\ call[p].op = "del" /\ call'[p] # call[p]
                           /\ IsHidden(call[p].q.pre \o call[p].q.rest)

LEMMA AnyStepKeeps == QueryInv /\ [AnyStep]_vars => [HiddenStays]_vars
<1> SUFFICES ASSUME QueryInv, AnyStep, NEW k \in Key, IsHidden(k), val'[k] # val[k]
             PROVE  \/ \E v \in {Locked, Unlocked} : SetFlag(k, v)
                    \/ \E p \in Client : /\ call[p].op = "del" /\ call'[p] # call[p]
                                         /\ IsHidden(call[p].q.pre \o call[p].q.rest)
    BY DEF vars, HiddenStays
<1>1. ASSUME UNCHANGED tree PROVE FALSE
    BY <1>1 DEF tree
<1>2. ASSUME NEW p \in Client, Step(p), ~SetWrite(p), ~DelWrite(p) PROVE FALSE
    BY <1>1, <1>2 DEF Step, Work, Visit, GetName, ChildrenOfName, SetRefused, SetLocked,
       SetAllowed, DelMissing, DelFound, Return, Fail, Goto, tree
<1>3. ASSUME NEW p \in Client, NEW r, Begin(p, r) PROVE FALSE
    BY <1>1, <1>3 DEF Begin
<1>4. ASSUME NEW flag \in Key, NEW x \in {Locked, Unlocked}, SetFlag(flag, x)
      PROVE  SetFlag(k, x)
  <2>1. x \in Value \cup {Empty}
      BY NameAssumption
  <2>2. k = flag
      BY <1>4, <2>1, WriteKeepsTree DEF SetFlag, QueryInv
  <2> QED BY <1>4, <2>2
<1>5. ASSUME NEW p \in Client, SetWrite(p) \/ DelWrite(p)
      PROVE  /\ call[p].op = "del" /\ call'[p] # call[p]
             /\ IsHidden(call[p].q.pre \o call[p].q.rest)
  <2> DEFINE c == call[p]
  <2>1. CallInv(c, val) /\ c.step = "write" /\ (c.op = "set" \/ c.op = "del")
        /\ TreeTypeOK /\ TreeClosed /\ CallTyped(c) /\ Wrote(p, Name(p).key, Onward(p, {}))
      BY <1>5 DEF QueryInv, CallInv, SetWrite, DelWrite, AtName
  <2>2. Name(p) = c.names[1] /\ Name(p).key \in Key /\ Name(p).key \in Asking(c)
        /\ (c.op = "set" => ~Refused(Name(p), c.arg))
      BY <2>1, NameIsAsked DEF CallTyped
  <2>3. k = Name(p).key
    <3>1. CASE SetWrite(p)
      <4>1. Set(Name(p).key, c.arg) /\ c.op = "set"
          BY <3>1 DEF SetWrite, AtName
      <4>2. c.arg \in Value \cup {Empty}
          BY <2>2, <4>1 DEF Refused
      <4> QED BY <2>1, <2>2, <4>1, <4>2, WriteKeepsTree
    <3>2. CASE DelWrite(p)
      <4>1. DeleteValue(Name(p).key, FALSE)
          BY <1>1, <3>2 DEF DelWrite
      <4> QED BY <2>1, <2>2, <4>1, WriteKeepsTree
    <3> QED BY <1>5, <3>1, <3>2
  <2>4. c.op = "del"
      BY <2>1, <2>2, <2>3 DEF Refused
  <2>5. c.q \in Query /\ k \in Matches(c.q)
      BY <2>1, <2>2, <2>3 DEF CallTyped, Asking
  <2>6. IsHidden(c.q.pre \o c.q.rest)
      BY <2>5, HiddenIsSpelt
  <2>7. call'[p] = Onward(p, {})
      BY <2>1, WroteIsNoted
  <2>8. call'[p].names = Tail(c.names)
      BY <2>1, <2>7, OnwardFields
  <2>9. Tail(c.names) # c.names
    <3>1. c.names \in Seq(NameRec) /\ c.names # <<>>
        BY <2>1 DEF CallTyped
    <3> DEFINE s == c.names
    <3> HIDE DEF s, NameRec
    <3>2. Len(Tail(s)) = Len(s) - 1 /\ Len(s) \in Nat
        BY <3>1 DEF s
    <3>3. ASSUME Tail(s) = s PROVE FALSE
      <4>1. Len(s) = Len(s) - 1
          BY <3>2, <3>3, Zenon
      <4> QED BY <3>2, <4>1
    <3> QED BY <3>3 DEF s
  <2> QED BY <2>4, <2>6, <2>8, <2>9
<1> QED BY <1>2, <1>3, <1>4, <1>5 DEF AnyStep
----------------------------------------------------------------------------
(* A request of HTTP.  Which of a document's leaves have been set, have    *)
(* been refused, are being set (the call of the client is in state s) and  *)
(* have still to be set.                                                   *)
IsPage(w) ==
    w = [step |-> w.step, req |-> w.req, found |-> w.found, todo |-> w.todo, json |-> w.json,
         last |-> w.last, wrote |-> w.wrote, failed |-> w.failed, status |-> w.status]

Document == {"POST json", "setjson"}

NamesOf(r) == {i.path : i \in Leaves(r)}

Honest(w) ==
    /\ w.wrote \cup w.failed \subseteq NamesOf(w.req)
    /\ w.wrote \cap w.failed = {}
    /\ \/ w.wrote \cup w.failed = NamesOf(w.req)
       \/ w.req.method = "POST json" /\ Cardinality(w.failed) = 1

InHand(w, s) == IF s = "idle" THEN {} ELSE {w.last}

LeavesInv(w, s) ==
    /\ w.req \in HttpRequest /\ w.req.method \in Document
    /\ w.todo \subseteq Leaves(w.req)
    /\ w.wrote \cup w.failed \cup InHand(w, s) \subseteq NamesOf(w.req)
    /\ w.wrote \cap w.failed = {}
    /\ InHand(w, s) \cap (w.wrote \cup w.failed) = {}
    /\ \A i \in w.todo : i.path \notin w.wrote \cup w.failed \cup InHand(w, s)
    /\ \/ /\ w.req.method = "POST json" => w.failed = {}
          /\ NamesOf(w.req) \subseteq
               w.wrote \cup w.failed \cup InHand(w, s) \cup {i.path : i \in w.todo}
       \/ /\ w.req.method = "POST json" /\ s = "idle" /\ w.todo = {}
          /\ \E x \in w.failed : w.failed = {x}

PageInv(w, s) ==
    /\ IsPage(w)
    /\ w.step \in {"lock", "waiting"} => w.req.method = "LOCK" /\ FlagOf(w.req) \in Key
    /\ w.step = "build" => w.req.method = "GET"
    /\ w.step = "leaves" => LeavesInv(w, s)
    /\ w.step = "answered" /\ w.req.method \in Document => Honest(w)

HttpInv ==
    /\ QueryInv
    /\ web = [p \in Client |-> web[p]]
    /\ \A p \in Client : PageInv(web[p], call[p].step)

(* A document has no name twice, and its names are sequences of words. *)
LEMMA LeavesAreNamed ==
    ASSUME NEW r \in HttpRequest, r.method \in Document
    PROVE  /\ \A i \in Leaves(r) : i.path \in Seq(STRING)
           /\ \A i, j \in Leaves(r) : i.path = j.path => i = j
<1> DEFINE parent == IF r.method = "setjson" THEN r.q.pre ELSE <<>>
<1>1. r.q.pre \in Seq(STRING) /\ DOMAIN r.doc \subseteq Seq(STRING)
    BY HttpAssumption DEF Document
<1>2. parent \in Seq(STRING)
  <2>1. <<>> \in Seq(STRING)
      OBVIOUS
  <2> QED BY <1>1, <2>1, Zenon
<1>3. Leaves(r) = {[path |-> parent \o k, val |-> r.doc[k]] : k \in DOMAIN r.doc}
    BY DEF Leaves
<1> HIDE DEF parent
<1>4. \A k \in DOMAIN r.doc : parent \o k \in Seq(STRING)
    BY <1>1, <1>2, ConcatProperties
<1>5. ASSUME NEW k \in DOMAIN r.doc, NEW m \in DOMAIN r.doc, parent \o k = parent \o m
      PROVE  k = m
    BY <1>1, <1>2, <1>5, ConcatSimplifications
<1>6. \A i \in Leaves(r) : \E k \in DOMAIN r.doc :
        i = [path |-> parent \o k, val |-> r.doc[k]] /\ i.path = parent \o k
  <2> DEFINE f(k) == parent \o k
  <2>1. \A k : [path |-> f(k), val |-> r.doc[k]].path = f(k)
      OBVIOUS
  <2> HIDE DEF f
  <2>2. Leaves(r) = {[path |-> f(k), val |-> r.doc[k]] : k \in DOMAIN r.doc}
      BY <1>3 DEF f
  <2>3. \A i \in Leaves(r) : \E k \in DOMAIN r.doc :
          i = [path |-> f(k), val |-> r.doc[k]] /\ i.path = f(k)
      BY <2>1, <2>2
  <2> QED BY <2>3 DEF f
<1> QED BY <1>4, <1>5, <1>6

(* To set a leaf is a request to the controller. *)
LEMMA LeafIsRequest ==
    ASSUME NEW k \in Seq(STRING), NEW x
    PROVE  IsRequest([op |-> "set", q |-> [NoQuery EXCEPT !.pre = k], arg |-> x])
<1>1. <<>> \in Seq(STRING)
    OBVIOUS
<1>2. [NoQuery EXCEPT !.pre = k] \in Query
    BY <1>1 DEF Query, NoQuery
<1> QED BY <1>2 DEF IsRequest, Ops

(* What the handlers do to a request, one field at a time. *)
Has(w, step, req, todo, last, wrote, failed) ==
    /\ IsPage(w) /\ w.step = step /\ w.req = req /\ w.todo = todo /\ w.last = last
    /\ w.wrote = wrote /\ w.failed = failed

WithStep(w, x) == [w EXCEPT !.step = x]
WithReq(w, x) == [w EXCEPT !.req = x]
WithFound(w, x) == [w EXCEPT !.found = x]
WithTodo(w, x) == [w EXCEPT !.todo = x]
WithJson(w, x) == [w EXCEPT !.json = x]
WithLast(w, x) == [w EXCEPT !.last = x]
WithWrote(w, x) == [w EXCEPT !.wrote = x]
WithFailed(w, x) == [w EXCEPT !.failed = x]
WithStatus(w, x) == [w EXCEPT !.status = x]

LEMMA OneField ==
    ASSUME NEW w, IsPage(w), NEW x
    PROVE  /\ Has(WithStep(w, x), x, w.req, w.todo, w.last, w.wrote, w.failed)
           /\ Has(WithReq(w, x), w.step, x, w.todo, w.last, w.wrote, w.failed)
           /\ Has(WithFound(w, x), w.step, w.req, w.todo, w.last, w.wrote, w.failed)
           /\ Has(WithTodo(w, x), w.step, w.req, x, w.last, w.wrote, w.failed)
           /\ Has(WithJson(w, x), w.step, w.req, w.todo, w.last, w.wrote, w.failed)
           /\ Has(WithLast(w, x), w.step, w.req, w.todo, x, w.wrote, w.failed)
           /\ Has(WithWrote(w, x), w.step, w.req, w.todo, w.last, x, w.failed)
           /\ Has(WithFailed(w, x), w.step, w.req, w.todo, w.last, w.wrote, x)
           /\ Has(WithStatus(w, x), w.step, w.req, w.todo, w.last, w.wrote, w.failed)
<1> USE DEF Has, IsPage
<1>1. Has(WithStep(w, x), x, w.req, w.todo, w.last, w.wrote, w.failed)
    BY DEF WithStep
<1>2. Has(WithReq(w, x), w.step, x, w.todo, w.last, w.wrote, w.failed)
    BY DEF WithReq
<1>3. Has(WithFound(w, x), w.step, w.req, w.todo, w.last, w.wrote, w.failed)
    BY DEF WithFound
<1>4. Has(WithTodo(w, x), w.step, w.req, x, w.last, w.wrote, w.failed)
    BY DEF WithTodo
<1>5. Has(WithJson(w, x), w.step, w.req, w.todo, w.last, w.wrote, w.failed)
    BY DEF WithJson
<1>6. Has(WithLast(w, x), w.step, w.req, w.todo, x, w.wrote, w.failed)
    BY DEF WithLast
<1>7. Has(WithWrote(w, x), w.step, w.req, w.todo, w.last, x, w.failed)
    BY DEF WithWrote
<1>8. Has(WithFailed(w, x), w.step, w.req, w.todo, w.last, w.wrote, x)
    BY DEF WithFailed
<1>9. Has(WithStatus(w, x), w.step, w.req, w.todo, w.last, w.wrote, w.failed)
    BY DEF WithStatus
<1> QED BY <1>1, <1>2, <1>3, <1>4, <1>5, <1>6, <1>7, <1>8, <1>9

LEMMA NoRequestIsPage == Has(NoRequest, "idle", NoRequest.req, {}, <<>>, {}, {})
BY DEF NoRequest, Has, IsPage

(* A step of the client p, whose request becomes w. *)
LEMMA PageStep ==
    ASSUME HttpInv, NEW p \in Client, QueryInv', OthersStay(p), NEW w,
           web' = [web EXCEPT ![p] = w], PageInv(w, call'[p].step)
    PROVE  HttpInv'
<1>1. web' = [r \in Client |-> web'[r]] /\ web'[p] = w
      /\ \A r \in Client \ {p} : web'[r] = web[r]
    BY DEF HttpInv
<1>2. \A r \in Client : PageInv(web'[r], call'[r].step)
    BY <1>1 DEF HttpInv, OthersStay
<1> QED BY <1>1, <1>2 DEF HttpInv

LEMMA CallStep ==
    ASSUME HttpInv, NEW p \in Client, QueryInv', OthersStay(p), UNCHANGED web,
           web[p].step = "leaves" => call[p].step # "idle" /\ call'[p].step # "idle"
    PROVE  HttpInv'
<1>1. \A r \in Client \ {p} : PageInv(web'[r], call'[r].step)
    BY DEF HttpInv, OthersStay
<1>2. PageInv(web'[p], call'[p].step)
    BY DEF HttpInv, PageInv, LeavesInv, InHand
<1> QED BY <1>1, <1>2 DEF HttpInv

(* A request that is not at its leaves, and is no document. *)
LEMMA PlainPage ==
    ASSUME NEW w, IsPage(w), NEW s, w.step # "leaves",
           w.step \in {"lock", "waiting"} => w.req.method = "LOCK" /\ FlagOf(w.req) \in Key,
           w.step = "build" => w.req.method = "GET",
           w.step = "answered" => w.req.method \notin Document
    PROVE  PageInv(w, s)
BY DEF PageInv

LEMMA StillInv ==
    ASSUME QueryInv, UNCHANGED vars
    PROVE  QueryInv' /\ \A r \in Client : call'[r].step = call[r].step
BY DEF QueryInv, vars, TreeTypeOK, TreeClosed

(* A request arrives. *)
LEMMA ArriveInv == ASSUME HttpInv, NEW p \in Client, Arrive(p) PROVE HttpInv'
<1> PICK r \in HttpRequest : \/ Reject(p, r) \/ handleByName(p, r) \/ handlePostJson(p, r)
                             \/ handleLock(p, r) \/ handleUnlock(p, r)
    BY DEF Arrive
<1> DEFINE n == NoRequest
<1>0. QueryInv /\ Has(n, "idle", n.req, {}, <<>>, {}, {}) /\ IsPage(n)
    BY NoRequestIsPage DEF HttpInv, Has
<1> HIDE DEF n
<1>1. CASE Reject(p, r)
  <2> DEFINE w == WithStatus(WithStep(WithReq(n, r), "answered"), Refusal(r))
  <2>1. web' = [web EXCEPT ![p] = w] /\ UNCHANGED vars
      BY <1>1 DEF Reject, WithStatus, WithStep, WithReq, n
  <2>2. Has(w, "answered", r, {}, <<>>, {}, {})
      BY <1>0, OneField DEF Has
  <2> HIDE DEF w
  <2>3. r.method \notin Document
      BY <1>1, ZenonT(30) DEF Reject, Refusal, Document
  <2>4. PageInv(w, call'[p].step)
      BY <2>2, <2>3, PlainPage DEF Has
  <2>5. QueryInv' /\ OthersStay(p)
      BY <1>0, <2>1, StillInv DEF OthersStay
  <2> QED BY <2>1, <2>4, <2>5, PageStep
<1>2. CASE handleByName(p, r)
  <2> DEFINE w == WithStep(WithReq(n, r), "call")
  <2>1. web' = [web EXCEPT ![p] = w]
      BY <1>2 DEF handleByName, Accept, WithStep, WithReq, n
  <2>2. Has(w, "call", r, {}, <<>>, {}, {})
      BY <1>0, OneField DEF Has
  <2> HIDE DEF w
  <2>3. PageInv(w, call'[p].step)
      BY <2>2, PlainPage DEF Has
  <2>4. IsRequest(CallOf(r))
      BY <1>2, HttpAssumption DEF handleByName, IsRequest, CallOf, Ops
  <2>5. QueryInv' /\ OthersStay(p)
      BY <1>0, <1>2, <2>4, BeginInv DEF handleByName
  <2> QED BY <2>1, <2>3, <2>5, PageStep
<1>3. CASE handlePostJson(p, r)
  <2> DEFINE w == WithTodo(WithStep(WithReq(n, r), "leaves"), Leaves(r))
  <2>1. web' = [web EXCEPT ![p] = w] /\ UNCHANGED vars
      BY <1>3 DEF handlePostJson, WithTodo, WithStep, WithReq, n
  <2>2. Has(w, "leaves", r, Leaves(r), <<>>, {}, {})
      BY <1>0, OneField DEF Has
  <2> HIDE DEF w
  <2>3. QueryInv' /\ OthersStay(p) /\ call'[p].step = "idle"
      BY <1>0, <1>3, <2>1, StillInv DEF OthersStay, handlePostJson, Free
  <2>4. r.method \in Document
      BY <1>3 DEF handlePostJson, Document
  <2>5. LeavesInv(w, "idle")
      BY <2>2, <2>4 DEF Has, LeavesInv, InHand, NamesOf
  <2>6. PageInv(w, call'[p].step)
      BY <2>2, <2>3, <2>5 DEF Has, PageInv
  <2> QED BY <2>1, <2>3, <2>6, PageStep
<1>4. CASE handleLock(p, r)
  <2> DEFINE w == WithStep(WithReq(n, r), "lock")
  <2>1. web' = [web EXCEPT ![p] = w] /\ UNCHANGED vars
      BY <1>4 DEF handleLock, Accept, WithStep, WithReq, n
  <2>2. Has(w, "lock", r, {}, <<>>, {}, {})
      BY <1>0, OneField DEF Has
  <2> HIDE DEF w
  <2>3. r.method = "LOCK" /\ FlagOf(r) \in Key
      BY <1>4, HttpAssumption DEF handleLock, FlagOf
  <2>4. PageInv(w, call'[p].step)
      BY <2>2, <2>3, PlainPage DEF Has
  <2>5. QueryInv' /\ OthersStay(p)
      BY <1>0, <2>1, StillInv DEF OthersStay
  <2> QED BY <2>1, <2>4, <2>5, PageStep
<1>5. CASE handleUnlock(p, r)
  <2> DEFINE w == WithStatus(WithStep(WithReq(n, r), "answered"), 204)
  <2>1. web' = [web EXCEPT ![p] = w]
      BY <1>5 DEF handleUnlock, WithStatus, WithStep, WithReq, n
  <2>2. Has(w, "answered", r, {}, <<>>, {}, {})
      BY <1>0, OneField DEF Has
  <2> HIDE DEF w
  <2>3. r.method = "UNLOCK" /\ FlagOf(r) \in Key
      BY <1>5, HttpAssumption DEF handleUnlock, FlagOf
  <2>4. PageInv(w, call'[p].step)
      BY <2>2, <2>3, PlainPage DEF Has, Document
  <2>5. QueryInv' /\ OthersStay(p)
      BY <1>0, <1>5, <2>3, SetFlagInv DEF handleUnlock, OthersStay
  <2> QED BY <2>1, <2>4, <2>5, PageStep
<1> QED BY <1>1, <1>2, <1>3, <1>4, <1>5

(* The handler of a request that is no document. *)
LEMMA PlainInv ==
    ASSUME HttpInv, NEW p \in Client,
           \/ PostReturns(p) \/ DeleteReturns(p) \/ GetFails(p) \/ GetReturns(p) \/ Insert(p)
           \/ Encode(p) \/ LockGranted(p) \/ LockWaits(p) \/ LockTimesOut(p) \/ Finish(p)
    PROVE  HttpInv'
<1> DEFINE v == web[p]
<1>0. QueryInv /\ PageInv(v, call[p].step) /\ IsPage(v)
    BY DEF HttpInv, PageInv
<1>1. CASE PostReturns(p) \/ DeleteReturns(p) \/ GetFails(p)
  <2>1. \E u : Answer(p, u)
      BY <1>1 DEF PostReturns, DeleteReturns, GetFails
  <2>2. PICK u : web' = [web EXCEPT ![p] = WithStatus(WithStep(v, "answered"), u)]
      BY <2>1 DEF Answer, WithStatus, WithStep
  <2> DEFINE w == WithStatus(WithStep(v, "answered"), u)
  <2>w. web' = [web EXCEPT ![p] = w]
      BY <2>2
  <2>3. v.req.method \notin Document
      BY <1>1 DEF PostReturns, DeleteReturns, GetFails, Document
  <2> HIDE DEF v
  <2>4. Has(w, "answered", v.req, v.todo, v.last, v.wrote, v.failed)
      BY <1>0, OneField DEF Has
  <2> HIDE DEF w
  <2>5. PageInv(w, call'[p].step)
      BY <2>3, <2>4, PlainPage DEF Has
  <2>6. QueryInv' /\ OthersStay(p)
      BY <1>0, <1>1, ReturnInv DEF PostReturns, DeleteReturns, GetFails
  <2> QED BY <2>w, <2>5, <2>6, PageStep
<1>2. CASE GetReturns(p)
  <2> DEFINE G(f, t, j, u, s) ==
               WithStep(WithStatus(WithJson(WithTodo(WithFound(v, f), t), j), u), s)
  <2>1. \E f, t, j, u, s : s \in {"build", "answered"} /\ web' = [web EXCEPT ![p] = G(f, t, j, u, s)]
    <3> DEFINE json == v.req.export = "json"
               lone == json /\ Lone(v.req) /\ call[p].acc # {}
               t == IF lone THEN {} ELSE Items(p)
               j == IF lone THEN [q \in {<<>>} |-> Scalar((CHOOSE a \in call[p].acc : TRUE).val)]
                    ELSE <<>>
               u == IF v.req.export = "other" THEN 400 ELSE 200
               s == IF json /\ ~lone THEN "build" ELSE "answered"
    <3>1. web' = [web EXCEPT ![p].found = call[p].acc, ![p].todo = t, ![p].json = j,
                             ![p].status = u, ![p].step = s]
        BY <1>2 DEF GetReturns
    <3>2. s \in {"build", "answered"}
        OBVIOUS
    <3> HIDE DEF t, j, u, s
    <3>3. web' = [web EXCEPT ![p] = G(call[p].acc, t, j, u, s)]
        BY <3>1 DEF WithStep, WithStatus, WithJson, WithTodo, WithFound
    <3> HIDE DEF G
    <3> QED BY <3>2, <3>3
  <2>2. PICK f, t, j, u, s :
          s \in {"build", "answered"} /\ web' = [web EXCEPT ![p] = G(f, t, j, u, s)]
      BY <2>1
  <2> DEFINE w == G(f, t, j, u, s)
  <2>3. v.req.method = "GET"
      BY <1>2 DEF GetReturns
  <2> HIDE DEF v
  <2>4. Has(w, s, v.req, t, v.last, v.wrote, v.failed)
      BY <1>0, OneField DEF Has
  <2>w. web' = [web EXCEPT ![p] = w]
      BY <2>2
  <2> HIDE DEF w, G
  <2>5. PageInv(w, call'[p].step)
      BY <2>2, <2>3, <2>4, PlainPage DEF Has, Document
  <2>6. QueryInv' /\ OthersStay(p)
      BY <1>0, <1>2, ReturnInv DEF GetReturns
  <2> QED BY <2>w, <2>5, <2>6, PageStep
<1>3. CASE Insert(p) \/ Encode(p)
  <2>1. /\ UNCHANGED vars /\ v.step = "build"
        /\ \/ \E t, j : web' = [web EXCEPT ![p] = WithJson(WithTodo(v, t), j)]
           \/ \E j : web' = [web EXCEPT ![p] = WithStep(WithJson(v, j), "answered")]
    <3>1. CASE Insert(p)
      <4>1. \E i : web' = [web EXCEPT ![p] =
              WithJson(WithTodo(v, v.todo \ {i}), insertNested(v.json, i.path, i.val))]
          BY <3>1 DEF Insert, WithJson, WithTodo
      <4>2. \E t, j : web' = [web EXCEPT ![p] = WithJson(WithTodo(v, t), j)]
          BY <4>1
      <4> QED BY <3>1, <4>2 DEF Insert
    <3>2. CASE Encode(p)
      <4>1. \E arrays : web' = [web EXCEPT ![p] =
              WithStep(WithJson(v, normalizeArrays(v.json, arrays)), "answered")]
          BY <3>2 DEF Encode, WithJson, WithStep
      <4>2. \E j : web' = [web EXCEPT ![p] = WithStep(WithJson(v, j), "answered")]
          BY <4>1
      <4> QED BY <3>2, <4>2 DEF Encode
    <3> QED BY <1>3, <3>1, <3>2
  <2>2. v.req.method = "GET"
      BY <1>0, <2>1 DEF PageInv
  <2>3. QueryInv' /\ OthersStay(p)
      BY <1>0, <2>1, StillInv DEF OthersStay
  <2>v. v = web[p]
      OBVIOUS
  <2> HIDE DEF v
  <2>4. ASSUME NEW t, NEW j PROVE PageInv(WithJson(WithTodo(v, t), j), call'[p].step)
    <3>1. Has(WithJson(WithTodo(v, t), j), v.step, v.req, t, v.last, v.wrote, v.failed)
        BY <1>0, OneField DEF Has
    <3> QED BY <2>1, <2>2, <3>1, PlainPage DEF Has, Document
  <2>5. ASSUME NEW j PROVE PageInv(WithStep(WithJson(v, j), "answered"), call'[p].step)
    <3>1. Has(WithStep(WithJson(v, j), "answered"), "answered", v.req, v.todo, v.last,
              v.wrote, v.failed)
        BY <1>0, OneField DEF Has
    <3> QED BY <2>2, <3>1, PlainPage DEF Has, Document
  <2> QED BY <2>1, <2>3, <2>4, <2>5, PageStep
<1>4. CASE LockGranted(p) \/ LockTimesOut(p)
  <2>1. v.step \in {"lock", "waiting"} /\ \E u : Answer(p, u)
      BY <1>4 DEF LockGranted, LockTimesOut
  <2>2. PICK u : web' = [web EXCEPT ![p] = WithStatus(WithStep(v, "answered"), u)]
      BY <2>1 DEF Answer, WithStatus, WithStep
  <2>3. v.req.method = "LOCK" /\ FlagOf(v.req) \in Key
      BY <1>0, <2>1 DEF PageInv
  <2>4. QueryInv' /\ OthersStay(p)
    <3>1. CASE LockGranted(p)
        BY <1>0, <2>3, <3>1, SetFlagInv DEF LockGranted, OthersStay
    <3>2. CASE LockTimesOut(p)
        BY <1>0, <3>2, StillInv DEF LockTimesOut, OthersStay
    <3> QED BY <1>4, <3>1, <3>2
  <2> HIDE DEF v
  <2> DEFINE w == WithStatus(WithStep(v, "answered"), u)
  <2>5. Has(w, "answered", v.req, v.todo, v.last, v.wrote, v.failed)
      BY <1>0, OneField DEF Has
  <2>w. web' = [web EXCEPT ![p] = w]
      BY <2>2
  <2> HIDE DEF w
  <2>6. PageInv(w, call'[p].step)
      BY <2>3, <2>5, PlainPage DEF Has, Document
  <2> QED BY <2>w, <2>4, <2>6, PageStep
<1>5. CASE LockWaits(p)
  <2> DEFINE w == WithStep(v, "waiting")
  <2>1. web' = [web EXCEPT ![p] = w] /\ UNCHANGED vars /\ v.step = "lock"
      BY <1>5 DEF LockWaits, WebGoto, WithStep
  <2>2. v.req.method = "LOCK" /\ FlagOf(v.req) \in Key
      BY <1>0, <2>1 DEF PageInv
  <2>3. Has(w, "waiting", v.req, v.todo, v.last, v.wrote, v.failed)
      BY <1>0, OneField
  <2> HIDE DEF w, v
  <2>4. PageInv(w, call'[p].step)
      BY <2>2, <2>3, PlainPage DEF Has
  <2>5. QueryInv' /\ OthersStay(p)
      BY <1>0, <2>1, StillInv DEF OthersStay
  <2> QED BY <2>1, <2>4, <2>5, PageStep
<1>6. CASE Finish(p)
  <2>1. web' = [web EXCEPT ![p] = NoRequest] /\ UNCHANGED vars
      BY <1>6 DEF Finish
  <2>2. PageInv(NoRequest, call'[p].step)
      BY NoRequestIsPage, PlainPage DEF Has
  <2>3. QueryInv' /\ OthersStay(p)
      BY <1>0, <2>1, StillInv DEF OthersStay
  <2> QED BY <2>1, <2>2, <2>3, PageStep
<1> QED BY <1>1, <1>2, <1>3, <1>4, <1>5, <1>6

(* A document: its next leaf is begun, has been set or has been refused,   *)
(* or there is none left.                                                  *)
LEMMA LeafInv ==
    ASSUME HttpInv, NEW p \in Client,
           SetLeaf(p) \/ LeafIsSet(p) \/ LeafFails(p) \/ AllLeaves(p)
    PROVE  HttpInv'
<1> DEFINE v == web[p]
<1>0. QueryInv /\ PageInv(v, call[p].step) /\ IsPage(v) /\ v.step = "leaves"
    BY DEF HttpInv, PageInv, SetLeaf, LeafIsSet, LeafFails, AllLeaves
<1>l. LeavesInv(v, call[p].step)
    BY <1>0 DEF PageInv
<1>r. v.req \in HttpRequest /\ v.req.method \in Document
    BY <1>l DEF LeavesInv
<1>1. CASE SetLeaf(p)
  <2> DEFINE R(i) == [op |-> "set", q |-> [NoQuery EXCEPT !.pre = i.path], arg |-> i.val]
             w(i) == WithLast(WithTodo(v, v.todo \ {i}), i.path)
  <2>1. PICK i \in v.todo : Begin(p, R(i)) /\ web' = [web EXCEPT ![p] = w(i)]
      BY <1>1 DEF SetLeaf, WithLast, WithTodo
  <2>2. call[p].step = "idle"
      BY <1>1 DEF SetLeaf
  <2>3. i \in Leaves(v.req)
      BY <1>l, <2>1 DEF LeavesInv
  <2>4. /\ i.path \in Seq(STRING) /\ i.path \in NamesOf(v.req)
        /\ \A j \in Leaves(v.req) : j.path = i.path => j = i
      BY <1>r, <2>3, LeavesAreNamed DEF NamesOf
  <2>5. IsRequest(R(i))
      BY <2>4, LeafIsRequest
  <2>6. QueryInv' /\ OthersStay(p) /\ call'[p].step # "idle"
      BY <1>0, <2>1, <2>5, BeginInv
  <2> DEFINE x == w(i)
  <2>x. web' = [web EXCEPT ![p] = x]
      BY <2>1
  <2> HIDE DEF v, R
  <2>7. Has(x, "leaves", v.req, v.todo \ {i}, i.path, v.wrote, v.failed)
      BY <1>0, OneField DEF Has
  <2> HIDE DEF x
  <2>8. LeavesInv(x, call'[p].step)
    <3>1. InHand(x, call'[p].step) = {i.path} /\ InHand(v, call[p].step) = {}
        BY <2>2, <2>6, <2>7 DEF InHand, Has
    <3>2. x.todo \subseteq Leaves(x.req) /\ x.req = v.req /\ v.todo \subseteq Leaves(v.req)
        BY <1>l, <2>7 DEF Has, LeavesInv
    <3>3. \A j \in x.todo : j.path \notin x.wrote \cup x.failed \cup {i.path}
        BY <1>l, <2>4, <2>7, <3>2 DEF Has, LeavesInv
    <3>4. i.path \notin x.wrote \cup x.failed
        BY <1>l, <2>1, <2>7 DEF Has, LeavesInv
    <3>5. {j.path : j \in v.todo} = {i.path} \cup {j.path : j \in x.todo}
        BY <2>1, <2>7 DEF Has
    <3>6. /\ x.req.method = "POST json" => x.failed = {}
          /\ NamesOf(x.req) \subseteq
               x.wrote \cup x.failed \cup {i.path} \cup {j.path : j \in x.todo}
        BY <1>l, <2>1, <2>7, <3>1, <3>5 DEF Has, LeavesInv
    <3>7. /\ x.wrote \cup x.failed \cup {i.path} \subseteq NamesOf(x.req)
          /\ x.wrote \cap x.failed = {}
        BY <1>l, <2>4, <2>7 DEF Has, LeavesInv
    <3> QED BY <1>r, <3>1, <3>2, <3>3, <3>4, <3>6, <3>7 DEF LeavesInv
  <2>9. PageInv(x, call'[p].step)
      BY <2>7, <2>8 DEF PageInv, Has
  <2> QED BY <2>x, <2>6, <2>9, PageStep
<1>2. CASE LeafIsSet(p) \/ LeafFails(p)
  <2>1. Return(p) /\ call[p].step = "done"
      BY <1>2 DEF LeafIsSet, LeafFails
  <2>2. QueryInv' /\ OthersStay(p) /\ call'[p].step = "idle"
      BY <1>0, <2>1, ReturnInv
  <2> DEFINE todo == IF v.req.method = "setjson" THEN v.todo ELSE {}
             x == WithWrote(v, v.wrote \cup {v.last})
             y == WithTodo(WithFailed(v, v.failed \cup {v.last}), todo)
  <2>3. LeafIsSet(p) => web' = [web EXCEPT ![p] = x]
      BY DEF LeafIsSet, WithWrote
  <2>4. LeafFails(p) => web' = [web EXCEPT ![p] = y]
      BY DEF LeafFails, WithFailed, WithTodo
  <2> HIDE DEF v
  <2>5. Has(x, "leaves", v.req, v.todo, v.last, v.wrote \cup {v.last}, v.failed)
      BY <1>0, OneField DEF Has
  <2>6. Has(y, "leaves", v.req, todo, v.last, v.wrote, v.failed \cup {v.last})
      BY <1>0, OneField DEF Has
  <2>7. InHand(v, call[p].step) = {v.last} /\ InHand(x, "idle") = {} /\ InHand(y, "idle") = {}
      BY <2>1 DEF InHand
  <2> HIDE DEF x, y
  <2>8. LeavesInv(x, "idle")
      BY <1>l, <2>1, <2>5, <2>7 DEF Has, LeavesInv
  <2>9. LeavesInv(y, "idle")
    <3>1. CASE v.req.method = "setjson"
        BY <1>l, <2>1, <2>6, <2>7, <3>1 DEF Has, LeavesInv
    <3>2. CASE v.req.method = "POST json"
      <4>1. y.failed = {v.last} /\ y.todo = {} /\ y.req = v.req /\ y.wrote = v.wrote
          BY <1>l, <2>1, <2>6, <3>2 DEF Has, LeavesInv
      <4> QED BY <1>l, <2>7, <3>2, <4>1 DEF LeavesInv
    <3> QED BY <1>r, <3>1, <3>2 DEF Document
  <2>10. PageInv(x, call'[p].step) /\ PageInv(y, call'[p].step)
      BY <2>2, <2>5, <2>6, <2>8, <2>9 DEF PageInv, Has
  <2>11. CASE LeafIsSet(p)
      BY <2>2, <2>3, <2>10, <2>11, PageStep
  <2>12. CASE LeafFails(p)
      BY <2>2, <2>4, <2>10, <2>12, PageStep
  <2> QED BY <1>2, <2>11, <2>12
<1>3. CASE AllLeaves(p)
  <2> DEFINE x == WithStatus(WithStep(v, "answered"), 204)
  <2>1. /\ web' = [web EXCEPT ![p] = x] /\ UNCHANGED vars
        /\ v.todo = {} /\ call[p].step = "idle"
      BY <1>3, ZenonT(30) DEF AllLeaves, Answer, WithStatus, WithStep
  <2>2. QueryInv' /\ OthersStay(p)
      BY <1>0, <2>1, StillInv DEF OthersStay
  <2> HIDE DEF v
  <2>3. Has(x, "answered", v.req, v.todo, v.last, v.wrote, v.failed)
      BY <1>0, OneField DEF Has
  <2> HIDE DEF x
  <2>4. Honest(v)
    <3>1. InHand(v, call[p].step) = {} /\ {i.path : i \in v.todo} = {}
        BY <2>1 DEF InHand
    <3>2. (\E f \in v.failed : v.failed = {f}) => Cardinality(v.failed) = 1
        BY FS_Singleton
    <3> QED BY <1>l, <3>1, <3>2 DEF LeavesInv, Honest
  <2>5. PageInv(x, call'[p].step)
      BY <2>3, <2>4 DEF PageInv, Has, Honest
  <2> QED BY <2>1, <2>2, <2>5, PageStep
<1> QED BY <1>1, <1>2, <1>3

LEMMA HttpInitInv == HttpInit => HttpInv
<1> SUFFICES ASSUME HttpInit PROVE HttpInv
    OBVIOUS
<1>1. QueryInv
    BY InitInv DEF HttpInit
<1>2. web = [p \in Client |-> NoRequest]
    BY DEF HttpInit
<1>3. \A s : PageInv(NoRequest, s)
    BY NoRequestIsPage, PlainPage DEF Has
<1> QED BY <1>1, <1>2, <1>3 DEF HttpInv

LEMMA HttpNextInv == HttpInv /\ [HttpNext]_httpVars => HttpInv'
<1> SUFFICES ASSUME HttpInv, [HttpNext]_httpVars PROVE HttpInv'
    OBVIOUS
<1>0. QueryInv
    BY DEF HttpInv
<1>1. ASSUME NEW p \in Client, Arrive(p) PROVE HttpInv'
    BY <1>1, ArriveInv
<1>2. ASSUME NEW p \in Client, Handler(p) PROVE HttpInv'
  <2>1. CASE web[p].step \in {"call", "leaves"} /\ Work(p) /\ UNCHANGED web
      BY <1>0, <2>1, WorkInv, CallStep
  <2> QED BY <1>2, <2>1, PlainInv, LeafInv DEF Handler
<1>3. ASSUME NEW p \in Client, Elsewhere(p) PROVE HttpInv'
  <2>1. web[p].step # "leaves" /\ UNCHANGED web
      BY <1>3 DEF Elsewhere
  <2>2. CASE Step(p)
      BY <1>0, <2>1, <2>2, WorkInv, ReturnInv, CallStep DEF Step
  <2>3. ASSUME NEW r \in Rival, Begin(p, r) PROVE HttpInv'
      BY <1>0, <2>1, <2>3, HttpAssumption, BeginInv, CallStep
  <2> QED BY <1>3, <2>2, <2>3 DEF Elsewhere
<1>4. CASE UNCHANGED httpVars
    BY <1>0, <1>4, StillInv DEF httpVars, HttpInv
<1> QED BY <1>1, <1>2, <1>3, <1>4 DEF HttpNext

(* What a request of HTTP does to the calls and the tree. *)
LEMMA HttpIsAnyStep == HttpInv /\ [HttpNext]_httpVars => [AnyStep]_vars
<1> SUFFICES ASSUME HttpInv, HttpNext PROVE AnyStep \/ UNCHANGED vars
    BY DEF httpVars
<1>1. ASSUME NEW p \in Client, Arrive(p) PROVE AnyStep \/ UNCHANGED vars
  <2> PICK r \in HttpRequest : \/ Reject(p, r) \/ handleByName(p, r) \/ handlePostJson(p, r)
                               \/ handleLock(p, r) \/ handleUnlock(p, r)
      BY <1>1 DEF Arrive
  <2>1. CASE handleByName(p, r)
    <3>1. IsRequest(CallOf(r))
        BY <2>1, HttpAssumption DEF handleByName, IsRequest, CallOf, Ops
    <3> QED BY <2>1, <3>1 DEF handleByName, AnyStep
  <2>2. CASE handleUnlock(p, r)
    <3>1. FlagOf(r) \in Key
        BY <2>2, HttpAssumption DEF handleUnlock, FlagOf
    <3> QED BY <2>2, <3>1 DEF handleUnlock, AnyStep
  <2>3. CASE Reject(p, r) \/ handlePostJson(p, r) \/ handleLock(p, r)
      BY <2>3 DEF Reject, handlePostJson, handleLock
  <2> QED BY <2>1, <2>2, <2>3
<1>2. ASSUME NEW p \in Client, Handler(p) PROVE AnyStep \/ UNCHANGED vars
  <2>1. CASE SetLeaf(p)
    <3> DEFINE R(i) == [op |-> "set", q |-> [NoQuery EXCEPT !.pre = i.path], arg |-> i.val]
    <3>1. PICK i \in web[p].todo : Begin(p, R(i))
        BY <2>1 DEF SetLeaf
    <3>2. LeavesInv(web[p], call[p].step)
        BY <2>1 DEF SetLeaf, HttpInv, PageInv
    <3>3. i.path \in Seq(STRING)
        BY <3>1, <3>2, LeavesAreNamed DEF LeavesInv
    <3>4. IsRequest(R(i))
        BY <3>3, LeafIsRequest
    <3> HIDE DEF R
    <3> QED BY <3>1, <3>4 DEF AnyStep
  <2>2. CASE LockGranted(p)
    <3>1. FlagOf(web[p].req) \in Key
        BY <2>2 DEF LockGranted, HttpInv, PageInv
    <3> QED BY <2>2, <3>1 DEF LockGranted, AnyStep
  <2>3. CASE \/ PostReturns(p) \/ DeleteReturns(p) \/ GetFails(p) \/ GetReturns(p)
             \/ LeafIsSet(p) \/ LeafFails(p)
    <3>1. Return(p)
        BY <2>3 DEF PostReturns, DeleteReturns, GetFails, GetReturns, LeafIsSet, LeafFails
    <3> QED BY <3>1 DEF AnyStep, Step
  <2>4. CASE \/ Insert(p) \/ Encode(p) \/ AllLeaves(p) \/ LockWaits(p) \/ LockTimesOut(p)
             \/ Finish(p)
      BY <2>4 DEF Insert, Encode, AllLeaves, LockWaits, LockTimesOut, Finish
  <2>5. CASE Work(p)
      BY <2>5 DEF AnyStep, Step
  <2> QED BY <1>2, <2>1, <2>2, <2>3, <2>4, <2>5 DEF Handler
<1>3. ASSUME NEW p \in Client, Elsewhere(p) PROVE AnyStep \/ UNCHANGED vars
    BY <1>3, HttpAssumption DEF Elsewhere, AnyStep
<1> QED BY <1>1, <1>2, <1>3 DEF HttpNext
----------------------------------------------------------------------------
(* Answers in JSON: the tree that a set of items makes, in whatever order  *)
(* they are inserted.  An item without a last word makes objects only.     *)
ObjectsOf(D) == UNION {OnTheWay(i.path) : i \in D}

Real(D) == {i \in D : Last(i.path) # ""}

PlaceIn(D, i) == IF i.path \in ObjectsOf(D) THEN Append(i.path, ValueWord) ELSE i.path

IsJson(t, D) ==
    /\ DOMAIN t = ObjectsOf(D) \cup {PlaceIn(D, i) : i \in Real(D)}
    /\ \A q \in ObjectsOf(D) : t[q] = Object
    /\ \A i \in Real(D) : t[PlaceIn(D, i)] = i.val

(* Items that do not get in each other's way. *)
Insertable(I) ==
    /\ \A i \in I : /\ i.path \in Seq(STRING) /\ i.path # <<>>
                    /\ Last(i.path) # ValueWord /\ i.val # Object
    /\ \A i, j \in I : i.path = j.path => i = j
    /\ \A i, j \in I : Append(i.path, ValueWord) \notin OnTheWay(j.path)

LEMMA InOnTheWay ==
    ASSUME NEW path \in Seq(STRING), NEW q
    PROVE  q \in OnTheWay(path) <=>
             /\ q \in Seq(STRING) /\ q # <<>> /\ Len(q) < Len(path)
             /\ \A n \in 1 .. Len(q) : q[n] = path[n]
<1>0. Len(path) \in Nat /\ DOMAIN path = 1 .. Len(path)
    BY LenProperties
<1>1. ASSUME NEW n \in 1 .. Len(path) - 1, q = SubSeq(path, 1, n)
      PROVE  /\ q \in Seq(STRING) /\ q # <<>> /\ Len(q) < Len(path)
             /\ \A m \in 1 .. Len(q) : q[m] = path[m]
  <2>1. n \in Nat \ {0} /\ n < Len(path) /\ n \in Int /\ \A m \in 1 .. n : path[m] \in STRING
      BY <1>0
  <2>2. q \in Seq(STRING) /\ Len(q) = n /\ \A m \in 1 .. n : q[m] = path[m]
      BY <1>1, <2>1, SubSeqProperties
  <2> QED BY <2>1, <2>2, EmptySeq
<1>2. ASSUME q \in Seq(STRING), q # <<>>, Len(q) < Len(path),
             \A n \in 1 .. Len(q) : q[n] = path[n]
      PROVE  \E n \in 1 .. Len(path) - 1 : q = SubSeq(path, 1, n)
  <2> DEFINE n == Len(q)
             u == SubSeq(path, 1, n)
  <2>1. n \in Nat \ {0} /\ n < Len(path)
      BY <1>0, <1>2, EmptySeq, LenProperties
  <2>2. n \in 1 .. Len(path) - 1 /\ \A m \in 1 .. n : path[m] \in STRING
      BY <1>0, <2>1
  <2>3. q \in Seq(STRING) /\ \A m \in 1 .. n : q[m] = path[m]
      BY <1>2
  <2>l. n = Len(q)
      OBVIOUS
  <2> HIDE DEF n
  <2>4. u \in Seq(STRING) /\ Len(u) = n /\ \A m \in 1 .. n : u[m] = path[m]
      BY <2>1, <2>2, SubSeqProperties
  <2> HIDE DEF u
  <2>5. q = u
      BY <2>3, <2>4, <2>l, SeqEqual
  <2> QED BY <2>2, <2>5 DEF u
<1> QED BY <1>1, <1>2 DEF OnTheWay

LEMMA Appended ==
    ASSUME NEW m \in Seq(STRING), NEW x \in STRING
    PROVE  /\ Append(m, x) \in Seq(STRING) /\ Append(m, x) # <<>>
           /\ Len(Append(m, x)) = Len(m) + 1 /\ Len(m) \in Nat
           /\ \A i \in 1 .. Len(m) : Append(m, x)[i] = m[i]
           /\ Last(Append(m, x)) = x /\ Front(Append(m, x)) = m
<1> DEFINE u == Append(m, x)
<1>0. Len(m) \in Nat
    BY LenProperties
<1>1. /\ u \in Seq(STRING) /\ u # <<>> /\ Len(u) = Len(m) + 1 /\ Len(m) \in Nat
      /\ \A i \in 1 .. Len(m) : u[i] = m[i]
      /\ u[Len(m) + 1] = x
  <2>1. /\ u \in Seq(STRING) /\ u # <<>> /\ Len(u) = Len(m) + 1
        /\ \A i \in 1 .. Len(m) : u[i] = m[i]
        /\ u[Len(u)] = x
    <3>1. u \in Seq(STRING) /\ u # <<>> /\ Len(u) = Len(m) + 1
        BY AppendProperties
    <3>2. (\A i \in 1 .. Len(m) : u[i] = m[i]) /\ u[Len(u)] = x
        BY <1>0, AppendProperties
    <3> QED BY <3>1, <3>2
  <2> QED BY <1>0, <2>1
<1> HIDE DEF u
<1>2. Last(u) = x
    BY <1>1 DEF Last
<1>3. Front(u) = m
  <2>1. Front(u) = SubSeq(u, 1, Len(m))
      BY <1>1 DEF Front
  <2>2. \A i \in 1 .. Len(m) : u[i] \in STRING
      BY <1>1
  <2> DEFINE f == SubSeq(u, 1, Len(m))
  <2>3. f \in Seq(STRING) /\ Len(f) = Len(m) /\ \A i \in 1 .. Len(m) : f[i] = u[i]
      BY <1>1, <2>2, SubSeqProperties
  <2> HIDE DEF f
  <2>4. f = m
      BY <1>1, <2>3, SeqEqual
  <2> QED BY <2>1, <2>4 DEF f
<1> QED BY <1>1, <1>2, <1>3 DEF u

(* The places of items are different, and no object is at one. *)
LEMMA PlacesApart ==
    ASSUME NEW I, Insertable(I), NEW D \in SUBSET I, NEW i \in I, NEW j \in I,
           i # j
    PROVE  /\ PlaceIn(D, i) # PlaceIn(D, j)
           /\ PlaceIn(D, i) \notin ObjectsOf(D)
<1>1. /\ i.path \in Seq(STRING) /\ j.path \in Seq(STRING) /\ i.path # j.path
      /\ Last(i.path) # ValueWord /\ Last(j.path) # ValueWord
    BY DEF Insertable
<1>2. ValueWord \in STRING
    BY AnswerAssumption
<1>3. /\ Last(Append(i.path, ValueWord)) = ValueWord /\ Front(Append(i.path, ValueWord)) = i.path
      /\ Last(Append(j.path, ValueWord)) = ValueWord /\ Front(Append(j.path, ValueWord)) = j.path
    BY <1>1, <1>2, Appended
<1>4. Append(i.path, ValueWord) \notin ObjectsOf(D)
    BY DEF ObjectsOf, Insertable
<1> QED BY <1>1, <1>3, <1>4 DEF PlaceIn

(* insertNested adds an item to the tree of the others. *)
LEMMA InsertIsJson ==
    ASSUME NEW I, Insertable(I), NEW D \in SUBSET I, NEW i \in I \ D, NEW t, IsJson(t, D)
    PROVE  IsJson(insertNested(t, i.path, i.val), D \cup {i})
<1> DEFINE path == i.path
           E == D \cup {i}
           way == OnTheWay(path)
           primitive == {m \in way \cap DOMAIN t : t[m] # Object}
           moved == {Append(m, ValueWord) : m \in primitive}
           place == IF path \in DOMAIN t /\ t[path] = Object
                    THEN Append(path, ValueWord) ELSE path
           new == IF Last(path) = "" THEN {} ELSE {place}
           u == insertNested(t, path, i.val)
<1>1. u = [q \in DOMAIN t \cup way \cup moved \cup new |->
             CASE q \in new -> i.val [] q \in way -> Object
               [] q \in moved -> t[Front(q)] [] OTHER -> t[q]]
    BY DEF insertNested
<1>2. ObjectsOf(E) = ObjectsOf(D) \cup way
    BY DEF ObjectsOf
<1>3. Real(E) = Real(D) \cup (IF Last(path) = "" THEN {} ELSE {i})
    BY DEF Real
<1>4. /\ path \in Seq(STRING) /\ path # <<>> /\ Last(path) # ValueWord
      /\ \A j \in I : j.path \in Seq(STRING) /\ Last(j.path) # ValueWord /\ j.val # Object
      /\ \A j, k \in I : j.path = k.path => j = k
      /\ \A j, k \in I : Append(j.path, ValueWord) \notin OnTheWay(k.path)
      /\ ValueWord \in STRING
    BY AnswerAssumption DEF Insertable
<1>5. /\ \A j \in I : /\ Last(Append(j.path, ValueWord)) = ValueWord
                      /\ Front(Append(j.path, ValueWord)) = j.path
    BY <1>4, Appended
<1>6. path \notin way
    BY <1>4, InOnTheWay
<1>7. /\ DOMAIN t = ObjectsOf(D) \cup {PlaceIn(D, j) : j \in Real(D)}
      /\ \A q \in ObjectsOf(D) : t[q] = Object
      /\ \A j \in Real(D) : t[PlaceIn(D, j)] = j.val
      /\ Real(D) \subseteq I /\ D \subseteq I /\ i \in I /\ i \notin D /\ Real(D) \subseteq D
    BY DEF IsJson, Real
<1>8. \A j \in I : Append(j.path, ValueWord) \notin ObjectsOf(E)
    BY <1>4, <1>7 DEF ObjectsOf
<1> HIDE DEF u, way
(* What is there already at the place: nothing, or an object. *)
<1>9. path \in DOMAIN t <=> path \in ObjectsOf(D)
  <2>1. \A j \in Real(D) : PlaceIn(D, j) # path
      BY <1>4, <1>5, <1>7 DEF PlaceIn
  <2> QED BY <1>7, <2>1
<1>10. place = PlaceIn(E, i)
    BY <1>2, <1>6, <1>7, <1>9 DEF PlaceIn
(* The values that have to move are those of items on the way. *)
<1>11. ASSUME NEW m \in primitive PROVE \E j \in Real(D) : m = j.path /\ m \notin ObjectsOf(D)
  <2>1. m \notin ObjectsOf(D)
      BY <1>7
  <2>2. PICK j \in Real(D) : m = PlaceIn(D, j)
      BY <1>7, <2>1
  <2>3. m # Append(j.path, ValueWord)
      BY <1>2, <1>7, <1>8
  <2> QED BY <2>1, <2>2, <2>3 DEF PlaceIn
<1>12. ASSUME NEW j \in Real(D), j.path \in way, j.path \notin ObjectsOf(D)
       PROVE  j.path \in primitive /\ t[j.path] = j.val
  <2>1. PlaceIn(D, j) = j.path
      BY <1>12 DEF PlaceIn
  <2> QED BY <1>4, <1>7, <1>12, <2>1
<1> HIDE DEF place, primitive
<1>13. moved = {Append(j.path, ValueWord) : j \in {k \in Real(D) : k.path \in way \ ObjectsOf(D)}}
  <2>1. primitive = {j.path : j \in {k \in Real(D) : k.path \in way \ ObjectsOf(D)}}
    <3>1. ASSUME NEW m \in primitive
          PROVE  m \in {j.path : j \in {k \in Real(D) : k.path \in way \ ObjectsOf(D)}}
      <4>1. m \in way
          BY DEF primitive
      <4> QED BY <1>11, <4>1
    <3> QED BY <1>12, <3>1
  <2> QED BY <2>1
<1>14. \A j \in Real(D) : PlaceIn(E, j) =
         IF j.path \in way \ ObjectsOf(D) THEN Append(j.path, ValueWord) ELSE PlaceIn(D, j)
    BY <1>2 DEF PlaceIn
<1>15. {PlaceIn(E, j) : j \in Real(E)} = {PlaceIn(E, j) : j \in Real(D)} \cup new
    BY <1>3, <1>10
<1>16. DOMAIN u = ObjectsOf(E) \cup {PlaceIn(E, j) : j \in Real(E)}
  <2>1. DOMAIN u = DOMAIN t \cup way \cup moved \cup new
      BY <1>1
  <2>2. \A j \in Real(D) : PlaceIn(E, j) \in DOMAIN t \cup moved
      BY <1>7, <1>13, <1>14
  <2>3. \A j \in Real(D) : PlaceIn(D, j) \in ObjectsOf(E) \cup {PlaceIn(E, k) : k \in Real(D)}
    <3> SUFFICES ASSUME NEW j \in Real(D), j.path \in way \ ObjectsOf(D)
                 PROVE  PlaceIn(D, j) \in ObjectsOf(E)
        BY <1>14
    <3> QED BY <1>2 DEF PlaceIn
  <2>4. moved \subseteq {PlaceIn(E, j) : j \in Real(D)}
      BY <1>13, <1>14
  <2> DEFINE O == ObjectsOf(D)
             PD == {PlaceIn(D, j) : j \in Real(D)}
             PE == {PlaceIn(E, j) : j \in Real(D)}
  <2>5. PE \subseteq DOMAIN t \cup moved
      BY <2>2
  <2>6. PD \subseteq ObjectsOf(E) \cup PE
      BY <2>3
  <2>7. DOMAIN t = O \cup PD /\ ObjectsOf(E) = O \cup way /\ moved \subseteq PE
        /\ {PlaceIn(E, j) : j \in Real(E)} = PE \cup new
      BY <1>2, <1>7, <1>15, <2>4
  <2> HIDE DEF moved, new, E, PD, PE, O
  <2> QED BY <2>1, <2>5, <2>6, <2>7
<1>d. DOMAIN u = DOMAIN t \cup way \cup moved \cup new
    BY <1>1
<1>17. \A j \in E : PlaceIn(E, j) \notin ObjectsOf(E)
    BY <1>7, <1>8 DEF PlaceIn
<1>18. \A q \in new : q = PlaceIn(E, i)
    BY <1>10
<1>19. \A q \in moved : q \notin ObjectsOf(E)
    BY <1>7, <1>8, <1>13
<1> HIDE DEF moved
<1>20. ASSUME NEW q \in ObjectsOf(E) PROVE u[q] = Object
  <2>1. q \notin new /\ q \notin moved /\ q \in DOMAIN u
      BY <1>16, <1>17, <1>18, <1>19
  <2>2. CASE q \in way
      BY <1>1, <1>16, <2>1, <2>2
  <2>3. CASE q \notin way
    <3>1. q \in ObjectsOf(D)
        BY <1>2, <2>3
    <3>2. u[q] = t[q]
        BY <1>1, <1>7, <2>1, <2>3, <3>1
    <3> QED BY <1>7, <3>1, <3>2
  <2> QED BY <2>2, <2>3
<1>21. ASSUME NEW j \in Real(D) PROVE u[PlaceIn(E, j)] = j.val
  <2> DEFINE q == PlaceIn(E, j)
  <2>1. q \notin new
    <3>1. q # PlaceIn(E, i)
      <4>1. j \in I /\ E \in SUBSET I /\ j # i
          BY <1>7
      <4> QED BY <1>7, <4>1, PlacesApart
    <3> QED BY <1>18, <3>1
  <2>2. q \notin way /\ q \in DOMAIN u
    <3>1. j \in Real(E) /\ j \in E
        BY <1>3, <1>7
    <3> QED BY <1>2, <1>16, <1>17, <3>1
  <2>3. CASE j.path \in way \ ObjectsOf(D)
    <3>1. q \in moved /\ Front(q) = j.path
        BY <1>5, <1>7, <1>13, <1>14, <2>3
    <3>2. t[j.path] = j.val
        BY <1>12, <2>3
    <3> HIDE DEF q
    <3>3. u[q] = t[Front(q)]
        BY <1>1, <1>d, <2>1, <2>2, <3>1
    <3> QED BY <3>1, <3>2, <3>3 DEF q
  <2>4. CASE ~(j.path \in way \ ObjectsOf(D))
    <3>1. q = PlaceIn(D, j)
        BY <1>14, <2>4
    <3>2. q \notin moved
      <4> SUFFICES ASSUME NEW k \in Real(D), k.path \in way \ ObjectsOf(D),
                          q = Append(k.path, ValueWord)
                   PROVE  FALSE
          BY <1>13
      <4>1. q = PlaceIn(E, k)
          BY <1>14
      <4>2. k # j
          BY <2>4
      <4>3. j \in I /\ k \in I /\ E \in SUBSET I
          BY <1>7
      <4> QED BY <4>1, <4>2, <4>3, PlacesApart
    <3> HIDE DEF q
    <3>3. u[q] = t[q]
        BY <1>1, <1>d, <2>1, <2>2, <3>2
    <3> QED BY <1>7, <3>1, <3>3 DEF q
  <2> QED BY <2>3, <2>4
<1>22. i \in Real(E) => u[PlaceIn(E, i)] = i.val
  <2> SUFFICES ASSUME i \in Real(E) PROVE u[PlaceIn(E, i)] = i.val
      OBVIOUS
  <2>1. new = {place}
      BY DEF Real
  <2>2. place \in new /\ place \in DOMAIN u
      BY <1>d, <2>1
  <2> HIDE DEF new
  <2>4. place \notin way
      BY <1>2, <1>10, <1>17
  <2>5. place \notin moved
    <3> SUFFICES ASSUME NEW k \in Real(D), k.path \in way \ ObjectsOf(D),
                        place = Append(k.path, ValueWord)
                 PROVE  FALSE
        BY <1>13
    <3>1. place = PlaceIn(E, k)
        BY <1>14
    <3>2. k # i /\ k \in I /\ E \in SUBSET I
        BY <1>7
    <3> QED BY <1>7, <1>10, <3>1, <3>2, PlacesApart
  <2>3. u[place] = i.val
      BY <1>1, <1>d, <2>2, <2>4, <2>5
  <2> QED BY <1>10, <2>3
<1>23. IsJson(u, E)
    BY <1>3, <1>16, <1>20, <1>21, <1>22 DEF IsJson
<1> QED BY <1>23 DEF u

(* The names of what a GET finds.  Those that a '*' stands for have a word *)
(* more than what is before it, the name before it an empty one.           *)
LEMMA NameIs ==
    ASSUME NEW r \in HttpRequest, r.method = "GET", NEW k \in Matches(r.q) \cap Key
    PROVE  /\ r.q \in Query /\ k \in Seq(STRING)
           /\ NameOf(r, k) \in Seq(STRING) /\ NameOf(r, k) # <<>>
           /\ ~(r.q.star /\ k = r.q.pre) => NameOf(r, k) = k /\ Last(k) # ""
           /\ r.q.star => /\ Len(r.q.pre) < Len(NameOf(r, k))
                          /\ \A x \in 1 .. Len(r.q.pre) : NameOf(r, k)[x] = r.q.pre[x]
           /\ r.q.star /\ k # r.q.pre => \E d \in VisibleBelow(r.q.pre) : k = d \o r.q.rest
           /\ ~r.q.star => k = r.q.pre
<1> DEFINE q == r.q
           n == NameOf(r, k)
<1>1. q \in Query /\ (q.star \/ q.pre # <<>>)
    BY HttpAssumption, AnswerAssumption
<1>2. /\ q.pre \in Seq(STRING) /\ q.rest \in Seq(STRING) /\ k \in Seq(STRING)
      /\ Len(q.pre) \in Nat /\ Len(q.rest) \in Nat /\ Len(k) \in Nat /\ DOMAIN k = 1 .. Len(k)
    BY <1>1, NameAssumption, LenProperties DEF Query
<1>3. ~q.star => k = q.pre
    BY DEF Matches
<1>4. q.star /\ k # q.pre => \E d \in VisibleBelow(q.pre) : k = d \o q.rest
    BY DEF Matches
<1>5. CASE q.star /\ k = q.pre
  <2> DEFINE e == ""
  <2>1. n = Append(k, e)
      BY <1>5 DEF NameOf
  <2>e. e \in STRING
      BY AnswerAssumption
  <2> HIDE DEF e, n
  <2>2. n \in Seq(STRING) /\ n # <<>> /\ Len(n) = Len(k) + 1 /\ \A x \in 1 .. Len(k) : n[x] = k[x]
      BY <1>2, <2>1, <2>e, Appended
  <2>3. Len(q.pre) < Len(n) /\ \A x \in 1 .. Len(q.pre) : n[x] = q.pre[x]
      BY <1>2, <1>5, <2>2
  <2> HIDE DEF n
  <2>4. /\ q \in Query /\ k \in Seq(STRING) /\ n \in Seq(STRING) /\ n # <<>>
        /\ Len(q.pre) < Len(n) /\ \A x \in 1 .. Len(q.pre) : n[x] = q.pre[x]
      BY <1>1, <1>2, <2>2, <2>3
  <2> QED BY <1>5, <2>4 DEF n
<1>6. CASE ~(q.star /\ k = q.pre)
  <2>1. n = k
      BY <1>6 DEF NameOf
  <2>2. q.star => Len(q.pre) < Len(k) /\ \A x \in 1 .. Len(q.pre) : k[x] = q.pre[x]
    <3> SUFFICES ASSUME q.star
                 PROVE  Len(q.pre) < Len(k) /\ \A x \in 1 .. Len(q.pre) : k[x] = q.pre[x]
        OBVIOUS
    <3>1. PICK d \in VisibleBelow(q.pre) : k = d \o q.rest
        BY <1>4, <1>6
    <3>2. d \in Key /\ IsStrictPrefix(q.pre, d)
        BY DEF VisibleBelow
    <3>3. d \in Seq(STRING) /\ Len(d) \in Nat
        BY <3>2, NameAssumption, LenProperties
    <3>4. Len(q.pre) < Len(d) /\ \A x \in 1 .. Len(q.pre) : q.pre[x] = d[x]
        BY <1>2, <3>2, <3>3, StrictPrefixes
    <3>5. Len(k) = Len(d) + Len(q.rest) /\ \A x \in 1 .. Len(d) : k[x] = d[x]
        BY <1>2, <3>1, <3>3, ConcatProperties
    <3>6. Len(q.pre) < Len(k)
        BY <1>2, <3>3, <3>4, <3>5
    <3>7. \A x \in 1 .. Len(q.pre) : x \in 1 .. Len(d)
        BY <1>2, <3>3, <3>4
    <3>8. \A x \in 1 .. Len(q.pre) : k[x] = q.pre[x]
        BY <3>4, <3>5, <3>7
    <3> QED BY <3>6, <3>8
  <2>3. k # <<>>
    <3>1. CASE q.star
        BY <1>2, <2>2, <3>1, EmptySeq
    <3>2. CASE ~q.star
        BY <1>1, <1>3, <3>2
    <3> QED BY <3>1, <3>2
  <2>4. Last(k) # ""
    <3>1. Len(k) \in Nat \ {0}
        BY <1>2, <2>3, EmptySeq
    <3>2. Len(k) \in DOMAIN k
        BY <1>2, <3>1
    <3> QED BY <3>2, AnswerAssumption DEF Last
  <2> QED BY <1>1, <1>2, <1>3, <1>4, <1>6, <2>1, <2>2, <2>3, <2>4
<1> QED BY <1>5, <1>6

LEMMA LeastNatural ==
    ASSUME NEW T \in SUBSET Nat, T # {}
    PROVE  \E x \in T : \A y \in T : x <= y
<1> DEFINE R == OpToRel(<, Nat)
<1>1. IsWellFoundedOn(R, Nat)
    BY NatLessThanWellFounded
<1>2. \E x \in T : \A y \in T : ~(<<y, x>> \in R)
  <2> HIDE DEF R
  <2> QED BY <1>1, WFMin
<1>3. \A x, y \in T : ~(<<y, x>> \in R) => x <= y
    BY DEF OpToRel
<1> QED BY <1>2, <1>3, Zenon

(* A name that a '*' stands for does not go on after another with _value:  *)
(* what comes after the '*' would hold that word once too often.           *)
LEMMA NoneBelowValue ==
    ASSUME NEW q \in Query, NEW d \in VisibleBelow(q.pre), NEW e \in VisibleBelow(q.pre),
           NEW i \in Seq(STRING), i = e \o q.rest, NEW j \in Seq(STRING), j = d \o q.rest,
           Len(i) + 1 < Len(j), \A x \in 1 .. Len(i) : i[x] = j[x],
           j[Len(i) + 1] = ValueWord
    PROVE  FALSE
<1>1. /\ q.pre \in Seq(STRING) /\ q.rest \in Seq(STRING) /\ d \in Seq(STRING) /\ e \in Seq(STRING)
      /\ Len(q.pre) \in Nat /\ Len(q.rest) \in Nat /\ Len(d) \in Nat /\ Len(e) \in Nat
    BY NameAssumption, LenProperties DEF Query, VisibleBelow
<1>2. /\ Len(q.pre) < Len(e)
      /\ \A x \in 1 .. Len(d) : x > Len(q.pre) => d[x] # ValueWord
  <2>1. IsStrictPrefix(q.pre, e)
      BY DEF VisibleBelow
  <2>2. \A x \in 1 .. Len(d) : x > Len(q.pre) => d[x] \notin HiddenWord
      BY <1>1, InVisibleBelow
  <2> QED BY <1>1, <2>1, <2>2, StrictPrefixes, AnswerAssumption
<1>3. /\ Len(i) = Len(e) + Len(q.rest) /\ Len(j) = Len(d) + Len(q.rest)
      /\ \A x \in 1 .. Len(d) : j[x] = d[x]
      /\ \A x \in 1 .. Len(q.rest) : i[Len(e) + x] = q.rest[x]
      /\ \A x \in 1 .. Len(q.rest) : j[Len(d) + x] = q.rest[x]
  <2>1. /\ Len(i) = Len(e) + Len(q.rest)
        /\ \A x \in 1 .. Len(e) + Len(q.rest) :
             i[x] = IF x <= Len(e) THEN e[x] ELSE q.rest[x - Len(e)]
      BY <1>1, ConcatProperties
  <2>2. /\ Len(j) = Len(d) + Len(q.rest)
        /\ \A x \in 1 .. Len(d) + Len(q.rest) :
             j[x] = IF x <= Len(d) THEN d[x] ELSE q.rest[x - Len(d)]
      BY <1>1, ConcatProperties
  <2>3. \A n \in Nat : \A x \in 1 .. Len(q.rest) :
          n + x \in 1 .. n + Len(q.rest) /\ ~(n + x <= n) /\ n + x - n = x
      BY <1>1
  <2>4. \A x \in 1 .. Len(q.rest) : i[Len(e) + x] = q.rest[x]
      BY <1>1, <2>1, <2>3
  <2>5. \A x \in 1 .. Len(q.rest) : j[Len(d) + x] = q.rest[x]
      BY <1>1, <2>2, <2>3
  <2>6. \A x \in 1 .. Len(d) : j[x] = d[x]
      BY <1>1, <2>2
  <2> QED BY <2>1, <2>2, <2>4, <2>5, <2>6
(* _value in j after the words before the '*' is in its last part. *)
<1>4. ASSUME NEW y \in 1 .. Len(j), y > Len(q.pre), j[y] = ValueWord
      PROVE  y - Len(d) \in 1 .. Len(q.rest) /\ q.rest[y - Len(d)] = ValueWord
  <2>1. y > Len(d)
      BY <1>1, <1>2, <1>3, <1>4
  <2>2. y - Len(d) \in 1 .. Len(q.rest) /\ Len(d) + (y - Len(d)) = y
      BY <1>1, <1>3, <2>1
  <2> QED BY <1>3, <1>4, <2>2
<1> DEFINE T == {x \in 1 .. Len(q.rest) : q.rest[x] = ValueWord}
<1>5. T \in SUBSET Nat /\ T # {}
  <2>1. Len(i) + 1 \in 1 .. Len(j) /\ Len(i) + 1 > Len(q.pre)
      BY <1>1, <1>2, <1>3
  <2>2. (Len(i) + 1) - Len(d) \in T
      BY <1>4, <2>1
  <2>3. T \in SUBSET Nat
      BY <1>1
  <2> QED BY <2>2, <2>3
<1>6. PICK x \in T : \A y \in T : x <= y
  <2> HIDE DEF T
  <2> QED BY <1>5, LeastNatural
<1>7. /\ Len(e) + x \in 1 .. Len(j) /\ Len(e) + x > Len(q.pre) /\ j[Len(e) + x] = ValueWord
  <2>1. Len(e) + x \in 1 .. Len(i) /\ i[Len(e) + x] = ValueWord
      BY <1>1, <1>3
  <2>2. Len(e) + x \in 1 .. Len(j) /\ Len(e) + x > Len(q.pre)
      BY <1>1, <1>2, <1>3, <2>1
  <2> QED BY <2>1, <2>2
<1>8. (Len(e) + x) - Len(d) \in T
    BY <1>4, <1>7
<1>9. Len(e) < Len(d)
    BY <1>1, <1>3
<1> QED BY <1>1, <1>6, <1>8, <1>9

(* The path of an item is its name without the words that are left out. *)
Skip(r) == IF ~r.full /\ r.q.star /\ r.q.rest = <<>> THEN Len(r.q.pre) ELSE 0

LEMMA PathIs ==
    ASSUME NEW r \in HttpRequest, r.method = "GET", NEW k \in Matches(r.q) \cap Key,
           NEW n, n = NameOf(r, k), NEW path, path = Relative(r, n)
    PROVE  /\ Skip(r) \in Nat /\ Skip(r) < Len(n) /\ n \in Seq(STRING) /\ Len(n) \in Nat
           /\ path \in Seq(STRING) /\ path # <<>> /\ Len(path) = Len(n) - Skip(r)
           /\ \A x \in 1 .. Len(path) : path[x] = n[x + Skip(r)]
           /\ Last(path) = Last(n)
<1> DEFINE q == r.q
           m == Skip(r)
<1>1. /\ q \in Query /\ n \in Seq(STRING) /\ n # <<>> /\ k \in Seq(STRING)
      /\ q.star => Len(q.pre) < Len(n) /\ \A x \in 1 .. Len(q.pre) : n[x] = q.pre[x]
      /\ ~q.star => n = k /\ k = q.pre
  <2>1. /\ q \in Query /\ k \in Seq(STRING) /\ n \in Seq(STRING) /\ n # <<>>
        /\ ~q.star => NameOf(r, k) = k
      BY NameIs
  <2>2. q.star => Len(q.pre) < Len(n) /\ \A x \in 1 .. Len(q.pre) : n[x] = q.pre[x]
    <3>1. r.q.star => /\ Len(r.q.pre) < Len(NameOf(r, k))
                      /\ \A x \in 1 .. Len(r.q.pre) : NameOf(r, k)[x] = r.q.pre[x]
        BY NameIs
    <3> QED BY <3>1
  <2>3. ~q.star => k = q.pre
      BY NameIs
  <2> HIDE DEF q
  <2> QED BY <2>1, <2>2, <2>3
<1>2. q.pre \in Seq(STRING) /\ Len(q.pre) \in Nat /\ Len(n) \in Nat \ {0} /\ DOMAIN n = 1 .. Len(n)
    BY <1>1, EmptySeq, LenProperties DEF Query
<1>3. m \in Nat /\ m < Len(n)
    BY <1>1, <1>2 DEF Skip
<1>4. path = SubSeq(n, m + 1, Len(n))
  <2>1. SubSeq(n, 1, Len(n)) = n
      BY <1>1, SubSeqFull
  <2>2. CASE ~r.full /\ q.star /\ q.rest = <<>>
    <3>1. IsStrictPrefix(q.pre, n)
        BY <1>1, <1>2, <2>2, StrictPrefixes
    <3> QED BY <2>2, <3>1 DEF Relative, Base, Skip
  <2>3. CASE ~r.full /\ q.star /\ q.rest # <<>>
    <3>1. Base(r) = <<>> /\ m = 0 /\ Len(<<>>) = 0
        BY <2>3 DEF Base, Skip
    <3> QED BY <2>1, <2>3, <3>1 DEF Relative
  <2>4. CASE r.full
      BY <2>1, <2>4 DEF Relative, Skip
  <2>5. CASE ~q.star
    <3>1. Base(r) = n /\ m = 0
        BY <1>1, <2>5 DEF Base, Skip
    <3>2. ~IsStrictPrefix(n, n)
        BY DEF IsStrictPrefix
    <3> QED BY <2>1, <3>1, <3>2 DEF Relative
  <2> QED BY <1>1, <2>2, <2>3, <2>4, <2>5 DEF Query
<1> HIDE DEF m
<1>5. /\ path \in Seq(STRING) /\ Len(path) = Len(n) - m
      /\ \A x \in 1 .. Len(n) - m : path[x] = n[x + m]
  <2> DEFINE z == Len(n)
  <2>1. z \in Nat /\ m + 1 \in Int /\ z \in Int /\ m + 1 <= z /\ \A x \in m + 1 .. z : n[x] \in STRING
      BY <1>1, <1>2, <1>3
  <2> HIDE DEF z
  <2>2. /\ SubSeq(n, m + 1, z) \in Seq(STRING)
        /\ Len(SubSeq(n, m + 1, z)) = z - (m + 1) + 1
        /\ \A x \in 1 .. z - (m + 1) + 1 : SubSeq(n, m + 1, z)[x] = n[(m + 1) + x - 1]
      BY <2>1, SubSeqProperties
  <2>3. z - (m + 1) + 1 = z - m /\ \A x \in 1 .. z - m : (m + 1) + x - 1 = x + m
      BY <1>3, <2>1
  <2>4. path = SubSeq(n, m + 1, z)
      BY <1>4 DEF z
  <2> QED BY <2>2, <2>3, <2>4 DEF z
<1>6. path # <<>> /\ Last(path) = Last(n)
  <2> DEFINE z == Len(n)
             y == z - m
  <2>0. z \in Nat /\ m \in Nat /\ m < z
      BY <1>2, <1>3
  <2> HIDE DEF z
  <2>1. y \in Nat /\ y # 0 /\ y + m = z
      BY <2>0
  <2>2. y = Len(path) /\ \A x \in 1 .. y : path[x] = n[x + m]
      BY <1>5 DEF z
  <2> HIDE DEF y
  <2>3. y \in 1 .. y
      BY <2>1
  <2>4. path # <<>>
      BY <1>5, <2>1, <2>2, EmptySeq
  <2>5. path[y] = n[z]
      BY <2>1, <2>2, <2>3
  <2> QED BY <2>2, <2>4, <2>5 DEF Last, z
<1> QED BY <1>1, <1>2, <1>3, <1>5, <1>6 DEF m

(* What a GET has found, and what is to be inserted for it. *)
Tellable(acc) ==
    /\ \A a \in acc : a.val \in Value /\ (a.key # <<>> => Last(a.key) # ValueWord)
    /\ \A a, b \in acc : a.key = b.key => a = b

FoundInv(r, found) ==
    /\ r \in HttpRequest /\ r.method = "GET"
    /\ Tellable(found)
    /\ \A a \in found : a = [key |-> a.key, val |-> a.val] /\ a.key \in Matches(r.q) \cap Key

PathOf(r, a) == Relative(r, NameOf(r, a.key))

ItemOf(r, a) == [path |-> PathOf(r, a), val |-> a.val]

ItemsOf(r, found) == {ItemOf(r, a) : a \in found}

LEMMA OwnName ==
    ASSUME NEW r, NEW k \in Key, r.q.star, k = r.q.pre
    PROVE  Last(NameOf(r, k)) = "" /\ Len(NameOf(r, k)) = Len(k) + 1
<1> DEFINE e == ""
<1>1. e \in STRING /\ k \in Seq(STRING) /\ NameOf(r, k) = Append(k, e)
    BY AnswerAssumption, NameAssumption DEF NameOf
<1> HIDE DEF e
<1>2. Last(Append(k, e)) = e /\ Len(Append(k, e)) = Len(k) + 1
    BY <1>1, Appended
<1> QED BY <1>1, <1>2 DEF e

LEMMA SameName ==
    ASSUME NEW r \in HttpRequest, r.method = "GET",
           NEW k \in Matches(r.q) \cap Key, NEW l \in Matches(r.q) \cap Key,
           NameOf(r, k) = NameOf(r, l)
    PROVE  k = l
<1> DEFINE own(j) == r.q.star /\ j = r.q.pre
           e == ""
<1>1. \A j \in Matches(r.q) \cap Key : own(j) => Last(NameOf(r, j)) = e
    BY OwnName
<1>2. \A j \in Matches(r.q) \cap Key : ~own(j) => NameOf(r, j) = j /\ Last(j) # e
    BY NameIs
<1>3. own(k) /\ own(l) => k = l
    OBVIOUS
<1> HIDE DEF own, e
<1> QED BY <1>1, <1>2, <1>3

(* Paths that begin alike are those of names that do. *)
LEMMA AlikeNames ==
    ASSUME NEW r \in HttpRequest, r.method = "GET",
           NEW k \in Matches(r.q) \cap Key, NEW l \in Matches(r.q) \cap Key,
           NEW n, n = NameOf(r, k), NEW path, path = Relative(r, n),
           NEW o, o = NameOf(r, l), NEW other, other = Relative(r, o),
           Len(path) <= Len(other), \A x \in 1 .. Len(path) : path[x] = other[x]
    PROVE  \A x \in 1 .. Len(n) : n[x] = o[x]
<1> DEFINE m == Skip(r)
<1>1. /\ m \in Nat /\ Len(n) \in Nat /\ Len(o) \in Nat
      /\ Len(path) = Len(n) - m /\ \A x \in 1 .. Len(path) : path[x] = n[x + m]
      /\ Len(other) = Len(o) - m /\ \A x \in 1 .. Len(other) : other[x] = o[x + m]
    BY PathIs
<1>2. \A x \in 1 .. m : n[x] = o[x]
  <2>1. CASE r.q.star
    <3>1. Len(r.q.pre) \in Nat
        BY NameIs, LenProperties DEF Query
    <3>2. \A x \in 1 .. Len(r.q.pre) : n[x] = r.q.pre[x] /\ o[x] = r.q.pre[x]
        BY <2>1, NameIs
    <3> QED BY <3>1, <3>2 DEF Skip
  <2>2. CASE ~r.q.star
      BY <2>2 DEF Skip
  <2> QED BY <2>1, <2>2
<1> HIDE DEF m
<1>3. ASSUME NEW x \in 1 .. Len(n), x > m PROVE n[x] = o[x]
  <2> DEFINE y == x - m
  <2>1. y \in 1 .. Len(path) /\ y \in 1 .. Len(other) /\ y + m = x
      BY <1>1, <1>3
  <2> HIDE DEF y
  <2> QED BY <1>1, <2>1
<1> QED BY <1>1, <1>2, <1>3

LEMMA SamePath ==
    ASSUME NEW r \in HttpRequest, r.method = "GET",
           NEW k \in Matches(r.q) \cap Key, NEW l \in Matches(r.q) \cap Key,
           Relative(r, NameOf(r, k)) = Relative(r, NameOf(r, l))
    PROVE  k = l
<1> DEFINE n == NameOf(r, k)
           o == NameOf(r, l)
           path == Relative(r, n)
<1>1. path = Relative(r, o)
    OBVIOUS
<1>2. /\ n \in Seq(STRING) /\ o \in Seq(STRING) /\ Skip(r) \in Nat
      /\ Len(n) \in Nat /\ Len(o) \in Nat
      /\ Len(path) = Len(n) - Skip(r) /\ Len(path) = Len(o) - Skip(r)
    BY <1>1, PathIs
<1>3. Len(n) = Len(o) /\ Len(path) <= Len(path)
    BY <1>2
<1>4. \A x \in 1 .. Len(n) : n[x] = o[x]
    BY <1>1, <1>3, AlikeNames
<1>5. n = o
  <2> HIDE DEF n, o
  <2> QED BY <1>2, <1>3, <1>4, SeqEqual
<1> QED BY <1>5, SameName

(* No name is in the way of the value that another one has below it. *)
LEMMA NamesInTheWay ==
    ASSUME NEW r \in HttpRequest, r.method = "GET",
           NEW k \in Matches(r.q) \cap Key, NEW l \in Matches(r.q) \cap Key,
           NEW n, n = NameOf(r, k), NEW o, o = NameOf(r, l),
           Len(n) + 1 < Len(o), \A x \in 1 .. Len(n) : n[x] = o[x],
           o[Len(n) + 1] = ValueWord
    PROVE  FALSE
<1> DEFINE q == r.q
<1>1. /\ q \in Query /\ n \in Seq(STRING) /\ o \in Seq(STRING)
      /\ k \in Seq(STRING) /\ l \in Seq(STRING)
    BY NameIs
<1>2. /\ q.pre \in Seq(STRING) /\ Len(q.pre) \in Nat /\ Len(n) \in Nat /\ Len(o) \in Nat
      /\ DOMAIN l = 1 .. Len(l)
    BY <1>1, LenProperties DEF Query
<1>3. CASE ~q.star
  <2>1. n = k /\ o = l
      BY <1>3, NameIs
  <2>2. k = q.pre /\ l = q.pre
      BY <1>3, NameIs
  <2>3. Len(n) = Len(o)
      BY <2>1, <2>2
  <2> QED BY <1>2, <2>3
<1>4. CASE q.star /\ k = q.pre
  <2>0. Last(n) = ""
      BY <1>4, OwnName
  <2>1. Len(n) = Len(q.pre) + 1
      BY <1>4, OwnName
  <2>2. CASE l = q.pre
    <3>1. Len(o) = Len(q.pre) + 1
        BY <1>4, <2>2, OwnName
    <3>2. Len(n) = Len(o)
        BY <2>1, <3>1
    <3> QED BY <1>2, <3>2
  <2>3. CASE l # q.pre
    <3>1. o = l
        BY <2>3, NameIs
    <3>2. Len(n) \in 1 .. Len(o) /\ Len(n) \in 1 .. Len(n)
        BY <1>2, <2>1
    <3>4. Len(n) \in DOMAIN l
        BY <1>2, <3>1, <3>2
    <3>3. l[Len(n)] = ""
        BY <2>0, <3>1, <3>2 DEF Last
    <3> QED BY <3>4, <3>3, AnswerAssumption
  <2> QED BY <2>2, <2>3
<1>5. CASE q.star /\ k # q.pre /\ l = q.pre
  <2>1. Len(o) = Len(q.pre) + 1
      BY <1>5, OwnName
  <2>2. Len(q.pre) < Len(n)
      BY <1>5, NameIs
  <2> QED BY <1>2, <2>1, <2>2
<1>6. CASE q.star /\ k # q.pre /\ l # q.pre
  <2>1. n = k /\ o = l
      BY <1>6, NameIs
  <2>2. PICK e \in VisibleBelow(q.pre) : k = e \o q.rest
      BY <1>6, NameIs
  <2>3. PICK d \in VisibleBelow(q.pre) : l = d \o q.rest
      BY <1>6, NameIs
  <2> QED BY <1>1, <2>1, <2>2, <2>3, NoneBelowValue
<1> QED BY <1>3, <1>4, <1>5, <1>6

LEMMA PathsInTheWay ==
    ASSUME NEW r \in HttpRequest, r.method = "GET",
           NEW k \in Matches(r.q) \cap Key, NEW l \in Matches(r.q) \cap Key,
           NEW n, n = NameOf(r, k), NEW path, path = Relative(r, n),
           NEW o, o = NameOf(r, l), NEW other, other = Relative(r, o),
           Append(path, ValueWord) \in OnTheWay(other)
    PROVE  FALSE
<1> DEFINE m == Skip(r)
           u == Append(path, ValueWord)
<1>1. /\ m \in Nat /\ Len(n) \in Nat /\ Len(o) \in Nat /\ m < Len(n) /\ m < Len(o)
      /\ path \in Seq(STRING) /\ other \in Seq(STRING)
      /\ Len(path) = Len(n) - m
      /\ Len(other) = Len(o) - m /\ \A x \in 1 .. Len(other) : other[x] = o[x + m]
    BY PathIs
<1>2. /\ u \in Seq(STRING) /\ Len(u) = Len(path) + 1
      /\ (\A x \in 1 .. Len(path) : u[x] = path[x]) /\ Last(u) = ValueWord
    BY <1>1, ValueWordIs, Appended
<1>3. Len(u) < Len(other) /\ \A x \in 1 .. Len(u) : u[x] = other[x]
  <2>1. u \in OnTheWay(other) /\ other \in Seq(STRING)
      BY <1>1
  <2> HIDE DEF u
  <2> QED BY <2>1, InOnTheWay
<1> HIDE DEF m, u
<1>4. Len(path) <= Len(other) /\ \A x \in 1 .. Len(path) : path[x] = other[x]
    BY <1>1, <1>2, <1>3
<1>5. \A x \in 1 .. Len(n) : n[x] = o[x]
    BY <1>4, AlikeNames
<1>6. Len(n) + 1 < Len(o)
    BY <1>1, <1>2, <1>3
<1>7. o[Len(n) + 1] = ValueWord
  <2>1. /\ Len(u) \in 1 .. Len(u) /\ Len(u) \in 1 .. Len(other) /\ Len(u) + m = Len(n) + 1
      BY <1>1, <1>2, <1>3
  <2>2. u[Len(u)] = ValueWord
      BY <1>2 DEF Last
  <2>3. other[Len(u)] = ValueWord
      BY <1>3, <2>1, <2>2
  <2> QED BY <1>1, <2>1, <2>3
<1> QED BY <1>5, <1>6, <1>7, NamesInTheWay

LEMMA ItemsAreInsertable ==
    ASSUME NEW r, NEW found, FoundInv(r, found)
    PROVE  Insertable(ItemsOf(r, found))
<1>1. /\ r \in HttpRequest /\ r.method = "GET"
      /\ \A a \in found : /\ a.key \in Matches(r.q) \cap Key /\ a.val \in Value
                          /\ a.key # <<>> => Last(a.key) # ValueWord
      /\ \A a, b \in found : a.key = b.key => a = b
    BY DEF FoundInv, Tellable
<1>2. ASSUME NEW a \in found
      PROVE  /\ PathOf(r, a) \in Seq(STRING) /\ PathOf(r, a) # <<>>
             /\ Last(PathOf(r, a)) # ValueWord /\ a.val # Object
  <2>1. PathOf(r, a) \in Seq(STRING) /\ PathOf(r, a) # <<>>
        /\ Last(PathOf(r, a)) = Last(NameOf(r, a.key))
      BY <1>1, PathIs DEF PathOf
  <2>2. Last(NameOf(r, a.key)) # ValueWord
    <3>1. CASE r.q.star /\ a.key = r.q.pre
      <4>1. Last(NameOf(r, a.key)) = ""
          BY <1>1, <3>1, OwnName
      <4> QED BY <4>1, ValueWordIs
    <3>2. CASE ~(r.q.star /\ a.key = r.q.pre)
      <4>1. NameOf(r, a.key) = a.key /\ a.key # <<>>
        <5>1. NameOf(r, a.key) # <<>>
            BY <1>1, NameIs
        <5>2. NameOf(r, a.key) = a.key
            BY <3>2 DEF NameOf
        <5> QED BY <5>1, <5>2
      <4> QED BY <1>1, <4>1
    <3> QED BY <3>1, <3>2
  <2> QED BY <1>1, <2>1, <2>2, AnswerAssumption
<1>3. ASSUME NEW a \in found, NEW b \in found, PathOf(r, a) = PathOf(r, b)
      PROVE  a = b
  <2>1. a.key = b.key
      BY <1>1, <1>3, SamePath DEF PathOf
  <2> QED BY <1>1, <2>1
<1>4. ASSUME NEW a \in found, NEW b \in found
      PROVE  Append(PathOf(r, a), ValueWord) \notin OnTheWay(PathOf(r, b))
    BY <1>1, PathsInTheWay DEF PathOf
<1>5. \A i \in ItemsOf(r, found) : \E a \in found : i.path = PathOf(r, a) /\ i.val = a.val
                                                    /\ i = ItemOf(r, a)
    BY DEF ItemsOf, ItemOf
<1> QED BY <1>2, <1>3, <1>4, <1>5 DEF Insertable

(* The paths in the tree, and their words: none is the place of an element *)
(* of an array, and what is above a path is in the tree too.               *)
Readable(I) == \A i \in I : \A x \in 1 .. Len(i.path) :
    x < Len(i.path) \/ Last(i.path) # "" => i.path[x] \notin Range(Slot)

LEMMA FirstWords ==
    ASSUME NEW q \in Seq(STRING), NEW x \in 1 .. Len(q)
    PROVE  /\ SubSeq(q, 1, x) \in Seq(STRING) /\ SubSeq(q, 1, x) # <<>>
           /\ Len(SubSeq(q, 1, x)) = x
           /\ \A y \in 1 .. x : SubSeq(q, 1, x)[y] = q[y]
           /\ Last(SubSeq(q, 1, x)) = q[x]
           /\ Front(SubSeq(q, 1, x)) = SubSeq(q, 1, x - 1)
<1>0. Len(q) \in Nat /\ x \in Nat /\ x # 0 /\ x <= Len(q)
      /\ \A y \in 1 .. x : q[y] \in STRING
    BY LenProperties
<1> DEFINE s == SubSeq(q, 1, x)
<1>1. s \in Seq(STRING) /\ Len(s) = x /\ \A y \in 1 .. x : s[y] = q[y]
    BY <1>0, SubSeqProperties
<1>2. s # <<>> /\ Last(s) = q[x]
  <2> HIDE DEF s
  <2> QED BY <1>0, <1>1, EmptySeq DEF Last
<1>3. Front(s) = SubSeq(q, 1, x - 1)
  <2> DEFINE m == x - 1
             u == SubSeq(s, 1, m)
             w == SubSeq(q, 1, m)
  <2>1. m \in Nat /\ m \in Int /\ \A y \in 1 .. m : y \in 1 .. x
      BY <1>0
  <2>2. \A y \in 1 .. m : q[y] \in STRING /\ s[y] = q[y] /\ s[y] \in STRING
      BY <1>0, <1>1, <2>1
  <2>3. Front(s) = SubSeq(s, 1, m)
      BY <1>1 DEF Front
  <2> HIDE DEF s, m
  <2>4. u \in Seq(STRING) /\ Len(u) = m /\ \A y \in 1 .. m : u[y] = s[y]
      BY <2>1, <2>2, SubSeqProperties
  <2>5. w \in Seq(STRING) /\ Len(w) = m /\ \A y \in 1 .. m : w[y] = q[y]
      BY <2>1, <2>2, SubSeqProperties
  <2> HIDE DEF u, w
  <2>6. u = w
      BY <2>2, <2>4, <2>5, SeqEqual
  <2> QED BY <2>3, <2>6 DEF u, w, m
<1> QED BY <1>1, <1>2, <1>3

MadeBy(i, t, q) ==
    \/ q \in OnTheWay(i.path)
    \/ q = i.path /\ Last(i.path) # ""
    \/ q = Append(i.path, ValueWord) /\ i.path \in DOMAIN t /\ Last(i.path) # ""

LEMMA InTree ==
    ASSUME NEW I, NEW t, IsJson(t, I), NEW q \in DOMAIN t
    PROVE  \E i \in I : MadeBy(i, t, q)
<1>1. DOMAIN t = ObjectsOf(I) \cup {PlaceIn(I, i) : i \in Real(I)}
    BY DEF IsJson
<1>2. CASE q \in ObjectsOf(I)
    BY <1>2 DEF ObjectsOf, MadeBy
<1>3. CASE q \notin ObjectsOf(I)
  <2>1. PICK i \in Real(I) : q = PlaceIn(I, i)
      BY <1>1, <1>3
  <2>2. i \in I /\ Last(i.path) # ""
      BY DEF Real
  <2>3. i.path \in ObjectsOf(I) => i.path \in DOMAIN t
      BY <1>1
  <2>4. \/ q = i.path
        \/ q = Append(i.path, ValueWord) /\ i.path \in DOMAIN t
      BY <2>1, <2>3 DEF PlaceIn
  <2> QED BY <2>2, <2>4 DEF MadeBy
<1> QED BY <1>2, <1>3

LEMMA TreePaths ==
    ASSUME NEW I, Insertable(I), Readable(I), NEW t, IsJson(t, I), NEW q \in DOMAIN t
    PROVE  /\ q \in Seq(STRING) /\ q # <<>>
           /\ \A x \in 1 .. Len(q) : q[x] \notin Range(Slot) /\ SubSeq(q, 1, x) \in DOMAIN t
<1>1. PICK i \in I : MadeBy(i, t, q)
    BY InTree
<1> DEFINE path == i.path
<1>2. path \in Seq(STRING) /\ path # <<>> /\ Len(path) \in Nat
    BY LenProperties DEF Insertable
<1>3. OnTheWay(path) \subseteq DOMAIN t
    BY DEF IsJson, ObjectsOf
<1>4. \A x \in 1 .. Len(path) : x < Len(path) \/ Last(path) # "" => path[x] \notin Range(Slot)
    BY DEF Readable
<1> HIDE DEF path
<1>5. ASSUME NEW s \in Seq(STRING), s # <<>>, Len(s) < Len(path),
             \A x \in 1 .. Len(s) : s[x] = path[x]
      PROVE  s \in DOMAIN t
    BY <1>2, <1>3, <1>5, InOnTheWay
<1>6. CASE q \in OnTheWay(path)
  <2>1. q \in Seq(STRING) /\ q # <<>> /\ Len(q) < Len(path) /\ Len(q) \in Nat
        /\ \A x \in 1 .. Len(q) : q[x] = path[x]
      BY <1>2, <1>6, InOnTheWay, LenProperties
  <2>2. ASSUME NEW x \in 1 .. Len(q)
        PROVE  q[x] \notin Range(Slot) /\ SubSeq(q, 1, x) \in DOMAIN t
    <3>1. x \in 1 .. Len(path) /\ x < Len(path) /\ \A y \in 1 .. x : y \in 1 .. Len(q)
        BY <1>2, <2>1
    <3>2. q[x] \notin Range(Slot)
        BY <1>4, <2>1, <3>1
    <3> DEFINE s == SubSeq(q, 1, x)
    <3>3. s \in Seq(STRING) /\ s # <<>> /\ Len(s) = x /\ \A y \in 1 .. x : s[y] = q[y]
        BY <2>1, FirstWords
    <3> HIDE DEF s
    <3>4. s \in DOMAIN t
        BY <1>5, <2>1, <3>1, <3>3
    <3> QED BY <3>2, <3>4 DEF s
  <2> QED BY <2>1, <2>2
<1>7. CASE q = path /\ Last(path) # ""
  <2>1. ASSUME NEW x \in 1 .. Len(q)
        PROVE  q[x] \notin Range(Slot) /\ SubSeq(q, 1, x) \in DOMAIN t
    <3>1. q[x] \notin Range(Slot)
        BY <1>4, <1>7
    <3> DEFINE s == SubSeq(q, 1, x)
    <3>2. s \in Seq(STRING) /\ s # <<>> /\ Len(s) = x /\ \A y \in 1 .. x : s[y] = q[y]
        BY <1>2, <1>7, FirstWords
    <3>3. CASE x < Len(path)
      <4> HIDE DEF s
      <4> QED BY <1>5, <1>7, <3>1, <3>2, <3>3 DEF s
    <3>4. CASE x = Len(path)
      <4>1. s = q
          BY <1>2, <1>7, <3>4, SubSeqFull
      <4> QED BY <3>1, <4>1
    <3>5. x \in 1 .. Len(path)
        BY <1>7
    <3>6. x < Len(path) \/ x = Len(path)
        BY <1>2, <3>5
    <3> QED BY <3>3, <3>4, <3>6
  <2> QED BY <1>2, <1>7, <2>1
<1>8. CASE q = Append(path, ValueWord) /\ path \in DOMAIN t /\ Last(path) # ""
  <2>1. /\ q \in Seq(STRING) /\ q # <<>> /\ Len(q) = Len(path) + 1
        /\ \A x \in 1 .. Len(path) : q[x] = path[x]
        /\ Last(q) = ValueWord
      BY <1>2, <1>8, ValueWordIs, Appended
  <2>2. ASSUME NEW x \in 1 .. Len(q)
        PROVE  q[x] \notin Range(Slot) /\ SubSeq(q, 1, x) \in DOMAIN t
    <3> DEFINE s == SubSeq(q, 1, x)
    <3>1. s \in Seq(STRING) /\ s # <<>> /\ Len(s) = x /\ \A y \in 1 .. x : s[y] = q[y]
        BY <2>1, FirstWords
    <3>2. CASE x = Len(q)
      <4>1. s = q
          BY <2>1, <3>2, SubSeqFull
      <4>2. q[x] = ValueWord
          BY <2>1, <3>2 DEF Last
      <4> QED BY <4>1, <4>2, AnswerAssumption
    <3>3. CASE x # Len(q)
      <4>1. x \in 1 .. Len(path) /\ x <= Len(path) /\ \A y \in 1 .. x : y \in 1 .. Len(path)
          BY <1>2, <2>1, <3>3
      <4>2. q[x] \notin Range(Slot)
          BY <1>4, <1>8, <2>1, <4>1
      <4>3. \A y \in 1 .. x : s[y] = path[y]
          BY <2>1, <3>1, <4>1
      <4> HIDE DEF s
      <4>4. CASE x = Len(path)
        <5>1. s = path
            BY <1>2, <3>1, <4>3, <4>4, SeqEqual
        <5> QED BY <1>8, <4>2, <5>1 DEF s
      <4>5. CASE x < Len(path)
        <5>1. s \in DOMAIN t
            BY <1>5, <3>1, <4>3, <4>5
        <5> QED BY <4>2, <5>1 DEF s
      <4> QED BY <1>2, <4>1, <4>4, <4>5
    <3> QED BY <3>2, <3>3
  <2> QED BY <2>1, <2>2
<1> QED BY <1>1, <1>6, <1>7, <1>8 DEF path, MadeBy

(* Reading a path in which arrays have taken the place of objects. *)
LEMMA WordOfSlot ==
    ASSUME NEW k \in DOMAIN Index
    PROVE  /\ Slot[Index[k] + 1] \in Range(Slot) /\ Slot[Index[k] + 1] \in STRING
           /\ WordAt(Slot[Index[k] + 1]) = k
<1> DEFINE w == Slot[Index[k] + 1]
<1>0. Index[k] + 1 \in DOMAIN Slot /\ Slot \in Seq(STRING)
    BY AnswerAssumption
<1>1. w \in Range(Slot) /\ w \in STRING
  <2>1. \A i \in DOMAIN Slot : Slot[i] \in Range(Slot)
      BY DEF Range
  <2>2. \A i \in DOMAIN Slot : Slot[i] \in STRING
      BY <1>0, LenProperties
  <2> QED BY <1>0, <2>1, <2>2
<1>2. \A j \in DOMAIN Index : Slot[Index[j] + 1] = w => j = k
  <2> SUFFICES ASSUME NEW j \in DOMAIN Index, Slot[Index[j] + 1] = w PROVE j = k
      OBVIOUS
  <2>1. Index[j] + 1 = Index[k] + 1 /\ Index[j] \in Nat /\ Index[k] \in Nat
      BY AnswerAssumption
  <2>2. Index[j] = Index[k]
      BY <2>1
  <2> QED BY <2>2, AnswerAssumption
<1>3. (CHOOSE j \in DOMAIN Index : Slot[Index[j] + 1] = w) = k
    BY <1>2
<1> QED BY <1>1, <1>3 DEF WordAt

LEMMA PlacedReads ==
    ASSUME NEW I, Insertable(I), Readable(I), NEW t, IsJson(t, I),
           NEW arrays \in SUBSET Arrayable(t), NEW q \in DOMAIN t, NEW z, z = Placed(q, arrays)
    PROVE  /\ z # <<>> /\ DOMAIN z = 1 .. Len(q) /\ q \in Seq(STRING) /\ q # <<>>
           /\ \A x \in 1 .. Len(q) : WordAt(z[x]) = q[x]
           /\ Named(z) = IF Last(q) = ValueWord THEN Front(q) ELSE q
<1>1. /\ q \in Seq(STRING) /\ q # <<>>
      /\ \A x \in 1 .. Len(q) : q[x] \notin Range(Slot) /\ SubSeq(q, 1, x) \in DOMAIN t
    BY TreePaths
<1>2. /\ Len(q) \in Nat \ {0} /\ DOMAIN q = 1 .. Len(q) /\ q = [x \in 1 .. Len(q) |-> q[x]]
      /\ \A x \in 1 .. Len(q) : q[x] \in STRING
    BY <1>1, EmptySeq, LenProperties
<1>3. z = [x \in 1 .. Len(q) |-> IF SubSeq(q, 1, x - 1) \in arrays
                                 THEN Slot[Index[q[x]] + 1] ELSE q[x]]
    BY <1>2 DEF Placed
<1>4. ASSUME NEW x \in 1 .. Len(q), SubSeq(q, 1, x - 1) \in arrays
      PROVE  q[x] \in DOMAIN Index
  <2> DEFINE m == SubSeq(q, 1, x - 1)
             s == SubSeq(q, 1, x)
  <2>1. s \in DOMAIN t /\ Front(s) = m /\ Last(s) = q[x]
      BY <1>1, FirstWords
  <2>2. m \in Arrayable(t)
      BY <1>4
  <2> HIDE DEF m, s
  <2>3. KeysAt(t, m) \subseteq DOMAIN Index
      BY <2>2 DEF Arrayable
  <2>4. q[x] \in KeysAt(t, m)
      BY <2>1 DEF KeysAt
  <2> QED BY <2>3, <2>4
<1>5. ASSUME NEW x \in 1 .. Len(q)
      PROVE  WordAt(z[x]) = q[x] /\ z[x] \in STRING /\ (z[x] = ValueWord <=> q[x] = ValueWord)
  <2>1. CASE SubSeq(q, 1, x - 1) \in arrays
    <3> DEFINE w == Slot[Index[q[x]] + 1]
    <3>1. z[x] = w
        BY <1>3, <2>1
    <3>2. q[x] \in DOMAIN Index
        BY <1>4, <2>1
    <3>3. w \in Range(Slot) /\ w \in STRING /\ WordAt(w) = q[x]
        BY <3>2, WordOfSlot
    <3> HIDE DEF w
    <3> QED BY <3>1, <3>2, <3>3, AnswerAssumption
  <2>2. CASE SubSeq(q, 1, x - 1) \notin arrays
    <3>1. z[x] = q[x]
        BY <1>3, <2>2
    <3>2. WordAt(q[x]) = q[x]
        BY <1>1 DEF WordAt
    <3> QED BY <1>2, <3>1, <3>2
  <2> QED BY <2>1, <2>2
<1>6. DOMAIN z = 1 .. Len(q)
    BY <1>3
<1>7. z \in Seq(STRING) /\ Len(z) = Len(q)
  <2>1. z \in [1 .. Len(q) -> STRING]
    <3>1. z = [x \in 1 .. Len(q) |-> z[x]]
        BY <1>3
    <3> QED BY <1>5, <3>1
  <2> QED BY <1>2, <2>1
<1>8. z # <<>>
    BY <1>2, <1>7, EmptySeq
<1>9. Last(z) = ValueWord <=> Last(q) = ValueWord
  <2>1. Len(q) \in 1 .. Len(q)
      BY <1>2
  <2> QED BY <1>5, <1>7, <2>1 DEF Last
<1>10. [x \in DOMAIN z |-> WordAt(z[x])] = q
  <2>1. \A x \in 1 .. Len(q) : WordAt(z[x]) = q[x]
      BY <1>5
  <2> QED BY <1>2, <1>6, <2>1
<1>11. Named(z) = IF Last(q) = ValueWord THEN Front(q) ELSE q
    BY <1>8, <1>9, <1>10 DEF Named
<1> QED BY <1>1, <1>5, <1>6, <1>8, <1>11

LEMMA PlacedOnce ==
    ASSUME NEW I, Insertable(I), Readable(I), NEW t, IsJson(t, I),
           NEW arrays \in SUBSET Arrayable(t), NEW q \in DOMAIN t, NEW r \in DOMAIN t,
           Placed(q, arrays) = Placed(r, arrays)
    PROVE  q = r
<1> DEFINE z == Placed(q, arrays)
<1>1. /\ DOMAIN z = 1 .. Len(q) /\ q \in Seq(STRING)
      /\ \A x \in 1 .. Len(q) : WordAt(z[x]) = q[x]
    BY PlacedReads
<1>2. /\ DOMAIN z = 1 .. Len(r) /\ r \in Seq(STRING)
      /\ \A x \in 1 .. Len(r) : WordAt(z[x]) = r[x]
  <2>1. z = Placed(r, arrays)
      OBVIOUS
  <2> QED BY <2>1, PlacedReads
<1> HIDE DEF z
<1>3. Len(q) \in Nat /\ Len(r) \in Nat
    BY <1>1, <1>2, LenProperties
<1>4. Len(q) = Len(r)
    BY <1>1, <1>2, <1>3
<1>5. \A x \in 1 .. Len(q) : q[x] = r[x]
    BY <1>1, <1>2, <1>4
<1> QED BY <1>1, <1>2, <1>4, <1>5, SeqEqual

(* What a JSON says, whether its objects have become arrays or not. *)
ToldBy(c, json) ==
    {[key |-> c \o Named(q), val |-> json[q]] : q \in {q \in DOMAIN json : json[q] # Object}}

LEMMA ArraysTellAll ==
    ASSUME NEW I, Insertable(I), Readable(I), NEW t, IsJson(t, I),
           NEW arrays \in SUBSET Arrayable(t), NEW c
    PROVE  ToldBy(c, normalizeArrays(t, arrays))
             = {[key |-> c \o i.path, val |-> i.val] : i \in Real(I)}
<1> DEFINE u == normalizeArrays(t, arrays)
           P(q) == Placed(q, arrays)
<1>1. DOMAIN u = {P(q) : q \in DOMAIN t}
    BY DEF normalizeArrays
<1>2. ASSUME NEW q \in DOMAIN t PROVE u[P(q)] = t[q]
  <2>1. u[P(q)] = t[CHOOSE r \in DOMAIN t : P(r) = P(q)]
      BY DEF normalizeArrays
  <2>2. \A r \in DOMAIN t : P(r) = P(q) => r = q
      BY PlacedOnce
  <2>3. (CHOOSE r \in DOMAIN t : P(r) = P(q)) = q
    <3> HIDE DEF P
    <3> QED BY <2>2
  <2> QED BY <2>1, <2>3
<1>3. ASSUME NEW q \in DOMAIN t
      PROVE  Named(P(q)) = IF Last(q) = ValueWord THEN Front(q) ELSE q
    BY PlacedReads
<1>4. ASSUME NEW i \in Real(I)
      PROVE  /\ PlaceIn(I, i) \in DOMAIN t /\ t[PlaceIn(I, i)] = i.val /\ i.val # Object
             /\ Named(P(PlaceIn(I, i))) = i.path
  <2>1. i \in I /\ i.val # Object /\ i.path \in Seq(STRING) /\ Last(i.path) # ValueWord
      BY DEF Real, Insertable
  <2>2. Last(Append(i.path, ValueWord)) = ValueWord /\ Front(Append(i.path, ValueWord)) = i.path
      BY <2>1, ValueWordIs, Appended
  <2>3. PlaceIn(I, i) \in DOMAIN t /\ t[PlaceIn(I, i)] = i.val
      BY DEF IsJson
  <2>4. (IF Last(PlaceIn(I, i)) = ValueWord THEN Front(PlaceIn(I, i)) ELSE PlaceIn(I, i)) = i.path
      BY <2>1, <2>2 DEF PlaceIn
  <2> HIDE DEF P
  <2> QED BY <1>3, <2>1, <2>3, <2>4
<1>5. ASSUME NEW q \in DOMAIN t, t[q] # Object PROVE \E i \in Real(I) : q = PlaceIn(I, i)
    BY <1>5 DEF IsJson
<1> HIDE DEF u, P
<1>6. {q \in DOMAIN u : u[q] # Object} = {P(PlaceIn(I, i)) : i \in Real(I)}
  <2>1. ASSUME NEW q \in DOMAIN u, u[q] # Object
        PROVE  \E i \in Real(I) : q = P(PlaceIn(I, i))
    <3>1. PICK r \in DOMAIN t : q = P(r)
        BY <1>1
    <3>2. t[r] # Object
        BY <1>2, <2>1, <3>1
    <3> QED BY <1>5, <3>1, <3>2
  <2>2. ASSUME NEW i \in Real(I)
        PROVE  P(PlaceIn(I, i)) \in DOMAIN u /\ u[P(PlaceIn(I, i))] # Object
      BY <1>1, <1>2, <1>4
  <2> QED BY <2>1, <2>2
<1> DEFINE S == {P(PlaceIn(I, i)) : i \in Real(I)}
           Told(q) == [key |-> c \o Named(q), val |-> u[q]]
           Tell(i) == [key |-> c \o i.path, val |-> i.val]
<1>7. \A i \in Real(I) : Told(P(PlaceIn(I, i))) = Tell(i)
    BY <1>2, <1>4
<1>8. ToldBy(c, u) = {Told(q) : q \in S}
    BY <1>6 DEF ToldBy
<1>9. ToldBy(c, u) = {Tell(i) : i \in Real(I)}
  <2> HIDE DEF Told, Tell
  <2>1. {Told(q) : q \in S} = {Tell(i) : i \in Real(I)}
      BY <1>7
  <2> QED BY <1>8, <2>1
<1> QED BY <1>9 DEF u

LEMMA ItemsAreReadable ==
    ASSUME NEW r, NEW found, FoundInv(r, found)
    PROVE  Readable(ItemsOf(r, found))
<1>1. /\ r \in HttpRequest /\ r.method = "GET"
      /\ \A a \in found : a.key \in Matches(r.q) \cap Key
    BY DEF FoundInv
<1>2. ASSUME NEW a \in found, NEW path, path = PathOf(r, a), NEW x \in 1 .. Len(path),
             x < Len(path) \/ Last(path) # ""
      PROVE  path[x] \notin Range(Slot)
  <2> DEFINE k == a.key
             n == NameOf(r, k)
             m == Skip(r)
             y == x + m
  <2>p. path = Relative(r, n) /\ k \in Matches(r.q) \cap Key
      BY <1>1, <1>2 DEF PathOf
  <2>1. /\ m \in Nat /\ Len(n) \in Nat /\ Len(path) = Len(n) - m
        /\ path[x] = n[y] /\ Last(path) = Last(n)
    <3> HIDE DEF k
    <3>1. /\ Skip(r) \in Nat /\ Len(n) \in Nat /\ Len(path) = Len(n) - Skip(r)
          /\ (\A z \in 1 .. Len(path) : path[z] = n[z + Skip(r)]) /\ Last(path) = Last(n)
        BY <1>1, <2>p, PathIs
    <3> QED BY <3>1
  <2>2. k \in Key /\ k \in Seq(STRING) /\ Len(k) \in Nat /\ DOMAIN k = 1 .. Len(k)
      BY <1>1, NameAssumption, LenProperties
  <2>3. \A z \in DOMAIN k : k[z] \notin Range(Slot)
      BY <2>2, AnswerAssumption
  <2>4. y \in 1 .. Len(n) /\ (x < Len(path) => y < Len(n))
    <3> HIDE DEF m, n
    <3> QED BY <2>1
  <2>5. CASE r.q.star /\ k = r.q.pre
    <3>0. Last(n) = ""
        BY <2>2, <2>5, OwnName
    <3>1. Len(n) = Len(k) + 1
        BY <2>2, <2>5, OwnName
    <3>2. x < Len(path)
        BY <1>2, <2>1, <3>0
    <3>3. y \in 1 .. Len(k)
      <4> HIDE DEF y, n
      <4> QED BY <2>2, <2>4, <3>1, <3>2
    <3>4. \A z \in 1 .. Len(r.q.pre) : n[z] = r.q.pre[z]
        BY <1>1, <2>5, NameIs
    <3>5. n[y] = k[y]
        BY <2>5, <3>3, <3>4
    <3> QED BY <2>1, <2>2, <2>3, <3>3, <3>5
  <2>6. CASE ~(r.q.star /\ k = r.q.pre)
    <3>1. n = k
        BY <1>1, <2>6, NameIs
    <3> QED BY <2>1, <2>2, <2>3, <2>4, <3>1
  <2> QED BY <2>5, <2>6
<1>3. \A i \in ItemsOf(r, found) : \E a \in found : i.path = PathOf(r, a)
    BY DEF ItemsOf, ItemOf
<1> QED BY <1>2, <1>3 DEF Readable

(* The paths, read where they belong, are the names that were found. *)
OwnOf(r, found) == {a \in found : r.q.star /\ a.key = r.q.pre}

LEMMA PathInContext ==
    ASSUME NEW r \in HttpRequest, r.method = "GET", NEW k \in Matches(r.q) \cap Key,
           ~(r.q.star /\ k = r.q.pre), ~Lone(r),
           NEW path, path = Relative(r, NameOf(r, k))
    PROVE  Context(r) \o path = k
<1> DEFINE c == Context(r)
           m == Skip(r)
           u == c \o path
<1>1. /\ NameOf(r, k) = k /\ r.q \in Query /\ k \in Seq(STRING)
      /\ r.q.star => \A x \in 1 .. Len(r.q.pre) : k[x] = r.q.pre[x]
  <2>1. /\ NameOf(r, k) = k /\ r.q \in Query /\ k \in Seq(STRING)
        /\ r.q.star => \A x \in 1 .. Len(r.q.pre) : NameOf(r, k)[x] = r.q.pre[x]
      BY NameIs
  <2> QED BY <2>1
<1>2. /\ m \in Nat /\ m < Len(k) /\ Len(k) \in Nat /\ path \in Seq(STRING)
      /\ Len(path) = Len(k) - m /\ \A x \in 1 .. Len(path) : path[x] = k[x + m]
    BY <1>1, PathIs
<1>3. /\ c \in Seq(STRING) /\ Len(c) = m /\ \A x \in 1 .. m : c[x] = k[x]
  <2>1. r.q.pre \in Seq(STRING) /\ r.q.star \in BOOLEAN
      BY <1>1 DEF Query
  <2>2. <<>> \in Seq(STRING) /\ Len(<<>>) = 0
      BY EmptySeq
  <2>3. CASE ~r.full /\ r.q.star /\ r.q.rest = <<>>
    <3>1. c = r.q.pre /\ m = Len(r.q.pre)
        BY <2>3 DEF Context, Base, Skip
    <3> HIDE DEF c, m
    <3> QED BY <1>1, <2>1, <2>3, <3>1
  <2>4. CASE ~(~r.full /\ r.q.star /\ r.q.rest = <<>>)
    <3>1. c = <<>> /\ m = 0
        BY <2>4 DEF Context, Base, Skip
    <3> HIDE DEF c, m
    <3> QED BY <2>2, <3>1
  <2> QED BY <2>3, <2>4
<1> HIDE DEF c, m
<1>4. u \in Seq(STRING) /\ Len(u) = m + Len(path)
      /\ \A x \in 1 .. m + Len(path) : u[x] = IF x <= m THEN c[x] ELSE path[x - m]
  <2> DEFINE l == Len(c)
             h == Len(path)
  <2>0. c \in Seq(STRING) /\ path \in Seq(STRING)
      BY <1>2, <1>3
  <2>1. u \in Seq(STRING) /\ Len(u) = l + h
        /\ \A x \in 1 .. l + h : u[x] = IF x <= l THEN c[x] ELSE path[x - l]
      BY <2>0, ConcatProperties
  <2>2. l = m
      BY <1>3
  <2> HIDE DEF l, u
  <2> QED BY <2>1, <2>2
<1>5. Len(u) = Len(k)
    BY <1>2, <1>4
<1>6. ASSUME NEW x \in 1 .. Len(u) PROVE u[x] = k[x]
  <2>1. CASE x <= m
      BY <1>2, <1>3, <1>4, <2>1
  <2>2. CASE x > m
    <3> DEFINE y == x - m
    <3>1. y \in 1 .. Len(path) /\ y + m = x /\ u[x] = path[y]
        BY <1>2, <1>4, <2>2
    <3> HIDE DEF y
    <3> QED BY <1>2, <3>1
  <2>3. x \in Nat
      BY <1>2, <1>5
  <2> QED BY <1>2, <2>1, <2>2, <2>3
<1> HIDE DEF u
<1>7. u = k
    BY <1>1, <1>4, <1>5, <1>6, SeqEqual
<1> QED BY <1>7 DEF u, c

LEMMA ItemsTell ==
    ASSUME NEW r, NEW found, FoundInv(r, found), Lone(r) => found = {}
    PROVE  {[key |-> Context(r) \o i.path, val |-> i.val] : i \in Real(ItemsOf(r, found))}
             = found \ OwnOf(r, found)
<1> DEFINE Tell(i) == [key |-> Context(r) \o i.path, val |-> i.val]
           own(a) == r.q.star /\ a.key = r.q.pre
<1>1. /\ r \in HttpRequest /\ r.method = "GET"
      /\ \A a \in found : a.key \in Matches(r.q) \cap Key /\ a = [key |-> a.key, val |-> a.val]
    BY DEF FoundInv
<1>2. ASSUME NEW a \in found
      PROVE  /\ Last(PathOf(r, a)) = "" <=> own(a)
             /\ ~own(a) => Tell(ItemOf(r, a)) = a
  <2> DEFINE e == ""
  <2>1. Last(PathOf(r, a)) = Last(NameOf(r, a.key))
      BY <1>1, PathIs DEF PathOf
  <2>2. own(a) => Last(NameOf(r, a.key)) = e
      BY <1>1, OwnName
  <2>3. ~own(a) => Last(NameOf(r, a.key)) # e
    <3>1. ~own(a) => NameOf(r, a.key) = a.key /\ Last(a.key) # ""
        BY <1>1, NameIs
    <3> QED BY <3>1
  <2>4. ~own(a) => Context(r) \o PathOf(r, a) = a.key
      BY <1>1, PathInContext DEF PathOf
  <2>5. ~own(a) => Tell(ItemOf(r, a)) = a
      BY <1>1, <2>4 DEF ItemOf
  <2>6. Last(PathOf(r, a)) = e <=> own(a)
    <3> HIDE DEF own, e
    <3> QED BY <2>1, <2>2, <2>3
  <2> QED BY <2>5, <2>6
<1>3. OwnOf(r, found) = {a \in found : own(a)}
    BY DEF OwnOf
<1> HIDE DEF own, Tell
<1>4. Real(ItemsOf(r, found)) = {ItemOf(r, a) : a \in {b \in found : ~own(b)}}
  <2>1. \A a \in found : ItemOf(r, a).path = PathOf(r, a)
      BY DEF ItemOf
  <2>2. \A a \in found : Last(ItemOf(r, a).path) # "" <=> ~own(a)
      BY <1>2, <2>1
  <2> QED BY <2>2 DEF Real, ItemsOf
<1>5. {Tell(i) : i \in Real(ItemsOf(r, found))} = {a \in found : ~own(a)}
  <2> DEFINE N == {b \in found : ~own(b)}
  <2>1. \A a \in N : Tell(ItemOf(r, a)) = a
      BY <1>2
  <2>2. Real(ItemsOf(r, found)) = {ItemOf(r, a) : a \in N}
      BY <1>4
  <2> HIDE DEF N
  <2>3. {Tell(i) : i \in {ItemOf(r, a) : a \in N}} = N
      BY <2>1
  <2> QED BY <2>2, <2>3 DEF N
<1> QED BY <1>3, <1>5 DEF Tell

(* The value of a name by itself is its name's. *)
LoneJson(x) == [q \in {<<>>} |-> Scalar(x)]

Scalars(found) == {[a EXCEPT !.val = Scalar(@)] : a \in found}

LEMMA LoneTells ==
    ASSUME NEW r, NEW found, FoundInv(r, found), Lone(r), NEW b \in found,
           NEW x, x = b.val
    PROVE  ToldBy(Context(r), LoneJson(x)) = Scalars(found)
<1> DEFINE json == LoneJson(x)
           told == [key |-> b.key, val |-> Scalar(x)]
<1>1. /\ b \in found /\ b = [key |-> b.key, val |-> b.val] /\ b.val \in Value
      /\ b.key \in Matches(r.q) \cap Key
    BY DEF FoundInv, Tellable
<1>2. r \in HttpRequest /\ r.method = "GET" /\ ~r.q.star
    BY DEF FoundInv, Lone
<1>3. found = {b}
  <2>1. \A a \in found : a.key = r.q.pre
      BY <1>2, NameIs DEF FoundInv
  <2>2. \A a \in found : a = b
      BY <1>1, <2>1 DEF FoundInv, Tellable
  <2> QED BY <1>1, <2>2
<1>4. b.key = r.q.pre /\ r.q.pre \in Seq(STRING)
    BY <1>1, <1>2, NameIs DEF Query
<1>5. Context(r) = b.key
    BY <1>2, <1>4 DEF Context, Base
<1>6. Named(<<>>) = <<>>
  <2>1. [i \in DOMAIN <<>> |-> WordAt(<<>>[i])] = <<>>
      OBVIOUS
  <2> QED BY <2>1 DEF Named
<1>7. b.key \o <<>> = b.key
    BY <1>4, ConcatEmptySeq
<1>8. Scalar(x) # Object
    BY <1>1, AnswerAssumption DEF Scalar
<1>9. ToldBy(Context(r), json) = {told}
  <2>1. {q \in DOMAIN json : json[q] # Object} = {<<>>} /\ json[<<>>] = Scalar(x)
      BY <1>8 DEF LoneJson
  <2>2. [key |-> Context(r) \o Named(<<>>), val |-> json[<<>>]] = told
      BY <1>5, <1>6, <1>7, <2>1
  <2> HIDE DEF json, told
  <2> QED BY <2>1, <2>2 DEF ToldBy
<1>10. [b EXCEPT !.val = Scalar(@)] = told
    BY <1>1
<1>11. Scalars(found) = {told}
  <2> HIDE DEF told
  <2> QED BY <1>3, <1>10 DEF Scalars
<1> QED BY <1>9, <1>11

(* The call that a step of any kind leaves with the query it had. *)
SameQuery(d, c) == d.op = c.op /\ d.q = c.q

LEMMA NotedQuery == \A c, k : SameQuery(Noted(c, k), c)
BY DEF SameQuery, Noted, Made

LEMMA WorkKeepsQueries ==
    ASSUME QueryInv, NEW p \in Client, Work(p)
    PROVE  \A r \in Client : SameQuery(call'[r], call[r])
<1> DEFINE c == call[p]
<1>1. CallInv(c, val) /\ IsCall(c) /\ c.step # "idle" /\ DOMAIN call = Client
    BY WorkInv DEF QueryInv, CallInv, CallTyped
<1>2. ASSUME NEW d, call' = [call EXCEPT ![p] = d], SameQuery(d, c)
      PROVE  \A r \in Client : SameQuery(call'[r], call[r])
    BY <1>1, <1>2 DEF SameQuery
<1>3. ASSUME NEW k, NEW d, Wrote(p, k, d), SameQuery(d, c)
      PROVE  \A r \in Client : SameQuery(call'[r], call[r])
  <2>1. call' = [r \in Client |-> IF r = p THEN d ELSE Noted(call[r], k)]
      BY <1>1, <1>3, WroteIsNoted
  <2> QED BY <1>3, <2>1, NotedQuery
<1>4. \A new : SameQuery(Onward(p, new), c)
    BY <1>1, OnwardFields DEF SameQuery
<1>5. CASE Visit(p)
  <2> DEFINE h == Head(c.walk)
             new == IF h = c.q.pre THEN <<>> ELSE <<[key |-> h \o c.q.rest, dotted |-> FALSE]>>
             D(w, n, s) == [c EXCEPT !.walk = w, !.names = n, !.step = s]
  <2>1. PICK kids \in SetToSeqs(VisibleChildren(h)) :
          call' = [call EXCEPT
                     ![p].walk = kids \o Tail(c.walk), ![p].names = @ \o new,
                     ![p].step = IF kids \o Tail(c.walk) = <<>> THEN "work" ELSE "walk"]
      BY <1>5 DEF Visit
  <2> DEFINE walk == kids \o Tail(c.walk)
             names == c.names \o new
             step == IF walk = <<>> THEN "work" ELSE "walk"
             d == D(walk, names, step)
  <2>2. call' = [call EXCEPT ![p] = d]
    <3>1. call' = [call EXCEPT ![p].walk = walk, ![p].names = @ \o new, ![p].step = step]
        BY <2>1
    <3> HIDE DEF walk, step, new
    <3> QED BY <3>1, ZenonT(30)
  <2>3. \A w, n, s : SameQuery(D(w, n, s), c)
    <3> HIDE DEF c
    <3>1. \A w, n, s : D(w, n, s) =
            Made(s, c.op, c.q, c.arg, w, n, c.acc, c.err, c.stood, c.touched)
        BY <1>1, VisitedCall
    <3> HIDE DEF D
    <3>2. \A w, n, s :
            SameQuery(Made(s, c.op, c.q, c.arg, w, n, c.acc, c.err, c.stood, c.touched), c)
        BY DEF SameQuery, Made
    <3> QED BY <3>1, <3>2
  <2> HIDE DEF D
  <2> QED BY <1>2, <2>2, <2>3
<1>6. CASE SetRefused(p) \/ SetLocked(p) \/ DelMissing(p)
  <2> DEFINE d == [c EXCEPT !.names = <<>>, !.step = "done", !.err = TRUE]
  <2>1. call' = [call EXCEPT ![p] = d]
      BY <1>6 DEF SetRefused, SetLocked, DelMissing, Fail
  <2>2. SameQuery(d, c)
    <3> HIDE DEF c
    <3>1. d = Made("done", c.op, c.q, c.arg, c.walk, <<>>, c.acc, TRUE, c.stood, c.touched)
        BY <1>1, FailedCall
    <3> HIDE DEF d
    <3> QED BY <3>1 DEF SameQuery, Made
  <2> HIDE DEF d
  <2> QED BY <1>2, <2>1, <2>2
<1>7. CASE SetAllowed(p) \/ DelFound(p)
  <2> DEFINE d == [c EXCEPT !.step = "write"]
  <2>1. call' = [call EXCEPT ![p] = d]
      BY <1>7 DEF SetAllowed, DelFound, Goto
  <2>2. SameQuery(d, c)
    <3> HIDE DEF c
    <3>1. d = Made("write", c.op, c.q, c.arg, c.walk, c.names, c.acc, c.err, c.stood, c.touched)
        BY <1>1, Altered
    <3> HIDE DEF d
    <3> QED BY <3>1 DEF SameQuery, Made
  <2> HIDE DEF d
  <2> QED BY <1>2, <2>1, <2>2
<1>8. CASE GetName(p) \/ ChildrenOfName(p)
  <2>1. \E new : call' = [call EXCEPT ![p] = Onward(p, new)]
      BY <1>8 DEF GetName, ChildrenOfName
  <2> QED BY <1>2, <1>4, <2>1
<1>9. CASE SetWrite(p) \/ DelWrite(p)
  <2>1. \E k : Wrote(p, k, Onward(p, {}))
      BY <1>9 DEF SetWrite, DelWrite
  <2> QED BY <1>3, <1>4, <2>1
<1> QED BY <1>5, <1>6, <1>7, <1>8, <1>9 DEF Work

LEMMA FlagKeepsQueries ==
    ASSUME QueryInv, NEW flag \in Key, NEW x, SetFlag(flag, x)
    PROVE  \A r \in Client : SameQuery(call'[r], call[r])
<1> SUFFICES ASSUME NEW r \in Client PROVE SameQuery(call'[r], call[r])
    OBVIOUS
<1> DEFINE c == call[r]
           t == c.touched \cup {flag}
           d == [c EXCEPT !.touched = t]
<1>1. IsCall(c)
    BY DEF QueryInv, CallInv, CallTyped
<1>2. call'[r] = IF c.step = "idle" THEN c ELSE d
    BY DEF SetFlag
<1>3. SameQuery(d, c) /\ SameQuery(c, c)
  <2> HIDE DEF c, t
  <2>1. d = Made(c.step, c.op, c.q, c.arg, c.walk, c.names, c.acc, c.err, c.stood, t)
      BY <1>1, Altered
  <2> HIDE DEF d
  <2> QED BY <2>1 DEF SameQuery, Made
<1> HIDE DEF c, d
<1>4. SameQuery(call'[r], c)
    BY <1>2, <1>3
<1> QED BY <1>4 DEF c

LEMMA BeginMakesQuery ==
    ASSUME QueryInv, NEW p \in Client, NEW r, Begin(p, r)
    PROVE  /\ call'[p].op = r.op /\ call'[p].q = r.q
           /\ \A s \in Client \ {p} : SameQuery(call'[s], call[s])
<1> DEFINE first == IF r.op = "get" /\ r.q = NoQuery
                    THEN [step |-> "done", names |-> <<>>, err |-> TRUE] ELSE Resolving(r.q)
           walk == IF first.step = "walk" THEN <<r.q.pre>> ELSE <<>>
           stood == {k \in Key : val[k] # Empty}
           d == [Idle EXCEPT !.op = r.op, !.q = r.q, !.arg = r.arg, !.walk = walk,
                             !.step = first.step, !.names = first.names, !.err = first.err,
                             !.stood = stood]
<1>1. call' = [call EXCEPT ![p] = d] /\ DOMAIN call = Client
    BY DEF Begin, QueryInv
<1> HIDE DEF first, walk, stood
<1>2. d = Made(first.step, r.op, r.q, r.arg, walk, first.names, Idle.acc, first.err, stood,
               Idle.touched)
  <2>1. d = Begun(Idle, r.op, r.q, r.arg, walk, first.step, first.names, first.err, stood)
      BY DEF Begun
  <2> HIDE DEF d
  <2> QED BY <2>1, IdleIsCall, BegunCall
<1> HIDE DEF d
<1>3. d.op = r.op /\ d.q = r.q
    BY <1>2 DEF Made
<1> QED BY <1>1, <1>3 DEF SameQuery

LEMMA ReturnKeepsQueries ==
    ASSUME QueryInv, NEW p \in Client, Return(p)
    PROVE  \A r \in Client \ {p} : SameQuery(call'[r], call[r])
BY DEF Return, SameQuery, QueryInv
----------------------------------------------------------------------------
(* The answer of a GET, from the call that finds what there is to tell to  *)
(* the JSON that tells it.                                                 *)
KeepsAll(w) ==
    Said(w) = IF Lone(w.req) THEN {[a EXCEPT !.val = Scalar(@)] : a \in w.found}
              ELSE w.found \ Own(w)

BuildInv(w) ==
    /\ FoundInv(w.req, w.found)
    /\ Lone(w.req) => w.found = {}
    /\ w.todo \subseteq ItemsOf(w.req, w.found)
    /\ IsJson(w.json, ItemsOf(w.req, w.found) \ w.todo)

AnswerInv(w, c) ==
    /\ w.step = "call" /\ w.req.method = "GET" =>
         /\ w.req \in HttpRequest
         /\ c.step # "idle" /\ c.op = "get" /\ c.q = w.req.q
    /\ w.step = "build" => BuildInv(w)
    /\ w.step = "answered" /\ w.status = 200 /\ w.req.export = "json" => KeepsAll(w)

JsonInv == HttpInv /\ \A p \in Client : AnswerInv(web[p], call[p])

(* What the other calls and requests keep in a step of p. *)
Apiece(p) == \A r \in Client \ {p} :
    call'[r].step = call[r].step /\ SameQuery(call'[r], call[r])

LEMMA AnswerStep ==
    ASSUME JsonInv, NEW p \in Client, Apiece(p), NEW w, web' = [web EXCEPT ![p] = w],
           AnswerInv(w, call'[p])
    PROVE  \A r \in Client : AnswerInv(web'[r], call'[r])
<1> SUFFICES ASSUME NEW r \in Client PROVE AnswerInv(web'[r], call'[r])
    OBVIOUS
<1>1. web'[r] = IF r = p THEN w ELSE web[r]
    BY DEF JsonInv, HttpInv
<1>2. CASE r # p
  <2>1. AnswerInv(web[r], call[r]) /\ call'[r].step = call[r].step
        /\ call'[r].op = call[r].op /\ call'[r].q = call[r].q
      BY <1>2 DEF JsonInv, Apiece, SameQuery
  <2>2. AnswerInv(web[r], call'[r])
      BY <2>1 DEF AnswerInv
  <2> QED BY <1>1, <1>2, <2>2
<1> QED BY <1>1, <1>2

(* Requests with nothing to tell. *)
LEMMA NothingToTell ==
    ASSUME NEW w, NEW c, w.step \notin {"call", "build"}, w.step = "answered" => w.status # 200
    PROVE  AnswerInv(w, c)
BY DEF AnswerInv

(* The fields of a request that Has leaves out. *)
Shows(w, found, json, status) == w.found = found /\ w.json = json /\ w.status = status

LEMMA OtherFields ==
    ASSUME NEW w, IsPage(w), NEW x
    PROVE  /\ Shows(WithStep(w, x), w.found, w.json, w.status)
           /\ Shows(WithReq(w, x), w.found, w.json, w.status)
           /\ Shows(WithFound(w, x), x, w.json, w.status)
           /\ Shows(WithTodo(w, x), w.found, w.json, w.status)
           /\ Shows(WithJson(w, x), w.found, x, w.status)
           /\ Shows(WithStatus(w, x), w.found, w.json, x)
<1> USE DEF Shows, IsPage
<1>1. Shows(WithStep(w, x), w.found, w.json, w.status)
    BY DEF WithStep
<1>2. Shows(WithReq(w, x), w.found, w.json, w.status)
    BY DEF WithReq
<1>3. Shows(WithFound(w, x), x, w.json, w.status)
    BY DEF WithFound
<1>4. Shows(WithTodo(w, x), w.found, w.json, w.status)
    BY DEF WithTodo
<1>5. Shows(WithJson(w, x), w.found, x, w.status)
    BY DEF WithJson
<1>6. Shows(WithStatus(w, x), w.found, w.json, x)
    BY DEF WithStatus
<1> QED BY <1>1, <1>2, <1>3, <1>4, <1>5, <1>6

(* GetVars returns: its names are different and may be told. *)
LEMMA ReturnIsFound ==
    ASSUME NEW c, NEW v, CallInv(c, v), NEW r \in HttpRequest, r.method = "GET",
           c.step # "idle", c.op = "get", c.q = r.q
    PROVE  FoundInv(r, c.acc)
<1>1. NothingElse(c, v) /\ NamedOnce(c)
    BY DEF CallInv
<1>2. \A a \in c.acc : /\ a = [key |-> a.key, val |-> a.val] /\ a.val \in Value
                       /\ a.key \in Asking(c) \cap Key
                       /\ a.key # <<>> => Last(a.key) # ValueWord
    BY <1>1 DEF NothingElse
<1>3. Asking(c) \subseteq Matches(r.q)
    BY DEF Asking
<1>4. \A a, b \in c.acc : a.key = b.key => a = b
    BY <1>1 DEF NamedOnce
<1> QED BY <1>2, <1>3, <1>4 DEF FoundInv, Tellable

LEMMA EmptyIsJson == IsJson(<<>>, {})
BY DEF IsJson, ObjectsOf, Real

LEMMA GetReturnsAnswer ==
    ASSUME JsonInv, NEW p \in Client, GetReturns(p)
    PROVE  \A r \in Client : AnswerInv(web'[r], call'[r])
<1> DEFINE v == web[p]
           c == call[p]
           json == v.req.export = "json"
           lone == json /\ Lone(v.req) /\ c.acc # {}
           x == (CHOOSE a \in c.acc : TRUE).val
           t == IF lone THEN {} ELSE Items(p)
           j == IF lone THEN [q \in {<<>>} |-> Scalar(x)] ELSE <<>>
           u == IF v.req.export = "other" THEN 400 ELSE 200
           s == IF json /\ ~lone THEN "build" ELSE "answered"
           w == WithStep(WithStatus(WithJson(WithTodo(WithFound(v, c.acc), t), j), u), s)
<1>1. QueryInv /\ IsPage(v) /\ CallInv(c, val) /\ AnswerInv(v, c)
    BY DEF JsonInv, HttpInv, PageInv, QueryInv
<1>2. v.step = "call" /\ v.req.method = "GET" /\ c.step = "done" /\ Return(p)
    BY DEF GetReturns, Return
<1>3. FoundInv(v.req, c.acc)
    BY <1>1, <1>2, ReturnIsFound DEF AnswerInv
<1>4. web' = [web EXCEPT ![p] = w]
  <2>1. web' = [web EXCEPT ![p].found = c.acc, ![p].todo = t, ![p].json = j,
                           ![p].status = u, ![p].step = s]
      BY DEF GetReturns
  <2> HIDE DEF t, j, u, s
  <2> QED BY <2>1 DEF WithStep, WithStatus, WithJson, WithTodo, WithFound
<1>5. Items(p) = ItemsOf(v.req, c.acc)
    BY DEF Items, ItemsOf, ItemOf, PathOf
<1>6. Apiece(p)
    BY <1>1, <1>2, ReturnInv, ReturnKeepsQueries DEF Apiece, OthersStay
<1> HIDE DEF v, c, t, j, u, s
<1>7. w.step = s /\ w.req = v.req /\ w.todo = t /\ Shows(w, c.acc, j, u)
  <2>1. Has(w, s, v.req, t, v.last, v.wrote, v.failed)
      BY <1>1, OneField DEF Has
  <2> DEFINE w1 == WithFound(v, c.acc)
             w2 == WithTodo(w1, t)
             w3 == WithJson(w2, j)
             w4 == WithStatus(w3, u)
  <2>2. IsPage(w1) /\ IsPage(w2) /\ IsPage(w3) /\ IsPage(w4)
      BY <1>1, OneField DEF Has
  <2>3. Shows(w1, c.acc, v.json, v.status)
      BY <1>1, OtherFields
  <2> HIDE DEF w1
  <2>4. Shows(w2, c.acc, v.json, v.status)
      BY <2>2, <2>3, OtherFields DEF Shows
  <2> HIDE DEF w2
  <2>5. Shows(w3, c.acc, j, v.status)
      BY <2>2, <2>4, OtherFields DEF Shows
  <2> HIDE DEF w3
  <2>6. Shows(w4, c.acc, j, u)
      BY <2>2, <2>5, OtherFields DEF Shows
  <2> HIDE DEF w4
  <2>7. Shows(WithStep(w4, s), c.acc, j, u)
      BY <2>2, <2>6, OtherFields DEF Shows
  <2> QED BY <2>1, <2>7 DEF Has, w1, w2, w3, w4
<1> HIDE DEF w
<1>8. AnswerInv(w, call'[p])
  <2>1. CASE ~json
    <3>1. w.step = "answered" /\ w.req.export # "json"
        BY <1>7, <2>1 DEF s
    <3> QED BY <3>1 DEF AnswerInv
  <2>2. CASE json /\ ~lone
    <3>1. w.step = "build" /\ w.todo = ItemsOf(v.req, c.acc) /\ w.json = <<>> /\ w.found = c.acc
        BY <1>5, <1>7, <2>2 DEF s, t, j, Shows
    <3>2. Lone(w.req) => w.found = {}
        BY <1>7, <2>2, <3>1
    <3>3. ItemsOf(w.req, w.found) \ w.todo = {}
        BY <1>7, <3>1
    <3>4. BuildInv(w)
        BY <1>3, <1>7, <3>1, <3>2, <3>3, EmptyIsJson DEF BuildInv
    <3> QED BY <3>1, <3>4 DEF AnswerInv
  <2>3. CASE lone
    <3>1. /\ w.step = "answered" /\ w.json = [q \in {<<>>} |-> Scalar(x)] /\ w.found = c.acc
          /\ w.req = v.req
        BY <1>7, <2>3 DEF s, j, Shows
    <3>2. ToldBy(Context(v.req), LoneJson(x)) = Scalars(c.acc)
      <4> DEFINE f == c.acc
                 r == v.req
                 b == CHOOSE a \in f : TRUE
      <4>1. FoundInv(r, f) /\ Lone(r) /\ b \in f /\ x = b.val
          BY <1>3, <2>3
      <4> HIDE DEF f, r, x, b
      <4>2. ToldBy(Context(r), LoneJson(x)) = Scalars(f)
          BY <4>1, LoneTells
      <4> QED BY <4>2 DEF f, r
    <3>3. Said(w) = ToldBy(Context(v.req), w.json) /\ w.json = LoneJson(x)
        BY <3>1 DEF Said, ToldBy, LoneJson
    <3>4. Said(w) = Scalars(w.found)
        BY <3>1, <3>2, <3>3
    <3>5. KeepsAll(w)
        BY <2>3, <3>1, <3>4 DEF KeepsAll, Scalars
    <3> QED BY <3>1, <3>5 DEF AnswerInv
  <2> QED BY <2>1, <2>2, <2>3
<1> QED BY <1>4, <1>6, <1>8, AnswerStep

(* The next of the names is put in the JSON. *)
LEMMA InsertAnswer ==
    ASSUME JsonInv, NEW p \in Client, Insert(p)
    PROVE  \A r \in Client : AnswerInv(web'[r], call'[r])
<1> DEFINE v == web[p]
           I == ItemsOf(v.req, v.found)
<1>1. QueryInv /\ IsPage(v) /\ v.step = "build" /\ BuildInv(v) /\ UNCHANGED vars
    BY DEF JsonInv, HttpInv, PageInv, AnswerInv, Insert
<1>2. Apiece(p)
    BY <1>1 DEF Apiece, SameQuery, vars
<1> DEFINE J(i) == insertNested(v.json, i.path, i.val)
           W(i) == WithJson(WithTodo(v, v.todo \ {i}), J(i))
<1>3. PICK i \in v.todo : web' = [web EXCEPT ![p] = W(i)]
    BY DEF Insert, WithJson, WithTodo
<1> DEFINE w == W(i)
           j == J(i)
<1>w. web' = [web EXCEPT ![p] = w]
    BY <1>3
<1> HIDE DEF v
<1>4. Insertable(I) /\ FoundInv(v.req, v.found)
    BY <1>1, ItemsAreInsertable DEF BuildInv
<1>5. IsJson(j, I \ (v.todo \ {i}))
  <2> DEFINE D == I \ v.todo
             t == v.json
  <2>1. D \in SUBSET I /\ i \in I \ D /\ IsJson(t, D)
      BY <1>1, <1>3 DEF BuildInv
  <2>2. D \cup {i} = I \ (v.todo \ {i})
      BY <2>1, <1>3
  <2> HIDE DEF D, I, t
  <2>3. IsJson(insertNested(t, i.path, i.val), D \cup {i})
      BY <1>4, <2>1, InsertIsJson
  <2> QED BY <2>2, <2>3 DEF t
<1> HIDE DEF j
<1>6. w.step = "build" /\ w.req = v.req /\ w.todo = v.todo \ {i} /\ Shows(w, v.found, j, v.status)
  <2> DEFINE x == WithTodo(v, v.todo \ {i})
  <2>1. Has(x, "build", v.req, v.todo \ {i}, v.last, v.wrote, v.failed)
      BY <1>1, OneField DEF Has
  <2>2. Shows(x, v.found, v.json, v.status)
      BY <1>1, OtherFields
  <2>3. w = WithJson(x, j)
      BY DEF j
  <2> HIDE DEF x, w
  <2>4. Has(w, "build", v.req, v.todo \ {i}, v.last, v.wrote, v.failed)
      BY <2>1, <2>3, OneField DEF Has
  <2>5. Shows(w, v.found, j, v.status)
      BY <2>1, <2>2, <2>3, OtherFields DEF Has, Shows
  <2> QED BY <2>4, <2>5 DEF Has
<1> HIDE DEF w
<1>7. BuildInv(w)
  <2>1. w.found = v.found /\ w.json = j
      BY <1>6 DEF Shows
  <2>2. v.todo \subseteq I /\ (Lone(v.req) => v.found = {})
      BY <1>1 DEF BuildInv
  <2>3. w.todo \subseteq ItemsOf(w.req, w.found)
        /\ IsJson(w.json, ItemsOf(w.req, w.found) \ w.todo)
      BY <1>5, <1>6, <2>1, <2>2
  <2> QED BY <1>4, <1>6, <2>1, <2>2, <2>3 DEF BuildInv
<1>8. AnswerInv(w, call'[p])
    BY <1>6, <1>7 DEF AnswerInv
<1> QED BY <1>w, <1>2, <1>8, AnswerStep

(* All names are in the JSON, some of whose objects become arrays. *)
LEMMA EncodeAnswer ==
    ASSUME JsonInv, NEW p \in Client, Encode(p)
    PROVE  \A r \in Client : AnswerInv(web'[r], call'[r])
<1> DEFINE v == web[p]
           I == ItemsOf(v.req, v.found)
<1>1. /\ QueryInv /\ IsPage(v) /\ v.step = "build" /\ v.todo = {} /\ BuildInv(v)
      /\ UNCHANGED vars
    BY DEF JsonInv, HttpInv, PageInv, AnswerInv, Encode
<1>2. Apiece(p)
    BY <1>1 DEF Apiece, SameQuery, vars
<1> DEFINE J(arrays) == normalizeArrays(v.json, arrays)
           W(arrays) == WithStep(WithJson(v, J(arrays)), "answered")
<1>3. PICK arrays \in SUBSET Arrayable(v.json) : web' = [web EXCEPT ![p] = W(arrays)]
  <2>1. PICK arrays \in SUBSET Arrayable(v.json) :
          web' = [web EXCEPT ![p].json = J(arrays), ![p].step = "answered"]
      BY DEF Encode
  <2> DEFINE j == J(arrays)
  <2>2. web' = [web EXCEPT ![p].json = j, ![p].step = "answered"]
      BY <2>1
  <2> HIDE DEF J, j
  <2>3. web' = [web EXCEPT ![p] = WithStep(WithJson(v, j), "answered")]
      BY <2>2 DEF WithJson, WithStep
  <2> QED BY <2>1, <2>3 DEF j
<1> DEFINE w == W(arrays)
           j == J(arrays)
<1>w. web' = [web EXCEPT ![p] = w]
    BY <1>3
<1> HIDE DEF v
<1>4. Insertable(I) /\ Readable(I) /\ FoundInv(v.req, v.found) /\ IsJson(v.json, I)
      /\ (Lone(v.req) => v.found = {})
  <2>1. I \ v.todo = I
      BY <1>1
  <2> QED BY <1>1, <2>1, ItemsAreInsertable, ItemsAreReadable DEF BuildInv
<1>5. ToldBy(Context(v.req), j) = v.found \ OwnOf(v.req, v.found)
  <2> DEFINE c == Context(v.req)
             t == v.json
  <2>1. {[key |-> c \o i.path, val |-> i.val] : i \in Real(I)} = v.found \ OwnOf(v.req, v.found)
      BY <1>4, ItemsTell
  <2>2. arrays \in SUBSET Arrayable(t) /\ IsJson(t, I) /\ j = normalizeArrays(t, arrays)
      BY <1>3, <1>4
  <2> HIDE DEF c, t, I, j
  <2>3. ToldBy(c, normalizeArrays(t, arrays))
          = {[key |-> c \o i.path, val |-> i.val] : i \in Real(I)}
      BY <1>4, <2>2, ArraysTellAll
  <2> QED BY <2>1, <2>2, <2>3 DEF c
<1> HIDE DEF j
<1>6. w.step = "answered" /\ w.req = v.req /\ w.found = v.found /\ w.json = j
  <2> DEFINE x == WithJson(v, j)
  <2>1. Has(x, "build", v.req, v.todo, v.last, v.wrote, v.failed)
      BY <1>1, OneField DEF Has
  <2>2. Shows(x, v.found, j, v.status)
      BY <1>1, OtherFields
  <2>3. w = WithStep(x, "answered")
      BY DEF j
  <2> HIDE DEF x, w
  <2>4. Has(w, "answered", v.req, v.todo, v.last, v.wrote, v.failed)
      BY <2>1, <2>3, OneField DEF Has
  <2>5. Shows(w, v.found, j, v.status)
      BY <2>1, <2>2, <2>3, OtherFields DEF Has, Shows
  <2> QED BY <2>4, <2>5 DEF Has, Shows
<1> HIDE DEF w
<1>7. KeepsAll(w)
  <2>1. Said(w) = ToldBy(Context(w.req), w.json) /\ Own(w) = OwnOf(w.req, w.found)
      BY DEF Said, ToldBy, Own, OwnOf
  <2>2. Said(w) = w.found \ Own(w)
      BY <1>5, <1>6, <2>1
  <2>3. CASE Lone(w.req)
    <3>1. w.found = {}
        BY <1>4, <1>6, <2>3
    <3>2. Said(w) = {} /\ {[a EXCEPT !.val = Scalar(@)] : a \in w.found} = {}
        BY <2>2, <3>1
    <3> QED BY <3>2 DEF KeepsAll
  <2> QED BY <2>2, <2>3 DEF KeepsAll
<1>8. AnswerInv(w, call'[p])
    BY <1>6, <1>7 DEF AnswerInv
<1> QED BY <1>w, <1>2, <1>8, AnswerStep

(* What a step of p does to the calls of the others. *)
LEMMA StillApiece ==
    ASSUME UNCHANGED vars, NEW p \in Client PROVE Apiece(p)
BY DEF Apiece, SameQuery, vars

LEMMA ReturnApiece ==
    ASSUME JsonInv, NEW p \in Client, Return(p) PROVE Apiece(p)
<1>1. QueryInv
    BY DEF JsonInv, HttpInv
<1> QED BY <1>1, ReturnInv, ReturnKeepsQueries DEF Apiece, OthersStay

LEMMA BeginApiece ==
    ASSUME JsonInv, NEW p \in Client, NEW r, IsRequest(r), Begin(p, r) PROVE Apiece(p)
<1>1. QueryInv
    BY DEF JsonInv, HttpInv
<1> QED BY <1>1, BeginInv, BeginMakesQuery DEF Apiece, OthersStay

LEMMA FlagApiece ==
    ASSUME JsonInv, NEW p \in Client, NEW flag \in Key, NEW x \in {Locked, Unlocked},
           SetFlag(flag, x)
    PROVE  Apiece(p)
<1>1. QueryInv
    BY DEF JsonInv, HttpInv
<1> QED BY <1>1, SetFlagInv, FlagKeepsQueries DEF Apiece

LEMMA WorkApiece ==
    ASSUME JsonInv, NEW p \in Client, Work(p)
    PROVE  /\ Apiece(p) /\ SameQuery(call'[p], call[p])
           /\ call'[p].step # "idle"
<1>1. QueryInv
    BY DEF JsonInv, HttpInv
<1> QED BY <1>1, WorkInv, WorkKeepsQueries DEF Apiece, OthersStay

(* A request of p that then has no more to do than this. *)
LEMMA QuietStep ==
    ASSUME JsonInv, NEW p \in Client, Apiece(p), NEW w, web' = [web EXCEPT ![p] = w],
           w.step \notin {"call", "build"}, w.step = "answered" => w.status # 200
    PROVE  \A r \in Client : AnswerInv(web'[r], call'[r])
<1>1. AnswerInv(w, call'[p])
    BY NothingToTell
<1> QED BY <1>1, AnswerStep

LEMMA AnswerQuiet ==
    ASSUME JsonInv, NEW p \in Client, Apiece(p), NEW u, u # 200, Answer(p, u)
    PROVE  \A r \in Client : AnswerInv(web'[r], call'[r])
<1> DEFINE v == web[p]
           w == WithStatus(WithStep(v, "answered"), u)
<1>1. IsPage(v)
    BY DEF JsonInv, HttpInv, PageInv
<1>2. web' = [web EXCEPT ![p] = w]
    BY ZenonT(30) DEF Answer, WithStatus, WithStep
<1> HIDE DEF v
<1>3. w.step = "answered" /\ w.status = u
    BY <1>1 DEF WithStatus, WithStep, IsPage
<1> HIDE DEF w
<1> QED BY <1>2, <1>3, QuietStep

(* A request arrives. *)
LEMMA ArriveAnswer ==
    ASSUME JsonInv, NEW p \in Client, Arrive(p)
    PROVE  \A r \in Client : AnswerInv(web'[r], call'[r])
<1> PICK r \in HttpRequest : \/ Reject(p, r) \/ handleByName(p, r) \/ handlePostJson(p, r)
                             \/ handleLock(p, r) \/ handleUnlock(p, r)
    BY DEF Arrive
<1> DEFINE n == NoRequest
<1>0. QueryInv /\ IsPage(n)
    BY NoRequestIsPage DEF JsonInv, HttpInv, Has
<1> HIDE DEF n
<1>1. CASE Reject(p, r)
  <2> DEFINE w == WithStatus(WithStep(WithReq(n, r), "answered"), Refusal(r))
  <2>1. web' = [web EXCEPT ![p] = w] /\ UNCHANGED vars
      BY <1>1 DEF Reject, WithStatus, WithStep, WithReq, n
  <2>2. w.step = "answered" /\ w.status = Refusal(r)
      BY <1>0 DEF WithStatus, WithStep, WithReq, IsPage
  <2>3. Refusal(r) # 200
      BY DEF Refusal
  <2> HIDE DEF w
  <2> QED BY <2>1, <2>2, <2>3, StillApiece, QuietStep
<1>2. CASE handleByName(p, r)
  <2> DEFINE w == WithStep(WithReq(n, r), "call")
  <2>1. web' = [web EXCEPT ![p] = w]
      BY <1>2 DEF handleByName, Accept, WithStep, WithReq, n
  <2>2. w.step = "call" /\ w.req = r
      BY <1>0, OneField DEF Has
  <2> HIDE DEF w
  <2>3. IsRequest(CallOf(r)) /\ Begin(p, CallOf(r))
      BY <1>2, HttpAssumption DEF handleByName, IsRequest, CallOf, Ops
  <2>4. Apiece(p)
      BY <2>3, BeginApiece
  <2>5. call'[p].step # "idle" /\ call'[p].op = CallOf(r).op /\ call'[p].q = CallOf(r).q
      BY <1>0, <2>3, BeginInv, BeginMakesQuery
  <2>6. CallOf(r).q = r.q /\ (r.method = "GET" => CallOf(r).op = "get")
      BY DEF CallOf
  <2>7. AnswerInv(w, call'[p])
      BY <2>2, <2>5, <2>6 DEF AnswerInv
  <2> QED BY <2>1, <2>4, <2>7, AnswerStep
<1>3. CASE handlePostJson(p, r)
  <2> DEFINE w == WithTodo(WithStep(WithReq(n, r), "leaves"), Leaves(r))
  <2>1. web' = [web EXCEPT ![p] = w] /\ UNCHANGED vars
      BY <1>3 DEF handlePostJson, WithTodo, WithStep, WithReq, n
  <2>2. w.step = "leaves"
      BY <1>0, OneField DEF Has
  <2> HIDE DEF w
  <2> QED BY <2>1, <2>2, StillApiece, QuietStep
<1>4. CASE handleLock(p, r)
  <2> DEFINE w == WithStep(WithReq(n, r), "lock")
  <2>1. web' = [web EXCEPT ![p] = w] /\ UNCHANGED vars
      BY <1>4 DEF handleLock, Accept, WithStep, WithReq, n
  <2>2. w.step = "lock"
      BY <1>0, OneField DEF Has
  <2> HIDE DEF w
  <2> QED BY <2>1, <2>2, StillApiece, QuietStep
<1>5. CASE handleUnlock(p, r)
  <2> DEFINE w == WithStatus(WithStep(WithReq(n, r), "answered"), 204)
  <2>1. web' = [web EXCEPT ![p] = w]
      BY <1>5 DEF handleUnlock, WithStatus, WithStep, WithReq, n
  <2>2. w.step = "answered" /\ w.status = 204
      BY <1>0 DEF WithStatus, WithStep, WithReq, IsPage
  <2> HIDE DEF w
  <2>3. FlagOf(r) \in Key /\ SetFlag(FlagOf(r), Unlocked)
      BY <1>5, HttpAssumption DEF handleUnlock, FlagOf
  <2>4. Apiece(p)
      BY <2>3, FlagApiece
  <2>5. w.step \notin {"call", "build"} /\ w.status # 200
      BY <2>2
  <2> QED BY <2>1, <2>4, <2>5, QuietStep
<1> QED BY <1>1, <1>2, <1>3, <1>4, <1>5

(* The handlers that have no JSON to tell. *)
LEMMA HandlerAnswer ==
    ASSUME JsonInv, NEW p \in Client,
           \/ PostReturns(p) \/ DeleteReturns(p) \/ GetFails(p) \/ SetLeaf(p) \/ LeafIsSet(p)
           \/ LeafFails(p) \/ AllLeaves(p) \/ LockGranted(p) \/ LockWaits(p)
           \/ LockTimesOut(p) \/ Finish(p)
    PROVE  \A r \in Client : AnswerInv(web'[r], call'[r])
<1> DEFINE v == web[p]
<1>0. IsPage(v) /\ PageInv(v, call[p].step)
    BY DEF JsonInv, HttpInv, PageInv
<1>1. CASE PostReturns(p) \/ DeleteReturns(p) \/ GetFails(p)
  <2>1. Return(p) /\ \E u : u # 200 /\ Answer(p, u)
      BY <1>1 DEF PostReturns, DeleteReturns, GetFails
  <2> QED BY <2>1, ReturnApiece, AnswerQuiet
<1>2. CASE AllLeaves(p) \/ LockTimesOut(p)
  <2>1. UNCHANGED vars /\ \E u : u # 200 /\ Answer(p, u)
      BY <1>2 DEF AllLeaves, LockTimesOut
  <2> QED BY <2>1, StillApiece, AnswerQuiet
<1>3. CASE LockGranted(p)
  <2>1. FlagOf(v.req) \in Key /\ SetFlag(FlagOf(v.req), Locked) /\ Answer(p, 204)
      BY <1>0, <1>3 DEF LockGranted, PageInv
  <2> QED BY <2>1, FlagApiece, AnswerQuiet
<1>4. CASE LockWaits(p)
  <2> DEFINE w == WithStep(v, "waiting")
  <2>1. web' = [web EXCEPT ![p] = w] /\ UNCHANGED vars
      BY <1>4 DEF LockWaits, WebGoto, WithStep
  <2> HIDE DEF v
  <2>2. w.step = "waiting"
      BY <1>0, OneField DEF Has
  <2> HIDE DEF w
  <2> QED BY <2>1, <2>2, StillApiece, QuietStep
<1>5. CASE Finish(p)
  <2>1. web' = [web EXCEPT ![p] = NoRequest] /\ UNCHANGED vars /\ NoRequest.step = "idle"
      BY <1>5 DEF Finish, NoRequest
  <2> QED BY <2>1, StillApiece, QuietStep
<1>6. CASE SetLeaf(p)
  <2> DEFINE R(i) == [op |-> "set", q |-> [NoQuery EXCEPT !.pre = i.path], arg |-> i.val]
             W(i) == WithLast(WithTodo(v, v.todo \ {i}), i.path)
  <2>1. PICK i \in v.todo : Begin(p, R(i)) /\ web' = [web EXCEPT ![p] = W(i)]
      BY <1>6 DEF SetLeaf, WithLast, WithTodo
  <2>2. v.step = "leaves" /\ LeavesInv(v, call[p].step)
      BY <1>0, <1>6 DEF SetLeaf, PageInv
  <2>3. i.path \in Seq(STRING)
      BY <2>1, <2>2, LeavesAreNamed DEF LeavesInv
  <2>4. IsRequest(R(i))
      BY <2>3, LeafIsRequest
  <2>5. Apiece(p)
      BY <2>1, <2>4, BeginApiece
  <2> DEFINE w == W(i)
  <2>w. web' = [web EXCEPT ![p] = w]
      BY <2>1
  <2> HIDE DEF v, R
  <2>6. w.step = "leaves"
      BY <1>0, <2>2, OneField DEF Has
  <2> HIDE DEF w, W
  <2> QED BY <2>w, <2>5, <2>6, QuietStep
<1>7. CASE LeafIsSet(p) \/ LeafFails(p)
  <2> DEFINE todo == IF v.req.method = "setjson" THEN v.todo ELSE {}
             x == WithWrote(v, v.wrote \cup {v.last})
             y == WithTodo(WithFailed(v, v.failed \cup {v.last}), todo)
  <2>1. Return(p) /\ v.step = "leaves"
      BY <1>7 DEF LeafIsSet, LeafFails
  <2>2. LeafIsSet(p) => web' = [web EXCEPT ![p] = x]
      BY DEF LeafIsSet, WithWrote
  <2>3. LeafFails(p) => web' = [web EXCEPT ![p] = y]
      BY DEF LeafFails, WithFailed, WithTodo
  <2> HIDE DEF v
  <2>4. x.step = "leaves" /\ y.step = "leaves"
      BY <1>0, <2>1, OneField DEF Has
  <2>5. \E w : web' = [web EXCEPT ![p] = w] /\ w.step = "leaves"
    <3> HIDE DEF x, y
    <3> QED BY <1>7, <2>2, <2>3, <2>4
  <2> QED BY <2>1, <2>5, ReturnApiece, QuietStep
<1> QED BY <1>1, <1>2, <1>3, <1>4, <1>5, <1>6, <1>7

(* A step that leaves the requests as they are. *)
LEMMA OnlyCalls ==
    ASSUME JsonInv, NEW p \in Client, Apiece(p), UNCHANGED web,
           web[p].step = "call" => SameQuery(call'[p], call[p]) /\ call'[p].step # "idle"
    PROVE  \A r \in Client : AnswerInv(web'[r], call'[r])
<1> SUFFICES ASSUME NEW r \in Client PROVE AnswerInv(web[r], call'[r])
    OBVIOUS
<1>1. AnswerInv(web[r], call[r])
    BY DEF JsonInv
<1>2. CASE web[r].step = "call"
    BY <1>1, <1>2 DEF Apiece, SameQuery, AnswerInv
<1>3. CASE web[r].step # "call"
    BY <1>1, <1>3 DEF AnswerInv
<1> QED BY <1>2, <1>3

LEMMA JsonInit == HttpInit => JsonInv
<1> SUFFICES ASSUME HttpInit PROVE JsonInv
    OBVIOUS
<1>1. web = [p \in Client |-> NoRequest] /\ NoRequest.step = "idle"
    BY DEF HttpInit, NoRequest
<1>2. \A c : AnswerInv(NoRequest, c)
    BY <1>1, NothingToTell
<1> QED BY <1>1, <1>2, HttpInitInv DEF JsonInv

LEMMA JsonNext == JsonInv /\ [HttpNext]_httpVars => JsonInv'
<1> SUFFICES ASSUME JsonInv, [HttpNext]_httpVars
             PROVE  \A r \in Client : AnswerInv(web'[r], call'[r])
    BY HttpNextInv DEF JsonInv
<1>1. ASSUME NEW p \in Client, Handler(p)
      PROVE  \A r \in Client : AnswerInv(web'[r], call'[r])
  <2>1. CASE web[p].step \in {"call", "leaves"} /\ Work(p) /\ UNCHANGED web
      BY <2>1, WorkApiece, OnlyCalls
  <2> QED BY <1>1, <2>1, HandlerAnswer, GetReturnsAnswer, InsertAnswer, EncodeAnswer DEF Handler
<1>2. ASSUME NEW p \in Client, Elsewhere(p)
      PROVE  \A r \in Client : AnswerInv(web'[r], call'[r])
  <2>1. web[p].step # "call" /\ UNCHANGED web
      BY <1>2 DEF Elsewhere
  <2>2. CASE Step(p)
      BY <2>1, <2>2, WorkApiece, ReturnApiece, OnlyCalls DEF Step
  <2>3. ASSUME NEW r \in Rival, Begin(p, r)
        PROVE  \A s \in Client : AnswerInv(web'[s], call'[s])
      BY <2>1, <2>3, HttpAssumption, BeginApiece, OnlyCalls
  <2> QED BY <1>2, <2>2, <2>3 DEF Elsewhere
<1>3. CASE UNCHANGED httpVars
    BY <1>3 DEF httpVars, vars, JsonInv
<1> QED BY <1>1, <1>2, <1>3, ArriveAnswer DEF HttpNext

LEMMA JsonKeepsAll == JsonInv => AnswerKeepsAll
BY DEF JsonInv, AnswerInv, KeepsAll, AnswerKeepsAll
----------------------------------------------------------------------------
(* In every state the calls of the controller, whoever makes them, have    *)
(* missed no name that stands and gathered none that was not asked for.    *)
THEOREM QueriesIInv == Spec => []QueryInv
<1>1. QueryInv /\ [Next]_vars => QueryInv'
    BY AnyStepInv, NextIsAnyStep
<1> QED BY <1>1, InitInv, PTL DEF Spec

(* The same, and the state of the requests of HTTP, in every state of the  *)
(* requests, the calls they make and those of others.                      *)
THEOREM HttpIInv == HttpSpec => []HttpInv
BY HttpInitInv, HttpNextInv, PTL DEF HttpSpec

(* GetVars returns the values that stood all along, under names that match *)
(* and no other, in spite of what was written in the meantime; for clients *)
(* of the controller and those of HTTP.                                    *)
THEOREM QueryAnswerIsExact == (Spec => []AnswerIsExact) /\ (HttpSpec => []AnswerIsExact)
<1>1. HttpInv => QueryInv
    BY DEF HttpInv
<1> QED BY <1>1, QueriesIInv, HttpIInv, InvIsExact, PTL

(* GetChildsOfVar lists the own word of every child that stood all along,  *)
(* and no word that is hidden or of no child.                              *)
THEOREM QueryChildrenAreListed ==
    (Spec => []ChildrenAreListed) /\ (HttpSpec => []ChildrenAreListed)
<1>1. HttpInv => QueryInv
    BY DEF HttpInv
<1> QED BY <1>1, QueriesIInv, HttpIInv, InvIsListed, PTL

(* SetVar and DelVar that return no error have reached every name that     *)
(* matched and stood all along.                                            *)
THEOREM QuerySuccessReachesAll ==
    (Spec => []SuccessReachesAll) /\ (HttpSpec => []SuccessReachesAll)
<1>1. HttpInv => QueryInv
    BY DEF HttpInv
<1> QED BY <1>1, QueriesIInv, HttpIInv, InvReachesAll, PTL

(* A hidden variable changes only by a lock, or when a deletion has its    *)
(* hidden word spelt out, before the '*' or after it.                      *)
THEOREM QueryHiddenIsKept == (Spec => HiddenIsKept) /\ (HttpSpec => HiddenIsKept)
<1>1. QueryInv /\ [Next]_vars => [HiddenStays]_vars
    BY AnyStepKeeps, NextIsAnyStep
<1>2. HttpInv /\ [HttpNext]_httpVars => [HiddenStays]_vars
  <2>1. HttpInv => QueryInv
      BY DEF HttpInv
  <2> QED BY <2>1, AnyStepKeeps, HttpIsAnyStep
<1>3. [][HiddenStays]_vars => HiddenIsKept
    BY PTL DEF HiddenIsKept, HiddenStays
<1> QED BY <1>1, <1>2, <1>3, QueriesIInv, HttpIInv, PTL DEF Spec, HttpSpec

(* handlePostJson and setjson: when a document has been answered, each of  *)
(* its names was set or refused, and a POST that left names out had one    *)
(* refused; nothing else was set.                                          *)
THEOREM HttpPostIsHonest == HttpSpec => []PostIsHonest
<1>1. HttpInv => PostIsHonest
    BY DEF HttpInv, PageInv, Honest, PostIsHonest, Document, NamesOf
<1> QED BY <1>1, HttpIInv, PTL

(* What has been found, and the JSON as far as it is built, in every state *)
(* of a GET.                                                               *)
THEOREM HttpJsonInv == HttpSpec => []JsonInv
BY JsonInit, JsonNext, PTL DEF HttpSpec

(* handleGetByName, insertNested and normalizeArrays: the JSON of a GET    *)
(* has every value that GetVars found under its own name, and nothing      *)
(* else, in whatever order the names came and whichever objects became     *)
(* arrays; except the value of the name before a '*' and a lone true.      *)
THEOREM HttpAnswerKeepsAll == HttpSpec => []AnswerKeepsAll
BY HttpJsonInv, JsonKeepsAll, PTL
=============================================================================
