-------------------------- MODULE ObserversProofs --------------------------
(***************************************************************************)
(* Who observes what: the two records of a subscription agree between the  *)
(* commands of clients that send one at a time, and whatever goes wrong    *)
(* nobody is taken off a list by the work for another, for any number of   *)
(* clients, variables, goroutines and commands.                            *)
(***************************************************************************)
EXTENDS Observers, FiniteSetTheorems, WellFoundedInduction, TLAPS

ObserversOf == [list : Seq(Pair), ent : SUBSET Pair, root : SUBSET Client]

Job == [at : Places, c : Client \cup {NoClient}, v : Var \cup {NoVar},
        m : Meta \cup {NoMeta}, left : SUBSET Var]

OfAVar == {"obsCheck", "obsInit", "obsRegister", "obsNew",
           "stopRemove", "stopInit", "stopUnregister"}

(* A worker that is not idle works for a client, and the variables it has  *)
(* to visit are variables.                                                 *)
JobOK(j) ==
    /\ j \in Job
    /\ j.at = "idle" <=> j.c = NoClient
    /\ j.at \in OfAVar => j.v \in Var

Types ==
    /\ observers \in [Var -> ObserversOf]
    /\ observing \in [Client -> Seq(Var)]
    /\ job \in [Worker -> Job] /\ \A w \in Worker : JobOK(job[w])
    /\ env \in Setting

(* No orderly client is ever deleted: the API runs, and whoever is listed  *)
(* or about to be has an apiId, so that no notification fails to find one. *)
Alive ==
    /\ started
    /\ \A v \in Var : \A e \in Listed(observers[v]) : e[1] \in capi
    /\ \A w \in Worker :
         /\ job[w].at \notin {"ntfInitNil", "delSnap", "delVars", "delClient"}
         /\ job[w].at \in {"obsRegister", "ntfApi"} => job[w].c \in capi

(* One command of a client at a time. *)
Commanding(w) == job[w].at \notin {"idle", "ntfApi", "ntfInit", "send"}

Serial == \A w, x \in Worker :
    Commanding(w) /\ Commanding(x) /\ job[w].c = job[x].c => w = x

(* What the commands have found out about the list is still so. *)
Found == \A w \in Worker :
    LET e == <<job[w].c, job[w].m>>
    IN  /\ job[w].at \in {"obsInit", "obsRegister"} => e \notin Listed(observers[job[w].v])
        /\ job[w].at = "stopRemove" => e \in Listed(observers[job[w].v])

(* No pair is twice on a list, and whoever is listed has an entry. *)
Once(s) == \A i, j \in DOMAIN s : s[i] = s[j] => i = j

Entered(o) ==
    /\ \A e \in o.ent : e[1] \in o.root
    /\ \A e \in Listed(o) : IsClientObserving(o, e[1], e[2])

(* The two counts of a client's subscriptions to a variable, of which a    *)
(* command under way has changed one and not yet the other.                *)
Hits(s, E) == {i \in DOMAIN s : s[i] \in E}
Count(s, E) == Cardinality(Hits(s, E))
OwnCount(c, v) == Count(observing[c], {v})
ListCount(c, v) == Count(observers[v].list, {c} \X (Meta \cup {NoMeta}))

On(w, c, v, places) == job[w].c = c /\ job[w].v = v /\ job[w].at \in places
Halfway == {"obsNew", "stopInit", "stopUnregister"}

Counted(c, v) ==
    /\ \A w \in Worker : On(w, c, v, {"obsNew"}) => ListCount(c, v) = OwnCount(c, v) + 1
    /\ \A w \in Worker : On(w, c, v, {"stopInit", "stopUnregister"}) =>
           OwnCount(c, v) = ListCount(c, v) + 1
    /\ (\A w \in Worker : ~On(w, c, v, Halfway)) => OwnCount(c, v) = ListCount(c, v)

InOrder ==
    /\ Alive /\ Serial /\ Found
    /\ \A v \in Var : Once(observers[v].list) /\ Entered(observers[v])
    /\ \A c \in Client, v \in Var : Counted(c, v)

ObsInv == Types /\ (Orderly => InOrder)
----------------------------------------------------------------------------
(* The operators on sequences that the model is built from. *)

LEMMA LeastNatural ==
    ASSUME NEW T \in SUBSET Nat, T # {}
    PROVE  \E x \in T : \A y \in T : x <= y
<1> DEFINE R == OpToRel(<, Nat)
<1>1. IsWellFoundedOn(R, Nat)
    BY NatLessThanWellFounded
<1>2. \E x \in T : \A y \in T : ~(<<y, x>> \in R)
  <2> HIDE DEF R
  <2> QED BY <1>1, WFMin
<1>3. \A x, y \in T : ~(<<y, x>> \in R) => x <= y
    BY DEF OpToRel
<1> QED BY <1>2, <1>3, Zenon

(* RemoveAt closes the list up behind the place. *)
LEMMA RemoveAtIs ==
    ASSUME NEW S, NEW s \in Seq(S), NEW i \in 1 .. Len(s)
    PROVE  /\ RemoveAt(s, i) \in Seq(S)
           /\ Len(RemoveAt(s, i)) = Len(s) - 1
           /\ \A j \in 1 .. Len(s) - 1 :
                RemoveAt(s, i)[j] = IF j < i THEN s[j] ELSE s[j + 1]
<1> DEFINE a == SubSeq(s, 1, i - 1)
           b == SubSeq(s, i + 1, Len(s))
<1>1. a \in Seq(S) /\ Len(a) = i - 1 /\ \A j \in 1 .. i - 1 : a[j] = s[j]
    OBVIOUS
<1>2. b \in Seq(S) /\ Len(b) = Len(s) - i /\ \A j \in 1 .. Len(s) - i : b[j] = s[i + j]
    OBVIOUS
<1>3. RemoveAt(s, i) = a \o b
    BY DEF RemoveAt
<1> HIDE DEF a, b
<1> DEFINE r == a \o b
<1>4. r \in Seq(S) /\ Len(r) = Len(s) - 1
  <2>1. \A x, y \in Seq(S) : x \o y \in Seq(S) /\ Len(x \o y) = Len(x) + Len(y)
    OBVIOUS
  <2>2. Len(s) \in Nat /\ i \in Nat
    OBVIOUS
  <2>3. r \in Seq(S) /\ Len(r) = Len(a) + Len(b)
    BY <1>1, <1>2, <2>1, Zenon
  <2> QED BY <1>1, <1>2, <2>2, <2>3
<1>5. \A j \in 1 .. Len(s) - 1 : r[j] = IF j < i THEN s[j] ELSE s[j + 1]
    BY <1>1, <1>2
<1> QED BY <1>3, <1>4, <1>5

(* SelectLastInSeq finds the last occurrence, and SelectInSeq the first. *)
LEMMA LastIs ==
    ASSUME NEW S, NEW s \in Seq(S), NEW x
    PROVE  LET i == SelectLastInSeq(s, LAMBDA e : e = x)
           IN  /\ i \in 0 .. Len(s)
               /\ i = 0 => \A j \in 1 .. Len(s) : s[j] # x
               /\ i # 0 => s[i] = x
<1> DEFINE I == {j \in 1 .. Len(s) : s[j] = x}
           i == SelectLastInSeq(s, LAMBDA e : e = x)
<1>1. i = IF I # {} THEN Max(I) ELSE 0
    BY DEF SelectLastInSeq
<1>2. CASE I = {}
    BY <1>1, <1>2
<1>3. CASE I # {}
  <2> DEFINE T == {Len(s) - j : j \in I}
  <2>1. T \in SUBSET Nat /\ T # {}
    BY <1>3
  <2>2. PICK t \in T : \A y \in T : t <= y
    BY <2>1, LeastNatural
  <2>3. PICK k \in I : t = Len(s) - k
    BY <2>2
  <2>4. \A y \in I : k >= y
    <3> SUFFICES ASSUME NEW y \in I PROVE k >= y
        OBVIOUS
    <3>1. Len(s) - y \in T
        OBVIOUS
    <3>2. t <= Len(s) - y
        BY <2>2, <3>1
    <3>3. k \in Nat /\ y \in Nat /\ Len(s) \in Nat
        OBVIOUS
    <3> HIDE DEF T, I
    <3> QED BY <2>3, <3>2, <3>3
  <2>5. Max(I) \in I
    BY <2>4 DEF Max
  <2> QED BY <1>1, <1>3, <2>5
<1> QED BY <1>2, <1>3

LEMMA FirstIs ==
    ASSUME NEW S, NEW s \in Seq(S), NEW x, \E j \in 1 .. Len(s) : s[j] = x
    PROVE  LET i == SelectInSeq(s, LAMBDA e : e = x)
           IN  i \in 1 .. Len(s) /\ s[i] = x
<1> DEFINE I == {j \in 1 .. Len(s) : s[j] = x}
           i == SelectInSeq(s, LAMBDA e : e = x)
<1>1. I \in SUBSET Nat /\ I # {} /\ i = Min(I)
    BY DEF SelectInSeq
<1>2. PICK t \in I : \A y \in I : t <= y
    BY <1>1, LeastNatural
<1>3. Min(I) \in I
    BY <1>2 DEF Min
<1> QED BY <1>1, <1>3

LEMMA RemoveFirstIs ==
    ASSUME NEW S, NEW s \in Seq(S), NEW x
    PROVE  /\ RemoveFirst(s, x) \in Seq(S)
           /\ \/ RemoveFirst(s, x) = s /\ \A i \in 1 .. Len(s) : s[i] # x
              \/ \E i \in 1 .. Len(s) : s[i] = x /\ RemoveFirst(s, x) = RemoveAt(s, i)
<1>1. CASE \E i \in 1 .. Len(s) : s[i] = x
  <2> DEFINE i == SelectInSeq(s, LAMBDA e : e = x)
  <2>1. i \in 1 .. Len(s) /\ s[i] = x
    BY <1>1, FirstIs
  <2>2. RemoveFirst(s, x) = RemoveAt(s, i)
    BY <1>1 DEF RemoveFirst
  <2> HIDE DEF i
  <2>3. RemoveAt(s, i) \in Seq(S)
    BY <2>1, RemoveAtIs
  <2> QED BY <2>1, <2>2, <2>3
<1>2. CASE \A i \in 1 .. Len(s) : s[i] # x
    BY <1>2 DEF RemoveFirst
<1> QED BY <1>1, <1>2

(* How often the members of a set occur in a list that grows or shrinks. *)
LEMMA CountIs ==
    ASSUME NEW S, NEW s \in Seq(S), NEW E
    PROVE  IsFiniteSet(Hits(s, E)) /\ Count(s, E) \in Nat
<1>1. IsFiniteSet(1 .. Len(s))
    BY FS_Interval
<1>2. Hits(s, E) \subseteq 1 .. Len(s)
    BY DEF Hits
<1>3. IsFiniteSet(Hits(s, E))
    BY <1>1, <1>2, FS_Subset
<1> QED BY <1>3, FS_CardinalityType DEF Count

LEMMA CountAppend ==
    ASSUME NEW S, NEW s \in Seq(S), NEW x \in S, NEW E
    PROVE  Count(Append(s, x), E) = Count(s, E) + (IF x \in E THEN 1 ELSE 0)
<1> DEFINE n == Len(s) + 1
<1>1. Len(s) \in Nat /\ DOMAIN s = 1 .. Len(s) /\ DOMAIN Append(s, x) = 1 .. n
    OBVIOUS
<1>2. Append(s, x)[n] = x /\ \A i \in 1 .. Len(s) : Append(s, x)[i] = s[i]
    OBVIOUS
<1>3. IsFiniteSet(Hits(s, E)) /\ Count(s, E) \in Nat
    BY CountIs
<1>4. CASE x \in E
  <2>1. Hits(Append(s, x), E) = Hits(s, E) \cup {n}
    BY <1>1, <1>2, <1>4 DEF Hits
  <2>2. n \notin Hits(s, E)
    BY <1>1 DEF Hits
  <2>3. Cardinality(Hits(s, E) \cup {n}) = Cardinality(Hits(s, E)) + 1
    BY <1>3, <2>2, FS_AddElement
  <2> QED BY <1>4, <2>1, <2>3 DEF Count
<1>5. CASE x \notin E
  <2>1. Hits(Append(s, x), E) = Hits(s, E)
    BY <1>1, <1>2, <1>5 DEF Hits
  <2> QED BY <1>3, <1>5, <2>1 DEF Count
<1> QED BY <1>4, <1>5

LEMMA CountRemove ==
    ASSUME NEW S, NEW s \in Seq(S), NEW i \in 1 .. Len(s), NEW E
    PROVE  Count(RemoveAt(s, i), E) = Count(s, E) - (IF s[i] \in E THEN 1 ELSE 0)
<1> DEFINE r == RemoveAt(s, i)
           R == Hits(r, E)
           L == Hits(s, E)
           f == [j \in R |-> IF j < i THEN j ELSE j + 1]
<1>1. /\ r \in Seq(S) /\ Len(r) = Len(s) - 1
      /\ \A j \in 1 .. Len(s) - 1 : r[j] = IF j < i THEN s[j] ELSE s[j + 1]
    BY RemoveAtIs
<1> HIDE DEF r
<1>2. Len(s) \in Nat /\ DOMAIN s = 1 .. Len(s) /\ DOMAIN r = 1 .. Len(s) - 1
    BY <1>1
<1>3. /\ R = {j \in 1 .. Len(s) - 1 : r[j] \in E}
      /\ L = {j \in 1 .. Len(s) : s[j] \in E}
    BY <1>2 DEF Hits
<1> HIDE DEF R, L
<1>4. f \in Bijection(R, L \ {i})
  <2>1. f \in [R -> L \ {i}]
    BY <1>1, <1>2, <1>3
  <2>2. \A a, b \in R : f[a] = f[b] => a = b
    BY <1>2, <1>3
  <2>3. \A k \in L \ {i} : \E j \in R : f[j] = k
    <3> SUFFICES ASSUME NEW k \in L \ {i} PROVE \E j \in R : f[j] = k
        OBVIOUS
    <3> DEFINE j == IF k < i THEN k ELSE k - 1
    <3>1. j \in R /\ f[j] = k
        BY <1>1, <1>2, <1>3
    <3> QED BY <3>1
  <2> HIDE DEF f
  <2> QED BY <2>1, <2>2, <2>3 DEF Bijection, Injection, Surjection, IsInjective
<1>5. IsFiniteSet(R) /\ Cardinality(R) \in Nat
    BY <1>1, CountIs DEF R, Count
<1>6. IsFiniteSet(L) /\ Cardinality(L) \in Nat
    BY CountIs DEF L, Count
<1>7. Cardinality(R) = Cardinality(L \ {i})
    BY <1>4, <1>5, FS_Bijection DEF ExistsBijection
<1>8. Cardinality(L \ {i}) = IF i \in L THEN Cardinality(L) - 1 ELSE Cardinality(L)
    BY <1>6, FS_RemoveElement
<1>9. i \in L <=> s[i] \in E
    BY <1>3
<1>10. Cardinality(R) = Cardinality(L) - (IF s[i] \in E THEN 1 ELSE 0)
    BY <1>6, <1>7, <1>8, <1>9
<1> QED BY <1>10 DEF R, L, r, Count
----------------------------------------------------------------------------
(* OthersKept: nothing done, one thing after another, a pair of the client *)
(* added, a pair of the client taken out.                                  *)

Others(s, c) == {i \in DOMAIN s : s[i][1] # c}

Placed(s, t, c, place) ==
    /\ place \in [Others(s, c) -> Others(t, c)]
    /\ \A i \in Others(s, c) : t[place[i]] = s[i]
    /\ \A i, j \in Others(s, c) : i < j => place[i] < place[j]
    /\ \A k \in Others(t, c) : \E i \in Others(s, c) : place[i] = k

LEMMA KeptIfPlaced ==
    ASSUME NEW s, NEW t, NEW c
    PROVE  OthersKept(s, t, c) <=> \E place : Placed(s, t, c, place)
    BY Zenon DEF OthersKept, Placed, Others

LEMMA KeptSame ==
    ASSUME NEW S, NEW s \in Seq(S), NEW c
    PROVE  OthersKept(s, s, c)
<1> DEFINE place == [i \in Others(s, c) |-> i]
<1>1. Placed(s, s, c, place)
    BY DEF Placed
<1> QED BY <1>1, KeptIfPlaced, Zenon

LEMMA KeptThen ==
    ASSUME NEW s, NEW t, NEW u, NEW c, OthersKept(s, t, c), OthersKept(t, u, c)
    PROVE  OthersKept(s, u, c)
<1>1. PICK f : Placed(s, t, c, f)
    BY KeptIfPlaced, Zenon
<1>2. PICK g : Placed(t, u, c, g)
    BY KeptIfPlaced, Zenon
<1> DEFINE h == [i \in Others(s, c) |-> g[f[i]]]
           A == Others(s, c)
           B == Others(t, c)
           C == Others(u, c)
<1> HIDE DEF A, B, C
<1>3. /\ f \in [A -> B] /\ \A i \in A : t[f[i]] = s[i]
      /\ \A i, j \in A : i < j => f[i] < f[j]
      /\ \A k \in B : \E i \in A : f[i] = k
    BY <1>1, Zenon DEF Placed, A, B
<1>4. /\ g \in [B -> C] /\ \A i \in B : u[g[i]] = t[i]
      /\ \A i, j \in B : i < j => g[i] < g[j]
      /\ \A k \in C : \E i \in B : g[i] = k
    BY <1>2, Zenon DEF Placed, B, C
<1>5. h \in [A -> C] /\ \A i \in A : h[i] = g[f[i]]
    BY <1>3, <1>4 DEF A
<1> HIDE DEF h
<1>6. /\ \A i \in A : u[h[i]] = s[i]
      /\ \A i, j \in A : i < j => h[i] < h[j]
      /\ \A k \in C : \E i \in A : h[i] = k
    BY <1>3, <1>4, <1>5
<1>7. Placed(s, u, c, h)
    BY <1>5, <1>6, Zenon DEF Placed, A, C
<1> QED BY <1>7, KeptIfPlaced, Zenon

LEMMA KeptAppend ==
    ASSUME NEW S, NEW s \in Seq(S), NEW c, NEW m, <<c, m>> \in S
    PROVE  OthersKept(s, Append(s, <<c, m>>), c)
<1> DEFINE e == <<c, m>>
           t == Append(s, e)
           place == [i \in Others(s, c) |-> i]
<1>1. e[1] = c /\ e \in S
    OBVIOUS
<1> HIDE DEF e
<1>2. Len(s) \in Nat /\ DOMAIN s = 1 .. Len(s) /\ DOMAIN t = 1 .. Len(s) + 1
    BY <1>1
<1>3. t[Len(s) + 1] = e /\ \A i \in 1 .. Len(s) : t[i] = s[i]
    BY <1>1
<1> HIDE DEF t
<1>4. Others(t, c) = Others(s, c)
    BY <1>1, <1>2, <1>3 DEF Others
<1>5. \A i \in Others(s, c) : t[i] = s[i]
    BY <1>2, <1>3 DEF Others
<1>6. Placed(s, t, c, place)
    BY <1>4, <1>5 DEF Placed
<1> QED BY <1>6, KeptIfPlaced, Zenon DEF t, e

LEMMA KeptRemove ==
    ASSUME NEW S, NEW s \in Seq(S), NEW i \in 1 .. Len(s), NEW c, s[i][1] = c
    PROVE  OthersKept(s, RemoveAt(s, i), c)
<1> DEFINE t == RemoveAt(s, i)
           A == Others(s, c)
           B == Others(t, c)
           place == [k \in A |-> IF k < i THEN k ELSE k - 1]
<1>1. /\ t \in Seq(S) /\ Len(t) = Len(s) - 1
      /\ \A j \in 1 .. Len(s) - 1 : t[j] = IF j < i THEN s[j] ELSE s[j + 1]
    BY RemoveAtIs
<1> HIDE DEF t
<1>2. Len(s) \in Nat /\ DOMAIN s = 1 .. Len(s) /\ DOMAIN t = 1 .. Len(s) - 1
    BY <1>1
<1>3. /\ A = {k \in 1 .. Len(s) : s[k][1] # c}
      /\ B = {k \in 1 .. Len(s) - 1 : t[k][1] # c}
    BY <1>2 DEF Others
<1> HIDE DEF A, B
<1>4. \A k \in A : k \in 1 .. Len(s) /\ k # i
    BY <1>3
<1>5. \A k \in A : place[k] \in 1 .. Len(s) - 1 /\ t[place[k]] = s[k]
    BY <1>1, <1>2, <1>4
<1>6. place \in [A -> B]
    BY <1>3, <1>5
<1>7. \A j, k \in A : j < k => place[j] < place[k]
    BY <1>2, <1>4
<1>8. \A k \in B : \E j \in A : place[j] = k
  <2> SUFFICES ASSUME NEW k \in B PROVE \E j \in A : place[j] = k
    OBVIOUS
  <2> DEFINE j == IF k < i THEN k ELSE k + 1
  <2>1. j \in A /\ place[j] = k
    BY <1>1, <1>2, <1>3
  <2> QED BY <2>1
<1> HIDE DEF place
<1>9. Placed(s, t, c, place)
    BY <1>5, <1>6, <1>7, <1>8, Zenon DEF Placed, A, B
<1> QED BY <1>9, KeptIfPlaced, Zenon DEF t
----------------------------------------------------------------------------
(* The observers of one variable. *)

Metas == Meta \cup {NoMeta}

LEMMA RegisterIs ==
    ASSUME NEW o \in ObserversOf, NEW c \in Client, NEW m \in Metas
    PROVE  LET r == RegisterObservation(o, c, m)
           IN  /\ r \in ObserversOf
               /\ r.list = Append(o.list, <<c, m>>)
               /\ r.ent = o.ent \cup (IF m = NoMeta THEN {} ELSE {<<c, m>>})
               /\ r.root = o.root \cup {c}
<1> DEFINE p == <<c, m>>
           r == RegisterObservation(o, c, m)
           ent == o.ent \cup {e \in {p} : e[2] # NoMeta}
           root == o.root \cup {e[1] : e \in {p}}
<1>1. p \in Pair /\ p[1] = c /\ p[2] = m
    BY DEF Pair, Metas
<1>2. r = [o EXCEPT !.list = Append(@, p), !.ent = ent, !.root = root]
    BY DEF RegisterObservation, WithEntries, ObserversOf
<1>3. ent = o.ent \cup (IF m = NoMeta THEN {} ELSE {p}) /\ root = o.root \cup {c}
    BY <1>1
<1>4. ent \in SUBSET Pair /\ root \in SUBSET Client /\ Append(o.list, p) \in Seq(Pair)
    BY <1>1, <1>3 DEF ObserversOf
<1> HIDE DEF p, r, ent, root
<1>5. /\ r \in ObserversOf
      /\ r.list = Append(o.list, p) /\ r.ent = ent /\ r.root = root
    BY <1>2, <1>4 DEF ObserversOf
<1> QED BY <1>3, <1>5 DEF r, p

(* internalRemoveObserving takes one pair of the client out, or finds none *)
(* to take; the entries of the others stay.                                *)
Removed(o, r, c, m, i) ==
    /\ i \in 1 .. Len(o.list) /\ o.list[i] = <<c, m>>
    /\ r \in ObserversOf /\ r.list = RemoveAt(o.list, i)
    /\ \E shifted \in SUBSET Listed(o) : \E ent, root :
         /\ ent = o.ent \cup {e \in shifted : e[2] # NoMeta}
         /\ root = o.root \cup {e[1] : e \in shifted}
         /\ r.ent = IF m = NoMeta THEN ent ELSE ent \ {<<c, m>>}
         /\ r.root = IF m = NoMeta /\ ~(\E e \in ent : e[1] = c) THEN root \ {c} ELSE root

LEMMA RemoveIs ==
    ASSUME NEW o \in ObserversOf, NEW c, NEW m
    PROVE  LET r == internalRemoveObserving(o, c, m)
           IN  \/ r = o /\ \A j \in 1 .. Len(o.list) : o.list[j] # <<c, m>>
               \/ \E i : Removed(o, r, c, m, i)
<1> DEFINE p == <<c, m>>
           r == internalRemoveObserving(o, c, m)
           i == SelectLastInSeq(o.list, LAMBDA e : e = <<c, m>>)
           shifted == {o.list[j] : j \in i + 1 .. Len(o.list)}
           ent == o.ent \cup {e \in shifted : e[2] # NoMeta}
           root == o.root \cup {e[1] : e \in shifted}
           list == RemoveAt(o.list, i)
           q == [o EXCEPT !.list = list, !.ent = ent, !.root = root]
           ent2 == IF m = NoMeta THEN ent ELSE ent \ {p}
           root2 == IF m = NoMeta /\ ~(\E e \in ent : e[1] = c) THEN root \ {c} ELSE root
<1>1. o.list \in Seq(Pair)
    BY DEF ObserversOf
<1>2. /\ i \in 0 .. Len(o.list)
      /\ i = 0 => \A j \in 1 .. Len(o.list) : o.list[j] # p
      /\ i # 0 => o.list[i] = p
    BY <1>1, LastIs
<1>3. r = IF i = 0 THEN o
          ELSE WithoutEntry(WithEntries([o EXCEPT !.list = list], shifted), c, m)
    BY DEF internalRemoveObserving
<1> HIDE DEF i
<1>4. CASE i = 0
    BY <1>2, <1>3, <1>4
<1>5. CASE i # 0
  <2>1. i \in 1 .. Len(o.list) /\ o.list[i] = p
    BY <1>2, <1>5
  <2>2. list \in Seq(Pair)
    BY <1>1, <2>1, RemoveAtIs
  <2>3. shifted \in SUBSET Listed(o) /\ shifted \in SUBSET Pair
    BY <1>1, <2>1 DEF Listed, Range
  <2>4. ent \in SUBSET Pair /\ root \in SUBSET Client
    BY <2>3 DEF Pair, ObserversOf
  <2>5. ent2 \in SUBSET Pair /\ root2 \in SUBSET Client
    BY <2>4
  <2>6. WithEntries([o EXCEPT !.list = list], shifted) = q
    BY DEF WithEntries, ObserversOf
  <2>7. r = WithoutEntry(q, c, m)
    BY <1>3, <1>5, <2>6
  <2> HIDE DEF r, list, shifted, ent, root
  <2>8. q \in ObserversOf /\ q.list = list /\ q.ent = ent /\ q.root = root
    BY <2>2, <2>4 DEF ObserversOf
  <2> HIDE DEF q
  <2>9. r = IF m # NoMeta THEN [q EXCEPT !.ent = ent \ {p}]
            ELSE [q EXCEPT !.root = IF \E e \in ent : e[1] = c THEN root ELSE root \ {c}]
    BY <2>7, <2>8 DEF WithoutEntry, ObserversOf
  <2>10. r.list = list /\ r.ent = ent2 /\ r.root = root2
    BY <2>8, <2>9 DEF ObserversOf
  <2>11. r \in ObserversOf
    BY <2>4, <2>8, <2>9 DEF ObserversOf
  <2>12. Removed(o, r, c, m, i)
    <3>1. /\ ent = o.ent \cup {e \in shifted : e[2] # NoMeta}
          /\ root = o.root \cup {e[1] : e \in shifted}
        BY DEF ent, root
    <3> QED BY <2>1, <2>3, <2>10, <2>11, <3>1, Zenon DEF Removed, list, p
  <2> QED BY <2>12 DEF r
<1> QED BY <1>4, <1>5

LEMMA RemoveKeepsOthers ==
    ASSUME NEW o \in ObserversOf, NEW c, NEW m
    PROVE  LET r == internalRemoveObserving(o, c, m)
           IN  r \in ObserversOf /\ OthersKept(o.list, r.list, c)
<1> DEFINE r == internalRemoveObserving(o, c, m)
<1>1. o.list \in Seq(Pair)
    BY DEF ObserversOf
<1>2. CASE r = o
    BY <1>1, <1>2, KeptSame
<1>3. CASE \E i : Removed(o, r, c, m, i)
  <2>1. PICK i : Removed(o, r, c, m, i)
    BY <1>3
  <2>2. /\ i \in 1 .. Len(o.list) /\ o.list[i][1] = c
        /\ r \in ObserversOf /\ r.list = RemoveAt(o.list, i)
    BY <2>1 DEF Removed
  <2> QED BY <1>1, <2>2, KeptRemove
<1> QED BY <1>2, <1>3, RemoveIs

(* The loop of RemoveAllClientObservations: its results exist, one after   *)
(* the other, and each keeps the others, as an induction over the places   *)
(* visited shows, which takes the least one for which it would not be so.  *)
IsVisited(f, o, c, n) ==
    f = [k \in 0 .. n |-> IF k = 0 THEN o ELSE Visit(f[k - 1], n - k + 1, c)]

LEMMA VisitedExists ==
    ASSUME NEW o, NEW c, NEW n \in Nat
    PROVE  \E f : IsVisited(f, o, c, n)
<1> DEFINE V(x, k) == Visit(x, n - k + 1, c)
           Is(f, N) == f = [k \in 0 .. N |-> IF k = 0 THEN o ELSE V(f[k - 1], k)]
           Bad == {N \in Nat : ~\E f : Is(f, N)}
<1> HIDE DEF V
<1>1. 0 \notin Bad
  <2> DEFINE f == [k \in 0 .. 0 |-> o]
  <2>1. Is(f, 0)
    OBVIOUS
  <2> QED BY <2>1, Zenon
<1>2. ASSUME NEW N \in Nat, N \notin Bad
      PROVE  N + 1 \notin Bad
  <2>1. PICK f : Is(f, N)
    BY <1>2
  <2> DEFINE g == [k \in 0 .. N + 1 |-> IF k = N + 1 THEN V(f[N], N + 1) ELSE f[k]]
  <2>2. \A k \in 0 .. N + 1 : g[k] = IF k = 0 THEN o ELSE V(g[k - 1], k)
    <3> TAKE k \in 0 .. N + 1
    <3>1. CASE k = N + 1
        BY <3>1
    <3>2. CASE k \in 0 .. N
      <4>1. f[k] = IF k = 0 THEN o ELSE V(f[k - 1], k)
        BY <2>1, <3>2
      <4> QED BY <3>2, <4>1
    <3> QED BY <3>1, <3>2
  <2>3. g = [k \in 0 .. N + 1 |-> g[k]]
    OBVIOUS
  <2> HIDE DEF g
  <2>4. Is(g, N + 1)
    BY <2>2, <2>3
  <2> HIDE DEF Is
  <2> QED BY <2>4
<1>3. Bad = {}
  <2> SUFFICES ASSUME Bad # {} PROVE FALSE
    OBVIOUS
  <2>1. PICK N \in Bad : \A k \in Bad : N <= k
    BY LeastNatural
  <2> HIDE DEF Bad
  <2>2. N \in Nat /\ N # 0
    BY <1>1 DEF Bad
  <2>3. N - 1 \in Nat /\ N - 1 \notin Bad /\ (N - 1) + 1 = N
    BY <2>1, <2>2
  <2>4. (N - 1) + 1 \notin Bad
    BY <1>2, <2>3
  <2> QED BY <2>3, <2>4
<1>4. PICK f : Is(f, n)
    BY <1>3
<1>5. IsVisited(f, o, c, n)
    BY <1>4 DEF IsVisited, V
<1> QED BY <1>5

LEMMA RemoveAllKeepsOthers ==
    ASSUME NEW o \in ObserversOf, NEW c
    PROVE  LET r == RemoveAllClientObservations(o, c)
           IN  r \in ObserversOf /\ OthersKept(o.list, r.list, c)
<1> DEFINE n == Len(o.list)
           visited == CHOOSE f : IsVisited(f, o, c, n)
           Good(r) == r \in ObserversOf /\ OthersKept(o.list, r.list, c)
           Bad == {k \in 0 .. n : ~Good(visited[k])}
<1>1. o.list \in Seq(Pair) /\ n \in Nat
    BY DEF ObserversOf
<1>2. RemoveAllClientObservations(o, c) = visited[n]
    BY DEF RemoveAllClientObservations, IsVisited
<1> HIDE DEF n
<1>3. IsVisited(visited, o, c, n)
    BY <1>1, VisitedExists
<1> HIDE DEF visited
<1>4. Good(visited[0])
  <2>1. visited[0] = o
    BY <1>1, <1>3 DEF IsVisited
  <2> QED BY <1>1, <2>1, KeptSame
<1>5. ASSUME NEW k \in 1 .. n, Good(visited[k - 1])
      PROVE  Good(visited[k])
  <2> DEFINE r == visited[k - 1]
             i == n - k + 1
  <2>1. visited[k] = Visit(r, i, c)
    BY <1>1, <1>3 DEF IsVisited
  <2>2. CASE visited[k] = r
    BY <1>5, <2>2
  <2>3. CASE visited[k] = internalRemoveObserving(r, c, r.list[i][2])
    <3> HIDE DEF r, i
    <3>1. r \in ObserversOf /\ OthersKept(o.list, r.list, c)
        BY <1>5 DEF r
    <3>2. visited[k] \in ObserversOf /\ OthersKept(r.list, visited[k].list, c)
        BY <2>3, <3>1, RemoveKeepsOthers
    <3> QED BY <3>1, <3>2, KeptThen
  <2> HIDE DEF r, i, Good
  <2> QED BY <2>1, <2>2, <2>3 DEF Visit
<1> HIDE DEF Good
<1>6. Bad = {}
  <2> SUFFICES ASSUME Bad # {} PROVE FALSE
    OBVIOUS
  <2>1. Bad \in SUBSET Nat
    BY <1>1
  <2>2. PICK k \in Bad : \A j \in Bad : k <= j
    BY <2>1, LeastNatural
  <2>3. k \in 1 .. n /\ k - 1 \in 0 .. n /\ k - 1 \notin Bad
    BY <1>1, <1>4, <2>2
  <2>4. Good(visited[k - 1])
    BY <2>3
  <2> QED BY <1>5, <2>2, <2>3, <2>4
<1>7. Good(visited[n])
    BY <1>1, <1>6
<1> QED BY <1>2, <1>7 DEF Good
----------------------------------------------------------------------------
(* The steps of a worker. *)

(* Only this worker moves, and this is what it does then. *)
Moves(w, j) ==
    /\ job' \in [Worker -> Job] /\ \A x \in Worker : JobOK(job'[x])
    /\ job'[w] = j /\ \A x \in Worker \ {w} : job'[x] = job[x]

LEMMA MovesIs ==
    ASSUME Types, NEW w \in Worker, NEW j, JobOK(j), job' = [job EXCEPT ![w] = j]
    PROVE  Moves(w, j)
<1>1. j \in Job
    BY DEF JobOK
<1>2. job' \in [Worker -> Job] /\ job'[w] = j /\ \A x \in Worker \ {w} : job'[x] = job[x]
    BY <1>1 DEF Types
<1> QED BY <1>2, Zenon DEF Moves, Types

LEMMA NoJobOK == JobOK(NoJob)
<1>1. NoJob \in Job /\ NoJob.at = "idle" /\ NoJob.c = NoClient
    BY DEF NoJob, Job, Places
<1> QED BY <1>1 DEF JobOK, OfAVar


LEMMA GotoIs ==
    ASSUME Types, NEW w \in Worker, NEW at \in Places, Goto(w, at),
           job[w].at # "idle", at \in OfAVar => job[w].at \in OfAVar
    PROVE  /\ Moves(w, job'[w])
           /\ at = "idle" => job'[w] = NoJob
           /\ at # "idle" => /\ job'[w].at = at /\ job'[w].c = job[w].c
                             /\ job'[w].v = job[w].v /\ job'[w].m = job[w].m
           /\ env' = env /\ started' = started
<1> DEFINE j == job[w]
           k == IF at = "idle" THEN NoJob ELSE [j EXCEPT !.at = at]
<1>1. job' = [job EXCEPT ![w] = k] /\ env' = env /\ started' = started
    BY DEF Goto
<1>2. JobOK(j) /\ j \in Job
    BY DEF Types
<1>3. JobOK(k) /\ (at # "idle" => k.at = at /\ k.c = j.c /\ k.v = j.v /\ k.m = j.m)
  <2>1. CASE at = "idle"
    BY <2>1, NoJobOK
  <2>2. CASE at # "idle"
    <3> DEFINE l == [j EXCEPT !.at = at]
    <3> HIDE DEF j
    <3>1. l \in Job /\ l.at = at /\ l.c = j.c /\ l.v = j.v /\ l.m = j.m
        BY <1>2 DEF Job
    <3>2. j.at # "idle" /\ (at \in OfAVar => j.at \in OfAVar)
        BY DEF j
    <3> HIDE DEF l
    <3>3. JobOK(l)
        BY <1>2, <2>2, <3>1, <3>2 DEF JobOK
    <3> QED BY <2>2, <3>1, <3>3 DEF l
  <2> QED BY <2>1, <2>2
<1> HIDE DEF k
<1>4. Moves(w, k)
    BY <1>1, <1>3, MovesIs
<1>5. job'[w] = k
    BY <1>4 DEF Moves
<1> QED BY <1>1, <1>3, <1>4, <1>5 DEF k, j

LEMMA StartIs ==
    ASSUME Types, NEW w \in Worker, NEW at \in Places \ {"idle"}, NEW c \in Client,
           NEW v \in Var \cup {NoVar}, NEW m \in Metas, Start(w, at, c, v, m),
           at \in OfAVar => v \in Var
    PROVE  /\ Moves(w, job'[w])
           /\ job'[w].at = at /\ job'[w].c = c /\ job'[w].v = v /\ job'[w].m = m
           /\ job[w] = NoJob
           /\ UNCHANGED <<observers, clientRecs, started, env>>
<1> DEFINE k == [NoJob EXCEPT !.at = at, !.c = c, !.v = v, !.m = m]
<1>1. /\ job[w] = NoJob /\ job' = [job EXCEPT ![w] = k]
      /\ UNCHANGED <<observers, clientRecs, started, env>>
    BY DEF Start
<1>2. k \in Job /\ k.at = at /\ k.c = c /\ k.v = v /\ k.m = m
    BY DEF NoJob, Job, Metas
<1> HIDE DEF k
<1>3. JobOK(k)
    BY <1>2, NoneAssumption DEF JobOK
<1>4. Moves(w, k)
    BY <1>1, <1>3, MovesIs
<1>5. job'[w] = k
    BY <1>4 DEF Moves
<1> QED BY <1>1, <1>2, <1>4, <1>5

(* The types, and what RemovesOnlyOwn says of a step. *)
OwnOnly(v) == \E c \in Client \cup {NoClient} :
    /\ OthersKept(observers[v].list, observers'[v].list, c)
    /\ observers'[v] # observers[v] => \E w \in Worker : job[w].c = c

Good == Types' /\ \A v \in Var : OwnOnly(v)

LEMMA SameObservers ==
    ASSUME Types, observers' = observers
    PROVE  \A v \in Var : OwnOnly(v)
<1> SUFFICES ASSUME NEW v \in Var PROVE OwnOnly(v)
    OBVIOUS
<1>1. observers[v].list \in Seq(Pair)
    BY DEF Types, ObserversOf
<1>2. OthersKept(observers[v].list, observers[v].list, NoClient)
    BY <1>1, KeptSame
<1> QED BY <1>2 DEF OwnOnly

LEMMA OneObservers ==
    ASSUME Types, NEW w \in Worker, NEW u \in Var, NEW o \in ObserversOf,
           observers' = [observers EXCEPT ![u] = o],
           OthersKept(observers[u].list, o.list, job[w].c)
    PROVE  observers' \in [Var -> ObserversOf] /\ \A v \in Var : OwnOnly(v)
<1>1. observers' \in [Var -> ObserversOf]
    BY DEF Types
<1>2. job[w].c \in Client \cup {NoClient}
    BY DEF Types, Job
<1>3. OwnOnly(u)
  <2>1. observers'[u] = o
    BY DEF Types
  <2> QED BY <1>2, <2>1 DEF OwnOnly
<1>4. ASSUME NEW v \in Var, v # u PROVE OwnOnly(v)
  <2>1. observers'[v] = observers[v]
    BY <1>4 DEF Types
  <2>2. observers[v].list \in Seq(Pair)
    BY DEF Types, ObserversOf
  <2>3. OthersKept(observers[v].list, observers[v].list, NoClient)
    BY <2>2, KeptSame
  <2> QED BY <2>1, <2>3 DEF OwnOnly
<1> QED BY <1>1, <1>3, <1>4

LEMMA GoodClientStep ==
    ASSUME Types, NEW w \in Worker, NEW next \in Places, Goto(w, next),
           job[w].at # "idle", next \in OfAVar => job[w].at \in OfAVar,
           observers' = observers, observing' \in [Client -> Seq(Var)]
    PROVE  Good
<1>1. Moves(w, job'[w]) /\ env' = env
    BY GotoIs
<1>2. Types'
    BY <1>1 DEF Types, Moves
<1> QED BY <1>2, SameObservers DEF Good

LEMMA GoodSetObservers ==
    ASSUME Types, NEW w \in Worker, NEW next \in Places, Goto(w, next),
           job[w].at # "idle", next \in OfAVar => job[w].at \in OfAVar,
           UNCHANGED clientRecs,
           NEW u \in Var, NEW o \in ObserversOf,
           observers' = [observers EXCEPT ![u] = o],
           OthersKept(observers[u].list, o.list, job[w].c)
    PROVE  Good
<1>1. Moves(w, job'[w]) /\ env' = env
    BY GotoIs
<1>2. observers' \in [Var -> ObserversOf] /\ \A v \in Var : OwnOnly(v)
    BY OneObservers
<1>3. Types'
    BY <1>1, <1>2 DEF Types, Moves, clientRecs
<1> QED BY <1>2, <1>3 DEF Good

LEMMA GoodSkip ==
    ASSUME Types, NEW w \in Worker, NEW at \in Places \ {"idle"}, NEW next \in Places,
           Skip(w, at, next), next \in OfAVar => at \in OfAVar
    PROVE  Good
    BY GoodClientStep DEF Skip, Types, clientRecs

(* The records of the client that has a command or a notification. *)
LEMMA GoodRecords ==
    ASSUME Types, NEW w \in Worker,
           \/ ObserveInit(w) \/ ObserveNew(w) \/ Send(w) \/ StopInit(w)
           \/ StopUnregister(w) \/ ConnectInit(w) \/ NotifyInit(w) \/ NotifyInitNil(w)
           \/ DeleteRecord(w)
    PROVE  Good
<1> DEFINE c == job[w].c
           v == job[w].v
<1> USE DEF Places, OfAVar
<1>1. observing \in [Client -> Seq(Var)] /\ JobOK(job[w]) /\ job[w] \in Job
    BY DEF Types
<1>2. CASE ObserveInit(w)
    BY <1>1, <1>2, GoodSkip, GoodClientStep DEF ObserveInit, ClientStep, initialize
<1>3. CASE ObserveNew(w)
  <2>1. CASE ClientStep(w, "obsNew", "send", RegisterNewObservation(c, v))
    <3>1. v \in Var
        BY <1>1, <2>1 DEF ClientStep, JobOK
    <3>2. observing' = [observing EXCEPT ![c] = Append(observing[c], v)]
        BY <2>1 DEF ClientStep, RegisterNewObservation
    <3>3. c \in Client => Append(observing[c], v) \in Seq(Var)
        BY <1>1, <3>1
    <3> HIDE DEF c, v
    <3>4. observing' \in [Client -> Seq(Var)]
        BY <1>1, <3>2, <3>3
    <3> QED BY <2>1, <3>4, GoodClientStep DEF ClientStep
  <2> QED BY <1>3, <2>1, GoodSkip DEF ObserveNew
<1>4. CASE Send(w)
    BY <1>1, <1>4, GoodSkip, GoodClientStep DEF Send, ClientStep, UpdateLiveTime, clientRecs
<1>5. CASE StopInit(w)
    BY <1>1, <1>5, GoodSkip, GoodClientStep DEF StopInit, ClientStep, initialize
<1>6. CASE StopUnregister(w)
  <2>1. CASE ClientStep(w, "stopUnregister", "idle", UnregisterObservation(c, v))
    <3>1. observing' = [observing EXCEPT ![c] = RemoveFirst(observing[c], v)]
        BY <2>1 DEF ClientStep, UnregisterObservation
    <3>2. c \in Client => RemoveFirst(observing[c], v) \in Seq(Var)
        BY <1>1, RemoveFirstIs
    <3> HIDE DEF c, v
    <3>3. observing' \in [Client -> Seq(Var)]
        BY <1>1, <3>1, <3>2
    <3> QED BY <2>1, <3>3, GoodClientStep DEF ClientStep
  <2> QED BY <1>6, <2>1, GoodSkip DEF StopUnregister
<1>7. CASE ConnectInit(w)
    BY <1>1, <1>7, GoodSkip, GoodClientStep DEF ConnectInit, ClientStep, initialize
<1>8. CASE NotifyInit(w)
    BY <1>1, <1>8, GoodSkip, GoodClientStep DEF NotifyInit, ClientStep, initialize
<1>9. CASE NotifyInitNil(w)
    BY <1>1, <1>9, GoodSkip, GoodClientStep DEF NotifyInitNil, ClientStep, initialize
<1>10. CASE DeleteRecord(w)
  <2>1. CASE ClientStep(w, "delClient", "idle", RemoveClientFromObservationSystem(c))
    <3>1. observing' = [observing EXCEPT ![c] = <<>>]
        BY <2>1 DEF ClientStep, RemoveClientFromObservationSystem
    <3> DEFINE none == <<>>
    <3>2. none \in Seq(Var)
        OBVIOUS
    <3> HIDE DEF c, none
    <3>3. observing' \in [Client -> Seq(Var)]
        BY <1>1, <3>1, <3>2 DEF none
    <3> QED BY <2>1, <3>3, GoodClientStep DEF ClientStep
  <2> QED BY <1>10, <2>1, GoodSkip DEF DeleteRecord
<1> QED BY <1>2, <1>3, <1>4, <1>5, <1>6, <1>7, <1>8, <1>9, <1>10

(* The observers of the variable, and the rest of the steps of a worker. *)
LEMMA GoodWorkerStep ==
    ASSUME Types, NEW w \in Worker, WorkerStep(w)
    PROVE  Good
<1> DEFINE c == job[w].c
           v == job[w].v
           m == job[w].m
<1> USE DEF Places, OfAVar
<1>1. /\ observers \in [Var -> ObserversOf] /\ observing \in [Client -> Seq(Var)]
      /\ JobOK(job[w]) /\ job[w] \in Job
    BY DEF Types
<1>2. CASE \/ ObserveInit(w) \/ ObserveNew(w) \/ Send(w) \/ StopInit(w)
           \/ StopUnregister(w) \/ ConnectInit(w) \/ NotifyInit(w) \/ NotifyInitNil(w)
           \/ DeleteRecord(w)
    BY <1>2, GoodRecords
<1>3. CASE ObserveCheck(w)
    BY <1>1, <1>3, GoodClientStep DEF ObserveCheck, clientRecs
<1>4. CASE ObserveRegister(w)
  <2> DEFINE o == RegisterObservation(observers[v], c, m)
  <2>1. CASE SetObservers(w, "obsRegister", "obsNew", v, o)
    <3>1. v \in Var /\ c \in Client /\ m \in Metas
        BY <1>1, <2>1 DEF SetObservers, JobOK, Job, Metas
    <3>2. observers[v] \in ObserversOf
        BY <1>1, <3>1
    <3>3. o \in ObserversOf /\ o.list = Append(observers[v].list, <<c, m>>)
      <4> HIDE DEF c, v, m
      <4> QED BY <3>1, <3>2, RegisterIs
    <3>4. observers[v].list \in Seq(Pair) /\ <<c, m>> \in Pair
        BY <3>1, <3>2 DEF ObserversOf, Pair, Metas
    <3>5. OthersKept(observers[v].list, o.list, c)
        BY <3>3, <3>4, KeptAppend
    <3> HIDE DEF o
    <3> QED BY <2>1, <3>1, <3>3, <3>5, GoodSetObservers DEF SetObservers
  <2> QED BY <1>4, <2>1, GoodSkip DEF ObserveRegister
<1>5. CASE StopRemove(w)
  <2> DEFINE o == internalRemoveObserving(observers[v], c, m)
  <2>1. CASE SetObservers(w, "stopRemove", "stopInit", v, o)
    <3>1. v \in Var
        BY <1>1, <2>1 DEF SetObservers, JobOK
    <3>2. observers[v] \in ObserversOf
        BY <1>1, <3>1
    <3>3. o \in ObserversOf /\ OthersKept(observers[v].list, o.list, c)
        BY <3>2, RemoveKeepsOthers
    <3> HIDE DEF o
    <3> QED BY <2>1, <3>1, <3>3, GoodSetObservers DEF SetObservers
  <2> QED BY <1>5, <2>1, GoodSkip DEF StopRemove
<1>6. CASE NotifyApi(w)
    BY <1>1, <1>6, GoodClientStep DEF NotifyApi, clientRecs
<1>7. CASE DeleteVarsDone(w)
    BY <1>1, <1>7, GoodClientStep DEF DeleteVarsDone, clientRecs
<1>8. CASE DeleteSnapshot(w)
  <2> DEFINE k == [job[w] EXCEPT !.at = "delVars", !.left = Range(observing[c])]
  <2>1. job' = [job EXCEPT ![w] = k]
    BY <1>8 DEF DeleteSnapshot, Types
  <2>2. c \in Client
    BY <1>1, <1>8 DEF DeleteSnapshot, JobOK, Job
  <2>3. Range(observing[c]) \subseteq Var
    BY <1>1, <2>2 DEF Range
  <2>4. k \in Job /\ k.at = "delVars" /\ k.c = c
    BY <1>1, <2>3 DEF Job
  <2> HIDE DEF k
  <2>5. JobOK(k)
    BY <2>2, <2>4, NoneAssumption DEF JobOK
  <2>6. Moves(w, k)
    BY <2>1, <2>5, MovesIs
  <2>7. Types'
    BY <1>8, <2>6 DEF DeleteSnapshot, Types, Moves, clientRecs
  <2> QED BY <1>8, <2>7, SameObservers DEF DeleteSnapshot, Good
<1>9. CASE DeleteFromVar(w)
  <2>1. PICK u \in job[w].left :
          /\ job[w].at = "delVars"
          /\ job' = [job EXCEPT ![w].left = @ \ {u}]
          /\ \/ observers' = [observers EXCEPT ![u] = RemoveAllClientObservations(@, c)]
             \/ UNCHANGED observers
          /\ UNCHANGED <<clientRecs, started, jobs, env>>
    BY <1>9 DEF DeleteFromVar
  <2> DEFINE k == [job[w] EXCEPT !.left = @ \ {u}]
             o == RemoveAllClientObservations(observers[u], c)
  <2>2. job' = [job EXCEPT ![w] = k]
    BY <2>1 DEF Types
  <2>3. u \in Var
    BY <1>1, <2>1 DEF Job
  <2>4. JobOK(k)
    <3>1. k \in Job /\ k.at = job[w].at /\ k.c = c /\ k.v = v
        BY <1>1 DEF Job
    <3> HIDE DEF k
    <3> QED BY <1>1, <3>1 DEF JobOK
  <2> HIDE DEF k
  <2>5. Moves(w, k)
    BY <2>2, <2>4, MovesIs
  <2>6. CASE observers' = [observers EXCEPT ![u] = RemoveAllClientObservations(@, c)]
    <3>1. observers[u] \in ObserversOf
        BY <1>1, <2>3
    <3>2. o \in ObserversOf /\ OthersKept(observers[u].list, o.list, c)
        BY <3>1, RemoveAllKeepsOthers
    <3>3. observers' = [observers EXCEPT ![u] = o]
        BY <2>6
    <3> HIDE DEF o
    <3>4. observers' \in [Var -> ObserversOf] /\ \A x \in Var : OwnOnly(x)
        BY <2>3, <3>2, <3>3, OneObservers
    <3>5. Types'
        BY <2>1, <2>5, <3>4 DEF Types, Moves, clientRecs
    <3> QED BY <3>4, <3>5 DEF Good
  <2>7. CASE UNCHANGED observers
    <3>1. Types'
        BY <2>1, <2>5, <2>7 DEF Types, Moves, clientRecs
    <3> QED BY <2>7, <3>1, SameObservers DEF Good
  <2> QED BY <2>1, <2>6, <2>7
<1> QED BY <1>2, <1>3, <1>4, <1>5, <1>6, <1>7, <1>8, <1>9 DEF WorkerStep

LEMMA GoodRequest ==
    ASSUME Types, NEW w \in Worker, Request(w) \/ \E v \in Var : NotifyObserver(w, v)
    PROVE  Good
<1> USE DEF Places, OfAVar
<1>1. PICK at \in {"obsCheck", "stopRemove", "connInit", "ntfApi"}, c \in Client,
           v \in Var \cup {NoVar}, m \in Metas :
             Start(w, at, c, v, m) /\ (at \in OfAVar => v \in Var)
  <2>1. CASE Request(w)
    BY <2>1 DEF Request, ClientConnected, ObserveVar, StopObservingVar, Metas
  <2>2. CASE \E v \in Var : NotifyObserver(w, v)
    <3>1. PICK v \in Var : \E e \in Listed(observers[v]) : Start(w, "ntfApi", e[1], v, e[2])
        BY <2>2 DEF NotifyObserver
    <3>2. PICK e \in Listed(observers[v]) : Start(w, "ntfApi", e[1], v, e[2])
        BY <3>1
    <3>3. e \in Pair
        BY <3>2 DEF Types, ObserversOf, Listed, Range
    <3>4. e[1] \in Client /\ e[2] \in Metas
        BY <3>3 DEF Pair, Metas
    <3> QED BY <3>2, <3>4
  <2> QED BY <2>1, <2>2
<1>2. Moves(w, job'[w]) /\ UNCHANGED <<observers, clientRecs, started, env>>
    BY <1>1, StartIs
<1>3. Types'
    BY <1>2 DEF Types, Moves, clientRecs
<1> QED BY <1>2, <1>3, SameObservers DEF Good

LEMMA GoodStep ==
    ASSUME Types, [Next]_vars
    PROVE  Good
<1>1. ASSUME NEW w \in Worker, WorkerStep(w) PROVE Good
    BY <1>1, GoodWorkerStep
<1>2. ASSUME NEW w \in Worker, Request(w) \/ \E v \in Var : NotifyObserver(w, v) PROVE Good
    BY <1>2, GoodRequest
<1>3. CASE Restart
  <2>1. job' \in [Worker -> Job] /\ \A w \in Worker : JobOK(job'[w])
    BY <1>3, NoJobOK DEF Restart, JobOK
  <2>2. Types'
    BY <1>3, <2>1 DEF Restart, Types, clientRecs
  <2> QED BY <1>3, <2>2, SameObservers DEF Restart, Good
<1>4. CASE APIStarted
    BY <1>4, SameObservers DEF APIStarted, Good, Types, clientRecs
<1>5. CASE UNCHANGED vars
    BY <1>5, SameObservers DEF vars, Good, Types
<1> QED BY <1>1, <1>2, <1>3, <1>4, <1>5 DEF Next

LEMMA InitTypes == Init => Types
<1> SUFFICES ASSUME Init PROVE Types
    OBVIOUS
<1> DEFINE none == <<>>
<1>1. none \in Seq(Var) /\ none \in Seq(Pair)
    OBVIOUS
<1>2. NoObservers = [list |-> none, ent |-> {}, root |-> {}]
    BY DEF NoObservers
<1>3. observing = [c \in Client |-> none]
    BY DEF Init
<1> HIDE DEF none
<1>4. NoObservers \in ObserversOf
    BY <1>1, <1>2 DEF ObserversOf
<1>5. observers \in [Var -> ObserversOf] /\ observing \in [Client -> Seq(Var)]
    BY <1>1, <1>3, <1>4 DEF Init
<1>6. NoJob \in Job
    BY NoJobOK DEF JobOK
<1>7. job \in [Worker -> Job] /\ \A w \in Worker : job[w] = NoJob
    BY <1>6 DEF Init
<1>8. \A w \in Worker : JobOK(job[w])
    BY <1>7, NoJobOK
<1>9. env \in Setting
    BY DEF Init
<1> QED BY <1>5, <1>7, <1>8, <1>9, Zenon DEF Types

(* The lists of observers and the client records keep their types, and a   *)
(* goroutine at work has a client.                                         *)
THEOREM ObserversTypes == Spec => []Types
<1>1. Types /\ [Next]_vars => Types'
    BY GoodStep DEF Good
<1> QED BY <1>1, InitTypes, PTL DEF Spec

(* Whatever times out, restarts or runs at the same time, a step takes     *)
(* nobody off an observers list but the client it works for, and leaves    *)
(* the others in their order (stopObservingVar, deleteClient).             *)
THEOREM ObserversRemoveOnlyOwn == Spec => RemovesOnlyOwn
<1>1. Types /\ [Next]_vars => [\A v \in Var : OwnOnly(v)]_vars
    BY GoodStep DEF Good
<1>2. [\A v \in Var : OwnOnly(v)]_vars =>
          [\A v \in Var : \E c \in Client \cup {NoClient} :
             /\ OthersKept(observers[v].list, observers'[v].list, c)
             /\ observers'[v] # observers[v] => \E w \in Worker : job[w].c = c]_vars
    BY DEF OwnOnly
<1> QED BY <1>1, <1>2, ObserversTypes, PTL DEF Spec, RemovesOnlyOwn
----------------------------------------------------------------------------
(* Orderly clients.  First what registering and removing do to a list      *)
(* without duplicates whose pairs all have their entries.                  *)

LEMMA RegisterInOrder ==
    ASSUME NEW o \in ObserversOf, NEW c \in Client, NEW m \in Metas,
           Once(o.list), Entered(o), <<c, m>> \notin Listed(o)
    PROVE  LET r == RegisterObservation(o, c, m)
           IN  /\ Once(r.list) /\ Entered(r)
               /\ Listed(r) = Listed(o) \cup {<<c, m>>}
               /\ \A E : Count(r.list, E) = Count(o.list, E) + (IF <<c, m>> \in E THEN 1 ELSE 0)
<1> DEFINE r == RegisterObservation(o, c, m)
           p == <<c, m>>
           s == o.list
<1>1. /\ r \in ObserversOf /\ r.list = Append(s, p)
      /\ r.ent = o.ent \cup (IF m = NoMeta THEN {} ELSE {p})
      /\ r.root = o.root \cup {c}
    BY RegisterIs
<1>2. s \in Seq(Pair) /\ p \in Pair /\ p[1] = c /\ p[2] = m
    BY DEF ObserversOf, Pair, Metas
<1> HIDE DEF r, p, s
<1>3. /\ Len(s) \in Nat /\ DOMAIN s = 1 .. Len(s) /\ DOMAIN r.list = 1 .. Len(s) + 1
      /\ r.list[Len(s) + 1] = p /\ \A i \in 1 .. Len(s) : r.list[i] = s[i]
    BY <1>1, <1>2
<1>4. \A i \in 1 .. Len(s) : s[i] # p
    BY <1>3 DEF Listed, Range, s, p
<1>5. Once(r.list)
  <2>1. \A j, k \in 1 .. Len(s) : s[j] = s[k] => j = k
    BY <1>3 DEF Once, s
  <2>2. \A j \in 1 .. Len(s) + 1 : j \in 1 .. Len(s) \/ j = Len(s) + 1
    BY <1>3
  <2>3. \A j, k \in 1 .. Len(s) + 1 : r.list[j] = r.list[k] => j = k
    BY <1>3, <1>4, <2>1, <2>2
  <2> QED BY <1>3, <2>3 DEF Once
<1>6. Listed(r) = Listed(o) \cup {p}
  <2>1. Listed(o) = {s[i] : i \in 1 .. Len(s)} /\ Listed(r) = {r.list[i] : i \in 1 .. Len(s) + 1}
    BY <1>3 DEF Listed, Range, s
  <2>2. \A j : j \in 1 .. Len(s) + 1 <=> j \in 1 .. Len(s) \/ j = Len(s) + 1
    BY <1>3
  <2> QED BY <1>3, <2>1, <2>2
<1>7. Entered(r)
  <2>1. \A e \in r.ent : e[1] \in r.root
    BY <1>1, <1>2 DEF Entered
  <2>2. \A e \in Listed(r) : IsClientObserving(r, e[1], e[2])
    <3> SUFFICES ASSUME NEW e \in Listed(r) PROVE IsClientObserving(r, e[1], e[2])
        OBVIOUS
    <3>1. CASE e = p
      <4>1. <<e[1], e[2]>> = p
        BY <1>2, <3>1 DEF p
      <4> QED BY <1>1, <1>2, <3>1, <4>1 DEF IsClientObserving
    <3>2. CASE e \in Listed(o)
        BY <1>1, <3>2 DEF Entered, IsClientObserving
    <3> QED BY <1>6, <3>1, <3>2
  <2> QED BY <2>1, <2>2 DEF Entered
<1>8. ASSUME NEW E PROVE Count(r.list, E) = Count(s, E) + (IF p \in E THEN 1 ELSE 0)
    BY <1>1, <1>2, CountAppend
<1> QED BY <1>5, <1>6, <1>7, <1>8, Zenon DEF r, p, s

LEMMA RemoveInOrder ==
    ASSUME NEW o \in ObserversOf, NEW c, NEW m,
           Once(o.list), Entered(o), <<c, m>> \in Listed(o)
    PROVE  LET r == internalRemoveObserving(o, c, m)
           IN  /\ Once(r.list) /\ Entered(r)
               /\ Listed(r) = Listed(o) \ {<<c, m>>}
               /\ \A E : Count(r.list, E) = Count(o.list, E) - (IF <<c, m>> \in E THEN 1 ELSE 0)
<1> DEFINE r == internalRemoveObserving(o, c, m)
           p == <<c, m>>
           s == o.list
<1>1. s \in Seq(Pair) /\ Len(s) \in Nat /\ DOMAIN s = 1 .. Len(s)
    BY DEF ObserversOf
<1>2. \E i : Removed(o, r, c, m, i)
  <2>1. ~\A j \in 1 .. Len(s) : s[j] # p
    BY <1>1 DEF Listed, Range
  <2> QED BY <2>1, RemoveIs
<1>3. PICK i : Removed(o, r, c, m, i)
    BY <1>2
<1>4. p[1] = c /\ p[2] = m
    OBVIOUS
<1>5. i \in 1 .. Len(s) /\ s[i] = p /\ r \in ObserversOf /\ r.list = RemoveAt(s, i)
    BY <1>3 DEF Removed
<1>6. PICK shifted \in SUBSET Listed(o) : \E ent, root :
         /\ ent = o.ent \cup {e \in shifted : e[2] # NoMeta}
         /\ root = o.root \cup {e[1] : e \in shifted}
         /\ r.ent = IF m = NoMeta THEN ent ELSE ent \ {p}
         /\ r.root = IF m = NoMeta /\ ~(\E e \in ent : e[1] = c) THEN root \ {c} ELSE root
    BY <1>3 DEF Removed
<1>7. PICK ent, root :
         /\ ent = o.ent \cup {e \in shifted : e[2] # NoMeta}
         /\ root = o.root \cup {e[1] : e \in shifted}
         /\ r.ent = IF m = NoMeta THEN ent ELSE ent \ {p}
         /\ r.root = IF m = NoMeta /\ ~(\E e \in ent : e[1] = c) THEN root \ {c} ELSE root
    BY <1>6
<1> HIDE DEF r, p
<1>8. /\ DOMAIN r.list = 1 .. Len(s) - 1
      /\ \A j \in 1 .. Len(s) - 1 : r.list[j] = IF j < i THEN s[j] ELSE s[j + 1]
  <2>1. r.list \in Seq(Pair) /\ Len(r.list) = Len(s) - 1
    BY <1>1, <1>5, RemoveAtIs
  <2>2. \A j \in 1 .. Len(s) - 1 : r.list[j] = IF j < i THEN s[j] ELSE s[j + 1]
    BY <1>1, <1>5, RemoveAtIs
  <2>3. DOMAIN r.list = 1 .. Len(r.list)
    BY <2>1
  <2> QED BY <2>1, <2>2, <2>3, Zenon
<1> HIDE DEF s
<1>9. \A j, k \in 1 .. Len(s) : s[j] = s[k] => j = k
    BY <1>1 DEF Once, s
<1>10. Once(r.list)
    BY <1>1, <1>5, <1>8, <1>9 DEF Once
<1>11. Listed(r) = Listed(o) \ {p}
  <2>1. \A j \in 1 .. Len(s) - 1 : \E k \in 1 .. Len(s) : k # i /\ r.list[j] = s[k]
    <3> SUFFICES ASSUME NEW j \in 1 .. Len(s) - 1
                 PROVE  \E k \in 1 .. Len(s) : k # i /\ r.list[j] = s[k]
        OBVIOUS
    <3> DEFINE k == IF j < i THEN j ELSE j + 1
    <3>1. k \in 1 .. Len(s) /\ k # i /\ r.list[j] = s[k]
        BY <1>1, <1>5, <1>8
    <3> QED BY <3>1
  <2>2. \A k \in 1 .. Len(s) : k # i => \E j \in 1 .. Len(s) - 1 : r.list[j] = s[k]
    <3> SUFFICES ASSUME NEW k \in 1 .. Len(s), k # i
                 PROVE  \E j \in 1 .. Len(s) - 1 : r.list[j] = s[k]
        OBVIOUS
    <3> DEFINE j == IF k < i THEN k ELSE k - 1
    <3>1. j \in 1 .. Len(s) - 1 /\ r.list[j] = s[k]
        BY <1>1, <1>5, <1>8
    <3> QED BY <3>1
  <2>3. Listed(o) = {s[k] : k \in 1 .. Len(s)} /\ Listed(r) = {r.list[j] : j \in 1 .. Len(s) - 1}
    BY <1>1, <1>8 DEF Listed, Range, s
  <2>4. \A k \in 1 .. Len(s) : k # i <=> s[k] # p
    BY <1>5, <1>9
  <2> DEFINE D == 1 .. Len(s)
             F == 1 .. Len(s) - 1
  <2> HIDE DEF D, F
  <2>5. /\ Listed(o) = {s[k] : k \in D} /\ Listed(r) = {r.list[j] : j \in F}
        /\ \A j \in F : \E k \in D : k # i /\ r.list[j] = s[k]
        /\ \A k \in D : k # i => \E j \in F : r.list[j] = s[k]
        /\ \A k \in D : k # i <=> s[k] # p
    BY <2>1, <2>2, <2>3, <2>4, Zenon DEF D, F
  <2>6. \A x : x \in Listed(r) <=> x \in Listed(o) /\ x # p
    BY <2>5
  <2> QED BY <2>6
<1>12. Entered(r)
  <2>1. \A e \in ent : e[1] \in root
    BY <1>7 DEF Entered
  <2>2. \A e \in r.ent : e[1] \in r.root
    BY <1>7, <2>1
  <2>3. ASSUME NEW e \in Listed(r) PROVE IsClientObserving(r, e[1], e[2])
    <3>1. e \in Listed(o) /\ e # p /\ e \in Pair
      <4>1. Listed(o) \subseteq Pair
        BY <1>1 DEF Listed, Range, s
      <4> QED BY <1>11, <4>1
    <3>2. e = <<e[1], e[2]>>
        BY <3>1 DEF Pair
    <3>3. CASE e[2] # NoMeta
      <4>1. e \in o.ent
        BY <3>1, <3>2, <3>3 DEF Entered, IsClientObserving
      <4>2. e \in r.ent
        BY <1>7, <3>1, <4>1
      <4> QED BY <3>2, <3>3, <4>2 DEF IsClientObserving
    <3>4. CASE e[2] = NoMeta
      <4>1. e[1] \in o.root
        BY <3>1, <3>4 DEF Entered, IsClientObserving
      <4>2. e[1] # c \/ m # NoMeta
        BY <3>1, <3>2, <3>4 DEF p
      <4>3. e[1] \in r.root
        BY <1>7, <4>1, <4>2
      <4> QED BY <3>4, <4>3 DEF IsClientObserving
    <3> QED BY <3>3, <3>4
  <2> QED BY <2>2, <2>3 DEF Entered
<1>13. ASSUME NEW E PROVE Count(r.list, E) = Count(s, E) - (IF p \in E THEN 1 ELSE 0)
    BY <1>1, <1>5, CountRemove
<1> QED BY <1>10, <1>11, <1>12, <1>13, Zenon DEF r, p, s

(* The counts of a client and a variable that a step leaves alone. *)
LEMMA CountedSame ==
    ASSUME NEW w \in Worker, NEW c, NEW v, Counted(c, v), Moves(w, job'[w]),
           OwnCount(c, v)' = OwnCount(c, v), ListCount(c, v)' = ListCount(c, v),
           On(w, c, v, {"obsNew"})' <=> On(w, c, v, {"obsNew"}),
           On(w, c, v, {"stopInit", "stopUnregister"})' <=>
               On(w, c, v, {"stopInit", "stopUnregister"})
    PROVE  Counted(c, v)'
<1> DEFINE new(x) == On(x, c, v, {"obsNew"})
           stop(x) == On(x, c, v, {"stopInit", "stopUnregister"})
<1>1. \A x \in Worker : On(x, c, v, Halfway) <=> new(x) \/ stop(x)
    BY DEF On, Halfway
<1>2. \A x \in Worker : On(x, c, v, Halfway)' <=> new(x)' \/ stop(x)'
    BY DEF On, Halfway
<1>3. \A x \in Worker : (new(x)' <=> new(x)) /\ (stop(x)' <=> stop(x))
  <2> TAKE x \in Worker
  <2>1. CASE x = w
    BY <2>1
  <2>2. CASE x # w
    BY <2>2 DEF On, Moves
  <2> QED BY <2>1, <2>2
<1>4. \A x \in Worker : On(x, c, v, Halfway)' <=> On(x, c, v, Halfway)
    BY <1>1, <1>2, <1>3
<1> HIDE DEF new, stop
<1>5. /\ \A x \in Worker : new(x)' => ListCount(c, v)' = OwnCount(c, v)' + 1
      /\ \A x \in Worker : stop(x)' => OwnCount(c, v)' = ListCount(c, v)' + 1
    BY <1>3 DEF Counted, new, stop
<1>6. (\A x \in Worker : ~On(x, c, v, Halfway)') => OwnCount(c, v)' = ListCount(c, v)'
    BY <1>4 DEF Counted
<1> QED BY <1>5, <1>6 DEF Counted, new, stop

(* A step that touches neither record, and what it has to see to. *)
Gone == {"ntfInitNil", "delSnap", "delVars", "delClient"}

FoundBy(j) ==
    /\ j.at \in {"obsInit", "obsRegister"} => <<j.c, j.m>> \notin Listed(observers[j.v])
    /\ j.at = "stopRemove" => <<j.c, j.m>> \in Listed(observers[j.v])

LEMMA QuietStep ==
    ASSUME InOrder, NEW w \in Worker, Moves(w, job'[w]),
           observers' = observers, observing' = observing,
           capi \subseteq capi', started' = started,
           job'[w].at \notin Gone,
           job'[w].at \in {"obsRegister", "ntfApi"} => job'[w].c \in capi',
           Commanding(w)' => \A x \in Worker \ {w} : Commanding(x) => job[x].c # job'[w].c,
           FoundBy(job'[w]),
           \/ job[w].at \notin Halfway /\ job'[w].at \notin Halfway
           \/ /\ job[w].at = "stopInit" /\ job'[w].at = "stopUnregister"
              /\ job'[w].c = job[w].c /\ job'[w].v = job[w].v
    PROVE  InOrder'
<1>1. \A x \in Worker \ {w} : job'[x] = job[x]
    BY DEF Moves
<1>2. Alive'
    BY <1>1 DEF InOrder, Alive, Listed, Gone
<1>3. Serial'
  <2> SUFFICES ASSUME NEW x \in Worker, NEW y \in Worker, Commanding(x)', Commanding(y)',
                      job'[x].c = job'[y].c
               PROVE  x = y
    BY DEF Serial
  <2>1. CASE x # w /\ y # w
    BY <1>1, <2>1 DEF InOrder, Serial, Commanding
  <2>2. CASE x = w /\ y # w
    BY <1>1, <2>2 DEF Commanding
  <2>3. CASE x # w /\ y = w
    BY <1>1, <2>3 DEF Commanding
  <2> QED BY <2>1, <2>2, <2>3
<1>4. Found'
  <2>1. \A x \in Worker : FoundBy(job[x])
    BY DEF InOrder, Found, FoundBy
  <2>2. \A x \in Worker : FoundBy(job'[x])
    BY <1>1, <2>1
  <2> QED BY <2>2 DEF Found, FoundBy, Listed
<1>5. \A v \in Var : Once(observers[v].list)' /\ Entered(observers[v])'
    BY DEF InOrder, Once, Entered, Listed, IsClientObserving
<1>6. ASSUME NEW c \in Client, NEW v \in Var PROVE Counted(c, v)'
  <2>1. OwnCount(c, v)' = OwnCount(c, v) /\ ListCount(c, v)' = ListCount(c, v)
    BY DEF OwnCount, ListCount
  <2>2. On(w, c, v, {"obsNew"})' <=> On(w, c, v, {"obsNew"})
    BY DEF On, Halfway
  <2>3. On(w, c, v, {"stopInit", "stopUnregister"})' <=>
            On(w, c, v, {"stopInit", "stopUnregister"})
    BY DEF On, Halfway
  <2>4. Counted(c, v)
    BY DEF InOrder
  <2> QED BY <2>1, <2>2, <2>3, <2>4, CountedSame
<1> QED BY <1>2, <1>3, <1>4, <1>5, <1>6 DEF InOrder

LEMMA NoSkip ==
    ASSUME Orderly, NEW w, NEW at, NEW next
    PROVE  ~Skip(w, at, next)
    BY DEF Orderly, Skip

(* The steps of a command, or of a notification, that touch neither. *)
LEMMA GotoQuiet ==
    ASSUME Types, InOrder, NEW w \in Worker, NEW next \in Places \ Gone, Goto(w, next),
           job[w].at # "idle",
           observers' = observers, observing' = observing, capi \subseteq capi',
           Commanding(w) \/ next \in {"idle", "send", "ntfInit"},
           next \in OfAVar => job[w].at \in OfAVar,
           next \notin {"ntfApi", "stopRemove"},
           next = "obsRegister" => job[w].c \in capi',
           next \in {"obsInit", "obsRegister"} =>
               <<job[w].c, job[w].m>> \notin Listed(observers[job[w].v]),
           \/ job[w].at \notin Halfway /\ next \notin Halfway
           \/ job[w].at = "stopInit" /\ next = "stopUnregister"
    PROVE  InOrder'
<1>1. /\ Moves(w, job'[w]) /\ started' = started
      /\ next = "idle" => job'[w] = NoJob
      /\ next # "idle" => /\ job'[w].at = next /\ job'[w].c = job[w].c
                          /\ job'[w].v = job[w].v /\ job'[w].m = job[w].m
    BY GotoIs
<1>2. CASE next = "idle"
  <2>1. job'[w].at = "idle"
    BY <1>1, <1>2 DEF NoJob
  <2>2. ~Commanding(w)' /\ FoundBy(job'[w]) /\ job'[w].at \notin Gone \cup Halfway
    BY <2>1 DEF Commanding, FoundBy, Gone, Halfway
  <2>3. job[w].at \notin Halfway
    BY <1>2
  <2> QED BY <1>1, <2>1, <2>2, <2>3, QuietStep
<1>3. CASE next # "idle"
  <2>1. Commanding(w)' => \A x \in Worker \ {w} : Commanding(x) => job[x].c # job'[w].c
    BY <1>1, <1>3 DEF InOrder, Serial, Commanding
  <2>2. FoundBy(job'[w])
    BY <1>1, <1>3 DEF FoundBy
  <2> QED BY <1>1, <1>3, <2>1, <2>2, QuietStep
<1> QED BY <1>2, <1>3

LEMMA QuietActions ==
    ASSUME Types, Orderly, InOrder, NEW w \in Worker,
           \/ ObserveCheck(w) \/ ObserveInit(w) \/ Send(w) \/ StopInit(w)
           \/ ConnectInit(w) \/ NotifyApi(w) \/ NotifyInit(w)
    PROVE  InOrder'
<1> DEFINE j == job[w]
<1> USE DEF Places, OfAVar, Gone, Halfway, Commanding
<1>1. InOrder /\ FoundBy(job[w]) /\ Alive
    BY DEF InOrder, Found, FoundBy
<1>2. CASE ObserveCheck(w)
  <2>1. j.at = "obsCheck" /\ observers' = observers /\ observing' = observing /\ capi' = capi
    BY <1>2 DEF ObserveCheck, clientRecs
  <2>2. CASE IsClientObserving(observers[j.v], j.c, j.m)
    BY <1>2, <2>1, <2>2, GotoQuiet DEF ObserveCheck
  <2>3. CASE ~IsClientObserving(observers[j.v], j.c, j.m)
    <3>1. j.v \in Var
        BY <2>1 DEF Types, JobOK
    <3>2. \A e \in Listed(observers[j.v]) : IsClientObserving(observers[j.v], e[1], e[2])
        BY <3>1 DEF InOrder, Entered
    <3>3. <<j.c, j.m>> \notin Listed(observers[j.v])
      <4> DEFINE p == <<j.c, j.m>>
      <4>1. p[1] = j.c /\ p[2] = j.m
        OBVIOUS
      <4> HIDE DEF p, j
      <4>2. p \notin Listed(observers[j.v])
        BY <2>3, <3>2, <4>1
      <4> QED BY <4>2 DEF p
    <3>4. Goto(w, "obsInit")
        BY <1>2, <2>3 DEF ObserveCheck
    <3> QED BY <2>1, <3>3, <3>4, GotoQuiet
  <2> QED BY <2>2, <2>3
<1>3. CASE ObserveInit(w)
  <2>1. /\ j.at = "obsInit" /\ observers' = observers /\ observing' = observing
        /\ capi' = capi \cup {j.c} /\ Goto(w, "obsRegister")
    BY <1>3, NoSkip DEF ObserveInit, ClientStep, initialize
  <2>2. <<j.c, j.m>> \notin Listed(observers[j.v])
    BY <1>1, <2>1 DEF FoundBy
  <2> QED BY <2>1, <2>2, GotoQuiet
<1>4. CASE Send(w)
  <2>1. /\ j.at = "send" /\ observers' = observers /\ observing' = observing
        /\ capi' = capi /\ Goto(w, "idle")
    BY <1>4, NoSkip DEF Send, ClientStep, UpdateLiveTime, clientRecs
  <2> QED BY <2>1, GotoQuiet
<1>5. CASE StopInit(w)
  <2>1. /\ j.at = "stopInit" /\ observers' = observers /\ observing' = observing
        /\ capi' = capi \cup {j.c} /\ Goto(w, "stopUnregister")
    BY <1>5, NoSkip DEF StopInit, ClientStep, initialize
  <2> QED BY <2>1, GotoQuiet
<1>6. CASE ConnectInit(w)
  <2>1. /\ j.at = "connInit" /\ observers' = observers /\ observing' = observing
        /\ capi' = capi \cup {j.c} /\ Goto(w, "send")
    BY <1>6, NoSkip DEF ConnectInit, ClientStep, initialize
  <2> QED BY <2>1, GotoQuiet
<1>7. CASE NotifyApi(w)
  <2>1. j.at = "ntfApi" /\ observers' = observers /\ observing' = observing /\ capi' = capi
    BY <1>7 DEF NotifyApi, clientRecs
  <2>2. started /\ j.c \in capi
    BY <1>1, <2>1 DEF Alive
  <2>3. Goto(w, "ntfInit")
    BY <1>7, <2>2 DEF NotifyApi
  <2> QED BY <2>1, <2>3, GotoQuiet
<1>8. CASE NotifyInit(w)
  <2>1. /\ j.at = "ntfInit" /\ observers' = observers /\ observing' = observing
        /\ capi' = capi \cup {j.c} /\ Goto(w, "send")
    BY <1>8, NoSkip DEF NotifyInit, ClientStep, initialize
  <2> QED BY <2>1, GotoQuiet
<1> QED BY <1>2, <1>3, <1>4, <1>5, <1>6, <1>7, <1>8

(* Nobody is deleted. *)
LEMMA NoDeletion ==
    ASSUME Orderly, InOrder, NEW w \in Worker
    PROVE  ~(NotifyInitNil(w) \/ DeleteSnapshot(w) \/ DeleteFromVar(w)
             \/ DeleteVarsDone(w) \/ DeleteRecord(w))
<1>1. job[w].at \notin {"ntfInitNil", "delSnap", "delVars", "delClient"}
    BY DEF InOrder, Alive
<1>2. ~NotifyInitNil(w) /\ ~DeleteRecord(w)
    BY <1>1, NoSkip DEF NotifyInitNil, DeleteRecord, ClientStep
<1>3. ~DeleteSnapshot(w) /\ ~DeleteFromVar(w) /\ ~DeleteVarsDone(w)
    BY <1>1 DEF DeleteSnapshot, DeleteFromVar, DeleteVarsDone
<1> QED BY <1>2, <1>3

(* A command or a notification begins. *)
LEMMA RequestsInOrder ==
    ASSUME Types, Orderly, InOrder, NEW w \in Worker,
           Request(w) \/ \E v \in Var : NotifyObserver(w, v)
    PROVE  InOrder'
<1> USE DEF Places, OfAVar
<1>1. ASSUME NEW at \in {"obsCheck", "stopRemove", "connInit", "ntfApi"}, NEW c \in Client,
             NEW v \in Var \cup {NoVar}, NEW m \in Metas, Start(w, at, c, v, m),
             at \in OfAVar => v \in Var,
             at # "ntfApi" => ~Busy(c),
             at = "ntfApi" => c \in capi,
             at = "stopRemove" => <<c, m>> \in Listed(observers[v])
      PROVE  InOrder'
  <2>1. /\ Moves(w, job'[w])
        /\ job'[w].at = at /\ job'[w].c = c /\ job'[w].v = v /\ job'[w].m = m
        /\ job[w] = NoJob
        /\ UNCHANGED <<observers, clientRecs, started, env>>
    BY <1>1, StartIs
  <2>2. observers' = observers /\ observing' = observing /\ capi' = capi /\ started' = started
    BY <2>1 DEF clientRecs
  <2>3. job[w].at = "idle"
    BY <2>1 DEF NoJob
  <2>4. Commanding(w)' => \A x \in Worker \ {w} : Commanding(x) => job[x].c # job'[w].c
    BY <1>1, <2>1 DEF Commanding, Busy
  <2>5. FoundBy(job'[w])
    BY <1>1, <2>1 DEF FoundBy
  <2>6. job'[w].at \notin Gone /\ job'[w].at \notin Halfway /\ job[w].at \notin Halfway
    BY <2>1, <2>3 DEF Gone, Halfway
  <2>7. job'[w].at \in {"obsRegister", "ntfApi"} => job'[w].c \in capi'
    BY <1>1, <2>1, <2>2
  <2> QED BY <2>1, <2>2, <2>4, <2>5, <2>6, <2>7, QuietStep
<1>2. env.serial
    BY DEF Orderly
<1>3. CASE \E c \in Client : ClientConnected(w, c)
  <2>1. PICK c \in Client : ClientConnected(w, c)
    BY <1>3
  <2> QED BY <1>1, <1>2, <2>1 DEF ClientConnected, Metas
<1>4. CASE \E c \in Client, v \in Var, m \in Metas : ObserveVar(w, c, v, m)
    BY <1>1, <1>2, <1>4 DEF ObserveVar
<1>5. CASE \E c \in Client, v \in Var, m \in Metas : StopObservingVar(w, c, v, m)
    BY <1>1, <1>2, <1>5 DEF StopObservingVar
<1>6. CASE \E v \in Var : NotifyObserver(w, v)
  <2>1. PICK v \in Var : \E e \in Listed(observers[v]) : Start(w, "ntfApi", e[1], v, e[2])
    BY <1>6 DEF NotifyObserver
  <2>2. PICK e \in Listed(observers[v]) : Start(w, "ntfApi", e[1], v, e[2])
    BY <2>1
  <2>3. e \in Pair
    BY <2>2 DEF Types, ObserversOf, Listed, Range
  <2>4. e[1] \in Client /\ e[2] \in Metas
    BY <2>3 DEF Pair, Metas
  <2>5. e[1] \in capi
    BY <2>2 DEF InOrder, Alive
  <2> QED BY <1>1, <2>2, <2>4, <2>5
<1> QED BY <1>3, <1>4, <1>5, <1>6 DEF Request, Metas

(* The steps that change one record or the other.  While a command is      *)
(* under way no other is halfway with the subscriptions of its client.     *)
LEMMA OneHalfway ==
    ASSUME Serial, NEW w \in Worker, NEW x \in Worker, Commanding(w), x # w, NEW v
    PROVE  ~On(x, job[w].c, v, Halfway)
    BY DEF Serial, On, Halfway, Commanding

LEMMA EvenBefore ==
    ASSUME InOrder, NEW w \in Worker, Commanding(w), job[w].at \notin Halfway,
           job[w].c \in Client, job[w].v \in Var
    PROVE  OwnCount(job[w].c, job[w].v) = ListCount(job[w].c, job[w].v)
<1> DEFINE c == job[w].c
           v == job[w].v
<1>1. \A x \in Worker : ~On(x, c, v, Halfway)
  <2>1. ~On(w, c, v, Halfway)
    BY DEF On
  <2>2. \A x \in Worker : x # w => ~On(x, c, v, Halfway)
    BY OneHalfway DEF InOrder
  <2> QED BY <2>1, <2>2
<1>2. Counted(c, v)
    BY DEF InOrder
<1> HIDE DEF c, v
<1>3. OwnCount(c, v) = ListCount(c, v)
    BY <1>1, <1>2 DEF Counted
<1> QED BY <1>3 DEF c, v

LEMMA ChangeStep ==
    ASSUME Types, InOrder, NEW w \in Worker, Commanding(w), Moves(w, job'[w]),
           NEW c \in Client, c = job[w].c, NEW v \in Var, v = job[w].v,
           job'[w].at \in {"obsNew", "send", "stopInit", "idle"},
           job'[w].at # "idle" => job'[w].c = c /\ job'[w].v = v,
           capi' = capi, started' = started,
           \A u \in Var : Once(observers'[u].list) /\ Entered(observers'[u]),
           \A u \in Var : \A e \in Listed(observers'[u]) :
               e \in Listed(observers[u]) \/ e[1] \in capi,
           \A u \in Var : \A e \in Pair :
               e[1] # c => (e \in Listed(observers'[u]) <=> e \in Listed(observers[u])),
           \A d \in Client, u \in Var : d # c \/ u # v =>
               OwnCount(d, u)' = OwnCount(d, u) /\ ListCount(d, u)' = ListCount(d, u),
           job'[w].at = "obsNew" => ListCount(c, v)' = OwnCount(c, v)' + 1,
           job'[w].at = "stopInit" => OwnCount(c, v)' = ListCount(c, v)' + 1,
           job'[w].at \in {"send", "idle"} => OwnCount(c, v)' = ListCount(c, v)'
    PROVE  InOrder'
<1>1. \A x \in Worker \ {w} : job'[x] = job[x]
    BY DEF Moves
<1>2. Alive'
  <2>1. \A u \in Var : \A e \in Listed(observers'[u]) : e[1] \in capi
    BY DEF InOrder, Alive
  <2>2. ASSUME NEW x \in Worker
        PROVE  /\ job'[x].at \notin {"ntfInitNil", "delSnap", "delVars", "delClient"}
               /\ job'[x].at \in {"obsRegister", "ntfApi"} => job'[x].c \in capi
    BY <1>1 DEF InOrder, Alive
  <2> QED BY <2>1, <2>2 DEF InOrder, Alive, Listed
<1>3. Serial'
  <2> SUFFICES ASSUME NEW x \in Worker, NEW y \in Worker, Commanding(x)', Commanding(y)',
                      job'[x].c = job'[y].c
               PROVE  x = y
    BY DEF Serial
  <2>1. Commanding(x) /\ job'[x].c = job[x].c
    BY <1>1 DEF Commanding
  <2>2. Commanding(y) /\ job'[y].c = job[y].c
    BY <1>1 DEF Commanding
  <2> QED BY <2>1, <2>2 DEF InOrder, Serial
<1>4. Found'
  <2> DEFINE Fine(x) ==
        /\ job'[x].at \in {"obsInit", "obsRegister"} =>
             <<job'[x].c, job'[x].m>> \notin Listed(observers'[job'[x].v])
        /\ job'[x].at = "stopRemove" =>
             <<job'[x].c, job'[x].m>> \in Listed(observers'[job'[x].v])
  <2>1. ASSUME NEW x \in Worker PROVE Fine(x)
    <3>1. CASE x = w \/ job[x].at \notin {"obsInit", "obsRegister", "stopRemove"}
        BY <1>1, <3>1
    <3>2. CASE x # w /\ job[x].at \in {"obsInit", "obsRegister", "stopRemove"}
      <4> DEFINE e == <<job[x].c, job[x].m>>
                 u == job[x].v
      <4>1. job'[x] = job[x]
        BY <1>1, <3>2
      <4>2. Commanding(x)
        BY <3>2 DEF Commanding
      <4>3. job[x].c # c
        BY <3>2, <4>2 DEF InOrder, Serial
      <4>4. JobOK(job[x]) /\ job[x] \in Job
        BY DEF Types
      <4>5. u \in Var /\ job[x].c \in Client
        BY <3>2, <4>4 DEF JobOK, OfAVar, Job
      <4>6. e \in Pair /\ e[1] = job[x].c
        BY <4>4, <4>5 DEF Pair, Job
      <4>7. e \in Listed(observers'[u]) <=> e \in Listed(observers[u])
        BY <4>3, <4>5, <4>6
      <4>8. /\ job[x].at \in {"obsInit", "obsRegister"} => e \notin Listed(observers[u])
            /\ job[x].at = "stopRemove" => e \in Listed(observers[u])
        BY DEF InOrder, Found
      <4> HIDE DEF e, u
      <4>9. /\ job[x].at \in {"obsInit", "obsRegister"} => e \notin Listed(observers'[u])
            /\ job[x].at = "stopRemove" => e \in Listed(observers'[u])
        BY <4>7, <4>8
      <4> QED BY <4>1, <4>9, Zenon DEF e, u
    <3> QED BY <3>1, <3>2
  <2> QED BY <2>1 DEF Found, Listed
<1>5. \A u \in Var : Once(observers[u].list)' /\ Entered(observers[u])'
    BY DEF Once, Entered, Listed, IsClientObserving
<1>6. ASSUME NEW d \in Client, NEW u \in Var PROVE Counted(d, u)'
  <2>1. CASE d # c \/ u # v
    <3>1. ~On(w, d, u, {"obsNew"}) /\ ~On(w, d, u, {"obsNew"})'
        BY <2>1 DEF On
    <3>2. /\ ~On(w, d, u, {"stopInit", "stopUnregister"})
          /\ ~On(w, d, u, {"stopInit", "stopUnregister"})'
        BY <2>1 DEF On
    <3>3. Counted(d, u)
        BY DEF InOrder
    <3>4. OwnCount(d, u)' = OwnCount(d, u) /\ ListCount(d, u)' = ListCount(d, u)
        BY <2>1
    <3> QED BY <3>1, <3>2, <3>3, <3>4, CountedSame
  <2>2. CASE d = c /\ u = v
    <3>1. \A x \in Worker : x # w => ~On(x, c, v, Halfway)'
      <4>1. \A x \in Worker : x # w => ~On(x, c, v, Halfway)
        BY OneHalfway DEF InOrder
      <4> QED BY <1>1, <4>1 DEF On
    <3>2. \A x \in Worker : x # w => /\ ~On(x, c, v, {"obsNew"})'
                                     /\ ~On(x, c, v, {"stopInit", "stopUnregister"})'
        BY <3>1 DEF On, Halfway
    <3>3. On(w, c, v, {"obsNew"})' => job'[w].at = "obsNew"
        BY DEF On
    <3>4. On(w, c, v, {"stopInit", "stopUnregister"})' => job'[w].at = "stopInit"
        BY DEF On
    <3>5. ~On(w, c, v, Halfway)' => job'[w].at \in {"send", "idle"}
        BY DEF On, Halfway
    <3>6. Counted(c, v)'
        BY <3>2, <3>3, <3>4, <3>5 DEF Counted
    <3> QED BY <2>2, <3>6
  <2> QED BY <2>1, <2>2
<1> QED BY <1>2, <1>3, <1>4, <1>5, <1>6 DEF InOrder

(* What the places of a command say of its job. *)
LEMMA CommandIs ==
    ASSUME Types, NEW w \in Worker,
           job[w].at \in {"obsRegister", "obsNew", "stopRemove", "stopUnregister"}
    PROVE  /\ job[w].c \in Client /\ job[w].v \in Var /\ job[w].m \in Metas
           /\ Commanding(w)
           /\ observers[job[w].v] \in ObserversOf
<1>1. JobOK(job[w]) /\ job[w] \in Job
    BY DEF Types
<1>2. job[w].c \in Client /\ job[w].v \in Var /\ job[w].m \in Metas
    BY <1>1 DEF JobOK, OfAVar, Job, Metas
<1> QED BY <1>2 DEF Types, Commanding

(* The list of one variable is replaced. *)
LEMMA ListStep ==
    ASSUME Types, InOrder, NEW w \in Worker, NEW at, NEW next \in {"obsNew", "stopInit"},
           at \in {"obsRegister", "stopRemove"},
           NEW c \in Client, c = job[w].c, NEW v \in Var, v = job[w].v,
           NEW m \in Metas, NEW r \in ObserversOf,
           SetObservers(w, at, next, v, r),
           Once(r.list), Entered(r), c \in capi \/ next = "stopInit",
           \/ Listed(r) = Listed(observers[v]) \cup {<<c, m>>} /\ next = "obsNew"
           \/ Listed(r) = Listed(observers[v]) \ {<<c, m>>} /\ next = "stopInit",
           \A E : Count(r.list, E) = Count(observers[v].list, E)
                    + (IF <<c, m>> \in E THEN IF next = "obsNew" THEN 1 ELSE -1 ELSE 0)
    PROVE  InOrder'
<1>1. /\ job[w].at = at /\ observers' = [observers EXCEPT ![v] = r] /\ Goto(w, next)
      /\ observing' = observing /\ capi' = capi
    BY DEF SetObservers, clientRecs
<1>2. Commanding(w) /\ job[w].at \notin Halfway
    BY <1>1 DEF Commanding, Halfway
<1>3. /\ Moves(w, job'[w]) /\ started' = started
      /\ job'[w].at = next /\ job'[w].c = c /\ job'[w].v = v
  <2>1. next \in Places /\ next \in OfAVar /\ job[w].at \in OfAVar /\ next # "idle"
    BY <1>1 DEF Places, OfAVar
  <2>2. job[w].at # "idle"
    BY <1>1
  <2> QED BY <1>1, <2>1, <2>2, GotoIs
<1>4. observers'[v] = r /\ \A u \in Var : u # v => observers'[u] = observers[u]
    BY <1>1 DEF Types
<1>5. \A u \in Var : Once(observers'[u].list) /\ Entered(observers'[u])
    BY <1>4 DEF InOrder
<1>6. \A u \in Var : \A e \in Listed(observers'[u]) : e \in Listed(observers[u]) \/ e[1] \in capi
  <2>1. <<c, m>>[1] = c
    OBVIOUS
  <2> QED BY <1>4, <2>1
<1>7. \A u \in Var : \A e \in Pair :
        e[1] # c => (e \in Listed(observers'[u]) <=> e \in Listed(observers[u]))
  <2>1. \A e \in Pair : e[1] # c => e # <<c, m>>
    OBVIOUS
  <2> QED BY <1>4, <2>1
<1>8. \A d \in Client, u \in Var : OwnCount(d, u)' = OwnCount(d, u)
    BY <1>1 DEF OwnCount
<1> DEFINE E(d) == {d} \X (Meta \cup {NoMeta})
<1>9. \A d \in Client : <<c, m>> \in E(d) <=> d = c
    BY DEF Metas
<1>10. \A d \in Client, u \in Var :
         ListCount(d, u) = Count(observers[u].list, E(d)) /\
         ListCount(d, u)' = Count(observers'[u].list, E(d))
    BY DEF ListCount
<1> HIDE DEF E
<1>11. \A d \in Client, u \in Var : ListCount(d, u) \in Nat
  <2> SUFFICES ASSUME NEW d \in Client, NEW u \in Var PROVE ListCount(d, u) \in Nat
    OBVIOUS
  <2>1. observers[u].list \in Seq(Pair)
    BY DEF Types, ObserversOf
  <2> QED BY <1>10, <2>1, CountIs
<1>12. ASSUME NEW d \in Client, NEW u \in Var, d # c \/ u # v
       PROVE  ListCount(d, u)' = ListCount(d, u)
  <2>1. CASE u # v
    BY <1>4, <1>10, <2>1
  <2>2. CASE u = v
    <3>1. <<c, m>> \notin E(d)
        BY <1>9, <1>12, <2>2
    <3>2. Count(r.list, E(d)) = Count(observers[v].list, E(d)) + 0
        BY <3>1
    <3> QED BY <1>4, <1>10, <1>11, <2>2, <3>2
  <2> QED BY <2>1, <2>2
<1>13. ListCount(c, v)' = ListCount(c, v) + (IF next = "obsNew" THEN 1 ELSE -1)
  <2>1. <<c, m>> \in E(c)
    BY <1>9
  <2>2. Count(r.list, E(c)) = Count(observers[v].list, E(c)) + (IF next = "obsNew" THEN 1 ELSE -1)
    BY <2>1
  <2> QED BY <1>4, <1>10, <2>2
<1>14. OwnCount(c, v) = ListCount(c, v)
    BY <1>2, EvenBefore
<1>15. /\ next = "obsNew" => ListCount(c, v)' = OwnCount(c, v)' + 1
       /\ next = "stopInit" => OwnCount(c, v)' = ListCount(c, v)' + 1
    BY <1>8, <1>11, <1>13, <1>14
<1> QED BY <1>1, <1>2, <1>3, <1>5, <1>6, <1>7, <1>8, <1>12, <1>15, ChangeStep

LEMMA RegisterStep ==
    ASSUME Types, Orderly, InOrder, NEW w \in Worker, ObserveRegister(w)
    PROVE  InOrder'
<1> DEFINE c == job[w].c
           v == job[w].v
           m == job[w].m
           r == RegisterObservation(observers[v], c, m)
<1>1. job[w].at = "obsRegister" /\ SetObservers(w, "obsRegister", "obsNew", v, r)
    BY NoSkip DEF ObserveRegister, SetObservers
<1>2. c \in Client /\ v \in Var /\ m \in Metas /\ observers[v] \in ObserversOf
    BY <1>1, CommandIs
<1>3. /\ Once(observers[v].list) /\ Entered(observers[v])
      /\ <<c, m>> \notin Listed(observers[v]) /\ c \in capi
    BY <1>1, <1>2 DEF InOrder, Found, Alive
<1>4. /\ r \in ObserversOf /\ Once(r.list) /\ Entered(r)
      /\ Listed(r) = Listed(observers[v]) \cup {<<c, m>>}
      /\ \A E : Count(r.list, E) = Count(observers[v].list, E) + (IF <<c, m>> \in E THEN 1 ELSE 0)
  <2> HIDE DEF c, v, m
  <2>1. r \in ObserversOf
    BY <1>2, RegisterIs
  <2> QED BY <1>2, <1>3, <2>1, RegisterInOrder
<1> HIDE DEF r
<1> QED BY <1>1, <1>2, <1>3, <1>4, ListStep

LEMMA RemoveStep ==
    ASSUME Types, Orderly, InOrder, NEW w \in Worker, StopRemove(w)
    PROVE  InOrder'
<1> DEFINE c == job[w].c
           v == job[w].v
           m == job[w].m
           r == internalRemoveObserving(observers[v], c, m)
<1>1. job[w].at = "stopRemove" /\ SetObservers(w, "stopRemove", "stopInit", v, r)
    BY NoSkip DEF StopRemove, SetObservers
<1>2. c \in Client /\ v \in Var /\ m \in Metas /\ observers[v] \in ObserversOf
    BY <1>1, CommandIs
<1>3. /\ Once(observers[v].list) /\ Entered(observers[v])
      /\ <<c, m>> \in Listed(observers[v])
    BY <1>1, <1>2 DEF InOrder, Found
<1>4. /\ r \in ObserversOf /\ Once(r.list) /\ Entered(r)
      /\ Listed(r) = Listed(observers[v]) \ {<<c, m>>}
      /\ \A E : Count(r.list, E) = Count(observers[v].list, E) - (IF <<c, m>> \in E THEN 1 ELSE 0)
  <2> HIDE DEF c, v, m
  <2>1. r \in ObserversOf
    BY <1>2, RemoveKeepsOthers
  <2> QED BY <1>2, <1>3, <2>1, RemoveInOrder
<1> HIDE DEF r
<1>5. ASSUME NEW E
      PROVE  Count(r.list, E) = Count(observers[v].list, E) + (IF <<c, m>> \in E THEN -1 ELSE 0)
  <2>1. Count(observers[v].list, E) \in Nat
    BY <1>2, CountIs DEF ObserversOf
  <2> QED BY <1>4, <2>1
<1> QED BY <1>1, <1>2, <1>3, <1>4, <1>5, ListStep

(* The list of one client is replaced. *)
SetObserving(w, next, c, v, s) ==
    /\ next \in {"send", "idle"} /\ job[w].at \in {"obsNew", "stopUnregister"}
    /\ Goto(w, next)
    /\ c = job[w].c /\ v = job[w].v
    /\ observing' = [observing EXCEPT ![c] = s] /\ observers' = observers /\ capi' = capi
    /\ \A u \in Var : u # v => Count(s, {u}) = Count(observing[c], {u})
    /\ Count(s, {v}) = ListCount(c, v)

LEMMA OwnStep ==
    ASSUME Types, InOrder, NEW w \in Worker, NEW next, NEW c \in Client, NEW v \in Var, NEW s,
           SetObserving(w, next, c, v, s)
    PROVE  InOrder'
<1> USE DEF SetObserving
<1>1. Commanding(w)
    BY CommandIs
<1>2. /\ Moves(w, job'[w]) /\ started' = started /\ job'[w].at = next
      /\ job'[w].at # "idle" => job'[w].c = c /\ job'[w].v = v
  <2>1. next \in Places /\ next \notin OfAVar /\ job[w].at # "idle" /\ NoJob.at = "idle"
    BY DEF Places, OfAVar, NoJob
  <2> QED BY <2>1, GotoIs
<1>3. observing'[c] = s /\ \A d \in Client : d # c => observing'[d] = observing[d]
    BY DEF Types
<1>4. \A u \in Var : Once(observers'[u].list) /\ Entered(observers'[u])
    BY DEF InOrder
<1>5. \A d \in Client, u \in Var : ListCount(d, u)' = ListCount(d, u)
    BY DEF ListCount
<1>6. \A d \in Client, u \in Var : d # c \/ u # v => OwnCount(d, u)' = OwnCount(d, u)
    BY <1>3 DEF OwnCount
<1>7. OwnCount(c, v)' = ListCount(c, v)'
    BY <1>3, <1>5 DEF OwnCount
<1> QED BY <1>1, <1>2, <1>4, <1>5, <1>6, <1>7, ChangeStep

LEMMA NewStep ==
    ASSUME Types, Orderly, InOrder, NEW w \in Worker, ObserveNew(w)
    PROVE  InOrder'
<1> DEFINE c == job[w].c
           v == job[w].v
           s == Append(observing[c], v)
<1>1. /\ job[w].at = "obsNew" /\ Goto(w, "send") /\ observers' = observers
      /\ observing' = [observing EXCEPT ![c] = s] /\ capi' = capi
    BY NoSkip DEF ObserveNew, ClientStep, RegisterNewObservation
<1>2. c \in Client /\ v \in Var
    BY <1>1, CommandIs
<1>3. observing[c] \in Seq(Var)
    BY <1>2 DEF Types
<1>4. ListCount(c, v) = OwnCount(c, v) + 1
  <2>1. On(w, c, v, {"obsNew"})
    BY <1>1 DEF On
  <2> HIDE DEF c, v
  <2> QED BY <1>2, <2>1 DEF InOrder, Counted
<1>5. ASSUME NEW E
      PROVE  /\ Count(observing[c], E) \in Nat
             /\ Count(s, E) = Count(observing[c], E) + (IF v \in E THEN 1 ELSE 0)
    BY <1>2, <1>3, CountIs, CountAppend
<1> HIDE DEF s
<1>6. \A u \in Var : u # v => Count(s, {u}) = Count(observing[c], {u})
    BY <1>5
<1>7. Count(s, {v}) = ListCount(c, v)
    BY <1>4, <1>5 DEF OwnCount
<1>8. SetObserving(w, "send", c, v, s)
    BY <1>1, <1>6, <1>7 DEF SetObserving
<1> HIDE DEF c, v
<1> QED BY <1>2, <1>8, OwnStep

LEMMA UnregisterStep ==
    ASSUME Types, Orderly, InOrder, NEW w \in Worker, StopUnregister(w)
    PROVE  InOrder'
<1> DEFINE c == job[w].c
           v == job[w].v
           t == observing[c]
           s == RemoveFirst(t, v)
<1>1. /\ job[w].at = "stopUnregister" /\ Goto(w, "idle") /\ observers' = observers
      /\ observing' = [observing EXCEPT ![c] = s] /\ capi' = capi
    BY NoSkip DEF StopUnregister, ClientStep, UnregisterObservation
<1>2. c \in Client /\ v \in Var /\ observers[v] \in ObserversOf
    BY <1>1, CommandIs
<1>3. t \in Seq(Var)
    BY <1>2 DEF Types
<1>4. Count(t, {v}) = ListCount(c, v) + 1
  <2>1. On(w, c, v, {"stopInit", "stopUnregister"})
    BY <1>1 DEF On
  <2> HIDE DEF c, v
  <2> QED BY <1>2, <2>1 DEF InOrder, Counted, OwnCount
<1>5. ListCount(c, v) \in Nat
    BY <1>2, CountIs DEF ListCount, ObserversOf
<1> HIDE DEF c, v
<1>6. \E i \in 1 .. Len(t) : t[i] = v /\ s = RemoveAt(t, i)
  <2>1. ~\A i \in 1 .. Len(t) : t[i] # v
    <3> SUFFICES ASSUME \A i \in 1 .. Len(t) : t[i] # v PROVE FALSE
        OBVIOUS
    <3>1. Hits(t, {v}) = {}
        BY <1>3 DEF Hits
    <3>2. Count(t, {v}) = 0
        BY <3>1, FS_EmptySet DEF Count
    <3> QED BY <1>4, <1>5, <3>2
  <2> QED BY <1>3, <2>1, RemoveFirstIs
<1>7. ASSUME NEW E
      PROVE  /\ Count(t, E) \in Nat
             /\ Count(s, E) = Count(t, E) - (IF v \in E THEN 1 ELSE 0)
  <2>1. PICK i \in 1 .. Len(t) : t[i] = v /\ s = RemoveAt(t, i)
    BY <1>6
  <2> QED BY <1>3, <2>1, CountIs, CountRemove
<1> HIDE DEF s
<1>8. \A u \in Var : u # v => Count(s, {u}) = Count(observing[c], {u})
    BY <1>7
<1>9. Count(s, {v}) = ListCount(c, v)
    BY <1>4, <1>5, <1>7
<1>10. SetObserving(w, "idle", c, v, s)
    BY <1>1, <1>8, <1>9 DEF SetObserving, c, v
<1> QED BY <1>2, <1>10, OwnStep

LEMMA InitInOrder == Init => InOrder
<1> SUFFICES ASSUME Init PROVE InOrder
    OBVIOUS
<1>1. \A v \in Var : observers[v].list = <<>> /\ observers[v].ent = {}
    BY DEF Init, NoObservers
<1>2. \A v \in Var : DOMAIN observers[v].list = {} /\ Listed(observers[v]) = {}
    BY <1>1 DEF Listed, Range
<1>3. \A w \in Worker : job[w].at = "idle"
    BY DEF Init, NoJob
<1>4. Alive
    BY <1>2, <1>3, Zenon DEF Alive, Init
<1>5. Serial /\ Found
    BY <1>3 DEF Serial, Found, Commanding
<1>6. \A v \in Var : Once(observers[v].list) /\ Entered(observers[v])
    BY <1>1, <1>2 DEF Once, Entered
<1>7. ASSUME NEW c \in Client, NEW v \in Var PROVE Counted(c, v)
  <2>1. DOMAIN observing[c] = {}
    BY DEF Init
  <2>2. OwnCount(c, v) = 0 /\ ListCount(c, v) = 0
    BY <1>2, <2>1, FS_EmptySet DEF OwnCount, ListCount, Count, Hits
  <2> QED BY <1>3, <2>2 DEF Counted, On
<1> QED BY <1>4, <1>5, <1>6, <1>7 DEF InOrder

LEMMA OrderKept ==
    ASSUME Types, Orderly, InOrder, [Next]_vars
    PROVE  InOrder'
<1>1. ASSUME NEW w \in Worker, WorkerStep(w) PROVE InOrder'
    BY <1>1, QuietActions, NoDeletion, RegisterStep, RemoveStep, NewStep, UnregisterStep
       DEF WorkerStep
<1>2. ASSUME NEW w \in Worker, Request(w) \/ \E v \in Var : NotifyObserver(w, v)
      PROVE  InOrder'
    BY <1>2, RequestsInOrder
<1>3. ~Restart
    BY DEF Restart, Orderly
<1>4. ~APIStarted
    BY DEF APIStarted, InOrder, Alive
<1>5. CASE UNCHANGED vars
  <2>1. Alive' /\ Serial' /\ Found'
    BY <1>5 DEF vars, InOrder, Alive, Serial, Commanding, Found, Listed
  <2>2. \A v \in Var : Once(observers[v].list)' /\ Entered(observers[v])'
    BY <1>5 DEF vars, InOrder, Once, Entered, Listed, IsClientObserving
  <2>3. ASSUME NEW c \in Client, NEW v \in Var PROVE Counted(c, v)'
    <3>1. OwnCount(c, v)' = OwnCount(c, v) /\ ListCount(c, v)' = ListCount(c, v)
        BY <1>5 DEF vars, OwnCount, ListCount
    <3>2. \A x, P : On(x, c, v, P)' <=> On(x, c, v, P)
        BY <1>5 DEF vars, On
    <3>3. Counted(c, v)
        BY DEF InOrder
    <3> QED BY <3>1, <3>2, <3>3, Zenon DEF Counted, Halfway
  <2> QED BY <2>1, <2>2, <2>3 DEF InOrder
<1> QED BY <1>1, <1>2, <1>3, <1>4, <1>5 DEF Next

LEMMA SettingStays == [Next]_vars => env' = env
<1>1. ASSUME NEW w \in Worker,
             \/ ObserveCheck(w) \/ ObserveInit(w) \/ ObserveRegister(w) \/ ObserveNew(w)
             \/ Send(w) \/ StopRemove(w) \/ StopInit(w) \/ StopUnregister(w)
      PROVE  env' = env
    BY <1>1 DEF ObserveCheck, ObserveInit, ObserveRegister, ObserveNew, Send, StopRemove,
           StopInit, StopUnregister, Goto, Skip, ClientStep, SetObservers
<1>2. ASSUME NEW w \in Worker,
             \/ ConnectInit(w) \/ NotifyApi(w) \/ NotifyInit(w) \/ NotifyInitNil(w)
             \/ DeleteSnapshot(w) \/ DeleteFromVar(w) \/ DeleteVarsDone(w) \/ DeleteRecord(w)
      PROVE  env' = env
    BY <1>2 DEF ConnectInit, NotifyApi, NotifyInit, NotifyInitNil, DeleteSnapshot,
           DeleteFromVar, DeleteVarsDone, DeleteRecord, Goto, Skip, ClientStep
<1>3. ASSUME NEW w \in Worker, Request(w) \/ \E v \in Var : NotifyObserver(w, v)
      PROVE  env' = env
    BY <1>3 DEF Request, ClientConnected, ObserveVar, StopObservingVar, NotifyObserver, Start
<1>4. Restart \/ APIStarted \/ UNCHANGED vars => env' = env
    BY DEF Restart, APIStarted, vars
<1> QED BY <1>1, <1>2, <1>3, <1>4 DEF Next, WorkerStep

(* The inductive invariant. *)
THEOREM ObserversInvariant == Spec => []ObsInv
<1>1. Init => ObsInv
    BY InitTypes, InitInOrder DEF ObsInv
<1>2. ObsInv /\ [Next]_vars => ObsInv'
    BY GoodStep, OrderKept, SettingStays DEF ObsInv, Good, Orderly
<1> QED BY <1>1, <1>2, PTL DEF Spec

(* Orderly clients have no subscription listed twice: observeVar appends   *)
(* after it looked the subscription up, and no second command of the       *)
(* client, no lock that times out and no restart comes in between.         *)
THEOREM ObserversNoDuplicate == Spec => []NoDuplicate
<1>1. ObsInv => NoDuplicate
  <2> SUFFICES ASSUME ObsInv, Orderly, NEW v \in Var, NEW e \in Pair
               PROVE  Times(observers[v].list, e) <= 1
    BY DEF NoDuplicate
  <2> DEFINE H == {i \in DOMAIN observers[v].list : observers[v].list[i] = e}
  <2>1. \A i, j \in H : i = j
    BY DEF ObsInv, InOrder, Once
  <2>2. H = {} \/ \E i : H = {i}
    BY <2>1
  <2> HIDE DEF H
  <2>3. Cardinality(H) <= 1
    BY <2>2, FS_EmptySet, FS_Singleton
  <2> QED BY <2>3 DEF H, Times
<1> QED BY <1>1, ObserversInvariant, PTL

(* Every listed subscription of orderly clients is one IsClientObserving   *)
(* finds, whatever was removed before it and stored again.                 *)
THEOREM ObserversListedIsObserving == Spec => []ListedIsObserving
<1>1. ObsInv => ListedIsObserving
    BY DEF ObsInv, InOrder, Entered, ListedIsObserving
<1> QED BY <1>1, ObserversInvariant, PTL

(* The client's record and the variables' lists agree on how often it      *)
(* observes each, whenever none of its commands is under way.              *)
THEOREM ObserversTwoSidesAgree == Spec => []TwoSidesAgree
<1>1. ObsInv => TwoSidesAgree
  <2> SUFFICES ASSUME ObsInv, Orderly, NEW c \in Client, Quiet(c), NEW v \in Var
               PROVE  Times(observing[c], v) =
                      Cardinality({i \in DOMAIN observers[v].list : observers[v].list[i][1] = c})
    BY DEF TwoSidesAgree
  <2> DEFINE L == observers[v].list
             M == Meta \cup {NoMeta}
  <2>1. \A w \in Worker : ~On(w, c, v, Halfway)
    BY DEF Quiet, On, Halfway
  <2>2. OwnCount(c, v) = ListCount(c, v)
    BY <2>1 DEF ObsInv, InOrder, Counted
  <2>3. {i \in DOMAIN observing[c] : observing[c][i] = v} = Hits(observing[c], {v})
    BY DEF Hits
  <2>4. L \in Seq(Pair) /\ Pair = Client \X M
    BY DEF ObsInv, Types, ObserversOf, Pair
  <2>5. \A i \in DOMAIN L : L[i][1] = c <=> L[i] \in {c} \X M
    <3> SUFFICES ASSUME NEW i \in DOMAIN L PROVE L[i][1] = c <=> L[i] \in {c} \X M
        OBVIOUS
    <3>1. L[i] \in Client \X M
        BY <2>4
    <3> HIDE DEF L, M
    <3> QED BY <3>1
  <2>6. {i \in DOMAIN L : L[i][1] = c} = Hits(L, {c} \X M)
    BY <2>5, Zenon DEF Hits
  <2> QED BY <2>2, <2>3, <2>6 DEF Times, OwnCount, ListCount, Count
<1> QED BY <1>1, ObserversInvariant, PTL
============================================================================
