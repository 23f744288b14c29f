-------------------------- MODULE LinkedList_proofs --------------------------
(***************************************************************************)
(* The theorem that the lists of LinkedList are sequences (ListSeq), for   *)
(* any lists and nodes.  CountsUp stands in for induction: a walk along    *)
(* the pointers meets the nodes of the sequence place by place.  For each  *)
(* operation of the library one lemma (InsertShape, DeleteShape, GetShape, *)
(* ConcatShape, ExtractShape) says which sequences it leaves.              *)
(***************************************************************************)
EXTENDS LinkedList, SequenceTheorems, FiniteSetTheorems, TLAPS
-------------------------------------------------------------------------------
(***************************************************************************)
(* Induction over the first n numbers, for sets: were x the first number   *)
(* missing from D, or any, the missing numbers up to x, each moved one     *)
(* down, would fit into one place less.                                    *)
(***************************************************************************)
LEMMA CountsUp ==
    ASSUME NEW n \in Nat, NEW D, n > 0 => 1 \in D,
           \A k \in 1 .. n : k \in D /\ k < n => k + 1 \in D
    PROVE  1 .. n \subseteq D
<1> SUFFICES ASSUME NEW x \in 1 .. n, x \notin D PROVE FALSE
  OBVIOUS
<1> DEFINE F == {y \in 1 .. x : y \notin D}
<1>1. IsFiniteSet(F)
  <2>1. IsFiniteSet(1 .. x) /\ F \in SUBSET (1 .. x)
    BY FS_Interval
  <2> QED BY <2>1, FS_Subset
<1>2. x \in F
  OBVIOUS
<1>3. /\ IsFiniteSet(F \ {x}) /\ Cardinality(F \ {x}) = Cardinality(F) - 1
      /\ Cardinality(F) \in Nat
  <2> HIDE DEF F
  <2> QED BY <1>1, <1>2, FS_RemoveElement, FS_CardinalityType
<1> DEFINE f == [y \in F |-> y - 1]
<1>4. f \in [F -> F \ {x}]
  <2> SUFFICES ASSUME NEW y \in F PROVE y - 1 \in F \ {x}
    OBVIOUS
  <2>1. y \in 1 .. x /\ y \notin D
    OBVIOUS
  <2>2. y # 1
    BY <2>1
  <2>3. y - 1 \in 1 .. n /\ y - 1 < n /\ (y - 1) + 1 = y
    BY <2>1, <2>2
  <2>4. y - 1 \notin D
    BY <2>1, <2>3
  <2> QED BY <2>1, <2>2, <2>4
<1>5. \A y, z \in F : f[y] = f[z] => y = z
  OBVIOUS
<1> HIDE DEF F, f
<1>6. \E y, z \in F : y # z /\ f[y] = f[z]
  <2>1. Cardinality(F \ {x}) < Cardinality(F)
    BY <1>3
  <2> QED BY <1>1, <1>3, <1>4, <2>1, FS_PigeonHole
<1> QED BY <1>5, <1>6
-------------------------------------------------------------------------------
\* The place i of a sequence of nodes, or NULL beyond its ends.
At(s, i) == IF i \in 1 .. Len(s) THEN s[i] ELSE NULL

LEMMA AtType ==
    ASSUME NEW s \in Seq(Nodes), NEW i
    PROVE  /\ i \in 1 .. Len(s) => At(s, i) = s[i] /\ At(s, i) \in Nodes /\ At(s, i) # NULL
           /\ i \notin 1 .. Len(s) => At(s, i) = NULL
  BY NullAssumption DEF At

\* What a walk along the pointers p from node h meets.
Walk(h, p, n) == CHOOSE at : at = [k \in 1 .. n |-> IF k = 1 THEN h ELSE p[at[k - 1]]]

LEMMA WalkMeets ==
    ASSUME NEW n \in Nat, NEW s \in [1 .. n -> Nodes], NEW p, NEW h, n > 0 => h = s[1],
           \A k \in 1 .. n : k < n => p[s[k]] = s[k + 1]
    PROVE  Walk(h, p, n) = s
<1> DEFINE Met(at) == at = [k \in 1 .. n |-> IF k = 1 THEN h ELSE p[at[k - 1]]]
           w == Walk(h, p, n)
<1>1. Met(s)
  <2>1. \A k \in 1 .. n : s[k] = IF k = 1 THEN h ELSE p[s[k - 1]]
    <3> SUFFICES ASSUME NEW k \in 1 .. n, k # 1 PROVE s[k] = p[s[k - 1]]
      OBVIOUS
    <3>1. k - 1 \in 1 .. n /\ k - 1 < n /\ (k - 1) + 1 = k
      OBVIOUS
    <3> QED BY <3>1
  <2> QED BY <2>1
<1>2. Met(w)
  <2>1. w = CHOOSE at : Met(at)
    BY DEF Walk
  <2> HIDE DEF Met, w
  <2> QED BY <1>1, <2>1
<1> HIDE DEF w
<1> DEFINE D == {k \in 1 .. n : w[k] = s[k]}
<1>3. 1 .. n \subseteq D
  <2>1. n > 0 => 1 \in D
    BY <1>2
  <2>2. \A k \in 1 .. n : k \in D /\ k < n => k + 1 \in D
    <3> SUFFICES ASSUME NEW k \in 1 .. n, k \in D, k < n PROVE k + 1 \in D
      OBVIOUS
    <3>1. k + 1 \in 1 .. n /\ k + 1 # 1 /\ (k + 1) - 1 = k
      OBVIOUS
    <3>2. w[k + 1] = p[w[k]]
      BY <1>2, <3>1
    <3> QED BY <3>1, <3>2
  <2> HIDE DEF D
  <2> QED BY <2>1, <2>2, CountsUp
<1>4. \A k \in 1 .. n : w[k] = s[k]
  BY <1>3
<1>5. DOMAIN w = 1 .. n /\ w = [k \in DOMAIN w |-> w[k]]
  BY <1>2
<1> QED BY <1>4, <1>5 DEF w

(***************************************************************************)
(* Inserting, removing, joining and cutting, by places.                    *)
(***************************************************************************)
SeqEdits == INSTANCE SequencesExt

LEMMA AtInsert ==
    ASSUME NEW s \in Seq(Nodes), NEW q \in 0 .. Len(s), NEW n \in Nodes
    PROVE  LET t == SeqEdits!InsertAt(s, q + 1, n) IN
           /\ t \in Seq(Nodes) /\ Len(t) = Len(s) + 1
           /\ \A i \in Nat : At(t, i) = IF i <= q THEN At(s, i)
                                        ELSE IF i = q + 1 THEN n ELSE At(s, i - 1)
<1> DEFINE a == SubSeq(s, 1, q)  b == SubSeq(s, q + 1, Len(s))  an == a \o <<n>>  t == an \o b
<1>1. Len(s) \in Nat /\ \A i \in 1 .. Len(s) : s[i] \in Nodes
  OBVIOUS
<1>2. a \in Seq(Nodes) /\ Len(a) = q /\ \A i \in 1 .. q : a[i] = s[i]
  <2>1. \A i \in 1 .. q : s[i] \in Nodes
    BY <1>1
  <2> QED BY <1>1, <2>1, SubSeqProperties
<1>3. /\ b \in Seq(Nodes) /\ Len(b) = Len(s) - q
      /\ \A i \in 1 .. Len(s) - q : b[i] = s[q + i]
  <2>1. \A i \in q + 1 .. Len(s) : s[i] \in Nodes
    BY <1>1
  <2> QED BY <1>1, <2>1, SubSeqProperties
<1>4. <<n>> \in Seq(Nodes) /\ Len(<<n>>) = 1 /\ <<n>>[1] = n
  OBVIOUS
<1> HIDE DEF a, b
<1>5. /\ an \in Seq(Nodes) /\ Len(an) = q + 1
      /\ \A i \in 1 .. q + 1 : an[i] = IF i <= q THEN a[i] ELSE n
  BY <1>2, <1>4, ConcatProperties
<1> HIDE DEF an
<1>6. /\ t \in Seq(Nodes) /\ Len(t) = Len(s) + 1
      /\ \A i \in 1 .. Len(s) + 1 :
            t[i] = IF i <= q + 1 THEN an[i] ELSE b[i - (q + 1)]
  <2>1. /\ t \in Seq(Nodes) /\ Len(t) = Len(an) + Len(b)
        /\ \A i \in 1 .. Len(an) + Len(b) :
              t[i] = IF i <= Len(an) THEN an[i] ELSE b[i - Len(an)]
    BY <1>3, <1>5, ConcatProperties
  <2>2. Len(an) + Len(b) = Len(s) + 1
    BY <1>1, <1>3, <1>5
  <2> HIDE DEF t
  <2> QED BY <1>5, <2>1, <2>2
<1> HIDE DEF t
<1>7. ASSUME NEW i \in Nat
      PROVE  At(t, i) = IF i <= q THEN At(s, i) ELSE IF i = q + 1 THEN n ELSE At(s, i - 1)
  <2>1. CASE i <= q
    BY <1>1, <1>2, <1>5, <1>6, <2>1 DEF At
  <2>2. CASE i = q + 1
    BY <1>1, <1>5, <1>6, <2>2 DEF At
  <2>3. CASE i > q + 1 /\ i <= Len(s) + 1
    <3>1. i - (q + 1) \in 1 .. Len(s) - q /\ q + (i - (q + 1)) = i - 1
      BY <1>1, <2>3
    <3>2. t[i] = s[i - 1]
      BY <1>1, <1>3, <1>6, <2>3, <3>1
    <3> QED BY <1>1, <1>6, <2>3, <3>2 DEF At
  <2>4. CASE i > Len(s) + 1
    BY <1>1, <1>6, <2>4 DEF At
  <2> QED BY <1>1, <2>1, <2>2, <2>3, <2>4
<1>8. SeqEdits!InsertAt(s, q + 1, n) = t
  <2>1. (q + 1) - 1 = q
    OBVIOUS
  <2> QED BY <2>1 DEF SeqEdits!InsertAt, t, an, a, b
<1> QED BY <1>6, <1>7, <1>8

LEMMA AtJoin ==
    ASSUME NEW s \in Seq(Nodes), NEW u \in Seq(Nodes)
    PROVE  /\ s \o u \in Seq(Nodes) /\ Len(s \o u) = Len(s) + Len(u)
           /\ \A i \in Nat : At(s \o u, i) = IF i <= Len(s) THEN At(s, i)
                                             ELSE At(u, i - Len(s))
<1>1. /\ s \o u \in Seq(Nodes) /\ Len(s \o u) = Len(s) + Len(u)
      /\ Len(s) \in Nat /\ Len(u) \in Nat
      /\ \A i \in 1 .. Len(s) + Len(u) :
            (s \o u)[i] = IF i <= Len(s) THEN s[i] ELSE u[i - Len(s)]
  BY ConcatProperties
<1> DEFINE t == s \o u
<1> HIDE DEF t
<1>2. ASSUME NEW i \in Nat
      PROVE  At(t, i) = IF i <= Len(s) THEN At(s, i) ELSE At(u, i - Len(s))
  <2>1. CASE i <= Len(s)
    BY <1>1, <2>1 DEF At, t
  <2>2. CASE i > Len(s)
    <3>1. i - Len(s) \in 1 .. Len(u) <=> i \in 1 .. Len(t)
      BY <1>1, <2>2 DEF t
    <3> QED BY <1>1, <2>2, <3>1 DEF At, t
  <2> QED BY <1>1, <2>1, <2>2
<1> QED BY <1>1, <1>2 DEF t

LEMMA AtCut ==
    ASSUME NEW s \in Seq(Nodes), NEW i \in 1 .. Len(s), NEW j \in i .. Len(s)
    PROVE  LET t == SubSeq(s, 1, i - 1) \o SubSeq(s, j + 1, Len(s))
               u == SubSeq(s, i, j)
           IN  /\ t \in Seq(Nodes) /\ Len(t) = Len(s) - (j - i + 1)
               /\ \A k \in Nat : At(t, k) = IF k < i THEN At(s, k) ELSE At(s, k + (j - i + 1))
               /\ u \in Seq(Nodes) /\ Len(u) = j - i + 1
               /\ \A k \in 1 .. j - i + 1 : u[k] = s[i + k - 1]
<1> DEFINE a == SubSeq(s, 1, i - 1)  b == SubSeq(s, j + 1, Len(s))  u == SubSeq(s, i, j)
           t == a \o b  c == j - i + 1
<1>1. Len(s) \in Nat /\ c \in 1 .. Len(s) /\ \A k \in 1 .. Len(s) : s[k] \in Nodes
  OBVIOUS
<1>2. a \in Seq(Nodes) /\ Len(a) = i - 1 /\ \A k \in 1 .. i - 1 : a[k] = s[k]
  <2>1. \A k \in 1 .. i - 1 : s[k] \in Nodes
    BY <1>1
  <2> QED BY <1>1, <2>1, SubSeqProperties
<1>3. /\ b \in Seq(Nodes) /\ Len(b) = Len(s) - j
      /\ \A k \in 1 .. Len(s) - j : b[k] = s[j + k]
  <2>1. \A k \in j + 1 .. Len(s) : s[k] \in Nodes
    BY <1>1
  <2> QED BY <1>1, <2>1, SubSeqProperties
<1>4. u \in Seq(Nodes) /\ Len(u) = c /\ \A k \in 1 .. c : u[k] = s[i + k - 1]
  <2>1. \A k \in i .. j : s[k] \in Nodes
    BY <1>1
  <2> QED BY <1>1, <2>1, SubSeqProperties
<1> HIDE DEF a, b, u
<1>5. /\ t \in Seq(Nodes) /\ Len(t) = Len(a) + Len(b)
      /\ \A k \in Nat : At(t, k) = IF k <= Len(a) THEN At(a, k) ELSE At(b, k - Len(a))
  BY <1>2, <1>3, AtJoin
<1> HIDE DEF t
<1>6. ASSUME NEW k \in Nat PROVE At(t, k) = IF k < i THEN At(s, k) ELSE At(s, k + c)
  <2>1. CASE k < i
    <3>1. At(t, k) = At(a, k)
      BY <1>2, <1>5, <2>1
    <3> QED BY <1>1, <1>2, <2>1, <3>1 DEF At
  <2>2. CASE k >= i
    <3>1. At(t, k) = At(b, k - (i - 1))
      BY <1>2, <1>5, <2>2
    <3>2. /\ k - (i - 1) \in 1 .. Len(s) - j <=> k + c \in 1 .. Len(s)
          /\ j + (k - (i - 1)) = k + c
      BY <1>1, <2>2
    <3> QED BY <1>3, <2>2, <3>1, <3>2 DEF At
  <2> QED BY <2>1, <2>2
<1>7. Len(t) = Len(s) - c
  BY <1>1, <1>2, <1>3, <1>5
<1> QED BY <1>4, <1>5, <1>6, <1>7 DEF t, a, b, u
-------------------------------------------------------------------------------
(***************************************************************************)
(* The invariant: the pointers are those of sequences S of nodes, in one   *)
(* place each; two nodes that point to each other are in a list (so that   *)
(* lstDelete is refused for a node in none, whatever it kept).             *)
(***************************************************************************)
ListOf(s) == List(At(s, 1), At(s, Len(s)), Len(s))

Chain(nx, pv, s) == \A i \in 1 .. Len(s) : nx[s[i]] = At(s, i + 1) /\ pv[s[i]] = At(s, i - 1)

Apart(S) ==
    \A l, m \in Lists : \A i \in 1 .. Len(S[l]), j \in 1 .. Len(S[m]) :
        S[l][i] = S[m][j] => l = m /\ i = j

Holds(S, n) == \E l \in Lists : \E i \in 1 .. Len(S[l]) : S[l][i] = n

Mutual(nx, pv, S) == \A m, n \in Nodes : nx[m] = n /\ pv[n] = m => Holds(S, m)

Shape(S, nx, pv, ls) ==
    /\ S \in [Lists -> Seq(Nodes)]
    /\ nx \in [Nodes -> Nodes \cup {NULL}] /\ pv \in [Nodes -> Nodes \cup {NULL}]
    /\ ls = [l \in Lists |-> ListOf(S[l])]
    /\ \A l \in Lists : Chain(nx, pv, S[l])
    /\ Apart(S) /\ Mutual(nx, pv, S)

ListInv == \E S : Shape(S, next, previous, list)

\* A walk from either end meets the nodes of the sequence.
LEMMA BothWays ==
    ASSUME NEW s \in Seq(Nodes), NEW nx, NEW pv, Chain(nx, pv, s)
    PROVE  /\ Walk(At(s, 1), nx, Len(s)) = [k \in 1 .. Len(s) |-> s[k]]
           /\ Walk(At(s, Len(s)), pv, Len(s)) = [k \in 1 .. Len(s) |-> s[Len(s) - k + 1]]
<1> DEFINE n == Len(s)  f == [k \in 1 .. n |-> s[k]]  b == [k \in 1 .. n |-> s[n - k + 1]]
           head == At(s, 1)  tail == At(s, n)
<1>1. n \in Nat /\ f \in [1 .. n -> Nodes] /\ b \in [1 .. n -> Nodes]
  OBVIOUS
<1>2. (n > 0 => head = f[1]) /\ (n > 0 => tail = b[1])
  BY DEF At
<1>3. \A k \in 1 .. n : k < n => nx[f[k]] = f[k + 1]
  BY DEF Chain, At
<1>4. ASSUME NEW k \in 1 .. n, k < n PROVE pv[b[k]] = b[k + 1]
  <2>1. /\ n - k + 1 \in 1 .. n /\ (n - k + 1) - 1 \in 1 .. n
        /\ (n - k + 1) - 1 = n - (k + 1) + 1 /\ k + 1 \in 1 .. n
    BY <1>4
  <2>2. pv[s[n - k + 1]] = s[(n - k + 1) - 1]
    BY <2>1 DEF Chain, At
  <2> QED BY <2>1, <2>2
<1> HIDE DEF n, f, b, head, tail
<1>5. Walk(head, nx, n) = f
  BY <1>1, <1>2, <1>3, WalkMeets
<1>6. Walk(tail, pv, n) = b
  BY <1>1, <1>2, <1>4, WalkMeets
<1> QED BY <1>5, <1>6 DEF n, f, b, head, tail
-------------------------------------------------------------------------------
LEMMA PlacesDiffer ==
    ASSUME NEW S \in [Lists -> Seq(Nodes)], Apart(S), NEW l \in Lists, NEW m \in Lists,
           NEW i \in 1 .. Len(S[m]), NEW k \in Int
    PROVE  S[m][i] = At(S[l], k) <=> l = m /\ i = k
<1>1. S[m] \in Seq(Nodes) /\ S[l] \in Seq(Nodes)
  OBVIOUS
<1>2. S[m][i] \in Nodes /\ S[m][i] # NULL
  BY <1>1, NullAssumption
<1>3. CASE k \in 1 .. Len(S[l])
  BY <1>3 DEF Apart, At
<1>4. CASE k \notin 1 .. Len(S[l])
  BY <1>2, <1>4 DEF At
<1> QED BY <1>3, <1>4

LEMMA OtherPlaces ==
    ASSUME NEW S \in [Lists -> Seq(Nodes)], Apart(S), NEW l \in Lists, NEW m \in Lists, l # m
    PROVE  \A i \in 1 .. Len(S[m]), k \in Int : S[m][i] # At(S[l], k)
  BY PlacesDiffer

LEMMA OwnPlaces ==
    ASSUME NEW S \in [Lists -> Seq(Nodes)], Apart(S), NEW l \in Lists
    PROVE  \A i \in 1 .. Len(S[l]), k \in Int : S[l][i] = At(S[l], k) <=> i = k
  BY PlacesDiffer

LEMMA ListFields ==
    ASSUME NEW s
    PROVE  /\ ListOf(s).head = At(s, 1) /\ ListOf(s).tail = At(s, Len(s))
           /\ ListOf(s).count = Len(s)
  BY DEF ListOf, List

\* lstInsert, of a node in no list, behind place q (0 is in front).
LEMMA InsertShape ==
    ASSUME NEW S, Shape(S, next, previous, list), NEW l \in Lists, NEW n \in Nodes,
           ~Holds(S, n), NEW q \in 0 .. Len(S[l]), lstInsert(l, At(S[l], q), n)
    PROVE  Shape([S EXCEPT ![l] = SeqEdits!InsertAt(S[l], q + 1, n)], next', previous', list')
<1> DEFINE s == S[l]  t == SeqEdits!InsertAt(s, q + 1, n)  T == [S EXCEPT ![l] = t]
<1>1. /\ S \in [Lists -> Seq(Nodes)] /\ s \in Seq(Nodes) /\ Len(s) \in Nat
      /\ next \in [Nodes -> Nodes \cup {NULL}] /\ previous \in [Nodes -> Nodes \cup {NULL}]
      /\ list = [m \in Lists |-> ListOf(S[m])] /\ list[l] = ListOf(s)
      /\ \A m \in Lists : Chain(next, previous, S[m])
      /\ Apart(S) /\ Mutual(next, previous, S)
  BY DEF Shape
<1>2. /\ t \in Seq(Nodes) /\ Len(t) = Len(s) + 1
      /\ \A i \in Nat : At(t, i) = IF i <= q THEN At(s, i)
                                   ELSE IF i = q + 1 THEN n ELSE At(s, i - 1)
  BY <1>1, AtInsert
<1> HIDE DEF t
<1>3. T \in [Lists -> Seq(Nodes)] /\ T[l] = t /\ \A m \in Lists \ {l} : T[m] = S[m]
  BY <1>1, <1>2
<1>4. \A i \in 1 .. Len(t) : t[i] = IF i <= q THEN s[i] ELSE IF i = q + 1 THEN n ELSE s[i - 1]
  BY <1>1, <1>2 DEF At
<1> DEFINE prev == At(s, q)  follows == At(s, q + 1)
<1>5. /\ q = 0 <=> prev = NULL
      /\ prev # NULL => next[prev] = follows
      /\ prev \in Nodes \cup {NULL} /\ follows \in Nodes \cup {NULL}
      /\ q = Len(s) <=> follows = NULL
      /\ prev # n /\ follows # n
  <2>1. q # 0 => q \in 1 .. Len(s)
    BY <1>1
  <2>2. q # Len(s) <=> q + 1 \in 1 .. Len(s)
    BY <1>1
  <2>3. 0 \notin 1 .. Len(s) /\ n # NULL
    BY NullAssumption
  <2>4. q # 0 => next[s[q]] = At(s, q + 1)
    BY <1>1, <2>1 DEF Chain
  <2>5. \A i \in 1 .. Len(s) : s[i] # n
    BY DEF Holds
  <2>6. (q # 0 => At(s, q) = s[q]) /\ (q # Len(s) => At(s, q + 1) = s[q + 1])
    BY <2>1, <2>2 DEF At
  <2>7. (q = 0 => At(s, q) = NULL) /\ (q = Len(s) => At(s, q + 1) = NULL)
    BY <2>2, <2>3 DEF At
  <2>8. \A i \in 1 .. Len(s) : s[i] \in Nodes /\ s[i] # NULL
    BY <1>1, NullAssumption
  <2> QED BY <2>1, <2>2, <2>3, <2>4, <2>5, <2>6, <2>7, <2>8
<1>6. (IF prev = NULL THEN list[l].head ELSE next[prev]) = follows
  BY <1>1, <1>5, ListFields
<1> HIDE DEF prev, follows
<1>7. /\ next' = [m \in Nodes |-> IF m = n THEN follows ELSE IF m = prev THEN n ELSE next[m]]
      /\ previous' = [m \in Nodes |-> IF m = n THEN prev ELSE IF m = follows THEN n
                                                             ELSE previous[m]]
      /\ list' = [list EXCEPT ![l] = List(IF prev = NULL THEN n ELSE @.head,
                                          IF follows = NULL THEN n ELSE @.tail, @.count + 1)]
  BY <1>6 DEF lstInsert, prev
<1>8. /\ next' \in [Nodes -> Nodes \cup {NULL}] /\ previous' \in [Nodes -> Nodes \cup {NULL}]
  BY <1>1, <1>5, <1>7
<1>9. list' = [m \in Lists |-> ListOf(T[m])]
  <2>1. At(t, 1) = IF prev = NULL THEN n ELSE At(s, 1)
    BY <1>2, <1>5
  <2>2. At(t, Len(s) + 1) = IF follows = NULL THEN n ELSE At(s, Len(s))
    BY <1>1, <1>2, <1>5
  <2>3. ListOf(t) = List(IF prev = NULL THEN n ELSE At(s, 1),
                         IF follows = NULL THEN n ELSE At(s, Len(s)), Len(s) + 1)
    BY <1>2, <2>1, <2>2 DEF ListOf
  <2>4. list' = [list EXCEPT ![l] = ListOf(t)]
    BY <1>1, <1>7, <2>3, ListFields
  <2> QED BY <1>1, <1>3, <2>4
<1>10. Chain(next', previous', t)
  <2> SUFFICES ASSUME NEW i \in 1 .. Len(t)
               PROVE  next'[t[i]] = At(t, i + 1) /\ previous'[t[i]] = At(t, i - 1)
    BY DEF Chain
  <2>1. \A k \in 1 .. Len(s) :
           /\ s[k] \in Nodes /\ s[k] # n
           /\ next[s[k]] = At(s, k + 1) /\ previous[s[k]] = At(s, k - 1)
           /\ s[k] = prev <=> k = q
           /\ s[k] = follows <=> k = q + 1
    <3> SUFFICES ASSUME NEW k \in 1 .. Len(s)
                 PROVE  /\ s[k] \in Nodes /\ s[k] # n
                        /\ next[s[k]] = At(s, k + 1) /\ previous[s[k]] = At(s, k - 1)
                        /\ s[k] = prev <=> k = q
                        /\ s[k] = follows <=> k = q + 1
      OBVIOUS
    <3>1. (s[k] = At(s, q) <=> k = q) /\ (s[k] = At(s, q + 1) <=> k = q + 1)
      BY <1>1, PlacesDiffer
    <3>2. s[k] \in Nodes /\ s[k] # n
      BY <1>1 DEF Holds
    <3>3. next[s[k]] = At(s, k + 1) /\ previous[s[k]] = At(s, k - 1)
      BY <1>1 DEF Chain
    <3> QED BY <3>1, <3>2, <3>3 DEF prev, follows
  <2>2. CASE i <= q
    <3>1. i \in 1 .. Len(s) /\ t[i] = s[i] /\ i # q + 1
      BY <1>1, <1>4, <2>2
    <3>2. next'[s[i]] = (IF i = q THEN n ELSE At(s, i + 1)) /\ previous'[s[i]] = At(s, i - 1)
      BY <1>7, <2>1, <3>1
    <3> QED BY <1>2, <2>2, <3>1, <3>2
  <2>3. CASE i = q + 1
    <3>1. t[i] = n
      BY <1>4, <2>3
    <3>2. next'[n] = At(s, q + 1) /\ previous'[n] = At(s, q)
      BY <1>7 DEF prev, follows
    <3> QED BY <1>2, <2>3, <3>1, <3>2
  <2>4. CASE i > q + 1
    <3>1. i - 1 \in 1 .. Len(s) /\ t[i] = s[i - 1] /\ i - 1 # q
      BY <1>1, <1>2, <1>4, <2>4
    <3>2. /\ next'[s[i - 1]] = At(s, (i - 1) + 1)
          /\ previous'[s[i - 1]] = IF i - 1 = q + 1 THEN n ELSE At(s, (i - 1) - 1)
      BY <1>7, <2>1, <3>1
    <3> QED BY <1>2, <2>4, <3>1, <3>2
  <2> QED BY <2>2, <2>3, <2>4
<1>11. ASSUME NEW m \in Lists \ {l} PROVE Chain(next', previous', S[m])
  <2> SUFFICES ASSUME NEW i \in 1 .. Len(S[m])
               PROVE  /\ next'[S[m][i]] = next[S[m][i]]
                      /\ previous'[S[m][i]] = previous[S[m][i]]
    BY <1>1 DEF Chain
  <2>1. S[m][i] # prev /\ S[m][i] # follows
    <3>1. m \in Lists /\ l \in Lists /\ l # m /\ q \in Int /\ q + 1 \in Int
      OBVIOUS
    <3>2. \A k \in Int : S[m][i] # At(S[l], k)
      BY <1>1, <3>1, OtherPlaces
    <3> QED BY <3>1, <3>2 DEF prev, follows
  <2>2. S[m][i] # n /\ S[m][i] \in Nodes
    BY <1>1 DEF Holds
  <2> QED BY <1>7, <2>1, <2>2
<1>12. Apart(T)
  <2> SUFFICES ASSUME NEW m \in Lists, NEW o \in Lists, NEW i \in 1 .. Len(T[m]),
                      NEW j \in 1 .. Len(T[o]), T[m][i] = T[o][j]
               PROVE  m = o /\ i = j
    BY DEF Apart
  <2>1. \A x \in Lists : \A k \in 1 .. Len(S[x]) : S[x][k] # n
    BY DEF Holds
  <2>2. CASE m # l /\ o # l
    BY <1>1, <1>3, <2>2 DEF Apart
  <2>3. CASE m = l /\ o = l
    <3>1. t[i] = t[j] /\ i \in 1 .. Len(s) + 1 /\ j \in 1 .. Len(s) + 1
      BY <1>2, <1>3, <2>3
    <3>2. \A a, b \in 1 .. Len(s) : s[a] = s[b] => a = b
      BY <1>1 DEF Apart
    <3>3. \A a \in 1 .. Len(s) : s[a] # n
      BY <2>1
    <3>4. \A k \in 1 .. Len(s) + 1 :
             \/ k <= q /\ k \in 1 .. Len(s) /\ t[k] = s[k]
             \/ k = q + 1 /\ t[k] = n
             \/ k > q + 1 /\ k - 1 \in 1 .. Len(s) /\ t[k] = s[k - 1]
      BY <1>1, <1>2, <1>4
    <3> HIDE DEF s
    <3>5. i = j
      BY <3>1, <3>2, <3>3, <3>4
    <3> QED BY <2>3, <3>5
  <2>4. ASSUME NEW x \in Lists \ {l}, NEW a \in 1 .. Len(S[x]), NEW b \in 1 .. Len(t)
        PROVE  S[x][a] # t[b]
    <3>1. t[b] = n \/ \E k \in 1 .. Len(s) : t[b] = s[k]
      BY <1>1, <1>2, <1>4
    <3> QED BY <1>1, <2>1, <3>1 DEF Apart
  <2> QED BY <1>3, <2>2, <2>3, <2>4
<1>13. Mutual(next', previous', T)
  <2>1. Holds(T, n)
    <3>1. q + 1 \in 1 .. Len(t) /\ t[q + 1] = n
      BY <1>1, <1>2, <1>4
    <3> QED BY <1>3, <3>1 DEF Holds
  <2>2. ASSUME NEW x, Holds(S, x) PROVE Holds(T, x)
    <3>1. PICK m \in Lists : \E i \in 1 .. Len(S[m]) : S[m][i] = x
      BY <2>2 DEF Holds
    <3>2. CASE m # l
      BY <1>3, <3>1, <3>2 DEF Holds
    <3>3. CASE m = l
      <4>1. PICK i \in 1 .. Len(s) : s[i] = x
        BY <3>1, <3>3
      <4>2. \E k \in 1 .. Len(t) : t[k] = x
        <5>1. CASE i <= q
          BY <1>1, <1>2, <1>4, <4>1, <5>1
        <5>2. CASE i > q
          <6>1. i + 1 \in 1 .. Len(t) /\ i + 1 > q + 1 /\ (i + 1) - 1 = i
            BY <1>1, <1>2, <5>2
          <6> QED BY <1>4, <4>1, <6>1
        <5> QED BY <1>1, <5>1, <5>2
      <4> QED BY <1>3, <4>2 DEF Holds
    <3> QED BY <3>2, <3>3
  <2>3. prev # NULL => Holds(S, prev)
    <3>1. prev # NULL => q \in 1 .. Len(s) /\ prev = s[q]
      BY DEF At, prev
    <3> QED BY <3>1 DEF Holds
  <2>4. ASSUME NEW m \in Nodes, NEW o \in Nodes, next'[m] = o, previous'[o] = m
        PROVE  Holds(T, m)
    <3>1. CASE m = n \/ m = prev
      BY <2>1, <2>2, <2>3, <3>1, NullAssumption
    <3>2. CASE m # n /\ m # prev
      <4>1. next[m] = o
        BY <1>7, <2>4, <3>2
      <4>2. o # n /\ o # follows
        BY <1>7, <2>4, <3>2
      <4>3. previous[o] = m
        BY <1>7, <2>4, <4>2
      <4> QED BY <1>1, <2>2, <4>1, <4>3 DEF Mutual
    <3> QED BY <3>1, <3>2
  <2> QED BY <2>4 DEF Mutual
<1>14. \A m \in Lists : Chain(next', previous', T[m])
  BY <1>3, <1>10, <1>11
<1> HIDE DEF T
<1>15. Shape(T, next', previous', list')
  BY <1>3, <1>8, <1>9, <1>12, <1>13, <1>14 DEF Shape
<1> QED BY <1>15 DEF T, t
-------------------------------------------------------------------------------
Cut(s, i, j) == SubSeq(s, 1, i - 1) \o SubSeq(s, j + 1, Len(s))

\* Where the places of the sequence were before the cut.
Old(i, j, k) == IF k < i THEN k ELSE k + (j - i + 1)

OneToOne(i, j, n) ==
    /\ \A k \in 1 .. n - (j - i + 1) : /\ Old(i, j, k) \in 1 .. n
                                       /\ Old(i, j, k) < i \/ Old(i, j, k) > j
    /\ \A k, h \in 1 .. n - (j - i + 1) : Old(i, j, k) = Old(i, j, h) => k = h
    /\ \A p \in 1 .. n : p < i \/ p > j => \E k \in 1 .. n - (j - i + 1) : Old(i, j, k) = p

LEMMA OldPlaces ==
    ASSUME NEW i \in Nat, NEW j \in Nat, NEW n \in Nat, 1 <= i, i <= j, j <= n
    PROVE  OneToOne(i, j, n)
<1>1. ASSUME NEW p \in 1 .. n, p < i \/ p > j
      PROVE  \E k \in 1 .. n - (j - i + 1) : Old(i, j, k) = p
  <2>1. CASE p < i
    BY <2>1 DEF Old
  <2>2. CASE p > j
    <3>1. p - (j - i + 1) \in 1 .. n - (j - i + 1) /\ Old(i, j, p - (j - i + 1)) = p
      BY <2>2 DEF Old
    <3> QED BY <3>1
  <2> QED BY <1>1, <2>1, <2>2
<1>2. \A k \in 1 .. n - (j - i + 1) : /\ Old(i, j, k) \in 1 .. n
                                      /\ Old(i, j, k) < i \/ Old(i, j, k) > j
  BY DEF Old
<1>3. \A k, h \in 1 .. n - (j - i + 1) : Old(i, j, k) = Old(i, j, h) => k = h
  BY DEF Old
<1> QED BY <1>1, <1>2, <1>3 DEF OneToOne

Beside(t, s, i, j, k, p) ==
    /\ At(t, k) = At(s, p)
    /\ At(t, k + 1) = IF p = i - 1 THEN At(s, j + 1) ELSE At(s, p + 1)
    /\ At(t, k - 1) = IF p = j + 1 THEN At(s, i - 1) ELSE At(s, p - 1)

LEMMA OldNeighbours ==
    ASSUME NEW s, NEW t, NEW i \in Nat, NEW j \in Nat, 1 <= i, i <= j, NEW k \in Nat, 1 <= k,
           \A h \in Nat : At(t, h) = At(s, Old(i, j, h)), Old(i, j, k) \in Nat
    PROVE  Beside(t, s, i, j, k, Old(i, j, k))
<1> DEFINE p == Old(i, j, k)
<1>1. k + 1 \in Nat /\ k - 1 \in Nat
  OBVIOUS
<1>2. Old(i, j, k + 1) = IF p = i - 1 THEN j + 1 ELSE p + 1
  BY DEF Old
<1>3. Old(i, j, k - 1) = IF p = j + 1 THEN i - 1 ELSE p - 1
  BY DEF Old
<1>4. At(t, k) = At(s, p)
  OBVIOUS
<1> HIDE DEF p
<1> QED BY <1>1, <1>2, <1>3, <1>4 DEF Beside, p

LEMMA CutPlaces ==
    ASSUME NEW s \in Seq(Nodes), NEW i \in Nat, NEW j \in Nat, 1 <= i, i <= j, j <= Len(s)
    PROVE  LET t == Cut(s, i, j) IN
           /\ t \in Seq(Nodes) /\ Len(t) = Len(s) - (j - i + 1)
           /\ \A k \in 1 .. Len(t) :
                 /\ Old(i, j, k) \in 1 .. Len(s) /\ (Old(i, j, k) < i \/ Old(i, j, k) > j)
                 /\ t[k] = s[Old(i, j, k)]
                 /\ At(t, k + 1) = IF Old(i, j, k) = i - 1 THEN At(s, j + 1)
                                   ELSE At(s, Old(i, j, k) + 1)
                 /\ At(t, k - 1) = IF Old(i, j, k) = j + 1 THEN At(s, i - 1)
                                   ELSE At(s, Old(i, j, k) - 1)
           /\ \A k, h \in 1 .. Len(t) : Old(i, j, k) = Old(i, j, h) => k = h
           /\ \A p \in 1 .. Len(s) : p < i \/ p > j => \E k \in 1 .. Len(t) : Old(i, j, k) = p
<1> DEFINE t == Cut(s, i, j)  n == Len(s)
<1>1. /\ t \in Seq(Nodes) /\ Len(t) = n - (j - i + 1)
      /\ \A k \in Nat : At(t, k) = IF k < i THEN At(s, k) ELSE At(s, k + (j - i + 1))
  <2>1. i \in 1 .. Len(s) /\ j \in i .. Len(s)
    OBVIOUS
  <2> QED BY <2>1, AtCut DEF Cut
<1>2. n \in Nat /\ j <= n
  OBVIOUS
<1> HIDE DEF t, n
<1>3. \A k \in Nat : At(t, k) = At(s, Old(i, j, k))
  BY <1>1 DEF Old
<1>4. OneToOne(i, j, n)
  BY <1>2, OldPlaces
<1>5. ASSUME NEW k \in 1 .. n - (j - i + 1)
      PROVE  /\ t[k] = s[Old(i, j, k)]
             /\ At(t, k + 1) = IF Old(i, j, k) = i - 1 THEN At(s, j + 1)
                               ELSE At(s, Old(i, j, k) + 1)
             /\ At(t, k - 1) = IF Old(i, j, k) = j + 1 THEN At(s, i - 1)
                               ELSE At(s, Old(i, j, k) - 1)
  <2>1. k \in Nat /\ 1 <= k
    BY <1>2
  <2>2. Old(i, j, k) \in Nat /\ Old(i, j, k) \in 1 .. n
    BY <1>2, <1>4 DEF OneToOne
  <2>3. Beside(t, s, i, j, k, Old(i, j, k))
    BY <1>3, <2>1, <2>2, OldNeighbours
  <2>4. At(t, k) = t[k] /\ At(s, Old(i, j, k)) = s[Old(i, j, k)]
    BY <1>1, <2>2 DEF At, n
  <2> QED BY <2>3, <2>4 DEF Beside
<1> QED BY <1>1, <1>4, <1>5 DEF t, n, OneToOne

LEMMA CutEnds ==
    ASSUME NEW s \in Seq(Nodes), NEW i \in Nat, NEW j \in Nat, 1 <= i, i <= j, j <= Len(s)
    PROVE  ListOf(Cut(s, i, j)) =
               List(IF At(s, i - 1) = NULL THEN At(s, j + 1) ELSE At(s, 1),
                    IF At(s, j + 1) = NULL THEN At(s, i - 1) ELSE At(s, Len(s)),
                    Len(s) - (j - i + 1))
<1> DEFINE t == Cut(s, i, j)  n == Len(s)  c == j - i + 1
<1>1. /\ t \in Seq(Nodes) /\ Len(t) = n - c
      /\ \A k \in Nat : At(t, k) = IF k < i THEN At(s, k) ELSE At(s, k + c)
  <2>1. i \in 1 .. Len(s) /\ j \in i .. Len(s)
    OBVIOUS
  <2> QED BY <2>1, AtCut DEF Cut
<1>2. (At(s, i - 1) = NULL <=> i = 1) /\ (At(s, j + 1) = NULL <=> j = n)
  <2>1. s \in Seq(Nodes) /\ n \in Nat /\ j <= n
    OBVIOUS
  <2>2. i # 1 => i - 1 \in 1 .. n
    BY <2>1
  <2>3. j # n => j + 1 \in 1 .. n
    BY <2>1
  <2>4. i = 1 => i - 1 \notin 1 .. n
    BY <2>1
  <2>5. j = n => j + 1 \notin 1 .. n
    BY <2>1
  <2> QED BY <2>2, <2>3, <2>4, <2>5, AtType
<1>3. n \in Nat /\ j <= n /\ c \in Nat /\ c = j - i + 1 /\ c >= 1
  OBVIOUS
<1> HIDE DEF t, n, c
<1>4. At(t, 1) = IF i = 1 THEN At(s, j + 1) ELSE At(s, 1)
  <2>1. i = 1 => 1 + c = j + 1
    BY <1>3
  <2>2. i # 1 => 1 < i
    OBVIOUS
  <2> QED BY <1>1, <2>1, <2>2
<1>5. At(t, n - c) = IF j = n THEN At(s, i - 1) ELSE At(s, n)
  <2>1. n - c \in Nat /\ (n - c) + c = n /\ (j = n => n - c = i - 1) /\ (j # n => n - c >= i)
    BY <1>3
  <2> QED BY <1>1, <2>1
<1> QED BY <1>1, <1>2, <1>4, <1>5 DEF ListOf, n, c, t

\* Pointers that lead past the nodes i to j of a list, and are otherwise what they were.
LeadPast(nx, pv, s, i, j) ==
    \A m \in Nodes : (\A k \in i .. j : m # s[k]) =>
        /\ nx[m] = IF m = At(s, i - 1) THEN At(s, j + 1) ELSE next[m]
        /\ pv[m] = IF m = At(s, j + 1) THEN At(s, i - 1) ELSE previous[m]

\* What is then true of the lists, list l being t.
CutOut(S, l, t, nx, pv, i, j) ==
    /\ \A m \in Lists : Chain(nx, pv, [S EXCEPT ![l] = t][m])
    /\ Apart([S EXCEPT ![l] = t])
    /\ \A x : Holds([S EXCEPT ![l] = t], x) <=> Holds(S, x) /\ \A k \in i .. j : x # S[l][k]
    /\ ListOf(t) = List(IF At(S[l], i - 1) = NULL THEN At(S[l], j + 1) ELSE At(S[l], 1),
                        IF At(S[l], j + 1) = NULL THEN At(S[l], i - 1) ELSE At(S[l], Len(S[l])),
                        Len(S[l]) - (j - i + 1))

LEMMA CutShape ==
    ASSUME NEW S, Shape(S, next, previous, list), NEW l \in Lists, NEW i \in Nat, NEW j \in Nat,
           1 <= i, i <= j, j <= Len(S[l]), NEW nx, NEW pv
    PROVE  LeadPast(nx, pv, S[l], i, j) =>
               /\ Cut(S[l], i, j) \in Seq(Nodes)
               /\ CutOut(S, l, Cut(S[l], i, j), nx, pv, i, j)
<1> DEFINE s == S[l]  t == Cut(s, i, j)  T == [S EXCEPT ![l] = t]  n == Len(s)
<1>0. SUFFICES ASSUME LeadPast(nx, pv, s, i, j)
               PROVE  t \in Seq(Nodes) /\ CutOut(S, l, t, nx, pv, i, j)
  OBVIOUS
<1>1. /\ S \in [Lists -> Seq(Nodes)] /\ s \in Seq(Nodes) /\ n \in Nat
      /\ \A m \in Lists : Chain(next, previous, S[m])
      /\ Apart(S)
  BY DEF Shape
<1>2. /\ t \in Seq(Nodes) /\ Len(t) = Len(s) - (j - i + 1)
      /\ \A k \in 1 .. Len(t) :
            /\ Old(i, j, k) \in 1 .. Len(s) /\ (Old(i, j, k) < i \/ Old(i, j, k) > j)
            /\ t[k] = s[Old(i, j, k)]
            /\ At(t, k + 1) = IF Old(i, j, k) = i - 1 THEN At(s, j + 1)
                              ELSE At(s, Old(i, j, k) + 1)
            /\ At(t, k - 1) = IF Old(i, j, k) = j + 1 THEN At(s, i - 1)
                              ELSE At(s, Old(i, j, k) - 1)
      /\ \A k, h \in 1 .. Len(t) : Old(i, j, k) = Old(i, j, h) => k = h
      /\ \A p \in 1 .. Len(s) : p < i \/ p > j => \E k \in 1 .. Len(t) : Old(i, j, k) = p
  BY <1>1, CutPlaces
<1> HIDE DEF t
<1>3. ASSUME NEW k \in 1 .. Len(t)
      PROVE  /\ Old(i, j, k) \in 1 .. Len(s) /\ (Old(i, j, k) < i \/ Old(i, j, k) > j)
             /\ t[k] = s[Old(i, j, k)]
  BY <1>2
<1>4. T \in [Lists -> Seq(Nodes)] /\ T[l] = t /\ \A m \in Lists \ {l} : T[m] = S[m]
  BY <1>1, <1>2
<1>5. \A a, b \in 1 .. Len(s) : s[a] = s[b] => a = b
  BY <1>1 DEF Apart
<1>6. ASSUME NEW k \in 1 .. Len(s), k < i \/ k > j PROVE \A a \in i .. j : s[k] # s[a]
  <2> SUFFICES ASSUME NEW a \in i .. j PROVE s[k] # s[a]
    OBVIOUS
  <2>1. a \in 1 .. Len(s) /\ a # k
    BY <1>1, <1>6
  <2> QED BY <1>5, <2>1
<1>7. ASSUME NEW k \in 1 .. Len(s), k < i \/ k > j
      PROVE  /\ nx[s[k]] = IF k = i - 1 THEN At(s, j + 1) ELSE At(s, k + 1)
             /\ pv[s[k]] = IF k = j + 1 THEN At(s, i - 1) ELSE At(s, k - 1)
  <2>1. s[k] \in Nodes
    BY <1>1
  <2>2. /\ nx[s[k]] = IF s[k] = At(s, i - 1) THEN At(s, j + 1) ELSE next[s[k]]
        /\ pv[s[k]] = IF s[k] = At(s, j + 1) THEN At(s, i - 1) ELSE previous[s[k]]
    BY <1>0, <1>6, <1>7, <2>1 DEF LeadPast
  <2>3. i - 1 \in Int /\ j + 1 \in Int
    OBVIOUS
  <2>4. (s[k] = At(s, i - 1) <=> k = i - 1) /\ (s[k] = At(s, j + 1) <=> k = j + 1)
    BY <1>1, <2>3, PlacesDiffer
  <2>5. next[s[k]] = At(s, k + 1) /\ previous[s[k]] = At(s, k - 1)
    BY <1>1 DEF Chain
  <2> QED BY <2>2, <2>4, <2>5
<1>8. Chain(nx, pv, t)
  <2> SUFFICES ASSUME NEW k \in 1 .. Len(t)
               PROVE  nx[t[k]] = At(t, k + 1) /\ pv[t[k]] = At(t, k - 1)
    BY DEF Chain
  <2> DEFINE p == Old(i, j, k)
  <2>1. /\ p \in 1 .. Len(s) /\ (p < i \/ p > j) /\ t[k] = s[p]
        /\ At(t, k + 1) = IF p = i - 1 THEN At(s, j + 1) ELSE At(s, p + 1)
        /\ At(t, k - 1) = IF p = j + 1 THEN At(s, i - 1) ELSE At(s, p - 1)
    BY <1>2
  <2> HIDE DEF p
  <2>2. /\ nx[s[p]] = IF p = i - 1 THEN At(s, j + 1) ELSE At(s, p + 1)
        /\ pv[s[p]] = IF p = j + 1 THEN At(s, i - 1) ELSE At(s, p - 1)
    BY <1>7, <2>1
  <2> QED BY <2>1, <2>2
<1>9. ASSUME NEW m \in Lists \ {l} PROVE Chain(nx, pv, S[m])
  <2> SUFFICES ASSUME NEW k \in 1 .. Len(S[m])
               PROVE  nx[S[m][k]] = next[S[m][k]] /\ pv[S[m][k]] = previous[S[m][k]]
    <3>1. Chain(next, previous, S[m])
      BY <1>1
    <3> QED BY <3>1 DEF Chain
  <2>1. S[m][k] \in Nodes
    BY <1>1
  <2>2. m \in Lists /\ l \in Lists /\ l # m /\ i - 1 \in Int /\ j + 1 \in Int
    OBVIOUS
  <2>3. \A a \in Int : S[m][k] # At(S[l], a)
    BY <1>1, <2>2, OtherPlaces
  <2>4. \A a \in i .. j : S[m][k] # s[a]
    <3> SUFFICES ASSUME NEW a \in i .. j PROVE S[m][k] # s[a]
      OBVIOUS
    <3>1. a \in Int /\ a \in 1 .. Len(s)
      BY <1>1
    <3>2. At(S[l], a) = s[a]
      BY <3>1 DEF At
    <3> QED BY <2>3, <3>1, <3>2
  <2> QED BY <1>0, <2>1, <2>2, <2>3, <2>4 DEF LeadPast
<1>10. ASSUME NEW x \in Lists \ {l}, NEW k \in 1 .. Len(S[x]), NEW h \in 1 .. Len(s)
       PROVE  S[x][k] # s[h]
  BY <1>1 DEF Apart
<1>11. Apart(T)
  <2> SUFFICES ASSUME NEW m \in Lists, NEW o \in Lists, NEW a \in 1 .. Len(T[m]),
                      NEW b \in 1 .. Len(T[o]), T[m][a] = T[o][b]
               PROVE  m = o /\ a = b
    BY DEF Apart
  <2> HIDE DEF T, s
  <2>1. CASE m # l /\ o # l
    BY <1>1, <1>4, <2>1 DEF Apart
  <2>2. CASE m = l /\ o = l
    <3>1. a \in 1 .. Len(t) /\ b \in 1 .. Len(t) /\ t[a] = t[b]
      BY <1>4, <2>2
    <3>2. s[Old(i, j, a)] = s[Old(i, j, b)]
      BY <1>3, <3>1
    <3>3. Old(i, j, a) \in 1 .. Len(s) /\ Old(i, j, b) \in 1 .. Len(s)
      BY <1>3, <3>1
    <3>4. Old(i, j, a) = Old(i, j, b)
      BY <1>5, <3>2, <3>3
    <3> QED BY <1>2, <2>2, <3>1, <3>4
  <2>3. ASSUME NEW x \in Lists \ {l}, NEW k \in 1 .. Len(S[x]), NEW h \in 1 .. Len(t)
        PROVE  S[x][k] # t[h]
    BY <1>3, <1>10
  <2>4. CASE m = l /\ o # l
    BY <1>4, <2>3, <2>4
  <2>5. CASE m # l /\ o = l
    BY <1>4, <2>3, <2>5
  <2> QED BY <2>1, <2>2, <2>4, <2>5
<1>12. ASSUME NEW x PROVE Holds(T, x) <=> Holds(S, x) /\ \A k \in i .. j : x # s[k]
  <2>1. Holds(T, x) <=> \/ \E k \in 1 .. Len(t) : t[k] = x
                        \/ \E m \in Lists \ {l} : \E k \in 1 .. Len(S[m]) : S[m][k] = x
    <3> HIDE DEF T
    <3> QED BY <1>4 DEF Holds
  <2>2. Holds(S, x) <=> \/ \E k \in 1 .. Len(s) : s[k] = x
                        \/ \E m \in Lists \ {l} : \E k \in 1 .. Len(S[m]) : S[m][k] = x
    BY DEF Holds
  <2> HIDE DEF T, s
  <2>3. ASSUME NEW k \in 1 .. Len(t), t[k] = x
        PROVE  (\E a \in 1 .. Len(s) : s[a] = x) /\ \A a \in i .. j : x # s[a]
    BY <1>3, <1>6, <2>3
  <2>4. ASSUME NEW k \in 1 .. Len(s), s[k] = x, \A a \in i .. j : x # s[a]
        PROVE  \E a \in 1 .. Len(t) : t[a] = x
    <3>1. k < i \/ k > j
      BY <1>1, <2>4
    <3>2. PICK a \in 1 .. Len(t) : Old(i, j, a) = k
      BY <1>2, <3>1
    <3> QED BY <1>3, <2>4, <3>2
  <2>5. ASSUME NEW m \in Lists \ {l}, NEW k \in 1 .. Len(S[m]), S[m][k] = x
        PROVE  \A a \in i .. j : x # s[a]
    <3> SUFFICES ASSUME NEW a \in i .. j PROVE x # s[a]
      OBVIOUS
    <3>1. a \in 1 .. Len(s)
      BY <1>1 DEF s
    <3> QED BY <1>10, <2>5, <3>1
  <2> QED BY <2>1, <2>2, <2>3, <2>4, <2>5
<1>13. ListOf(t) = List(IF At(s, i - 1) = NULL THEN At(s, j + 1) ELSE At(s, 1),
                        IF At(s, j + 1) = NULL THEN At(s, i - 1) ELSE At(s, Len(s)),
                        Len(s) - (j - i + 1))
  BY <1>1, CutEnds DEF t
<1>14. \A m \in Lists : Chain(nx, pv, T[m])
  BY <1>4, <1>8, <1>9
<1> QED BY <1>2, <1>11, <1>12, <1>13, <1>14 DEF CutOut
-------------------------------------------------------------------------------
\* A list is changed to t, the others are left.
LEMMA OneList ==
    ASSUME NEW S \in [Lists -> Seq(Nodes)], list = [m \in Lists |-> ListOf(S[m])],
           NEW l \in Lists, NEW t, NEW r, r = ListOf(t)
    PROVE  [list EXCEPT ![l] = r] = [m \in Lists |-> ListOf([S EXCEPT ![l] = t][m])]
  OBVIOUS

\* Place k of a sequence and the pointers of its node.
LEMMA Pointers ==
    ASSUME NEW S, Shape(S, next, previous, list), NEW l \in Lists, NEW k \in 1 .. Len(S[l])
    PROVE  /\ S[l][k] \in Nodes /\ k \in Nat /\ 1 <= k /\ k <= Len(S[l])
           /\ next[S[l][k]] = At(S[l], k + 1) /\ previous[S[l][k]] = At(S[l], k - 1)
           /\ S[l][k] # At(S[l], k + 1) /\ S[l][k] # At(S[l], k - 1)
           /\ Holds(S, S[l][k])
<1>1. /\ S \in [Lists -> Seq(Nodes)] /\ S[l] \in Seq(Nodes) /\ Len(S[l]) \in Nat
      /\ Chain(next, previous, S[l]) /\ Apart(S)
  BY DEF Shape
<1>2. S[l][k] \in Nodes /\ k \in Nat /\ 1 <= k /\ k <= Len(S[l])
  BY <1>1
<1>3. S[l][k] # At(S[l], k + 1) /\ S[l][k] # At(S[l], k - 1)
  <2>1. k + 1 \in Int /\ k - 1 \in Int /\ k # k + 1 /\ k # k - 1
    BY <1>2
  <2> QED BY <1>1, <2>1, PlacesDiffer
<1> QED BY <1>1, <1>2, <1>3 DEF Chain, Holds

LEMMA DeleteShape ==
    ASSUME NEW S, Shape(S, next, previous, list), NEW l \in Lists, NEW k \in 1 .. Len(S[l]),
           lstDelete(l, S[l][k])
    PROVE  Shape([S EXCEPT ![l] = SeqEdits!RemoveAt(S[l], k)], next', previous', list')
<1> DEFINE s == S[l]  n == s[k]  t == Cut(s, k, k)  T == [S EXCEPT ![l] = t]
           before == At(s, k - 1)  after == At(s, k + 1)
<1>1. /\ S \in [Lists -> Seq(Nodes)] /\ s \in Seq(Nodes) /\ Len(s) \in Nat
      /\ next \in [Nodes -> Nodes \cup {NULL}] /\ previous \in [Nodes -> Nodes \cup {NULL}]
      /\ list = [m \in Lists |-> ListOf(S[m])]
      /\ Mutual(next, previous, S)
  BY DEF Shape
<1>2. /\ n \in Nodes /\ k \in Nat /\ 1 <= k /\ k <= Len(s)
      /\ next[n] = after /\ previous[n] = before /\ n # after /\ n # before
  BY Pointers
<1>3. /\ list[l] = ListOf(s)
      /\ list[l].head = At(s, 1) /\ list[l].tail = At(s, Len(s)) /\ list[l].count = Len(s)
  BY <1>1, ListFields
<1>4. /\ k = 1 => n = At(s, 1)
      /\ k # 1 => before \in Nodes /\ before # NULL /\ next[before] = n /\ Holds(S, before)
      /\ k = 1 => before = NULL
      /\ k = Len(s) => n = At(s, Len(s))
      /\ k # Len(s) => after \in Nodes /\ after # NULL /\ previous[after] = n
      /\ k = Len(s) => after = NULL
  <2>1. ASSUME k # 1 PROVE /\ before \in Nodes /\ before # NULL /\ next[before] = n
                           /\ Holds(S, before)
    <3>1. k - 1 \in 1 .. Len(s) /\ (k - 1) + 1 = k
      BY <1>1, <1>2, <2>1
    <3>2. before = s[k - 1] /\ At(s, (k - 1) + 1) = n
      BY <1>2, <3>1 DEF At
    <3>3. s[k - 1] \in Nodes /\ next[s[k - 1]] = At(s, (k - 1) + 1) /\ Holds(S, s[k - 1])
      BY <3>1, Pointers
    <3> QED BY <3>2, <3>3, NullAssumption
  <2>2. ASSUME k # Len(s) PROVE after \in Nodes /\ after # NULL /\ previous[after] = n
    <3>1. k + 1 \in 1 .. Len(s) /\ (k + 1) - 1 = k
      BY <1>1, <1>2, <2>2
    <3>2. after = s[k + 1] /\ At(s, (k + 1) - 1) = n
      BY <1>2, <3>1 DEF At
    <3>3. s[k + 1] \in Nodes /\ previous[s[k + 1]] = At(s, (k + 1) - 1) /\ Holds(S, s[k + 1])
      BY <3>1, Pointers
    <3> QED BY <3>2, <3>3, NullAssumption
  <2>3. (k = 1 => before = NULL /\ n = At(s, 1)) /\ (k = Len(s) => after = NULL /\ n = At(s, k))
    BY <1>1, <1>2 DEF At
  <2> QED BY <2>1, <2>2, <2>3
<1> HIDE DEF before, after
<1>5. LooksLinked(l, n)
  BY <1>2, <1>3, <1>4 DEF LooksLinked
<1>6. /\ next' = [m \in Nodes |-> IF m = before THEN after ELSE next[m]]
      /\ previous' = [m \in Nodes |-> IF m = after THEN before ELSE previous[m]]
      /\ list' = [list EXCEPT ![l] = List(IF before = NULL THEN after ELSE At(s, 1),
                                          IF after = NULL THEN before ELSE At(s, Len(s)),
                                          Len(s) - 1)]
  BY <1>1, <1>2, <1>3, <1>5 DEF lstDelete, Unlink
<1>7. before \in Nodes \cup {NULL} /\ after \in Nodes \cup {NULL}
  BY <1>4
<1>8. next' \in [Nodes -> Nodes \cup {NULL}] /\ previous' \in [Nodes -> Nodes \cup {NULL}]
  BY <1>1, <1>6, <1>7
<1>9. LeadPast(next', previous', s, k, k)
  BY <1>6 DEF LeadPast, before, after
<1>10. t \in Seq(Nodes) /\ CutOut(S, l, t, next', previous', k, k)
  BY <1>2, <1>9, CutShape
<1>11. list' = [m \in Lists |-> ListOf(T[m])]
  <2>1. ListOf(t) = List(IF before = NULL THEN after ELSE At(s, 1),
                         IF after = NULL THEN before ELSE At(s, Len(s)), Len(s) - 1)
    <3>1. Len(s) - (k - k + 1) = Len(s) - 1
      BY <1>1, <1>2
    <3> QED BY <1>10, <3>1 DEF CutOut, before, after
  <2> HIDE DEF t
  <2> QED BY <1>1, <1>6, <2>1, OneList
<1>12. \A x : Holds(T, x) <=> Holds(S, x) /\ x # n
  <2>1. \A x : Holds(T, x) <=> Holds(S, x) /\ \A h \in k .. k : x # s[h]
    BY <1>10 DEF CutOut
  <2>2. \A h \in k .. k : h = k
    BY <1>2
  <2>3. k \in k .. k
    BY <1>2
  <2> HIDE DEF T, s
  <2> QED BY <2>1, <2>2, <2>3
<1>13. Mutual(next', previous', T)
  <2> SUFFICES ASSUME NEW m \in Nodes, NEW o \in Nodes, next'[m] = o, previous'[o] = m
               PROVE  Holds(T, m)
    BY DEF Mutual
  <2> HIDE DEF T
  <2>1. CASE m = before
    BY <1>2, <1>4, <1>12, <2>1, NullAssumption
  <2>2. CASE m # before
    <3>1. next[m] = o
      BY <1>6, <2>2
    <3>2. o # after
      BY <1>6, <2>2
    <3>3. previous[o] = m
      BY <1>6, <3>2
    <3>4. Holds(S, m)
      BY <1>1, <3>1, <3>3 DEF Mutual
    <3>5. m # n
      BY <1>2, <3>1, <3>2
    <3> QED BY <1>12, <3>4, <3>5
  <2> QED BY <2>1, <2>2
<1>14. Shape(T, next', previous', list')
  <2>1. T \in [Lists -> Seq(Nodes)]
    BY <1>1, <1>10
  <2>2. (\A m \in Lists : Chain(next', previous', T[m])) /\ Apart(T)
    BY <1>10 DEF CutOut
  <2> HIDE DEF T
  <2> QED BY <1>8, <1>11, <1>13, <2>1, <2>2 DEF Shape
<1>15. SeqEdits!RemoveAt(s, k) = t
  BY DEF SeqEdits!RemoveAt, Cut
<1> QED BY <1>14, <1>15

\* lstDelete of a node in no list: no pointer leads to it from a node it points to.
LEMMA DeleteRefused ==
    ASSUME NEW S, Shape(S, next, previous, list), NEW l \in Lists, NEW n \in Nodes,
           ~Holds(S, n), lstDelete(l, n)
    PROVE  UNCHANGED listVars
<1>1. /\ S \in [Lists -> Seq(Nodes)] /\ previous[n] \in Nodes \cup {NULL}
      /\ list[l] = ListOf(S[l]) /\ Mutual(next, previous, S)
  BY DEF Shape
<1>2. ASSUME NEW m \in Lists, NEW k \in Int PROVE At(S[m], k) # n
  <2>1. k \in 1 .. Len(S[m]) => At(S[m], k) = S[m][k]
    BY DEF At
  <2>2. k \notin 1 .. Len(S[m]) => At(S[m], k) = NULL
    BY DEF At
  <2> QED BY <2>1, <2>2, NullAssumption DEF Holds
<1>3. previous[n] = NULL => list[l].head # n
  BY <1>1, <1>2, ListFields
<1>4. previous[n] # NULL => next[previous[n]] # n
  <2> SUFFICES ASSUME previous[n] # NULL, next[previous[n]] = n PROVE FALSE
    OBVIOUS
  <2>1. Holds(S, previous[n])
    BY <1>1 DEF Mutual
  <2>2. PICK m \in Lists : \E k \in 1 .. Len(S[m]) : S[m][k] = previous[n]
    BY <2>1 DEF Holds
  <2>3. PICK k \in 1 .. Len(S[m]) : S[m][k] = previous[n]
    BY <2>2
  <2>4. next[S[m][k]] = At(S[m], k + 1) /\ k \in Nat
    BY Pointers
  <2>5. k + 1 \in Int
    BY <2>4
  <2> QED BY <1>2, <2>3, <2>4, <2>5
<1> QED BY <1>3, <1>4 DEF lstDelete, LooksLinked

LEMMA GetShape ==
    ASSUME NEW S, Shape(S, next, previous, list), NEW l \in Lists, lstGet(l)
    PROVE  /\ 1 \in 1 .. Len(S[l])
           /\ Shape([S EXCEPT ![l] = SeqEdits!RemoveAt(S[l], 1)], next', previous', list')
<1> DEFINE s == S[l]  n == s[1]  t == Cut(s, 1, 1)  T == [S EXCEPT ![l] = t]
           after == At(s, 2)
<1>1. /\ S \in [Lists -> Seq(Nodes)] /\ s \in Seq(Nodes) /\ Len(s) \in Nat
      /\ next \in [Nodes -> Nodes \cup {NULL}] /\ previous \in [Nodes -> Nodes \cup {NULL}]
      /\ list = [m \in Lists |-> ListOf(S[m])]
      /\ Mutual(next, previous, S)
  BY DEF Shape
<1>2. /\ list[l] = ListOf(s)
      /\ list[l].head = At(s, 1) /\ list[l].tail = At(s, Len(s)) /\ list[l].count = Len(s)
  BY <1>1, ListFields
<1>3. 1 \in 1 .. Len(s) /\ list[l].head = n
  BY <1>2 DEF lstGet, At
<1>4. n \in Nodes /\ next[n] = after
  <2>1. next[n] = At(s, 1 + 1) /\ n \in Nodes
    BY <1>3, Pointers
  <2> QED BY <2>1
<1>5. after \in Nodes \cup {NULL}
  BY <1>1, <1>4
<1> HIDE DEF after, n
<1>6. /\ next' = next
      /\ previous' = [m \in Nodes |-> IF m = after THEN NULL ELSE previous[m]]
      /\ list' = [list EXCEPT ![l] = List(after, IF after = NULL THEN NULL ELSE At(s, Len(s)),
                                          Len(s) - 1)]
  BY <1>1, <1>2, <1>3, <1>4 DEF lstGet
<1>7. next' \in [Nodes -> Nodes \cup {NULL}] /\ previous' \in [Nodes -> Nodes \cup {NULL}]
  BY <1>1, <1>6
<1>8. At(s, 1 - 1) = NULL /\ At(s, 1 + 1) = after
  BY DEF At, after
<1>9. LeadPast(next', previous', s, 1, 1)
  BY <1>1, <1>6, <1>8, NullAssumption DEF LeadPast
<1>10. t \in Seq(Nodes) /\ CutOut(S, l, t, next', previous', 1, 1)
  <2>1. 1 \in Nat /\ 1 <= 1 /\ 1 <= Len(s)
    BY <1>3
  <2> QED BY <1>9, <2>1, CutShape
<1>11. list' = [m \in Lists |-> ListOf(T[m])]
  <2>1. ListOf(t) = List(after, IF after = NULL THEN NULL ELSE At(s, Len(s)), Len(s) - 1)
    <3>1. Len(s) - (1 - 1 + 1) = Len(s) - 1
      BY <1>1
    <3> QED BY <1>8, <1>10, <3>1 DEF CutOut
  <2> HIDE DEF t
  <2> QED BY <1>1, <1>6, <2>1, OneList
<1>12. \A x : Holds(T, x) <=> Holds(S, x) /\ x # n
  <2>1. \A x : Holds(T, x) <=> Holds(S, x) /\ \A h \in 1 .. 1 : x # s[h]
    BY <1>10 DEF CutOut
  <2>2. \A h \in 1 .. 1 : h = 1
    OBVIOUS
  <2>3. 1 \in 1 .. 1
    OBVIOUS
  <2> HIDE DEF T, s
  <2> QED BY <2>1, <2>2, <2>3 DEF n
<1>13. Mutual(next', previous', T)
  <2> SUFFICES ASSUME NEW m \in Nodes, NEW o \in Nodes, next'[m] = o, previous'[o] = m
               PROVE  Holds(T, m)
    BY DEF Mutual
  <2> HIDE DEF T
  <2>1. next[m] = o /\ o # after /\ previous[o] = m
    BY <1>6, NullAssumption
  <2>2. Holds(S, m) /\ m # n
    BY <1>1, <1>4, <2>1 DEF Mutual
  <2> QED BY <1>12, <2>2
<1>14. Shape(T, next', previous', list')
  <2>1. T \in [Lists -> Seq(Nodes)]
    BY <1>1, <1>10
  <2>2. (\A m \in Lists : Chain(next', previous', T[m])) /\ Apart(T)
    BY <1>10 DEF CutOut
  <2> HIDE DEF T
  <2> QED BY <1>7, <1>11, <1>13, <2>1, <2>2 DEF Shape
<1>15. SeqEdits!RemoveAt(s, 1) = t
  BY DEF SeqEdits!RemoveAt, Cut
<1> QED BY <1>3, <1>14, <1>15
-------------------------------------------------------------------------------
\* The loops along "next" and along "previous" meet the nodes of the sequence.
LEMMA Meets ==
    ASSUME NEW S, Shape(S, next, previous, list), NEW l \in Lists
    PROVE  /\ list[l].count = Len(S[l])
           /\ Forward(l) = [k \in 1 .. Len(S[l]) |-> S[l][k]]
           /\ Backward(l) = [k \in 1 .. Len(S[l]) |-> S[l][Len(S[l]) - k + 1]]
<1>1. S[l] \in Seq(Nodes) /\ list[l] = ListOf(S[l]) /\ Chain(next, previous, S[l])
  BY DEF Shape
<1>2. list[l].head = At(S[l], 1) /\ list[l].tail = At(S[l], Len(S[l])) /\ list[l].count = Len(S[l])
  BY <1>1, ListFields
<1>3. Forward(l) = Walk(list[l].head, next, list[l].count)
  BY DEF Forward, Walk
<1>4. Backward(l) = Walk(list[l].tail, previous, list[l].count)
  BY DEF Backward, Walk
<1> QED BY <1>1, <1>2, <1>3, <1>4, BothWays

\* The part u of a sequence that is moved into an empty list.
LEMMA PartShape ==
    ASSUME NEW R \in [Lists -> Seq(Nodes)], Apart(R), NEW d \in Lists, Len(R[d]) = 0,
           NEW u \in Seq(Nodes), \A k, h \in 1 .. Len(u) : u[k] = u[h] => k = h,
           \A k \in 1 .. Len(u) : ~Holds(R, u[k])
    PROVE  /\ Apart([R EXCEPT ![d] = u])
           /\ \A x : Holds([R EXCEPT ![d] = u], x)
                        <=> Holds(R, x) \/ \E k \in 1 .. Len(u) : u[k] = x
<1> DEFINE T == [R EXCEPT ![d] = u]
<1>1. T[d] = u /\ \A m \in Lists \ {d} : T[m] = R[m]
  OBVIOUS
<1> HIDE DEF T
<1>2. Apart(T)
  <2> SUFFICES ASSUME NEW m \in Lists, NEW o \in Lists, NEW a \in 1 .. Len(T[m]),
                      NEW b \in 1 .. Len(T[o]), T[m][a] = T[o][b]
               PROVE  m = o /\ a = b
    BY DEF Apart
  <2>1. CASE m # d /\ o # d
    BY <1>1, <2>1 DEF Apart
  <2>2. CASE m = d /\ o = d
    BY <1>1, <2>2
  <2>3. CASE m = d /\ o # d
    BY <1>1, <2>3 DEF Holds
  <2>4. CASE m # d /\ o = d
    BY <1>1, <2>4 DEF Holds
  <2> QED BY <2>1, <2>2, <2>3, <2>4
<1>3. ASSUME NEW x PROVE Holds(T, x) <=> Holds(R, x) \/ \E k \in 1 .. Len(u) : u[k] = x
  <2>1. ASSUME NEW m \in Lists, NEW k \in 1 .. Len(T[m]), T[m][k] = x
        PROVE  Holds(R, x) \/ \E h \in 1 .. Len(u) : u[h] = x
    <3>1. CASE m = d
      BY <1>1, <2>1, <3>1
    <3>2. CASE m # d
      BY <1>1, <2>1, <3>2 DEF Holds
    <3> QED BY <3>1, <3>2
  <2>2. ASSUME NEW m \in Lists, NEW k \in 1 .. Len(R[m]), R[m][k] = x PROVE Holds(T, x)
    <3>1. m # d
      OBVIOUS
    <3> QED BY <1>1, <2>2, <3>1 DEF Holds
  <2>3. ASSUME NEW k \in 1 .. Len(u), u[k] = x PROVE Holds(T, x)
    BY <1>1, <2>3 DEF Holds
  <2>4. Holds(T, x) => Holds(R, x) \/ \E k \in 1 .. Len(u) : u[k] = x
    BY <2>1 DEF Holds
  <2>5. Holds(R, x) => Holds(T, x)
    BY <2>2 DEF Holds
  <2> QED BY <2>3, <2>4, <2>5
<1> QED BY <1>2, <1>3 DEF T

LEMMA ExtractShape ==
    ASSUME NEW S, Shape(S, next, previous, list), NEW a \in Lists, NEW d \in Lists, d # a,
           list[d].count = 0, NEW i \in 1 .. list[a].count, NEW j \in 1 .. list[a].count, i <= j,
           lstExtract(a, i, j, d)
    PROVE  /\ S[d] = <<>> /\ i \in 1 .. Len(S[a]) /\ j \in i .. Len(S[a])
           /\ Shape([S EXCEPT ![a] = Cut(S[a], i, j), ![d] = SubSeq(S[a], i, j)],
                    next', previous', list')
<1> DEFINE s == S[a]  t == Cut(s, i, j)  u == SubSeq(s, i, j)  R == [S EXCEPT ![a] = t]
           T == [R EXCEPT ![d] = u]
           first == s[i]  last == s[j]  before == At(s, i - 1)  after == At(s, j + 1)
<1>1. /\ S \in [Lists -> Seq(Nodes)] /\ s \in Seq(Nodes) /\ Len(s) \in Nat
      /\ next \in [Nodes -> Nodes \cup {NULL}] /\ previous \in [Nodes -> Nodes \cup {NULL}]
      /\ list = [m \in Lists |-> ListOf(S[m])]
      /\ \A m \in Lists : Chain(next, previous, S[m])
      /\ Apart(S) /\ Mutual(next, previous, S)
  BY DEF Shape
<1>2. /\ list[a] = ListOf(s) /\ list[a].head = At(s, 1) /\ list[a].tail = At(s, Len(s))
      /\ list[a].count = Len(s) /\ list[d].count = Len(S[d])
  BY <1>1, ListFields
<1>3. /\ i \in 1 .. Len(s) /\ j \in 1 .. Len(s) /\ j \in i .. Len(s)
      /\ i \in Nat /\ j \in Nat /\ 1 <= i /\ i <= j /\ j <= Len(s)
  BY <1>1, <1>2
<1>4. S[d] = <<>> /\ Len(S[d]) = 0
  BY <1>1, <1>2
<1>5. /\ first \in Nodes /\ next[first] = At(s, i + 1) /\ previous[first] = before
      /\ first # before /\ Holds(S, first)
      /\ last \in Nodes /\ next[last] = after /\ previous[last] = At(s, j - 1)
      /\ last # after /\ Holds(S, last)
  BY <1>3, Pointers
<1>6. Forward(a)[i] = first /\ Forward(a)[j] = last
  <2>1. Forward(a) = [k \in 1 .. Len(s) |-> s[k]]
    BY Meets
  <2> QED BY <1>3, <2>1
<1>7. before \in Nodes \cup {NULL} /\ after \in Nodes \cup {NULL}
  BY <1>1, <1>5
<1>8. before # NULL => Holds(S, before)
  BY <1>1 DEF At, Holds
<1> HIDE DEF first, last, before, after
<1>9. /\ next' = [m \in Nodes |-> IF m = last THEN NULL
                                  ELSE IF m = before THEN after ELSE next[m]]
      /\ previous' = [m \in Nodes |-> IF m = first THEN NULL
                                      ELSE IF m = after THEN before ELSE previous[m]]
      /\ list' = [list EXCEPT ![a] = List(IF before = NULL THEN after ELSE @.head,
                                          IF after = NULL THEN before ELSE @.tail,
                                          @.count - (j - i + 1)),
                              ![d] = List(first, last, j - i + 1)]
  BY <1>5, <1>6 DEF lstExtract
<1>10. next' \in [Nodes -> Nodes \cup {NULL}] /\ previous' \in [Nodes -> Nodes \cup {NULL}]
  BY <1>1, <1>7, <1>9
<1>11. LeadPast(next', previous', s, i, j)
  <2> SUFFICES ASSUME NEW m \in Nodes, \A k \in i .. j : m # s[k]
               PROVE  /\ next'[m] = IF m = before THEN after ELSE next[m]
                      /\ previous'[m] = IF m = after THEN before ELSE previous[m]
    BY DEF LeadPast, before, after
  <2>1. i \in i .. j /\ j \in i .. j
    BY <1>3
  <2>2. m # first /\ m # last
    BY <2>1 DEF first, last
  <2> QED BY <1>9, <2>2
<1>12. t \in Seq(Nodes) /\ CutOut(S, a, t, next', previous', i, j)
  BY <1>3, <1>11, CutShape
<1>13. R \in [Lists -> Seq(Nodes)] /\ Len(R[d]) = 0 /\ Apart(R)
  BY <1>1, <1>4, <1>12 DEF CutOut
<1>14. /\ u \in Seq(Nodes) /\ Len(u) = j - i + 1
       /\ \A k \in 1 .. j - i + 1 : u[k] = s[i + k - 1]
  BY <1>1, <1>3, AtCut
<1> HIDE DEF u, t
<1>15. \A k \in 1 .. Len(u) : i + k - 1 \in i .. j /\ i + k - 1 \in 1 .. Len(s) /\ u[k] = s[i + k - 1]
  BY <1>1, <1>3, <1>14
<1>16. \A p, q \in 1 .. Len(s) : s[p] = s[q] => p = q
  BY <1>1 DEF Apart
<1>17. ASSUME NEW p \in 1 .. Len(s)
       PROVE  (s[p] = before <=> p = i - 1) /\ (s[p] = after <=> p = j + 1)
  <2>1. i - 1 \in Int /\ j + 1 \in Int
    BY <1>3
  <2>2. S \in [Lists -> Seq(Nodes)] /\ Apart(S)
    BY <1>1
  <2>3. \A q \in 1 .. Len(S[a]), k \in Int : S[a][q] = At(S[a], k) <=> q = k
    BY <2>2, OwnPlaces
  <2> QED BY <2>1, <2>3 DEF before, after
<1>18. Apart(T) /\ \A x : Holds(T, x) <=> Holds(R, x) \/ \E k \in 1 .. Len(u) : u[k] = x
  <2>2. ASSUME NEW k \in 1 .. Len(u), NEW h \in 1 .. Len(u), u[k] = u[h] PROVE k = h
    <3>1. i + k - 1 = i + h - 1
      BY <1>15, <1>16, <2>2
    <3> QED BY <1>3, <1>14, <3>1
  <2>3. \A x : Holds(R, x) <=> Holds(S, x) /\ \A k \in i .. j : x # s[k]
    BY <1>12 DEF CutOut
  <2>4. \A k \in 1 .. Len(u) : ~Holds(R, u[k])
    BY <1>15, <2>3
  <2> HIDE DEF R
  <2> QED BY <1>13, <1>14, <2>2, <2>4, PartShape
<1>19. \A x : Holds(S, x) => Holds(T, x)
  <2>1. \A x : Holds(R, x) <=> Holds(S, x) /\ \A k \in i .. j : x # s[k]
    BY <1>12 DEF CutOut
  <2>2. ASSUME NEW k \in i .. j PROVE \E h \in 1 .. Len(u) : u[h] = s[k]
    <3>1. k - i + 1 \in 1 .. Len(u) /\ i + (k - i + 1) - 1 = k
      BY <1>3, <1>14
    <3> QED BY <1>15, <3>1
  <2> HIDE DEF T, R
  <2> QED BY <1>18, <2>1, <2>2
<1>20. Chain(next', previous', u)
  <2> SUFFICES ASSUME NEW k \in 1 .. Len(u)
               PROVE  next'[u[k]] = At(u, k + 1) /\ previous'[u[k]] = At(u, k - 1)
    BY DEF Chain
  <2> DEFINE p == i + k - 1
  <2>1. /\ p \in i .. j /\ p \in 1 .. Len(s) /\ u[k] = s[p]
        /\ p + 1 = i + (k + 1) - 1 /\ p - 1 = i + (k - 1) - 1
        /\ (p = j <=> k + 1 \notin 1 .. Len(u)) /\ (p = i <=> k - 1 \notin 1 .. Len(u))
        /\ p \in Int
    BY <1>3, <1>14, <1>15
  <2> HIDE DEF p
  <2>2. /\ s[p] \in Nodes /\ next[s[p]] = At(s, p + 1) /\ previous[s[p]] = At(s, p - 1)
    BY <2>1, Pointers
  <2>3. /\ s[p] = last <=> p = j
        /\ s[p] = first <=> p = i
    BY <1>3, <1>16, <2>1 DEF first, last
  <2>4. s[p] # before /\ s[p] # after
    <3>1. i \in Int /\ j \in Int /\ i <= p /\ p <= j
      BY <1>3, <2>1
    <3>2. i - 1 \in Int /\ j + 1 \in Int /\ p # i - 1 /\ p # j + 1
      BY <2>1, <3>1
    <3> QED BY <1>17, <2>1, <3>2
  <2>5. p # j => At(s, p + 1) = At(u, k + 1)
    <3> SUFFICES ASSUME p # j PROVE At(s, p + 1) = At(u, k + 1)
      OBVIOUS
    <3>1. k + 1 \in 1 .. Len(u) /\ p + 1 = i + (k + 1) - 1
      BY <2>1
    <3>2. u[k + 1] = s[p + 1] /\ p + 1 \in 1 .. Len(s)
      BY <1>15, <3>1
    <3> QED BY <3>1, <3>2 DEF At
  <2>6. p # i => At(s, p - 1) = At(u, k - 1)
    <3> SUFFICES ASSUME p # i PROVE At(s, p - 1) = At(u, k - 1)
      OBVIOUS
    <3>1. k - 1 \in 1 .. Len(u) /\ p - 1 = i + (k - 1) - 1
      BY <2>1
    <3>2. u[k - 1] = s[p - 1] /\ p - 1 \in 1 .. Len(s)
      BY <1>15, <3>1
    <3> QED BY <3>1, <3>2 DEF At
  <2>7. (p = j => At(u, k + 1) = NULL) /\ (p = i => At(u, k - 1) = NULL)
    BY <2>1 DEF At
  <2>8. /\ next'[s[p]] = IF p = j THEN NULL ELSE At(s, p + 1)
        /\ previous'[s[p]] = IF p = i THEN NULL ELSE At(s, p - 1)
    BY <1>9, <2>2, <2>3, <2>4
  <2> QED BY <2>1, <2>5, <2>6, <2>7, <2>8
<1>21. ASSUME NEW m \in Lists PROVE Chain(next', previous', T[m])
  <2>1. Chain(next', previous', R[m])
    BY <1>12 DEF CutOut
  <2> HIDE DEF R
  <2>2. m # d => T[m] = R[m]
    BY <1>13
  <2>3. m = d => T[m] = u
    BY <1>13
  <2> QED BY <1>20, <2>1, <2>2, <2>3
<1>22. list' = [m \in Lists |-> ListOf(T[m])]
  <2>1. ListOf(t) = List(IF before = NULL THEN after ELSE At(s, 1),
                         IF after = NULL THEN before ELSE At(s, Len(s)), Len(s) - (j - i + 1))
    BY <1>12 DEF CutOut, before, after
  <2>2. ListOf(u) = List(first, last, j - i + 1)
    <3>1. /\ 1 \in 1 .. Len(u) /\ j - i + 1 \in 1 .. Len(u)
          /\ i + 1 - 1 = i /\ i + (j - i + 1) - 1 = j
      BY <1>3, <1>14
    <3>2. u[1] = s[i] /\ u[j - i + 1] = s[j]
      BY <1>15, <3>1
    <3> QED BY <1>14, <3>1, <3>2 DEF ListOf, At, first, last
  <2>3. list' = [list EXCEPT ![a] = ListOf(t), ![d] = ListOf(u)]
    BY <1>1, <1>2, <1>9, <2>1, <2>2
  <2> QED BY <1>1, <2>3
<1>23. Mutual(next', previous', T)
  <2> SUFFICES ASSUME NEW m \in Nodes, NEW o \in Nodes, next'[m] = o, previous'[o] = m
               PROVE  Holds(T, m)
    BY DEF Mutual
  <2> HIDE DEF T
  <2>1. m # last /\ o # first
    BY <1>9, NullAssumption
  <2>2. CASE m = before
    BY <1>8, <1>19, <2>2, NullAssumption
  <2>3. CASE m # before
    <3>1. next[m] = o
      BY <1>9, <2>1, <2>3
    <3>2. o # after
      BY <1>9, <2>1, <2>3
    <3>3. previous[o] = m
      BY <1>9, <2>1, <3>2
    <3> QED BY <1>1, <1>19, <3>1, <3>3 DEF Mutual
  <2> QED BY <2>2, <2>3
<1>24. T \in [Lists -> Seq(Nodes)]
  BY <1>13, <1>14
<1>25. Shape(T, next', previous', list')
  <2> HIDE DEF T
  <2> QED BY <1>10, <1>18, <1>21, <1>22, <1>23, <1>24 DEF Shape
<1> QED BY <1>3, <1>4, <1>25 DEF u, t
-------------------------------------------------------------------------------
\* Places and ends of two sequences joined.
LEMMA JoinPlaces ==
    ASSUME NEW x \in Seq(Nodes), NEW y \in Seq(Nodes)
    PROVE  LET t == x \o y IN
           /\ t \in Seq(Nodes)
           /\ \A k \in 1 .. Len(t) :
                 \/ /\ k \in 1 .. Len(x) /\ t[k] = x[k] /\ At(t, k - 1) = At(x, k - 1)
                    /\ At(t, k + 1) = IF k = Len(x) THEN At(y, 1) ELSE At(x, k + 1)
                 \/ /\ k - Len(x) \in 1 .. Len(y) /\ t[k] = y[k - Len(x)]
                    /\ At(t, k - 1) = IF k - Len(x) = 1 THEN At(x, Len(x))
                                      ELSE At(y, (k - Len(x)) - 1)
                    /\ At(t, k + 1) = At(y, (k - Len(x)) + 1)
           /\ \A k \in 1 .. Len(x) : k \in 1 .. Len(t) /\ t[k] = x[k]
           /\ \A k \in 1 .. Len(y) : k + Len(x) \in 1 .. Len(t) /\ t[k + Len(x)] = y[k]
           /\ ListOf(t) = List(IF Len(x) = 0 THEN At(y, 1) ELSE At(x, 1),
                               IF Len(y) = 0 THEN At(x, Len(x)) ELSE At(y, Len(y)),
                               Len(x) + Len(y))
<1> DEFINE t == x \o y  n == Len(x)  c == Len(y)
<1>1. /\ t \in Seq(Nodes) /\ Len(t) = n + c
      /\ \A k \in Nat : At(t, k) = IF k <= n THEN At(x, k) ELSE At(y, k - n)
  BY AtJoin
<1>2. n \in Nat /\ c \in Nat
  OBVIOUS
<1>3. /\ \A k \in 1 .. n + c : At(t, k) = t[k]
      /\ \A k \in 1 .. n : At(x, k) = x[k]
      /\ \A k \in 1 .. c : At(y, k) = y[k]
  <2>1. \A k \in 1 .. Len(t) : At(t, k) = t[k]
    BY DEF At
  <2> QED BY <1>1, <2>1 DEF At
<1> HIDE DEF t, n, c
<1>4. ASSUME NEW k \in 1 .. n + c
      PROVE  \/ /\ k \in 1 .. n /\ t[k] = x[k] /\ At(t, k - 1) = At(x, k - 1)
                /\ At(t, k + 1) = IF k = n THEN At(y, 1) ELSE At(x, k + 1)
             \/ /\ k - n \in 1 .. c /\ t[k] = y[k - n]
                /\ At(t, k - 1) = IF k - n = 1 THEN At(x, n) ELSE At(y, (k - n) - 1)
                /\ At(t, k + 1) = At(y, (k - n) + 1)
  <2>1. k \in Nat /\ k - 1 \in Nat /\ k + 1 \in Nat
    BY <1>2
  <2>2. CASE k <= n
    <3>1. k \in 1 .. n /\ At(t, k) = At(x, k)
      BY <1>1, <1>2, <2>1, <2>2
    <3>2. At(t, k - 1) = At(x, k - 1)
      BY <1>1, <1>2, <2>1, <2>2
    <3>3. At(t, k + 1) = IF k = n THEN At(y, 1) ELSE At(x, k + 1)
      <4>1. (k = n => ~(k + 1 <= n) /\ (k + 1) - n = 1) /\ (k # n => k + 1 <= n)
        BY <1>2, <2>1, <2>2
      <4> QED BY <1>1, <2>1, <4>1
    <3> QED BY <1>3, <3>1, <3>2, <3>3
  <2>3. CASE ~(k <= n)
    <3>1. k - n \in 1 .. c /\ At(t, k) = At(y, k - n)
      BY <1>1, <1>2, <2>1, <2>3
    <3>2. At(t, k - 1) = IF k - n = 1 THEN At(x, n) ELSE At(y, (k - n) - 1)
      <4>1. /\ k - n = 1 => k - 1 <= n /\ k - 1 = n
            /\ k - n # 1 => ~(k - 1 <= n) /\ (k - 1) - n = (k - n) - 1
        BY <1>2, <2>1, <2>3
      <4> QED BY <1>1, <2>1, <4>1
    <3>3. At(t, k + 1) = At(y, (k - n) + 1)
      <4>1. ~(k + 1 <= n) /\ (k + 1) - n = (k - n) + 1
        BY <1>2, <2>1, <2>3
      <4> QED BY <1>1, <2>1, <4>1
    <3> QED BY <1>3, <3>1, <3>2, <3>3
  <2> QED BY <2>2, <2>3
<1>5. ASSUME NEW k \in 1 .. n PROVE k \in 1 .. n + c /\ t[k] = x[k]
  BY <1>1, <1>2, <1>3
<1>6. ASSUME NEW k \in 1 .. c PROVE k + n \in 1 .. n + c /\ t[k + n] = y[k]
  <2>1. k + n \in 1 .. n + c /\ k + n \in Nat /\ ~(k + n <= n) /\ (k + n) - n = k
    BY <1>2
  <2> QED BY <1>1, <1>3, <2>1
<1>7. ListOf(t) = List(IF n = 0 THEN At(y, 1) ELSE At(x, 1),
                       IF c = 0 THEN At(x, n) ELSE At(y, c), n + c)
  <2>1. At(t, 1) = IF n = 0 THEN At(y, 1) ELSE At(x, 1)
    BY <1>1, <1>2
  <2>2. At(t, n + c) = IF c = 0 THEN At(x, n) ELSE At(y, c)
    <3>1. n + c \in Nat /\ (c = 0 => n + c = n) /\ (c # 0 => ~(n + c <= n) /\ (n + c) - n = c)
      BY <1>2
    <3> QED BY <1>1, <1>2, <3>1
  <2> QED BY <1>1, <2>1, <2>2 DEF ListOf
<1> QED BY <1>1, <1>4, <1>5, <1>6, <1>7 DEF t, n, c

LEMMA ConcatShape ==
    ASSUME NEW S, Shape(S, next, previous, list), NEW d \in Lists, NEW a \in Lists, d # a,
           lstConcat(d, a)
    PROVE  Shape([S EXCEPT ![d] = S[d] \o S[a], ![a] = <<>>], next', previous', list')
<1> DEFINE x == S[d]  y == S[a]  t == x \o y  T == [S EXCEPT ![d] = t, ![a] = <<>>]
           Both == Len(x) # 0 /\ Len(y) # 0  end == At(x, Len(x))  start == At(y, 1)
<1>1. /\ S \in [Lists -> Seq(Nodes)] /\ x \in Seq(Nodes) /\ y \in Seq(Nodes)
      /\ Len(x) \in Nat /\ Len(y) \in Nat
      /\ next \in [Nodes -> Nodes \cup {NULL}] /\ previous \in [Nodes -> Nodes \cup {NULL}]
      /\ list = [m \in Lists |-> ListOf(S[m])] /\ list[d] = ListOf(x) /\ list[a] = ListOf(y)
      /\ \A m \in Lists : Chain(next, previous, S[m])
      /\ Apart(S) /\ Mutual(next, previous, S)
  BY DEF Shape
<1>2. /\ list[d].head = At(x, 1) /\ list[d].tail = end /\ list[d].count = Len(x)
      /\ list[a].head = start /\ list[a].tail = At(y, Len(y)) /\ list[a].count = Len(y)
  BY <1>1, ListFields
<1>3. /\ t \in Seq(Nodes)
      /\ \A k \in 1 .. Len(t) :
            \/ /\ k \in 1 .. Len(x) /\ t[k] = x[k] /\ At(t, k - 1) = At(x, k - 1)
               /\ At(t, k + 1) = IF k = Len(x) THEN At(y, 1) ELSE At(x, k + 1)
            \/ /\ k - Len(x) \in 1 .. Len(y) /\ t[k] = y[k - Len(x)]
               /\ At(t, k - 1) = IF k - Len(x) = 1 THEN At(x, Len(x))
                                 ELSE At(y, (k - Len(x)) - 1)
               /\ At(t, k + 1) = At(y, (k - Len(x)) + 1)
      /\ \A k \in 1 .. Len(x) : k \in 1 .. Len(t) /\ t[k] = x[k]
      /\ \A k \in 1 .. Len(y) : k + Len(x) \in 1 .. Len(t) /\ t[k + Len(x)] = y[k]
      /\ ListOf(t) = List(IF Len(x) = 0 THEN start ELSE At(x, 1),
                          IF Len(y) = 0 THEN end ELSE At(y, Len(y)), Len(x) + Len(y))
  BY <1>1, JoinPlaces
<1>4. /\ Len(x) = 0 => end = NULL
      /\ Len(x) # 0 => end \in Nodes /\ end # NULL /\ Len(x) \in 1 .. Len(x) /\ end = x[Len(x)]
      /\ Len(y) = 0 => start = NULL
      /\ Len(y) # 0 => start \in Nodes /\ start # NULL /\ 1 \in 1 .. Len(y) /\ start = y[1]
  BY <1>1, NullAssumption DEF At
<1> HIDE DEF t, end, start
<1>5. T \in [Lists -> Seq(Nodes)] /\ T[d] = t /\ T[a] = <<>> /\ \A m \in Lists \ {d, a} : T[m] = S[m]
  <2>1. S \in [Lists -> Seq(Nodes)] /\ t \in Seq(Nodes) /\ <<>> \in Seq(Nodes)
    BY <1>1, <1>3
  <2> QED BY <2>1
<1>6. /\ next' = [m \in Nodes |-> IF Both /\ m = end THEN start ELSE next[m]]
      /\ previous' = [m \in Nodes |-> IF Both /\ m = start THEN end ELSE previous[m]]
      /\ list' = [list EXCEPT ![d] = ListOf(t), ![a] = ListOf(<<>>)]
  <2>1. ListOf(<<>>) = List(NULL, NULL, 0)
    BY DEF ListOf, At
  <2>2. CASE Len(y) = 0
    <3>1. ListOf(t) = ListOf(x)
      <4>1. (Len(x) = 0 => start = At(x, 1)) /\ Len(x) + Len(y) = Len(x)
        BY <1>1, <1>4, <2>2 DEF At
      <4>2. ListOf(t) = List(At(x, 1), end, Len(x))
        BY <1>3, <2>2, <4>1
      <4> QED BY <4>2 DEF ListOf, end
    <3>2. ListOf(y) = ListOf(<<>>)
      BY <1>1, <2>1, <2>2 DEF ListOf, At
    <3>3. UNCHANGED <<next, previous, list>>
      BY <1>2, <2>2 DEF lstConcat, listVars
    <3> HIDE DEF x, y
    <3>4. next = [m \in Nodes |-> next[m]] /\ previous = [m \in Nodes |-> previous[m]]
      BY <1>1
    <3>5. list = [list EXCEPT ![d] = ListOf(x), ![a] = ListOf(y)]
      BY <1>1
    <3> QED BY <2>2, <3>1, <3>2, <3>3, <3>4, <3>5
  <2>3. CASE Len(y) # 0 /\ Len(x) = 0
    <3>1. ListOf(t) = ListOf(y)
      BY <1>1, <1>3, <2>3 DEF ListOf, start
    <3>2. list' = [list EXCEPT ![d] = list[a], ![a] = Empty] /\ UNCHANGED <<next, previous>>
      BY <1>2, <2>3 DEF lstConcat
    <3> HIDE DEF x, y
    <3>3. next = [m \in Nodes |-> next[m]] /\ previous = [m \in Nodes |-> previous[m]]
      BY <1>1
    <3> QED BY <1>1, <2>1, <2>3, <3>1, <3>2, <3>3 DEF Empty
  <2>4. CASE Len(y) # 0 /\ Len(x) # 0
    <3>1. ListOf(t) = List(At(x, 1), At(y, Len(y)), Len(x) + Len(y))
      BY <1>3, <2>4
    <3>2. /\ next' = [next EXCEPT ![end] = start] /\ previous' = [previous EXCEPT ![start] = end]
          /\ list' = [list EXCEPT ![d] = List(At(x, 1), At(y, Len(y)), Len(x) + Len(y)),
                                  ![a] = Empty]
      BY <1>1, <1>2, <2>4 DEF lstConcat
    <3> HIDE DEF x, y
    <3>3. next' = [m \in Nodes |-> IF Both /\ m = end THEN start ELSE next[m]]
      BY <1>1, <2>4, <3>2
    <3>4. previous' = [m \in Nodes |-> IF Both /\ m = start THEN end ELSE previous[m]]
      BY <1>1, <2>4, <3>2
    <3> QED BY <2>1, <3>1, <3>2, <3>3, <3>4 DEF Empty
  <2> QED BY <2>2, <2>3, <2>4
<1>7. next' \in [Nodes -> Nodes \cup {NULL}] /\ previous' \in [Nodes -> Nodes \cup {NULL}]
  BY <1>1, <1>4, <1>6
<1>8. list' = [m \in Lists |-> ListOf(T[m])]
  BY <1>1, <1>5, <1>6
<1>9. ASSUME NEW k \in 1 .. Len(x)
      PROVE  /\ next'[x[k]] = IF k = Len(x) THEN start ELSE At(x, k + 1)
             /\ previous'[x[k]] = At(x, k - 1)
  <2>1. x[k] \in Nodes /\ next[x[k]] = At(x, k + 1) /\ previous[x[k]] = At(x, k - 1)
    BY Pointers
  <2>2. Len(y) = 0 /\ k = Len(x) => At(x, k + 1) = start
    BY <1>1, <1>4 DEF At
  <2>3. Len(x) # 0
    BY <1>1
  <2>4. \A q \in 1 .. Len(x) : x[k] = x[q] => k = q
    BY <1>1 DEF Apart
  <2>5. x[k] = end <=> k = Len(x)
    BY <1>4, <2>3, <2>4
  <2>6. \A q \in 1 .. Len(y) : x[k] # y[q]
    BY <1>1 DEF Apart
  <2>7. Len(y) # 0 => x[k] # start
    BY <1>4, <2>6
  <2> HIDE DEF x, y
  <2> QED BY <1>6, <2>1, <2>2, <2>3, <2>5, <2>7
<1>10. ASSUME NEW k \in 1 .. Len(y)
       PROVE  /\ next'[y[k]] = At(y, k + 1)
              /\ previous'[y[k]] = IF k = 1 THEN end ELSE At(y, k - 1)
  <2>1. y[k] \in Nodes /\ next[y[k]] = At(y, k + 1) /\ previous[y[k]] = At(y, k - 1)
    BY Pointers
  <2>2. Len(x) = 0 /\ k = 1 => At(y, k - 1) = end
    BY <1>1, <1>4 DEF At
  <2>3. Len(y) # 0
    BY <1>1
  <2>4. \A q \in 1 .. Len(y) : y[k] = y[q] => k = q
    BY <1>1 DEF Apart
  <2>5. y[k] = start <=> k = 1
    BY <1>4, <2>3, <2>4
  <2>6. \A q \in 1 .. Len(x) : y[k] # x[q]
    BY <1>1 DEF Apart
  <2>7. Len(x) # 0 => y[k] # end
    BY <1>4, <2>6
  <2> HIDE DEF x, y
  <2> QED BY <1>6, <2>1, <2>2, <2>3, <2>5, <2>7
<1>11. Chain(next', previous', t)
  <2> SUFFICES ASSUME NEW k \in 1 .. Len(t)
               PROVE  next'[t[k]] = At(t, k + 1) /\ previous'[t[k]] = At(t, k - 1)
    BY DEF Chain
  <2>1. CASE /\ k \in 1 .. Len(x) /\ t[k] = x[k] /\ At(t, k - 1) = At(x, k - 1)
             /\ At(t, k + 1) = IF k = Len(x) THEN At(y, 1) ELSE At(x, k + 1)
    BY <1>9, <2>1 DEF start
  <2>2. CASE /\ k - Len(x) \in 1 .. Len(y) /\ t[k] = y[k - Len(x)]
             /\ At(t, k - 1) = IF k - Len(x) = 1 THEN At(x, Len(x)) ELSE At(y, (k - Len(x)) - 1)
             /\ At(t, k + 1) = At(y, (k - Len(x)) + 1)
    BY <1>10, <2>2 DEF end
  <2> QED BY <1>3, <2>1, <2>2
<1>12. ASSUME NEW m \in Lists \ {d, a} PROVE Chain(next', previous', S[m])
  <2> SUFFICES ASSUME NEW k \in 1 .. Len(S[m])
               PROVE  next'[S[m][k]] = next[S[m][k]] /\ previous'[S[m][k]] = previous[S[m][k]]
    <3>1. Chain(next, previous, S[m])
      BY <1>1
    <3> QED BY <3>1 DEF Chain
  <2>1. S[m][k] \in Nodes
    BY <1>1
  <2>2. /\ \A q \in 1 .. Len(x) : S[m][k] # x[q]
        /\ \A q \in 1 .. Len(y) : S[m][k] # y[q]
    BY <1>1 DEF Apart
  <2>3. ~(Both /\ S[m][k] = end) /\ ~(Both /\ S[m][k] = start)
    BY <1>4, <2>2
  <2> QED BY <1>6, <2>1, <2>3
<1>13. \A m \in Lists : Chain(next', previous', T[m])
  <2>1. Chain(next', previous', <<>>)
    BY DEF Chain
  <2> QED BY <1>5, <1>11, <1>12, <2>1
<1>14. Apart(T)
  <2> SUFFICES ASSUME NEW m \in Lists, NEW o \in Lists, NEW i \in 1 .. Len(T[m]),
                      NEW j \in 1 .. Len(T[o]), T[m][i] = T[o][j]
               PROVE  m = o /\ i = j
    BY DEF Apart
  <2>1. /\ \A p, q \in 1 .. Len(x) : x[p] = x[q] => p = q
        /\ \A p, q \in 1 .. Len(y) : y[p] = y[q] => p = q
        /\ \A p \in 1 .. Len(x), q \in 1 .. Len(y) : x[p] # y[q]
    BY <1>1 DEF Apart
  <2>2. ASSUME NEW k \in 1 .. Len(t)
        PROVE  \/ k \in 1 .. Len(x) /\ t[k] = x[k]
               \/ k - Len(x) \in 1 .. Len(y) /\ t[k] = y[k - Len(x)]
    BY <1>3
  <2>3. ASSUME NEW w \in Lists \ {d, a}, NEW p \in 1 .. Len(S[w])
        PROVE  /\ \A q \in 1 .. Len(x) : S[w][p] # x[q]
               /\ \A q \in 1 .. Len(y) : S[w][p] # y[q]
    BY <1>1 DEF Apart
  <2>4. ASSUME NEW w \in Lists \ {d, a}, NEW p \in 1 .. Len(S[w]), NEW q \in 1 .. Len(t)
        PROVE  S[w][p] # t[q]
    <3>1. CASE q \in 1 .. Len(x) /\ t[q] = x[q]
      BY <2>3, <3>1
    <3>2. CASE q - Len(x) \in 1 .. Len(y) /\ t[q] = y[q - Len(x)]
      BY <2>3, <3>2
    <3> QED BY <2>2, <3>1, <3>2
  <2>5. m # a /\ o # a
    <3>1. Len(<<>>) = 0
      OBVIOUS
    <3> QED BY <1>5, <3>1
  <2> HIDE DEF T
  <2>6. CASE m # d /\ o # d
    BY <1>1, <1>5, <2>5, <2>6 DEF Apart
  <2>7. CASE m = d /\ o = d
    <3>1. i \in 1 .. Len(t) /\ j \in 1 .. Len(t) /\ t[i] = t[j]
      BY <1>5, <2>7
    <3>2. /\ \/ i \in 1 .. Len(x) /\ t[i] = x[i]
             \/ i - Len(x) \in 1 .. Len(y) /\ t[i] = y[i - Len(x)]
          /\ \/ j \in 1 .. Len(x) /\ t[j] = x[j]
             \/ j - Len(x) \in 1 .. Len(y) /\ t[j] = y[j - Len(x)]
      BY <2>2, <3>1
    <3>3. i \in Nat /\ j \in Nat /\ Len(x) \in Nat
      BY <1>1, <1>3, <3>1
    <3> HIDE DEF x, y
    <3>4. i = j \/ i - Len(x) = j - Len(x)
      BY <2>1, <3>1, <3>2
    <3>5. i = j
      BY <3>3, <3>4
    <3> QED BY <2>7, <3>5
  <2>8. CASE m = d /\ o # d
    BY <1>5, <2>4, <2>5, <2>8
  <2>9. CASE m # d /\ o = d
    BY <1>5, <2>4, <2>5, <2>9
  <2> QED BY <2>6, <2>7, <2>8, <2>9
<1>15. ASSUME NEW n, Holds(S, n) PROVE Holds(T, n)
  <2>1. PICK m \in Lists : \E k \in 1 .. Len(S[m]) : S[m][k] = n
    BY <1>15 DEF Holds
  <2>2. PICK k \in 1 .. Len(S[m]) : S[m][k] = n
    BY <2>1
  <2>3. CASE m = d
    <3>1. k \in 1 .. Len(T[d]) /\ T[d][k] = n
      BY <1>3, <1>5, <2>2, <2>3
    <3> QED BY <3>1 DEF Holds
  <2>4. CASE m = a
    <3>1. k + Len(x) \in 1 .. Len(T[d]) /\ T[d][k + Len(x)] = n
      BY <1>3, <1>5, <2>2, <2>4
    <3> QED BY <3>1 DEF Holds
  <2>5. CASE m # d /\ m # a
    BY <1>5, <2>2, <2>5 DEF Holds
  <2> QED BY <2>3, <2>4, <2>5
<1>16. Mutual(next', previous', T)
  <2> SUFFICES ASSUME NEW m \in Nodes, NEW o \in Nodes, next'[m] = o, previous'[o] = m
               PROVE  Holds(T, m)
    BY DEF Mutual
  <2> HIDE DEF T
  <2>1. CASE Both /\ m = end
    BY <1>4, <1>15, <2>1 DEF Holds
  <2>2. CASE ~(Both /\ m = end)
    <3>1. next[m] = o
      BY <1>6, <2>2
    <3>2. ~(Both /\ o = start)
      BY <1>6, <2>2
    <3>3. previous[o] = m
      BY <1>6, <3>2
    <3> QED BY <1>1, <1>15, <3>1, <3>3 DEF Mutual
  <2> QED BY <2>1, <2>2
<1> HIDE DEF T
<1>17. Shape(T, next', previous', list')
  BY <1>5, <1>7, <1>8, <1>13, <1>14, <1>16 DEF Shape
<1> QED BY <1>17 DEF T, t
-------------------------------------------------------------------------------
(***************************************************************************)
(* The library implements sequences.                                       *)
(***************************************************************************)
\* The lists as lstNth shows them, for any pointers.
ShownBy(nx, pv, ls) ==
    [l \in Lists |-> [k \in 1 .. ls[l].count |->
        IF k < ls[l].count \div 2 THEN Walk(ls[l].head, nx, ls[l].count)[k]
        ELSE Walk(ls[l].tail, pv, ls[l].count)[ls[l].count - k + 1]]]

LEMMA ShownIs ==
    ASSUME NEW S, NEW nx, NEW pv, NEW ls, Shape(S, nx, pv, ls)
    PROVE  ShownBy(nx, pv, ls) = S
<1> SUFFICES ASSUME NEW l \in Lists
             PROVE  [k \in 1 .. ls[l].count |->
                        IF k < ls[l].count \div 2 THEN Walk(ls[l].head, nx, ls[l].count)[k]
                        ELSE Walk(ls[l].tail, pv, ls[l].count)[ls[l].count - k + 1]] = S[l]
  <2>1. S \in [Lists -> Seq(Nodes)]
    BY DEF Shape
  <2> QED BY <2>1 DEF ShownBy
<1>1. S[l] \in Seq(Nodes) /\ ls[l] = ListOf(S[l]) /\ Chain(nx, pv, S[l])
  BY DEF Shape
<1> DEFINE s == S[l]  n == Len(s)  forth == Walk(At(s, 1), nx, n)  back == Walk(At(s, n), pv, n)
<1>2. ls[l].head = At(s, 1) /\ ls[l].tail = At(s, n) /\ ls[l].count = n
  BY <1>1, ListFields
<1>3. forth = [k \in 1 .. n |-> s[k]] /\ back = [k \in 1 .. n |-> s[n - k + 1]]
  BY <1>1, BothWays
<1>4. n \in Nat /\ s = [k \in 1 .. n |-> s[k]]
  BY <1>1
<1> HIDE DEF s, n, forth, back
<1>5. ASSUME NEW k \in 1 .. n
      PROVE  (IF k < n \div 2 THEN forth[k] ELSE back[n - k + 1]) = s[k]
  <2>1. n - k + 1 \in 1 .. n /\ n - (n - k + 1) + 1 = k
    BY <1>4
  <2>2. back[n - k + 1] = s[n - (n - k + 1) + 1]
    BY <1>3, <2>1
  <2> QED BY <1>3, <2>1, <2>2
<1>6. [k \in 1 .. n |-> IF k < n \div 2 THEN forth[k] ELSE back[n - k + 1]] = s
  BY <1>4, <1>5
<1> QED BY <1>2, <1>6 DEF s, n, forth, back

\* What the steps of the library do to the sequences.
Moves(S, T) ==
    \/ T = S
    \/ \E l \in Lists : \E k \in 1 .. Len(S[l]) + 1, n \in Nodes :
          ~Holds(S, n) /\ T = [S EXCEPT ![l] = SeqEdits!InsertAt(S[l], k, n)]
    \/ \E l \in Lists : \E k \in 1 .. Len(S[l]) :
          T = [S EXCEPT ![l] = SeqEdits!RemoveAt(S[l], k)]
    \/ \E d, a \in Lists :
          /\ d # a
          /\ \/ T = [S EXCEPT ![d] = S[d] \o S[a], ![a] = <<>>]
             \/ /\ S[d] = <<>>
                /\ \E i \in 1 .. Len(S[a]) : \E j \in i .. Len(S[a]) :
                      T = [S EXCEPT ![a] = Cut(S[a], i, j), ![d] = SubSeq(S[a], i, j)]

LEMMA InList ==
    ASSUME NEW S, Shape(S, next, previous, list), NEW n, NEW l \in Lists
    PROVE  In(n, l) <=> \E k \in 1 .. Len(S[l]) : S[l][k] = n
<1>1. list[l].count = Len(S[l]) /\ Forward(l) = [k \in 1 .. Len(S[l]) |-> S[l][k]]
  BY Meets
<1> QED BY <1>1 DEF In

LEMMA ListStep ==
    ASSUME NEW S, Shape(S, next, previous, list), [ListNext]_listVars
    PROVE  \E T : Shape(T, next', previous', list') /\ Moves(S, T)
<1> DEFINE Goal == \E T : Shape(T, next', previous', list') /\ Moves(S, T)
<1>1. ASSUME NEW l \in Lists, NEW n \in Nodes, Free(n), NEW p \in Nodes \cup {NULL},
             p = NULL \/ In(p, l), lstInsert(l, p, n)
      PROVE  Goal
  <2>1. ~Holds(S, n)
    BY <1>1, InList DEF Free, Holds
  <2>2. Len(S[l]) \in Nat
    BY DEF Shape
  <2>3. PICK q \in 0 .. Len(S[l]) : At(S[l], q) = p
    <3>1. CASE p = NULL
      <4>1. 0 \in 0 .. Len(S[l]) /\ 0 \notin 1 .. Len(S[l])
        BY <2>2
      <4> QED BY <3>1, <4>1 DEF At
    <3>2. CASE In(p, l)
      <4>1. PICK k \in 1 .. Len(S[l]) : S[l][k] = p
        BY <3>2, InList
      <4>2. k \in 0 .. Len(S[l])
        BY <2>2
      <4> QED BY <4>1, <4>2 DEF At
    <3> QED BY <1>1, <3>1, <3>2
  <2>4. lstInsert(l, At(S[l], q), n)
    BY <1>1, <2>3
  <2>5. Shape([S EXCEPT ![l] = SeqEdits!InsertAt(S[l], q + 1, n)], next', previous', list')
    BY <2>1, <2>4, InsertShape
  <2>6. q + 1 \in 1 .. Len(S[l]) + 1
    BY <2>2
  <2>7. \E k \in 1 .. Len(S[l]) + 1, o \in Nodes :
           /\ ~Holds(S, o)
           /\ [S EXCEPT ![l] = SeqEdits!InsertAt(S[l], q + 1, n)]
                 = [S EXCEPT ![l] = SeqEdits!InsertAt(S[l], k, o)]
    BY <2>1, <2>6
  <2>8. Moves(S, [S EXCEPT ![l] = SeqEdits!InsertAt(S[l], q + 1, n)])
    BY <2>7 DEF Moves
  <2> QED BY <2>5, <2>8
<1>2. ASSUME NEW l \in Lists, NEW n \in Nodes, In(n, l) \/ Free(n), lstDelete(l, n) PROVE Goal
  <2>1. CASE In(n, l)
    <3>1. PICK k \in 1 .. Len(S[l]) : S[l][k] = n
      BY <2>1, InList
    <3>2. Shape([S EXCEPT ![l] = SeqEdits!RemoveAt(S[l], k)], next', previous', list')
      BY <1>2, <3>1, DeleteShape
    <3> QED BY <3>2 DEF Moves
  <2>2. CASE Free(n)
    <3>1. ~Holds(S, n)
      BY <2>2, InList DEF Free, Holds
    <3>2. UNCHANGED listVars
      BY <1>2, <3>1, DeleteRefused
    <3> QED BY <3>2 DEF Moves, listVars
  <2> QED BY <1>2, <2>1, <2>2
<1>3. ASSUME NEW l \in Lists, lstGet(l) PROVE Goal
  <2>1. /\ 1 \in 1 .. Len(S[l])
        /\ Shape([S EXCEPT ![l] = SeqEdits!RemoveAt(S[l], 1)], next', previous', list')
    BY <1>3, GetShape
  <2> QED BY <2>1 DEF Moves
<1>4. ASSUME NEW d \in Lists, NEW a \in Lists, d # a, lstConcat(d, a) PROVE Goal
  <2>1. Shape([S EXCEPT ![d] = S[d] \o S[a], ![a] = <<>>], next', previous', list')
    BY <1>4, ConcatShape
  <2> QED BY <1>4, <2>1 DEF Moves
<1>5. ASSUME NEW d \in Lists, NEW a \in Lists, d # a, list[d].count = 0,
             NEW i \in 1 .. list[a].count, NEW j \in 1 .. list[a].count, i <= j,
             lstExtract(a, i, j, d)
      PROVE  Goal
  <2>1. /\ S[d] = <<>> /\ i \in 1 .. Len(S[a]) /\ j \in i .. Len(S[a])
        /\ Shape([S EXCEPT ![a] = Cut(S[a], i, j), ![d] = SubSeq(S[a], i, j)],
                 next', previous', list')
    BY <1>5, ExtractShape
  <2>2. \E f \in 1 .. Len(S[a]) : \E g \in f .. Len(S[a]) :
           [S EXCEPT ![a] = Cut(S[a], i, j), ![d] = SubSeq(S[a], i, j)]
              = [S EXCEPT ![a] = Cut(S[a], f, g), ![d] = SubSeq(S[a], f, g)]
    BY <2>1
  <2>3. Moves(S, [S EXCEPT ![a] = Cut(S[a], i, j), ![d] = SubSeq(S[a], i, j)])
    BY <1>5, <2>1, <2>2 DEF Moves
  <2> QED BY <2>1, <2>3
<1>6. ASSUME UNCHANGED listVars PROVE Goal
  BY <1>6 DEF Moves, listVars
<1> HIDE DEF Goal
<1>7. Goal
  <2>1. CASE \E l \in Lists, n \in Nodes :
                 /\ Free(n)
                 /\ \E p \in Nodes \cup {NULL} : (p = NULL \/ In(p, l)) /\ lstInsert(l, p, n)
    BY <1>1, <2>1
  <2>2. CASE \E l \in Lists, n \in Nodes : (In(n, l) \/ Free(n)) /\ lstDelete(l, n)
    BY <1>2, <2>2
  <2>3. CASE \E l \in Lists : lstGet(l)
    BY <1>3, <2>3
  <2>4. CASE \E d, a \in Lists : d # a /\ lstConcat(d, a)
    BY <1>4, <2>4
  <2>5. CASE \E d, a \in Lists :
                 /\ d # a /\ list[d].count = 0
                 /\ \E i, j \in 1 .. list[a].count : i <= j /\ lstExtract(a, i, j, d)
    BY <1>5, <2>5
  <2>6. CASE ListNext
    BY <2>1, <2>2, <2>3, <2>4, <2>5, <2>6 DEF ListNext
  <2>7. ListNext \/ UNCHANGED listVars
    BY DEF listVars
  <2> QED BY <1>6, <2>6, <2>7
<1> QED BY <1>7 DEF Goal

LEMMA MovesAreSteps ==
    ASSUME NEW S, NEW T, S \in [Lists -> Seq(Nodes)], Moves(S, T), Shown = S, Shown' = T
    PROVE  [Sequence!Next]_Shown
<1>1. ASSUME NEW n \in Nodes, ~Holds(S, n) PROVE n \in Sequence!Free
  BY <1>1 DEF Sequence!Free, Sequence!ToSet, Holds
<1>2. ASSUME NEW l \in Lists, NEW k \in 1 .. Len(S[l]) + 1, NEW n \in Nodes, ~Holds(S, n),
             T = [S EXCEPT ![l] = SeqEdits!InsertAt(S[l], k, n)]
      PROVE  Sequence!Next
  <2>1. Sequence!Insert(l, k, n)
    BY <1>1, <1>2 DEF Sequence!Insert, Sequence!InsertAt, SeqEdits!InsertAt
  <2> QED BY <2>1 DEF Sequence!Next
<1>3. ASSUME NEW l \in Lists, NEW k \in 1 .. Len(S[l]),
             T = [S EXCEPT ![l] = SeqEdits!RemoveAt(S[l], k)]
      PROVE  Sequence!Next
  <2>1. Sequence!Delete(l, k)
    BY <1>3 DEF Sequence!Delete, Sequence!RemoveAt, SeqEdits!RemoveAt
  <2> QED BY <2>1 DEF Sequence!Next
<1>4. ASSUME NEW d \in Lists, NEW a \in Lists, d # a,
             T = [S EXCEPT ![d] = S[d] \o S[a], ![a] = <<>>]
      PROVE  Sequence!Next
  <2>1. Sequence!Concat(d, a)
    BY <1>4 DEF Sequence!Concat
  <2> QED BY <1>4, <2>1 DEF Sequence!Next
<1>5. ASSUME NEW d \in Lists, NEW a \in Lists, d # a, S[d] = <<>>,
             NEW i \in 1 .. Len(S[a]), NEW j \in i .. Len(S[a]),
             T = [S EXCEPT ![a] = Cut(S[a], i, j), ![d] = SubSeq(S[a], i, j)]
      PROVE  Sequence!Next
  <2>1. Sequence!Extract(a, i, j, d)
    BY <1>5 DEF Sequence!Extract, Cut
  <2> QED BY <1>5, <2>1 DEF Sequence!Next
<1>6. CASE T = S
  BY <1>6
<1> QED BY <1>2, <1>3, <1>4, <1>5, <1>6 DEF Moves

\* The linked lists of app/src/lstLib.c are the sequences their header speaks of: what lstNth
\* shows of them, along "next" or along "previous", and what the count says change as sequences
\* do under lstInsert, lstDelete, lstGet, lstConcat and lstExtract.
THEOREM ListsAreSequences == ListSpec => SequenceSpec
<1>1. Shown = ShownBy(next, previous, list)
  BY DEF Shown, ShownBy, lstNth, Forward, Backward, Walk
<1>2. Shown' = ShownBy(next', previous', list')
  BY DEF Shown, ShownBy, lstNth, Forward, Backward, Walk
<1>3. ListInit => Shape([l \in Lists |-> <<>>], next, previous, list)
  <2> SUFFICES ASSUME ListInit PROVE Shape([l \in Lists |-> <<>>], next, previous, list)
    OBVIOUS
  <2> DEFINE S == [l \in Lists |-> <<>>]
  <2>1. S \in [Lists -> Seq(Nodes)] /\ \A l \in Lists : S[l] = <<>> /\ Len(S[l]) = 0
    OBVIOUS
  <2>2. ListOf(<<>>) = Empty
    BY DEF ListOf, At, Empty
  <2>3. list = [l \in Lists |-> ListOf(S[l])]
    BY <2>1, <2>2 DEF ListInit
  <2> HIDE DEF S
  <2>4. (\A l \in Lists : Chain(next, previous, S[l])) /\ Apart(S)
    BY <2>1 DEF Chain, Apart
  <2>5. Mutual(next, previous, S)
    BY NullAssumption DEF ListInit, Mutual
  <2>6. next \in [Nodes -> Nodes \cup {NULL}] /\ previous \in [Nodes -> Nodes \cup {NULL}]
    BY DEF ListInit
  <2>7. Shape(S, next, previous, list)
    BY <2>1, <2>3, <2>4, <2>5, <2>6 DEF Shape
  <2> QED BY <2>7 DEF S
<1>4. ListInit => ListInv
  BY <1>3 DEF ListInv
<1>5. ListInit => Sequence!Init
  <2> SUFFICES ASSUME ListInit PROVE Shown = [l \in Lists |-> <<>>]
    BY DEF Sequence!Init
  <2>1. ShownBy(next, previous, list) = [l \in Lists |-> <<>>]
    BY <1>3, ShownIs
  <2> QED BY <1>1, <2>1
<1>6. ListInv /\ [ListNext]_listVars => ListInv' /\ [Sequence!Next]_Shown
  <2> SUFFICES ASSUME ListInv, [ListNext]_listVars PROVE ListInv' /\ [Sequence!Next]_Shown
    OBVIOUS
  <2>1. PICK S : Shape(S, next, previous, list)
    BY DEF ListInv
  <2>2. PICK T : Shape(T, next', previous', list') /\ Moves(S, T)
    BY <2>1, ListStep
  <2>3. ListInv'
    BY <2>2 DEF ListInv
  <2>4. Shown = S /\ Shown' = T
    BY <1>1, <1>2, <2>1, <2>2, ShownIs
  <2>5. S \in [Lists -> Seq(Nodes)]
    BY <2>1 DEF Shape
  <2> QED BY <2>2, <2>3, <2>4, <2>5, MovesAreSteps
<1> QED BY <1>4, <1>5, <1>6, PTL DEF ListSpec, SequenceSpec, Sequence!Spec
===============================================================================
