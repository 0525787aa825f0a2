--------------------------- MODULE EtdbTrieProofs ----------------------------
(***************************************************************************)
(* Proofs that a trie stays well formed, for any keys and values.          *)
(*                                                                         *)
(* Tree says that the nodes in use are one tree: each node but the root is *)
(* on the list of the children of the node its check names, a leaf holds a *)
(* value, and a node of F waits for its first child. A move of children    *)
(* (etdb_trie_resolve) breaks it in the middle: Moving says what holds     *)
(* between two turns, when some children have their new place.             *)
(***************************************************************************)
EXTENDS EtdbTrieAllocProofs, SequenceTheorems

-----------------------------------------------------------------------------
(* Lists of labels                                                         *)

\* s is a list of n labels, each at most once.
Named(s, n) ==
    /\ n \in Nat /\ n >= 1 /\ s = [i \in 1..n |-> s[i]]
    /\ \A i \in 1..n : s[i] \in Label
    /\ \A i, j \in 1..n : s[i] = s[j] => i = j

\* Such a sequence is one of Lists: there are no more than B labels.
LEMMA ListMade ==
    ASSUME NEW s, NEW n, Named(s, n)
    PROVE  s \in Lists /\ Len(s) = n /\ s \in Seq(Label)
  <1> DEFINE D == 1..n
  <1>0. B \in Nat /\ B >= 1 /\ n \in Nat /\ n >= 1
    BY LabelAssumption DEF Named
  <1>1. s \in [D -> Label]
    BY DEF Named
  <1>2. \A i, j \in D : s[i] = s[j] => i = j
    BY DEF Named
  <1>3. IsFiniteSet(Label) /\ Cardinality(Label) = B
    <2>1. 0 \in Int /\ B - 1 \in Int
      BY <1>0
    <2>2. IsFiniteSet(0..(B - 1)) /\ Cardinality(0..(B - 1)) = IF 0 > B - 1 THEN 0 ELSE B - 1 - 0 + 1
      BY <2>1, FS_Interval
    <2> QED
      BY <2>2, <1>0 DEF Label
  <1>4. IsFiniteSet(D) /\ Cardinality(D) = n
    <2>1. 1 \in Int /\ n \in Int
      BY <1>0
    <2>2. IsFiniteSet(1..n) /\ Cardinality(1..n) = IF 1 > n THEN 0 ELSE n - 1 + 1
      BY <2>1, FS_Interval
    <2> QED
      BY <2>2, <1>0
  <1> HIDE DEF D
  <1>5. n <= B
    <2>1. SUFFICES ASSUME B < n PROVE FALSE
      BY <1>0
    <2>2. Cardinality(Label) < Cardinality(D)
      BY <2>1, <1>3, <1>4
    <2>3. PICK x, y \in D : x # y /\ s[x] = s[y]
      BY <2>2, <1>1, <1>3, <1>4, FS_PigeonHole
    <2> QED
      BY <2>3, <1>2
  <1>6. IsInjective(s)
    BY <1>1, <1>2 DEF IsInjective
  <1>7. s \in UNION {[1..k -> Label] : k \in 1..B}
    BY <1>0, <1>1, <1>5 DEF D
  <1>8. s \in Seq(Label)
    BY <1>0, <1>1, SeqDef DEF D
  <1>9. Len(s) = n
    BY <1>0, <1>1, <1>8, LenProperties DEF D
  <1> QED
    BY <1>6, <1>7, <1>8, <1>9 DEF Lists

\* And all of Lists are.
LEMMA ListNamed ==
    ASSUME NEW s, s \in Lists
    PROVE  Named(s, Len(s)) /\ s \in Seq(Label) /\ DOMAIN s = 1..Len(s)
  <1>1. PICK n \in 1..B : s \in [1..n -> Label]
    BY DEF Lists
  <1>2. IsInjective(s)
    BY DEF Lists
  <1>3. n \in Nat /\ n >= 1
    BY LabelAssumption
  <1>4. s = [i \in 1..n |-> s[i]] /\ \A i \in 1..n : s[i] \in Label
    BY <1>1
  <1>5. \A i, j \in 1..n : s[i] = s[j] => i = j
    BY <1>1, <1>2 DEF IsInjective
  <1>6. Named(s, n)
    BY <1>3, <1>4, <1>5 DEF Named
  <1>7. Len(s) = n /\ s \in Seq(Label)
    BY <1>6, ListMade
  <1> QED
    BY <1>6, <1>7, <1>1

\* The siblings lead through s, from c on.
Chain(t, base, c, s) ==
    /\ s \in Lists /\ s[1] = c
    /\ \A i \in 2..Len(s) : s[i] # 0
    /\ \A i \in 1..Len(s) :
         t.ninfo[To(base, s[i])].sibling = IF i = Len(s) THEN 0 ELSE s[i + 1]

\* What Children demands of a list
Siblings(t, base, c, s) ==
    /\ s[1] = c
    /\ \A i \in 2..Len(s) : s[i] # 0 /\ s[i] = t.ninfo[To(base, s[i - 1])].sibling
    /\ t.ninfo[To(base, s[Len(s)])].sibling = 0

\* Then s is the list of the children: there is one such list.
LEMMA ChildrenAre ==
    ASSUME NEW t, NEW base, NEW c, NEW s, Chain(t, base, c, s)
    PROVE  Children(t, base, c) = s
  <1> DEFINE next(l) == t.ninfo[To(base, l)].sibling
             n == Len(s)
  <1>1. s \in Lists /\ n \in Nat /\ n >= 1 /\ s = [i \in 1..n |-> s[i]] /\ s[1] = c
    BY ListNamed DEF Chain, Named
  <1>2. \A i \in 2..n : s[i] # 0
    BY DEF Chain
  <1>3. \A i \in 1..n : next(s[i]) = IF i = n THEN 0 ELSE s[i + 1]
    BY DEF Chain
  <1> HIDE DEF next, n
  <1>4. \A i \in 1..n : i # n => next(s[i]) = s[i + 1] /\ s[i + 1] # 0
    BY <1>1, <1>2, <1>3
  <1>5. next(s[n]) = 0
    BY <1>1, <1>3
  <1>6. Siblings(t, base, c, s)
    <2>1. \A i \in 2..n : s[i] # 0 /\ s[i] = next(s[i - 1])
      <3> TAKE i \in 2..n
      <3>1. i - 1 \in 1..n /\ i - 1 # n /\ (i - 1) + 1 = i
        BY <1>1
      <3>2. next(s[i - 1]) = s[(i - 1) + 1]
        BY <3>1, <1>4
      <3> QED
        BY <3>1, <3>2, <1>2
    <2> QED
      BY <2>1, <1>1, <1>5 DEF Siblings, next, n
  <1>7. ASSUME NEW x \in Lists, Siblings(t, base, c, x)
        PROVE  x = s
    <2> DEFINE m == Len(x)
    <2>1. m \in Nat /\ m >= 1 /\ x = [i \in 1..m |-> x[i]] /\ x[1] = c
      BY <1>7, ListNamed DEF Siblings, Named
    <2>2. \A i \in 2..m : x[i] # 0 /\ x[i] = next(x[i - 1])
      BY <1>7 DEF Siblings, next
    <2>3. next(x[m]) = 0
      BY <1>7 DEF Siblings, next
    <2> HIDE DEF m
    <2>4. \A i \in 1..m : i # m => next(x[i]) = x[i + 1] /\ x[i + 1] # 0
      <3> TAKE i \in 1..m
      <3> SUFFICES ASSUME i # m PROVE next(x[i]) = x[i + 1] /\ x[i + 1] # 0
        OBVIOUS
      <3>1. i + 1 \in 2..m /\ (i + 1) - 1 = i
        BY <2>1
      <3>2. x[i + 1] # 0 /\ x[i + 1] = next(x[(i + 1) - 1])
        BY <3>1, <2>2
      <3> QED
        BY <3>1, <3>2
    <2> DEFINE S == {k \in Nat : k + 1 \in 1..m /\ k + 1 \in 1..n => x[k + 1] = s[k + 1]}
    <2>5. 0 \in S
      <3>1. 0 + 1 = 1
        OBVIOUS
      <3>2. x[0 + 1] = s[0 + 1]
        BY <3>1, <2>1, <1>1
      <3> QED
        BY <3>2
    <2>6. ASSUME NEW k \in Nat, k \in S PROVE k + 1 \in S
      <3>1. SUFFICES ASSUME (k + 1) + 1 \in 1..m, (k + 1) + 1 \in 1..n
                     PROVE  x[(k + 1) + 1] = s[(k + 1) + 1]
        OBVIOUS
      <3>2. k + 1 \in 1..m /\ k + 1 # m /\ k + 1 \in 1..n /\ k + 1 # n
        BY <3>1, <2>1, <1>1
      <3>3. x[k + 1] = s[k + 1]
        BY <3>2, <2>6
      <3>4. next(x[k + 1]) = x[(k + 1) + 1]
        BY <3>2, <2>4
      <3>5. next(s[k + 1]) = s[(k + 1) + 1]
        BY <3>2, <1>4
      <3> QED
        BY <3>3, <3>4, <3>5
    <2>7. Nat \subseteq S
      <3> HIDE DEF S
      <3> QED
        BY <2>5, <2>6, Induction
    <2>8. \A i \in 1..m : i \in 1..n => x[i] = s[i]
      <3> TAKE i \in 1..m
      <3>1. i - 1 \in Nat /\ (i - 1) + 1 = i
        BY <2>1
      <3>2. (i - 1) + 1 \in 1..n => x[(i - 1) + 1] = s[(i - 1) + 1]
        BY <3>1, <2>7
      <3> QED
        BY <3>1, <3>2
    <2>9. ~ (m < n)
      <3> SUFFICES ASSUME m < n PROVE FALSE
        OBVIOUS
      <3>1. m \in 1..n /\ m \in 1..m /\ m # n
        BY <2>1, <1>1
      <3>2. x[m] = s[m]
        BY <3>1, <2>8
      <3>3. next(s[m]) # 0
        BY <3>1, <1>4
      <3> QED
        BY <3>2, <3>3, <2>3
    <2>10. ~ (n < m)
      <3> SUFFICES ASSUME n < m PROVE FALSE
        OBVIOUS
      <3>1. n \in 1..m /\ n \in 1..n /\ n # m
        BY <2>1, <1>1
      <3>2. x[n] = s[n]
        BY <3>1, <2>8
      <3>3. next(x[n]) # 0
        BY <3>1, <2>4
      <3> QED
        BY <3>2, <3>3, <1>5
    <2>11. m = n
      BY <2>9, <2>10, <2>1, <1>1
    <2>12. \A i \in 1..n : x[i] = s[i]
      BY <2>8, <2>11
    <2> QED
      BY <2>11, <2>12, <2>1, <1>1
  <1>8. Children(t, base, c) = CHOOSE x \in Lists : Siblings(t, base, c, x)
    BY DEF Children, Siblings
  <1>9. \A x \in Lists : Siblings(t, base, c, x) => x = s
    BY <1>7
  <1> QED
    BY <1>1, <1>6, <1>8, <1>9

\* The labels of a list
Members(s) == {s[i] : i \in 1..Len(s)}

\* A list with l at place j, and without what is at place j
Ins(s, j, l) ==
    [i \in 1..(Len(s) + 1) |-> IF i < j THEN s[i] ELSE IF i = j THEN l ELSE s[i - 1]]
Del(s, j) == [i \in 1..(Len(s) - 1) |-> IF i < j THEN s[i] ELSE s[i + 1]]

\* u is s with l at place j.
Inserted(s, j, l, u) ==
    /\ u \in Lists /\ Len(u) = Len(s) + 1 /\ u \in Seq(Label)
    /\ \A i \in 1..Len(u) : u[i] = IF i < j THEN s[i] ELSE IF i = j THEN l ELSE s[i - 1]

\* A label that is not on the list can be put at any place.
LEMMA InsOk ==
    ASSUME NEW s, s \in Lists, NEW j, j \in 1..(Len(s) + 1), NEW l, l \in Label,
           \A i \in 1..Len(s) : s[i] # l
    PROVE  Inserted(s, j, l, Ins(s, j, l))
  <1> DEFINE n == Len(s)
             u == Ins(s, j, l)
  <1>1. n \in Nat /\ n >= 1 /\ \A i \in 1..n : s[i] \in Label
    BY ListNamed DEF Named
  <1>2. \A i, k \in 1..n : s[i] = s[k] => i = k
    BY ListNamed DEF Named
  <1>3. \A i \in 1..(n + 1) : u[i] = IF i < j THEN s[i] ELSE IF i = j THEN l ELSE s[i - 1]
    BY DEF Ins
  <1>4. u = [i \in 1..(n + 1) |-> u[i]]
    BY DEF Ins
  <1>5. j \in 1..(n + 1) /\ \A i \in 1..n : s[i] # l
    OBVIOUS
  <1> HIDE DEF n, u
  <1>6. \A i \in 1..(n + 1) : u[i] \in Label
    BY <1>1, <1>3, <1>5
  <1>7. ASSUME NEW i \in 1..(n + 1), NEW k \in 1..(n + 1), u[i] = u[k] PROVE i = k
    <2>1. \A a \in 1..(n + 1) : /\ a < j => a \in 1..n /\ u[a] = s[a]
                                /\ a = j => u[a] = l
                                /\ a > j => a - 1 \in 1..n /\ u[a] = s[a - 1]
      BY <1>1, <1>3, <1>5
    <2>2. CASE i < j
      <3>1. u[i] = s[i] /\ i \in 1..n
        BY <2>1, <2>2
      <3>2. k < j \/ k = j \/ k > j
        BY <1>5
      <3>3. k > j => u[k] = s[k - 1] /\ k - 1 \in 1..n
        BY <2>1
      <3>4. k < j => u[k] = s[k] /\ k \in 1..n
        BY <2>1
      <3>5. k > j => i = k - 1
        BY <3>1, <3>3, <1>2, <1>7
      <3>6. ~ (k > j)
        BY <3>5, <2>2, <1>5, <1>1
      <3>7. k # j
        BY <3>1, <2>1, <1>5, <1>7
      <3>8. k < j
        BY <3>2, <3>6, <3>7
      <3> QED
        BY <3>8, <3>1, <3>4, <1>2, <1>7
    <2>3. CASE i = j
      <3>1. u[i] = l
        BY <2>1, <2>3
      <3>2. k < j => u[k] = s[k] /\ k \in 1..n
        BY <2>1
      <3>3. k > j => u[k] = s[k - 1] /\ k - 1 \in 1..n
        BY <2>1
      <3>4. ~ (k < j) /\ ~ (k > j)
        BY <3>1, <3>2, <3>3, <1>5, <1>7
      <3> QED
        BY <3>4, <2>3, <1>1, <1>5
    <2>4. CASE i > j
      <3>1. u[i] = s[i - 1] /\ i - 1 \in 1..n
        BY <2>1, <2>4
      <3>2. k < j => u[k] = s[k] /\ k \in 1..n
        BY <2>1
      <3>3. k > j => u[k] = s[k - 1] /\ k - 1 \in 1..n
        BY <2>1
      <3>4. k < j => i - 1 = k
        BY <3>1, <3>2, <1>2, <1>7
      <3>5. ~ (k < j)
        BY <3>4, <2>4, <1>5, <1>1
      <3>6. k # j
        BY <3>1, <2>1, <1>5, <1>7
      <3>7. k > j
        BY <3>5, <3>6, <1>1, <1>5
      <3>8. i - 1 = k - 1
        BY <3>7, <3>1, <3>3, <1>2, <1>7
      <3> QED
        BY <3>8, <1>1
    <2> QED
      BY <2>2, <2>3, <2>4, <1>1, <1>5
  <1>8. Named(u, n + 1)
    BY <1>1, <1>4, <1>6, <1>7 DEF Named
  <1>9. u \in Lists /\ Len(u) = n + 1 /\ u \in Seq(Label)
    BY <1>8, ListMade
  <1>10. \A i \in 1..Len(u) : u[i] = IF i < j THEN s[i] ELSE IF i = j THEN l ELSE s[i - 1]
    BY <1>3, <1>9
  <1>11. Inserted(s, j, l, u)
    BY <1>9, <1>10 DEF Inserted, n
  <1> QED
    BY <1>11 DEF u

\* u is s without what was at place j.
Deleted(s, j, u) ==
    /\ u \in Lists /\ Len(u) = Len(s) - 1 /\ u \in Seq(Label)
    /\ \A i \in 1..Len(u) : u[i] = IF i < j THEN s[i] ELSE s[i + 1]

\* One of several labels can be taken off a list.
LEMMA DelOk ==
    ASSUME NEW s, s \in Lists, NEW j, j \in 1..Len(s), Len(s) > 1
    PROVE  Deleted(s, j, Del(s, j))
  <1> DEFINE n == Len(s)
             u == Del(s, j)
  <1>1. n \in Nat /\ n > 1 /\ \A i \in 1..n : s[i] \in Label
    BY ListNamed DEF Named
  <1>2. \A i, k \in 1..n : s[i] = s[k] => i = k
    BY ListNamed DEF Named
  <1>3. \A i \in 1..(n - 1) : u[i] = IF i < j THEN s[i] ELSE s[i + 1]
    BY DEF Del
  <1>4. u = [i \in 1..(n - 1) |-> u[i]]
    BY DEF Del
  <1>5. j \in 1..n
    OBVIOUS
  <1> HIDE DEF n, u
  <1>6. \A i \in 1..(n - 1) : i \in 1..n /\ i + 1 \in 1..n
    BY <1>1
  <1>7. \A i \in 1..(n - 1) : u[i] \in Label
    BY <1>1, <1>3, <1>6
  <1>8. ASSUME NEW i \in 1..(n - 1), NEW k \in 1..(n - 1), u[i] = u[k] PROVE i = k
    <2>1. i < j /\ k < j => i = k
      BY <1>3, <1>6, <1>2, <1>8
    <2>2. ~ (i < j) /\ ~ (k < j) => i + 1 = k + 1
      BY <1>3, <1>6, <1>2, <1>8
    <2>3. i < j /\ ~ (k < j) => i = k + 1
      BY <1>3, <1>6, <1>2, <1>8
    <2>4. ~ (i < j) /\ k < j => i + 1 = k
      BY <1>3, <1>6, <1>2, <1>8
    <2> QED
      BY <2>1, <2>2, <2>3, <2>4, <1>1, <1>5
  <1>9. Named(u, n - 1)
    BY <1>1, <1>4, <1>7, <1>8 DEF Named
  <1>10. u \in Lists /\ Len(u) = n - 1 /\ u \in Seq(Label)
    BY <1>9, ListMade
  <1>11. \A i \in 1..Len(u) : u[i] = IF i < j THEN s[i] ELSE s[i + 1]
    BY <1>3, <1>10
  <1>12. Deleted(s, j, u)
    BY <1>10, <1>11 DEF Deleted, n
  <1> QED
    BY <1>12 DEF u

-----------------------------------------------------------------------------
(* The tree of the nodes in use                                            *)

InUse(t) == (0..(t.size - 1)) \ Free(t)

\* The labels that begin a key
FirstLabels == {Labels(k)[1] : k \in Keys}

\* The children of node n among the nodes U
KidsIn(U, t, n) == {i \in U \ {0} : t.node[i].check = n}

\* The list s leads to the children of node n; the child under label 0, at the
\* base, and no other is one of the value nodes V.  The root has no such child.
Kin(U, t, V, n, s) ==
    LET base == t.node[n].base
    IN  /\ base \in 0..(t.size - 1) /\ (base \div B = 0 <=> n = 0)
        /\ n = 0 => base = 0 /\ s[1] = 0
        /\ Chain(t, base, t.ninfo[n].child, s)
        /\ \A l \in Members(s) : To(base, l) \in KidsIn(U, t, n) \/ (n = 0 /\ l = 0)
        /\ \A x \in KidsIn(U, t, n) : \E l \in Members(s) : x = To(base, l)
        /\ \A x \in KidsIn(U, t, n) : x \in V <=> x = base

\* The nodes U, with value nodes V and other leaves F: every node but the root
\* has a parent that is no leaf, and block 0 is for the children of the root.
Nodes(U, t, V, F) ==
    /\ 0 \in U /\ U \subseteq 0..(t.size - 1)
    /\ V \subseteq U \ {0} /\ F \subseteq U \ {0} /\ V \cap F = {}
    /\ \A i \in U \ {0} : t.node[i].check \in U \ (V \cup F) /\ t.node[i].check # i
    /\ \A i \in U \ {0} : i \div B = 0 => t.node[i].check = 0 /\ i \in FirstLabels

\* They are a tree; the children of p need not be on its list.
Tree(U, t, V, F, p) ==
    /\ Nodes(U, t, V, F)
    /\ \A n \in U \ (V \cup F) : n # p => \E s : Kin(U, t, V, n, s)

\* The children of node n in t are those of node m in w, on the same list.
SameKin(U, t, V, n, U1, w, V1, m) ==
    /\ w.node[m].base = t.node[n].base /\ w.ninfo[m].child = t.ninfo[n].child
    /\ m = 0 <=> n = 0
    /\ KidsIn(U1, w, m) = KidsIn(U, t, n)
    /\ \A x \in KidsIn(U, t, n) :
         (x \in V1 <=> x \in V) /\ w.ninfo[x].sibling = t.ninfo[x].sibling
    /\ n = 0 => w.ninfo[0].sibling = t.ninfo[0].sibling
    /\ t.size \in Nat /\ w.size \in Nat /\ t.size <= w.size

\* So the list leads to them in w too.
LEMMA KinSame ==
    ASSUME NEW U, NEW t, NEW V, NEW n, NEW U1, NEW w, NEW V1, NEW m,
           SameKin(U, t, V, n, U1, w, V1, m), NEW s, Kin(U, t, V, n, s)
    PROVE  Kin(U1, w, V1, m, s)
  <1> DEFINE base == t.node[n].base
             K == KidsIn(U, t, n)
             c == t.ninfo[n].child
  <1>1. w.node[m].base = base /\ w.ninfo[m].child = c /\ (m = 0 <=> n = 0) /\ KidsIn(U1, w, m) = K
    BY DEF SameKin
  <1>2. \A x \in K : (x \in V1 <=> x \in V) /\ w.ninfo[x].sibling = t.ninfo[x].sibling
    BY DEF SameKin
  <1>3. n = 0 => w.ninfo[0].sibling = t.ninfo[0].sibling
    BY DEF SameKin
  <1>4. base \in 0..(t.size - 1) /\ (base \div B = 0 <=> n = 0)
    BY DEF Kin
  <1>5. n = 0 => base = 0 /\ s[1] = 0
    BY DEF Kin
  <1>6. Chain(t, base, c, s)
    BY DEF Kin
  <1>7. \A l \in Members(s) : To(base, l) \in K \/ (n = 0 /\ l = 0)
    BY DEF Kin
  <1>8. \A x \in K : \E l \in Members(s) : x = To(base, l)
    BY DEF Kin
  <1>9. \A x \in K : x \in V <=> x = base
    BY DEF Kin
  <1>10. base \in 0..(w.size - 1)
    <2>1. t.size \in Nat /\ w.size \in Nat /\ t.size <= w.size
      BY DEF SameKin
    <2> HIDE DEF base
    <2> QED
      BY <2>1, <1>4
  <1> HIDE DEF base, K, c
  <1>11. ASSUME NEW i \in 1..Len(s)
         PROVE  w.ninfo[To(base, s[i])].sibling = t.ninfo[To(base, s[i])].sibling
    <2>1. CASE To(base, s[i]) \in K
      BY <2>1, <1>2
    <2>2. CASE n = 0 /\ s[i] = 0
      <3>1. base = 0 /\ s[i] = 0
        BY <2>2, <1>5
      <3>2. 0 \in Nat /\ 0 \in Label
        BY LabelAssumption DEF Label
      <3>3. To(0, 0) = 0
        BY <3>2, ToFacts
      <3>4. To(base, s[i]) = 0
        BY <3>1, <3>3
      <3> QED
        BY <3>4, <2>2, <1>3
    <2>3. s[i] \in Members(s)
      BY DEF Members
    <2> QED
      BY <2>1, <2>2, <2>3, <1>7
  <1>12. Chain(w, base, c, s)
    <2>1. s \in Lists /\ s[1] = c /\ \A i \in 2..Len(s) : s[i] # 0
      BY <1>6 DEF Chain
    <2>2. ASSUME NEW i \in 1..Len(s)
          PROVE  w.ninfo[To(base, s[i])].sibling = IF i = Len(s) THEN 0 ELSE s[i + 1]
      <3>1. t.ninfo[To(base, s[i])].sibling = IF i = Len(s) THEN 0 ELSE s[i + 1]
        BY <1>6 DEF Chain
      <3> QED
        BY <3>1, <1>11
    <2> QED
      BY <2>1, <2>2 DEF Chain
  <1>13. \A x \in K : x \in V1 <=> x = base
    BY <1>2, <1>9
  <1>14. base \div B = 0 <=> m = 0
    BY <1>4, <1>1 DEF base
  <1>15. m = 0 => base = 0 /\ s[1] = 0
    BY <1>5, <1>1
  <1>16. \A l \in Members(s) : To(base, l) \in K \/ (m = 0 /\ l = 0)
    BY <1>7, <1>1
  <1> QED
    BY <1>1, <1>8, <1>10, <1>12, <1>13, <1>14, <1>15, <1>16 DEF Kin

\* A node of the tree that keeps its children, or another one's, keeps its list.
LEMMA TreeStep ==
    ASSUME NEW U, NEW t, NEW V, NEW F, NEW p, Tree(U, t, V, F, p),
           NEW U1, NEW w, NEW V1, NEW F1, NEW p1, Nodes(U1, w, V1, F1),
           \A n \in U1 \ (V1 \cup F1) : n # p1 =>
             \/ \E s : Kin(U1, w, V1, n, s)
             \/ \E m \in U \ (V \cup F) : m # p /\ SameKin(U, t, V, m, U1, w, V1, n)
    PROVE  Tree(U1, w, V1, F1, p1)
  <1>1. ASSUME NEW n \in U1 \ (V1 \cup F1), n # p1
        PROVE  \E s : Kin(U1, w, V1, n, s)
    <2>1. CASE \E m \in U \ (V \cup F) : m # p /\ SameKin(U, t, V, m, U1, w, V1, n)
      <3>1. PICK m \in U \ (V \cup F) : m # p /\ SameKin(U, t, V, m, U1, w, V1, n)
        BY <2>1
      <3>2. PICK s : Kin(U, t, V, m, s)
        BY <3>1 DEF Tree
      <3>3. Kin(U1, w, V1, n, s)
        BY <3>1, <3>2, KinSame
      <3> QED
        BY <3>3
    <2> QED
      BY <2>1, <1>1
  <1> QED
    BY <1>1 DEF Tree

-----------------------------------------------------------------------------
(* Writes to nodes in use *)

\* The nodes of a trie have their types.
LEMMA NodeTypes ==
    ASSUME NEW t, Shape(t)
    PROVE  /\ t.size \in Nat /\ t.capacity \in Nat /\ t.size <= t.capacity /\ B <= t.size /\ B \in Nat
           /\ 0 \in InUse(t) /\ InUse(t) \subseteq 0..(t.size - 1) /\ 0..(t.size - 1) \subseteq 0..(t.capacity - 1)
           /\ t.node = [i \in 0..(t.capacity - 1) |-> t.node[i]]
           /\ t.ninfo = [i \in 0..(t.capacity - 1) |-> t.ninfo[i]]
           /\ \A i \in 0..(t.capacity - 1) :
                /\ t.node[i] \in NodeType /\ t.node[i].base \in Int /\ t.node[i].check \in Int
                /\ t.ninfo[i] \in NinfoType /\ t.ninfo[i].sibling \in Label /\ t.ninfo[i].child \in Label
           /\ \A i \in 1..(t.size - 1) : i \in InUse(t) <=> t.node[i].check >= 0
           /\ \A i \in 0..(t.capacity - 1) : i \in InUse(t) <=> ~ Spare(t, i)
  <1> DEFINE D == 0..(t.capacity - 1)
  <1>1. t.size \in Nat /\ t.capacity \in Nat /\ t.size <= t.capacity /\ B <= t.size /\ B \in Nat /\ B >= 3
    BY Sizes
  <1>2. t.node \in [D -> NodeType] /\ t.ninfo \in [D -> NinfoType]
    BY DEF Shape
  <1>3. \A i \in D : t.node[i] \in NodeType /\ t.ninfo[i] \in NinfoType
    BY <1>2
  <1>4. t.node = [i \in D |-> t.node[i]] /\ t.ninfo = [i \in D |-> t.ninfo[i]]
    BY <1>2
  <1>5. \A i \in D : /\ t.node[i].base \in Int /\ t.node[i].check \in Int
                     /\ t.ninfo[i].sibling \in Label /\ t.ninfo[i].child \in Label
    BY <1>3 DEF NodeType, NinfoType
  <1>6. \A i \in D : i \in 0..(t.size - 1) <=> i < t.size
    BY <1>1
  <1>7. 0..(t.size - 1) \subseteq D /\ 0 \in 0..(t.size - 1)
    BY <1>1
  <1>8. \A i \in 1..(t.size - 1) : i \in D /\ i # 0 /\ i \in 0..(t.size - 1)
    BY <1>1
  <1>9. \A i \in 0..(t.size - 1) : i \in InUse(t) <=> ~ (i # 0 /\ t.node[i].check < 0)
    BY DEF InUse, Free
  <1>10. InUse(t) \subseteq 0..(t.size - 1) /\ 0 \in InUse(t)
    BY <1>7, <1>9 DEF InUse
  <1>11. \A i \in 1..(t.size - 1) : i \in InUse(t) <=> t.node[i].check >= 0
    BY <1>8, <1>9, <1>5
  <1>12. \A i \in D : i \in InUse(t) <=> ~ Spare(t, i)
    <2> TAKE i \in D
    <2>1. Spare(t, i) <=> ~ (i < t.size) \/ (i # 0 /\ t.node[i].check < 0)
      BY <1>1 DEF Spare
    <2> QED
      BY <2>1, <1>6, <1>9, <1>10
  <1> QED
    BY <1>1, <1>3, <1>4, <1>5, <1>7, <1>10, <1>11, <1>12

\* The trie with other nodes f and labels g
Rewritten(t, f, g) == [t EXCEPT !.node = f, !.ninfo = g]

\* f and g differ from the nodes and labels of t at nodes in use.
Writable(t, f, g) ==
    /\ f \in [0..(t.capacity - 1) -> NodeType] /\ g \in [0..(t.capacity - 1) -> NinfoType]
    /\ \A i \in 0..(t.capacity - 1) : i \notin InUse(t) => f[i] = t.node[i] /\ g[i] = t.ninfo[i]
    /\ \A i \in InUse(t) : i # 0 => f[i].check >= 0

\* From t to w the free nodes did not change.
Wrote(t, w) == Alloc(w) /\ InUse(w) = InUse(t) /\ Free(w) = Free(t) /\ w.size = t.size /\ w.capacity = t.capacity

\* w is t with the nodes f and the labels g.
IsRewritten(t, f, g, w) == w = Rewritten(t, f, g)
RewroteAs(t, f, g, w) == Wrote(t, w) /\ w.node = f /\ w.ninfo = g

\* Nor do they when only nodes in use are written.
LEMMA RewrittenOk ==
    ASSUME NEW t, Alloc(t), NEW f, NEW g, Writable(t, f, g), NEW w, IsRewritten(t, f, g, w)
    PROVE  RewroteAs(t, f, g, w)
  <1> DEFINE D == 0..(t.capacity - 1)
  <1>0. /\ f \in [D -> NodeType] /\ g \in [D -> NinfoType]
        /\ \A i \in D : i \notin InUse(t) => f[i] = t.node[i] /\ g[i] = t.ninfo[i]
        /\ \A i \in InUse(t) : i # 0 => f[i].check >= 0
    BY DEF Writable
  <1>1. Shape(t)
    BY DEF Alloc
  <1>2. /\ w.node = f /\ w.ninfo = g /\ w.block = t.block /\ w.head = t.head /\ w.reject = t.reject
        /\ w.size = t.size /\ w.capacity = t.capacity
    BY <1>1 DEF IsRewritten, Rewritten, Shape
  <1>3. NB(w) = NB(t) /\ CB(w) = CB(t)
    BY <1>2 DEF NB, CB
  <1>4. w = [node |-> f, ninfo |-> g, block |-> t.block, head |-> t.head, capacity |-> t.capacity,
             size |-> t.size, reject |-> t.reject]
    BY <1>1 DEF IsRewritten, Rewritten, Shape
  <1>5. Shape(w)
    <2>1. /\ t.block \in [0..(CB(t) - 1) -> BlockType] /\ t.head \in [ListNames -> Nat]
          /\ t.capacity \in Nat /\ t.size \in Nat /\ t.reject \in [0..B -> Int]
      BY <1>1 DEF Shape
    <2>2. w \in [node : [0..(w.capacity - 1) -> NodeType], ninfo : [0..(w.capacity - 1) -> NinfoType],
                 block : [0..(CB(w) - 1) -> BlockType], head : [ListNames -> Nat],
                 capacity : Nat, size : Nat, reject : [0..B -> Int]]
      BY <2>1, <1>0, <1>2, <1>3, <1>4
    <2>3. /\ t.size = B * NB(t) /\ t.capacity = B * CB(t)
          /\ NB(t) \in Nat /\ CB(t) \in Nat /\ 1 <= NB(t) /\ NB(t) <= CB(t)
      BY <1>1 DEF Shape
    <2> QED
      BY <2>2, <2>3, <1>2, <1>3 DEF Shape
  <1>6. \A i \in D : i \in InUse(t) <=> ~ Spare(t, i)
    BY <1>1, NodeTypes
  <1>7. Written(t, w)
    <2>1. \A i \in D : Spare(t, i) => w.node[i] = t.node[i] /\ w.ninfo[i] = t.ninfo[i]
      BY <1>0, <1>2, <1>6
    <2>2. \A i \in D : i # 0 /\ ~ Spare(t, i) => w.node[i].check >= 0
      BY <1>0, <1>2, <1>6
    <2> QED
      BY <2>1, <2>2, <1>2, <1>5 DEF Written
  <1>8. Alloc(w) /\ Free(w) = Free(t)
    BY <1>7, WrittenOk
  <1>9. InUse(w) = InUse(t)
    BY <1>8, <1>2 DEF InUse
  <1> QED
    BY <1>2, <1>8, <1>9 DEF Wrote, RewroteAs

\* From t to w the sibling, the child, the base or all of node i was set.
SiblingSet(t, w, i, l) ==
    /\ Wrote(t, w) /\ w.node = t.node
    /\ \A j \in 0..(t.size - 1) :
         /\ w.ninfo[j].child = t.ninfo[j].child
         /\ w.ninfo[j].sibling = IF j = i THEN l ELSE t.ninfo[j].sibling
ChildSet(t, w, i, l) ==
    /\ Wrote(t, w) /\ w.node = t.node
    /\ \A j \in 0..(t.size - 1) :
         /\ w.ninfo[j].sibling = t.ninfo[j].sibling
         /\ w.ninfo[j].child = IF j = i THEN l ELSE t.ninfo[j].child
BaseSet(t, w, i, b) ==
    /\ Wrote(t, w) /\ w.ninfo = t.ninfo
    /\ \A j \in 0..(t.size - 1) :
         /\ w.node[j].check = t.node[j].check
         /\ w.node[j].base = IF j = i THEN b ELSE t.node[j].base
NodeIs(t, w, i, r) ==
    /\ Wrote(t, w) /\ w.ninfo = t.ninfo
    /\ \A j \in 0..(t.size - 1) : w.node[j] = IF j = i THEN r ELSE t.node[j]

\* A sibling is set.
LEMMA SetSibling ==
    ASSUME NEW t, Alloc(t), NEW i, i \in InUse(t), NEW l, l \in Label,
           NEW w, w = [t EXCEPT !.ninfo[i].sibling = l]
    PROVE  SiblingSet(t, w, i, l)
  <1> DEFINE D == 0..(t.capacity - 1)
             r == [t.ninfo[i] EXCEPT !.sibling = l]
             g == WithAt(t.ninfo, i, r)
  <1>1. Shape(t)
    BY DEF Alloc
  <1>2. /\ t.node \in [D -> NodeType] /\ t.ninfo \in [D -> NinfoType]
        /\ \A j \in InUse(t) : j # 0 => t.node[j].check >= 0
        /\ InUse(t) \subseteq D /\ 0..(t.size - 1) \subseteq D
    <2>1. /\ InUse(t) \subseteq 0..(t.size - 1) /\ 0..(t.size - 1) \subseteq D /\ t.size \in Nat
          /\ \A j \in 1..(t.size - 1) : j \in InUse(t) <=> t.node[j].check >= 0
      BY <1>1, NodeTypes
    <2>2. \A j \in InUse(t) : j # 0 => j \in 1..(t.size - 1)
      BY <2>1
    <2> QED
      BY <2>1, <2>2, <1>1 DEF Shape
  <1>3. i \in D /\ t.ninfo[i] \in NinfoType
    BY <1>2
  <1>4. r \in NinfoType /\ r.sibling = l /\ r.child = t.ninfo[i].child
    BY <1>3 DEF NinfoType
  <1> HIDE DEF r
  <1>5. Differs(D, NinfoType, t.ninfo, i, r, g)
    BY <1>2, <1>3, <1>4, SetOne
  <1>6. IsRewritten(t, t.node, g, w)
    BY <1>1 DEF IsRewritten, Rewritten, WithAt, r, Shape
  <1> HIDE DEF g
  <1>7. g \in [D -> NinfoType] /\ g[i] = r /\ \A j \in D : j # i => g[j] = t.ninfo[j]
    BY <1>5 DEF Differs
  <1>8. \A j \in D : j \notin InUse(t) => t.node[j] = t.node[j] /\ g[j] = t.ninfo[j]
    BY <1>7
  <1>9. Wrote(t, w) /\ w.node = t.node /\ w.ninfo = g
    <2>1. Writable(t, t.node, g)
      BY <1>2, <1>7, <1>8 DEF Writable
    <2>2. RewroteAs(t, t.node, g, w)
      BY <2>1, <1>6, RewrittenOk
    <2> QED
      BY <2>2 DEF RewroteAs
  <1>10. \A j \in 0..(t.size - 1) :
           /\ g[j].child = t.ninfo[j].child
           /\ g[j].sibling = IF j = i THEN l ELSE t.ninfo[j].sibling
    BY <1>2, <1>4, <1>7
  <1> QED
    BY <1>9, <1>10 DEF SiblingSet

\* A first child is set.
LEMMA SetFirst ==
    ASSUME NEW t, Alloc(t), NEW i, i \in InUse(t), NEW l, l \in Label,
           NEW w, w = [t EXCEPT !.ninfo[i].child = l]
    PROVE  ChildSet(t, w, i, l)
  <1> DEFINE D == 0..(t.capacity - 1)
             r == [t.ninfo[i] EXCEPT !.child = l]
             g == WithAt(t.ninfo, i, r)
  <1>1. Shape(t)
    BY DEF Alloc
  <1>2. /\ t.node \in [D -> NodeType] /\ t.ninfo \in [D -> NinfoType]
        /\ \A j \in InUse(t) : j # 0 => t.node[j].check >= 0
        /\ InUse(t) \subseteq D /\ 0..(t.size - 1) \subseteq D
    <2>1. /\ InUse(t) \subseteq 0..(t.size - 1) /\ 0..(t.size - 1) \subseteq D /\ t.size \in Nat
          /\ \A j \in 1..(t.size - 1) : j \in InUse(t) <=> t.node[j].check >= 0
      BY <1>1, NodeTypes
    <2>2. \A j \in InUse(t) : j # 0 => j \in 1..(t.size - 1)
      BY <2>1
    <2> QED
      BY <2>1, <2>2, <1>1 DEF Shape
  <1>3. i \in D /\ t.ninfo[i] \in NinfoType
    BY <1>2
  <1>4. r \in NinfoType /\ r.child = l /\ r.sibling = t.ninfo[i].sibling
    BY <1>3 DEF NinfoType
  <1> HIDE DEF r
  <1>5. Differs(D, NinfoType, t.ninfo, i, r, g)
    BY <1>2, <1>3, <1>4, SetOne
  <1>6. IsRewritten(t, t.node, g, w)
    BY <1>1 DEF IsRewritten, Rewritten, WithAt, r, Shape
  <1> HIDE DEF g
  <1>7. g \in [D -> NinfoType] /\ g[i] = r /\ \A j \in D : j # i => g[j] = t.ninfo[j]
    BY <1>5 DEF Differs
  <1>8. \A j \in D : j \notin InUse(t) => t.node[j] = t.node[j] /\ g[j] = t.ninfo[j]
    BY <1>7
  <1>9. Wrote(t, w) /\ w.node = t.node /\ w.ninfo = g
    <2>1. Writable(t, t.node, g)
      BY <1>2, <1>7, <1>8 DEF Writable
    <2>2. RewroteAs(t, t.node, g, w)
      BY <2>1, <1>6, RewrittenOk
    <2> QED
      BY <2>2 DEF RewroteAs
  <1>10. \A j \in 0..(t.size - 1) :
           /\ g[j].sibling = t.ninfo[j].sibling
           /\ g[j].child = IF j = i THEN l ELSE t.ninfo[j].child
    BY <1>2, <1>4, <1>7
  <1> QED
    BY <1>9, <1>10 DEF ChildSet

\* A node is set.
LEMMA SetNode ==
    ASSUME NEW t, Alloc(t), NEW i, i \in InUse(t), NEW r, r \in NodeType, i # 0 => r.check >= 0,
           NEW w, w = [t EXCEPT !.node[i] = r]
    PROVE  NodeIs(t, w, i, r)
  <1> DEFINE D == 0..(t.capacity - 1)
             f == WithAt(t.node, i, r)
  <1>1. Shape(t)
    BY DEF Alloc
  <1>2. /\ t.node \in [D -> NodeType] /\ t.ninfo \in [D -> NinfoType]
        /\ \A j \in InUse(t) : j # 0 => t.node[j].check >= 0
        /\ InUse(t) \subseteq D /\ 0..(t.size - 1) \subseteq D
    <2>1. /\ InUse(t) \subseteq 0..(t.size - 1) /\ 0..(t.size - 1) \subseteq D /\ t.size \in Nat
          /\ \A j \in 1..(t.size - 1) : j \in InUse(t) <=> t.node[j].check >= 0
      BY <1>1, NodeTypes
    <2>2. \A j \in InUse(t) : j # 0 => j \in 1..(t.size - 1)
      BY <2>1
    <2> QED
      BY <2>1, <2>2, <1>1 DEF Shape
  <1>3. i \in D
    BY <1>2
  <1>5. Differs(D, NodeType, t.node, i, r, f)
    BY <1>2, <1>3, SetOne
  <1>6. IsRewritten(t, f, t.ninfo, w)
    BY <1>1 DEF IsRewritten, Rewritten, WithAt, Shape
  <1> HIDE DEF f
  <1>7. f \in [D -> NodeType] /\ f[i] = r /\ \A j \in D : j # i => f[j] = t.node[j]
    BY <1>5 DEF Differs
  <1>8. \A j \in D : j \notin InUse(t) => f[j] = t.node[j] /\ t.ninfo[j] = t.ninfo[j]
    BY <1>7
  <1>9. \A j \in InUse(t) : j # 0 => f[j].check >= 0
    BY <1>2, <1>7
  <1>10. Wrote(t, w) /\ w.node = f /\ w.ninfo = t.ninfo
    <2>1. Writable(t, f, t.ninfo)
      BY <1>2, <1>7, <1>8, <1>9 DEF Writable
    <2>2. RewroteAs(t, f, t.ninfo, w)
      BY <2>1, <1>6, RewrittenOk
    <2> QED
      BY <2>2 DEF RewroteAs
  <1>11. \A j \in 0..(t.size - 1) : f[j] = IF j = i THEN r ELSE t.node[j]
    BY <1>2, <1>7
  <1> QED
    BY <1>10, <1>11 DEF NodeIs

\* A base is set.
LEMMA SetBase ==
    ASSUME NEW t, Alloc(t), NEW i, i \in InUse(t), NEW b, b \in Int,
           NEW w, w = [t EXCEPT !.node[i].base = b]
    PROVE  BaseSet(t, w, i, b)
  <1> DEFINE r == [t.node[i] EXCEPT !.base = b]
  <1>1. Shape(t)
    BY DEF Alloc
  <1>2. /\ t.node[i] \in NodeType /\ (i # 0 => t.node[i].check >= 0) /\ i \in 0..(t.size - 1)
    <2>1. /\ InUse(t) \subseteq 0..(t.size - 1) /\ 0..(t.size - 1) \subseteq 0..(t.capacity - 1) /\ t.size \in Nat
          /\ \A j \in 1..(t.size - 1) : j \in InUse(t) <=> t.node[j].check >= 0
          /\ \A j \in 0..(t.capacity - 1) : t.node[j] \in NodeType
      BY <1>1, NodeTypes
    <2>2. i # 0 => i \in 1..(t.size - 1)
      BY <2>1
    <2> QED
      BY <2>1, <2>2
  <1>3. r \in NodeType /\ r.base = b /\ r.check = t.node[i].check
    BY <1>2 DEF NodeType
  <1>4. w = [t EXCEPT !.node[i] = r]
    BY <1>1 DEF Shape
  <1> HIDE DEF r
  <1>5. i # 0 => r.check >= 0
    BY <1>2, <1>3
  <1>6. NodeIs(t, w, i, r)
    BY <1>3, <1>4, <1>5, SetNode
  <1> QED
    BY <1>3, <1>6 DEF NodeIs, BaseSet

-----------------------------------------------------------------------------
(* A child more and a child less                                           *)

\* The sibling of a label's node
Sib(t, base, l) == t.ninfo[To(base, l)].sibling

\* A label is put before all others.
LEMMA ChainFirst ==
    ASSUME NEW t, NEW base, NEW c, NEW s, Chain(t, base, c, s), s[1] # 0,
           NEW l, l \in Label, \A i \in 1..Len(s) : s[i] # l,
           NEW w, Sib(w, base, l) = c,
           \A i \in 1..Len(s) : Sib(w, base, s[i]) = Sib(t, base, s[i])
    PROVE  Chain(w, base, l, Ins(s, 1, l))
  <1> DEFINE n == Len(s)
             u == Ins(s, 1, l)
  <1>1. s \in Lists /\ n \in Nat /\ n >= 1 /\ s[1] = c
    BY ListNamed DEF Chain, Named
  <1>2. Inserted(s, 1, l, u)
    <2>1. 1 \in 1..(n + 1)
      BY <1>1
    <2> QED
      BY <2>1, <1>1, InsOk
  <1> HIDE DEF u
  <1>3. u \in Lists /\ Len(u) = n + 1
    BY <1>2 DEF Inserted
  <1>4. \A i \in 1..(n + 1) : u[i] = IF i = 1 THEN l ELSE s[i - 1]
    <2>1. \A i \in 1..Len(u) : u[i] = IF i < 1 THEN s[i] ELSE IF i = 1 THEN l ELSE s[i - 1]
      BY <1>2 DEF Inserted
    <2> HIDE DEF n
    <2> QED
      BY <2>1, <1>1, <1>3
  <1>5. \A i \in 2..n : s[i] # 0
    BY DEF Chain
  <1>6. \A i \in 1..n : Sib(t, base, s[i]) = IF i = n THEN 0 ELSE s[i + 1]
    BY DEF Chain, Sib
  <1>7. s[1] # 0 /\ Sib(w, base, l) = c /\ \A i \in 1..n : Sib(w, base, s[i]) = Sib(t, base, s[i])
    OBVIOUS
  <1> HIDE DEF n
  <1>8. \A i \in 2..(n + 1) : u[i] # 0
    <2> TAKE i \in 2..(n + 1)
    <2>1. u[i] = s[i - 1] /\ (i - 1 = 1 \/ i - 1 \in 2..n)
      BY <1>1, <1>4
    <2> QED
      BY <2>1, <1>5, <1>7
  <1>9. ASSUME NEW i \in 1..(n + 1)
        PROVE  Sib(w, base, u[i]) = IF i = n + 1 THEN 0 ELSE u[i + 1]
    <2>1. CASE i = 1
      <3>1. u[1] = l /\ u[1 + 1] = s[1] /\ 1 # n + 1
        BY <1>1, <1>4
      <3> QED
        BY <3>1, <2>1, <1>7, <1>1
    <2>2. CASE i # 1
      <3>1. i - 1 \in 1..n /\ u[i] = s[i - 1] /\ (i - 1 = n <=> i = n + 1) /\ (i - 1) + 1 = i
        BY <2>2, <1>1, <1>4
      <3>2. i # n + 1 => u[i + 1] = s[i]
        <4>1. i # n + 1 => i + 1 \in 1..(n + 1) /\ i + 1 # 1 /\ (i + 1) - 1 = i
          BY <1>1
        <4> QED
          BY <4>1, <1>4
      <3>3. Sib(w, base, s[i - 1]) = IF i - 1 = n THEN 0 ELSE s[(i - 1) + 1]
        BY <3>1, <1>6, <1>7
      <3> QED
        BY <3>1, <3>2, <3>3
    <2> QED
      BY <2>1, <2>2
  <1>10. u[1] = l
    BY <1>1, <1>4
  <1>11. Chain(w, base, l, u)
    BY <1>3, <1>8, <1>9, <1>10 DEF Chain, Sib
  <1> QED
    BY <1>11 DEF u

\* A label is put behind the first.
LEMMA ChainSecond ==
    ASSUME NEW t, NEW base, NEW c, NEW s, Chain(t, base, c, s),
           NEW l, l \in Label, l # 0, \A i \in 1..Len(s) : s[i] # l,
           NEW w, Sib(w, base, c) = l, Sib(w, base, l) = Sib(t, base, c),
           \A i \in 2..Len(s) : Sib(w, base, s[i]) = Sib(t, base, s[i])
    PROVE  Chain(w, base, c, Ins(s, 2, l))
  <1> DEFINE n == Len(s)
             u == Ins(s, 2, l)
  <1>1. s \in Lists /\ n \in Nat /\ n >= 1 /\ s[1] = c
    BY ListNamed DEF Chain, Named
  <1>2. Inserted(s, 2, l, u)
    <2>1. 2 \in 1..(n + 1)
      BY <1>1
    <2> QED
      BY <2>1, <1>1, InsOk
  <1> HIDE DEF u
  <1>3. u \in Lists /\ Len(u) = n + 1
    BY <1>2 DEF Inserted
  <1>4. u[1] = c /\ u[2] = l /\ \A i \in 3..(n + 1) : u[i] = s[i - 1]
    <2>1. \A i \in 1..Len(u) : u[i] = IF i < 2 THEN s[i] ELSE IF i = 2 THEN l ELSE s[i - 1]
      BY <1>2 DEF Inserted
    <2> HIDE DEF n
    <2>2. 1 \in 1..(n + 1) /\ 2 \in 1..(n + 1) /\ \A i \in 3..(n + 1) : i \in 1..(n + 1) /\ ~ (i < 2) /\ i # 2
      BY <1>1
    <2> QED
      BY <2>1, <2>2, <1>1, <1>3
  <1>5. \A i \in 2..n : s[i] # 0
    BY DEF Chain
  <1>6. \A i \in 1..n : Sib(t, base, s[i]) = IF i = n THEN 0 ELSE s[i + 1]
    BY DEF Chain, Sib
  <1>7. /\ l # 0 /\ Sib(w, base, c) = l /\ Sib(w, base, l) = Sib(t, base, c)
        /\ \A i \in 2..n : Sib(w, base, s[i]) = Sib(t, base, s[i])
    OBVIOUS
  <1> HIDE DEF n
  <1>8. \A i \in 2..(n + 1) : u[i] # 0
    <2> TAKE i \in 2..(n + 1)
    <2>1. i # 2 => i \in 3..(n + 1) /\ i - 1 \in 2..n
      BY <1>1
    <2> QED
      BY <2>1, <1>4, <1>5, <1>7
  <1>9. ASSUME NEW i \in 1..(n + 1)
        PROVE  Sib(w, base, u[i]) = IF i = n + 1 THEN 0 ELSE u[i + 1]
    <2>1. CASE i = 1
      <3>1. i # n + 1 /\ i + 1 = 2
        BY <2>1, <1>1
      <3> QED
        BY <3>1, <2>1, <1>4, <1>7
    <2>2. CASE i = 2
      <3>1. Sib(w, base, u[i]) = IF 1 = n THEN 0 ELSE s[1 + 1]
        BY <2>2, <1>1, <1>4, <1>6, <1>7
      <3>2. i = n + 1 <=> 1 = n
        BY <2>2, <1>1
      <3>3. i # n + 1 => u[i + 1] = s[1 + 1]
        <4>1. i # n + 1 => i + 1 \in 3..(n + 1) /\ (i + 1) - 1 = 1 + 1
          BY <2>2, <1>1
        <4> QED
          BY <4>1, <1>4
      <3> QED
        BY <3>1, <3>2, <3>3
    <2>3. CASE i # 1 /\ i # 2
      <3>1. i \in 3..(n + 1) /\ i - 1 \in 2..n /\ i - 1 \in 1..n /\ (i - 1 = n <=> i = n + 1) /\ (i - 1) + 1 = i
        BY <2>3, <1>1
      <3>2. i # n + 1 => u[i + 1] = s[i]
        <4>1. i # n + 1 => i + 1 \in 3..(n + 1) /\ (i + 1) - 1 = i
          BY <3>1, <1>1
        <4> QED
          BY <4>1, <1>4
      <3>3. Sib(w, base, s[i - 1]) = IF i - 1 = n THEN 0 ELSE s[(i - 1) + 1]
        BY <3>1, <1>6, <1>7
      <3>4. u[i] = s[i - 1]
        BY <3>1, <1>4
      <3> QED
        BY <3>1, <3>2, <3>3, <3>4
    <2> QED
      BY <2>1, <2>2, <2>3
  <1>11. Chain(w, base, c, u)
    BY <1>3, <1>4, <1>8, <1>9 DEF Chain, Sib
  <1> QED
    BY <1>11 DEF u

\* The first label goes.
LEMMA ChainTail ==
    ASSUME NEW t, NEW base, NEW c, NEW s, Chain(t, base, c, s), Len(s) > 1,
           NEW w, \A i \in 2..Len(s) : Sib(w, base, s[i]) = Sib(t, base, s[i])
    PROVE  Chain(w, base, s[2], Del(s, 1))
  <1> DEFINE n == Len(s)
             u == Del(s, 1)
  <1>1. s \in Lists /\ n \in Nat /\ n > 1
    BY ListNamed DEF Chain, Named
  <1>2. Deleted(s, 1, u)
    <2>1. 1 \in 1..n
      BY <1>1
    <2> QED
      BY <2>1, <1>1, DelOk
  <1> HIDE DEF u
  <1>3. u \in Lists /\ Len(u) = n - 1
    BY <1>2 DEF Deleted
  <1>4. \A i \in 1..(n - 1) : u[i] = s[i + 1]
    <2>1. \A i \in 1..Len(u) : u[i] = IF i < 1 THEN s[i] ELSE s[i + 1]
      BY <1>2 DEF Deleted
    <2> HIDE DEF n
    <2> QED
      BY <2>1, <1>1, <1>3
  <1>5. \A i \in 2..n : s[i] # 0
    BY DEF Chain
  <1>6. \A i \in 1..n : Sib(t, base, s[i]) = IF i = n THEN 0 ELSE s[i + 1]
    BY DEF Chain, Sib
  <1>7. \A i \in 2..n : Sib(w, base, s[i]) = Sib(t, base, s[i])
    OBVIOUS
  <1> HIDE DEF n
  <1>8. \A i \in 1..(n - 1) : i + 1 \in 2..n /\ i + 1 \in 1..n /\ (i = n - 1 <=> i + 1 = n)
    BY <1>1
  <1>9. \A i \in 2..(n - 1) : u[i] # 0
    <2>1. \A i \in 2..(n - 1) : i \in 1..(n - 1)
      OBVIOUS
    <2> QED
      BY <2>1, <1>8, <1>4, <1>5
  <1>10. ASSUME NEW i \in 1..(n - 1)
         PROVE  Sib(w, base, u[i]) = IF i = n - 1 THEN 0 ELSE u[i + 1]
    <2>1. u[i] = s[i + 1] /\ Sib(w, base, s[i + 1]) = IF i + 1 = n THEN 0 ELSE s[(i + 1) + 1]
      BY <1>4, <1>6, <1>7, <1>8
    <2>2. i # n - 1 => u[i + 1] = s[(i + 1) + 1]
      <3>1. i # n - 1 => i + 1 \in 1..(n - 1)
        BY <1>1
      <3> QED
        BY <3>1, <1>4
    <2> QED
      BY <2>1, <2>2, <1>8
  <1>11. u[1] = s[2]
    <2>1. 1 \in 1..(n - 1) /\ 1 + 1 = 2
      BY <1>1
    <2> QED
      BY <2>1, <1>4
  <1>12. Chain(w, base, s[2], u)
    BY <1>3, <1>9, <1>10, <1>11 DEF Chain, Sib
  <1> QED
    BY <1>12 DEF u

\* Another label goes: the one before it leads to the one behind it.
LEMMA ChainSkip ==
    ASSUME NEW t, NEW base, NEW c, NEW s, Chain(t, base, c, s), NEW j, j \in 2..Len(s),
           NEW w, Sib(w, base, s[j - 1]) = Sib(t, base, s[j]),
           \A i \in 1..Len(s) : i # j /\ i # j - 1 => Sib(w, base, s[i]) = Sib(t, base, s[i])
    PROVE  Chain(w, base, c, Del(s, j))
  <1> DEFINE n == Len(s)
             u == Del(s, j)
  <1>1. s \in Lists /\ n \in Nat /\ n > 1 /\ s[1] = c
    BY ListNamed DEF Chain, Named
  <1>2. Deleted(s, j, u)
    <2>1. j \in 1..n
      BY <1>1
    <2> QED
      BY <2>1, <1>1, DelOk
  <1> HIDE DEF u
  <1>3. u \in Lists /\ Len(u) = n - 1
    BY <1>2 DEF Deleted
  <1>4. \A i \in 1..(n - 1) : u[i] = IF i < j THEN s[i] ELSE s[i + 1]
    BY <1>2, <1>3 DEF Deleted
  <1>5. \A i \in 2..n : s[i] # 0
    BY DEF Chain
  <1>6. \A i \in 1..n : Sib(t, base, s[i]) = IF i = n THEN 0 ELSE s[i + 1]
    BY DEF Chain, Sib
  <1>7. /\ j \in 2..n /\ Sib(w, base, s[j - 1]) = Sib(t, base, s[j])
        /\ \A i \in 1..n : i # j /\ i # j - 1 => Sib(w, base, s[i]) = Sib(t, base, s[i])
    OBVIOUS
  <1> HIDE DEF n
  <1>8. \A i \in 1..(n - 1) : i \in 1..n /\ i + 1 \in 1..n /\ i + 1 \in 2..n
    BY <1>1
  <1>9. \A i \in 2..(n - 1) : u[i] # 0
    <2> TAKE i \in 2..(n - 1)
    <2>1. i \in 1..(n - 1) /\ i \in 2..n /\ i + 1 \in 2..n
      BY <1>1
    <2> QED
      BY <2>1, <1>4, <1>5
  <1>10. ASSUME NEW i \in 1..(n - 1)
         PROVE  Sib(w, base, u[i]) = IF i = n - 1 THEN 0 ELSE u[i + 1]
    <2>1. CASE i < j - 1
      <3>1. u[i] = s[i] /\ i # j /\ i # j - 1 /\ i \in 1..n /\ i # n /\ i # n - 1
        BY <2>1, <1>1, <1>4, <1>7
      <3>2. i + 1 \in 1..(n - 1) /\ i + 1 < j
        BY <2>1, <1>1, <1>7
      <3>3. u[i + 1] = s[i + 1]
        BY <3>2, <1>4
      <3>4. Sib(w, base, s[i]) = s[i + 1]
        BY <3>1, <1>6, <1>7
      <3> QED
        BY <3>1, <3>3, <3>4
    <2>2. CASE i = j - 1
      <3>1. u[i] = s[j - 1] /\ i + 1 = j
        BY <2>2, <1>1, <1>4, <1>7
      <3>2. Sib(w, base, s[j - 1]) = IF j = n THEN 0 ELSE s[j + 1]
        <4>1. j \in 1..n
          BY <1>7
        <4> QED
          BY <4>1, <1>6, <1>7
      <3>3. j = n <=> i = n - 1
        BY <2>2, <1>1, <1>7
      <3>4. i # n - 1 => u[i + 1] = s[j + 1]
        <4>1. i # n - 1 => i + 1 \in 1..(n - 1) /\ ~ (i + 1 < j)
          BY <3>1, <1>1, <1>7
        <4> QED
          BY <4>1, <3>1, <1>4
      <3> QED
        BY <3>1, <3>2, <3>3, <3>4
    <2>3. CASE i > j - 1
      <3>1. u[i] = s[i + 1] /\ i + 1 # j /\ i + 1 # j - 1 /\ i + 1 \in 1..n /\ (i + 1 = n <=> i = n - 1)
        BY <2>3, <1>1, <1>4, <1>7
      <3>2. Sib(w, base, s[i + 1]) = IF i + 1 = n THEN 0 ELSE s[(i + 1) + 1]
        BY <3>1, <1>6, <1>7
      <3>3. i # n - 1 => u[i + 1] = s[(i + 1) + 1]
        <4>1. i # n - 1 => i + 1 \in 1..(n - 1) /\ ~ (i + 1 < j)
          BY <2>3, <1>1, <1>7
        <4> QED
          BY <4>1, <1>4
      <3> QED
        BY <3>1, <3>2, <3>3
    <2> QED
      BY <2>1, <2>2, <2>3, <1>7
  <1>11. u[1] = c
    <2>1. 1 \in 1..(n - 1) /\ 1 < j
      BY <1>1, <1>7
    <2> QED
      BY <2>1, <1>4, <1>1
  <1>12. Chain(w, base, c, u)
    BY <1>3, <1>9, <1>10, <1>11 DEF Chain, Sib
  <1> QED
    BY <1>12 DEF u

\* The labels of a longer list
LEMMA InsMembers ==
    ASSUME NEW s, s \in Lists, NEW j, j \in 1..(Len(s) + 1), NEW l, NEW u, Inserted(s, j, l, u)
    PROVE  Members(u) = Members(s) \cup {l}
  <1> DEFINE n == Len(s)
  <1>1. n \in Nat /\ n >= 1 /\ j \in 1..(n + 1) /\ Len(u) = n + 1
    BY ListNamed DEF Named, Inserted
  <1>2. \A i \in 1..(n + 1) : u[i] = IF i < j THEN s[i] ELSE IF i = j THEN l ELSE s[i - 1]
    BY <1>1 DEF Inserted
  <1>3. Members(u) = {u[i] : i \in 1..(n + 1)} /\ Members(s) = {s[i] : i \in 1..n}
    BY <1>1 DEF Members
  <1> HIDE DEF n
  <1>4. ASSUME NEW i \in 1..(n + 1) PROVE u[i] \in {s[k] : k \in 1..n} \cup {l}
    <2>1. i < j => i \in 1..n
      BY <1>1
    <2>2. ~ (i < j) /\ i # j => i - 1 \in 1..n
      BY <1>1
    <2> QED
      BY <2>1, <2>2, <1>2
  <1>5. ASSUME NEW i \in 1..n PROVE s[i] \in {u[k] : k \in 1..(n + 1)}
    <2>1. CASE i < j
      <3>1. i \in 1..(n + 1) /\ u[i] = s[i]
        BY <2>1, <1>1, <1>2
      <3> QED
        BY <3>1
    <2>2. CASE ~ (i < j)
      <3>1. i + 1 \in 1..(n + 1) /\ ~ (i + 1 < j) /\ i + 1 # j /\ (i + 1) - 1 = i
        BY <2>2, <1>1
      <3>2. u[i + 1] = s[i]
        BY <3>1, <1>2
      <3> QED
        BY <3>1, <3>2
    <2> QED
      BY <2>1, <2>2
  <1>6. l \in {u[k] : k \in 1..(n + 1)}
    <2>1. u[j] = l
      BY <1>1, <1>2
    <2> QED
      BY <2>1, <1>1
  <1> QED
    BY <1>3, <1>4, <1>5, <1>6

\* The labels of a shorter one
LEMMA DelMembers ==
    ASSUME NEW s, s \in Lists, NEW j, j \in 1..Len(s), NEW u, Deleted(s, j, u)
    PROVE  Members(u) = Members(s) \ {s[j]}
  <1> DEFINE n == Len(s)
  <1>1. n \in Nat /\ n >= 1 /\ j \in 1..n /\ Len(u) = n - 1
    BY ListNamed DEF Named, Deleted
  <1>2. \A i \in 1..(n - 1) : u[i] = IF i < j THEN s[i] ELSE s[i + 1]
    BY <1>1 DEF Deleted
  <1>3. Members(u) = {u[i] : i \in 1..(n - 1)} /\ Members(s) = {s[i] : i \in 1..n}
    BY <1>1 DEF Members
  <1>4. \A i, k \in 1..n : s[i] = s[k] => i = k
    BY ListNamed DEF Named
  <1> HIDE DEF n
  <1>5. ASSUME NEW i \in 1..(n - 1) PROVE u[i] \in {s[k] : k \in 1..n} \ {s[j]}
    <2>1. i \in 1..n /\ i + 1 \in 1..n /\ (~ (i < j) => i + 1 # j)
      BY <1>1
    <2>2. CASE i < j
      <3>1. u[i] = s[i] /\ i # j
        BY <2>2, <1>1, <1>2
      <3>2. s[i] # s[j]
        BY <3>1, <2>1, <1>1, <1>4
      <3> QED
        BY <3>1, <3>2, <2>1
    <2>3. CASE ~ (i < j)
      <3>1. u[i] = s[i + 1]
        BY <2>3, <1>2
      <3>2. s[i + 1] # s[j]
        BY <2>1, <2>3, <1>1, <1>4
      <3> QED
        BY <3>1, <3>2, <2>1
    <2> QED
      BY <2>2, <2>3
  <1>6. ASSUME NEW i \in 1..n, i # j PROVE s[i] \in {u[k] : k \in 1..(n - 1)}
    <2>1. CASE i < j
      <3>1. i \in 1..(n - 1) /\ u[i] = s[i]
        BY <2>1, <1>1, <1>2
      <3> QED
        BY <3>1
    <2>2. CASE ~ (i < j)
      <3>1. i - 1 \in 1..(n - 1) /\ ~ (i - 1 < j) /\ (i - 1) + 1 = i
        BY <2>2, <1>1, <1>6
      <3>2. u[i - 1] = s[i]
        BY <3>1, <1>2
      <3> QED
        BY <3>1, <3>2
    <2> QED
      BY <2>1, <2>2
  <1>7. {u[i] : i \in 1..(n - 1)} \subseteq {s[k] : k \in 1..n} \ {s[j]}
    BY <1>5
  <1>8. {s[k] : k \in 1..n} \ {s[j]} \subseteq {u[i] : i \in 1..(n - 1)}
    BY <1>6
  <1> QED
    BY <1>3, <1>7, <1>8

\* From t to w node q got the child x under a label, first or behind label 0.
KidAdded(U, t, V, q, x, label, U1, w, V1) ==
    LET base == t.node[q].base
        kids == KidsIn(U, t, q)
    IN  /\ label \in Label /\ x = To(base, label) /\ x \notin kids /\ x # 0
        /\ KidsIn(U1, w, q) = kids \cup {x}
        /\ \A y \in kids : y \in V1 <=> y \in V
        /\ x \in V1 <=> label = 0
        /\ w.node[q].base = base
        /\ t.size \in Nat /\ w.size \in Nat /\ t.size <= w.size
        /\ t.ninfo[q].child = 0 =>
             /\ w.ninfo[q].child = 0 /\ w.ninfo[base].sibling = label
             /\ w.ninfo[x].sibling = t.ninfo[base].sibling
             /\ \A y \in kids : y # base => w.ninfo[y].sibling = t.ninfo[y].sibling
        /\ t.ninfo[q].child # 0 =>
             /\ w.ninfo[q].child = label /\ w.ninfo[x].sibling = t.ninfo[q].child
             /\ \A y \in kids : w.ninfo[y].sibling = t.ninfo[y].sibling

\* The longer list leads to its children.
LEMMA KinAdd ==
    ASSUME NEW U, NEW t, NEW V, NEW q, NEW x, NEW label, NEW U1, NEW w, NEW V1,
           KidAdded(U, t, V, q, x, label, U1, w, V1), NEW s, Kin(U, t, V, q, s)
    PROVE  Kin(U1, w, V1, q, Ins(s, IF s[1] = 0 THEN 2 ELSE 1, label))
  <1> DEFINE base == t.node[q].base
             K == KidsIn(U, t, q)
             c == t.ninfo[q].child
             j == IF s[1] = 0 THEN 2 ELSE 1
             u == Ins(s, j, label)
  <1>1. /\ label \in Label /\ x = To(base, label) /\ x \notin K /\ x # 0
        /\ KidsIn(U1, w, q) = K \cup {x} /\ w.node[q].base = base
        /\ (x \in V1 <=> label = 0)
        /\ \A y \in K : y \in V1 <=> y \in V
    BY DEF KidAdded
  <1>2. t.size \in Nat /\ w.size \in Nat /\ t.size <= w.size
    BY DEF KidAdded
  <1>3. c = 0 => /\ w.ninfo[q].child = 0 /\ w.ninfo[base].sibling = label
                 /\ w.ninfo[x].sibling = t.ninfo[base].sibling
                 /\ \A y \in K : y # base => w.ninfo[y].sibling = t.ninfo[y].sibling
    BY DEF KidAdded
  <1>4. c # 0 => /\ w.ninfo[q].child = label /\ w.ninfo[x].sibling = c
                 /\ \A y \in K : w.ninfo[y].sibling = t.ninfo[y].sibling
    BY DEF KidAdded
  <1>5. base \in 0..(t.size - 1) /\ (base \div B = 0 <=> q = 0)
    BY DEF Kin
  <1>6. q = 0 => base = 0 /\ s[1] = 0
    BY DEF Kin
  <1>7. Chain(t, base, c, s)
    BY DEF Kin
  <1>8. \A l \in Members(s) : To(base, l) \in K \/ (q = 0 /\ l = 0)
    BY DEF Kin
  <1>9. \A y \in K : \E l \in Members(s) : y = To(base, l)
    BY DEF Kin
  <1>10. \A y \in K : y \in V <=> y = base
    BY DEF Kin
  <1> HIDE DEF base, K, c, u
  <1>11. base \in 0..(w.size - 1) /\ base \in Nat
    BY <1>2, <1>5
  <1>12. s \in Lists /\ Len(s) \in Nat /\ Len(s) >= 1 /\ s[1] = c /\ s[1] \in Members(s)
         /\ (\A i \in 1..Len(s) : s[i] \in Label /\ s[i] \in Members(s))
         /\ \A a, b \in 1..Len(s) : s[a] = s[b] => a = b
    <2>1. s \in Lists /\ s[1] = c
      BY <1>7 DEF Chain
    <2>2. Named(s, Len(s))
      BY <2>1, ListNamed
    <2>3. Len(s) \in Nat /\ Len(s) >= 1 /\ (\A i \in 1..Len(s) : s[i] \in Label)
          /\ \A a, b \in 1..Len(s) : s[a] = s[b] => a = b
      BY <2>2 DEF Named
    <2>4. 1 \in 1..Len(s)
      BY <2>3
    <2>5. \A i \in 1..Len(s) : s[i] \in Members(s)
      BY DEF Members
    <2> QED
      BY <2>1, <2>3, <2>4, <2>5
  <1>13. To(base, 0) = base /\ 0 \in Label
    <2>1. 0 \in Label
      BY LabelAssumption DEF Label
    <2> QED
      BY <2>1, <1>11, ToFacts
  <1>14. label \notin Members(s)
    <2> SUFFICES ASSUME label \in Members(s) PROVE FALSE
      OBVIOUS
    <2>1. q = 0 /\ label = 0
      BY <1>1, <1>8
    <2> QED
      BY <2>1, <1>1, <1>6, <1>13
  <1>15. \A i \in 1..Len(s) : s[i] # label
    BY <1>12, <1>14
  <1>16. ASSUME NEW i \in 1..Len(s), s[i] # 0
         PROVE  To(base, s[i]) \in K /\ To(base, s[i]) # base
    <2>1. To(base, s[i]) \in K
      BY <1>8, <1>12, <1>16
    <2>2. To(base, s[i]) = To(base, 0) => s[i] = 0
      BY <1>11, <1>12, <1>13, ToFacts
    <2> QED
      BY <2>1, <2>2, <1>13, <1>16
  <1>17. j \in 1..(Len(s) + 1)
    BY <1>12
  <1>18. Inserted(s, j, label, u)
    BY <1>1, <1>12, <1>15, <1>17, InsOk DEF u
  <1>19. Members(u) = Members(s) \cup {label}
    BY <1>12, <1>17, <1>18, InsMembers
  <1>20. Chain(w, base, w.ninfo[q].child, u) /\ (q = 0 => u[1] = 0)
    <2>1. CASE c = 0
      <3>1. label # 0 /\ j = 2
        BY <2>1, <1>12, <1>14
      <3>2. Sib(w, base, c) = label /\ Sib(w, base, label) = Sib(t, base, c)
        <4>1. To(base, c) = base
          BY <2>1, <1>13
        <4>2. w.ninfo[To(base, c)].sibling = label
          BY <4>1, <2>1, <1>3
        <4>3. w.ninfo[To(base, label)].sibling = t.ninfo[To(base, c)].sibling
          BY <4>1, <2>1, <1>1, <1>3
        <4> QED
          BY <4>2, <4>3 DEF Sib
      <3>3. \A i \in 2..Len(s) : Sib(w, base, s[i]) = Sib(t, base, s[i])
        <4> TAKE i \in 2..Len(s)
        <4>1. s[i] # 0 /\ i \in 1..Len(s)
          <5>1. i \in 1..Len(s)
            BY <1>12
          <5>2. s[i] # 0
            BY <1>7 DEF Chain
          <5> QED
            BY <5>1, <5>2
        <4>2. To(base, s[i]) \in K /\ To(base, s[i]) # base
          BY <4>1, <1>16
        <4>3. w.ninfo[To(base, s[i])].sibling = t.ninfo[To(base, s[i])].sibling
          BY <4>2, <2>1, <1>3
        <4> QED
          BY <4>3 DEF Sib
      <3>4. Chain(w, base, c, Ins(s, 2, label))
        BY <3>1, <3>2, <3>3, <1>1, <1>7, <1>15, ChainSecond
      <3>5. Chain(w, base, c, u)
        BY <3>1, <3>4 DEF u
      <3>6. w.ninfo[q].child = c
        BY <2>1, <1>3
      <3>7. u[1] = c
        BY <3>5 DEF Chain
      <3> QED
        BY <3>5, <3>6, <3>7, <2>1
    <2>2. CASE c # 0
      <3>1. j = 1 /\ s[1] # 0 /\ q # 0
        BY <2>2, <1>12, <1>6
      <3>2. Sib(w, base, label) = c
        BY <2>2, <1>1, <1>4 DEF Sib
      <3>3. \A i \in 1..Len(s) : Sib(w, base, s[i]) = Sib(t, base, s[i])
        <4> TAKE i \in 1..Len(s)
        <4>1. To(base, s[i]) \in K
          BY <3>1, <1>8, <1>12
        <4>2. w.ninfo[To(base, s[i])].sibling = t.ninfo[To(base, s[i])].sibling
          BY <4>1, <2>2, <1>4
        <4> QED
          BY <4>2 DEF Sib
      <3>4. Chain(w, base, label, Ins(s, 1, label))
        BY <3>1, <3>2, <3>3, <1>1, <1>7, <1>15, ChainFirst
      <3> QED
        BY <3>1, <3>4, <2>2, <1>4 DEF u
    <2> QED
      BY <2>1, <2>2
  <1>21. \A l \in Members(u) : To(base, l) \in K \cup {x} \/ (q = 0 /\ l = 0)
    BY <1>1, <1>8, <1>19
  <1>22. \A y \in K \cup {x} : \E l \in Members(u) : y = To(base, l)
    BY <1>1, <1>9, <1>19
  <1>23. \A y \in K \cup {x} : y \in V1 <=> y = base
    <2>1. x = base <=> label = 0
      <3>1. To(base, label) = To(base, 0) => label = 0
        BY <1>1, <1>11, <1>13, ToFacts
      <3> QED
        BY <3>1, <1>1, <1>13
    <2> QED
      BY <2>1, <1>1, <1>10
  <1>24. q = 0 => base = 0 /\ u[1] = 0
    BY <1>6, <1>20
  <1>25. Kin(U1, w, V1, q, u)
    BY <1>1, <1>5, <1>11, <1>20, <1>21, <1>22, <1>23, <1>24 DEF Kin
  <1> QED
    BY <1>25 DEF u

\* From t to w node q lost the child x under the label at place j of its list s.
KidDropped(U, t, V, q, x, s, j, U1, w, V1) ==
    LET base == t.node[q].base
        kids == KidsIn(U, t, q)
    IN  /\ x = To(base, s[j]) /\ x \in kids
        /\ KidsIn(U1, w, q) = kids \ {x}
        /\ \A y \in kids \ {x} : y \in V1 <=> y \in V
        /\ w.node[q].base = base
        /\ t.size \in Nat /\ w.size \in Nat /\ t.size <= w.size
        /\ j = 1 =>
             /\ w.ninfo[q].child = t.ninfo[x].sibling
             /\ \A y \in kids \ {x} : w.ninfo[y].sibling = t.ninfo[y].sibling
        /\ j # 1 =>
             /\ w.ninfo[q].child = t.ninfo[q].child
             /\ Sib(w, base, s[j - 1]) = t.ninfo[x].sibling
             /\ \A y \in (kids \cup {0}) \ {x} : y # To(base, s[j - 1]) =>
                                    w.ninfo[y].sibling = t.ninfo[y].sibling

\* The shorter list leads to its children.
LEMMA KinDrop ==
    ASSUME NEW U, NEW t, NEW V, NEW q, NEW x, NEW s, NEW j, j \in 1..Len(s), Len(s) > 1,
           NEW U1, NEW w, NEW V1,
           KidDropped(U, t, V, q, x, s, j, U1, w, V1), Kin(U, t, V, q, s)
    PROVE  Kin(U1, w, V1, q, Del(s, j))
  <1> DEFINE base == t.node[q].base
             K == KidsIn(U, t, q)
             c == t.ninfo[q].child
             u == Del(s, j)
  <1>1. /\ x = To(base, s[j]) /\ x \in K
        /\ KidsIn(U1, w, q) = K \ {x} /\ w.node[q].base = base
        /\ \A y \in K \ {x} : y \in V1 <=> y \in V
    BY DEF KidDropped
  <1>2. t.size \in Nat /\ w.size \in Nat /\ t.size <= w.size
    BY DEF KidDropped
  <1>3. j = 1 => /\ w.ninfo[q].child = t.ninfo[x].sibling
                 /\ \A y \in K \ {x} : w.ninfo[y].sibling = t.ninfo[y].sibling
    BY DEF KidDropped
  <1>4. j # 1 => /\ w.ninfo[q].child = c
                 /\ Sib(w, base, s[j - 1]) = t.ninfo[x].sibling
                 /\ \A y \in (K \cup {0}) \ {x} : y # To(base, s[j - 1]) =>
                                      w.ninfo[y].sibling = t.ninfo[y].sibling
    BY DEF KidDropped
  <1>5. base \in 0..(t.size - 1) /\ (base \div B = 0 <=> q = 0)
    BY DEF Kin
  <1>6. q = 0 => base = 0 /\ s[1] = 0
    BY DEF Kin
  <1>7. Chain(t, base, c, s)
    BY DEF Kin
  <1>8. \A l \in Members(s) : To(base, l) \in K \/ (q = 0 /\ l = 0)
    BY DEF Kin
  <1>9. \A y \in K : \E l \in Members(s) : y = To(base, l)
    BY DEF Kin
  <1>10. \A y \in K : y \in V <=> y = base
    BY DEF Kin
  <1>0. \A y \in K : y # 0
    BY DEF KidsIn
  <1> HIDE DEF base, K, c, u
  <1>11. base \in 0..(w.size - 1) /\ base \in Nat
    BY <1>2, <1>5
  <1>12. s \in Lists /\ Len(s) \in Nat /\ Len(s) >= 1 /\ s[1] = c
         /\ (\A i \in 1..Len(s) : s[i] \in Label /\ s[i] \in Members(s))
         /\ \A a, b \in 1..Len(s) : s[a] = s[b] => a = b
    <2>1. s \in Lists /\ s[1] = c
      BY <1>7 DEF Chain
    <2>2. Named(s, Len(s))
      BY <2>1, ListNamed
    <2>3. Len(s) \in Nat /\ Len(s) >= 1 /\ (\A i \in 1..Len(s) : s[i] \in Label)
          /\ \A a, b \in 1..Len(s) : s[a] = s[b] => a = b
      BY <2>2 DEF Named
    <2>5. \A i \in 1..Len(s) : s[i] \in Members(s)
      BY DEF Members
    <2> QED
      BY <2>1, <2>3, <2>5
  <1>13. To(base, 0) = base /\ 0 \in Label
    <2>1. 0 \in Label
      BY LabelAssumption DEF Label
    <2> QED
      BY <2>1, <1>11, ToFacts
  <1>14. \A a, b \in 1..Len(s) : To(base, s[a]) = To(base, s[b]) => a = b
    <2> TAKE a, b \in 1..Len(s)
    <2>1. To(base, s[a]) = To(base, s[b]) => s[a] = s[b]
      BY <1>11, <1>12, ToFacts
    <2> QED
      BY <2>1, <1>12
  <1>15. Deleted(s, j, u)
    BY <1>12, DelOk DEF u
  <1>16. Members(u) = Members(s) \ {s[j]}
    BY <1>12, <1>15, DelMembers
  <1>17. Chain(w, base, w.ninfo[q].child, u) /\ (q = 0 => u[1] = 0)
    <2>1. CASE j = 1
      <3>1. q # 0
        <4> SUFFICES ASSUME q = 0 PROVE FALSE
          OBVIOUS
        <4>1. x = To(0, 0) /\ base = 0
          BY <2>1, <1>1, <1>6
        <4> QED
          BY <4>1, <1>13, <1>0, <1>1
      <3>2. \A i \in 2..Len(s) : Sib(w, base, s[i]) = Sib(t, base, s[i])
        <4> TAKE i \in 2..Len(s)
        <4>1. i \in 1..Len(s) /\ i # j
          BY <2>1, <1>12
        <4>2. To(base, s[i]) \in K \ {x}
          BY <4>1, <3>1, <1>1, <1>8, <1>12, <1>14
        <4>3. w.ninfo[To(base, s[i])].sibling = t.ninfo[To(base, s[i])].sibling
          BY <4>2, <2>1, <1>3
        <4> QED
          BY <4>3 DEF Sib
      <3>3. Chain(w, base, s[2], Del(s, 1))
        BY <3>2, <1>7, ChainTail
      <3>4. t.ninfo[x].sibling = s[2]
        <4>1. 1 \in 1..Len(s) /\ 1 # Len(s) /\ 1 + 1 = 2
          BY <1>12
        <4>2. t.ninfo[To(base, s[1])].sibling = IF 1 = Len(s) THEN 0 ELSE s[1 + 1]
          BY <4>1, <1>7 DEF Chain
        <4> QED
          BY <4>1, <4>2, <2>1, <1>1
      <3> QED
        BY <3>1, <3>3, <3>4, <2>1, <1>3 DEF u
    <2>2. CASE j # 1
      <3>1. j \in 2..Len(s) /\ j - 1 \in 1..Len(s) /\ j # j - 1
        BY <2>2, <1>12
      <3>2. Sib(w, base, s[j - 1]) = Sib(t, base, s[j])
        BY <2>2, <1>1, <1>4 DEF Sib
      <3>3. \A i \in 1..Len(s) : i # j /\ i # j - 1 => Sib(w, base, s[i]) = Sib(t, base, s[i])
        <4> TAKE i \in 1..Len(s)
        <4> SUFFICES ASSUME i # j, i # j - 1 PROVE Sib(w, base, s[i]) = Sib(t, base, s[i])
          OBVIOUS
        <4>1. To(base, s[i]) # x /\ To(base, s[i]) # To(base, s[j - 1])
          BY <3>1, <1>1, <1>14
        <4>2. To(base, s[i]) \in K \/ To(base, s[i]) = 0
          <5>1. q = 0 /\ s[i] = 0 => To(base, s[i]) = 0
            BY <1>6, <1>13
          <5> QED
            BY <5>1, <1>8, <1>12
        <4>3. To(base, s[i]) \in (K \cup {0}) \ {x}
          BY <4>1, <4>2
        <4>4. w.ninfo[To(base, s[i])].sibling = t.ninfo[To(base, s[i])].sibling
          BY <4>1, <4>3, <2>2, <1>4
        <4> QED
          BY <4>4 DEF Sib
      <3>4. Chain(w, base, c, u)
        BY <3>1, <3>2, <3>3, <1>7, ChainSkip DEF u
      <3>5. u[1] = c
        BY <3>4 DEF Chain
      <3> QED
        BY <3>4, <3>5, <2>2, <1>4, <1>6, <1>12
    <2> QED
      BY <2>1, <2>2
  <1>18. \A l \in Members(u) : To(base, l) \in K \ {x} \/ (q = 0 /\ l = 0)
    <2> TAKE l \in Members(u)
    <2>1. l \in Members(s) /\ l # s[j]
      BY <1>16
    <2>2. l \in Label /\ s[j] \in Label
      BY <2>1, <1>12 DEF Members
    <2>3. To(base, l) = To(base, s[j]) => l = s[j]
      BY <2>2, <1>11, ToFacts
    <2> QED
      BY <2>1, <2>3, <1>1, <1>8
  <1>19. \A y \in K \ {x} : \E l \in Members(u) : y = To(base, l)
    BY <1>1, <1>9, <1>16
  <1>20. \A y \in K \ {x} : y \in V1 <=> y = base
    BY <1>1, <1>10
  <1>21. q = 0 => base = 0 /\ u[1] = 0
    BY <1>6, <1>17
  <1>22. Kin(U1, w, V1, q, u)
    BY <1>1, <1>5, <1>11, <1>17, <1>18, <1>19, <1>20, <1>21 DEF Kin
  <1> QED
    BY <1>22 DEF u

-----------------------------------------------------------------------------
(* Steps of the tree                                                       *)

\* The children of one node may be off its list; then it is not a leaf.
LEMMA TreeOpen ==
    ASSUME NEW U, NEW t, NEW V, NEW F, Tree(U, t, V, F, -1), NEW q
    PROVE  Tree(U, t, V, F, q)
  <1>1. \A n \in U \ (V \cup F) : n # -1
    BY DEF Tree, Nodes
  <1> QED
    BY <1>1 DEF Tree

\* A leaf may get children.
LEMMA LeafOpen ==
    ASSUME NEW U, NEW t, NEW V, NEW F, Tree(U, t, V, F, -1), NEW q, q \in F
    PROVE  Tree(U, t, V, F \ {q}, q)
  <1>1. Nodes(U, t, V, F) /\ \A n \in U \ (V \cup F) : n # -1 => \E s : Kin(U, t, V, n, s)
    BY DEF Tree
  <1>2. Nodes(U, t, V, F \ {q})
    BY <1>1 DEF Nodes
  <1>3. \A n \in U \ (V \cup (F \ {q})) : n # q => n \in U \ (V \cup F) /\ n # -1
    BY <1>1 DEF Nodes
  <1> QED
    BY <1>1, <1>2, <1>3 DEF Tree

\* With a list for them it is a tree.
LEMMA TreeClose ==
    ASSUME NEW U, NEW t, NEW V, NEW F, NEW q, Tree(U, t, V, F, q), NEW s, Kin(U, t, V, q, s)
    PROVE  Tree(U, t, V, F, -1)
  <1>1. Nodes(U, t, V, F) /\ \A n \in U \ (V \cup F) : n # q => \E r : Kin(U, t, V, n, r)
    BY DEF Tree
  <1>2. \A n \in U \ (V \cup F) : \E r : Kin(U, t, V, n, r)
    BY <1>1
  <1> QED
    BY <1>1, <1>2 DEF Tree

\* A node without children is a leaf.
LEMMA LeafClose ==
    ASSUME NEW U, NEW t, NEW V, NEW F, NEW q, Tree(U, t, V, F, q), q \in U \ (V \cup F), q # 0,
           KidsIn(U, t, q) = {}
    PROVE  Tree(U, t, V, F \cup {q}, -1)
  <1>1. Nodes(U, t, V, F) /\ \A n \in U \ (V \cup F) : n # q => \E r : Kin(U, t, V, n, r)
    BY DEF Tree
  <1>2. \A i \in U \ {0} : t.node[i].check # q
    BY DEF KidsIn
  <1>3. Nodes(U, t, V, F \cup {q})
    BY <1>1, <1>2 DEF Nodes
  <1>4. \A n \in U \ (V \cup (F \cup {q})) : \E r : Kin(U, t, V, n, r)
    BY <1>1
  <1> QED
    BY <1>3, <1>4 DEF Tree

\* From t to w all children have the same parents; only the list of p changed.
ListWritten(U, t, V, F, p, w) ==
    /\ t.size \in Nat /\ w.size \in Nat /\ t.size <= w.size
    /\ \A i \in U : w.node[i].check = t.node[i].check
    /\ \A i \in U \ (V \cup F) : i # p =>
         w.node[i].base = t.node[i].base /\ w.ninfo[i].child = t.ninfo[i].child
    /\ \A i \in U \ {0} : t.node[i].check # p => w.ninfo[i].sibling = t.ninfo[i].sibling
    /\ p # 0 => w.ninfo[0].sibling = t.ninfo[0].sibling

\* The lists of the others are the same.
LEMMA TreeWritten ==
    ASSUME NEW U, NEW t, NEW V, NEW F, NEW p, Tree(U, t, V, F, p), NEW w, ListWritten(U, t, V, F, p, w)
    PROVE  Tree(U, w, V, F, p)
  <1>1. Nodes(U, t, V, F)
    BY DEF Tree
  <1>2. t.size \in Nat /\ w.size \in Nat /\ t.size <= w.size
    BY DEF ListWritten
  <1>3. \A i \in U : w.node[i].check = t.node[i].check
    BY DEF ListWritten
  <1>4. 0..(t.size - 1) \subseteq 0..(w.size - 1)
    BY <1>2
  <1>5. Nodes(U, w, V, F)
    <2>1. /\ 0 \in U /\ U \subseteq 0..(t.size - 1)
          /\ V \subseteq U \ {0} /\ F \subseteq U \ {0} /\ V \cap F = {}
          /\ \A i \in U \ {0} : t.node[i].check \in U \ (V \cup F) /\ t.node[i].check # i
          /\ \A i \in U \ {0} : i \div B = 0 => t.node[i].check = 0 /\ i \in FirstLabels
      BY <1>1 DEF Nodes
    <2>2. U \subseteq 0..(w.size - 1)
      BY <2>1, <1>4
    <2>3. \A i \in U \ {0} : w.node[i].check = t.node[i].check
      BY <1>3
    <2> QED
      BY <2>1, <2>2, <2>3 DEF Nodes
  <1>6. \A n : KidsIn(U, w, n) = KidsIn(U, t, n)
    BY <1>3 DEF KidsIn
  <1>7. ASSUME NEW n \in U \ (V \cup F), n # p
        PROVE  SameKin(U, t, V, n, U, w, V, n)
    <2>1. w.node[n].base = t.node[n].base /\ w.ninfo[n].child = t.ninfo[n].child
      BY <1>7 DEF ListWritten
    <2>2. \A x \in KidsIn(U, t, n) : w.ninfo[x].sibling = t.ninfo[x].sibling
      <3>1. \A x \in KidsIn(U, t, n) : x \in U \ {0} /\ t.node[x].check # p
        BY <1>7 DEF KidsIn
      <3> QED
        BY <3>1 DEF ListWritten
    <2>3. n = 0 => w.ninfo[0].sibling = t.ninfo[0].sibling
      BY <1>7 DEF ListWritten
    <2> QED
      BY <2>1, <2>2, <2>3, <1>2, <1>6 DEF SameKin
  <1> QED
    BY <1>5, <1>7, TreeStep

\* From t to w the nodes U are the same.
SameOn(U, t, w) ==
    /\ t.size \in Nat /\ w.size \in Nat /\ t.size <= w.size
    /\ \A i \in U : w.node[i] = t.node[i] /\ w.ninfo[i] = t.ninfo[i]

\* A node with the same children keeps its list.
LEMMA SameKinOn ==
    ASSUME NEW U, NEW t, NEW V, NEW n, NEW U1, NEW w, NEW V1, n \in U, 0 \in U, SameOn(U, t, w),
           KidsIn(U1, w, n) = KidsIn(U, t, n), \A x \in KidsIn(U, t, n) : x \in V1 <=> x \in V
    PROVE  SameKin(U, t, V, n, U1, w, V1, n)
  <1>1. w.node[n] = t.node[n] /\ w.ninfo[n] = t.ninfo[n] /\ w.ninfo[0] = t.ninfo[0]
    BY DEF SameOn
  <1>2. \A x \in KidsIn(U, t, n) : w.ninfo[x] = t.ninfo[x]
    BY DEF SameOn, KidsIn
  <1> QED
    BY <1>1, <1>2 DEF SameKin, SameOn

\* The node may as well be in a larger trie.
LEMMA TreeSame ==
    ASSUME NEW U, NEW t, NEW V, NEW F, NEW p, Tree(U, t, V, F, p), NEW w, SameOn(U, t, w)
    PROVE  Tree(U, w, V, F, p)
  <1>1. ListWritten(U, t, V, F, p, w)
    <2>1. 0 \in U
      BY DEF Tree, Nodes
    <2> QED
      BY <2>1 DEF SameOn, ListWritten
  <1> QED
    BY <1>1, TreeWritten

\* A leaf joins the children of p.
LEMMA LeafAdded ==
    ASSUME NEW U, NEW t, NEW V, NEW F, NEW p, Tree(U, t, V, F, p), p \in U \ (V \cup F),
           NEW w, SameOn(U, t, w), NEW x, x \notin U, x \in 1..(w.size - 1), w.node[x].check = p,
           x \div B = 0 => p = 0 /\ x \in FirstLabels,
           NEW V1, NEW F1, \/ V1 = V /\ F1 = F \cup {x}
                           \/ V1 = V \cup {x} /\ F1 = F
    PROVE  Tree(U \cup {x}, w, V1, F1, p)
  <1>1. /\ 0 \in U /\ U \subseteq 0..(t.size - 1)
        /\ V \subseteq U \ {0} /\ F \subseteq U \ {0} /\ V \cap F = {}
        /\ \A i \in U \ {0} : t.node[i].check \in U \ (V \cup F) /\ t.node[i].check # i
        /\ \A i \in U \ {0} : i \div B = 0 => t.node[i].check = 0 /\ i \in FirstLabels
    BY DEF Tree, Nodes
  <1>2. t.size \in Nat /\ w.size \in Nat /\ t.size <= w.size
        /\ \A i \in U : w.node[i] = t.node[i] /\ w.ninfo[i] = t.ninfo[i]
    BY DEF SameOn
  <1>3. 0..(t.size - 1) \subseteq 0..(w.size - 1) /\ 1..(w.size - 1) \subseteq 0..(w.size - 1) /\ x # 0
    BY <1>2
  <1>4. (V1 \cup F1) = (V \cup F) \cup {x}
    OBVIOUS
  <1>5. (U \cup {x}) \ (V1 \cup F1) = U \ (V \cup F)
    BY <1>4
  <1>6. Nodes(U \cup {x}, w, V1, F1)
    <2>1. 0 \in U \cup {x} /\ U \cup {x} \subseteq 0..(w.size - 1)
      BY <1>1, <1>3
    <2>2. V1 \subseteq (U \cup {x}) \ {0} /\ F1 \subseteq (U \cup {x}) \ {0} /\ V1 \cap F1 = {}
      BY <1>1, <1>3
    <2>3. \A i \in (U \cup {x}) \ {0} : w.node[i].check \in U \ (V \cup F) /\ w.node[i].check # i
      BY <1>1, <1>2
    <2>4. \A i \in (U \cup {x}) \ {0} : i \div B = 0 => w.node[i].check = 0 /\ i \in FirstLabels
      BY <1>1, <1>2
    <2> QED
      BY <2>1, <2>2, <2>3, <2>4, <1>5 DEF Nodes
  <1>7. ASSUME NEW n \in U \ (V \cup F), n # p
        PROVE  SameKin(U, t, V, n, U \cup {x}, w, V1, n)
    <2>1. KidsIn(U \cup {x}, w, n) = KidsIn(U, t, n)
      BY <1>2, <1>7 DEF KidsIn
    <2>2. \A i \in KidsIn(U, t, n) : i \in V1 <=> i \in V
      BY DEF KidsIn
    <2> QED
      BY <2>1, <2>2, <1>1, SameKinOn
  <1>8. \A n \in (U \cup {x}) \ (V1 \cup F1) : n # p =>
           \E m \in U \ (V \cup F) : m # p /\ SameKin(U, t, V, m, U \cup {x}, w, V1, n)
    BY <1>5, <1>7
  <1> DEFINE U1 == U \cup {x}
  <1> HIDE DEF U1
  <1>9. Nodes(U1, w, V1, F1)
    BY <1>6 DEF U1
  <1>10. \A n \in U1 \ (V1 \cup F1) : n # p =>
           \E m \in U \ (V \cup F) : m # p /\ SameKin(U, t, V, m, U1, w, V1, n)
    BY <1>8 DEF U1
  <1>11. Tree(U1, w, V1, F1, p)
    BY <1>9, <1>10, TreeStep
  <1> QED
    BY <1>11 DEF U1

\* A leaf leaves the children of p.
LEMMA LeafFreed ==
    ASSUME NEW U, NEW t, NEW V, NEW F, NEW p, Tree(U, t, V, F, p),
           NEW x, x \in V \cup F, t.node[x].check = p, NEW w, SameOn(U \ {x}, t, w)
    PROVE  Tree(U \ {x}, w, V \ {x}, F \ {x}, p)
  <1>1. /\ 0 \in U /\ U \subseteq 0..(t.size - 1)
        /\ V \subseteq U \ {0} /\ F \subseteq U \ {0} /\ V \cap F = {}
        /\ \A i \in U \ {0} : t.node[i].check \in U \ (V \cup F) /\ t.node[i].check # i
        /\ \A i \in U \ {0} : i \div B = 0 => t.node[i].check = 0 /\ i \in FirstLabels
    BY DEF Tree, Nodes
  <1>2. t.size \in Nat /\ w.size \in Nat /\ t.size <= w.size
        /\ \A i \in U \ {x} : w.node[i] = t.node[i] /\ w.ninfo[i] = t.ninfo[i]
    BY DEF SameOn
  <1>3. 0..(t.size - 1) \subseteq 0..(w.size - 1) /\ x # 0 /\ x \in U
    BY <1>1, <1>2
  <1>5. (U \ {x}) \ ((V \ {x}) \cup (F \ {x})) = U \ (V \cup F)
    OBVIOUS
  <1>6. Nodes(U \ {x}, w, V \ {x}, F \ {x})
    <2>1. 0 \in U \ {x} /\ U \ {x} \subseteq 0..(w.size - 1)
      BY <1>1, <1>3
    <2>2. /\ V \ {x} \subseteq (U \ {x}) \ {0} /\ F \ {x} \subseteq (U \ {x}) \ {0}
          /\ (V \ {x}) \cap (F \ {x}) = {}
      BY <1>1
    <2>3. \A i \in (U \ {x}) \ {0} : w.node[i].check \in U \ (V \cup F) /\ w.node[i].check # i
      BY <1>1, <1>2
    <2>4. \A i \in (U \ {x}) \ {0} : i \div B = 0 => w.node[i].check = 0 /\ i \in FirstLabels
      BY <1>1, <1>2
    <2> QED
      BY <2>1, <2>2, <2>3, <2>4, <1>5 DEF Nodes
  <1>7. ASSUME NEW n \in U \ (V \cup F), n # p
        PROVE  SameKin(U, t, V, n, U \ {x}, w, V \ {x}, n)
    <2>0. n # x /\ x \notin KidsIn(U, t, n)
      BY <1>7 DEF KidsIn
    <2>1. KidsIn(U \ {x}, w, n) = KidsIn(U, t, n)
      BY <2>0, <1>2 DEF KidsIn
    <2>2. w.node[n] = t.node[n] /\ w.ninfo[n] = t.ninfo[n] /\ w.ninfo[0] = t.ninfo[0]
      BY <2>0, <1>1, <1>2, <1>3
    <2>3. \A i \in KidsIn(U, t, n) : (i \in V \ {x} <=> i \in V) /\ w.ninfo[i] = t.ninfo[i]
      BY <2>0, <1>2 DEF KidsIn
    <2> QED
      BY <2>1, <2>2, <2>3, <1>2 DEF SameKin
  <1> QED
    BY <1>5, <1>6, <1>7, TreeStep

\* From t to w the children of y were adopted by x.
Adopted(U, t, x, y, w) ==
    /\ t.size \in Nat /\ w.size \in Nat /\ t.size <= w.size
    /\ \A i \in U : /\ w.node[i].check = IF i \in KidsIn(U, t, y) THEN x ELSE t.node[i].check
                    /\ w.node[i].base = IF i = x THEN t.node[y].base ELSE t.node[i].base
                    /\ w.ninfo[i].child = IF i = x THEN t.ninfo[y].child ELSE t.ninfo[i].child
                    /\ w.ninfo[i].sibling = t.ninfo[i].sibling

\* The leaf x is in the place of y then, and y is a leaf.
LEMMA TreeAdopted ==
    ASSUME NEW U, NEW t, NEW V, NEW F, NEW p, Tree(U, t, V, F, p), NEW x, x \in F,
           NEW y, y \in U \ (V \cup F), y # 0, t.node[x].check = p, t.node[y].check = p,
           NEW w, Adopted(U, t, x, y, w)
    PROVE  Tree(U, w, V, (F \ {x}) \cup {y}, p)
  <1> DEFINE F1 == (F \ {x}) \cup {y}
  <1>1. /\ 0 \in U /\ U \subseteq 0..(t.size - 1)
        /\ V \subseteq U \ {0} /\ F \subseteq U \ {0} /\ V \cap F = {}
        /\ \A i \in U \ {0} : t.node[i].check \in U \ (V \cup F) /\ t.node[i].check # i
        /\ \A i \in U \ {0} : i \div B = 0 => t.node[i].check = 0 /\ i \in FirstLabels
    BY DEF Tree, Nodes
  <1>2. t.size \in Nat /\ w.size \in Nat /\ t.size <= w.size
    BY DEF Adopted
  <1>3. \A i \in U : w.node[i].check = IF i \in KidsIn(U, t, y) THEN x ELSE t.node[i].check
    BY DEF Adopted
  <1>4. \A i \in U : /\ w.node[i].base = IF i = x THEN t.node[y].base ELSE t.node[i].base
                     /\ w.ninfo[i].child = IF i = x THEN t.ninfo[y].child ELSE t.ninfo[i].child
                     /\ w.ninfo[i].sibling = t.ninfo[i].sibling
    BY DEF Adopted
  <1>5. 0..(t.size - 1) \subseteq 0..(w.size - 1) /\ x # 0 /\ x \in U /\ y \in U /\ x # y /\ y # p
    BY <1>1, <1>2
  <1>6. U \ (V \cup F1) = ((U \ (V \cup F)) \ {y}) \cup {x}
    BY <1>1, <1>5
  <1>7. \A i : i \in KidsIn(U, t, y) <=> i \in U \ {0} /\ t.node[i].check = y
    BY DEF KidsIn
  <1>8. x \notin KidsIn(U, t, y)
    BY <1>5, <1>7
  <1>9. Nodes(U, w, V, F1)
    <2>1. 0 \in U /\ U \subseteq 0..(w.size - 1)
      BY <1>1, <1>5
    <2>2. V \subseteq U \ {0} /\ F1 \subseteq U \ {0} /\ V \cap F1 = {}
      BY <1>1, <1>5
    <2>3. \A i \in U \ {0} : w.node[i].check \in ((U \ (V \cup F)) \ {y}) \cup {x} /\ w.node[i].check # i
      BY <1>1, <1>3, <1>5, <1>7, <1>8
    <2>4. \A i \in U \ {0} : i \div B = 0 => w.node[i].check = 0 /\ i \in FirstLabels
      BY <1>1, <1>3, <1>5, <1>7
    <2> QED
      BY <2>1, <2>2, <2>3, <2>4, <1>6 DEF Nodes
  <1>10. KidsIn(U, w, x) = KidsIn(U, t, y)
    <2>1. \A i \in U \ {0} : t.node[i].check # x
      BY <1>1
    <2>2. \A i \in U \ {0} : w.node[i].check = x <=> i \in KidsIn(U, t, y)
      BY <2>1, <1>3, <1>7
    <2> QED
      BY <2>2, <1>7 DEF KidsIn
  <1>11. SameKin(U, t, V, y, U, w, V, x)
    <2>1. w.node[x].base = t.node[y].base /\ w.ninfo[x].child = t.ninfo[y].child
      BY <1>4, <1>5
    <2>2. \A i \in KidsIn(U, t, y) : w.ninfo[i].sibling = t.ninfo[i].sibling
      BY <1>4, <1>7
    <2> QED
      BY <2>1, <2>2, <1>2, <1>5, <1>10 DEF SameKin
  <1>12. ASSUME NEW n \in U \ (V \cup F), n # y
         PROVE  SameKin(U, t, V, n, U, w, V, n)
    <2>1. n # x
      BY <1>12
    <2>2. KidsIn(U, w, n) = KidsIn(U, t, n)
      <3>1. \A i \in U \ {0} : w.node[i].check = n <=> t.node[i].check = n
        BY <2>1, <1>3, <1>7, <1>12
      <3> QED
        BY <3>1 DEF KidsIn
    <2>3. w.node[n].base = t.node[n].base /\ w.ninfo[n].child = t.ninfo[n].child
          /\ w.ninfo[0].sibling = t.ninfo[0].sibling
      BY <2>1, <1>1, <1>4
    <2>4. \A i \in KidsIn(U, t, n) : w.ninfo[i].sibling = t.ninfo[i].sibling
      BY <1>4 DEF KidsIn
    <2> QED
      BY <2>2, <2>3, <2>4, <1>2 DEF SameKin
  <1>13. ASSUME NEW n \in U \ (V \cup F1), n # p
         PROVE  \E m \in U \ (V \cup F) : m # p /\ SameKin(U, t, V, m, U, w, V, n)
    <2>1. CASE n = x
      BY <2>1, <1>5, <1>11
    <2>2. CASE n # x
      <3>1. n \in U \ (V \cup F) /\ n # y
        BY <2>2, <1>6, <1>13
      <3> QED
        BY <3>1, <1>12, <1>13
    <2> QED
      BY <2>1, <2>2
  <1> HIDE DEF F1
  <1>14. Tree(U, w, V, F1, p)
    BY <1>9, <1>13, TreeStep
  <1> QED
    BY <1>14 DEF F1

\* From t to w the leaf y of p became the child of q under a label.
Reparented(U, t, V, F, q, y, label, w, V1) ==
    /\ KidAdded(U, t, V, q, y, label, U, w, V1)
    /\ w.node[y].check = q
    /\ \A i \in U : i # y => w.node[i].check = t.node[i].check
    /\ \A i \in U \ (V \cup F) : i # q =>
         w.node[i].base = t.node[i].base /\ w.ninfo[i].child = t.ninfo[i].child
    /\ \A i \in U \ {0, y} : t.node[i].check # q => w.ninfo[i].sibling = t.ninfo[i].sibling
    /\ q # 0 => w.ninfo[0].sibling = t.ninfo[0].sibling

\* It is a leaf of the tree still.
LEMMA TreeReparented ==
    ASSUME NEW U, NEW t, NEW V, NEW F, NEW p, Tree(U, t, V, F, p), NEW y, y \in V \cup F,
           t.node[y].check = p, y \div B # 0, NEW q, q \in U \ (V \cup F), q # p,
           NEW label, NEW w, NEW V1, NEW F1,
           IF label = 0 THEN V1 = V \cup {y} /\ F1 = F \ {y} ELSE V1 = V \ {y} /\ F1 = F \cup {y},
           Reparented(U, t, V, F, q, y, label, w, V1)
    PROVE  Tree(U, w, V1, F1, p)
  <1>1. /\ 0 \in U /\ U \subseteq 0..(t.size - 1)
        /\ V \subseteq U \ {0} /\ F \subseteq U \ {0} /\ V \cap F = {}
        /\ \A i \in U \ {0} : t.node[i].check \in U \ (V \cup F) /\ t.node[i].check # i
        /\ \A i \in U \ {0} : i \div B = 0 => t.node[i].check = 0 /\ i \in FirstLabels
    BY DEF Tree, Nodes
  <1>2. t.size \in Nat /\ w.size \in Nat /\ t.size <= w.size
    BY DEF Reparented, KidAdded
  <1>3. w.node[y].check = q /\ \A i \in U : i # y => w.node[i].check = t.node[i].check
    BY DEF Reparented
  <1>4. 0..(t.size - 1) \subseteq 0..(w.size - 1) /\ y # 0 /\ y \in U /\ q # y
    BY <1>1, <1>2
  <1>5. V1 \cup F1 = V \cup F /\ V1 \cap F1 = {} /\ \A i : i # y => (i \in V1 <=> i \in V)
    <2>1. CASE label = 0
      <3>1. V1 = V \cup {y} /\ F1 = F \ {y}
        BY <2>1
      <3> QED
        BY <3>1, <1>1
    <2>2. CASE label # 0
      <3>1. V1 = V \ {y} /\ F1 = F \cup {y}
        BY <2>2
      <3> QED
        BY <3>1, <1>1
    <2> QED
      BY <2>1, <2>2
  <1>6. Nodes(U, w, V1, F1)
    <2>1. 0 \in U /\ U \subseteq 0..(w.size - 1)
      BY <1>1, <1>4
    <2>2. V1 \subseteq U \ {0} /\ F1 \subseteq U \ {0}
      BY <1>1, <1>5
    <2>3. \A i \in U \ {0} : w.node[i].check \in U \ (V \cup F) /\ w.node[i].check # i
      BY <1>1, <1>3, <1>4
    <2>4. \A i \in U \ {0} : i \div B = 0 => w.node[i].check = 0 /\ i \in FirstLabels
      BY <1>1, <1>3
    <2> QED
      BY <2>1, <2>2, <2>3, <2>4, <1>5 DEF Nodes
  <1>7. \E s : Kin(U, w, V1, q, s)
    <2>1. PICK s : Kin(U, t, V, q, s)
      BY DEF Tree
    <2>2. KidAdded(U, t, V, q, y, label, U, w, V1)
      BY DEF Reparented
    <2>3. Kin(U, w, V1, q, Ins(s, IF s[1] = 0 THEN 2 ELSE 1, label))
      BY <2>1, <2>2, KinAdd
    <2> QED
      BY <2>3
  <1>8. ASSUME NEW n \in U \ (V \cup F), n # p, n # q
        PROVE  SameKin(U, t, V, n, U, w, V1, n)
    <2>1. KidsIn(U, w, n) = KidsIn(U, t, n) /\ y \notin KidsIn(U, t, n)
      <3>1. \A i \in U \ {0} : w.node[i].check = n <=> t.node[i].check = n
        BY <1>3, <1>8
      <3>2. t.node[y].check # n
        BY <1>8
      <3> QED
        BY <3>1, <3>2 DEF KidsIn
    <2>2. w.node[n].base = t.node[n].base /\ w.ninfo[n].child = t.ninfo[n].child
      BY <1>8 DEF Reparented
    <2>3. \A i \in KidsIn(U, t, n) : (i \in V1 <=> i \in V) /\ w.ninfo[i].sibling = t.ninfo[i].sibling
      <3> TAKE i \in KidsIn(U, t, n)
      <3>1. i \in U \ {0, y} /\ t.node[i].check = n
        BY <2>1 DEF KidsIn
      <3>2. w.ninfo[i].sibling = t.ninfo[i].sibling
        BY <3>1, <1>8 DEF Reparented
      <3> QED
        BY <3>1, <3>2, <1>5
    <2>4. n = 0 => w.ninfo[0].sibling = t.ninfo[0].sibling
      BY <1>8 DEF Reparented
    <2> QED
      BY <2>1, <2>2, <2>3, <2>4, <1>2 DEF SameKin
  <1>9. \A n \in U \ (V1 \cup F1) : n # p =>
          \/ \E s : Kin(U, w, V1, n, s)
          \/ \E m \in U \ (V \cup F) : m # p /\ SameKin(U, t, V, m, U, w, V1, n)
    BY <1>5, <1>7, <1>8
  <1> QED
    BY <1>6, <1>9, TreeStep

-----------------------------------------------------------------------------
(* The allocator, as the tree sees it                                      *)

\* A child is in the array when the base is.
LEMMA ToInside ==
    ASSUME NEW t, Shape(t), NEW i, i \in 0..(t.size - 1), NEW l, l \in Label
    PROVE  To(i, l) \in 0..(t.size - 1) /\ To(i, l) \div B = i \div B /\ i \in Nat /\ To(i, l) \in Nat
  <1>1. t.size \in Nat /\ NB(t) \in Nat /\ t.size = B * NB(t)
    <2>1. t.size \in Nat /\ NB(t) \in Nat
      BY Sizes
    <2>2. t.size = B * NB(t)
      BY DEF Shape
    <2> QED
      BY <2>1, <2>2
  <1> DEFINE b == NB(t)
             j == To(i, l)
  <1>2. i \in Nat /\ i < t.size
    BY <1>1
  <1>3. j \in Nat /\ j \div B = i \div B
    BY <1>2, ToBlock
  <1>4. t.size = B * b /\ b \in Nat
    BY <1>1
  <1> HIDE DEF b, j
  <1>5. (i < B * b <=> i \div B < b) /\ (j < B * b <=> j \div B < b)
    BY <1>2, <1>3, <1>4, BlockInterval
  <1>6. j < t.size
    <2>1. i < B * b
      BY <1>2, <1>4
    <2>2. j < B * b
      BY <2>1, <1>3, <1>5
    <2> QED
      BY <2>2, <1>4
  <1>7. j \in 0..(t.size - 1)
    BY <1>1, <1>3, <1>6
  <1> QED
    BY <1>2, <1>3, <1>7 DEF j

\* From t to w node e was taken.
TookNode(t, w, e, label, from) ==
    /\ Alloc(w) /\ w.size = t.size /\ Free(w) = Free(t) \ {e}
    /\ InUse(w) = InUse(t) \cup {e} /\ e \notin InUse(t) /\ e \in 1..(w.size - 1)
    /\ SameOn(InUse(t), t, w) /\ w.ninfo = t.ninfo
    /\ w.node[e] = FreshNode(label, from) /\ w.ninfo[e] = NewNinfo

\* TakeNode takes a free node.
LEMMA TakeOk ==
    ASSUME NEW t, Alloc(t), NEW e, e \in Free(t), e \div B = 0 => FreeIn(t, 0) # {e},
           NEW label, label \in Label, NEW from, from \in Nat
    PROVE  TookNode(t, TakeNode(t, e, label, from), e, label, from)
  <1> DEFINE w == TakeNode(t, e, label, from)
  <1>1. Alloc(w) /\ Taken(t, w, e, label, from)
    BY TakeNodeOk
  <1> HIDE DEF w
  <1>2. /\ w.size = t.size /\ w.ninfo = t.ninfo /\ w.node[e] = FreshNode(label, from)
        /\ Free(w) = Free(t) \ {e}
        /\ \A i \in 0..(t.capacity - 1) : i \notin Free(t) => w.node[i] = t.node[i]
    BY <1>1 DEF Taken
  <1>3. /\ t.size \in Nat /\ InUse(t) \subseteq 0..(t.size - 1)
        /\ 0..(t.size - 1) \subseteq 0..(t.capacity - 1)
        /\ \A i \in 0..(t.capacity - 1) : i \in InUse(t) <=> ~ Spare(t, i)
    BY NodeTypes DEF Alloc
  <1>4. e \in 0..(t.size - 1) /\ e # 0
    BY DEF Free
  <1>5. e \in 1..(t.size - 1)
    BY <1>3, <1>4
  <1>6. InUse(w) = InUse(t) \cup {e} /\ e \notin InUse(t)
    BY <1>2, <1>4 DEF InUse
  <1>7. SameOn(InUse(t), t, w)
    <2>1. \A i \in InUse(t) : i \in 0..(t.capacity - 1) /\ i \notin Free(t)
      BY <1>3 DEF InUse
    <2> QED
      BY <2>1, <1>2, <1>3 DEF SameOn
  <1>8. w.ninfo[e] = NewNinfo
    <2>1. Spare(t, e) /\ e \in 0..(t.capacity - 1)
      BY <1>3, <1>4, <1>6
    <2>2. t.ninfo[e] = NewNinfo
      BY <2>1 DEF Alloc
    <2> QED
      BY <2>2, <1>2
  <1>9. TookNode(t, w, e, label, from)
    BY <1>1, <1>2, <1>5, <1>6, <1>7, <1>8 DEF TookNode
  <1> QED
    BY <1>9 DEF w

\* From t to w node e was given back.
GaveNode(t, w, e) ==
    /\ Alloc(w) /\ w.size = t.size /\ Free(w) = Free(t) \cup {e}
    /\ InUse(w) = InUse(t) \ {e} /\ SameOn(InUse(t) \ {e}, t, w)

\* PushEmptyNode gives a used node back.
LEMMA GiveOk ==
    ASSUME NEW t, Alloc(t), NEW e, e \in InUse(t), e # 0
    PROVE  GaveNode(t, PushEmptyNode(t, e), e)
  <1> DEFINE w == PushEmptyNode(t, e)
  <1>1. /\ t.size \in Nat /\ InUse(t) \subseteq 0..(t.size - 1)
        /\ 0..(t.size - 1) \subseteq 0..(t.capacity - 1)
        /\ \A i \in 1..(t.size - 1) : i \in InUse(t) <=> t.node[i].check >= 0
    BY NodeTypes DEF Alloc
  <1>2. UsedNode(t, e)
    <2>1. e \in 1..(t.size - 1)
      BY <1>1
    <2> QED
      BY <2>1, <1>1 DEF UsedNode
  <1>3. Alloc(w) /\ Freed(t, w, e)
    BY <1>2, PushEmptyNodeOk
  <1> HIDE DEF w
  <1>4. /\ w.size = t.size
        /\ \A i \in 0..(t.capacity - 1) : i # e => w.ninfo[i] = t.ninfo[i]
        /\ Free(w) = Free(t) \cup {e}
        /\ \A i \in 0..(t.capacity - 1) : i \notin Free(t) \cup {e} => w.node[i] = t.node[i]
    BY <1>3 DEF Freed
  <1>5. InUse(w) = InUse(t) \ {e}
    BY <1>4 DEF InUse
  <1>6. SameOn(InUse(t) \ {e}, t, w)
    <2>1. \A i \in InUse(t) \ {e} : i \in 0..(t.capacity - 1) /\ i \notin Free(t) \cup {e} /\ i # e
      BY <1>1 DEF InUse
    <2> QED
      BY <2>1, <1>1, <1>4 DEF SameOn
  <1>7. GaveNode(t, w, e)
    BY <1>3, <1>4, <1>5, <1>6 DEF GaveNode
  <1> QED
    BY <1>7 DEF w

\* From t to w no node in use changed.
KeptNodes(t, w) == Alloc(w) /\ InUse(w) = InUse(t) /\ SameOn(InUse(t), t, w)

\* A search for a place changes no node in use.
LEMMA FoundKeeps ==
    ASSUME NEW t, Alloc(t), NEW f, Found(t, f)
    PROVE  KeptNodes(t, f.t) /\ f.to \in Free(f.t) /\ f.to \div B # 0
  <1> DEFINE w == f.t
  <1>1. Alloc(w) /\ Held(t, w) /\ f.to \in Free(w) /\ f.to \div B # 0
    BY DEF Found, Place
  <1> HIDE DEF w
  <1>2. /\ t.size <= w.size
        /\ \A i \in 0..(t.size - 1) : w.node[i] = t.node[i] /\ w.ninfo[i] = t.ninfo[i]
        /\ \A i \in t.size..(w.size - 1) : i \in Free(w)
    BY <1>1 DEF Held
  <1>3. t.size \in Nat /\ w.size \in Nat /\ InUse(t) \subseteq 0..(t.size - 1)
    BY <1>1, NodeTypes DEF Alloc
  <1>4. InUse(w) = InUse(t)
    <2>1. \A i \in 0..(w.size - 1) : i \in 0..(t.size - 1) \/ i \in t.size..(w.size - 1)
      BY <1>3
    <2>2. 0..(t.size - 1) \subseteq 0..(w.size - 1)
      BY <1>2, <1>3
    <2>3. \A i \in 0..(t.size - 1) : i \in Free(w) <=> i \in Free(t)
      BY <2>2, <1>2 DEF Free
    <2>4. \A i : i \in InUse(w) <=> i \in 0..(w.size - 1) /\ i \notin Free(w)
      BY DEF InUse
    <2>5. \A i : i \in InUse(t) <=> i \in 0..(t.size - 1) /\ i \notin Free(t)
      BY DEF InUse
    <2>6. \A i : i \in InUse(w) <=> i \in InUse(t)
      BY <2>1, <2>2, <2>3, <2>4, <2>5, <1>2
    <2> QED
      BY <2>6
  <1>5. SameOn(InUse(t), t, w)
    BY <1>2, <1>3 DEF SameOn
  <1>6. KeptNodes(t, w)
    BY <1>1, <1>4, <1>5 DEF KeptNodes
  <1> QED
    BY <1>1, <1>6 DEF w

-----------------------------------------------------------------------------
(* A label on the list of the children                                     *)

\* From t to w the label, with node x, went to the head of the list of q, or,
\* if second, behind the label 0 there.
SiblingPushed(t, w, q, base, x, label, second) ==
    /\ Wrote(t, w) /\ w.node = t.node
    /\ second => \A j \in 0..(t.size - 1) :
         /\ w.ninfo[j].child = t.ninfo[j].child
         /\ w.ninfo[j].sibling = CASE j = base -> label
                                   [] j = x -> t.ninfo[base].sibling
                                   [] OTHER -> t.ninfo[j].sibling
    /\ ~ second => \A j \in 0..(t.size - 1) :
         /\ w.ninfo[j].child = IF j = q THEN label ELSE t.ninfo[j].child
         /\ w.ninfo[j].sibling = IF j = x THEN t.ninfo[q].child ELSE t.ninfo[j].sibling

\* What is written twice
LEMMA WroteTwice ==
    ASSUME NEW t, NEW u, NEW w, Wrote(t, u), Wrote(u, w)
    PROVE  Wrote(t, w)
  BY DEF Wrote

\* PushSibling writes two labels.
LEMMA PushSiblingOk ==
    ASSUME NEW t, Alloc(t), NEW q, q \in InUse(t), NEW base, NEW label, label \in Label,
           NEW x, x = To(base, label), x \in InUse(t), NEW behind, behind \in BOOLEAN,
           NEW second, second = (behind /\ t.ninfo[q].child = 0),
           second => base \in InUse(t) /\ base # x
    PROVE  SiblingPushed(t, PushSibling(t, q, base, label, behind), q, base, x, label, second)
  <1> DEFINE c == IF second THEN t.ninfo[base].sibling ELSE t.ninfo[q].child
             u == [t EXCEPT !.ninfo[x].sibling = c]
             w2 == [u EXCEPT !.ninfo[base].sibling = label]
             w1 == [u EXCEPT !.ninfo[q].child = label]
  <1>1. PushSibling(t, q, base, label, behind) = IF second THEN w2 ELSE w1
    BY DEF PushSibling
  <1>2. /\ t.size \in Nat /\ InUse(t) \subseteq 0..(t.size - 1)
        /\ 0..(t.size - 1) \subseteq 0..(t.capacity - 1)
        /\ \A i \in 0..(t.capacity - 1) : t.ninfo[i].sibling \in Label /\ t.ninfo[i].child \in Label
    BY NodeTypes DEF Alloc
  <1>3. c \in Label
    BY <1>2
  <1>4. /\ second => c = t.ninfo[base].sibling
        /\ ~ second => c = t.ninfo[q].child
    OBVIOUS
  <1> HIDE DEF c
  <1>5. SiblingSet(t, u, x, c)
    BY <1>3, SetSibling
  <1> HIDE DEF u
  <1>6. /\ Wrote(t, u) /\ Alloc(u) /\ InUse(u) = InUse(t) /\ u.size = t.size /\ u.node = t.node
        /\ \A j \in 0..(t.size - 1) : /\ u.ninfo[j].child = t.ninfo[j].child
                                      /\ u.ninfo[j].sibling = IF j = x THEN c ELSE t.ninfo[j].sibling
    BY <1>5 DEF SiblingSet, Wrote
  <1>7. CASE second
    <2>1. base \in InUse(u) /\ base # x
      BY <1>6, <1>7
    <2>2. SiblingSet(u, w2, base, label)
      BY <2>1, <1>6, SetSibling
    <2> HIDE DEF w2
    <2>3. /\ Wrote(u, w2) /\ w2.node = u.node
          /\ \A j \in 0..(u.size - 1) : /\ w2.ninfo[j].child = u.ninfo[j].child
                                        /\ w2.ninfo[j].sibling = IF j = base THEN label ELSE u.ninfo[j].sibling
      BY <2>2 DEF SiblingSet
    <2>4. Wrote(t, w2)
      BY <2>3, <1>6, WroteTwice
    <2>5. \A j \in 0..(t.size - 1) :
            /\ w2.ninfo[j].child = t.ninfo[j].child
            /\ w2.ninfo[j].sibling = CASE j = base -> label
                                       [] j = x -> t.ninfo[base].sibling
                                       [] OTHER -> t.ninfo[j].sibling
      BY <2>1, <2>3, <1>4, <1>6, <1>7
    <2>6. SiblingPushed(t, w2, q, base, x, label, second)
      BY <2>3, <2>4, <2>5, <1>6, <1>7 DEF SiblingPushed
    <2> QED
      BY <2>6, <1>1, <1>7
  <1>8. CASE ~ second
    <2>2. ChildSet(u, w1, q, label)
      BY <1>6, SetFirst
    <2> HIDE DEF w1
    <2>3. /\ Wrote(u, w1) /\ w1.node = u.node
          /\ \A j \in 0..(u.size - 1) : /\ w1.ninfo[j].sibling = u.ninfo[j].sibling
                                        /\ w1.ninfo[j].child = IF j = q THEN label ELSE u.ninfo[j].child
      BY <2>2 DEF ChildSet
    <2>4. Wrote(t, w1)
      BY <2>3, <1>6, WroteTwice
    <2>5. \A j \in 0..(t.size - 1) :
            /\ w1.ninfo[j].child = IF j = q THEN label ELSE t.ninfo[j].child
            /\ w1.ninfo[j].sibling = IF j = x THEN t.ninfo[q].child ELSE t.ninfo[j].sibling
      BY <2>3, <1>4, <1>6, <1>8
    <2>6. SiblingPushed(t, w1, q, base, x, label, second)
      BY <2>3, <2>4, <2>5, <1>6, <1>8 DEF SiblingPushed
    <2> QED
      BY <2>6, <1>1, <1>8
  <1> QED
    BY <1>7, <1>8

-----------------------------------------------------------------------------
(* A new child                                                             *)

\* What is known of a node with children
LEMMA KinFacts ==
    ASSUME NEW U, NEW t, NEW V, NEW F, NEW p, Tree(U, t, V, F, p), t.size \in Nat,
           NEW q, q \in U \ (V \cup F), q # p
    PROVE  /\ t.node[q].base \in Nat /\ t.node[q].base \in 0..(t.size - 1)
           /\ t.node[q].base \div B = 0 <=> q = 0
           /\ q = 0 => t.node[q].base = 0 /\ t.ninfo[q].child = 0
           /\ t.ninfo[q].child = 0 => t.node[q].base \in U
           /\ t.ninfo[q].child = 0 => t.node[q].base = 0 \/ t.node[q].base \in KidsIn(U, t, q)
           /\ \A x \in KidsIn(U, t, q) : x \div B = t.node[q].base \div B
           /\ \A x \in KidsIn(U, t, q) : x \in V <=> x = t.node[q].base
  <1>1. PICK s : Kin(U, t, V, q, s)
    BY DEF Tree
  <1> DEFINE base == t.node[q].base
  <1>2. base \in 0..(t.size - 1) /\ (base \div B = 0 <=> q = 0)
    BY <1>1 DEF Kin
  <1>3. q = 0 => base = 0 /\ s[1] = 0
    BY <1>1 DEF Kin
  <1>4. Chain(t, base, t.ninfo[q].child, s)
    BY <1>1 DEF Kin
  <1>5. \A l \in Members(s) : To(base, l) \in KidsIn(U, t, q) \/ (q = 0 /\ l = 0)
    BY <1>1 DEF Kin
  <1>6. \A x \in KidsIn(U, t, q) : \E l \in Members(s) : x = To(base, l)
    BY <1>1 DEF Kin
  <1>7. \A x \in KidsIn(U, t, q) : x \in V <=> x = base
    BY <1>1 DEF Kin
  <1> HIDE DEF base
  <1>8. base \in Nat
    BY <1>2
  <1>9. s \in Lists /\ s[1] = t.ninfo[q].child /\ s[1] \in Members(s)
        /\ \A l \in Members(s) : l \in Label
    <2>1. s \in Lists /\ s[1] = t.ninfo[q].child
      BY <1>4 DEF Chain
    <2>2. Len(s) \in Nat /\ Len(s) >= 1 /\ \A i \in 1..Len(s) : s[i] \in Label
      BY <2>1, ListNamed DEF Named
    <2>3. 1 \in 1..Len(s)
      BY <2>2
    <2> QED
      BY <2>1, <2>2, <2>3 DEF Members
  <1>10. \A x \in KidsIn(U, t, q) : x \div B = base \div B
    BY <1>6, <1>8, <1>9, ToBlock
  <1>11. To(base, 0) = base
    <2>1. 0 \in Label
      BY LabelAssumption DEF Label
    <2> QED
      BY <2>1, <1>8, ToFacts
  <1>12. t.ninfo[q].child = 0 => base = 0 \/ base \in KidsIn(U, t, q)
    BY <1>3, <1>5, <1>9, <1>11
  <1>13. t.ninfo[q].child = 0 => base \in U
    BY <1>12 DEF KidsIn, Tree, Nodes
  <1> QED
    BY <1>2, <1>3, <1>7, <1>8, <1>9, <1>10, <1>12, <1>13 DEF base

\* The leaves with one more, a value if the label is 0
PlusV(V, x, label) == IF label = 0 THEN V \cup {x} ELSE V
PlusF(F, x, label) == IF label = 0 THEN F ELSE F \cup {x}

\* A node is made for a label, and is put on the list of the children of q.
AddedChild(t, w, V, F, x, label) ==
    /\ Alloc(w) /\ InUse(w) = InUse(t) \cup {x} /\ x # 0
    /\ Tree(InUse(w), w, PlusV(V, x, label), PlusF(F, x, label), -1)
    /\ label # 0 => w.node[x].base = -1 /\ w.ninfo[x].child = 0

\* A child is made at a free place and put on the list of its parent, which has children
\* or is a base of its own: the tree has one more node.
LEMMA AddChildOk ==
    ASSUME NEW t, Alloc(t), NEW V, NEW F, Tree(InUse(t), t, V, F, -1),
           NEW q, q \in InUse(t) \ (V \cup F), NEW label, label \in Label,
           q = 0 => label \in FirstLabels /\ label # 0,
           NEW base, base = t.node[q].base, NEW x, x = To(base, label), x \in Free(t),
           x \div B = 0 => FreeIn(t, 0) # {x}
    PROVE  AddedChild(t, PushSibling(TakeNode(t, x, label, q), q, base, label, TRUE), V, F, x, label)
  <1> DEFINE U == InUse(t)
             U1 == U \cup {x}
             V1 == PlusV(V, x, label)
             F1 == PlusF(F, x, label)
             u == TakeNode(t, x, label, q)
             w == PushSibling(u, q, base, label, TRUE)
             second == t.ninfo[q].child = 0
  <1>1. Shape(t) /\ t.size \in Nat /\ U \subseteq 0..(t.size - 1) /\ 0 \in U
    <2>1. Shape(t)
      BY DEF Alloc
    <2> QED
      BY <2>1, NodeTypes
  <1>2. q \in U /\ q \notin V /\ q \notin F /\ q \in Nat /\ q # -1
    BY <1>1
  <1>3. /\ base \in Nat /\ base \in 0..(t.size - 1) /\ (base \div B = 0 <=> q = 0)
        /\ (q = 0 => base = 0 /\ t.ninfo[q].child = 0)
        /\ (t.ninfo[q].child = 0 => base \in U)
        /\ (t.ninfo[q].child = 0 => base = 0 \/ base \in KidsIn(U, t, q))
    BY <1>1, <1>2, KinFacts
  <1>4. TookNode(t, u, x, label, q)
    BY <1>2, TakeOk
  <1>5. PICK s : Kin(U, t, V, q, s)
    BY <1>2 DEF Tree
  <1>6. x \div B = base \div B
    BY <1>3, ToBlock
  <1> HIDE DEF u
  <1>7. /\ Alloc(u) /\ u.size = t.size /\ InUse(u) = U1 /\ x \notin U /\ x \in 1..(u.size - 1)
        /\ SameOn(U, t, u) /\ u.ninfo = t.ninfo
        /\ u.node[x] = FreshNode(label, q) /\ u.ninfo[x] = NewNinfo
    BY <1>4 DEF TookNode
  <1>8. x # 0 /\ q # x /\ x \in 0..(t.size - 1)
    BY <1>1, <1>2, <1>7
  <1>9. u.node[x].check = q /\ (label # 0 => u.node[x].base = -1)
    BY <1>7 DEF FreshNode
  <1>10. u.ninfo[x].child = 0 /\ u.ninfo[x].sibling = 0
    BY <1>7 DEF NewNinfo
  <1>11. \A i \in U : u.node[i] = t.node[i]
    BY <1>7 DEF SameOn
  <1>12. Tree(U1, u, V1, F1, q)
    <2>1. Tree(U, t, V, F, q)
      BY TreeOpen
    <2>2. x \div B = 0 => q = 0 /\ x \in FirstLabels
      <3> SUFFICES ASSUME x \div B = 0 PROVE q = 0 /\ x \in FirstLabels
        OBVIOUS
      <3>1. q = 0 /\ base = 0 /\ label \in FirstLabels
        BY <1>3, <1>6
      <3>2. x = label
        <4>1. 0 \div B = 0 /\ 0 % B = 0 /\ 0 \in Nat /\ 0 \in Label
          BY LabelAssumption DEF Label
        <4>2. XorOf[0][label] = label
          <5>1. XorOf[label][0] = label /\ XorOf[0][label] = XorOf[label][0]
            BY <4>1, XorAssumption
          <5> QED
            BY <5>1
        <4>3. To(0, label) = B * 0 + label
          BY <4>1, <4>2 DEF To
        <4>4. B \in Nat /\ label \in Nat
          BY LabelAssumption DEF Label
        <4> QED
          BY <4>3, <4>4, <3>1
      <3> QED
        BY <3>1, <3>2
    <2>3. \/ V1 = V /\ F1 = F \cup {x}
          \/ V1 = V \cup {x} /\ F1 = F
      BY DEF PlusV, PlusF
    <2> HIDE DEF V1, F1, U
    <2> QED
      BY <2>1, <2>2, <2>3, <1>2, <1>7, <1>9, LeafAdded
  <1>13. SiblingPushed(u, w, q, base, x, label, second)
    <2>1. q \in InUse(u) /\ x \in InUse(u)
      BY <1>2, <1>7
    <2>2. second = (TRUE /\ u.ninfo[q].child = 0)
      BY <1>7
    <2>3. second => base \in InUse(u) /\ base # x
      BY <1>3, <1>7
    <2> HIDE DEF second
    <2> QED
      BY <2>1, <2>2, <2>3, <1>7, PushSiblingOk
  <1> HIDE DEF w
  <1>14. /\ Alloc(w) /\ InUse(w) = U1 /\ w.size = t.size /\ w.node = u.node
    BY <1>7, <1>13 DEF SiblingPushed, Wrote
  <1>15. second => \A j \in 0..(t.size - 1) :
           /\ w.ninfo[j].child = t.ninfo[j].child
           /\ w.ninfo[j].sibling = CASE j = base -> label
                                     [] j = x -> t.ninfo[base].sibling
                                     [] OTHER -> t.ninfo[j].sibling
    BY <1>7, <1>13 DEF SiblingPushed
  <1>16. ~ second => \A j \in 0..(t.size - 1) :
           /\ w.ninfo[j].child = IF j = q THEN label ELSE t.ninfo[j].child
           /\ w.ninfo[j].sibling = IF j = x THEN t.ninfo[q].child ELSE t.ninfo[j].sibling
    BY <1>7, <1>13 DEF SiblingPushed
  <1>17. \A i \in U1 : i \in 0..(t.size - 1)
    BY <1>1, <1>8
  <1>18. KidsIn(U1, w, q) = KidsIn(U, t, q) \cup {x} /\ x \notin KidsIn(U, t, q)
    BY <1>7, <1>8, <1>9, <1>11, <1>14 DEF KidsIn
  <1>19. ListWritten(U1, u, V1, F1, q, w)
    <2>1. \A i \in U1 : w.node[i] = u.node[i]
      BY <1>14
    <2>2. \A i \in U1 : i # q => w.ninfo[i].child = u.ninfo[i].child
      BY <1>7, <1>15, <1>16, <1>17
    <2>3. \A i \in U1 : i # x /\ i # base => w.ninfo[i].sibling = u.ninfo[i].sibling
      BY <1>7, <1>15, <1>16, <1>17
    <2>4. base = 0 => q = 0
      <3>1. base = 0 => base \div B = 0
        BY LabelAssumption
      <3> QED
        BY <3>1, <1>3
    <2>5. ASSUME NEW i \in U1 \ {0}, u.node[i].check # q
          PROVE  w.ninfo[i].sibling = u.ninfo[i].sibling
      <3>1. i # x
        BY <2>5, <1>9
      <3>2. second => i # base
        <4>1. base \in KidsIn(U, t, q) => t.node[base].check = q /\ base \in U
          BY DEF KidsIn
        <4> QED
          BY <4>1, <2>5, <1>3, <1>11
      <3>3. CASE second
        BY <3>1, <3>2, <3>3, <2>3
      <3>4. CASE ~ second
        BY <3>1, <3>4, <1>7, <1>16, <1>17
      <3> QED
        BY <3>3, <3>4
    <2>6. q # 0 => w.ninfo[0].sibling = u.ninfo[0].sibling
      BY <2>3, <2>4, <1>1, <1>8
    <2> QED
      BY <2>1, <2>2, <2>5, <2>6, <1>1, <1>7, <1>14 DEF ListWritten
  <1>20. Tree(U1, w, V1, F1, q)
    BY <1>12, <1>19, TreeWritten
  <1>21. KidAdded(U, t, V, q, x, label, U1, w, V1)
    <2>1. \A y \in KidsIn(U, t, q) : y \in V1 <=> y \in V
      BY <1>18 DEF PlusV
    <2>2. x \in V1 <=> label = 0
      <3>1. V \subseteq U
        BY DEF Tree, Nodes
      <3> QED
        BY <3>1, <1>7 DEF PlusV
    <2>3. w.node[q].base = t.node[q].base
      BY <1>2, <1>11, <1>14
    <2>4. \A y \in KidsIn(U, t, q) : y \in 0..(t.size - 1) /\ y # x
      BY <1>17, <1>18 DEF KidsIn
    <2>5. t.ninfo[q].child = 0 =>
             /\ w.ninfo[q].child = 0 /\ w.ninfo[base].sibling = label
             /\ w.ninfo[x].sibling = t.ninfo[base].sibling
             /\ \A y \in KidsIn(U, t, q) : y # base => w.ninfo[y].sibling = t.ninfo[y].sibling
      <3> SUFFICES ASSUME t.ninfo[q].child = 0
                   PROVE  /\ w.ninfo[q].child = 0 /\ w.ninfo[base].sibling = label
                          /\ w.ninfo[x].sibling = t.ninfo[base].sibling
                          /\ \A y \in KidsIn(U, t, q) : y # base => w.ninfo[y].sibling = t.ninfo[y].sibling
        OBVIOUS
      <3>1. x # base /\ base \in 0..(t.size - 1) /\ q \in 0..(t.size - 1)
        BY <1>1, <1>2, <1>3, <1>7
      <3> QED
        BY <3>1, <2>4, <1>8, <1>15
    <2>6. t.ninfo[q].child # 0 =>
             /\ w.ninfo[q].child = label /\ w.ninfo[x].sibling = t.ninfo[q].child
             /\ \A y \in KidsIn(U, t, q) : w.ninfo[y].sibling = t.ninfo[y].sibling
      <3>1. q \in 0..(t.size - 1)
        BY <1>1, <1>2
      <3> QED
        BY <3>1, <2>4, <1>8, <1>16
    <2>7. /\ label \in Label /\ x = To(t.node[q].base, label) /\ x \notin KidsIn(U, t, q) /\ x # 0
          /\ KidsIn(U1, w, q) = KidsIn(U, t, q) \cup {x}
          /\ t.size \in Nat /\ w.size \in Nat /\ t.size <= w.size
      <3>1. x = To(t.node[q].base, label)
        OBVIOUS
      <3>2. KidsIn(U1, w, q) = KidsIn(U, t, q) \cup {x} /\ x \notin KidsIn(U, t, q)
        BY <1>18
      <3>3. t.size \in Nat /\ w.size \in Nat /\ t.size <= w.size
        BY <1>1, <1>14
      <3> HIDE DEF U, U1
      <3> QED
        BY <3>1, <3>2, <3>3, <1>8
    <2>8. t.ninfo[q].child = 0 =>
             /\ w.ninfo[q].child = 0 /\ w.ninfo[t.node[q].base].sibling = label
             /\ w.ninfo[x].sibling = t.ninfo[t.node[q].base].sibling
             /\ \A y \in KidsIn(U, t, q) : y # t.node[q].base => w.ninfo[y].sibling = t.ninfo[y].sibling
      BY <2>5
    <2> HIDE DEF U, U1, V1
    <2> QED
      BY <2>1, <2>2, <2>3, <2>6, <2>7, <2>8 DEF KidAdded
  <1>22. Tree(U1, w, V1, F1, -1)
    <2>1. Kin(U1, w, V1, q, Ins(s, IF s[1] = 0 THEN 2 ELSE 1, label))
      BY <1>5, <1>21, KinAdd
    <2> QED
      BY <2>1, <1>20, TreeClose
  <1>23. label # 0 => w.node[x].base = -1 /\ w.ninfo[x].child = 0
    BY <1>7, <1>8, <1>9, <1>10, <1>14, <1>15, <1>16
  <1>24. AddedChild(t, w, V, F, x, label)
    BY <1>8, <1>14, <1>22, <1>23 DEF AddedChild
  <1> QED
    BY <1>24 DEF w, u

\* A list of one label
LEMMA OneLabel ==
    ASSUME NEW l, l \in Label
    PROVE  <<l>> \in Lists /\ Len(<<l>>) = 1 /\ Members(<<l>>) = {l}
  <1>1. Named(<<l>>, 1)
    BY DEF Named
  <1>2. <<l>> \in Lists /\ Len(<<l>>) = 1
    BY <1>1, ListMade
  <1>3. Members(<<l>>) = {l}
    <2>1. 1..1 = {1}
      OBVIOUS
    <2> QED
      BY <2>1, <1>2 DEF Members
  <1> QED
    BY <1>2, <1>3

\* A node with one child x
KinOne(w, U1, V1, q, x, label) ==
    /\ w.node[q].base = To(x, label) /\ w.ninfo[q].child = label /\ w.ninfo[x].sibling = 0
    /\ KidsIn(U1, w, q) = {x} /\ (x \in V1 <=> label = 0)

\* Its list
LEMMA KinOneOk ==
    ASSUME NEW w, Shape(w), NEW x, x \in 0..(w.size - 1), x \div B # 0, NEW label, label \in Label,
           NEW q, q # 0, NEW U1, NEW V1, KinOne(w, U1, V1, q, x, label)
    PROVE  Kin(U1, w, V1, q, <<label>>)
  <1> DEFINE base == To(x, label)
             s == <<label>>
  <1>1. /\ w.node[q].base = base /\ w.ninfo[q].child = label /\ w.ninfo[x].sibling = 0
        /\ KidsIn(U1, w, q) = {x} /\ (x \in V1 <=> label = 0)
    BY DEF KinOne
  <1>2. base \in 0..(w.size - 1) /\ base \div B = x \div B /\ x \in Nat /\ base \in Nat
    BY ToInside
  <1>3. To(base, label) = x
    BY <1>2, ToFacts
  <1>4. s \in Lists /\ Len(s) = 1 /\ Members(s) = {label} /\ s[1] = label
    BY OneLabel
  <1>5. x = base <=> label = 0
    <2>1. 0 \in Label
      BY LabelAssumption DEF Label
    <2>2. To(x, 0) = x /\ (To(x, label) = To(x, 0) => label = 0)
      BY <2>1, <1>2, ToFacts
    <2> QED
      BY <2>2
  <1> HIDE DEF base, s
  <1>6. Chain(w, base, label, s)
    <2>1. \A i \in 2..Len(s) : FALSE
      BY <1>4
    <2>2. \A i \in 1..Len(s) : i = 1 /\ i = Len(s)
      BY <1>4
    <2>3. w.ninfo[To(base, s[1])].sibling = 0
      BY <1>1, <1>3, <1>4
    <2> QED
      BY <2>1, <2>2, <2>3, <1>4 DEF Chain
  <1>7. Kin(U1, w, V1, q, s)
    BY <1>1, <1>2, <1>3, <1>4, <1>5, <1>6 DEF Kin
  <1> QED
    BY <1>7 DEF s

\* A leaf gets its first child, under a label, at a free place.
FirstChild(t, x, label, q) ==
    [TakeNode(t, x, label, q) EXCEPT !.node[q].base = To(x, label)]

\* A new node without a base gets its first child, and its base with it: the tree has one
\* more node, which waits in its place.
LEMMA AddFirstOk ==
    ASSUME NEW t, Alloc(t), NEW V, NEW F, Tree(InUse(t), t, V, F, -1),
           NEW q, q \in F, t.ninfo[q].child = 0, NEW label, label \in Label,
           NEW x, x \in Free(t), x \div B # 0
    PROVE  AddedChild(t, PushSibling(FirstChild(t, x, label, q), q, To(x, label), label, FALSE),
                      V, F \ {q}, x, label)
  <1> DEFINE U == InUse(t)
             U1 == U \cup {x}
             F0 == F \ {q}
             V1 == PlusV(V, x, label)
             F1 == PlusF(F0, x, label)
             base == To(x, label)
             u == TakeNode(t, x, label, q)
             v == FirstChild(t, x, label, q)
             w == PushSibling(v, q, base, label, FALSE)
  <1>1. Shape(t) /\ t.size \in Nat /\ U \subseteq 0..(t.size - 1) /\ 0 \in U
    <2>1. Shape(t)
      BY DEF Alloc
    <2> QED
      BY <2>1, NodeTypes
  <1>2. Nodes(U, t, V, F)
    BY DEF Tree
  <1>3. q \in U /\ q # 0 /\ q \notin V /\ q \in Nat /\ q # -1 /\ F \subseteq U \ {0} /\ V \subseteq U \ {0}
        /\ q \in U \ (V \cup F0)
    BY <1>1, <1>2 DEF Nodes
  <1>4. TookNode(t, u, x, label, q)
    BY <1>3, TakeOk
  <1> HIDE DEF u
  <1>5. /\ Alloc(u) /\ u.size = t.size /\ InUse(u) = U1 /\ x \notin U /\ x \in 1..(u.size - 1)
        /\ SameOn(U, t, u) /\ u.ninfo = t.ninfo
        /\ u.node[x] = FreshNode(label, q) /\ u.ninfo[x] = NewNinfo
    BY <1>4 DEF TookNode
  <1>6. x # 0 /\ q # x /\ x \in 0..(t.size - 1) /\ x \in Nat
    BY <1>1, <1>3, <1>5
  <1>7. base \in Nat /\ base \in Int /\ To(base, label) = x
    <2>1. base \in Nat /\ To(base, label) = x
      BY <1>6, ToBlock, ToFacts
    <2> QED
      BY <2>1
  <1>8. u.node[x].check = q /\ (label # 0 => u.node[x].base = -1)
    BY <1>5 DEF FreshNode
  <1>9. u.ninfo[x].child = 0 /\ u.ninfo[x].sibling = 0
    BY <1>5 DEF NewNinfo
  <1>10. \A i \in U : u.node[i] = t.node[i]
    BY <1>5 DEF SameOn
  <1>11. BaseSet(u, v, q, base)
    <2>1. v = [u EXCEPT !.node[q].base = base]
      BY DEF FirstChild, u
    <2>2. q \in InUse(u)
      BY <1>3, <1>5
    <2> HIDE DEF v, base
    <2> QED
      BY <2>1, <2>2, <1>5, <1>7, SetBase
  <1> HIDE DEF v
  <1>12. /\ Wrote(u, v) /\ Alloc(v) /\ InUse(v) = U1 /\ v.size = t.size /\ v.ninfo = t.ninfo
         /\ \A j \in 0..(t.size - 1) : /\ v.node[j].check = u.node[j].check
                                       /\ v.node[j].base = IF j = q THEN base ELSE u.node[j].base
    BY <1>5, <1>11 DEF BaseSet, Wrote
  <1>13. SiblingPushed(v, w, q, base, x, label, FALSE)
    <2>1. q \in InUse(v) /\ x \in InUse(v)
      BY <1>3, <1>12
    <2>2. FALSE = (FALSE /\ v.ninfo[q].child = 0) /\ FALSE \in BOOLEAN
      OBVIOUS
    <2>3. x = To(base, label)
      BY <1>7
    <2> HIDE DEF base
    <2> QED
      BY <2>1, <2>2, <2>3, <1>12, PushSiblingOk
  <1> HIDE DEF w
  <1>14. /\ Alloc(w) /\ InUse(w) = U1 /\ w.size = t.size /\ w.node = v.node
         /\ \A j \in 0..(t.size - 1) :
               /\ w.ninfo[j].child = IF j = q THEN label ELSE t.ninfo[j].child
               /\ w.ninfo[j].sibling = IF j = x THEN t.ninfo[q].child ELSE t.ninfo[j].sibling
    BY <1>12, <1>13 DEF SiblingPushed, Wrote
  <1>15. \A i \in U1 : i \in 0..(t.size - 1)
    BY <1>1, <1>6
  <1>16. \A i \in U \ {0} : t.node[i].check # q
    BY <1>2 DEF Nodes
  <1>17. KidsIn(U1, w, q) = {x}
    <2>1. \A i \in U1 : w.node[i].check = u.node[i].check
      BY <1>12, <1>14, <1>15
    <2>2. \A i \in U1 \ {0} : w.node[i].check = q <=> i = x
      BY <2>1, <1>5, <1>8, <1>10, <1>16
    <2> QED
      BY <2>2, <1>6 DEF KidsIn
  <1>18. Tree(U1, u, V1, F1, q)
    <2>1. Tree(U, t, V, F0, q)
      BY LeafOpen
    <2>2. x \div B = 0 => q = 0 /\ x \in FirstLabels
      OBVIOUS
    <2>3. \/ V1 = V /\ F1 = F0 \cup {x}
          \/ V1 = V \cup {x} /\ F1 = F0
      BY DEF PlusV, PlusF
    <2> HIDE DEF V1, F1, U, F0
    <2> QED
      BY <2>1, <2>2, <2>3, <1>3, <1>5, <1>8, LeafAdded
  <1>19. ListWritten(U1, u, V1, F1, q, w)
    <2>1. \A i \in U1 : w.node[i].check = u.node[i].check
      BY <1>12, <1>14, <1>15
    <2>2. \A i \in U1 : i # q => w.ninfo[i].child = u.ninfo[i].child /\ w.node[i].base = u.node[i].base
      BY <1>5, <1>12, <1>14, <1>15
    <2>3. \A i \in U1 : i # x => w.ninfo[i].sibling = u.ninfo[i].sibling
      BY <1>5, <1>14, <1>15
    <2>4. ASSUME NEW i \in U1 \ {0}, u.node[i].check # q
          PROVE  w.ninfo[i].sibling = u.ninfo[i].sibling
      BY <2>3, <2>4, <1>8
    <2>5. w.ninfo[0].sibling = u.ninfo[0].sibling
      BY <2>3, <1>1, <1>6
    <2> QED
      BY <2>1, <2>2, <2>4, <2>5, <1>1, <1>5, <1>14 DEF ListWritten
  <1>20. Tree(U1, w, V1, F1, q)
    BY <1>18, <1>19, TreeWritten
  <1>21. KinOne(w, U1, V1, q, x, label)
    <2>1. w.node[q].base = base /\ w.ninfo[q].child = label /\ w.ninfo[x].sibling = 0
      <3>1. q \in 0..(t.size - 1) /\ t.ninfo[q].child = 0
        BY <1>1, <1>3
      <3> QED
        BY <3>1, <1>6, <1>12, <1>14
    <2>2. x \in V1 <=> label = 0
      BY <1>3, <1>5 DEF PlusV
    <2> HIDE DEF U1, V1
    <2> QED
      BY <2>1, <2>2, <1>17 DEF KinOne
  <1>22. Tree(U1, w, V1, F1, -1)
    <2>1. Shape(w) /\ x \in 0..(w.size - 1)
      BY <1>6, <1>14 DEF Alloc
    <2>2. Kin(U1, w, V1, q, <<label>>)
      BY <2>1, <1>3, <1>21, KinOneOk
    <2> QED
      BY <2>2, <1>20, TreeClose
  <1>23. label # 0 => w.node[x].base = -1 /\ w.ninfo[x].child = 0
    BY <1>5, <1>6, <1>8, <1>9, <1>12, <1>14
  <1>24. AddedChild(t, w, V, F0, x, label)
    BY <1>6, <1>14, <1>22, <1>23 DEF AddedChild
  <1> QED
    BY <1>24 DEF w, v, base

-----------------------------------------------------------------------------
(* A move: the children of a node go to another base, one by one           *)

\* The new and the old place of the child of turn j; the turn of the new child
\* itself, and the turn of the child in whose place it comes
NewOf(m, j) == To(m.base, m.labels[j])
OldOf(m, j) == To(m.old, m.labels[j])
Target(m) == To(m.base_n, m.label)
Own(m, j) == m.mine /\ m.labels[j] = m.label
Yields(m, j) == ~ m.mine /\ OldOf(m, j) = Target(m)

\* What a move is
Move(m) ==
    /\ m.mine \in BOOLEAN /\ m.label \in Label /\ m.labels \in Lists
    /\ \A i \in 2..Len(m.labels) : m.labels[i] # 0
    /\ m.base_n \in Nat /\ m.base_n \div B # 0
    /\ m.parent \in Nat /\ m.parent # 0
    /\ m.old \in Nat /\ m.old \div B # 0
    /\ m.base \in Nat /\ m.base \div B # 0
    /\ m.mine => m.old = m.base_n /\ \E j \in 1..Len(m.labels) : m.labels[j] = m.label
    /\ ~ m.mine => \E j \in 1..Len(m.labels) : OldOf(m, j) = Target(m)
    /\ \A j, k \in 1..Len(m.labels) : ~ Own(m, k) => NewOf(m, j) # OldOf(m, k)

\* Its places are different ones, in blocks but the first.
LEMMA MoveFacts ==
    ASSUME NEW m, Move(m)
    PROVE  /\ Len(m.labels) \in Nat /\ Len(m.labels) >= 1
           /\ \A j \in 1..Len(m.labels) : m.labels[j] \in Label
           /\ \A j, k \in 1..Len(m.labels) : m.labels[j] = m.labels[k] => j = k
           /\ \A j \in 1..Len(m.labels) : NewOf(m, j) \in Nat /\ NewOf(m, j) \div B # 0 /\ NewOf(m, j) # 0
           /\ \A j \in 1..Len(m.labels) : OldOf(m, j) \in Nat /\ OldOf(m, j) \div B # 0 /\ OldOf(m, j) # 0
           /\ \A j, k \in 1..Len(m.labels) : NewOf(m, j) = NewOf(m, k) => j = k
           /\ \A j, k \in 1..Len(m.labels) : OldOf(m, j) = OldOf(m, k) => j = k
           /\ Target(m) \in Nat /\ Target(m) \div B # 0 /\ Target(m) # 0
           /\ m.mine => \A j \in 1..Len(m.labels) : OldOf(m, j) = Target(m) <=> m.labels[j] = m.label
  <1> DEFINE L == m.labels
             n == Len(m.labels)
  <1>1. L \in Lists /\ m.label \in Label /\ m.base_n \in Nat /\ m.old \in Nat /\ m.base \in Nat
        /\ m.base_n \div B # 0 /\ m.old \div B # 0 /\ m.base \div B # 0
    BY DEF Move
  <1>2. n \in Nat /\ n >= 1 /\ (\A j \in 1..n : L[j] \in Label) /\ (\A j, k \in 1..n : L[j] = L[k] => j = k)
    BY <1>1, ListNamed DEF Named
  <1>3. 0 \div B = 0
    BY LabelAssumption
  <1>4. \A j \in 1..n : NewOf(m, j) \in Nat /\ NewOf(m, j) \div B # 0 /\ NewOf(m, j) # 0
    <2> SUFFICES ASSUME NEW j \in 1..n PROVE NewOf(m, j) \in Nat /\ NewOf(m, j) \div B # 0 /\ NewOf(m, j) # 0
      OBVIOUS
    <2>1. To(m.base, L[j]) \in Nat /\ To(m.base, L[j]) \div B = m.base \div B
      BY <1>1, <1>2, ToBlock
    <2> QED
      BY <2>1, <1>1, <1>3 DEF NewOf
  <1>5. \A j \in 1..n : OldOf(m, j) \in Nat /\ OldOf(m, j) \div B # 0 /\ OldOf(m, j) # 0
    <2> SUFFICES ASSUME NEW j \in 1..n PROVE OldOf(m, j) \in Nat /\ OldOf(m, j) \div B # 0 /\ OldOf(m, j) # 0
      OBVIOUS
    <2>1. To(m.old, L[j]) \in Nat /\ To(m.old, L[j]) \div B = m.old \div B
      BY <1>1, <1>2, ToBlock
    <2> QED
      BY <2>1, <1>1, <1>3 DEF OldOf
  <1>6. \A j, k \in 1..n : NewOf(m, j) = NewOf(m, k) => j = k
    <2> SUFFICES ASSUME NEW j \in 1..n, NEW k \in 1..n, NewOf(m, j) = NewOf(m, k) PROVE j = k
      OBVIOUS
    <2>1. L[j] = L[k]
      BY <1>1, <1>2, ToFacts DEF NewOf
    <2> QED
      BY <2>1, <1>2
  <1>7. \A j, k \in 1..n : OldOf(m, j) = OldOf(m, k) => j = k
    <2> SUFFICES ASSUME NEW j \in 1..n, NEW k \in 1..n, OldOf(m, j) = OldOf(m, k) PROVE j = k
      OBVIOUS
    <2>1. L[j] = L[k]
      BY <1>1, <1>2, ToFacts DEF OldOf
    <2> QED
      BY <2>1, <1>2
  <1>8. Target(m) \in Nat /\ Target(m) \div B # 0 /\ Target(m) # 0
    BY <1>1, <1>3, ToBlock DEF Target
  <1>9. m.mine => \A j \in 1..n : OldOf(m, j) = Target(m) <=> L[j] = m.label
    <2> SUFFICES ASSUME m.mine, NEW j \in 1..n PROVE OldOf(m, j) = Target(m) <=> L[j] = m.label
      OBVIOUS
    <2>1. m.old = m.base_n
      BY DEF Move
    <2>2. To(m.old, L[j]) = To(m.old, m.label) => L[j] = m.label
      BY <1>1, <1>2, ToFacts
    <2> QED
      BY <2>1, <2>2 DEF OldOf, Target
  <1> QED
    BY <1>2, <1>4, <1>5, <1>6, <1>7, <1>8, <1>9

\* The sibling of the child of turn j
NextLabel(m, j) == IF j = Len(m.labels) THEN 0 ELSE m.labels[j + 1]

\* The children with new places for the first i turns, and without old places
\* for the first k.
KidsAt(m, i, k) ==
    {NewOf(m, j) : j \in 1..i} \cup {OldOf(m, j) : j \in {h \in (k + 1)..Len(m.labels) : ~ Own(m, h)}}

Moving(m, i, k, t, V, F) ==
    /\ Alloc(t) /\ Tree(InUse(t), t, V, F, m.parent) /\ m.parent \in InUse(t) \ (V \cup F)
    /\ t.node[m.parent].base = m.base /\ t.ninfo[m.parent].child = m.labels[1]
    /\ KidsIn(InUse(t), t, m.parent) = KidsAt(m, i, k)
    /\ \A j \in 1..i : /\ NewOf(m, j) \in V <=> m.labels[j] = 0
                       /\ t.ninfo[NewOf(m, j)].sibling = NextLabel(m, j)
    /\ \A j \in (k + 1)..Len(m.labels) : ~ Own(m, j) => (OldOf(m, j) \in V <=> m.labels[j] = 0)
    /\ \A j \in (i + 1)..Len(m.labels) : NewOf(m, j) \in Free(t)

\* After the node for the child of turn i + 1 is taken, and has its sibling
TurnTaken(m, i, t, V, F, w) ==
    LET x == NewOf(m, i + 1)
        l == m.labels[i + 1]
    IN  /\ Moving(m, i + 1, i, w, PlusV(V, x, l), PlusF(F, x, l))
        /\ w.size = t.size /\ InUse(w) = InUse(t) \cup {x} /\ x \notin InUse(t)
        /\ SameOn(InUse(t), t, w)
        /\ w.node[x] = FreshNode(l, m.parent) /\ w.ninfo[x].child = 0

\* The first step of a turn
LEMMA TakeTurn ==
    ASSUME NEW m, Move(m), NEW i, i \in 0..(Len(m.labels) - 1), NEW t, NEW V, NEW F,
           Moving(m, i, i, t, V, F),
           NEW u, u = TakeNode(t, NewOf(m, i + 1), m.labels[i + 1], m.parent),
           NEW w, w = [u EXCEPT !.ninfo[NewOf(m, i + 1)].sibling = NextLabel(m, i + 1)]
    PROVE  TurnTaken(m, i, t, V, F, w)
  <1> DEFINE n == Len(m.labels)
             x == NewOf(m, i + 1)
             l == m.labels[i + 1]
             p == m.parent
             U == InUse(t)
             U1 == U \cup {x}
             V1 == PlusV(V, x, l)
             F1 == PlusF(F, x, l)
             r == NextLabel(m, i + 1)
  <1>1. n \in Nat /\ i \in Nat /\ i + 1 \in 1..n /\ i + 1 \in (i + 1)..n /\ i \notin (i + 1)..n
    BY MoveFacts
  <1>2. /\ \A j \in 1..n : m.labels[j] \in Label
        /\ \A j, k \in 1..n : m.labels[j] = m.labels[k] => j = k
        /\ \A j \in 1..n : NewOf(m, j) \in Nat /\ NewOf(m, j) \div B # 0 /\ NewOf(m, j) # 0
        /\ \A j, k \in 1..n : NewOf(m, j) = NewOf(m, k) => j = k
    BY MoveFacts
  <1>3. \A j, k \in 1..n : ~ Own(m, k) => NewOf(m, j) # OldOf(m, k)
    BY DEF Move
  <1>4. l \in Label /\ r \in Label /\ p \in Nat /\ p # 0
    <2>1. r \in Label
      <3>1. CASE i + 1 = n
        BY <3>1, LabelAssumption DEF NextLabel, Label
      <3>2. CASE i + 1 # n
        <4>1. i + 1 + 1 \in 1..n
          BY <3>2, <1>1
        <4> QED
          BY <4>1, <3>2, <1>2 DEF NextLabel
      <3> QED
        BY <3>1, <3>2
    <2> QED
      BY <2>1, <1>1, <1>2 DEF Move
  <1>5. x # 0 /\ x \div B # 0
    BY <1>1, <1>2
  <1>6. /\ Alloc(t) /\ Tree(U, t, V, F, p) /\ p \in U \ (V \cup F)
        /\ t.node[p].base = m.base /\ t.ninfo[p].child = m.labels[1]
        /\ KidsIn(U, t, p) = KidsAt(m, i, i)
    BY DEF Moving
  <1>7. \A j \in 1..i : /\ NewOf(m, j) \in V <=> m.labels[j] = 0
                        /\ t.ninfo[NewOf(m, j)].sibling = NextLabel(m, j)
    BY DEF Moving
  <1>8. \A j \in (i + 1)..n : ~ Own(m, j) => (OldOf(m, j) \in V <=> m.labels[j] = 0)
    BY DEF Moving
  <1>9. \A j \in (i + 1)..n : NewOf(m, j) \in Free(t)
    BY DEF Moving
  <1> HIDE DEF r
  <1>10. TookNode(t, u, x, l, p)
    <2>1. x \in Free(t)
      BY <1>1, <1>9
    <2>2. u = TakeNode(t, x, l, p)
      OBVIOUS
    <2>3. Alloc(t) /\ l \in Label /\ p \in Nat /\ x \div B # 0
      BY <1>4, <1>5, <1>6
    <2> HIDE DEF x, l, p
    <2>4. TookNode(t, TakeNode(t, x, l, p), x, l, p)
      BY <2>1, <2>3, TakeOk
    <2> QED
      BY <2>2, <2>4
  <1>11. /\ Alloc(u) /\ u.size = t.size /\ InUse(u) = U1 /\ x \notin U /\ x \in 1..(u.size - 1)
         /\ Free(u) = Free(t) \ {x} /\ SameOn(U, t, u) /\ u.ninfo = t.ninfo
         /\ u.node[x] = FreshNode(l, p) /\ u.ninfo[x] = NewNinfo
    BY <1>10 DEF TookNode
  <1>12. SiblingSet(u, w, x, r)
    <2>1. x \in InUse(u) /\ Alloc(u)
      BY <1>11
    <2>2. w = [u EXCEPT !.ninfo[x].sibling = r]
      BY DEF r
    <2> HIDE DEF x
    <2> QED
      BY <2>1, <2>2, <1>4, SetSibling
  <1>13. t.size \in Nat /\ U \subseteq 0..(t.size - 1) /\ 0 \in U
    BY <1>6, NodeTypes DEF Alloc
  <1> HIDE DEF x
  <1>14. /\ Wrote(u, w) /\ Alloc(w) /\ InUse(w) = U1 /\ Free(w) = Free(t) \ {x} /\ w.size = t.size /\ w.node = u.node
         /\ \A j \in 0..(t.size - 1) :
              /\ w.ninfo[j].child = t.ninfo[j].child
              /\ w.ninfo[j].sibling = IF j = x THEN r ELSE t.ninfo[j].sibling
    BY <1>11, <1>12 DEF SiblingSet, Wrote
  <1>15. \A j \in U : u.node[j] = t.node[j]
    BY <1>11 DEF SameOn
  <1>16. x \in 0..(t.size - 1) /\ \A j \in U1 : j \in 0..(t.size - 1)
    BY <1>11, <1>13
  <1>17. SameOn(U, t, w)
    <2>1. \A j \in U : w.node[j] = t.node[j]
      BY <1>14, <1>15
    <2>2. \A j \in U : w.ninfo[j] = t.ninfo[j]
      <3> SUFFICES ASSUME NEW j \in U PROVE w.ninfo[j] = t.ninfo[j]
        OBVIOUS
      <3>1. j # x /\ j \in 0..(t.size - 1)
        BY <1>11, <1>16
      <3>2. w.ninfo[j].child = t.ninfo[j].child /\ w.ninfo[j].sibling = t.ninfo[j].sibling
        BY <3>1, <1>14
      <3>3. w.ninfo[j] \in NinfoType /\ t.ninfo[j] \in NinfoType
        <4>1. \A h \in 0..(t.capacity - 1) : t.ninfo[h] \in NinfoType
          BY <1>6, NodeTypes DEF Alloc
        <4>2. \A h \in 0..(w.capacity - 1) : w.ninfo[h] \in NinfoType
          BY <1>14, NodeTypes DEF Alloc
        <4>3. 0..(t.size - 1) \subseteq 0..(t.capacity - 1)
          BY <1>6, NodeTypes DEF Alloc
        <4>4. 0..(w.size - 1) \subseteq 0..(w.capacity - 1)
          BY <1>14, NodeTypes DEF Alloc
        <4>5. j \in 0..(t.capacity - 1) /\ j \in 0..(w.capacity - 1)
          BY <3>1, <4>3, <4>4, <1>14
        <4> QED
          BY <4>1, <4>2, <4>5
      <3> QED
        BY <3>2, <3>3 DEF NinfoType
    <2>3. t.size \in Nat /\ w.size \in Nat /\ t.size <= w.size
      <3>1. t.size \in Nat
        BY <1>13
      <3>2. w.size = t.size
        BY <1>14
      <3> HIDE DEF n, l, p, U, U1, V1, F1
      <3> QED
        BY <3>1, <3>2
    <2> QED
      BY <2>1, <2>2, <2>3 DEF SameOn
  <1>18. u.node[x].check = p /\ w.node[x] = FreshNode(l, p) /\ w.node[x].check = p
    <2>1. u.node[x] = FreshNode(l, p) /\ w.node = u.node
      BY <1>11, <1>14
    <2>2. FreshNode(l, p).check = p
      BY DEF FreshNode
    <2> QED
      BY <2>1, <2>2
  <1>19. w.ninfo[x].child = 0 /\ w.ninfo[x].sibling = r
    <2>1. u.ninfo[x] = NewNinfo /\ u.ninfo = t.ninfo
      BY <1>11
    <2>2. t.ninfo[x].child = 0
      BY <2>1 DEF NewNinfo
    <2> QED
      BY <2>2, <1>14, <1>16
  <1>20. Tree(U1, u, V1, F1, p)
    <2>1. \/ V1 = V /\ F1 = F \cup {x}
          \/ V1 = V \cup {x} /\ F1 = F
      BY DEF PlusV, PlusF
    <2>2. x \div B = 0 => p = 0 /\ x \in FirstLabels
      BY <1>5, <1>16 DEF x
    <2> HIDE DEF V1, F1, U, p
    <2> QED
      BY <2>1, <2>2, <1>6, <1>11, <1>18, LeafAdded
  <1>21. Tree(U1, w, V1, F1, p)
    <2>1. ListWritten(U1, u, V1, F1, p, w)
      <3>1. \A j \in U1 : w.node[j].check = u.node[j].check /\ w.node[j].base = u.node[j].base
        BY <1>14
      <3>2. \A j \in U1 : w.ninfo[j].child = u.ninfo[j].child
        BY <1>11, <1>14, <1>16
      <3>3. \A j \in U1 : j # x => w.ninfo[j].sibling = u.ninfo[j].sibling
        BY <1>11, <1>14, <1>16
      <3>4. w.ninfo[0].sibling = u.ninfo[0].sibling
        BY <3>3, <1>5, <1>13
      <3>5. \A j \in U1 \ {0} : u.node[j].check # p => w.ninfo[j].sibling = u.ninfo[j].sibling
        BY <3>3, <1>18
      <3>6. u.size \in Nat /\ w.size \in Nat /\ u.size <= w.size
        <4>1. u.size = t.size /\ w.size = t.size
          BY <1>11, <1>14
        <4>2. t.size \in Nat
          BY <1>13
        <4> QED
          BY <4>1, <4>2
      <3> QED
        BY <3>1, <3>2, <3>4, <3>5, <3>6 DEF ListWritten
    <2> QED
      BY <2>1, <1>20, TreeWritten
  <1>22. KidsIn(U1, w, p) = KidsAt(m, i + 1, i)
    <2>1. KidsIn(U1, w, p) = KidsIn(U, t, p) \cup {x}
      <3>1. \A j \in U : w.node[j] = t.node[j]
        BY <1>14, <1>15
      <3>2. w.node[x].check = p /\ x # 0
        BY <1>5, <1>18 DEF x
      <3> HIDE DEF U
      <3> QED
        BY <3>1, <3>2 DEF KidsIn
    <2>2. KidsAt(m, i + 1, i) = KidsAt(m, i, i) \cup {x}
      <3>1. 1..(i + 1) = (1..i) \cup {i + 1}
        BY <1>1
      <3>2. {NewOf(m, j) : j \in 1..(i + 1)} = {NewOf(m, j) : j \in 1..i} \cup {x}
        BY <3>1 DEF x
      <3> QED
        BY <3>2 DEF KidsAt
    <2> QED
      BY <2>1, <2>2, <1>6
  <1>23. p \in U1 \ (V1 \cup F1)
    BY <1>6, <1>11 DEF PlusV, PlusF
  <1>24. w.node[p].base = m.base /\ w.ninfo[p].child = m.labels[1]
    <2>1. w.node[p] = t.node[p] /\ w.ninfo[p] = t.ninfo[p]
      BY <1>6, <1>17 DEF SameOn
    <2> QED
      BY <2>1, <1>6
  <1>25. \A j \in 1..(i + 1) : /\ NewOf(m, j) \in V1 <=> m.labels[j] = 0
                               /\ w.ninfo[NewOf(m, j)].sibling = NextLabel(m, j)
    <2> SUFFICES ASSUME NEW j \in 1..(i + 1)
                 PROVE  /\ NewOf(m, j) \in V1 <=> m.labels[j] = 0
                        /\ w.ninfo[NewOf(m, j)].sibling = NextLabel(m, j)
      OBVIOUS
    <2>1. CASE j = i + 1
      <3>1. V \subseteq U
        BY <1>6 DEF Tree, Nodes
      <3>2. x \in V1 <=> l = 0
        BY <3>1, <1>11 DEF PlusV
      <3> QED
        BY <3>2, <2>1, <1>19 DEF x, r
    <2>2. CASE j # i + 1
      <3>1. j \in 1..i /\ j \in 1..n
        BY <2>2, <1>1
      <3>2. NewOf(m, j) # x
        BY <3>1, <2>2, <1>1, <1>2 DEF x
      <3>3. NewOf(m, j) \in KidsIn(U, t, p)
        BY <3>1, <1>6 DEF KidsAt
      <3>4. NewOf(m, j) \in U
        BY <3>3 DEF KidsIn
      <3>5. w.ninfo[NewOf(m, j)] = t.ninfo[NewOf(m, j)]
        BY <3>4, <1>17 DEF SameOn
      <3>6. NewOf(m, j) \in V1 <=> NewOf(m, j) \in V
        BY <3>2 DEF PlusV
      <3> QED
        BY <3>1, <3>5, <3>6, <1>7
    <2> QED
      BY <2>1, <2>2
  <1>26. \A j \in (i + 1)..n : ~ Own(m, j) => (OldOf(m, j) \in V1 <=> m.labels[j] = 0)
    <2> SUFFICES ASSUME NEW j \in (i + 1)..n, ~ Own(m, j)
                 PROVE  OldOf(m, j) \in V1 <=> m.labels[j] = 0
      OBVIOUS
    <2>1. j \in 1..n
      BY <1>1
    <2>2. OldOf(m, j) # x
      BY <2>1, <1>1, <1>3 DEF x
    <2> QED
      BY <2>2, <1>8 DEF PlusV
  <1>27. \A j \in (i + 2)..n : NewOf(m, j) \in Free(w)
    <2> SUFFICES ASSUME NEW j \in (i + 2)..n PROVE NewOf(m, j) \in Free(w)
      OBVIOUS
    <2>1. j \in 1..n /\ j # i + 1 /\ j \in (i + 1)..n
      BY <1>1
    <2>2. NewOf(m, j) # x
      BY <2>1, <1>1, <1>2 DEF x
    <2> QED
      BY <2>1, <2>2, <1>9, <1>14
  <1>28. Moving(m, i + 1, i, w, V1, F1)
    <2>1. (i + 1) + 1 = i + 2
      BY <1>1
    <2>2. KidsIn(InUse(w), w, m.parent) = KidsAt(m, i + 1, i) /\ Tree(InUse(w), w, V1, F1, m.parent)
          /\ m.parent \in InUse(w) \ (V1 \cup F1)
      BY <1>14, <1>21, <1>22, <1>23
    <2> HIDE DEF V1, F1
    <2> QED
      BY <2>1, <2>2, <1>14, <1>24, <1>25, <1>26, <1>27 DEF Moving
  <1> QED
    BY <1>11, <1>14, <1>17, <1>18, <1>19, <1>28 DEF TurnTaken, x

-----------------------------------------------------------------------------
(* The children of a moved node                                            *)

\* From t to w, the nodes of K got the parent x.
ChecksSet(t, w, K, x) ==
    /\ Wrote(t, w) /\ w.ninfo = t.ninfo
    /\ \A j \in 0..(t.size - 1) :
         /\ w.node[j].base = t.node[j].base
         /\ w.node[j].check = IF j \in K THEN x ELSE t.node[j].check

\* Checks may be written
LEMMA SetChecks ==
    ASSUME NEW t, Alloc(t), NEW K, K \subseteq InUse(t), NEW x, x \in Nat, NEW f,
           f = [i \in DOMAIN t.node |-> IF i \in K THEN [t.node[i] EXCEPT !.check = x] ELSE t.node[i]],
           NEW w, w = [t EXCEPT !.node = f]
    PROVE  ChecksSet(t, w, K, x)
  <1> DEFINE D == 0..(t.capacity - 1)
  <1>1. Shape(t)
    BY DEF Alloc
  <1>2. /\ t.node \in [D -> NodeType] /\ t.ninfo \in [D -> NinfoType]
        /\ \A j \in InUse(t) : j # 0 => t.node[j].check >= 0
        /\ InUse(t) \subseteq D /\ 0..(t.size - 1) \subseteq D
    <2>1. /\ InUse(t) \subseteq 0..(t.size - 1) /\ 0..(t.size - 1) \subseteq D /\ t.size \in Nat
          /\ \A j \in 1..(t.size - 1) : j \in InUse(t) <=> t.node[j].check >= 0
      BY <1>1, NodeTypes
    <2>2. \A j \in InUse(t) : j # 0 => j \in 1..(t.size - 1)
      BY <2>1
    <2> QED
      BY <2>1, <2>2, <1>1 DEF Shape
  <1>3. \A j \in D : /\ f[j] \in NodeType /\ f[j].base = t.node[j].base
                     /\ f[j].check = IF j \in K THEN x ELSE t.node[j].check
                     /\ j \notin K => f[j] = t.node[j]
    <2> SUFFICES ASSUME NEW j \in D
                 PROVE  /\ f[j] \in NodeType /\ f[j].base = t.node[j].base
                        /\ f[j].check = IF j \in K THEN x ELSE t.node[j].check
                        /\ j \notin K => f[j] = t.node[j]
      OBVIOUS
    <2>1. t.node[j] \in NodeType /\ DOMAIN t.node = D
      BY <1>2
    <2>2. f[j] = IF j \in K THEN [t.node[j] EXCEPT !.check = x] ELSE t.node[j]
      BY <2>1
    <2>3. CASE j \in K
      BY <2>1, <2>2, <2>3 DEF NodeType
    <2>4. CASE j \notin K
      BY <2>1, <2>2, <2>4
    <2> QED
      BY <2>3, <2>4
  <1>4. f = [i \in D |-> f[i]]
    BY <1>2
  <1>5. IsRewritten(t, f, t.ninfo, w)
    BY <1>1 DEF IsRewritten, Rewritten, Shape
  <1> HIDE DEF D
  <1>6. f \in [D -> NodeType]
    BY <1>3, <1>4
  <1>7. \A j \in D : j \notin InUse(t) => f[j] = t.node[j] /\ t.ninfo[j] = t.ninfo[j]
    BY <1>3
  <1>8. \A j \in InUse(t) : j # 0 => f[j].check >= 0
    BY <1>2, <1>3
  <1>9. Writable(t, f, t.ninfo)
    BY <1>2, <1>6, <1>7, <1>8 DEF Writable, D
  <1>10. RewroteAs(t, f, t.ninfo, w)
    <2> QED
      BY <1>5, <1>9, RewrittenOk
  <1>11. Wrote(t, w) /\ w.node = f /\ w.ninfo = t.ninfo
    BY <1>10 DEF RewroteAs
  <1> QED
    BY <1>2, <1>3, <1>11 DEF ChecksSet

\* The nodes that a list of labels names
LEMMA KinNames ==
    ASSUME NEW U, NEW t, NEW V, NEW y, y # 0, NEW s, Kin(U, t, V, y, s), NEW u, u.ninfo = t.ninfo
    PROVE  {To(t.node[y].base, c) : c \in ToSet(Children(u, t.node[y].base, u.ninfo[y].child))}
             = KidsIn(U, t, y)
  <1> DEFINE base == t.node[y].base
  <1>1. Chain(t, base, t.ninfo[y].child, s)
    BY DEF Kin
  <1>2. \A l \in Members(s) : To(base, l) \in KidsIn(U, t, y) \/ (y = 0 /\ l = 0)
    BY DEF Kin
  <1>3. \A x \in KidsIn(U, t, y) : \E l \in Members(s) : x = To(base, l)
    BY DEF Kin
  <1> HIDE DEF base
  <1>4. Chain(u, base, u.ninfo[y].child, s)
    BY <1>1 DEF Chain
  <1>5. Children(u, base, u.ninfo[y].child) = s
    BY <1>4, ChildrenAre
  <1>6. ToSet(s) = Members(s)
    <2>1. DOMAIN s = 1..Len(s)
      BY <1>1, ListNamed DEF Chain
    <2> QED
      BY <2>1 DEF ToSet, Members
  <1>7. {To(base, c) : c \in Members(s)} = KidsIn(U, t, y)
    BY <1>2, <1>3
  <1>8. {To(base, c) : c \in ToSet(Children(u, base, u.ninfo[y].child))} = KidsIn(U, t, y)
    BY <1>5, <1>6, <1>7
  <1> QED
    BY <1>8 DEF base

\* Node x took over from node y.
Inherited(t, x, y, l, V, F, p, b) ==
    /\ Wrote(t, b)
    /\ Tree(InUse(t), b, V, IF l = 0 THEN F ELSE (F \ {x}) \cup {y}, p)
    /\ \A j \in InUse(t) :
         /\ b.node[j].base = IF j = x THEN t.node[y].base ELSE t.node[j].base
         /\ b.node[j].check = IF l # 0 /\ j \in KidsIn(InUse(t), t, y) THEN x ELSE t.node[j].check
         /\ b.ninfo[j].child = IF l # 0 /\ j = x THEN t.ninfo[y].child ELSE t.ninfo[j].child
         /\ b.ninfo[j].sibling = t.ninfo[j].sibling

\* Of a value only the value is copied.
LEMMA InheritValue ==
    ASSUME NEW t, Alloc(t), NEW V, NEW F, NEW p, Tree(InUse(t), t, V, F, p),
           NEW x, x \in V, NEW y, y \in InUse(t)
    PROVE  Inherited(t, x, y, 0, V, F, p, Inherit(t, x, y, 0))
  <1> DEFINE U == InUse(t)
             v == t.node[y].base
             b == [t EXCEPT !.node[x].base = v]
  <1>1. Inherit(t, x, y, 0) = b
    BY DEF Inherit
  <1>2. /\ t.size \in Nat /\ U \subseteq 0..(t.size - 1) /\ 0..(t.size - 1) \subseteq 0..(t.capacity - 1)
        /\ \A i \in 0..(t.capacity - 1) : t.node[i].base \in Int
    BY NodeTypes DEF Alloc
  <1>3. v \in Int
    BY <1>2
  <1>4. x \in U /\ V \subseteq U
    BY DEF Tree, Nodes
  <1> HIDE DEF v
  <1>5. BaseSet(t, b, x, v)
    BY <1>3, <1>4, SetBase
  <1> HIDE DEF b
  <1>6. /\ Wrote(t, b) /\ b.ninfo = t.ninfo /\ b.size = t.size
        /\ \A j \in 0..(t.size - 1) : /\ b.node[j].check = t.node[j].check
                                      /\ b.node[j].base = IF j = x THEN v ELSE t.node[j].base
    BY <1>5 DEF BaseSet, Wrote
  <1>7. ListWritten(U, t, V, F, p, b)
    <2>1. \A i \in U : b.node[i].check = t.node[i].check
      BY <1>2, <1>6
    <2>2. \A i \in U \ (V \cup F) : b.node[i].base = t.node[i].base
      BY <1>2, <1>6
    <2>3. b.size \in Nat /\ t.size <= b.size /\ t.size \in Nat
      BY <1>2, <1>6
    <2> QED
      BY <2>1, <2>2, <2>3, <1>6 DEF ListWritten
  <1>8. Tree(U, b, V, F, p)
    BY <1>7, TreeWritten
  <1>9. Tree(U, b, V, IF 0 = 0 THEN F ELSE (F \ {x}) \cup {y}, p)
    BY <1>8
  <1>10. \A j \in U :
         /\ b.node[j].base = IF j = x THEN v ELSE t.node[j].base
         /\ b.node[j].check = IF 0 # 0 /\ j \in KidsIn(U, t, y) THEN x ELSE t.node[j].check
         /\ b.ninfo[j].child = IF 0 # 0 /\ j = x THEN t.ninfo[y].child ELSE t.ninfo[j].child
         /\ b.ninfo[j].sibling = t.ninfo[j].sibling
    BY <1>2, <1>6
  <1>11. Inherited(t, x, y, 0, V, F, p, b)
    BY <1>6, <1>9, <1>10 DEF Inherited, v
  <1> QED
    BY <1>1, <1>11

\* Of a node with children all goes over.
LEMMA InheritNode ==
    ASSUME NEW t, Alloc(t), NEW V, NEW F, NEW p, Tree(InUse(t), t, V, F, p),
           NEW x, x \in F, t.node[x].check = p, NEW y, y \in InUse(t) \ (V \cup F), y # 0, t.node[y].check = p,
           NEW l, l # 0
    PROVE  Inherited(t, x, y, l, V, F, p, Inherit(t, x, y, l))
  <1> DEFINE U == InUse(t)
             v == t.node[y].base
             c == [t EXCEPT !.node[x].base = v]
             K == KidsIn(U, t, y)
             d == [c EXCEPT !.ninfo[x].child = t.ninfo[y].child]
             f == [i \in DOMAIN d.node |-> IF i \in K THEN [d.node[i] EXCEPT !.check = x] ELSE d.node[i]]
             b == [d EXCEPT !.node = f]
             F1 == (F \ {x}) \cup {y}
  <1>1. Shape(t) /\ t.size \in Nat /\ U \subseteq 0..(t.size - 1) /\ 0..(t.size - 1) \subseteq 0..(t.capacity - 1)
        /\ \A i \in 0..(t.capacity - 1) : t.node[i].base \in Int /\ t.ninfo[i].child \in Label
    <2>1. Shape(t)
      BY DEF Alloc
    <2> QED
      BY <2>1, NodeTypes
  <1>2. /\ x \in U /\ x # 0 /\ x \notin V /\ y \in U /\ y # p /\ K \subseteq U /\ x \in Nat /\ p \in U
        /\ V \subseteq U /\ F \subseteq U
    <2>1. Nodes(U, t, V, F)
      BY DEF Tree
    <2>2. x \in U /\ x # 0 /\ x \notin V /\ y \in U /\ V \subseteq U /\ F \subseteq U
      BY <2>1 DEF Nodes
    <2>3. t.node[y].check # y /\ t.node[y].check \in U
      BY <2>1, <2>2 DEF Nodes
    <2>4. K \subseteq U
      BY DEF KidsIn
    <2>5. x \in Nat
      BY <2>2, <1>1
    <2> QED
      BY <2>2, <2>3, <2>4, <2>5
  <1>3. PICK s : Kin(U, t, V, y, s)
    BY <1>2 DEF Tree
  <1>4. v \in Int /\ v > 0
    <2>1. v \in Nat /\ v \div B # 0
      BY <1>1, <1>2, KinFacts
    <2>2. 0 \div B = 0
      BY LabelAssumption
    <2> QED
      BY <2>1, <2>2
  <1> HIDE DEF v
  <1>5. BaseSet(t, c, x, v)
    BY <1>2, <1>4, SetBase
  <1>6. c.node[x].base = v /\ c.ninfo = t.ninfo
    <2>1. x \in 0..(t.size - 1)
      BY <1>1, <1>2
    <2> QED
      BY <2>1, <1>5 DEF BaseSet
  <1>7. {To(v, h) : h \in ToSet(Children(c, v, c.ninfo[y].child))} = K
    <2>1. y # 0 /\ c.ninfo = t.ninfo
      BY <1>6
    <2> HIDE DEF c, K
    <2>2. {To(t.node[y].base, h) : h \in ToSet(Children(c, t.node[y].base, c.ninfo[y].child))} = KidsIn(U, t, y)
      BY <2>1, <1>3, KinNames
    <2> QED
      BY <2>2 DEF v, K
  <1> HIDE DEF K
  <1>8. Inherit(t, x, y, l) = b
    <2>1. Inherit(t, x, y, l) = Adopt(c, x, y)
      BY <1>4 DEF Inherit, v
    <2>2. Adopt(c, x, y) = [c EXCEPT !.ninfo[x].child = c.ninfo[y].child,
                  !.node = [i \in DOMAIN c.node |-> IF i \in K THEN [c.node[i] EXCEPT !.check = x]
                                               ELSE c.node[i]]]
      <3> HIDE DEF c
      <3> QED
        BY <1>6, <1>7 DEF Adopt
    <2>3. d.node = c.node /\ c.ninfo[y].child = t.ninfo[y].child
      <3> HIDE DEF c
      <3> QED
        BY <1>6
    <2>4. Adopt(c, x, y) = b
      <3> HIDE DEF c
      <3> QED
        BY <2>2, <2>3
    <2> QED
      BY <2>1, <2>4
  <1> HIDE DEF c
  <1>9. /\ Wrote(t, c) /\ Alloc(c) /\ InUse(c) = U /\ c.size = t.size /\ c.ninfo = t.ninfo
        /\ \A j \in 0..(t.size - 1) : /\ c.node[j].check = t.node[j].check
                                      /\ c.node[j].base = IF j = x THEN v ELSE t.node[j].base
    BY <1>5 DEF BaseSet, Wrote
  <1>10. ChildSet(c, d, x, t.ninfo[y].child)
    <2>1. x \in InUse(c) /\ t.ninfo[y].child \in Label
      BY <1>1, <1>2, <1>9
    <2> QED
      BY <2>1, <1>9, SetFirst
  <1> HIDE DEF d
  <1>11. /\ Wrote(c, d) /\ Alloc(d) /\ InUse(d) = U /\ d.size = t.size /\ d.node = c.node
         /\ \A j \in 0..(t.size - 1) : /\ d.ninfo[j].sibling = t.ninfo[j].sibling
                                       /\ d.ninfo[j].child = IF j = x THEN t.ninfo[y].child ELSE t.ninfo[j].child
    BY <1>9, <1>10 DEF ChildSet, Wrote
  <1>12. ChecksSet(d, b, K, x)
    <2>1. K \subseteq InUse(d) /\ x \in Nat
      BY <1>2, <1>11
    <2>2. f = [i \in DOMAIN d.node |-> IF i \in K THEN [d.node[i] EXCEPT !.check = x] ELSE d.node[i]]
      OBVIOUS
    <2> HIDE DEF f
    <2> QED
      BY <2>1, <2>2, <1>11, SetChecks
  <1> HIDE DEF b
  <1>13. /\ Wrote(d, b) /\ b.size = t.size /\ b.ninfo = d.ninfo
         /\ \A j \in 0..(t.size - 1) : /\ b.node[j].base = c.node[j].base
                                       /\ b.node[j].check = IF j \in K THEN x ELSE c.node[j].check
    BY <1>11, <1>12 DEF ChecksSet, Wrote
  <1>14. Wrote(t, b)
    <2>1. Wrote(t, d)
      BY <1>9, <1>11, WroteTwice
    <2> QED
      BY <2>1, <1>13, WroteTwice
  <1>15. \A j \in U :
         /\ b.node[j].base = IF j = x THEN v ELSE t.node[j].base
         /\ b.node[j].check = IF j \in K THEN x ELSE t.node[j].check
         /\ b.ninfo[j].child = IF j = x THEN t.ninfo[y].child ELSE t.ninfo[j].child
         /\ b.ninfo[j].sibling = t.ninfo[j].sibling
    <2> SUFFICES ASSUME NEW j \in U
                 PROVE  /\ b.node[j].base = IF j = x THEN v ELSE t.node[j].base
                        /\ b.node[j].check = IF j \in K THEN x ELSE t.node[j].check
                        /\ b.ninfo[j].child = IF j = x THEN t.ninfo[y].child ELSE t.ninfo[j].child
                        /\ b.ninfo[j].sibling = t.ninfo[j].sibling
      OBVIOUS
    <2>1. j \in 0..(t.size - 1)
      BY <1>1
    <2> QED
      BY <2>1, <1>9, <1>11, <1>13
  <1>16. Tree(U, b, V, F1, p)
    <2>1. Adopted(U, t, x, y, b)
      <3>1. t.size \in Nat /\ b.size \in Nat /\ t.size <= b.size
        BY <1>1, <1>13
      <3> QED
        BY <3>1, <1>15 DEF Adopted, K, v
    <2>2. y \in U \ (V \cup F) /\ y # 0
      OBVIOUS
    <2>3. Tree(U, t, V, F, p) /\ x \in F /\ t.node[x].check = p /\ t.node[y].check = p
      OBVIOUS
    <2> HIDE DEF U
    <2>4. Tree(U, b, V, (F \ {x}) \cup {y}, p)
      BY <2>1, <2>2, <2>3, TreeAdopted
    <2> QED
      BY <2>4
  <1>17. Tree(U, b, V, IF l = 0 THEN F ELSE F1, p)
    BY <1>16
  <1>18. Inherited(t, x, y, l, V, F, p, b)
    BY <1>14, <1>15, <1>17 DEF Inherited, K, v
  <1> QED
    BY <1>8, <1>18

\* The leaves, when the child of turn j was inherited
LeftBy(m, j, F) == IF m.labels[j] = 0 THEN F ELSE (F \ {NewOf(m, j)}) \cup {OldOf(m, j)}

\* The second step of a turn
LEMMA InheritTurn ==
    ASSUME NEW m, Move(m), NEW i, i \in 0..(Len(m.labels) - 1), ~ Own(m, i + 1), NEW t, NEW V, NEW F,
           Moving(m, i + 1, i, t, V, F),
           m.labels[i + 1] # 0 => NewOf(m, i + 1) \in F /\ OldOf(m, i + 1) \notin F,
           NEW b, b = Inherit(t, NewOf(m, i + 1), OldOf(m, i + 1), m.labels[i + 1])
    PROVE  /\ Inherited(t, NewOf(m, i + 1), OldOf(m, i + 1), m.labels[i + 1], V, F, m.parent, b)
           /\ Moving(m, i + 1, i, b, V, LeftBy(m, i + 1, F))
  <1> DEFINE n == Len(m.labels)
             x == NewOf(m, i + 1)
             y == OldOf(m, i + 1)
             l == m.labels[i + 1]
             p == m.parent
             U == InUse(t)
             F1 == LeftBy(m, i + 1, F)
  <1>1. n \in Nat /\ i \in Nat /\ i + 1 \in 1..n /\ i + 1 \in (i + 1)..n /\ i + 1 \in 1..(i + 1)
    BY MoveFacts
  <1>2. x # 0 /\ y # 0
    BY <1>1, MoveFacts
  <1>3. /\ Alloc(t) /\ Tree(U, t, V, F, p) /\ p \in U \ (V \cup F)
        /\ t.node[p].base = m.base /\ t.ninfo[p].child = m.labels[1]
        /\ KidsIn(U, t, p) = KidsAt(m, i + 1, i)
    BY DEF Moving
  <1>4. \A j \in 1..(i + 1) : /\ NewOf(m, j) \in V <=> m.labels[j] = 0
                              /\ t.ninfo[NewOf(m, j)].sibling = NextLabel(m, j)
    BY DEF Moving
  <1>5. \A j \in (i + 1)..n : ~ Own(m, j) => (OldOf(m, j) \in V <=> m.labels[j] = 0)
    BY DEF Moving
  <1>6. \A j \in (i + 1 + 1)..n : NewOf(m, j) \in Free(t)
    BY DEF Moving
  <1>7. x \in KidsIn(U, t, p) /\ y \in KidsIn(U, t, p)
    <2>1. x \in KidsAt(m, i + 1, i)
      BY <1>1 DEF KidsAt
    <2>2. y \in KidsAt(m, i + 1, i)
      BY <1>1 DEF KidsAt
    <2> QED
      BY <2>1, <2>2, <1>3
  <1>8. x \in U /\ y \in U /\ t.node[x].check = p /\ t.node[y].check = p
    BY <1>7 DEF KidsIn
  <1>9. Nodes(U, t, V, F)
    BY <1>3 DEF Tree
  <1>10. y # p /\ x # p
    BY <1>8, <1>9, <1>2 DEF Nodes
  <1>11. (x \in V <=> l = 0) /\ (y \in V <=> l = 0)
    BY <1>1, <1>4, <1>5
  <1>12. l # 0 => x \in F /\ y \notin F
    OBVIOUS
  <1>13. b = Inherit(t, x, y, l)
    OBVIOUS
  <1> HIDE DEF x, y, l
  <1>14. Inherited(t, x, y, l, V, F, p, b)
    <2>1. CASE l = 0
      <3>1. Inherited(t, x, y, 0, V, F, p, Inherit(t, x, y, 0))
        BY <2>1, <1>3, <1>8, <1>11, InheritValue
      <3> QED
        BY <3>1, <2>1, <1>13
    <2>2. CASE l # 0
      <3>1. y \in U \ (V \cup F)
        BY <2>2, <1>8, <1>11, <1>12
      <3>2. x \in F
        BY <2>2, <1>12
      <3> HIDE DEF p
      <3>3. Inherited(t, x, y, l, V, F, p, Inherit(t, x, y, l))
        BY <3>1, <3>2, <2>2, <1>2, <1>3, <1>8, InheritNode
      <3> QED
        BY <3>3, <1>13
    <2> QED
      BY <2>1, <2>2
  <1>15. /\ Wrote(t, b) /\ Tree(U, b, V, IF l = 0 THEN F ELSE (F \ {x}) \cup {y}, p)
         /\ \A j \in U :
              /\ b.node[j].base = IF j = x THEN t.node[y].base ELSE t.node[j].base
              /\ b.node[j].check = IF l # 0 /\ j \in KidsIn(U, t, y) THEN x ELSE t.node[j].check
              /\ b.ninfo[j].child = IF l # 0 /\ j = x THEN t.ninfo[y].child ELSE t.ninfo[j].child
              /\ b.ninfo[j].sibling = t.ninfo[j].sibling
    BY <1>14 DEF Inherited
  <1>16. F1 = IF l = 0 THEN F ELSE (F \ {x}) \cup {y}
    BY DEF LeftBy, x, y, l
  <1>17. Alloc(b) /\ InUse(b) = U /\ Free(b) = Free(t)
    BY <1>15 DEF Wrote
  <1> HIDE DEF F1
  <1>18. Tree(InUse(b), b, V, F1, p)
    BY <1>15, <1>16, <1>17
  <1>19. p \in InUse(b) \ (V \cup F1)
    BY <1>3, <1>10, <1>16, <1>17
  <1>20. b.node[p].base = m.base /\ b.ninfo[p].child = m.labels[1]
    BY <1>3, <1>10, <1>15
  <1>21. KidsIn(InUse(b), b, p) = KidsAt(m, i + 1, i)
    <2>1. \A j \in U : b.node[j].check = p <=> t.node[j].check = p
      <3>1. \A j \in KidsIn(U, t, y) : t.node[j].check = y
        BY DEF KidsIn
      <3> QED
        BY <3>1, <1>10, <1>15
    <2>2. KidsIn(U, b, p) = KidsIn(U, t, p)
      BY <2>1 DEF KidsIn
    <2> QED
      BY <2>2, <1>3, <1>17
  <1>22. \A j \in 1..(i + 1) : b.ninfo[NewOf(m, j)].sibling = NextLabel(m, j)
    <2> SUFFICES ASSUME NEW j \in 1..(i + 1) PROVE b.ninfo[NewOf(m, j)].sibling = NextLabel(m, j)
      OBVIOUS
    <2>1. NewOf(m, j) \in KidsAt(m, i + 1, i)
      BY DEF KidsAt
    <2>2. NewOf(m, j) \in U
      BY <2>1, <1>3 DEF KidsIn
    <2> QED
      BY <2>2, <1>4, <1>15
  <1>23. Moving(m, i + 1, i, b, V, F1)
    BY <1>4, <1>5, <1>6, <1>17, <1>18, <1>19, <1>20, <1>21, <1>22 DEF Moving
  <1> QED
    BY <1>14, <1>23 DEF x, y, l, F1

\* The kids without the old place of turn i + 1
LEMMA KidGone ==
    ASSUME NEW m, Move(m), NEW i, i \in 0..(Len(m.labels) - 1)
    PROVE  /\ ~ Own(m, i + 1) => KidsAt(m, i + 1, i + 1) = KidsAt(m, i + 1, i) \ {OldOf(m, i + 1)}
           /\ Own(m, i + 1) => KidsAt(m, i + 1, i + 1) = KidsAt(m, i + 1, i)
  <1> DEFINE n == Len(m.labels)
             Rest(k) == {OldOf(m, j) : j \in {h \in (k + 1)..n : ~ Own(m, h)}}
             New == {NewOf(m, j) : j \in 1..(i + 1)}
  <1>1. n \in Nat /\ i \in Nat /\ i + 1 \in 1..n
    BY MoveFacts
  <1>2. \A j, k \in 1..n : OldOf(m, j) = OldOf(m, k) => j = k
    BY MoveFacts
  <1>3. \A j, k \in 1..n : ~ Own(m, k) => NewOf(m, j) # OldOf(m, k)
    BY DEF Move
  <1>4. (i + 1)..n = ((i + 1 + 1)..n) \cup {i + 1} /\ i + 1 \notin (i + 1 + 1)..n
    BY <1>1
  <1>5. KidsAt(m, i + 1, i + 1) = New \cup Rest(i + 1) /\ KidsAt(m, i + 1, i) = New \cup Rest(i)
    BY DEF KidsAt
  <1>6. Own(m, i + 1) => Rest(i) = Rest(i + 1)
    BY <1>4
  <1>7. ~ Own(m, i + 1) => Rest(i) = Rest(i + 1) \cup {OldOf(m, i + 1)}
    BY <1>4
  <1>8. ~ Own(m, i + 1) => OldOf(m, i + 1) \notin New
    <2> SUFFICES ASSUME ~ Own(m, i + 1), NEW j \in 1..(i + 1) PROVE NewOf(m, j) # OldOf(m, i + 1)
      OBVIOUS
    <2>1. j \in 1..n
      BY <1>1
    <2> QED
      BY <2>1, <1>1, <1>3
  <1>9. OldOf(m, i + 1) \notin Rest(i + 1)
    <2> SUFFICES ASSUME NEW j \in (i + 1 + 1)..n PROVE OldOf(m, j) # OldOf(m, i + 1)
      OBVIOUS
    <2>1. j \in 1..n /\ j # i + 1
      BY <1>1
    <2> QED
      BY <2>1, <1>1, <1>2
  <1> HIDE DEF New, Rest
  <1> QED
    BY <1>5, <1>6, <1>7, <1>8, <1>9

\* The turn of the new child itself ends when its node is taken.
LEMMA OwnTurn ==
    ASSUME NEW m, Move(m), NEW i, i \in 0..(Len(m.labels) - 1), Own(m, i + 1), NEW t, NEW V, NEW F,
           Moving(m, i + 1, i, t, V, F)
    PROVE  Moving(m, i + 1, i + 1, t, V, F)
  <1>1. KidsAt(m, i + 1, i + 1) = KidsAt(m, i + 1, i)
    BY KidGone
  <1>2. Len(m.labels) \in Nat /\ i \in Nat
    BY MoveFacts
  <1>3. \A j \in (i + 1 + 1)..Len(m.labels) : j \in (i + 1)..Len(m.labels)
    BY <1>2
  <1> QED
    BY <1>1, <1>3 DEF Moving

\* The last step of a turn: the old place is free.
LEMMA GiveTurn ==
    ASSUME NEW m, Move(m), NEW i, i \in 0..(Len(m.labels) - 1), ~ Own(m, i + 1), NEW t, NEW V, NEW F,
           Moving(m, i + 1, i, t, V, F), NEW y, y = OldOf(m, i + 1), y \in V \cup F,
           NEW w, w = PushEmptyNode(t, y)
    PROVE  /\ GaveNode(t, w, y)
           /\ Moving(m, i + 1, i + 1, w, V \ {y}, F \ {y})
  <1> DEFINE n == Len(m.labels)
             p == m.parent
             U == InUse(t)
             U1 == U \ {y}
             V1 == V \ {y}
             F1 == F \ {y}
  <1>1. n \in Nat /\ i \in Nat /\ i + 1 \in 1..n /\ i + 1 \in (i + 1)..n
    BY MoveFacts
  <1>2. y # 0 /\ \A j, k \in 1..n : OldOf(m, j) = OldOf(m, k) => j = k
    BY <1>1, MoveFacts
  <1>3. /\ Alloc(t) /\ Tree(U, t, V, F, p) /\ p \in U \ (V \cup F)
        /\ t.node[p].base = m.base /\ t.ninfo[p].child = m.labels[1]
        /\ KidsIn(U, t, p) = KidsAt(m, i + 1, i)
    BY DEF Moving
  <1>4. \A j \in 1..(i + 1) : /\ NewOf(m, j) \in V <=> m.labels[j] = 0
                              /\ t.ninfo[NewOf(m, j)].sibling = NextLabel(m, j)
    BY DEF Moving
  <1>5. \A j \in (i + 1)..n : ~ Own(m, j) => (OldOf(m, j) \in V <=> m.labels[j] = 0)
    BY DEF Moving
  <1>6. \A j \in (i + 1 + 1)..n : NewOf(m, j) \in Free(t)
    BY DEF Moving
  <1>7. y \in KidsIn(U, t, p) /\ y \in U /\ t.node[y].check = p
    <2>1. y \in KidsAt(m, i + 1, i)
      BY <1>1 DEF KidsAt
    <2> QED
      BY <2>1, <1>3 DEF KidsIn
  <1>8. GaveNode(t, w, y)
    <2>1. GaveNode(t, PushEmptyNode(t, y), y)
      BY <1>2, <1>3, <1>7, GiveOk
    <2> QED
      BY <2>1
  <1>9. /\ Alloc(w) /\ w.size = t.size /\ Free(w) = Free(t) \cup {y} /\ InUse(w) = U1 /\ SameOn(U1, t, w)
    BY <1>8 DEF GaveNode
  <1>10. \A j \in U1 : w.node[j] = t.node[j] /\ w.ninfo[j] = t.ninfo[j]
    BY <1>9 DEF SameOn
  <1>11. Tree(U1, w, V1, F1, p)
    <2> HIDE DEF U, p
    <2> QED
      BY <1>3, <1>7, <1>9, LeafFreed
  <1>12. p \in U1 /\ p \notin V1 /\ p \notin F1
    BY <1>3
  <1>13. w.node[p].base = m.base /\ w.ninfo[p].child = m.labels[1]
    BY <1>3, <1>10, <1>12
  <1>14. KidsIn(U1, w, p) = KidsAt(m, i + 1, i + 1)
    <2>1. KidsAt(m, i + 1, i + 1) = KidsAt(m, i + 1, i) \ {y}
      BY KidGone
    <2>2. KidsIn(U1, w, p) = KidsIn(U, t, p) \ {y}
      BY <1>10 DEF KidsIn
    <2> QED
      BY <2>1, <2>2, <1>3
  <1>15. \A j \in 1..(i + 1) : /\ NewOf(m, j) \in V1 <=> m.labels[j] = 0
                               /\ w.ninfo[NewOf(m, j)].sibling = NextLabel(m, j)
    <2> SUFFICES ASSUME NEW j \in 1..(i + 1)
                 PROVE  /\ NewOf(m, j) \in V1 <=> m.labels[j] = 0
                        /\ w.ninfo[NewOf(m, j)].sibling = NextLabel(m, j)
      OBVIOUS
    <2>1. NewOf(m, j) \in KidsAt(m, i + 1, i + 1)
      BY DEF KidsAt
    <2>2. NewOf(m, j) \in U1 /\ NewOf(m, j) # y
      BY <2>1, <1>14 DEF KidsIn
    <2> QED
      BY <2>2, <1>4, <1>10
  <1>16. \A j \in (i + 1 + 1)..n : ~ Own(m, j) => (OldOf(m, j) \in V1 <=> m.labels[j] = 0)
    <2> SUFFICES ASSUME NEW j \in (i + 1 + 1)..n, ~ Own(m, j)
                 PROVE  OldOf(m, j) \in V1 <=> m.labels[j] = 0
      OBVIOUS
    <2>1. j \in 1..n /\ j # i + 1 /\ j \in (i + 1)..n
      BY <1>1
    <2>2. OldOf(m, j) # y
      BY <2>1, <1>1, <1>2
    <2> QED
      BY <2>1, <2>2, <1>5
  <1>17. Moving(m, i + 1, i + 1, w, V1, F1)
    <2> HIDE DEF U1, V1, F1
    <2> QED
      BY <1>6, <1>9, <1>11, <1>12, <1>13, <1>14, <1>15, <1>16 DEF Moving
  <1> QED
    BY <1>8, <1>17

\* A node in use is written anew, as a node without children.
RenewedNode(t, w, y, r) ==
    /\ Wrote(t, w)
    /\ \A j \in 0..(t.size - 1) :
         /\ w.node[j] = IF j = y THEN r ELSE t.node[j]
         /\ w.ninfo[j].sibling = t.ninfo[j].sibling
         /\ w.ninfo[j].child = IF j = y THEN 0 ELSE t.ninfo[j].child

\* A node is overwritten and loses its children, as the node in conflict is once its
\* child has moved away.
LEMMA RenewNode ==
    ASSUME NEW t, Alloc(t), NEW y, y \in InUse(t), y # 0, NEW r, r \in NodeType, r.check >= 0,
           NEW u, u = [t EXCEPT !.ninfo[y].child = 0], NEW w, w = [u EXCEPT !.node[y] = r]
    PROVE  RenewedNode(t, w, y, r)
  <1>1. 0 \in Label
    BY LabelAssumption DEF Label
  <1>2. ChildSet(t, u, y, 0)
    BY <1>1, SetFirst
  <1>3. /\ Wrote(t, u) /\ Alloc(u) /\ InUse(u) = InUse(t) /\ u.size = t.size /\ u.node = t.node
        /\ \A j \in 0..(t.size - 1) :
             /\ u.ninfo[j].sibling = t.ninfo[j].sibling
             /\ u.ninfo[j].child = IF j = y THEN 0 ELSE t.ninfo[j].child
    BY <1>2 DEF ChildSet, Wrote
  <1>4. NodeIs(u, w, y, r)
    BY <1>3, SetNode
  <1>5. /\ Wrote(u, w) /\ w.ninfo = u.ninfo
        /\ \A j \in 0..(t.size - 1) : w.node[j] = IF j = y THEN r ELSE t.node[j]
    BY <1>3, <1>4 DEF NodeIs
  <1>6. Wrote(t, w)
    BY <1>3, <1>5, WroteTwice
  <1> QED
    BY <1>3, <1>5, <1>6 DEF RenewedNode

\* Node y is the new child of q, and its old parent is not touched.
ReplacedAt(t, w, q, base, label, y) ==
    /\ Wrote(t, w)
    /\ w.node[y] = FreshNode(label, q) /\ w.ninfo[y].child = 0
    /\ \A j \in InUse(t) : j # y => w.node[j] = t.node[j]
    /\ \A j \in InUse(t) : j # y /\ j # q => w.ninfo[j].child = t.ninfo[j].child
    /\ \A j \in InUse(t) : j # y /\ j # base => w.ninfo[j].sibling = t.ninfo[j].sibling
    /\ t.ninfo[q].child = 0 =>
         /\ w.ninfo[q].child = 0 /\ w.ninfo[base].sibling = label
         /\ w.ninfo[y].sibling = t.ninfo[base].sibling
    /\ t.ninfo[q].child # 0 =>
         /\ w.ninfo[q].child = label /\ w.ninfo[y].sibling = t.ninfo[q].child
         /\ \A j \in InUse(t) : j # y => w.ninfo[j].sibling = t.ninfo[j].sibling

\* Replaced: the new child comes in the place of the one that moved, on its parent's list.
LEMMA ReplacedOk ==
    ASSUME NEW t, Alloc(t), NEW q, q \in InUse(t), NEW label, label \in Label, NEW base,
           NEW y, y = To(base, label), y \in InUse(t), y # 0, q # y,
           t.ninfo[q].child = 0 => base \in InUse(t) /\ base # y,
           NEW w, w = Replaced(t, q, base, label, y)
    PROVE  ReplacedAt(t, w, q, base, label, y)
  <1> DEFINE U == InUse(t)
             a == PushSibling(t, q, base, label, TRUE)
             r == FreshNode(label, q)
             u == [a EXCEPT !.ninfo[y].child = 0]
             second == t.ninfo[q].child = 0
  <1>1. t.size \in Nat /\ U \subseteq 0..(t.size - 1)
    BY NodeTypes DEF Alloc
  <1>2. SiblingPushed(t, a, q, base, y, label, second)
    <2>1. second = (TRUE /\ t.ninfo[q].child = 0) /\ TRUE \in BOOLEAN
      OBVIOUS
    <2>2. second => base \in InUse(t) /\ base # y
      OBVIOUS
    <2> HIDE DEF second
    <2> QED
      BY <2>1, <2>2, PushSiblingOk
  <1>3. w = [u EXCEPT !.node[y] = r]
    BY DEF Replaced
  <1> HIDE DEF a
  <1>4. /\ Wrote(t, a) /\ Alloc(a) /\ InUse(a) = U /\ a.size = t.size /\ a.node = t.node
    BY <1>2 DEF SiblingPushed, Wrote
  <1>5. second => \A j \in 0..(t.size - 1) :
         /\ a.ninfo[j].child = t.ninfo[j].child
         /\ a.ninfo[j].sibling = CASE j = base -> label
                                   [] j = y -> t.ninfo[base].sibling
                                   [] OTHER -> t.ninfo[j].sibling
    BY <1>2 DEF SiblingPushed
  <1>6. ~ second => \A j \in 0..(t.size - 1) :
         /\ a.ninfo[j].child = IF j = q THEN label ELSE t.ninfo[j].child
         /\ a.ninfo[j].sibling = IF j = y THEN t.ninfo[q].child ELSE t.ninfo[j].sibling
    BY <1>2 DEF SiblingPushed
  <1>7. q \in Nat /\ q >= 0 /\ y \in 0..(t.size - 1) /\ q \in 0..(t.size - 1)
    BY <1>1
  <1>8. r \in NodeType /\ r.check >= 0
    BY <1>7 DEF FreshNode, NodeType
  <1> HIDE DEF r
  <1>9. RenewedNode(a, w, y, r)
    BY <1>3, <1>4, <1>8, RenewNode
  <1>10. /\ Wrote(a, w)
         /\ \A j \in 0..(t.size - 1) :
              /\ w.node[j] = IF j = y THEN r ELSE t.node[j]
              /\ w.ninfo[j].sibling = a.ninfo[j].sibling
              /\ w.ninfo[j].child = IF j = y THEN 0 ELSE a.ninfo[j].child
    BY <1>4, <1>9 DEF RenewedNode
  <1>11. Wrote(t, w)
    BY <1>4, <1>10, WroteTwice
  <1>12. w.node[y] = FreshNode(label, q) /\ w.ninfo[y].child = 0
    BY <1>7, <1>10 DEF r
  <1>13. \A j \in U : j # y => w.node[j] = t.node[j]
    BY <1>1, <1>10
  <1>14. \A j \in U : j # y /\ j # q => w.ninfo[j].child = t.ninfo[j].child
    BY <1>1, <1>5, <1>6, <1>10
  <1>15. \A j \in U : j # y /\ j # base => w.ninfo[j].sibling = t.ninfo[j].sibling
    <2> SUFFICES ASSUME NEW j \in U, j # y, j # base PROVE w.ninfo[j].sibling = t.ninfo[j].sibling
      OBVIOUS
    <2>1. j \in 0..(t.size - 1)
      BY <1>1
    <2>2. CASE second
      BY <2>1, <2>2, <1>5, <1>10
    <2>3. CASE ~ second
      BY <2>1, <2>3, <1>6, <1>10
    <2> QED
      BY <2>2, <2>3
  <1>16. second => /\ w.ninfo[q].child = 0 /\ w.ninfo[base].sibling = label
                   /\ w.ninfo[y].sibling = t.ninfo[base].sibling
    <2> SUFFICES ASSUME second
                 PROVE  /\ w.ninfo[q].child = 0 /\ w.ninfo[base].sibling = label
                        /\ w.ninfo[y].sibling = t.ninfo[base].sibling
      OBVIOUS
    <2>1. base \in 0..(t.size - 1) /\ base # y
      BY <1>1
    <2> QED
      BY <2>1, <1>5, <1>7, <1>10
  <1>17. ~ second => /\ w.ninfo[q].child = label /\ w.ninfo[y].sibling = t.ninfo[q].child
                     /\ \A j \in U : j # y => w.ninfo[j].sibling = t.ninfo[j].sibling
    BY <1>1, <1>6, <1>7, <1>10
  <1> QED
    BY <1>11, <1>12, <1>13, <1>14, <1>15, <1>16, <1>17 DEF ReplacedAt

\* The values and the leaves after the child y was replaced
ChangedV(V, y, label) == IF label = 0 THEN V \cup {y} ELSE V \ {y}
ChangedF(F, y, label) == IF label = 0 THEN F \ {y} ELSE F \cup {y}

\* The tree, when a leaf y of p was made a child of q
LEMMA TreeReplaced ==
    ASSUME NEW t, Alloc(t), NEW V, NEW F, NEW p, Tree(InUse(t), t, V, F, p),
           NEW q, q \in InUse(t) \ (V \cup F), q # p, NEW base, base = t.node[q].base, base \div B # 0,
           NEW label, label \in Label, NEW y, y = To(base, label), y \in V \cup F, t.node[y].check = p,
           NEW w, ReplacedAt(t, w, q, base, label, y)
    PROVE  Tree(InUse(t), w, ChangedV(V, y, label), ChangedF(F, y, label), p)
  <1> DEFINE U == InUse(t)
             V1 == ChangedV(V, y, label)
             F1 == ChangedF(F, y, label)
  <1>1. Shape(t) /\ t.size \in Nat /\ U \subseteq 0..(t.size - 1)
    <2>1. Shape(t)
      BY DEF Alloc
    <2> QED
      BY <2>1, NodeTypes
  <1>2. /\ q \in U /\ q # p /\ q \notin V /\ q \notin F /\ base \in Nat /\ base \in 0..(t.size - 1)
        /\ (base \div B = 0 <=> q = 0)
        /\ (t.ninfo[q].child = 0 => base = 0 \/ base \in KidsIn(U, t, q))
    BY <1>1, KinFacts
  <1>3. base # 0 /\ q # 0
    <2>1. 0 \div B = 0
      BY LabelAssumption
    <2> QED
      BY <2>1, <1>2
  <1>4. Nodes(U, t, V, F)
    BY DEF Tree
  <1>5. y \in U /\ y # 0 /\ q # y /\ V \subseteq U /\ F \subseteq U
    BY <1>2, <1>4 DEF Nodes
  <1>6. y \notin KidsIn(U, t, q)
    BY <1>2 DEF KidsIn
  <1>7. t.ninfo[q].child = 0 => base \in KidsIn(U, t, q) /\ base # y
    BY <1>2, <1>3, <1>6
  <1>8. /\ Wrote(t, w)
        /\ w.node[y] = FreshNode(label, q) /\ w.ninfo[y].child = 0
        /\ \A j \in U : j # y => w.node[j] = t.node[j]
        /\ \A j \in U : j # y /\ j # q => w.ninfo[j].child = t.ninfo[j].child
        /\ \A j \in U : j # y /\ j # base => w.ninfo[j].sibling = t.ninfo[j].sibling
    BY DEF ReplacedAt
  <1>9. /\ t.ninfo[q].child = 0 =>
             /\ w.ninfo[q].child = 0 /\ w.ninfo[base].sibling = label
             /\ w.ninfo[y].sibling = t.ninfo[base].sibling
        /\ t.ninfo[q].child # 0 =>
             /\ w.ninfo[q].child = label /\ w.ninfo[y].sibling = t.ninfo[q].child
             /\ \A j \in U : j # y => w.ninfo[j].sibling = t.ninfo[j].sibling
    BY DEF ReplacedAt
  <1>10. w.size = t.size
    BY <1>8 DEF Wrote
  <1>11. w.node[y].check = q
    BY <1>8 DEF FreshNode
  <1>12. KidsIn(U, w, q) = KidsIn(U, t, q) \cup {y}
    BY <1>5, <1>8, <1>11 DEF KidsIn
  <1>13. KidAdded(U, t, V, q, y, label, U, w, V1)
    <2>1. /\ label \in Label /\ y = To(t.node[q].base, label) /\ y \notin KidsIn(U, t, q) /\ y # 0
          /\ KidsIn(U, w, q) = KidsIn(U, t, q) \cup {y}
      BY <1>5, <1>6, <1>12
    <2>2. \A z \in KidsIn(U, t, q) : z \in U /\ z # y
      BY <1>6 DEF KidsIn
    <2>3. \A z \in KidsIn(U, t, q) : z \in V1 <=> z \in V
      BY <2>2 DEF ChangedV
    <2>4. y \in V1 <=> label = 0
      BY DEF ChangedV
    <2>5. w.node[q].base = t.node[q].base
      BY <1>2, <1>5, <1>8
    <2>6. t.size \in Nat /\ w.size \in Nat /\ t.size <= w.size
      BY <1>1, <1>10
    <2>7. t.ninfo[q].child = 0 =>
             /\ w.ninfo[q].child = 0 /\ w.ninfo[base].sibling = label
             /\ w.ninfo[y].sibling = t.ninfo[base].sibling
             /\ \A z \in KidsIn(U, t, q) : z # base => w.ninfo[z].sibling = t.ninfo[z].sibling
      BY <2>2, <1>8, <1>9
    <2>8. t.ninfo[q].child = 0 =>
             /\ w.ninfo[q].child = 0 /\ w.ninfo[t.node[q].base].sibling = label
             /\ w.ninfo[y].sibling = t.ninfo[t.node[q].base].sibling
             /\ \A z \in KidsIn(U, t, q) : z # t.node[q].base => w.ninfo[z].sibling = t.ninfo[z].sibling
      BY <2>7
    <2>9. t.ninfo[q].child # 0 =>
             /\ w.ninfo[q].child = label /\ w.ninfo[y].sibling = t.ninfo[q].child
             /\ \A z \in KidsIn(U, t, q) : w.ninfo[z].sibling = t.ninfo[z].sibling
      BY <2>2, <1>9
    <2> HIDE DEF U, V1
    <2> QED
      BY <2>1, <2>3, <2>4, <2>5, <2>6, <2>8, <2>9 DEF KidAdded
  <1>14. Reparented(U, t, V, F, q, y, label, w, V1)
    <2>1. \A i \in U : i # y => w.node[i].check = t.node[i].check
      BY <1>8
    <2>2. \A i \in U \ (V \cup F) : i # q =>
            w.node[i].base = t.node[i].base /\ w.ninfo[i].child = t.ninfo[i].child
      BY <1>8
    <2>3. \A i \in U \ {0, y} : t.node[i].check # q => w.ninfo[i].sibling = t.ninfo[i].sibling
      <3> SUFFICES ASSUME NEW i \in U \ {0, y}, t.node[i].check # q
                   PROVE  w.ninfo[i].sibling = t.ninfo[i].sibling
        OBVIOUS
      <3>1. CASE t.ninfo[q].child = 0
        <4>1. i # base
          BY <3>1, <1>7 DEF KidsIn
        <4> QED
          BY <4>1, <1>8
      <3>2. CASE t.ninfo[q].child # 0
        BY <3>2, <1>9
      <3> QED
        BY <3>1, <3>2
    <2>4. w.ninfo[0].sibling = t.ninfo[0].sibling
      <3>1. 0 \in U
        BY <1>4 DEF Nodes
      <3> QED
        BY <3>1, <1>3, <1>5, <1>8
    <2> QED
      BY <2>1, <2>2, <2>3, <2>4, <1>11, <1>13 DEF Reparented
  <1>15. y \div B # 0
    <2>1. y \div B = base \div B
      BY <1>2, ToBlock
    <2> QED
      BY <2>1
  <1>16. IF label = 0 THEN V1 = V \cup {y} /\ F1 = F \ {y} ELSE V1 = V \ {y} /\ F1 = F \cup {y}
    BY DEF ChangedV, ChangedF
  <1>17. q \in U \ (V \cup F) /\ q # p /\ Tree(U, t, V, F, p) /\ y \in V \cup F /\ t.node[y].check = p
    OBVIOUS
  <1> HIDE DEF U, V1, F1
  <1>18. Tree(U, w, V1, F1, p)
    BY <1>14, <1>15, <1>16, <1>17, TreeReparented
  <1> QED
    BY <1>18 DEF U, V1, F1

\* The node that waits for its child
Waits(m, t, V, F, q) == q \in InUse(t) \ (V \cup F) /\ q # m.parent /\ t.node[q].base = m.base_n

\* After the turn of the child whose place is taken
TurnReplaced(m, i, t, V, F, q, y, w) ==
    /\ Moving(m, i + 1, i + 1, w, ChangedV(V, y, m.label), ChangedF(F, y, m.label))
    /\ InUse(w) = InUse(t) /\ w.ninfo[y].child = 0
    /\ m.label # 0 => w.node[y].base = -1

\* That turn
LEMMA ReplaceTurn ==
    ASSUME NEW m, Move(m), NEW i, i \in 0..(Len(m.labels) - 1), Yields(m, i + 1), NEW t, NEW V, NEW F,
           Moving(m, i + 1, i, t, V, F), NEW y, y = OldOf(m, i + 1), y \in V \cup F,
           NEW q, Waits(m, t, V, F, q), NEW w, w = Replaced(t, q, m.base_n, m.label, y)
    PROVE  TurnReplaced(m, i, t, V, F, q, y, w)
  <1> DEFINE n == Len(m.labels)
             p == m.parent
             U == InUse(t)
             V1 == ChangedV(V, y, m.label)
             F1 == ChangedF(F, y, m.label)
             base == m.base_n
             label == m.label
  <1>0. q \in InUse(t) \ (V \cup F) /\ q # m.parent /\ t.node[q].base = m.base_n
    BY DEF Waits
  <1>1. n \in Nat /\ i \in Nat /\ i + 1 \in 1..n /\ i + 1 \in (i + 1)..n
    BY MoveFacts
  <1>2. y # 0 /\ \A j, k \in 1..n : OldOf(m, j) = OldOf(m, k) => j = k
    BY <1>1, MoveFacts
  <1>3. /\ Alloc(t) /\ Tree(U, t, V, F, p) /\ p \in U \ (V \cup F)
        /\ t.node[p].base = m.base /\ t.ninfo[p].child = m.labels[1]
        /\ KidsIn(U, t, p) = KidsAt(m, i + 1, i)
    BY DEF Moving
  <1>4. \A j \in 1..(i + 1) : /\ NewOf(m, j) \in V <=> m.labels[j] = 0
                              /\ t.ninfo[NewOf(m, j)].sibling = NextLabel(m, j)
    BY DEF Moving
  <1>5. \A j \in (i + 1)..n : ~ Own(m, j) => (OldOf(m, j) \in V <=> m.labels[j] = 0)
    BY DEF Moving
  <1>6. \A j \in (i + 1 + 1)..n : NewOf(m, j) \in Free(t)
    BY DEF Moving
  <1>7. ~ Own(m, i + 1) /\ y = To(base, label)
    BY DEF Yields, Own, Target
  <1>8. y \in KidsIn(U, t, p) /\ y \in U /\ t.node[y].check = p
    <2>1. y \in KidsAt(m, i + 1, i)
      BY <1>1, <1>7 DEF KidsAt
    <2> QED
      BY <2>1, <1>3 DEF KidsIn
  <1>9. base = t.node[q].base /\ base \div B # 0 /\ label \in Label
    BY <1>0 DEF Move
  <1>10. Shape(t) /\ t.size \in Nat /\ U \subseteq 0..(t.size - 1)
    <2>1. Shape(t)
      BY <1>3 DEF Alloc
    <2> QED
      BY <2>1, NodeTypes
  <1>11. t.node[q].base = 0 => FALSE
    <2>1. 0 \div B = 0
      BY LabelAssumption
    <2> QED
      BY <2>1, <1>9
  <1>12. t.ninfo[q].child = 0 => base \in KidsIn(U, t, q)
    <2>1. t.ninfo[q].child = 0 => t.node[q].base = 0 \/ t.node[q].base \in KidsIn(U, t, q)
      <3> HIDE DEF U, p
      <3>1. Tree(U, t, V, F, p) /\ t.size \in Nat /\ q \in U \ (V \cup F) /\ q # p
        BY <1>0, <1>3, <1>10 DEF U, p
      <3> QED
        BY <3>1, KinFacts
    <2> QED
      BY <2>1, <1>9, <1>11
  <1>13. t.ninfo[q].child = 0 => base \in U /\ base # y
    BY <1>0, <1>8, <1>12 DEF KidsIn
  <1>14. q # y
    BY <1>0
  <1>15. w = Replaced(t, q, base, label, y) /\ q \in U
    BY <1>0
  <1> HIDE DEF base, label
  <1>16. ReplacedAt(t, w, q, base, label, y)
    <2> HIDE DEF U
    <2>1. q \in InUse(t) /\ y \in InUse(t) /\ (t.ninfo[q].child = 0 => base \in InUse(t) /\ base # y)
      BY <1>8, <1>13, <1>15 DEF U
    <2> QED
      BY <2>1, <1>2, <1>3, <1>7, <1>9, <1>14, <1>15, ReplacedOk
  <1>17. /\ Wrote(t, w)
         /\ w.node[y] = FreshNode(label, q) /\ w.ninfo[y].child = 0
         /\ \A j \in U : j # y => w.node[j] = t.node[j]
         /\ \A j \in U : j # y /\ j # q => w.ninfo[j].child = t.ninfo[j].child
         /\ \A j \in U : j # y /\ j # base => w.ninfo[j].sibling = t.ninfo[j].sibling
    BY <1>16 DEF ReplacedAt
  <1>18. t.ninfo[q].child # 0 => \A j \in U : j # y => w.ninfo[j].sibling = t.ninfo[j].sibling
    BY <1>16 DEF ReplacedAt
  <1>19. Alloc(w) /\ InUse(w) = U /\ Free(w) = Free(t)
    BY <1>17 DEF Wrote
  <1>20. Tree(U, w, V1, F1, p)
    <2>1. q \in InUse(t) \ (V \cup F) /\ q # p /\ Tree(InUse(t), t, V, F, p)
      BY <1>0, <1>3
    <2> HIDE DEF U, V1, F1, p
    <2>2. Tree(InUse(t), w, ChangedV(V, y, label), ChangedF(F, y, label), p)
      BY <2>1, <1>3, <1>7, <1>8, <1>9, <1>16, TreeReplaced
    <2> QED
      BY <2>2 DEF U, V1, F1, label
  <1>21. p \in U \ (V1 \cup F1) /\ p # y
    BY <1>3 DEF ChangedV, ChangedF
  <1>22. w.node[p].base = m.base /\ w.ninfo[p].child = m.labels[1]
    <2>1. p \in U /\ p # y /\ p # q
      BY <1>0, <1>21
    <2> QED
      BY <2>1, <1>3, <1>17
  <1>23. KidsIn(U, w, p) = KidsAt(m, i + 1, i + 1)
    <2>1. KidsAt(m, i + 1, i + 1) = KidsAt(m, i + 1, i) \ {y}
      BY <1>7, KidGone
    <2>2. w.node[y].check = q /\ q # p
      BY <1>0, <1>17 DEF FreshNode
    <2>3. KidsIn(U, w, p) = KidsIn(U, t, p) \ {y}
      <3> HIDE DEF p
      <3> QED
        BY <2>2, <1>17 DEF KidsIn
    <2> QED
      BY <2>1, <2>3, <1>3
  <1>24. \A j \in 1..(i + 1) : /\ NewOf(m, j) \in V1 <=> m.labels[j] = 0
                               /\ w.ninfo[NewOf(m, j)].sibling = NextLabel(m, j)
    <2> SUFFICES ASSUME NEW j \in 1..(i + 1)
                 PROVE  /\ NewOf(m, j) \in V1 <=> m.labels[j] = 0
                        /\ w.ninfo[NewOf(m, j)].sibling = NextLabel(m, j)
      OBVIOUS
    <2>1. NewOf(m, j) \in KidsAt(m, i + 1, i + 1)
      BY DEF KidsAt
    <2>2. NewOf(m, j) \in KidsAt(m, i + 1, i) /\ NewOf(m, j) # y
      BY <2>1, <1>7, KidGone
    <2>3. NewOf(m, j) \in U /\ t.node[NewOf(m, j)].check = p
      BY <2>2, <1>3 DEF KidsIn
    <2>4. NewOf(m, j) \in V1 <=> NewOf(m, j) \in V
      BY <2>2 DEF ChangedV
    <2>5. w.ninfo[NewOf(m, j)].sibling = t.ninfo[NewOf(m, j)].sibling
      <3>1. CASE t.ninfo[q].child = 0
        <4>1. t.node[base].check = q
          BY <3>1, <1>12 DEF KidsIn
        <4>2. NewOf(m, j) # base
          BY <4>1, <2>3, <1>0
        <4> QED
          BY <4>2, <2>2, <2>3, <1>17
      <3>2. CASE t.ninfo[q].child # 0
        BY <3>2, <2>2, <2>3, <1>18
      <3> QED
        BY <3>1, <3>2
    <2> QED
      BY <2>4, <2>5, <1>4
  <1>25. \A j \in (i + 1 + 1)..n : ~ Own(m, j) => (OldOf(m, j) \in V1 <=> m.labels[j] = 0)
    <2> SUFFICES ASSUME NEW j \in (i + 1 + 1)..n, ~ Own(m, j)
                 PROVE  OldOf(m, j) \in V1 <=> m.labels[j] = 0
      OBVIOUS
    <2>1. j \in 1..n /\ j # i + 1 /\ j \in (i + 1)..n
      BY <1>1
    <2>2. OldOf(m, j) # y
      BY <2>1, <1>1, <1>2
    <2> QED
      BY <2>1, <2>2, <1>5 DEF ChangedV
  <1>26. Moving(m, i + 1, i + 1, w, V1, F1)
    <2>1. Tree(InUse(w), w, V1, F1, m.parent) /\ m.parent \in InUse(w) \ (V1 \cup F1)
          /\ KidsIn(InUse(w), w, m.parent) = KidsAt(m, i + 1, i + 1)
          /\ w.node[m.parent].base = m.base /\ w.ninfo[m.parent].child = m.labels[1]
      BY <1>19, <1>20, <1>21, <1>22, <1>23
    <2>2. \A j \in (i + 1 + 1)..Len(m.labels) : NewOf(m, j) \in Free(w)
      BY <1>6, <1>19
    <2> HIDE DEF U, V1, F1, p
    <2> QED
      BY <2>1, <2>2, <1>19, <1>24, <1>25 DEF Moving
  <1>27. label # 0 => w.node[y].base = -1
    BY <1>17 DEF FreshNode
  <1> QED
    BY <1>17, <1>19, <1>26, <1>27 DEF TurnReplaced, label

-----------------------------------------------------------------------------
(* The loop of etdb_trie_resolve                                           *)

\* The new child, once it has its place, if it is no value
Leaves(m, i) ==
    IF m.label = 0 THEN {}
    ELSE {NewOf(m, j) : j \in {h \in 1..i : Own(m, h)}} \cup {OldOf(m, j) : j \in {h \in 1..i : Yields(m, h)}}

\* After i turns
MoveAt(m, i, s, V) ==
    /\ Moving(m, i, i, s.t, V, Leaves(m, i))
    /\ \A x \in Leaves(m, i) : s.t.node[x].base = -1 /\ s.t.ninfo[x].child = 0
    /\ ~ m.mine /\ (\A j \in 1..i : ~ Yields(m, j)) => Waits(m, s.t, V, Leaves(m, i), s.from)
    /\ m.label = 0 /\ (\E j \in 1..i : Yields(m, j)) => Target(m) \in V

\* A turn gives a place to the new child, or leaves it as it was.
LEMMA NextLeaves ==
    ASSUME NEW m, Move(m), NEW i, i \in 0..(Len(m.labels) - 1)
    PROVE  /\ Own(m, i + 1) => Leaves(m, i + 1) = PlusF(Leaves(m, i), NewOf(m, i + 1), m.label)
           /\ Yields(m, i + 1) => /\ Leaves(m, i) = {} /\ ~ m.mine /\ \A j \in 1..i : ~ Yields(m, j)
                                  /\ Leaves(m, i + 1) = IF m.label = 0 THEN {} ELSE {OldOf(m, i + 1)}
           /\ ~ Own(m, i + 1) /\ ~ Yields(m, i + 1) => Leaves(m, i + 1) = Leaves(m, i)
           /\ ~ Own(m, i + 1) => OldOf(m, i + 1) \notin Leaves(m, i) /\ OldOf(m, i + 1) # NewOf(m, i + 1)
  <1> DEFINE n == Len(m.labels)
             A(k) == {NewOf(m, j) : j \in {h \in 1..k : Own(m, h)}}
             C(k) == {OldOf(m, j) : j \in {h \in 1..k : Yields(m, h)}}
  <1>1. n \in Nat /\ i \in Nat /\ i + 1 \in 1..n /\ \A j \in 1..i : j \in 1..n /\ j # i + 1
    BY MoveFacts
  <1>2. \A j, k \in 1..n : OldOf(m, j) = OldOf(m, k) => j = k
    BY MoveFacts
  <1>3. \A j, k \in 1..n : ~ Own(m, k) => NewOf(m, j) # OldOf(m, k)
    BY DEF Move
  <1>4. 1..(i + 1) = (1..i) \cup {i + 1}
    BY <1>1
  <1>5. A(i + 1) = IF Own(m, i + 1) THEN A(i) \cup {NewOf(m, i + 1)} ELSE A(i)
    BY <1>4
  <1>6. C(i + 1) = IF Yields(m, i + 1) THEN C(i) \cup {OldOf(m, i + 1)} ELSE C(i)
    BY <1>4
  <1>7. \A k : Leaves(m, k) = IF m.label = 0 THEN {} ELSE A(k) \cup C(k)
    BY DEF Leaves
  <1>8. Own(m, i + 1) => ~ Yields(m, i + 1)
    BY DEF Own, Yields
  <1>9. Yields(m, i + 1) => A(i) = {} /\ C(i) = {} /\ ~ m.mine /\ ~ Own(m, i + 1) /\ \A j \in 1..i : ~ Yields(m, j)
    <2> SUFFICES ASSUME Yields(m, i + 1)
                 PROVE  A(i) = {} /\ C(i) = {} /\ ~ m.mine /\ ~ Own(m, i + 1) /\ \A j \in 1..i : ~ Yields(m, j)
      OBVIOUS
    <2>1. ~ m.mine /\ OldOf(m, i + 1) = Target(m)
      BY DEF Yields
    <2>2. \A j \in 1..i : ~ Yields(m, j)
      <3> SUFFICES ASSUME NEW j \in 1..i, Yields(m, j) PROVE FALSE
        OBVIOUS
      <3>1. OldOf(m, j) = OldOf(m, i + 1)
        BY <2>1 DEF Yields
      <3> QED
        BY <3>1, <1>1, <1>2
    <2>3. \A j : ~ Own(m, j)
      BY <2>1 DEF Own
    <2> QED
      BY <2>1, <2>2, <2>3
  <1>10. ~ Own(m, i + 1) => OldOf(m, i + 1) \notin A(i) /\ OldOf(m, i + 1) \notin C(i)
                            /\ OldOf(m, i + 1) # NewOf(m, i + 1)
    <2>1. ~ Own(m, i + 1) => OldOf(m, i + 1) \notin A(i) /\ OldOf(m, i + 1) # NewOf(m, i + 1)
      BY <1>1, <1>3
    <2>2. OldOf(m, i + 1) \notin C(i)
      BY <1>1, <1>2
    <2> QED
      BY <2>1, <2>2
  <1> HIDE DEF A, C
  <1>11. Own(m, i + 1) => Leaves(m, i + 1) = PlusF(Leaves(m, i), NewOf(m, i + 1), m.label)
    BY <1>5, <1>6, <1>7, <1>8 DEF PlusF
  <1> QED
    BY <1>5, <1>6, <1>7, <1>9, <1>10, <1>11

\* The parts of a turn
TakenIn(m, s, i) ==
    [TakeNode(s.t, NewOf(m, i), m.labels[i], m.parent) EXCEPT !.ninfo[NewOf(m, i)].sibling = NextLabel(m, i)]
HeirIn(m, s, i) == Inherit(TakenIn(m, s, i), NewOf(m, i), OldOf(m, i), m.labels[i])
WaiterIn(m, s, i) == IF m.mine THEN s.from ELSE Moved(s.from, OldOf(m, i), NewOf(m, i))

\* One turn of the loop of etdb_trie_resolve: the new child itself, the child in whose
\* place it comes, or another child.
LEMMA TurnParts ==
    ASSUME NEW m, Move(m), NEW i, i \in 1..Len(m.labels), NEW s
    PROVE  /\ Own(m, i) => MoveChild(m, s, i) = [t |-> TakenIn(m, s, i), from |-> s.from]
           /\ Yields(m, i) => MoveChild(m, s, i) =
                [t |-> Replaced(HeirIn(m, s, i), WaiterIn(m, s, i), m.base_n, m.label, OldOf(m, i)),
                 from |-> WaiterIn(m, s, i)]
           /\ ~ Own(m, i) /\ ~ Yields(m, i) => MoveChild(m, s, i) =
                [t |-> PushEmptyNode(HeirIn(m, s, i), OldOf(m, i)), from |-> WaiterIn(m, s, i)]
  <1> DEFINE l == m.labels[i]
             taken == PopEmptyNode(s.t, m.base, l, m.parent)
             to == taken.to
             to_ == To(m.old, l)
             to_pn == To(m.base_n, m.label)
             a == [taken.t EXCEPT !.ninfo[to].sibling =
                     IF i = Len(m.labels) THEN 0 ELSE m.labels[i + 1]]
             b == Inherit(a, to, to_, l)
             n == IF m.mine THEN s.from ELSE Moved(s.from, to_, to)
  <1>1. m.base \in Nat /\ ~ (m.base < 0)
    <2>1. m.base \in Nat
      BY DEF Move
    <2> QED
      BY <2>1
  <1>2. taken = [t |-> TakeNode(s.t, To(m.base, l), l, m.parent), to |-> To(m.base, l)]
    BY <1>1 DEF PopEmptyNode
  <1>3. to = NewOf(m, i) /\ taken.t = TakeNode(s.t, NewOf(m, i), l, m.parent)
    BY <1>2 DEF NewOf
  <1>4. a = TakenIn(m, s, i)
    BY <1>3 DEF TakenIn, NextLabel
  <1>5. to_ = OldOf(m, i) /\ to_pn = Target(m)
    BY DEF OldOf, Target
  <1>6. b = HeirIn(m, s, i) /\ n = WaiterIn(m, s, i)
    BY <1>3, <1>4, <1>5 DEF HeirIn, WaiterIn
  <1>7. MoveChild(m, s, i) =
          CASE m.mine /\ to_ = to_pn -> [t |-> a, from |-> s.from]
            [] ~ m.mine /\ to_ = to_pn -> [t |-> Replaced(b, n, m.base_n, m.label, to_), from |-> n]
            [] OTHER -> [t |-> PushEmptyNode(b, to_), from |-> n]
    BY DEF MoveChild
  <1>8. m.mine \in BOOLEAN
    BY DEF Move
  <1>9. Own(m, i) <=> m.mine /\ to_ = to_pn
    <2>1. m.mine => (OldOf(m, i) = Target(m) <=> m.labels[i] = m.label)
      BY MoveFacts
    <2> QED
      BY <2>1, <1>5 DEF Own
  <1>10. Yields(m, i) <=> ~ m.mine /\ to_ = to_pn
    BY <1>5 DEF Yields
  <1> HIDE DEF a, b, n, to_, to_pn
  <1> QED
    BY <1>4, <1>5, <1>6, <1>7, <1>8, <1>9, <1>10

\* The node that waits, after it or another child was inherited
LEMMA WaiterOk ==
    ASSUME NEW m, Move(m), NEW i, i \in 0..(Len(m.labels) - 1), ~ Own(m, i + 1), ~ m.mine,
           NEW t, NEW V, NEW F, NEW x, x = NewOf(m, i + 1), NEW y, y = OldOf(m, i + 1),
           NEW l, l = m.labels[i + 1], NEW a, NEW Va, NEW Fa,
           Va = PlusV(V, x, l), Fa = PlusF(F, x, l), V \subseteq InUse(t), F \subseteq InUse(t),
           y \in V <=> l = 0, m.parent \in InUse(t),
           InUse(a) = InUse(t) \cup {x}, x \notin InUse(t), x # y, SameOn(InUse(t), t, a),
           NEW b, Inherited(a, x, y, l, Va, Fa, m.parent, b),
           NEW from, Waits(m, t, V, F, from)
    PROVE  LET n == Moved(from, y, x)
           IN  n # y /\ Waits(m, b, Va, LeftBy(m, i + 1, Fa), n)
  <1> DEFINE n == Moved(from, y, x)
             U == InUse(t)
             Fb == LeftBy(m, i + 1, Fa)
  <1>1. from \in U /\ from \notin V /\ from \notin F /\ from # m.parent /\ t.node[from].base = m.base_n
    BY DEF Waits
  <1>2. InUse(b) = U \cup {x}
    BY DEF Inherited, Wrote
  <1>3. \A j \in U \cup {x} : b.node[j].base = IF j = x THEN a.node[y].base ELSE a.node[j].base
    BY DEF Inherited
  <1>4. \A j \in U : a.node[j] = t.node[j]
    BY DEF SameOn
  <1>5. Fb = IF l = 0 THEN Fa ELSE (Fa \ {x}) \cup {y}
    BY DEF LeftBy
  <1>6. Fb = IF l = 0 THEN F ELSE F \cup {y}
    BY <1>5, ZenonT(60) DEF PlusF
  <1>7. CASE from = y
    <2>1. n = x /\ l # 0
      BY <1>1, <1>7 DEF Moved
    <2>2. Va = V
      BY <2>1 DEF PlusV
    <2>3. x \notin V /\ x \notin Fb
      BY <2>1, <1>6
    <2>4. b.node[x].base = m.base_n
      BY <1>1, <1>3, <1>4, <1>7
    <2>5. x # m.parent
      OBVIOUS
    <2> HIDE DEF n, Fb
    <2>6. Waits(m, b, Va, Fb, n)
      BY <2>1, <2>2, <2>3, <2>4, <2>5, <1>2 DEF Waits
    <2> QED
      BY <2>1, <2>6 DEF n, Fb
  <1>8. CASE from # y
    <2>1. n = from
      BY <1>8 DEF Moved
    <2>2. from # x
      BY <1>1
    <2>3. from \notin Va /\ from \notin Fb
      BY <2>2, <1>1, <1>6, <1>8 DEF PlusV
    <2>4. b.node[from].base = m.base_n
      BY <2>2, <1>1, <1>3, <1>4
    <2> HIDE DEF n, Fb
    <2>5. Waits(m, b, Va, Fb, n)
      BY <2>1, <2>3, <2>4, <1>1, <1>2 DEF Waits
    <2> QED
      BY <2>1, <2>5, <1>8 DEF n, Fb
  <1> QED
    BY <1>7, <1>8

\* A turn
LEMMA MoveTurn ==
    ASSUME NEW m, Move(m), NEW i, i \in 0..(Len(m.labels) - 1), NEW s, NEW V, MoveAt(m, i, s, V)
    PROVE  \E V1 : MoveAt(m, i + 1, MoveChild(m, s, i + 1), V1)
  <1> DEFINE t == s.t
             F == Leaves(m, i)
             x == NewOf(m, i + 1)
             y == OldOf(m, i + 1)
             l == m.labels[i + 1]
             p == m.parent
             a == TakenIn(m, s, i + 1)
             b == HeirIn(m, s, i + 1)
             q == WaiterIn(m, s, i + 1)
             Va == PlusV(V, x, l)
             Fa == PlusF(F, x, l)
             Fb == LeftBy(m, i + 1, Fa)
  <1>1. Len(m.labels) \in Nat /\ i \in Nat /\ i + 1 \in 1..Len(m.labels) /\ i + 1 \in (i + 1)..Len(m.labels)
        /\ i + 1 \in 1..(i + 1) /\ \A j \in 1..i : j \in 1..(i + 1)
    BY MoveFacts
  <1>2. Moving(m, i, i, t, V, F)
    BY DEF MoveAt
  <1>3. \A z \in F : t.node[z].base = -1 /\ t.ninfo[z].child = 0
    BY DEF MoveAt
  <1>4. ~ m.mine /\ (\A j \in 1..i : ~ Yields(m, j)) => Waits(m, t, V, F, s.from)
    BY DEF MoveAt
  <1>4a. m.label = 0 /\ (\E j \in 1..i : Yields(m, j)) => Target(m) \in V
    BY DEF MoveAt
  <1>5. TurnTaken(m, i, t, V, F, a)
    <2> DEFINE u == TakeNode(t, NewOf(m, i + 1), m.labels[i + 1], m.parent)
    <2>1. a = [u EXCEPT !.ninfo[NewOf(m, i + 1)].sibling = NextLabel(m, i + 1)]
      BY DEF TakenIn
    <2>2. u = TakeNode(t, NewOf(m, i + 1), m.labels[i + 1], m.parent)
      OBVIOUS
    <2> HIDE DEF u, a, F, t
    <2> QED
      BY <2>1, <2>2, <1>2, TakeTurn
  <1>6. /\ Moving(m, i + 1, i, a, Va, Fa)
        /\ InUse(a) = InUse(t) \cup {x} /\ x \notin InUse(t)
        /\ SameOn(InUse(t), t, a)
        /\ a.node[x] = FreshNode(l, p) /\ a.ninfo[x].child = 0
    BY <1>5 DEF TurnTaken
  <1>7. p \in InUse(t) /\ V \subseteq InUse(t) /\ F \subseteq InUse(t)
    BY <1>2 DEF Moving, Tree, Nodes
  <1>8. \A j \in (i + 1)..Len(m.labels) : ~ Own(m, j) => (OldOf(m, j) \in V <=> m.labels[j] = 0)
    BY <1>2 DEF Moving
  <1>9. \A z \in InUse(t) : a.node[z] = t.node[z] /\ a.ninfo[z] = t.ninfo[z]
    BY <1>6 DEF SameOn
  <1> HIDE DEF a
  <1>10. CASE Own(m, i + 1)
    <2>1. MoveChild(m, s, i + 1) = [t |-> a, from |-> s.from]
      BY <1>1, <1>10, TurnParts DEF a
    <2>2. l = m.label /\ m.mine
      BY <1>10 DEF Own
    <2>3. Leaves(m, i + 1) = Fa
      BY <2>2, <1>10, NextLeaves
    <2>4. Moving(m, i + 1, i + 1, a, Va, Leaves(m, i + 1))
      BY <2>3, <1>6, <1>10, OwnTurn
    <2>5. \A z \in Leaves(m, i + 1) : a.node[z].base = -1 /\ a.ninfo[z].child = 0
      <3> SUFFICES ASSUME NEW z \in Fa PROVE a.node[z].base = -1 /\ a.ninfo[z].child = 0
        BY <2>3
      <3>1. CASE z \in F
        BY <3>1, <1>3, <1>7, <1>9
      <3>2. CASE z \notin F
        <4>1. l # 0 /\ z = x
          BY <3>2 DEF PlusF
        <4>2. FreshNode(l, p).base = -1
          BY <4>1 DEF FreshNode
        <4> QED
          BY <4>1, <4>2, <1>6
      <3> QED
        BY <3>1, <3>2
    <2> DEFINE r == [t |-> a, from |-> s.from]
    <2>6. r.t = a
      OBVIOUS
    <2>6a. \A j \in 1..(i + 1) : ~ Yields(m, j)
      BY <2>2 DEF Yields
    <2> HIDE DEF r, Va
    <2>7. MoveAt(m, i + 1, r, Va)
      BY <2>2, <2>4, <2>5, <2>6, <2>6a DEF MoveAt
    <2> QED
      BY <2>1, <2>7 DEF r
  <1>11. CASE ~ Own(m, i + 1)
    <2>1. y \notin F /\ y # x
      BY <1>11, NextLeaves
    <2>2. y \in V <=> l = 0
      BY <1>1, <1>8, <1>11
    <2>3. l # 0 => x \in Fa /\ y \notin Fa
      BY <2>1 DEF PlusF
    <2>4. b = Inherit(a, x, y, l)
      BY DEF HeirIn, a
    <2> HIDE DEF b
    <2>5. Inherited(a, x, y, l, Va, Fa, p, b) /\ Moving(m, i + 1, i, b, Va, Fb)
      <3> HIDE DEF Va, Fa
      <3> QED
        BY <2>3, <2>4, <1>6, <1>11, InheritTurn
    <2>6. Fb = IF l = 0 THEN F ELSE F \cup {y}
      <3>1. x \notin F
        BY <1>6, <1>7
      <3> QED
        BY <3>1 DEF LeftBy, PlusF
    <2>7. y \in Va \cup Fb
      BY <2>2, <2>6 DEF PlusV
    <2>8. InUse(b) = InUse(a)
      BY <2>5 DEF Inherited, Wrote
    <2>9. ~ m.mine /\ (\A j \in 1..i : ~ Yields(m, j)) => q # y /\ Waits(m, b, Va, Fb, q)
      <3> SUFFICES ASSUME ~ m.mine, \A j \in 1..i : ~ Yields(m, j)
                   PROVE  q # y /\ Waits(m, b, Va, Fb, q)
        OBVIOUS
      <3>1. Waits(m, t, V, F, s.from)
        BY <1>4
      <3>2. q = Moved(s.from, y, x)
        BY DEF WaiterIn
      <3>3. x = NewOf(m, i + 1) /\ y = OldOf(m, i + 1) /\ l = m.labels[i + 1]
            /\ Va = PlusV(V, x, l) /\ Fa = PlusF(F, x, l)
        OBVIOUS
      <3>4. LET n == Moved(s.from, y, x)
            IN  n # y /\ Waits(m, b, Va, LeftBy(m, i + 1, Fa), n)
        <4> HIDE DEF t, F, x, y, l, Va, Fa
        <4> QED
          BY <3>1, <3>3, <2>1, <2>2, <2>5, <1>6, <1>7, <1>11, WaiterOk DEF p
      <3> QED
        BY <3>2, <3>4
    <2>10. CASE Yields(m, i + 1)
      <3>1. F = {} /\ ~ m.mine /\ (\A j \in 1..i : ~ Yields(m, j))
            /\ Leaves(m, i + 1) = IF m.label = 0 THEN {} ELSE {y}
        BY <2>10, NextLeaves
      <3>2. q # y /\ Waits(m, b, Va, Fb, q)
        BY <3>1, <2>9
      <3> DEFINE w == Replaced(b, q, m.base_n, m.label, y)
                 r == [t |-> w, from |-> q]
                 V1 == ChangedV(Va, y, m.label)
      <3>4. MoveChild(m, s, i + 1) = r
        BY <2>10, <1>1, TurnParts DEF b
      <3>5. /\ Moving(m, i + 1, i + 1, w, V1, ChangedF(Fb, y, m.label))
            /\ w.ninfo[y].child = 0 /\ (m.label # 0 => w.node[y].base = -1)
        <4>1. y = OldOf(m, i + 1) /\ w = Replaced(b, q, m.base_n, m.label, y)
          OBVIOUS
        <4>2. Moving(m, i + 1, i, b, Va, Fb)
          BY <2>5
        <4> HIDE DEF q, Va, Fb, y, w
        <4>3. TurnReplaced(m, i, b, Va, Fb, q, y, w)
          BY <4>1, <4>2, <3>2, <2>7, <2>10, ReplaceTurn
        <4> QED
          BY <4>3 DEF TurnReplaced
      <3>6. ChangedF(Fb, y, m.label) = Leaves(m, i + 1)
        BY <3>1, <2>6 DEF ChangedF
      <3>7. \A z \in Leaves(m, i + 1) : w.node[z].base = -1 /\ w.ninfo[z].child = 0
        BY <3>1, <3>5
      <3>8. r.t = w
        OBVIOUS
      <3>9. ~ (\A j \in 1..(i + 1) : ~ Yields(m, j))
        BY <2>10, <1>1
      <3>9a. m.label = 0 => Target(m) \in V1
        BY <2>10 DEF ChangedV, Yields
      <3> HIDE DEF w, r, V1
      <3>10. MoveAt(m, i + 1, r, V1)
        BY <3>5, <3>6, <3>7, <3>8, <3>9, <3>9a DEF MoveAt
      <3> QED
        BY <3>4, <3>10
    <2>11. CASE ~ Yields(m, i + 1)
      <3>1. Leaves(m, i + 1) = F
        BY <2>11, <1>11, NextLeaves
      <3> DEFINE w == PushEmptyNode(b, y)
                 r == [t |-> w, from |-> q]
                 V1 == Va \ {y}
      <3>2. MoveChild(m, s, i + 1) = r
        BY <2>11, <1>1, <1>11, TurnParts DEF b
      <3>3. GaveNode(b, w, y) /\ Moving(m, i + 1, i + 1, w, V1, Fb \ {y})
        <4> HIDE DEF Va, Fb
        <4> QED
          BY <2>5, <2>7, <1>11, GiveTurn
      <3>4. Fb \ {y} = F
        BY <2>1, <2>6
      <3>5. InUse(w) = InUse(b) \ {y} /\ \A z \in InUse(b) \ {y} : w.node[z] = b.node[z] /\ w.ninfo[z] = b.ninfo[z]
        BY <3>3 DEF GaveNode, SameOn
      <3>6. \A z \in F : w.node[z].base = -1 /\ w.ninfo[z].child = 0
        <4> SUFFICES ASSUME NEW z \in F PROVE w.node[z].base = -1 /\ w.ninfo[z].child = 0
          OBVIOUS
        <4>1. z \in InUse(t) /\ z # x /\ z # y
          BY <2>1, <1>6, <1>7
        <4>2. z \in InUse(a) /\ z \in InUse(b)
          BY <4>1, <2>8, <1>6
        <4>3. b.node[z].base = a.node[z].base /\ b.ninfo[z].child = a.ninfo[z].child
          BY <4>1, <4>2, <2>5 DEF Inherited
        <4> QED
          BY <4>1, <4>2, <4>3, <3>5, <1>3, <1>9
      <3>7. ~ m.mine /\ (\A j \in 1..(i + 1) : ~ Yields(m, j)) => Waits(m, w, V1, F, q)
        <4> SUFFICES ASSUME ~ m.mine, \A j \in 1..(i + 1) : ~ Yields(m, j)
                     PROVE  Waits(m, w, V1, F, q)
          OBVIOUS
        <4>1. q # y /\ Waits(m, b, Va, Fb, q)
          BY <2>9, <1>1
        <4>2. q \in InUse(b) /\ q \notin Va /\ q \notin Fb /\ q # m.parent /\ b.node[q].base = m.base_n
          BY <4>1 DEF Waits
        <4>3. q \in InUse(w) /\ w.node[q].base = m.base_n
          BY <4>1, <4>2, <3>5
        <4>4. q \notin V1 /\ q \notin F
          BY <4>2, <3>4
        <4> HIDE DEF V1, q, F, w
        <4> QED
          BY <4>2, <4>3, <4>4 DEF Waits
      <3>8. r.t = w /\ r.from = q
        OBVIOUS
      <3>8a. m.label = 0 /\ (\E j \in 1..(i + 1) : Yields(m, j)) => Target(m) \in V1
        <4> SUFFICES ASSUME m.label = 0, NEW j \in 1..(i + 1), Yields(m, j) PROVE Target(m) \in V1
          OBVIOUS
        <4>1. j \in 1..i
          BY <2>11, <1>1
        <4>2. Target(m) \in V
          BY <4>1, <1>4a
        <4>3. Target(m) # y
          BY <2>11 DEF Yields
        <4> QED
          BY <4>2, <4>3 DEF PlusV
      <3> HIDE DEF w, r, V1, F, q
      <3>9. MoveAt(m, i + 1, r, V1)
        BY <3>1, <3>3, <3>4, <3>6, <3>7, <3>8, <3>8a DEF MoveAt
      <3> QED
        BY <3>2, <3>9
    <2> QED
      BY <2>10, <2>11
  <1> QED
    BY <1>10, <1>11

-----------------------------------------------------------------------------
(* Loops: the recursive functions that describe them exist                 *)

\* The turns of a move from s on
IsMoving(f, n, s, mv) == f = [k \in 0..n |-> IF k = 0 THEN s ELSE MoveChild(mv, f[k - 1], k)]

\* They can be taken.
LEMMA MoveMade ==
    ASSUME NEW s, NEW mv, NEW n, n \in Nat
    PROVE  \E f : IsMoving(f, n, s, mv)
  <1> DEFINE Q(m, f) == /\ f = [k \in 0..m |-> f[k]] /\ f[0] = s
                        /\ \A k \in 1..m : f[k] = MoveChild(mv, f[k - 1], k)
             M == {m \in Nat : \E f : Q(m, f)}
  <1>1. 0 \in M
    <2> DEFINE f == [k \in 0..0 |-> s]
    <2>1. Q(0, f)
      OBVIOUS
    <2> HIDE DEF f
    <2> QED
      BY <2>1
  <1>2. ASSUME NEW m \in Nat, m \in M PROVE m + 1 \in M
    <2>1. PICK f : Q(m, f)
      BY <1>2
    <2> DEFINE v == MoveChild(mv, f[m], m + 1)
    <2>2. PICK h : Longer(h, f, m, v)
      BY LongerOk
    <2>3. h = [k \in 0..(m + 1) |-> h[k]] /\ h[0] = s
      <3>1. 0 \in 0..m
        OBVIOUS
      <3> QED
        BY <2>1, <2>2, <3>1 DEF Longer
    <2>4. ASSUME NEW k \in 1..(m + 1) PROVE h[k] = MoveChild(mv, h[k - 1], k)
      <3>1. CASE k = m + 1
        <4>1. h[k] = v /\ k - 1 = m /\ h[m] = f[m]
          BY <2>2, <3>1 DEF Longer
        <4> QED
          BY <4>1, <3>1
      <3>2. CASE k # m + 1
        <4>1. k \in 1..m /\ k \in 0..m
          BY <3>2
        <4>2. h[k] = f[k] /\ h[k - 1] = f[k - 1] /\ f[k] = MoveChild(mv, f[k - 1], k)
          BY <4>1, <2>1, <2>2 DEF Longer
        <4> QED
          BY <4>2
      <3> QED
        BY <3>1, <3>2
    <2>5. Q(m + 1, h)
      BY <2>3, <2>4
    <2> HIDE DEF Q
    <2>6. \E ff : Q(m + 1, ff)
      BY <2>5
    <2> QED
      BY <2>6
  <1>3. n \in M
    <2> HIDE DEF M
    <2> QED
      BY <1>1, <1>2, Induction
  <1>4. PICK f : Q(n, f)
    BY <1>3
  <1>5. \A k \in 0..n : f[k] = IF k = 0 THEN s ELSE MoveChild(mv, f[k - 1], k)
    <2>1. \A k \in 0..n : k = 0 \/ k \in 1..n
      OBVIOUS
    <2> QED
      BY <2>1, <1>4
  <1>6. f = [k \in 0..n |-> f[k]]
    BY <1>4
  <1>7. IsMoving(f, n, s, mv)
    BY <1>5, <1>6 DEF IsMoving
  <1> QED
    BY <1>7

\* The steps that follow labels from s on
IsFollowed(f, n, s, labels) == f = [k \in 0..n |-> IF k = 0 THEN s ELSE Follow(f[k - 1].t, f[k - 1].to, labels[k])]

\* They can be taken.
LEMMA PathMade ==
    ASSUME NEW s, NEW labels, NEW n, n \in Nat
    PROVE  \E f : IsFollowed(f, n, s, labels)
  <1> DEFINE Q(m, f) == /\ f = [k \in 0..m |-> f[k]] /\ f[0] = s
                        /\ \A k \in 1..m : f[k] = Follow(f[k - 1].t, f[k - 1].to, labels[k])
             M == {m \in Nat : \E f : Q(m, f)}
  <1>1. 0 \in M
    <2> DEFINE f == [k \in 0..0 |-> s]
    <2>1. Q(0, f)
      OBVIOUS
    <2> HIDE DEF f
    <2> QED
      BY <2>1
  <1>2. ASSUME NEW m \in Nat, m \in M PROVE m + 1 \in M
    <2>1. PICK f : Q(m, f)
      BY <1>2
    <2> DEFINE v == Follow(f[m].t, f[m].to, labels[m + 1])
    <2>2. PICK h : Longer(h, f, m, v)
      BY LongerOk
    <2>3. h = [k \in 0..(m + 1) |-> h[k]] /\ h[0] = s
      <3>1. 0 \in 0..m
        OBVIOUS
      <3> QED
        BY <2>1, <2>2, <3>1 DEF Longer
    <2>4. ASSUME NEW k \in 1..(m + 1) PROVE h[k] = Follow(h[k - 1].t, h[k - 1].to, labels[k])
      <3>1. CASE k = m + 1
        <4>1. h[k] = v /\ k - 1 = m /\ h[m] = f[m]
          BY <2>2, <3>1 DEF Longer
        <4> QED
          BY <4>1, <3>1
      <3>2. CASE k # m + 1
        <4>1. k \in 1..m /\ k \in 0..m
          BY <3>2
        <4>2. h[k] = f[k] /\ h[k - 1] = f[k - 1] /\ f[k] = Follow(f[k - 1].t, f[k - 1].to, labels[k])
          BY <4>1, <2>1, <2>2 DEF Longer
        <4> QED
          BY <4>2
      <3> QED
        BY <3>1, <3>2
    <2>5. Q(m + 1, h)
      BY <2>3, <2>4
    <2> HIDE DEF Q
    <2>6. \E ff : Q(m + 1, ff)
      BY <2>5
    <2> QED
      BY <2>6
  <1>3. n \in M
    <2> HIDE DEF M
    <2> QED
      BY <1>1, <1>2, Induction
  <1>4. PICK f : Q(n, f)
    BY <1>3
  <1>5. \A k \in 0..n : f[k] = IF k = 0 THEN s ELSE Follow(f[k - 1].t, f[k - 1].to, labels[k])
    <2>1. \A k \in 0..n : k = 0 \/ k \in 1..n
      OBVIOUS
    <2> QED
      BY <2>1, <1>4
  <1>6. f = [k \in 0..n |-> f[k]]
    BY <1>4
  <1>7. IsFollowed(f, n, s, labels)
    BY <1>5, <1>6 DEF IsFollowed
  <1> QED
    BY <1>7

\* The steps of a search from s on
IsWalk(f, n, s, labels, child) == f = [k \in 0..n |-> IF k = 0 THEN s ELSE child[f[k - 1]][labels[k]]]

\* They can be taken.
LEMMA WalkMade ==
    ASSUME NEW s, NEW labels, NEW child, NEW n, n \in Nat
    PROVE  \E f : IsWalk(f, n, s, labels, child)
  <1> DEFINE Q(m, f) == /\ f = [k \in 0..m |-> f[k]] /\ f[0] = s
                        /\ \A k \in 1..m : f[k] = child[f[k - 1]][labels[k]]
             M == {m \in Nat : \E f : Q(m, f)}
  <1>1. 0 \in M
    <2> DEFINE f == [k \in 0..0 |-> s]
    <2>1. Q(0, f)
      OBVIOUS
    <2> HIDE DEF f
    <2> QED
      BY <2>1
  <1>2. ASSUME NEW m \in Nat, m \in M PROVE m + 1 \in M
    <2>1. PICK f : Q(m, f)
      BY <1>2
    <2> DEFINE v == child[f[m]][labels[m + 1]]
    <2>2. PICK h : Longer(h, f, m, v)
      BY LongerOk
    <2>3. h = [k \in 0..(m + 1) |-> h[k]] /\ h[0] = s
      <3>1. 0 \in 0..m
        OBVIOUS
      <3> QED
        BY <2>1, <2>2, <3>1 DEF Longer
    <2>4. ASSUME NEW k \in 1..(m + 1) PROVE h[k] = child[h[k - 1]][labels[k]]
      <3>1. CASE k = m + 1
        <4>1. h[k] = v /\ k - 1 = m /\ h[m] = f[m]
          <5> HIDE DEF v
          <5> QED
            BY <2>2, <3>1 DEF Longer
        <4> QED
          BY <4>1, <3>1
      <3>2. CASE k # m + 1
        <4>1. k \in 1..m /\ k \in 0..m
          BY <3>2
        <4>2. h[k] = f[k] /\ h[k - 1] = f[k - 1] /\ f[k] = child[f[k - 1]][labels[k]]
          BY <4>1, <2>1, <2>2 DEF Longer
        <4> QED
          BY <4>2
      <3> QED
        BY <3>1, <3>2
    <2>5. Q(m + 1, h)
      BY <2>3, <2>4
    <2> HIDE DEF Q
    <2>6. \E ff : Q(m + 1, ff)
      BY <2>5
    <2> QED
      BY <2>6
  <1>3. n \in M
    <2> HIDE DEF M
    <2> QED
      BY <1>1, <1>2, Induction
  <1>4. PICK f : Q(n, f)
    BY <1>3
  <1>5. \A k \in 0..n : f[k] = IF k = 0 THEN s ELSE child[f[k - 1]][labels[k]]
    <2>1. \A k \in 0..n : k = 0 \/ k \in 1..n
      OBVIOUS
    <2> QED
      BY <2>1, <1>4
  <1>6. f = [k \in 0..n |-> f[k]]
    BY <1>4
  <1>7. IsWalk(f, n, s, labels, child)
    BY <1>5, <1>6 DEF IsWalk
  <1> QED
    BY <1>7

\* The steps up from s on
IsClimb(f, n, s) == f = [k \in 0..n |-> IF k = 0 THEN s ELSE GoUp(f[k - 1])]

\* They can be taken.
LEMMA ClimbMade ==
    ASSUME NEW s, NEW n, n \in Nat
    PROVE  \E f : IsClimb(f, n, s)
  <1> DEFINE Q(m, f) == /\ f = [k \in 0..m |-> f[k]] /\ f[0] = s
                        /\ \A k \in 1..m : f[k] = GoUp(f[k - 1])
             M == {m \in Nat : \E f : Q(m, f)}
  <1>1. 0 \in M
    <2> DEFINE f == [k \in 0..0 |-> s]
    <2>1. Q(0, f)
      OBVIOUS
    <2> HIDE DEF f
    <2> QED
      BY <2>1
  <1>2. ASSUME NEW m \in Nat, m \in M PROVE m + 1 \in M
    <2>1. PICK f : Q(m, f)
      BY <1>2
    <2> DEFINE v == GoUp(f[m])
    <2>2. PICK h : Longer(h, f, m, v)
      BY LongerOk
    <2>3. h = [k \in 0..(m + 1) |-> h[k]] /\ h[0] = s
      <3>1. 0 \in 0..m
        OBVIOUS
      <3> QED
        BY <2>1, <2>2, <3>1 DEF Longer
    <2>4. ASSUME NEW k \in 1..(m + 1) PROVE h[k] = GoUp(h[k - 1])
      <3>1. CASE k = m + 1
        <4>1. h[k] = v /\ k - 1 = m /\ h[m] = f[m]
          BY <2>2, <3>1 DEF Longer
        <4> QED
          BY <4>1, <3>1
      <3>2. CASE k # m + 1
        <4>1. k \in 1..m /\ k \in 0..m
          BY <3>2
        <4>2. h[k] = f[k] /\ h[k - 1] = f[k - 1] /\ f[k] = GoUp(f[k - 1])
          BY <4>1, <2>1, <2>2 DEF Longer
        <4> QED
          BY <4>2
      <3> QED
        BY <3>1, <3>2
    <2>5. Q(m + 1, h)
      BY <2>3, <2>4
    <2> HIDE DEF Q
    <2>6. \E ff : Q(m + 1, ff)
      BY <2>5
    <2> QED
      BY <2>6
  <1>3. n \in M
    <2> HIDE DEF M
    <2> QED
      BY <1>1, <1>2, Induction
  <1>4. PICK f : Q(n, f)
    BY <1>3
  <1>5. \A k \in 0..n : f[k] = IF k = 0 THEN s ELSE GoUp(f[k - 1])
    <2>1. \A k \in 0..n : k = 0 \/ k \in 1..n
      OBVIOUS
    <2> QED
      BY <2>1, <1>4
  <1>6. f = [k \in 0..n |-> f[k]]
    BY <1>4
  <1>7. IsClimb(f, n, s)
    BY <1>5, <1>6 DEF IsClimb
  <1> QED
    BY <1>7

-----------------------------------------------------------------------------
(* The end of a move                                                       *)

\* Node n was reached under the label l: a value, or a node without children
\* yet, or one with them.
Reached(t, V, F, n, l) ==
    /\ Alloc(t) /\ Tree(InUse(t), t, V, F, -1) /\ n \in InUse(t) \ {0}
    /\ l = 0 => n \in V /\ F = {}
    /\ l # 0 => n \notin V /\ F \subseteq {n}
    /\ n \in F => t.node[n].base = -1 /\ t.ninfo[n].child = 0

\* The new child
NewChild(m) == IF m.mine THEN To(m.base, m.label) ELSE Target(m)

\* After the last turn all children are at the new base.
LEMMA MovedKin ==
    ASSUME NEW m, Move(m), NEW t, NEW V, NEW F, Moving(m, Len(m.labels), Len(m.labels), t, V, F)
    PROVE  Kin(InUse(t), t, V, m.parent, m.labels)
  <1> DEFINE n == Len(m.labels)
             L == m.labels
             p == m.parent
             U == InUse(t)
             base == m.base
  <1>1. /\ n \in Nat /\ n >= 1
        /\ \A j \in 1..n : L[j] \in Label
        /\ \A j \in 1..n : NewOf(m, j) \in Nat /\ NewOf(m, j) # 0
    BY MoveFacts
  <1>2. /\ L \in Lists /\ (\A i \in 2..n : L[i] # 0) /\ p # 0 /\ base \in Nat /\ base \div B # 0
    BY DEF Move
  <1>3. /\ Alloc(t) /\ p \in U
        /\ t.node[p].base = base /\ t.ninfo[p].child = L[1]
        /\ KidsIn(U, t, p) = KidsAt(m, n, n)
        /\ \A j \in 1..n : /\ NewOf(m, j) \in V <=> L[j] = 0
                           /\ t.ninfo[NewOf(m, j)].sibling = NextLabel(m, j)
    BY DEF Moving
  <1>4. KidsIn(U, t, p) = {NewOf(m, j) : j \in 1..n}
    <2>1. (n + 1)..n = {}
      BY <1>1
    <2>2. {OldOf(m, j) : j \in {h \in (n + 1)..Len(m.labels) : ~ Own(m, h)}} = {}
      BY <2>1
    <2> QED
      BY <2>2, <1>3 DEF KidsAt
  <1>5. Shape(t) /\ t.size \in Nat /\ U \subseteq 0..(t.size - 1)
    <2>1. Shape(t)
      BY <1>3 DEF Alloc
    <2> QED
      BY <2>1, NodeTypes
  <1>6. base \in 0..(t.size - 1)
    <2>1. 1 \in 1..n
      BY <1>1
    <2>2. NewOf(m, 1) \in 0..(t.size - 1) /\ L[1] \in Label
      BY <2>1, <1>1, <1>4, <1>5 DEF KidsIn
    <2>3. To(NewOf(m, 1), L[1]) \in 0..(t.size - 1)
      BY <2>2, <1>5, ToInside
    <2>4. To(To(base, L[1]), L[1]) = base
      BY <2>2, <1>2, ToFacts
    <2> QED
      BY <2>3, <2>4 DEF NewOf
  <1>7. \A j \in 1..n : NewOf(m, j) = To(base, L[j])
    BY DEF NewOf
  <1>8. \A j \in 1..n : NewOf(m, j) = base <=> L[j] = 0
    <2> SUFFICES ASSUME NEW j \in 1..n PROVE To(base, L[j]) = base <=> L[j] = 0
      BY <1>7
    <2>1. 0 \in Label /\ L[j] \in Label
      BY <1>1, LabelAssumption DEF Label
    <2>2. To(base, 0) = base /\ (To(base, L[j]) = To(base, 0) => L[j] = 0)
      BY <2>1, <1>2, ToFacts
    <2> QED
      BY <2>2
  <1>9. Members(L) = {L[j] : j \in 1..n}
    BY DEF Members
  <1> HIDE DEF n
  <1>10. Chain(t, base, t.ninfo[p].child, L)
    <2>1. \A i \in 1..n : t.ninfo[To(base, L[i])].sibling = IF i = n THEN 0 ELSE L[i + 1]
      <3> SUFFICES ASSUME NEW i \in 1..n
                   PROVE  t.ninfo[To(base, L[i])].sibling = IF i = n THEN 0 ELSE L[i + 1]
        OBVIOUS
      <3>1. t.ninfo[To(base, L[i])].sibling = NextLabel(m, i)
        BY <1>3, <1>7
      <3> QED
        BY <3>1 DEF NextLabel, n
    <2>2. \A i \in 2..Len(L) : L[i] # 0
      BY <1>2 DEF n
    <2>3. \A i \in 1..Len(L) : t.ninfo[To(base, L[i])].sibling = IF i = Len(L) THEN 0 ELSE L[i + 1]
      BY <2>1 DEF n
    <2> HIDE DEF L, base, p
    <2> QED
      BY <2>2, <2>3, <1>2, <1>3 DEF Chain
  <1>11. \A l \in Members(L) : To(base, l) \in KidsIn(U, t, p)
    BY <1>4, <1>7, <1>9
  <1>12. \A x \in KidsIn(U, t, p) : \E l \in Members(L) : x = To(base, l)
    BY <1>4, <1>7, <1>9
  <1>13. \A x \in KidsIn(U, t, p) : x \in V <=> x = base
    BY <1>3, <1>4, <1>8
  <1>14. Kin(U, t, V, p, L)
    <2> HIDE DEF U, L
    <2>1. t.node[p].base = base
      BY <1>3
    <2> HIDE DEF base, p
    <2> QED
      BY <2>1, <1>2, <1>6, <1>10, <1>11, <1>12, <1>13 DEF Kin
  <1> QED
    BY <1>14

\* And the new child has its place.
LEMMA MoveEnds ==
    ASSUME NEW m, Move(m), NEW s, NEW V, MoveAt(m, Len(m.labels), s, V)
    PROVE  Reached(s.t, V, Leaves(m, Len(m.labels)), NewChild(m), m.label)
  <1> DEFINE n == Len(m.labels)
             F == Leaves(m, n)
             t == s.t
             U == InUse(t)
             x == NewChild(m)
  <1>1. Moving(m, n, n, t, V, F)
    BY DEF MoveAt
  <1>2. \A z \in F : t.node[z].base = -1 /\ t.ninfo[z].child = 0
    BY DEF MoveAt
  <1>3. m.label = 0 /\ (\E j \in 1..n : Yields(m, j)) => Target(m) \in V
    BY DEF MoveAt
  <1>4. Alloc(t) /\ Tree(U, t, V, F, -1)
    <2>1. Kin(U, t, V, m.parent, m.labels)
      <3> HIDE DEF t, F
      <3> QED
        BY <1>1, MovedKin
    <2>2. Alloc(t) /\ Tree(U, t, V, F, m.parent)
      BY <1>1 DEF Moving
    <2> HIDE DEF t, F, U
    <2> QED
      BY <2>1, <2>2, TreeClose
  <1>5. \A j \in 1..n : NewOf(m, j) \in V <=> m.labels[j] = 0
    BY <1>1 DEF Moving
  <1>6. V \subseteq U \ {0} /\ F \subseteq U \ {0} /\ V \cap F = {}
    BY <1>4 DEF Tree, Nodes
  <1>7. m.mine => \E j \in 1..n : Own(m, j) /\ NewOf(m, j) = x
    <2>1. m.mine => \E j \in 1..n : m.labels[j] = m.label
      BY DEF Move
    <2> QED
      BY <2>1 DEF Own, NewOf, NewChild
  <1>8. ~ m.mine => \E j \in 1..n : Yields(m, j) /\ OldOf(m, j) = x
    <2>1. ~ m.mine => \E j \in 1..n : OldOf(m, j) = Target(m)
      BY DEF Move
    <2> QED
      BY <2>1 DEF Yields, NewChild
  <1>9. m.label = 0 => x \in V /\ F = {}
    <2> SUFFICES ASSUME m.label = 0 PROVE x \in V /\ F = {}
      OBVIOUS
    <2>1. F = {}
      BY DEF Leaves
    <2>2. CASE m.mine
      <3>1. PICK j \in 1..n : Own(m, j) /\ NewOf(m, j) = x
        BY <2>2, <1>7
      <3> QED
        BY <3>1, <2>1, <1>5 DEF Own
    <2>3. CASE ~ m.mine
      <3>1. \E j \in 1..n : Yields(m, j)
        BY <2>3, <1>8
      <3> QED
        BY <3>1, <2>1, <2>3, <1>3 DEF NewChild
    <2>4. m.mine \in BOOLEAN
      BY DEF Move
    <2> QED
      BY <2>2, <2>3, <2>4
  <1>10. m.label # 0 => F = {x}
    <2> SUFFICES ASSUME m.label # 0 PROVE F = {x}
      OBVIOUS
    <2>1. F = {NewOf(m, j) : j \in {h \in 1..n : Own(m, h)}} \cup {OldOf(m, j) : j \in {h \in 1..n : Yields(m, h)}}
      BY DEF Leaves
    <2>2. \A j \in 1..n : Own(m, j) => NewOf(m, j) = x
      BY DEF Own, NewOf, NewChild
    <2>3. \A j \in 1..n : Yields(m, j) => OldOf(m, j) = x
      BY DEF Yields, NewChild
    <2>4. m.mine \in BOOLEAN
      BY DEF Move
    <2>5. x \in F
      <3> HIDE DEF F, x
      <3> QED
        BY <2>1, <2>4, <1>7, <1>8
    <2> HIDE DEF F, x
    <2> QED
      BY <2>1, <2>2, <2>3, <2>5
  <1>11. x \in U \ {0} /\ (m.label # 0 => x \notin V /\ F \subseteq {x})
    BY <1>6, <1>9, <1>10
  <1> HIDE DEF x, F, t
  <1>12. Reached(t, V, F, x, m.label)
    BY <1>2, <1>4, <1>9, <1>11 DEF Reached
  <1> QED
    BY <1>12 DEF x, F, t

\* A move, from its start on
LEMMA MoveChildrenOk ==
    ASSUME NEW m, Move(m), NEW t, NEW from, NEW V,
           MoveAt(m, 0, [t |-> StartMove(t, m), from |-> from], V)
    PROVE  \E V1, F1 : Reached(MoveChildren(t, m, from), V1, F1, NewChild(m), m.label)
  <1> DEFINE n == Len(m.labels)
             s0 == [t |-> StartMove(t, m), from |-> from]
             moving == CHOOSE f : f = [k \in 0..n |-> IF k = 0 THEN s0 ELSE MoveChild(m, f[k - 1], k)]
  <1>1. n \in Nat
    BY MoveFacts
  <1>2. MoveChildren(t, m, from) = moving[n].t
    BY DEF MoveChildren
  <1>3. IsMoving(moving, n, s0, m)
    <2>1. \E f : IsMoving(f, n, s0, m)
      BY <1>1, MoveMade
    <2> HIDE DEF s0
    <2> QED
      BY <2>1 DEF IsMoving
  <1> HIDE DEF moving, s0
  <1>4. \A k \in 0..n : moving[k] = IF k = 0 THEN s0 ELSE MoveChild(m, moving[k - 1], k)
    BY <1>3 DEF IsMoving
  <1> DEFINE S == {k \in Nat : k <= n => \E W : MoveAt(m, k, moving[k], W)}
  <1>5. 0 \in S
    <2>1. moving[0] = s0
      BY <1>1, <1>4
    <2>2. \E W : MoveAt(m, 0, moving[0], W)
      BY <2>1 DEF s0
    <2> QED
      BY <2>2
  <1>6. ASSUME NEW k \in Nat, k \in S PROVE k + 1 \in S
    <2> SUFFICES ASSUME k + 1 <= n PROVE \E W : MoveAt(m, k + 1, moving[k + 1], W)
      OBVIOUS
    <2>1. k <= n /\ k \in 0..(n - 1) /\ k + 1 \in 0..n /\ k + 1 # 0 /\ (k + 1) - 1 = k
      BY <1>1
    <2>2. PICK W : MoveAt(m, k, moving[k], W)
      BY <2>1, <1>6
    <2>3. moving[k + 1] = MoveChild(m, moving[k], k + 1)
      BY <2>1, <1>4
    <2>4. \E W1 : MoveAt(m, k + 1, MoveChild(m, moving[k], k + 1), W1)
      BY <2>1, <2>2, MoveTurn
    <2> QED
      BY <2>3, <2>4
  <1>7. PICK W : MoveAt(m, n, moving[n], W)
    <2>1. n \in S
      <3> HIDE DEF S, n
      <3> QED
        BY <1>1, <1>5, <1>6, Induction
    <2> QED
      BY <2>1, <1>1
  <1>8. Reached(moving[n].t, W, Leaves(m, n), NewChild(m), m.label)
    BY <1>7, MoveEnds
  <1> QED
    BY <1>2, <1>8

-----------------------------------------------------------------------------
(* The start of a move                                                     *)

\* The labels of all children and the new one
LEMMA SetChildIns ==
    ASSUME NEW t, NEW base, NEW c, NEW s, Chain(t, base, c, s), NEW label, label \in Label
    PROVE  SetChild(t, base, c, label) = Ins(s, IF s[1] = 0 THEN 2 ELSE 1, label)
  <1> DEFINE n == Len(s)
  <1>1. Children(t, base, c) = s
    BY ChildrenAre
  <1>2. s \in Lists /\ s[1] = c
    BY DEF Chain
  <1>3. n \in Nat /\ n >= 1 /\ s \in Seq(Label) /\ 0 \in Label
    <2>1. 0 \in Label
      BY LabelAssumption DEF Label
    <2> QED
      BY <2>1, <1>2, ListNamed DEF Named
  <1>4. CASE c = 0
    <2> DEFINE r == <<0, label>> \o Tail(s)
               w == [i \in 1..(Len(s) + 1) |-> IF i < 2 THEN s[i] ELSE IF i = 2 THEN label ELSE s[i - 1]]
    <2>1. s # << >>
      BY <1>3
    <2>2. Tail(s) \in Seq(Label) /\ Len(Tail(s)) = n - 1 /\ \A i \in 1..(n - 1) : Tail(s)[i] = s[i + 1]
      BY <2>1, <1>3
    <2>3. <<0, label>> \in Seq(Label) /\ Len(<<0, label>>) = 2
      BY <1>3
    <2>4. r \in Seq(Label) /\ Len(r) = n + 1
      BY <2>2, <2>3, <1>3
    <2>5. \A i \in 1..(n + 1) : r[i] = w[i]
      <3> SUFFICES ASSUME NEW i \in 1..(n + 1) PROVE r[i] = w[i]
        OBVIOUS
      <3>1. CASE i = 1
        BY <3>1, <2>2, <2>3, <1>2, <1>3, <1>4
      <3>2. CASE i = 2
        BY <3>2, <2>2, <2>3, <1>3
      <3>3. CASE i > 2
        <4>1. r[i] = Tail(s)[i - 2]
          BY <3>3, <2>2, <2>3, <1>3
        <4>2. i - 2 \in 1..(n - 1) /\ (i - 2) + 1 = i - 1
          BY <3>3, <1>3
        <4>3. Tail(s)[i - 2] = s[(i - 2) + 1]
          BY <4>2, <2>2
        <4>4. w[i] = s[i - 1]
          BY <3>3, <1>3
        <4> QED
          BY <4>1, <4>2, <4>3, <4>4
      <3> QED
        BY <3>1, <3>2, <3>3, <1>3
    <2>6. r = [i \in 1..(n + 1) |-> r[i]] /\ w = [i \in 1..(n + 1) |-> w[i]]
      BY <2>4
    <2>7. r = w
      <3> HIDE DEF r, w
      <3> QED
        BY <2>5, <2>6
    <2>8. SetChild(t, base, c, label) = r
      BY <1>1, <1>4 DEF SetChild
    <2>9. Ins(s, IF s[1] = 0 THEN 2 ELSE 1, label) = w
      BY <1>2, <1>4 DEF Ins
    <2> QED
      BY <2>7, <2>8, <2>9
  <1>5. CASE c # 0
    <2> DEFINE r == <<label>> \o s
               w == [i \in 1..(Len(s) + 1) |-> IF i < 1 THEN s[i] ELSE IF i = 1 THEN label ELSE s[i - 1]]
    <2>1. <<label>> \in Seq(Label) /\ Len(<<label>>) = 1
      OBVIOUS
    <2>2. r \in Seq(Label) /\ Len(r) = n + 1
      BY <2>1, <1>3
    <2>3. \A i \in 1..(n + 1) : r[i] = w[i]
      <3> SUFFICES ASSUME NEW i \in 1..(n + 1) PROVE r[i] = w[i]
        OBVIOUS
      <3>1. CASE i = 1
        BY <3>1, <2>1, <1>3
      <3>2. CASE i > 1
        BY <3>2, <2>1, <1>3
      <3> QED
        BY <3>1, <3>2, <1>3
    <2>4. r = [i \in 1..(n + 1) |-> r[i]] /\ w = [i \in 1..(n + 1) |-> w[i]]
      BY <2>2
    <2>5. r = w
      <3> HIDE DEF r, w
      <3> QED
        BY <2>3, <2>4
    <2>6. SetChild(t, base, c, label) = r
      BY <1>1, <1>5 DEF SetChild
    <2>7. Ins(s, IF s[1] = 0 THEN 2 ELSE 1, label) = w
      BY <1>2, <1>5 DEF Ins
    <2> QED
      BY <2>5, <2>6, <2>7
  <1> QED
    BY <1>4, <1>5

\* A move is prepared: s are the labels of the children, q waits.
Prepared(m, t, V, s, q) ==
    /\ Alloc(t) /\ Tree(InUse(t), t, V, {}, -1)
    /\ m.mine \in BOOLEAN /\ m.label \in Label /\ m.parent \in InUse(t) \ V /\ m.parent # 0
    /\ Kin(InUse(t), t, V, m.parent, s) /\ m.old = t.node[m.parent].base
    /\ m.labels \in Lists /\ \A i \in 2..Len(m.labels) : m.labels[i] # 0
    /\ m.base_n \in Nat /\ m.base_n \div B # 0
    /\ \A l \in Label : l \in Members(s) <=> \E j \in 1..Len(m.labels) : m.labels[j] = l /\ ~ Own(m, j)
    /\ m.mine => /\ m.base_n = m.old /\ \E j \in 1..Len(m.labels) : m.labels[j] = m.label
                 /\ m.labels[1] = m.label \/ m.labels[1] = s[1]
    /\ ~ m.mine => /\ m.labels = s /\ Target(m) \in KidsIn(InUse(t), t, m.parent)
                   /\ q \in InUse(t) \ V /\ q # m.parent /\ m.base_n = t.node[q].base
    /\ m.base \in Nat /\ m.base \div B # 0
    /\ \A j \in 1..Len(m.labels) : NewOf(m, j) \in Free(t)

\* The children that move are those under the old labels.
KidsMove(m, t, V, s, q) ==
    /\ KidsIn(InUse(t), t, m.parent) = {OldOf(m, j) : j \in {h \in 1..Len(m.labels) : ~ Own(m, h)}}
    /\ \A j \in 1..Len(m.labels) : ~ Own(m, j) => (OldOf(m, j) \in V <=> m.labels[j] = 0)
    /\ m.old \in Nat /\ m.old \div B # 0 /\ m.old \in 0..(t.size - 1)
    /\ m.labels[1] \in Label /\ (~ (m.mine /\ m.labels[1] = m.label) => m.labels[1] = t.ninfo[m.parent].child)

\* The labels a move goes through are those of all children of the parent that moves.
LEMMA PreparedKids ==
    ASSUME NEW m, NEW t, NEW V, NEW s, NEW q, Prepared(m, t, V, s, q)
    PROVE  KidsMove(m, t, V, s, q)
  <1> DEFINE U == InUse(t)
             p == m.parent
             L == m.labels
             n == Len(m.labels)
             old == m.old
  <1>1. /\ p # 0 /\ Kin(U, t, V, p, s) /\ t.node[p].base = old /\ L \in Lists /\ Alloc(t)
    BY DEF Prepared
  <1>2. \A l \in Label : l \in Members(s) <=> \E j \in 1..n : L[j] = l /\ ~ Own(m, j)
    BY DEF Prepared
  <1>3. n \in Nat /\ n >= 1 /\ 1 \in 1..n /\ \A j \in 1..n : L[j] \in Label
    BY <1>1, ListNamed DEF Named
  <1>4. t.size \in Nat
    BY <1>1, NodeTypes DEF Alloc
  <1> HIDE DEF U, L, n, p, old
  <1>5. /\ old \in 0..(t.size - 1) /\ old \div B # 0
        /\ Chain(t, old, t.ninfo[p].child, s)
        /\ \A l \in Members(s) : To(old, l) \in KidsIn(U, t, p)
        /\ \A x \in KidsIn(U, t, p) : \E l \in Members(s) : x = To(old, l)
        /\ \A x \in KidsIn(U, t, p) : x \in V <=> x = old
    BY <1>1 DEF Kin
  <1>6. old \in Nat
    BY <1>4, <1>5
  <1>7. \A l \in Members(s) : l \in Label
    <2>1. s \in Lists
      BY <1>5 DEF Chain
    <2>2. \A i \in 1..Len(s) : s[i] \in Label
      BY <2>1, ListNamed DEF Named
    <2> QED
      BY <2>2 DEF Members
  <1>8. KidsIn(U, t, p) = {OldOf(m, j) : j \in {h \in 1..n : ~ Own(m, h)}}
    <2>1. \A j \in 1..n : OldOf(m, j) = To(old, L[j])
      BY DEF OldOf, old, L
    <2>2. ASSUME NEW x \in KidsIn(U, t, p) PROVE \E j \in {h \in 1..n : ~ Own(m, h)} : x = OldOf(m, j)
      <3>1. PICK l \in Members(s) : x = To(old, l)
        BY <1>5
      <3>2. PICK j \in 1..n : L[j] = l /\ ~ Own(m, j)
        BY <3>1, <1>2, <1>7
      <3> QED
        BY <3>1, <3>2, <2>1
    <2>3. ASSUME NEW j \in {h \in 1..n : ~ Own(m, h)} PROVE OldOf(m, j) \in KidsIn(U, t, p)
      <3>1. L[j] \in Members(s)
        BY <1>2, <1>3
      <3> QED
        BY <3>1, <2>1, <1>5
    <2> QED
      BY <2>2, <2>3
  <1>9. ASSUME NEW j \in 1..n, ~ Own(m, j) PROVE OldOf(m, j) \in V <=> L[j] = 0
    <2>1. OldOf(m, j) \in KidsIn(U, t, p)
      BY <1>8, <1>9
    <2>2. OldOf(m, j) = old <=> L[j] = 0
      <3>1. 0 \in Label /\ L[j] \in Label
        BY <1>3, LabelAssumption DEF Label
      <3>2. To(old, 0) = old /\ (To(old, L[j]) = To(old, 0) => L[j] = 0)
        BY <3>1, <1>6, ToFacts
      <3>3. OldOf(m, j) = To(old, L[j])
        BY DEF OldOf, old, L
      <3> QED
        BY <3>2, <3>3
    <2> QED
      BY <2>1, <2>2, <1>5
  <1>10. ~ (m.mine /\ L[1] = m.label) => L[1] = t.ninfo[p].child
    <2>1. s[1] = t.ninfo[p].child
      BY <1>5 DEF Chain
    <2>2. m.mine \in BOOLEAN /\ (m.mine => L[1] = m.label \/ L[1] = s[1]) /\ (~ m.mine => L = s)
      BY DEF Prepared, L
    <2> QED
      BY <2>1, <2>2
  <1> QED
    BY <1>3, <1>5, <1>6, <1>8, <1>9, <1>10 DEF U, L, n, p, old, KidsMove

\* A prepared move is one.
LEMMA PreparedMove ==
    ASSUME NEW m, NEW t, NEW V, NEW s, NEW q, Prepared(m, t, V, s, q)
    PROVE  Move(m)
  <1> DEFINE U == InUse(t)
             n == Len(m.labels)
  <1>1. Alloc(t) /\ m.parent \in U /\ m.parent # 0 /\ m.labels \in Lists
    BY DEF Prepared
  <1>2. n \in Nat /\ n >= 1
    BY <1>1, ListNamed DEF Named
  <1>3. KidsIn(U, t, m.parent) = {OldOf(m, j) : j \in {h \in 1..n : ~ Own(m, h)}}
        /\ m.old \in Nat /\ m.old \div B # 0
    <2>1. KidsMove(m, t, V, s, q)
      BY PreparedKids
    <2> QED
      BY <2>1 DEF KidsMove
  <1>4. \A j \in 1..n : NewOf(m, j) \in Free(t)
    BY DEF Prepared
  <1>5. m.parent \in Nat
    <2>1. t.size \in Nat /\ U \subseteq 0..(t.size - 1)
      BY <1>1, NodeTypes DEF Alloc
    <2> QED
      BY <2>1, <1>1
  <1>6. \A j, k \in 1..n : ~ Own(m, k) => NewOf(m, j) # OldOf(m, k)
    <2> SUFFICES ASSUME NEW j \in 1..n, NEW k \in 1..n, ~ Own(m, k) PROVE NewOf(m, j) # OldOf(m, k)
      OBVIOUS
    <2>1. OldOf(m, k) \in KidsIn(U, t, m.parent)
      BY <1>3
    <2>2. OldOf(m, k) \in U
      BY <2>1 DEF KidsIn
    <2>3. OldOf(m, k) \notin Free(t)
      BY <2>2 DEF InUse
    <2> QED
      BY <2>3, <1>4
  <1>7. ~ m.mine => \E j \in 1..n : OldOf(m, j) = Target(m)
    <2>1. ~ m.mine => Target(m) \in KidsIn(U, t, m.parent)
      BY DEF Prepared
    <2> QED
      BY <2>1, <1>3
  <1>8. /\ m.mine \in BOOLEAN /\ m.label \in Label /\ m.labels \in Lists
        /\ \A i \in 2..Len(m.labels) : m.labels[i] # 0
        /\ m.base_n \in Nat /\ m.base_n \div B # 0
        /\ m.base \in Nat /\ m.base \div B # 0
        /\ m.mine => m.old = m.base_n /\ \E j \in 1..Len(m.labels) : m.labels[j] = m.label
    BY DEF Prepared
  <1> QED
    BY <1>1, <1>3, <1>5, <1>6, <1>7, <1>8 DEF Move

\* Before the first turn only the base and the first label are written.
Started(m, t, w) ==
    /\ Wrote(t, w)
    /\ \A j \in 0..(t.size - 1) :
         /\ w.node[j].check = t.node[j].check
         /\ w.node[j].base = IF j = m.parent THEN m.base ELSE t.node[j].base
         /\ w.ninfo[j].sibling = t.ninfo[j].sibling
         /\ w.ninfo[j].child = IF j = m.parent THEN m.labels[1] ELSE t.ninfo[j].child

\* StartMove writes the base and the first label of the parent, and nothing else.
LEMMA StartedOk ==
    ASSUME NEW m, NEW t, Alloc(t), m.parent \in InUse(t), m.base \in Nat, m.labels[1] \in Label,
           ~ (m.mine /\ m.labels[1] = m.label) => m.labels[1] = t.ninfo[m.parent].child
    PROVE  Started(m, t, StartMove(t, m))
  <1> DEFINE p == m.parent
             c == m.labels[1]
             u == [t EXCEPT !.node[p].base = m.base]
             w == [u EXCEPT !.ninfo[p].child = c]
  <1>1. StartMove(t, m) = w
    <2>1. StartMove(t, m) = [u EXCEPT !.ninfo[p].child = IF m.mine /\ c = m.label THEN m.label ELSE u.ninfo[p].child]
      BY DEF StartMove
    <2>2. u.ninfo[p].child = t.ninfo[p].child
      OBVIOUS
    <2>3. (IF m.mine /\ c = m.label THEN m.label ELSE u.ninfo[p].child) = c
      BY <2>2
    <2> HIDE DEF u, c, p
    <2> QED
      BY <2>1, <2>3
  <1>2. BaseSet(t, u, p, m.base)
    <2>1. m.base \in Int
      OBVIOUS
    <2> HIDE DEF p
    <2>2. p \in InUse(t)
      BY DEF p
    <2> QED
      BY <2>1, <2>2, SetBase
  <1> HIDE DEF u
  <1>3. /\ Wrote(t, u) /\ Alloc(u) /\ InUse(u) = InUse(t) /\ u.size = t.size /\ u.ninfo = t.ninfo
        /\ \A j \in 0..(t.size - 1) : /\ u.node[j].check = t.node[j].check
                                      /\ u.node[j].base = IF j = p THEN m.base ELSE t.node[j].base
    BY <1>2 DEF BaseSet, Wrote
  <1>4. ChildSet(u, w, p, c)
    <2>1. p \in InUse(u) /\ c \in Label
      BY <1>3
    <2> HIDE DEF p, c
    <2> QED
      BY <2>1, <1>3, SetFirst
  <1> HIDE DEF w
  <1>5. /\ Wrote(u, w) /\ w.node = u.node
        /\ \A j \in 0..(t.size - 1) : /\ w.ninfo[j].sibling = t.ninfo[j].sibling
                                      /\ w.ninfo[j].child = IF j = p THEN c ELSE t.ninfo[j].child
    BY <1>3, <1>4 DEF ChildSet
  <1>6. Wrote(t, w)
    BY <1>3, <1>5, WroteTwice
  <1>7. Started(m, t, w)
    BY <1>3, <1>5, <1>6 DEF Started
  <1> QED
    BY <1>1, <1>7

\* Then the loop's invariant holds.
LEMMA StartOk ==
    ASSUME NEW m, NEW t, NEW V, NEW s, NEW q, Prepared(m, t, V, s, q)
    PROVE  MoveAt(m, 0, [t |-> StartMove(t, m), from |-> q], V)
  <1> DEFINE U == InUse(t)
             n == Len(m.labels)
             p == m.parent
             w == StartMove(t, m)
             r == [t |-> w, from |-> q]
  <1>1. /\ Alloc(t) /\ Tree(U, t, V, {}, -1) /\ p \in U \ V /\ p # 0 /\ m.base \in Nat /\ m.labels \in Lists
        /\ \A j \in 1..n : NewOf(m, j) \in Free(t)
    BY DEF Prepared
  <1>2. n \in Nat /\ n >= 1
    BY <1>1, ListNamed DEF Named
  <1>3. /\ KidsIn(U, t, p) = {OldOf(m, j) : j \in {h \in 1..n : ~ Own(m, h)}}
        /\ \A j \in 1..n : ~ Own(m, j) => (OldOf(m, j) \in V <=> m.labels[j] = 0)
        /\ m.labels[1] \in Label /\ (~ (m.mine /\ m.labels[1] = m.label) => m.labels[1] = t.ninfo[p].child)
    <2>1. KidsMove(m, t, V, s, q)
      BY PreparedKids
    <2> QED
      BY <2>1 DEF KidsMove
  <1>4. Started(m, t, w)
    BY <1>1, <1>3, StartedOk
  <1>5. t.size \in Nat /\ U \subseteq 0..(t.size - 1) /\ 0 \in U
    BY <1>1, NodeTypes DEF Alloc
  <1> HIDE DEF w
  <1>6. /\ Wrote(t, w)
        /\ \A j \in U :
             /\ w.node[j].check = t.node[j].check
             /\ w.node[j].base = IF j = p THEN m.base ELSE t.node[j].base
             /\ w.ninfo[j].sibling = t.ninfo[j].sibling
             /\ w.ninfo[j].child = IF j = p THEN m.labels[1] ELSE t.ninfo[j].child
    BY <1>4, <1>5 DEF Started
  <1>7. Alloc(w) /\ InUse(w) = U /\ Free(w) = Free(t) /\ w.size = t.size
    BY <1>6 DEF Wrote
  <1>8. Tree(U, w, V, {}, p)
    <2>1. Tree(U, t, V, {}, p)
      BY <1>1, TreeOpen
    <2>2. ListWritten(U, t, V, {}, p, w)
      <3>1. \A i \in U \ (V \cup {}) : i # p => w.node[i].base = t.node[i].base /\ w.ninfo[i].child = t.ninfo[i].child
        BY <1>6
      <3>2. t.size \in Nat /\ w.size \in Nat /\ t.size <= w.size
        BY <1>5, <1>7
      <3>3. \A i \in U : w.node[i].check = t.node[i].check /\ w.ninfo[i].sibling = t.ninfo[i].sibling
        BY <1>6
      <3> HIDE DEF U, p
      <3> QED
        BY <3>1, <3>2, <3>3, <1>5 DEF ListWritten
    <2> HIDE DEF U, p
    <2> QED
      BY <2>1, <2>2, TreeWritten
  <1>9. KidsIn(U, w, p) = KidsAt(m, 0, 0)
    <2>1. KidsIn(U, w, p) = KidsIn(U, t, p)
      BY <1>6 DEF KidsIn
    <2>2. KidsAt(m, 0, 0) = {OldOf(m, j) : j \in {h \in 1..n : ~ Own(m, h)}}
      <3>1. 0 + 1 = 1 /\ 1..0 = {}
        OBVIOUS
      <3> QED
        BY <3>1 DEF KidsAt
    <2> QED
      BY <2>1, <2>2, <1>3
  <1>10. Leaves(m, 0) = {}
    <2>1. 1..0 = {}
      OBVIOUS
    <2> QED
      BY <2>1 DEF Leaves
  <1>11. Moving(m, 0, 0, w, V, {})
    <2>1. w.node[p].base = m.base /\ w.ninfo[p].child = m.labels[1]
      BY <1>1, <1>6
    <2>2. 0 + 1 = 1 /\ \A j \in 1..0 : FALSE
      OBVIOUS
    <2>3. p \in InUse(w) \ (V \cup {}) /\ KidsIn(InUse(w), w, p) = KidsAt(m, 0, 0)
          /\ Tree(InUse(w), w, V, {}, p)
      BY <1>1, <1>7, <1>8, <1>9
    <2>4. \A j \in (0 + 1)..n : ~ Own(m, j) => (OldOf(m, j) \in V <=> m.labels[j] = 0)
      BY <2>2, <1>3
    <2>5. \A j \in (0 + 1)..n : NewOf(m, j) \in Free(w)
      BY <2>2, <1>1, <1>7
    <2> HIDE DEF U
    <2> QED
      BY <2>1, <2>2, <2>3, <2>4, <2>5, <1>7 DEF Moving
  <1>12. ~ m.mine => Waits(m, w, V, {}, q)
    <2> SUFFICES ASSUME ~ m.mine PROVE Waits(m, w, V, {}, q)
      OBVIOUS
    <2>1. q \in U \ V /\ q # p /\ m.base_n = t.node[q].base
      BY DEF Prepared
    <2>2. w.node[q].base = m.base_n
      BY <2>1, <1>6
    <2>3. q \in InUse(w) \ (V \cup {})
      BY <2>1, <1>7
    <2> QED
      BY <2>1, <2>2, <2>3 DEF Waits
  <1>13. r.t = w /\ r.from = q
    OBVIOUS
  <1>14. \A j \in 1..0 : FALSE
    OBVIOUS
  <1> HIDE DEF r
  <1>15. MoveAt(m, 0, r, V)
    <2>1. Moving(m, 0, 0, r.t, V, Leaves(m, 0))
      BY <1>10, <1>11, <1>13
    <2>2. ~ m.mine => Waits(m, r.t, V, Leaves(m, 0), r.from)
      BY <1>10, <1>12, <1>13
    <2> QED
      BY <2>1, <2>2, <1>10, <1>14 DEF MoveAt
  <1> QED
    BY <1>15 DEF r, w
-----------------------------------------------------------------------------
(* A conflict *)

\* The place for the children that move suits all their labels.
PlaceOk(t, f, labels) == Found(t, f) /\ AllFree(f.t, f.to, labels)

\* etdb_trie_find_place finds places that are free for all labels asked for.
LEMMA PlaceForOk ==
    ASSUME NEW t, Alloc(t), NEW labels, labels \in Seq(Label), labels # << >>
    PROVE  PlaceOk(t, PlaceFor(t, labels), labels)
  <1>1. CASE Len(labels) = 1
    <2> DEFINE f == FindPlace(t)
    <2>1. Found(t, f)
      BY FindPlaceOk
    <2>2. PlaceFor(t, labels) = f
      BY <1>1 DEF PlaceFor
    <2> HIDE DEF f
    <2>3. f.to \in Nat /\ Place(f.t, f.to)
      <3>1. Alloc(f.t) /\ Place(f.t, f.to)
        BY <2>1 DEF Found
      <3>2. f.t.size \in Nat
        BY <3>1, NodeTypes DEF Alloc
      <3> QED
        BY <3>1, <3>2 DEF Place, Free
    <2>4. labels[1] \in Label
      BY <1>1
    <2>5. To(To(f.to, labels[1]), labels[1]) = f.to
      BY <2>3, <2>4, ToFacts
    <2>6. AllFree(f.t, f.to, labels)
      <3>1. \A i \in 1..1 : i = 1
        OBVIOUS
      <3> QED
        BY <1>1, <2>3, <2>5, <3>1 DEF AllFree
    <2> QED
      BY <2>1, <2>2, <2>6 DEF PlaceOk
  <1>2. CASE Len(labels) # 1
    BY <1>2, FindPlaceIntervalOk DEF PlaceFor, PlaceOk
  <1> QED
    BY <1>1, <1>2

\* The labels of the children and a new one
Widened(s, label, L) ==
    /\ L \in Lists /\ \A i \in 2..Len(L) : L[i] # 0
    /\ \E j \in 1..Len(L) : L[j] = label
    /\ L[1] = label \/ L[1] = s[1]
    /\ \A l \in Label : l \in Members(s) <=> \E j \in 1..Len(L) : L[j] = l /\ l # label

\* etdb_trie_set_child lists the new label beside those of the children, each once.
LEMMA WidenOk ==
    ASSUME NEW s, s \in Lists, \A i \in 2..Len(s) : s[i] # 0, NEW label, label \in Label,
           \A i \in 1..Len(s) : s[i] # label
    PROVE  Widened(s, label, Ins(s, IF s[1] = 0 THEN 2 ELSE 1, label))
  <1> DEFINE k == IF s[1] = 0 THEN 2 ELSE 1
             n == Len(s)
             L == Ins(s, k, label)
  <1>1. n \in Nat /\ n >= 1
    BY ListNamed DEF Named
  <1>2. k \in 1..(n + 1) /\ k \in {1, 2} /\ (k = 1 => s[1] # 0) /\ (k = 2 => s[1] = 0)
    BY <1>1
  <1> HIDE DEF k
  <1>3. Inserted(s, k, label, L)
    <2> HIDE DEF L, n
    <2>1. \A i \in 1..Len(s) : s[i] # label
      OBVIOUS
    <2>2. k \in 1..(Len(s) + 1)
      BY <1>2 DEF n
    <2> QED
      BY <2>1, <2>2, InsOk DEF L
  <1>4. Members(L) = Members(s) \cup {label}
    <2>1. k \in 1..(Len(s) + 1)
      BY <1>2
    <2> HIDE DEF L, n
    <2> QED
      BY <2>1, <1>3, InsMembers, ZenonT(60)
  <1> HIDE DEF L
  <1>5. /\ L \in Lists /\ Len(L) = n + 1
        /\ \A i \in 1..(n + 1) : L[i] = IF i < k THEN s[i] ELSE IF i = k THEN label ELSE s[i - 1]
    BY <1>3 DEF Inserted
  <1>6. \A i \in 2..Len(L) : L[i] # 0
    <2> SUFFICES ASSUME NEW i \in 2..(n + 1) PROVE L[i] # 0
      BY <1>5
    <2>1. CASE i = k
      <3>1. label # 0
        BY <2>1, <1>1, <1>2
      <3> QED
        BY <3>1, <2>1, <1>5, <1>1
    <2>2. CASE i # k
      <3>1. i > k
        BY <2>2, <1>2
      <3>2. L[i] = s[i - 1]
        BY <3>1, <1>5, <1>2, <1>1
      <3>3. CASE i = 2
        BY <3>1, <3>2, <3>3, <1>2
      <3>4. CASE i > 2
        <4>1. i - 1 \in 2..n
          BY <3>4, <1>1
        <4> QED
          BY <4>1, <3>2
      <3> QED
        BY <3>3, <3>4
    <2> QED
      BY <2>1, <2>2
  <1>7. L[k] = label /\ k \in 1..Len(L)
    BY <1>1, <1>2, <1>5
  <1>8. L[1] = label \/ L[1] = s[1]
    BY <1>1, <1>2, <1>5
  <1>9. label \notin Members(s)
    BY DEF Members
  <1>10. \A l \in Label : l \in Members(s) <=> \E j \in 1..Len(L) : L[j] = l /\ l # label
    <2>1. \A l : l \in Members(L) <=> \E j \in 1..Len(L) : L[j] = l
      BY DEF Members
    <2> QED
      BY <2>1, <1>4, <1>9
  <1> QED
    BY <1>5, <1>6, <1>7, <1>8, <1>10 DEF Widened, L, k

\* The place of a new child of q is taken by a child of another node.
Conflict(t, V, q, base, label, p) ==
    /\ Alloc(t) /\ Tree(InUse(t), t, V, {}, -1)
    /\ q \in InUse(t) \ V /\ q # 0 /\ p \in InUse(t) \ V /\ p # 0 /\ p # q
    /\ label \in Label /\ base = t.node[q].base /\ base \in Nat /\ base \div B # 0
    /\ To(base, label) \in KidsIn(InUse(t), t, p)

\* The place of the new child is taken only by a child of another node, never by the root.
LEMMA ConflictOk ==
    ASSUME NEW t, Alloc(t), NEW V, Tree(InUse(t), t, V, {}, -1), NEW q, q \in InUse(t) \ V,
           NEW label, label \in Label, q = 0 => label # 0,
           NEW base, base = t.node[q].base, NEW p, p = t.node[To(base, label)].check, p >= 0, p # q
    PROVE  Conflict(t, V, q, base, label, p)
  <1> DEFINE U == InUse(t)
             x == To(base, label)
  <1>1. t.size \in Nat /\ U \subseteq 0..(t.size - 1) /\ 0 \in U
        /\ \A i \in 1..(t.size - 1) : i \in U <=> t.node[i].check >= 0
    BY NodeTypes DEF Alloc
  <1>2. /\ base \in Nat /\ base \in 0..(t.size - 1)
        /\ base \div B = 0 <=> q = 0
        /\ q = 0 => base = 0
    <2>1. q \in U \ (V \cup {}) /\ q # -1
      BY <1>1
    <2> HIDE DEF U
    <2>2. Tree(U, t, V, {}, -1) /\ t.size \in Nat
      BY <1>1 DEF U
    <2>3. /\ t.node[q].base \in Nat /\ t.node[q].base \in 0..(t.size - 1)
          /\ t.node[q].base \div B = 0 <=> q = 0
          /\ q = 0 => t.node[q].base = 0 /\ t.ninfo[q].child = 0
      BY <2>1, <2>2, KinFacts
    <2> QED
      BY <2>3
  <1>3. x \in 0..(t.size - 1) /\ x \div B = base \div B
    <2>1. Shape(t)
      BY DEF Alloc
    <2> QED
      BY <2>1, <1>2, ToInside
  <1>4. x # 0
    <2>1. CASE q = 0
      <3>1. To(0, label) # To(0, 0)
        <4>1. 0 \in Nat /\ 0 \in Label
          BY LabelAssumption DEF Label
        <4> QED
          BY <4>1, <2>1, ToFacts
      <3>2. To(0, 0) = 0
        <4>1. 0 \in Nat /\ 0 \in Label
          BY LabelAssumption DEF Label
        <4> QED
          BY <4>1, ToFacts
      <3> QED
        BY <2>1, <3>1, <3>2, <1>2
    <2>2. CASE q # 0
      <3>1. 0 \div B = 0
        BY LabelAssumption
      <3> QED
        BY <2>2, <3>1, <1>2, <1>3
    <2> QED
      BY <2>1, <2>2
  <1> HIDE DEF x
  <1>5. x \in U /\ t.node[x].check = p
    <2>1. x \in 1..(t.size - 1)
      BY <1>3, <1>4, <1>1
    <2>2. t.node[x].check = p
      BY DEF x
    <2> QED
      BY <2>1, <2>2, <1>1
  <1>6. /\ p \in U \ V
        /\ x \div B = 0 => p = 0
        /\ x \div B # 0 /\ p = 0 => FALSE
    <2>1. Nodes(U, t, V, {})
      BY DEF Tree
    <2>2. p \in U \ V /\ (x \div B = 0 => p = 0)
      BY <2>1, <1>5, <1>4 DEF Nodes
    <2>3. ASSUME x \div B # 0, p = 0 PROVE FALSE
      <3>1. 0 \in U \ (V \cup {}) /\ 0 # -1
        BY <2>2, <2>3
      <3>2. x \in KidsIn(U, t, 0)
        BY <1>4, <1>5, <2>3 DEF KidsIn
      <3>3. Tree(U, t, V, {}, -1) /\ t.size \in Nat
        BY <1>1
      <3> HIDE DEF U
      <3>4. /\ t.node[0].base \div B = 0 <=> 0 = 0
            /\ \A y \in KidsIn(U, t, 0) : y \div B = t.node[0].base \div B
        BY <3>1, <3>3, KinFacts
      <3> QED
        BY <3>2, <3>4, <2>3
    <2> QED
      BY <2>2, <2>3
  <1>7. q # 0
    <2>1. ASSUME q = 0 PROVE FALSE
      BY <2>1, <1>2, <1>3, <1>6
    <2> QED
      BY <2>1
  <1>8. p # 0 /\ base \div B # 0
    BY <1>2, <1>3, <1>6, <1>7
  <1>9. x \in KidsIn(U, t, p)
    BY <1>4, <1>5 DEF KidsIn
  <1> QED
    BY <1>2, <1>6, <1>7, <1>8, <1>9 DEF Conflict, x

\* etdb_trie_resolve: the other parent, whose children move, their labels, the move
Rival(t, q, label) == t.node[To(t.node[q].base, label)].check
IsMine(t, q, label) ==
    Consult(t, t.node[q].base, t.node[Rival(t, q, label)].base,
            t.ninfo[q].child, t.ninfo[Rival(t, q, label)].child)
MovedLabels(t, q, label) ==
    IF IsMine(t, q, label) THEN SetChild(t, t.node[q].base, t.ninfo[q].child, label)
    ELSE Children(t, t.node[Rival(t, q, label)].base, t.ninfo[Rival(t, q, label)].child)
Plan(t, q, label, e) ==
    [mine |-> IsMine(t, q, label), base_n |-> t.node[q].base, label |-> label,
     labels |-> MovedLabels(t, q, label),
     parent |-> IF IsMine(t, q, label) THEN q ELSE Rival(t, q, label),
     old |-> IF IsMine(t, q, label) THEN t.node[q].base ELSE t.node[Rival(t, q, label)].base,
     base |-> To(e, MovedLabels(t, q, label)[1])]

\* What etdb_trie_resolve returns, in these terms.
LEMMA ResolvedAs ==
    ASSUME NEW t, NEW q, NEW label, NEW base, base = t.node[q].base,
           NEW f, f = PlaceFor(t, MovedLabels(t, q, label)), NEW m, m = Plan(t, q, label, f.to)
    PROVE  Resolve(t, q, base, label) = [t |-> MoveChildren(f.t, m, q), to |-> NewChild(m)]
  <1>1. NewChild(m) = IF IsMine(t, q, label) THEN To(m.base, label) ELSE To(base, label)
    BY DEF NewChild, Target, Plan
  <1> QED
    BY <1>1 DEF Resolve, Plan, MovedLabels, IsMine, Rival

\* Looking for a place, which may add a block, keeps the nodes in use and their lists.
LEMMA PlaceKeeps ==
    ASSUME NEW t, NEW V, Alloc(t), Tree(InUse(t), t, V, {}, -1), NEW f, Found(t, f),
           NEW q, q \in InUse(t), NEW s, Kin(InUse(t), t, V, q, s)
    PROVE  /\ Alloc(f.t) /\ Tree(InUse(f.t), f.t, V, {}, -1) /\ InUse(f.t) = InUse(t)
           /\ Kin(InUse(f.t), f.t, V, q, s)
           /\ f.t.node[q] = t.node[q] /\ f.t.ninfo[q] = t.ninfo[q]
           /\ \A n \in InUse(t) : f.t.node[n] = t.node[n]
           /\ \A n \in InUse(t) : KidsIn(InUse(t), f.t, n) = KidsIn(InUse(t), t, n)
  <1> DEFINE U == InUse(t)
             w == f.t
  <1>1. KeptNodes(t, w)
    BY FoundKeeps
  <1> HIDE DEF w
  <1>2. Alloc(w) /\ InUse(w) = U /\ SameOn(U, t, w)
    BY <1>1 DEF KeptNodes
  <1>3. 0 \in U
    BY NodeTypes DEF Alloc
  <1>4. Tree(U, w, V, {}, -1)
    <2>1. Tree(U, t, V, {}, -1)
      OBVIOUS
    <2> HIDE DEF U
    <2> QED
      BY <2>1, <1>2, TreeSame
  <1>5. \A n \in U : w.node[n] = t.node[n] /\ w.ninfo[n] = t.ninfo[n]
    BY <1>2 DEF SameOn
  <1>6. \A n \in U : KidsIn(U, w, n) = KidsIn(U, t, n)
    BY <1>5 DEF KidsIn
  <1>7. Kin(U, w, V, q, s)
    <2>1. q \in U /\ Kin(U, t, V, q, s)
      OBVIOUS
    <2> HIDE DEF U
    <2>2. \A x \in KidsIn(U, t, q) : x \in V <=> x \in V
      OBVIOUS
    <2>3. SameKin(U, t, V, q, U, w, V, q)
      BY <2>1, <2>2, <1>2, <1>3, <1>6, SameKinOn
    <2> QED
      BY <2>1, <2>3, KinSame
  <1> QED
    BY <1>2, <1>4, <1>5, <1>6, <1>7 DEF w

\* All children find their place free.
RoomFor(m, w) ==
    /\ m.base \in Nat /\ m.base \div B # 0
    /\ \A j \in 1..Len(m.labels) : NewOf(m, j) \in Free(w)

\* The base that etdb_trie_resolve computes from the place has room for every label.
LEMMA RoomOk ==
    ASSUME NEW t, NEW m, m.labels \in Lists, NEW f, PlaceOk(t, f, m.labels), m.base = To(f.to, m.labels[1])
    PROVE  RoomFor(m, f.t)
  <1> DEFINE L == m.labels
             e == f.to
             w == f.t
  <1>1. Alloc(w) /\ Place(w, e) /\ AllFree(w, e, L)
    BY DEF PlaceOk, Found
  <1>2. e \in Nat /\ e \div B # 0
    <2>1. w.size \in Nat
      BY <1>1, NodeTypes DEF Alloc
    <2> QED
      BY <1>1, <2>1 DEF Place, Free
  <1>3. L[1] \in Label
    BY ListNamed DEF Named
  <1>4. m.base \in Nat /\ m.base \div B # 0
    BY <1>2, <1>3, ToBlock
  <1>5. \A j \in 1..Len(L) : To(m.base, L[j]) \in Free(w)
    <2> HIDE DEF L, e, w
    <2>1. m.base = To(e, L[1])
      BY DEF L, e
    <2> QED
      BY <1>1, <2>1 DEF AllFree, Place
  <1> QED
    BY <1>4, <1>5 DEF RoomFor, NewOf

\* The new label is not one of the children's.
LEMMA NewLabel ==
    ASSUME NEW t, NEW V, NEW q, NEW base, NEW label, NEW p, Conflict(t, V, q, base, label, p),
           NEW s, Kin(InUse(t), t, V, q, s)
    PROVE  \A i \in 1..Len(s) : s[i] # label
  <1> SUFFICES ASSUME NEW i \in 1..Len(s), s[i] = label PROVE FALSE
    OBVIOUS
  <1>1. label \in Members(s)
    BY DEF Members
  <1>2. To(t.node[q].base, label) \in KidsIn(InUse(t), t, q) \/ (q = 0 /\ label = 0)
    BY <1>1 DEF Kin
  <1>3. To(t.node[q].base, label) \in KidsIn(InUse(t), t, p) /\ q # 0 /\ p # q
    BY DEF Conflict
  <1> QED
    BY <1>2, <1>3 DEF KidsIn

\* The node's own children move, to make room for one more.
LEMMA MineReady ==
    ASSUME NEW t, NEW V, NEW q, NEW base, NEW label, NEW p, Conflict(t, V, q, base, label, p),
           NEW s, Kin(InUse(t), t, V, q, s),
           NEW m, m.mine = TRUE, m.base_n = base, m.old = base, m.label = label, m.parent = q,
           m.labels = SetChild(t, base, t.ninfo[q].child, label),
           NEW f, PlaceOk(t, f, m.labels), m.base = To(f.to, m.labels[1])
    PROVE  Prepared(m, f.t, V, s, q)
  <1> DEFINE U == InUse(t)
             L == m.labels
             w == f.t
  <1>1. /\ Alloc(t) /\ Tree(U, t, V, {}, -1) /\ q \in U \ V /\ q # 0
        /\ label \in Label /\ base = t.node[q].base /\ base \in Nat /\ base \div B # 0
    BY DEF Conflict
  <1>2. Chain(t, base, t.ninfo[q].child, s)
    BY <1>1 DEF Kin
  <1>3. s \in Lists /\ \A i \in 2..Len(s) : s[i] # 0
    BY <1>2 DEF Chain
  <1>4. \A i \in 1..Len(s) : s[i] # label
    BY NewLabel
  <1>5. Widened(s, label, L)
    <2>1. L = Ins(s, IF s[1] = 0 THEN 2 ELSE 1, label)
      BY <1>1, <1>2, SetChildIns
    <2>2. Widened(s, label, Ins(s, IF s[1] = 0 THEN 2 ELSE 1, label))
      BY <1>1, <1>3, <1>4, WidenOk
    <2> QED
      BY <2>1, <2>2
  <1>6. RoomFor(m, w)
    <2>1. m.labels \in Lists
      BY <1>5 DEF Widened
    <2> QED
      BY <2>1, RoomOk
  <1>7. /\ Alloc(w) /\ Tree(InUse(w), w, V, {}, -1) /\ InUse(w) = U
        /\ Kin(InUse(w), w, V, q, s) /\ w.node[q] = t.node[q]
    <2>1. Found(t, f) /\ q \in InUse(t)
      BY <1>1 DEF PlaceOk
    <2> QED
      BY <2>1, <1>1, PlaceKeeps
  <1> HIDE DEF w, U, L
  <1>8. \A l \in Label : l \in Members(s) <=> \E j \in 1..Len(L) : L[j] = l /\ ~ Own(m, j)
    <2>1. \A j \in 1..Len(L) : Own(m, j) <=> L[j] = label
      BY DEF Own, L
    <2>2. \A l \in Label : l \in Members(s) <=> \E j \in 1..Len(L) : L[j] = l /\ l # label
      BY <1>5 DEF Widened
    <2> QED
      BY <2>1, <2>2
  <1>9. /\ L \in Lists /\ \A i \in 2..Len(L) : L[i] # 0
        /\ \E j \in 1..Len(L) : L[j] = label
        /\ L[1] = label \/ L[1] = s[1]
    BY <1>5 DEF Widened
  <1>10. m.parent \in InUse(w) \ V /\ m.parent # 0 /\ Kin(InUse(w), w, V, m.parent, s)
         /\ m.old = w.node[m.parent].base
    BY <1>1, <1>7
  <1>11. m.label \in Label /\ m.base_n \in Nat /\ m.base_n \div B # 0
    BY <1>1
  <1> QED
    BY <1>6, <1>7, <1>8, <1>9, <1>10, <1>11 DEF Prepared, RoomFor, L, w

\* The other node's children move, and one of them makes room.
LEMMA OtherReady ==
    ASSUME NEW t, NEW V, NEW q, NEW base, NEW label, NEW p, Conflict(t, V, q, base, label, p),
           NEW s, Kin(InUse(t), t, V, p, s),
           NEW m, m.mine = FALSE, m.base_n = base, m.old = t.node[p].base, m.label = label, m.parent = p,
           m.labels = Children(t, t.node[p].base, t.ninfo[p].child),
           NEW f, PlaceOk(t, f, m.labels), m.base = To(f.to, m.labels[1])
    PROVE  Prepared(m, f.t, V, s, q)
  <1> DEFINE U == InUse(t)
             L == m.labels
             w == f.t
  <1>1. /\ Alloc(t) /\ Tree(U, t, V, {}, -1) /\ q \in U \ V /\ p \in U \ V /\ p # 0 /\ p # q
        /\ label \in Label /\ base = t.node[q].base /\ base \in Nat /\ base \div B # 0
        /\ To(base, label) \in KidsIn(U, t, p)
    BY DEF Conflict
  <1>2. Chain(t, t.node[p].base, t.ninfo[p].child, s)
    BY DEF Kin
  <1>3. s \in Lists /\ \A i \in 2..Len(s) : s[i] # 0
    BY <1>2 DEF Chain
  <1>4. L = s
    BY <1>2, ChildrenAre
  <1>5. RoomFor(m, w)
    BY <1>3, <1>4, RoomOk
  <1>6. Found(t, f)
    BY DEF PlaceOk
  <1>7. /\ Alloc(w) /\ Tree(InUse(w), w, V, {}, -1) /\ InUse(w) = U
        /\ Kin(InUse(w), w, V, p, s) /\ w.node[p] = t.node[p]
        /\ \A n \in U : w.node[n] = t.node[n]
        /\ \A n \in U : KidsIn(U, w, n) = KidsIn(U, t, n)
    <2>1. p \in InUse(t)
      BY <1>1
    <2> QED
      BY <2>1, <1>1, <1>6, PlaceKeeps
  <1> HIDE DEF w, U, L
  <1>8. \A l \in Label : l \in Members(s) <=> \E j \in 1..Len(L) : L[j] = l /\ ~ Own(m, j)
    BY <1>4 DEF Members, Own
  <1>9. L \in Lists /\ \A i \in 2..Len(L) : L[i] # 0
    BY <1>3, <1>4
  <1>10. m.parent \in InUse(w) \ V /\ m.parent # 0 /\ Kin(InUse(w), w, V, m.parent, s)
         /\ m.old = w.node[m.parent].base
    BY <1>1, <1>7
  <1>11. m.label \in Label /\ m.base_n \in Nat /\ m.base_n \div B # 0
    BY <1>1
  <1>12. /\ Target(m) \in KidsIn(InUse(w), w, m.parent)
         /\ q \in InUse(w) \ V /\ q # m.parent /\ m.base_n = w.node[q].base
    <2>1. Target(m) = To(base, label)
      BY DEF Target
    <2>2. KidsIn(InUse(w), w, m.parent) = KidsIn(U, t, p)
      BY <1>1, <1>7
    <2> QED
      BY <2>1, <2>2, <1>1, <1>7
  <1> QED
    BY <1>4, <1>5, <1>7, <1>8, <1>9, <1>10, <1>11, <1>12 DEF Prepared, RoomFor, L, w

\* The labels that move
LEMMA MovedLabelsOk ==
    ASSUME NEW t, NEW V, NEW q, NEW base, NEW label, NEW p, Conflict(t, V, q, base, label, p)
    PROVE  /\ Rival(t, q, label) = p /\ IsMine(t, q, label) \in BOOLEAN
           /\ MovedLabels(t, q, label) \in Lists
           /\ MovedLabels(t, q, label) \in Seq(Label) /\ MovedLabels(t, q, label) # << >>
           /\ \E s : Kin(InUse(t), t, V, q, s)
           /\ \E s : Kin(InUse(t), t, V, p, s)
  <1> DEFINE U == InUse(t)
             bp == t.node[p].base
             cq == t.ninfo[q].child
             cp == t.ninfo[p].child
  <1>1. /\ Tree(U, t, V, {}, -1) /\ q \in U \ V /\ q # 0 /\ p \in U \ V /\ label \in Label
        /\ base = t.node[q].base /\ To(base, label) \in KidsIn(U, t, p) /\ Alloc(t)
    BY DEF Conflict
  <1>2. U \subseteq 0..(t.size - 1)
    BY <1>1, NodeTypes DEF Alloc
  <1>3. \A n \in U \ V : \E s : Kin(U, t, V, n, s)
    <2>1. \A n \in U \ (V \cup {}) : n # -1 => \E s : Kin(U, t, V, n, s)
      BY <1>1 DEF Tree
    <2>2. t.size \in Nat
      BY <1>1, NodeTypes DEF Alloc
    <2> QED
      BY <2>1, <2>2, <1>2
  <1>4. Rival(t, q, label) = p
    BY <1>1 DEF Rival, KidsIn
  <1>5. PICK sq : Kin(U, t, V, q, sq)
    BY <1>1, <1>3
  <1>6. PICK sp : Kin(U, t, V, p, sp)
    BY <1>1, <1>3
  <1>7. Chain(t, base, cq, sq) /\ Chain(t, bp, cp, sp)
    <2>1. Chain(t, base, cq, sq)
      BY <1>1, <1>5 DEF Kin
    <2>2. Chain(t, bp, cp, sp)
      BY <1>6 DEF Kin
    <2> QED
      BY <2>1, <2>2
  <1>8. Children(t, base, cq) = sq /\ Children(t, bp, cp) = sp
    BY <1>7, ChildrenAre
  <1>9. sq \in Lists /\ sp \in Lists /\ \A i \in 2..Len(sq) : sq[i] # 0
    BY <1>7 DEF Chain
  <1>10. IsMine(t, q, label) <=> Len(sp) > Len(sq)
    BY <1>1, <1>4, <1>8 DEF IsMine, Consult
  <1>11. IsMine(t, q, label) \in BOOLEAN
    BY <1>1, <1>4, <1>8 DEF IsMine, Consult
  <1>12. \A i \in 1..Len(sq) : sq[i] # label
    <2>1. Kin(InUse(t), t, V, q, sq)
      BY <1>5
    <2> QED
      BY <2>1, NewLabel
  <1> DEFINE k == IF sq[1] = 0 THEN 2 ELSE 1
  <1>13. SetChild(t, base, cq, label) = Ins(sq, k, label)
    BY <1>1, <1>7, SetChildIns
  <1>14. Widened(sq, label, Ins(sq, k, label))
    BY <1>1, <1>9, <1>12, WidenOk
  <1>15. MovedLabels(t, q, label) \in Lists
    <2>1. SetChild(t, base, cq, label) \in Lists
      BY <1>13, <1>14 DEF Widened
    <2>2. MovedLabels(t, q, label) = IF IsMine(t, q, label) THEN SetChild(t, base, cq, label) ELSE Children(t, bp, cp)
      BY <1>1, <1>4 DEF MovedLabels
    <2> QED
      BY <2>1, <2>2, <1>8, <1>9, <1>11
  <1>16. MovedLabels(t, q, label) \in Seq(Label) /\ MovedLabels(t, q, label) # << >>
    <2> DEFINE L == MovedLabels(t, q, label)
    <2>1. L \in Lists
      BY <1>15
    <2> HIDE DEF L
    <2>2. L \in Seq(Label) /\ Len(L) >= 1
      BY <2>1, ListNamed DEF Named
    <2>3. L # << >>
      BY <2>2
    <2> QED
      BY <2>2, <2>3 DEF L
  <1> QED
    BY <1>4, <1>5, <1>6, <1>11, <1>15, <1>16

\* The plan is ready to be carried out.
LEMMA PlanReady ==
    ASSUME NEW t, NEW V, NEW q, NEW base, NEW label, NEW p, Conflict(t, V, q, base, label, p),
           NEW f, PlaceOk(t, f, MovedLabels(t, q, label)), MovedLabels(t, q, label) \in Lists,
           NEW m, m = Plan(t, q, label, f.to)
    PROVE  \E s : Prepared(m, f.t, V, s, q)
  <1>1. /\ Rival(t, q, label) = p /\ IsMine(t, q, label) \in BOOLEAN
        /\ \E s : Kin(InUse(t), t, V, q, s)
        /\ \E s : Kin(InUse(t), t, V, p, s)
    BY MovedLabelsOk
  <1>2. base = t.node[q].base
    BY DEF Conflict
  <1>3. m.labels = MovedLabels(t, q, label) /\ PlaceOk(t, f, m.labels) /\ m.base = To(f.to, m.labels[1])
        /\ m.base_n = base /\ m.label = label /\ m.mine = IsMine(t, q, label)
        /\ m.parent = (IF IsMine(t, q, label) THEN q ELSE p)
        /\ m.old = (IF IsMine(t, q, label) THEN base ELSE t.node[p].base)
    BY <1>1, <1>2 DEF Plan
  <1>4. CASE IsMine(t, q, label)
    <2>1. m.mine = TRUE /\ m.parent = q /\ m.old = base
      BY <1>3, <1>4, <1>1
    <2>2. m.labels = SetChild(t, base, t.ninfo[q].child, label)
      BY <1>3, <1>4, <1>2 DEF MovedLabels
    <2>3. PICK s : Kin(InUse(t), t, V, q, s)
      BY <1>1
    <2>4. Prepared(m, f.t, V, s, q)
      BY <1>3, <2>1, <2>2, <2>3, MineReady
    <2> QED
      BY <2>4
  <1>5. CASE ~ IsMine(t, q, label)
    <2>1. m.mine = FALSE /\ m.parent = p /\ m.old = t.node[p].base
      BY <1>3, <1>5, <1>1
    <2>2. m.labels = Children(t, t.node[p].base, t.ninfo[p].child)
      BY <1>3, <1>5, <1>1 DEF MovedLabels
    <2>3. PICK s : Kin(InUse(t), t, V, p, s)
      BY <1>1
    <2>4. Prepared(m, f.t, V, s, q)
      BY <1>3, <2>1, <2>2, <2>3, OtherReady
    <2> QED
      BY <2>4
  <1> QED
    BY <1>4, <1>5

\* etdb_trie_resolve makes the child it was called for.
LEMMA ResolveOk ==
    ASSUME NEW t, NEW V, NEW q, NEW base, NEW label, NEW p, Conflict(t, V, q, base, label, p),
           NEW r, r = Resolve(t, q, base, label)
    PROVE  \E V1, F1 : Reached(r.t, V1, F1, r.to, label)
  <1> DEFINE L == MovedLabels(t, q, label)
             f == PlaceFor(t, L)
             m == Plan(t, q, label, f.to)
             w == f.t
  <1>1. Alloc(t) /\ base = t.node[q].base
    BY DEF Conflict
  <1>2. L \in Seq(Label) /\ L # << >>
    BY MovedLabelsOk
  <1>3. PlaceOk(t, f, L)
    <2> HIDE DEF L
    <2> QED
      BY <1>1, <1>2, PlaceForOk
  <1>4. r = [t |-> MoveChildren(w, m, q), to |-> NewChild(m)]
    <2> HIDE DEF f
    <2>1. f = PlaceFor(t, MovedLabels(t, q, label))
      BY DEF f
    <2> HIDE DEF m, L
    <2>2. m = Plan(t, q, label, f.to)
      BY DEF m
    <2> QED
      BY <2>1, <2>2, <1>1, ResolvedAs
  <1>5. \E s : Prepared(m, w, V, s, q)
    <2> HIDE DEF f
    <2>1. PlaceOk(t, f, MovedLabels(t, q, label)) /\ MovedLabels(t, q, label) \in Lists
      BY <1>3, MovedLabelsOk DEF L
    <2> HIDE DEF m, L
    <2>2. m = Plan(t, q, label, f.to)
      BY DEF m
    <2> QED
      BY <2>1, <2>2, PlanReady
  <1> HIDE DEF m, w
  <1>6. PICK s : Prepared(m, w, V, s, q)
    BY <1>5
  <1>7. Move(m)
    BY <1>6, PreparedMove
  <1>8. MoveAt(m, 0, [t |-> StartMove(w, m), from |-> q], V)
    BY <1>6, StartOk
  <1>9. PICK V1, F1 : Reached(MoveChildren(w, m, q), V1, F1, NewChild(m), m.label)
    BY <1>7, <1>8, MoveChildrenOk
  <1>10. m.label = label
    BY DEF m, Plan
  <1>11. r.t = MoveChildren(w, m, q) /\ r.to = NewChild(m)
    BY <1>4
  <1> QED
    BY <1>9, <1>10, <1>11

-----------------------------------------------------------------------------
(* etdb_trie_follow *)

\* A node that can have a child under the label
Ready(t, V, F, n, label) ==
    /\ Alloc(t) /\ Tree(InUse(t), t, V, F, -1)
    /\ n \in InUse(t) \ V /\ F \subseteq {n}
    /\ n \in F => t.node[n].base = -1 /\ t.ninfo[n].child = 0
    /\ label \in Label /\ (n = 0 => label \in FirstLabels /\ label # 0)

\* The address of a child is never the root's.
LEMMA ChildPlace ==
    ASSUME NEW t, Alloc(t), NEW V, NEW F, Tree(InUse(t), t, V, F, -1), NEW n, n \in InUse(t) \ (V \cup F),
           NEW label, label \in Label, n = 0 => label # 0,
           NEW base, base = t.node[n].base, NEW x, x = To(base, label)
    PROVE  /\ base \in Nat /\ base \in 0..(t.size - 1)
           /\ x \in 1..(t.size - 1) /\ x \div B = base \div B
           /\ base \div B = 0 <=> n = 0
           /\ n = 0 => base = 0
           /\ x \in KidsIn(InUse(t), t, n) => (x \in V <=> label = 0)
  <1> DEFINE U == InUse(t)
  <1>1. t.size \in Nat /\ U \subseteq 0..(t.size - 1)
    BY NodeTypes DEF Alloc
  <1>2. /\ base \in Nat /\ base \in 0..(t.size - 1)
        /\ base \div B = 0 <=> n = 0
        /\ n = 0 => base = 0
        /\ \A y \in KidsIn(U, t, n) : y \in V <=> y = base
    <2>1. n \in U \ (V \cup F) /\ n # -1
      BY <1>1
    <2> HIDE DEF U
    <2>2. Tree(U, t, V, F, -1) /\ t.size \in Nat
      BY <1>1 DEF U
    <2>3. /\ t.node[n].base \in Nat /\ t.node[n].base \in 0..(t.size - 1)
          /\ t.node[n].base \div B = 0 <=> n = 0
          /\ n = 0 => t.node[n].base = 0 /\ t.ninfo[n].child = 0
          /\ \A y \in KidsIn(U, t, n) : y \in V <=> y = t.node[n].base
      BY <2>1, <2>2, KinFacts
    <2> QED
      BY <2>3
  <1>3. x \in 0..(t.size - 1) /\ x \div B = base \div B
    <2>1. Shape(t)
      BY DEF Alloc
    <2> QED
      BY <2>1, <1>2, ToInside
  <1>4. 0 \in Label /\ To(base, 0) = base /\ (To(base, label) = To(base, 0) => label = 0)
    <2>1. 0 \in Label
      BY LabelAssumption DEF Label
    <2> QED
      BY <2>1, <1>2, ToFacts
  <1>5. x # 0
    <2>1. CASE n = 0
      BY <2>1, <1>2, <1>4
    <2>2. CASE n # 0
      <3>1. 0 \div B = 0
        BY LabelAssumption
      <3> QED
        BY <2>2, <3>1, <1>2, <1>3
    <2> QED
      BY <2>1, <2>2
  <1>6. x \in KidsIn(U, t, n) => (x \in V <=> label = 0)
    BY <1>2, <1>4
  <1> QED
    BY <1>1, <1>2, <1>3, <1>5, <1>6

\* The root never takes the last free node of its block.
LEMMA RootRoom ==
    ASSUME NEW t, Alloc(t), NEW V, NEW F, Tree(InUse(t), t, V, F, -1),
           NEW label, label \in FirstLabels, label \in Label
    PROVE  FreeIn(t, 0) # {To(0, label)}
  <1>1. PICK l \in 1..(B - 1) : \A k \in Keys : Labels(k)[1] # l
    BY RootAssumption
  <1>2. B \in Nat /\ l \in Label /\ l # 0 /\ l \in Nat /\ 0 \in Label /\ 0 \in Nat
    BY <1>1, LabelAssumption DEF Label
  <1>3. l \notin FirstLabels
    BY <1>1 DEF FirstLabels
  <1>4. \A y \in Label : To(0, y) = y
    <2> SUFFICES ASSUME NEW y \in Label PROVE To(0, y) = y
      OBVIOUS
    <2>1. XorOf[0][y] = XorOf[y][0] /\ XorOf[y][0] = y
      BY <1>2, XorAssumption
    <2>2. 0 \div B = 0 /\ 0 % B = 0 /\ B * 0 = 0
      BY LabelAssumption
    <2> QED
      BY <2>1, <2>2 DEF To, Label
  <1>5. t.size \in Nat /\ B <= t.size /\ \A i \in 1..(t.size - 1) : i \in InUse(t) <=> t.node[i].check >= 0
    BY NodeTypes DEF Alloc
  <1>6. l \notin InUse(t)
    <2>1. l \div B = 0
      BY <1>2, LabelAssumption DEF Label
    <2> QED
      BY <2>1, <1>2, <1>3 DEF Tree, Nodes
  <1>7. l \in 1..(t.size - 1) /\ t.node[l].check \in Int
    <2>1. l \in 1..(t.size - 1)
      BY <1>1, <1>2, <1>5
    <2>2. Shape(t)
      BY DEF Alloc
    <2>3. l \in 0..(t.capacity - 1)
      <3>1. t.capacity \in Nat /\ t.size <= t.capacity
        BY <2>2, NodeTypes
      <3> QED
        BY <2>1, <3>1, <1>5
    <2> QED
      BY <2>1, <2>2, <2>3, NodeTypes
  <1>8. l \in FreeIn(t, 0)
    <2>1. t.node[l].check < 0
      BY <1>5, <1>6, <1>7
    <2>2. B * 0 = 0 /\ l \in (0..(0 + B - 1)) \ {0}
      BY <1>1, <1>2
    <2> QED
      BY <2>1, <2>2 DEF FreeIn
  <1> QED
    BY <1>3, <1>4, <1>8

\* A new child, in the terms of the end of a step
LEMMA AddedReached ==
    ASSUME NEW t, NEW w, NEW V, V \subseteq InUse(t), NEW x, x \notin InUse(t), NEW label, AddedChild(t, w, V, {}, x, label)
    PROVE  \E V1, F1 : Reached(w, V1, F1, x, label)
  <1> DEFINE V1 == PlusV(V, x, label)
             F1 == PlusF({}, x, label)
  <1>1. Alloc(w) /\ Tree(InUse(w), w, V1, F1, -1) /\ x \in InUse(w) \ {0}
    BY DEF AddedChild
  <1>2. label = 0 => x \in V1 /\ F1 = {}
    BY DEF PlusV, PlusF
  <1>3. label # 0 => x \notin V1 /\ F1 \subseteq {x}
    BY DEF PlusV, PlusF
  <1>4. x \in F1 => w.node[x].base = -1 /\ w.ninfo[x].child = 0
    <2>1. label = 0 => x \notin F1
      BY DEF PlusF
    <2> QED
      BY <2>1 DEF AddedChild
  <1> HIDE DEF V1, F1
  <1> QED
    BY <1>1, <1>2, <1>3, <1>4 DEF Reached

\* The first child of a node without one
LEMMA FollowFirst ==
    ASSUME NEW t, NEW V, NEW F, NEW n, NEW label, Ready(t, V, F, n, label), n \in F,
           NEW r, r = Follow(t, n, label)
    PROVE  \E V1, F1 : Reached(r.t, V1, F1, r.to, label)
  <1> DEFINE place == FindPlace(t)
             u == place.t
             x == place.to
             w == PushSibling(FirstChild(u, x, label, n), n, To(x, label), label, FALSE)
  <1>1. /\ Alloc(t) /\ Tree(InUse(t), t, V, F, -1) /\ F = {n} /\ label \in Label
        /\ t.node[n].base = -1 /\ t.ninfo[n].child = 0 /\ n \in InUse(t)
    BY DEF Ready
  <1>2. r = [t |-> w, to |-> x]
    <2>1. PopEmptyNode(t, -1, label, n) = [t |-> FirstChild(u, x, label, n), to |-> x]
      BY DEF PopEmptyNode, FirstChild
    <2>2. ~ (-1 >= 0) /\ -1 < 0
      OBVIOUS
    <2> DEFINE base == t.node[n].base
               new == PopEmptyNode(t, base, label, n)
    <2>3. base = -1 /\ base < 0 /\ ~ (base >= 0)
      BY <1>1
    <2>4. r = [t |-> PushSibling(new.t, n, To(new.to, label), label, base >= 0), to |-> new.to]
      <3> HIDE DEF base
      <3>1. base = t.node[n].base
        BY DEF base
      <3> QED
        BY <2>3, <3>1 DEF Follow
    <2>5. (base >= 0) = FALSE
      BY <2>3
    <2>6. new = PopEmptyNode(t, -1, label, n)
      BY <2>3
    <2> HIDE DEF new, base
    <2>7. new.t = FirstChild(u, x, label, n) /\ new.to = x
      <3> HIDE DEF u, x
      <3> QED
        BY <2>1, <2>6
    <2> HIDE DEF u, x
    <2> QED
      BY <2>4, <2>5, <2>7
  <1>3. Found(t, place)
    BY <1>1, FindPlaceOk
  <1> HIDE DEF place
  <1>4. KeptNodes(t, u) /\ x \in Free(u) /\ x \div B # 0
    BY <1>1, <1>3, FoundKeeps
  <1> HIDE DEF u, x
  <1>5. Alloc(u) /\ InUse(u) = InUse(t) /\ SameOn(InUse(t), t, u)
    BY <1>4 DEF KeptNodes
  <1>6. Tree(InUse(u), u, V, F, -1)
    BY <1>1, <1>5, TreeSame
  <1>7. u.ninfo[n].child = 0
    BY <1>1, <1>5 DEF SameOn
  <1>8. AddedChild(u, w, V, F \ {n}, x, label)
    <2>1. n \in F
      OBVIOUS
    <2> HIDE DEF w
    <2>2. w = PushSibling(FirstChild(u, x, label, n), n, To(x, label), label, FALSE)
      BY DEF w
    <2> QED
      BY <2>1, <2>2, <1>1, <1>4, <1>5, <1>6, <1>7, AddFirstOk
  <1> HIDE DEF w
  <1>9. V \subseteq InUse(u) /\ x \notin InUse(u)
    <2>1. V \subseteq InUse(u)
      BY <1>6 DEF Tree, Nodes
    <2> QED
      BY <2>1, <1>4 DEF InUse
  <1>10. F \ {n} = {}
    BY <1>1
  <1>11. AddedChild(u, w, V, {}, x, label)
    BY <1>8, <1>10
  <1>12. \E V1, F1 : Reached(w, V1, F1, x, label)
    BY <1>9, <1>11, AddedReached
  <1>13. r.t = w /\ r.to = x
    BY <1>2
  <1> QED
    BY <1>12, <1>13

\* One more child, at its place
LEMMA FollowNew ==
    ASSUME NEW t, NEW V, NEW F, NEW n, NEW label, Ready(t, V, F, n, label), n \notin F,
           NEW x, x = To(t.node[n].base, label), t.node[x].check < 0,
           NEW r, r = Follow(t, n, label)
    PROVE  \E V1, F1 : Reached(r.t, V1, F1, r.to, label)
  <1> DEFINE base == t.node[n].base
             w == PushSibling(TakeNode(t, x, label, n), n, base, label, TRUE)
  <1>1. /\ Alloc(t) /\ Tree(InUse(t), t, V, F, -1) /\ F = {} /\ label \in Label
        /\ n \in InUse(t) \ (V \cup F) /\ (n = 0 => label \in FirstLabels /\ label # 0)
    BY DEF Ready
  <1>2. /\ base \in Nat /\ x \in 1..(t.size - 1) /\ x \div B = base \div B
        /\ base \div B = 0 <=> n = 0
        /\ n = 0 => base = 0
    <2>1. n = 0 => label # 0
      BY <1>1
    <2> HIDE DEF base
    <2>2. base = t.node[n].base /\ x = To(base, label)
      BY DEF base
    <2> QED
      BY <2>1, <2>2, <1>1, ChildPlace
  <1>3. base >= 0 /\ ~ (base < 0) /\ ~ (t.node[x].check >= 0)
    <2>1. t.node[x].check \in Int
      <3>1. Shape(t) /\ x \in 0..(t.size - 1)
        BY <1>1, <1>2 DEF Alloc
      <3>2. x \in 0..(t.capacity - 1)
        BY <3>1, NodeTypes
      <3> QED
        BY <3>1, <3>2, NodeTypes
    <2> QED
      BY <2>1, <1>2
  <1>4. To(x, label) = base
    BY <1>1, <1>2, ToFacts
  <1>5. r = [t |-> w, to |-> x]
    <2> HIDE DEF base
    <2>1. x = To(base, label) /\ base = t.node[n].base
      BY DEF base
    <2>2. PopEmptyNode(t, base, label, n) = [t |-> TakeNode(t, x, label, n), to |-> x]
      BY <2>1, <1>3 DEF PopEmptyNode
    <2> DEFINE new == PopEmptyNode(t, base, label, n)
    <2>3. r = [t |-> PushSibling(new.t, n, To(new.to, label), label, base >= 0), to |-> new.to]
      BY <2>1, <1>3 DEF Follow
    <2>4. (base >= 0) = TRUE
      BY <1>2
    <2>5. new.t = TakeNode(t, x, label, n) /\ new.to = x
      BY <2>2
    <2> HIDE DEF new
    <2> QED
      BY <2>3, <2>4, <2>5, <1>4
  <1>6. x \in Free(t)
    BY <1>2 DEF Free
  <1>7. x \div B = 0 => FreeIn(t, 0) # {x}
    <2> SUFFICES ASSUME x \div B = 0 PROVE FreeIn(t, 0) # {x}
      OBVIOUS
    <2>1. n = 0 /\ base = 0
      BY <1>2
    <2>2. x = To(0, label) /\ label \in FirstLabels
      BY <2>1, <1>1
    <2>3. FreeIn(t, 0) # {To(0, label)}
      BY <2>2, <1>1, RootRoom
    <2> QED
      BY <2>2, <2>3
  <1>8. AddedChild(t, w, V, F, x, label)
    <2> HIDE DEF base, w
    <2>1. base = t.node[n].base /\ x = To(base, label)
      BY DEF base
    <2>2. w = PushSibling(TakeNode(t, x, label, n), n, base, label, TRUE)
      BY DEF w
    <2>3. AddedChild(t, PushSibling(TakeNode(t, x, label, n), n, base, label, TRUE), V, F, x, label)
      BY <2>1, <1>1, <1>6, <1>7, AddChildOk
    <2> QED
      BY <2>2, <2>3
  <1> HIDE DEF w
  <1>9. V \subseteq InUse(t) /\ x \notin InUse(t) /\ AddedChild(t, w, V, {}, x, label)
    <2>1. V \subseteq InUse(t)
      BY <1>1 DEF Tree, Nodes
    <2> QED
      BY <2>1, <1>1, <1>6, <1>8 DEF InUse
  <1>10. \E V1, F1 : Reached(w, V1, F1, x, label)
    BY <1>9, AddedReached
  <1>11. r.t = w /\ r.to = x
    BY <1>5
  <1> QED
    BY <1>10, <1>11

\* The child that is there already
LEMMA FollowOld ==
    ASSUME NEW t, NEW V, NEW F, NEW n, NEW label, Ready(t, V, F, n, label), n \notin F,
           NEW x, x = To(t.node[n].base, label), t.node[x].check = n
    PROVE  Reached(t, V, F, x, label)
  <1> DEFINE base == t.node[n].base
  <1>1. /\ Alloc(t) /\ Tree(InUse(t), t, V, F, -1) /\ F = {} /\ label \in Label
        /\ n \in InUse(t) \ (V \cup F) /\ (n = 0 => label \in FirstLabels /\ label # 0)
    BY DEF Ready
  <1>2. /\ x \in 1..(t.size - 1)
        /\ x \in KidsIn(InUse(t), t, n) => (x \in V <=> label = 0)
    <2>1. n = 0 => label # 0
      BY <1>1
    <2> HIDE DEF base
    <2>2. base = t.node[n].base /\ x = To(base, label)
      BY DEF base
    <2> QED
      BY <2>1, <2>2, <1>1, ChildPlace
  <1>3. n >= 0 /\ \A i \in 1..(t.size - 1) : i \in InUse(t) <=> t.node[i].check >= 0
    <2>1. InUse(t) \subseteq 0..(t.size - 1) /\ t.size \in Nat
          /\ \A i \in 1..(t.size - 1) : i \in InUse(t) <=> t.node[i].check >= 0
      BY <1>1, NodeTypes DEF Alloc
    <2> QED
      BY <2>1, <1>1
  <1>4. x \in InUse(t) /\ x \in KidsIn(InUse(t), t, n)
    <2>1. x \in InUse(t) /\ x # 0
      BY <1>2, <1>3
    <2> QED
      BY <2>1 DEF KidsIn
  <1> QED
    BY <1>1, <1>2, <1>4 DEF Reached, KidsIn

\* etdb_trie_follow reaches the child under the label.
LEMMA FollowOk ==
    ASSUME NEW t, NEW V, NEW F, NEW n, NEW label, Ready(t, V, F, n, label), NEW r, r = Follow(t, n, label)
    PROVE  \E V1, F1 : Reached(r.t, V1, F1, r.to, label)
  <1> DEFINE base == t.node[n].base
             x == To(base, label)
             p == t.node[x].check
  <1>1. /\ Alloc(t) /\ Tree(InUse(t), t, V, F, -1) /\ F \subseteq {n} /\ label \in Label
        /\ n \in InUse(t) \ V /\ (n = 0 => label \in FirstLabels /\ label # 0)
    BY DEF Ready
  <1>2. CASE n \in F
    BY <1>2, FollowFirst
  <1>3. CASE n \notin F /\ p < 0
    <2> HIDE DEF x
    <2>1. x = To(t.node[n].base, label) /\ t.node[x].check < 0
      BY <1>3 DEF x
    <2> QED
      BY <2>1, <1>3, FollowNew
  <1>4. CASE n \notin F /\ ~ (p < 0)
    <2>1. base \in Nat /\ p \in Int
      <3>1. x \in 1..(t.size - 1) /\ base \in Nat
        <4>1. n \in InUse(t) \ (V \cup F) /\ (n = 0 => label # 0)
          BY <1>1, <1>4
        <4> HIDE DEF base, x
        <4>2. base = t.node[n].base /\ x = To(base, label)
          BY DEF base, x
        <4> QED
          BY <4>1, <4>2, <1>1, ChildPlace
      <3>2. Shape(t) /\ t.size \in Nat /\ t.capacity \in Nat /\ t.size <= t.capacity
        BY <1>1, NodeTypes DEF Alloc
      <3> HIDE DEF x
      <3>3. x \in 0..(t.capacity - 1)
        BY <3>1, <3>2
      <3> QED
        BY <3>1, <3>2, <3>3, NodeTypes
    <2>2. CASE p # n
      <3>1. r = Resolve(t, n, base, label)
        <4> HIDE DEF base, p
        <4>1. t.node[To(base, label)].check = p /\ base = t.node[n].base
          BY DEF base, p
        <4>2. ~ (base < 0) /\ ~ (p < 0) /\ base >= 0 /\ p >= 0
          BY <2>1, <1>4
        <4> QED
          BY <4>1, <4>2, <2>2 DEF Follow
      <3>2. Conflict(t, V, n, base, label, p)
        <4>1. F = {} /\ n \in InUse(t) \ V /\ p >= 0 /\ (n = 0 => label # 0)
          BY <1>1, <1>4, <2>1
        <4> HIDE DEF base, p
        <4>2. base = t.node[n].base /\ p = t.node[To(base, label)].check
          BY DEF base, p
        <4>3. Tree(InUse(t), t, V, {}, -1)
          BY <4>1, <1>1
        <4> QED
          BY <4>1, <4>2, <4>3, <2>2, <1>1, ConflictOk
      <3> HIDE DEF base, p
      <3> QED
        BY <3>1, <3>2, ResolveOk
    <2>3. CASE p = n
      <3>1. r = [t |-> t, to |-> x]
        <4> HIDE DEF base, p
        <4>1. t.node[To(base, label)].check = p /\ base = t.node[n].base
          BY DEF base, p
        <4>2. ~ (base < 0) /\ ~ (p < 0)
          BY <2>1, <1>4
        <4> QED
          BY <4>1, <4>2, <2>3 DEF Follow
      <3>2. Reached(t, V, F, x, label)
        <4> HIDE DEF x
        <4>1. x = To(t.node[n].base, label) /\ t.node[x].check = n
          BY <2>3 DEF x
        <4> QED
          BY <4>1, <1>4, FollowOld
      <3> HIDE DEF x
      <3>3. r.t = t /\ r.to = x
        BY <3>1
      <3> QED
        BY <3>2, <3>3
    <2> QED
      BY <2>2, <2>3
  <1> QED
    BY <1>2, <1>3, <1>4
-----------------------------------------------------------------------------
(* etdb_trie_update_entry                                                  *)

\* The elements of a sequence, one appended to the other
IsFlat(f, n, s, seqs) == f = [k \in 0..n |-> IF k = 0 THEN s ELSE f[k - 1] \o seqs[k + 1]]

\* They can be appended.
LEMMA FlatMade ==
    ASSUME NEW s, NEW seqs, NEW n, n \in Nat
    PROVE  \E f : IsFlat(f, n, s, seqs)
  <1> DEFINE Q(m, f) == /\ f = [k \in 0..m |-> f[k]] /\ f[0] = s
                        /\ \A k \in 1..m : f[k] = f[k - 1] \o seqs[k + 1]
             M == {m \in Nat : \E f : Q(m, f)}
  <1>1. 0 \in M
    <2> DEFINE f == [k \in 0..0 |-> s]
    <2>1. Q(0, f)
      OBVIOUS
    <2> HIDE DEF f
    <2> QED
      BY <2>1
  <1>2. ASSUME NEW m \in Nat, m \in M PROVE m + 1 \in M
    <2>1. PICK f : Q(m, f)
      BY <1>2
    <2> DEFINE v == f[m] \o seqs[m + 1 + 1]
    <2>2. PICK h : Longer(h, f, m, v)
      BY LongerOk
    <2>3. h = [k \in 0..(m + 1) |-> h[k]] /\ h[0] = s
      <3>1. 0 \in 0..m
        OBVIOUS
      <3> QED
        BY <2>1, <2>2, <3>1 DEF Longer
    <2>4. ASSUME NEW k \in 1..(m + 1) PROVE h[k] = h[k - 1] \o seqs[k + 1]
      <3>1. CASE k = m + 1
        <4>1. h[k] = v /\ k - 1 = m /\ h[m] = f[m]
          <5> HIDE DEF v
          <5> QED
            BY <2>2, <3>1 DEF Longer
        <4> QED
          BY <4>1, <3>1
      <3>2. CASE k # m + 1
        <4>1. k \in 1..m /\ k \in 0..m
          BY <3>2
        <4>2. h[k] = f[k] /\ h[k - 1] = f[k - 1] /\ f[k] = f[k - 1] \o seqs[k + 1]
          BY <4>1, <2>1, <2>2 DEF Longer
        <4> QED
          BY <4>2
      <3> QED
        BY <3>1, <3>2
    <2>5. Q(m + 1, h)
      BY <2>3, <2>4
    <2> HIDE DEF Q
    <2>6. \E ff : Q(m + 1, ff)
      BY <2>5
    <2> QED
      BY <2>6
  <1>3. n \in M
    <2> HIDE DEF M
    <2> QED
      BY <1>1, <1>2, Induction
  <1>4. PICK f : Q(n, f)
    BY <1>3
  <1>5. \A k \in 0..n : f[k] = IF k = 0 THEN s ELSE f[k - 1] \o seqs[k + 1]
    <2>1. \A k \in 0..n : k = 0 \/ k \in 1..n
      OBVIOUS
    <2> QED
      BY <2>1, <1>4
  <1>6. f = [k \in 0..n |-> f[k]]
    BY <1>4
  <1>7. IsFlat(f, n, s, seqs)
    BY <1>5, <1>6 DEF IsFlat
  <1> QED
    BY <1>7

\* The labels of a byte, and of a key, are labels of a node, and no value's.
LEMMA EncodeOk ==
    ASSUME NEW w, w \in 0..(B - 1)
    PROVE  Encode(w) \in Seq(1..(B - 1)) /\ Len(Encode(w)) >= 1
  <1>1. B \in Nat /\ Pct \in 1..(B - 1) /\ Zero \in 1..(B - 1)
    BY LabelAssumption
  <1>2. CASE w = 0
    <2>1. Encode(w) = <<Pct, Zero>>
      BY <1>1, <1>2 DEF Encode
    <2> QED
      BY <2>1, <1>1
  <1>3. CASE w = Pct
    <2>1. Encode(w) = <<Pct, Pct>>
      BY <1>1, <1>3 DEF Encode
    <2> QED
      BY <2>1, <1>1
  <1>4. CASE w # 0 /\ w # Pct
    <2>1. Encode(w) = <<w>>
      BY <1>4 DEF Encode
    <2>2. w \in 1..(B - 1)
      BY <1>1, <1>4
    <2> QED
      BY <2>1, <2>2, <1>1
  <1> QED
    BY <1>2, <1>3, <1>4

\* The community module's concatenation of n non-empty sequences is a non-empty sequence.
LEMMA FlattenOk ==
    ASSUME NEW S, NEW seqs, NEW n, n \in Nat, n >= 1, Len(seqs) = n,
           \A i \in 1..n : seqs[i] \in Seq(S) /\ Len(seqs[i]) >= 1
    PROVE  FlattenSeq(seqs) \in Seq(S) /\ Len(FlattenSeq(seqs)) >= 1
  <1> DEFINE Flat(f) == f = [i \in 1..n |-> IF i = 1 THEN seqs[i] ELSE f[i - 1] \o seqs[i]]
             f == CHOOSE f : Flat(f)
  <1>1. FlattenSeq(seqs) = f[n]
    BY DEF FlattenSeq
  <1>2. \E h : Flat(h)
    <2>1. n - 1 \in Nat
      OBVIOUS
    <2> DEFINE m == n - 1
    <2> HIDE DEF m
    <2>2. PICK g : IsFlat(g, m, seqs[1], seqs)
      BY <2>1, FlatMade DEF m
    <2>3. \A k \in 0..(n - 1) : g[k] = IF k = 0 THEN seqs[1] ELSE g[k - 1] \o seqs[k + 1]
      BY <2>2 DEF IsFlat, m
    <2> DEFINE h == [i \in 1..n |-> g[i - 1]]
    <2>4. \A i \in 1..n : h[i] = IF i = 1 THEN seqs[i] ELSE h[i - 1] \o seqs[i]
      <3> SUFFICES ASSUME NEW i \in 1..n PROVE h[i] = IF i = 1 THEN seqs[i] ELSE h[i - 1] \o seqs[i]
        OBVIOUS
      <3>1. CASE i = 1
        <4>1. h[i] = g[0] /\ 0 \in 0..(n - 1)
          BY <3>1
        <4> QED
          BY <4>1, <3>1, <2>3
      <3>2. CASE i # 1
        <4>1. h[i] = g[i - 1] /\ i - 1 \in 0..(n - 1) /\ i - 1 # 0 /\ (i - 1) + 1 = i /\ (i - 1) - 1 = i - 2
          BY <3>2
        <4>2. g[i - 1] = g[(i - 1) - 1] \o seqs[(i - 1) + 1]
          BY <4>1, <2>3
        <4>3. h[i - 1] = g[(i - 1) - 1]
          BY <3>2
        <4> QED
          BY <4>1, <4>2, <4>3, <3>2
      <3> QED
        BY <3>1, <3>2
    <2>5. h = [i \in 1..n |-> h[i]]
      OBVIOUS
    <2>6. Flat(h)
      <3> HIDE DEF h
      <3> QED
        BY <2>4, <2>5
    <2> QED
      BY <2>6
  <1>3. Flat(f)
    BY <1>2
  <1>4. \A i \in 1..n : f[i] = IF i = 1 THEN seqs[i] ELSE f[i - 1] \o seqs[i]
    BY <1>3
  <1> HIDE DEF f, Flat
  <1> DEFINE M == {i \in Nat : i + 1 \in 1..n => f[i + 1] \in Seq(S) /\ Len(f[i + 1]) >= 1}
  <1>5. 0 \in M
    <2>1. f[1] = seqs[1] /\ 1 \in 1..n
      BY <1>4
    <2> QED
      BY <2>1
  <1>6. ASSUME NEW i \in Nat, i \in M PROVE i + 1 \in M
    <2> SUFFICES ASSUME (i + 1) + 1 \in 1..n
                 PROVE  f[(i + 1) + 1] \in Seq(S) /\ Len(f[(i + 1) + 1]) >= 1
      OBVIOUS
    <2>1. i + 1 \in 1..n /\ f[i + 1] \in Seq(S) /\ Len(f[i + 1]) >= 1
      BY <1>6
    <2>2. f[(i + 1) + 1] = f[i + 1] \o seqs[(i + 1) + 1]
      <3>1. ((i + 1) + 1) - 1 = i + 1 /\ (i + 1) + 1 # 1
        OBVIOUS
      <3> QED
        BY <3>1, <1>4
    <2>3. seqs[(i + 1) + 1] \in Seq(S)
      OBVIOUS
    <2> DEFINE a == f[i + 1]
               b == seqs[(i + 1) + 1]
    <2>4. a \in Seq(S) /\ b \in Seq(S) /\ Len(a) >= 1
      BY <2>1, <2>3
    <2>5. f[(i + 1) + 1] = a \o b
      BY <2>2
    <2> HIDE DEF a, b
    <2>6. a \o b \in Seq(S) /\ Len(a \o b) >= 1
      BY <2>4
    <2> QED
      BY <2>5, <2>6
  <1>7. n - 1 \in M
    <2>1. n - 1 \in Nat
      OBVIOUS
    <2> HIDE DEF M
    <2> QED
      BY <2>1, <1>5, <1>6, Induction
  <1>8. (n - 1) + 1 = n /\ n \in 1..n
    OBVIOUS
  <1> QED
    BY <1>1, <1>7, <1>8

\* A key has at least one label, none of them 0, and the first is one the root can have.
LEMMA LabelsOk ==
    ASSUME NEW key, key \in Keys
    PROVE  /\ Labels(key) \in Seq(1..(B - 1)) /\ Len(Labels(key)) >= 1
           /\ Labels(key)[1] \in FirstLabels
  <1> DEFINE seqs == [i \in DOMAIN key |-> Encode(key[i])]
             n == Len(key)
  <1>1. key \in Seq(0..(B - 1)) /\ key # << >>
    BY LabelAssumption
  <1>2. n \in Nat /\ n >= 1 /\ DOMAIN key = 1..n
    BY <1>1
  <1>3. \A i \in 1..n : seqs[i] \in Seq(1..(B - 1)) /\ Len(seqs[i]) >= 1
    <2> SUFFICES ASSUME NEW i \in 1..n PROVE seqs[i] \in Seq(1..(B - 1)) /\ Len(seqs[i]) >= 1
      OBVIOUS
    <2>1. key[i] \in 0..(B - 1)
      <3> DEFINE S == 0..(B - 1)
      <3>1. key \in Seq(S) /\ i \in 1..Len(key)
        BY <1>1
      <3> HIDE DEF S
      <3>2. key[i] \in S
        BY <3>1, ElementOfSeq
      <3> QED
        BY <3>2 DEF S
    <2>2. seqs[i] = Encode(key[i])
      BY <1>2
    <2> QED
      BY <2>1, <2>2, EncodeOk
  <1>4. Len(seqs) = n
    <2>1. DOMAIN seqs = 1..n
      BY <1>2
    <2>2. seqs \in Seq(Seq(1..(B - 1)))
      BY <1>2, <1>3
    <2> HIDE DEF seqs
    <2> QED
      BY <2>1, <2>2, <1>2
  <1>5. Labels(key) = FlattenSeq(seqs)
    BY DEF Labels
  <1> HIDE DEF seqs, n
  <1>6. FlattenSeq(seqs) \in Seq(1..(B - 1)) /\ Len(FlattenSeq(seqs)) >= 1
    BY <1>2, <1>3, <1>4, FlattenOk
  <1> QED
    BY <1>5, <1>6 DEF FirstLabels

\* A step reaches a node from which the next one can be taken.
LEMMA ReachedReady ==
    ASSUME NEW t, NEW V, NEW F, NEW n, NEW l, l # 0, Reached(t, V, F, n, l), NEW label, label \in Label
    PROVE  Ready(t, V, F, n, label)
  BY DEF Reached, Ready

\* A trie whose nodes in use are one tree
TrieTree(t) == Alloc(t) /\ \E V : Tree(InUse(t), t, V, {}, -1)

\* The path to a value
PathTaken(r) == \E V : Reached(r.t, V, {}, r.to, 0)

\* etdb_trie_update walks all labels and the terminating 0: it ends at a leaf of a tree.
LEMMA FollowAllOk ==
    ASSUME NEW t, TrieTree(t), NEW key, key \in Keys,
           NEW r, r = FollowAll(t, Append(Labels(key), 0))
    PROVE  PathTaken(r)
  <1> DEFINE L == Labels(key)
             labels == Append(L, 0)
             n == Len(labels)
             s0 == [t |-> t, to |-> 0]
             at == CHOOSE at : IsFollowed(at, n, s0, labels)
  <1>1. L \in Seq(1..(B - 1)) /\ Len(L) >= 1 /\ L[1] \in FirstLabels
    BY LabelsOk
  <1>2. B \in Nat
    BY LabelAssumption
  <1> HIDE DEF L
  <1>3. /\ n \in Nat /\ n = Len(L) + 1 /\ n >= 2 /\ labels[n] = 0
        /\ \A i \in 1..(n - 1) : labels[i] = L[i]
    BY <1>1
  <1>4. /\ \A i \in 1..n : labels[i] \in Label
        /\ \A i \in 1..(n - 1) : labels[i] # 0
        /\ labels[1] \in FirstLabels
    <2>1. \A i \in 1..(n - 1) : L[i] \in 1..(B - 1)
      <3> SUFFICES ASSUME NEW i \in 1..(n - 1) PROVE L[i] \in 1..(B - 1)
        OBVIOUS
      <3> DEFINE S == 1..(B - 1)
      <3>1. L \in Seq(S) /\ i \in 1..Len(L)
        BY <1>1, <1>3
      <3> HIDE DEF S
      <3>2. L[i] \in S
        BY <3>1, ElementOfSeq
      <3> QED
        BY <3>2 DEF S
    <2> HIDE DEF labels, n
    <2>2. \A i \in 1..(n - 1) : labels[i] \in 1..(B - 1)
      BY <2>1, <1>3
    <2>3. \A i \in 1..n : i = n \/ i \in 1..(n - 1)
      BY <1>3
    <2>4. 1 \in 1..(n - 1)
      BY <1>3
    <2> QED
      BY <2>2, <2>3, <2>4, <1>1, <1>2, <1>3 DEF Label
  <1> HIDE DEF labels, n
  <1>5. IsFollowed(at, n, s0, labels)
    BY <1>3, PathMade
  <1>6. r = at[n]
    <2>1. r = FollowAll(t, labels)
      BY DEF labels, L
    <2> QED
      BY <2>1 DEF FollowAll, IsFollowed, n
  <1> HIDE DEF at
  <1>7. \A k \in 0..n : at[k] = IF k = 0 THEN s0 ELSE Follow(at[k - 1].t, at[k - 1].to, labels[k])
    BY <1>5 DEF IsFollowed
  <1> DEFINE Q(k) == \E V, F : Reached(at[k].t, V, F, at[k].to, labels[k])
             M == {i \in Nat : i + 1 \in 1..n => Q(i + 1)}
  <1>8. 0 \in M
    <2> SUFFICES ASSUME 0 + 1 \in 1..n PROVE Q(0 + 1)
      OBVIOUS
    <2>1. at[0] = s0 /\ at[1] = Follow(at[0].t, at[0].to, labels[1])
      <3>1. 0 \in 0..n /\ 1 \in 0..n /\ 1 - 1 = 0
        BY <1>3
      <3> QED
        BY <3>1, <1>7
    <2>2. at[1] = Follow(t, 0, labels[1])
      BY <2>1
    <2>3. PICK V : Tree(InUse(t), t, V, {}, -1)
      BY DEF TrieTree
    <2>4. 0 \in InUse(t) \ V
      BY <2>3 DEF Tree, Nodes
    <2>5. 1 \in 1..n /\ 1 \in 1..(n - 1)
      BY <1>3
    <2>6. Ready(t, V, {}, 0, labels[1])
      BY <2>3, <2>4, <2>5, <1>4 DEF Ready, TrieTree
    <2> DEFINE a == at[1]
    <2> HIDE DEF a
    <2>7. a = Follow(t, 0, labels[1])
      BY <2>2 DEF a
    <2>8. \E V1, F1 : Reached(a.t, V1, F1, a.to, labels[1])
      BY <2>6, <2>7, FollowOk
    <2> QED
      BY <2>8 DEF a
  <1>9. ASSUME NEW i \in Nat, i \in M PROVE i + 1 \in M
    <2> SUFFICES ASSUME (i + 1) + 1 \in 1..n PROVE Q((i + 1) + 1)
      OBVIOUS
    <2> DEFINE k == i + 1
               a == at[k + 1]
    <2>1. k \in 1..(n - 1) /\ k \in 1..n /\ k + 1 \in 0..n /\ k + 1 # 0 /\ (k + 1) - 1 = k /\ k + 1 \in 1..n
      BY <1>3
    <2>2. Q(k)
      BY <1>9, <2>1
    <2> HIDE DEF k
    <2>3. PICK V, F : Reached(at[k].t, V, F, at[k].to, labels[k])
      BY <2>2
    <2>4. labels[k] # 0 /\ labels[k + 1] \in Label
      BY <2>1, <1>4
    <2>5. Ready(at[k].t, V, F, at[k].to, labels[k + 1])
      BY <2>3, <2>4, ReachedReady
    <2>6. a = Follow(at[k].t, at[k].to, labels[k + 1])
      BY <2>1, <1>7
    <2> HIDE DEF a
    <2>7. \E V1, F1 : Reached(a.t, V1, F1, a.to, labels[k + 1])
      BY <2>5, <2>6, FollowOk
    <2>8. Q(k + 1)
      BY <2>7 DEF a
    <2> HIDE DEF Q
    <2> QED
      BY <2>8 DEF k
  <1>10. n - 1 \in M
    <2>1. n - 1 \in Nat
      BY <1>3
    <2> HIDE DEF M
    <2> QED
      BY <2>1, <1>8, <1>9, Induction
  <1>11. Q(n)
    <2>1. (n - 1) + 1 = n /\ n \in 1..n
      BY <1>3
    <2> HIDE DEF Q
    <2> QED
      BY <2>1, <1>10
  <1>12. PICK V, F : Reached(r.t, V, F, r.to, labels[n])
    BY <1>11, <1>6
  <1>13. labels[n] = 0
    BY <1>3
  <1>14. F = {}
    BY <1>12, <1>13 DEF Reached
  <1> QED
    BY <1>12, <1>13, <1>14 DEF PathTaken

\* etdb_trie_update
LEMMA UpdateOk ==
    ASSUME NEW t, TrieTree(t), NEW key, key \in Keys, NEW v, v \in Value[key]
    PROVE  TrieTree(UpdateKey(t, key, v).t)
  <1> DEFINE end == FollowAll(t, Append(Labels(key), 0))
             u == end.t
             x == end.to
             w == [u EXCEPT !.node[x].base = v]
             U == InUse(u)
  <1>1. UpdateKey(t, key, v).t = w
    BY DEF UpdateKey
  <1>2. PathTaken(end)
    BY FollowAllOk
  <1> HIDE DEF end
  <1>3. PICK V : Reached(u, V, {}, x, 0)
    BY <1>2 DEF PathTaken
  <1>4. v \in Int
    BY LabelAssumption
  <1> HIDE DEF u, x
  <1>5. Alloc(u) /\ Tree(InUse(u), u, V, {}, -1) /\ x \in V /\ x \in InUse(u)
    BY <1>3 DEF Reached
  <1>6. BaseSet(u, w, x, v)
    BY <1>4, <1>5, SetBase
  <1> HIDE DEF w
  <1>7. /\ Alloc(w) /\ InUse(w) = U /\ w.ninfo = u.ninfo /\ w.size = u.size
        /\ \A j \in 0..(u.size - 1) : /\ w.node[j].check = u.node[j].check
                                      /\ w.node[j].base = IF j = x THEN v ELSE u.node[j].base
    BY <1>6 DEF BaseSet, Wrote
  <1>8. u.size \in Nat /\ U \subseteq 0..(u.size - 1)
    BY <1>5, NodeTypes DEF Alloc
  <1>9. ListWritten(U, u, V, {}, -1, w)
    <2>1. \A i \in U \ (V \cup {}) : i # -1 => w.node[i].base = u.node[i].base
      BY <1>5, <1>7, <1>8
    <2>2. u.size \in Nat /\ w.size \in Nat /\ u.size <= w.size
      BY <1>7, <1>8
    <2>3. \A i \in U : w.node[i].check = u.node[i].check
      BY <1>7, <1>8
    <2> HIDE DEF U
    <2> QED
      BY <2>1, <2>2, <2>3, <1>7 DEF ListWritten
  <1>10. Tree(U, w, V, {}, -1)
    <2>1. Tree(U, u, V, {}, -1)
      BY <1>5
    <2> HIDE DEF U
    <2> QED
      BY <2>1, <1>9, TreeWritten
  <1> QED
    BY <1>1, <1>7, <1>10 DEF TrieTree

-----------------------------------------------------------------------------
(* etdb_trie_find                                                          *)

\* A search ends nowhere, or at a node that can have children.
Inner(t, V) == {NoPath} \cup (InUse(t) \ V)

\* One step of a search
LEMMA ChildOk ==
    ASSUME NEW t, Alloc(t), NEW V, Tree(InUse(t), t, V, {}, -1), NEW n, n \in Inner(t, V),
           NEW l, l \in Label, l # 0
    PROVE  Child(t, n, l) \in Inner(t, V) \ {0}
  <1>1. NoPath # 0
    BY DEF NoPath
  <1>2. CASE n = NoPath
    <2>1. Child(t, n, l) = NoPath
      BY <1>2 DEF Child
    <2> QED
      BY <2>1, <1>1 DEF Inner
  <1>3. CASE n # NoPath
    <2> DEFINE base == t.node[n].base
               x == To(base, l)
    <2>1. n \in InUse(t) \ (V \cup {})
      BY <1>3 DEF Inner
    <2>2. CASE t.node[x].check # n
      <3>1. Child(t, n, l) = NoPath
        BY <2>2, <1>3 DEF Child
      <3> QED
        BY <3>1, <1>1 DEF Inner
    <2>3. CASE t.node[x].check = n
      <3>1. Child(t, n, l) = x
        BY <2>3, <1>3 DEF Child
      <3>2. /\ x \in 1..(t.size - 1)
            /\ x \in KidsIn(InUse(t), t, n) => (x \in V <=> l = 0)
        <4> HIDE DEF base, x
        <4>1. base = t.node[n].base /\ x = To(base, l)
          BY DEF base, x
        <4>2. n = 0 => l # 0
          OBVIOUS
        <4> QED
          BY <4>1, <4>2, <2>1, ChildPlace
      <3> HIDE DEF x
      <3>3. n >= 0 /\ \A i \in 1..(t.size - 1) : i \in InUse(t) <=> t.node[i].check >= 0
        <4>1. InUse(t) \subseteq 0..(t.size - 1) /\ t.size \in Nat
              /\ \A i \in 1..(t.size - 1) : i \in InUse(t) <=> t.node[i].check >= 0
          BY NodeTypes DEF Alloc
        <4> QED
          BY <4>1, <2>1
      <3>4. x \in InUse(t) /\ x # 0
        BY <2>3, <3>2, <3>3
      <3>5. x \notin V
        BY <2>3, <3>2, <3>4 DEF KidsIn
      <3> QED
        BY <3>1, <3>4, <3>5 DEF Inner
    <2> QED
      BY <2>2, <2>3
  <1> QED
    BY <1>2, <1>3

\* etdb_trie_find ends nowhere or at a node that can have children.
LEMMA WalkOk ==
    ASSUME NEW t, Alloc(t), NEW V, Tree(InUse(t), t, V, {}, -1), NEW key, key \in Keys
    PROVE  Walk(t, 0, Labels(key)) \in Inner(t, V) \ {0}
  <1> DEFINE labels == Labels(key)
             n == Len(labels)
             child == [m \in DOMAIN t.node \cup {NoPath} |-> [l \in Label |-> Child(t, m, l)]]
             at == CHOOSE at : IsWalk(at, n, 0, labels, child)
  <1>1. labels \in Seq(1..(B - 1)) /\ n >= 1 /\ n \in Nat
    BY LabelsOk
  <1>2. \A i \in 1..n : labels[i] \in Label /\ labels[i] # 0
    <2> SUFFICES ASSUME NEW i \in 1..n PROVE labels[i] \in Label /\ labels[i] # 0
      OBVIOUS
    <2> HIDE DEF labels
    <2> DEFINE S == 1..(B - 1)
    <2>1. labels \in Seq(S) /\ i \in 1..Len(labels)
      BY <1>1
    <2> HIDE DEF S
    <2>2. labels[i] \in S
      BY <2>1, ElementOfSeq
    <2> QED
      BY <2>2, LabelAssumption DEF S, Label
  <1>3. Inner(t, V) \subseteq DOMAIN t.node \cup {NoPath}
    <2>1. DOMAIN t.node = 0..(t.capacity - 1) /\ InUse(t) \subseteq 0..(t.capacity - 1)
      <3>1. Shape(t)
        BY DEF Alloc
      <3>2. /\ t.node = [i \in 0..(t.capacity - 1) |-> t.node[i]]
            /\ InUse(t) \subseteq 0..(t.size - 1) /\ 0..(t.size - 1) \subseteq 0..(t.capacity - 1)
        BY <3>1, NodeTypes
      <3> QED
        BY <3>2
    <2> QED
      BY <2>1 DEF Inner
  <1>4. \A m \in Inner(t, V), l \in Label : child[m][l] = Child(t, m, l)
    BY <1>3
  <1> HIDE DEF child, labels
  <1>5. IsWalk(at, n, 0, labels, child)
    BY <1>1, WalkMade
  <1>6. Walk(t, 0, labels) = at[n]
    BY DEF Walk, IsWalk, child
  <1> HIDE DEF at, n
  <1>7. \A k \in 0..n : at[k] = IF k = 0 THEN 0 ELSE child[at[k - 1]][labels[k]]
    BY <1>5 DEF IsWalk
  <1> DEFINE M == {i \in Nat : i + 1 \in 1..n => at[i + 1] \in Inner(t, V) \ {0}}
  <1>8. 0 \in M
    <2>1. at[0] = 0 /\ at[1] = child[0][labels[1]]
      <3>1. 0 \in 0..n /\ 1 \in 0..n /\ 1 - 1 = 0 /\ 1 # 0
        BY <1>1
      <3>2. at[0] = 0
        BY <3>1, <1>7
      <3>3. at[1] = child[at[1 - 1]][labels[1]]
        BY <3>1, <1>7
      <3> QED
        BY <3>1, <3>2, <3>3
    <2>2. 0 \in Inner(t, V)
      BY DEF Inner, Tree, Nodes
    <2>3. labels[1] \in Label /\ labels[1] # 0
      BY <1>1, <1>2
    <2>4. at[1] \in Inner(t, V) \ {0}
      <3> DEFINE l == labels[1]
      <3>1. at[1] = child[0][l]
        BY <2>1
      <3> HIDE DEF l
      <3>2. l \in Label /\ l # 0
        BY <2>3 DEF l
      <3>3. child[0][l] = Child(t, 0, l) /\ Child(t, 0, l) \in Inner(t, V) \ {0}
        BY <2>2, <3>2, <1>4, ChildOk
      <3> QED
        BY <3>1, <3>3
    <2> QED
      BY <2>4
  <1>9. ASSUME NEW i \in Nat, i \in M PROVE i + 1 \in M
    <2> SUFFICES ASSUME (i + 1) + 1 \in 1..n PROVE at[(i + 1) + 1] \in Inner(t, V) \ {0}
      OBVIOUS
    <2>1. at[i + 1] \in Inner(t, V)
      BY <1>9, <1>1
    <2>2. at[(i + 1) + 1] = child[at[i + 1]][labels[(i + 1) + 1]]
      <3> DEFINE k == (i + 1) + 1
      <3>1. k \in 0..n /\ k # 0 /\ k - 1 = i + 1
        BY <1>1
      <3> HIDE DEF k
      <3>2. at[k] = child[at[k - 1]][labels[k]]
        BY <3>1, <1>7
      <3> QED
        BY <3>1, <3>2 DEF k
    <2>3. labels[(i + 1) + 1] \in Label /\ labels[(i + 1) + 1] # 0
      BY <1>2
    <2> DEFINE a == at[i + 1]
               l == labels[(i + 1) + 1]
    <2> HIDE DEF a, l
    <2>4. a \in Inner(t, V) /\ l \in Label /\ l # 0
      BY <2>1, <2>3 DEF a, l
    <2>5. child[a][l] = Child(t, a, l) /\ Child(t, a, l) \in Inner(t, V) \ {0}
      BY <2>4, <1>4, ChildOk
    <2> QED
      BY <2>2, <2>5 DEF a, l
  <1>10. n - 1 \in M
    <2>1. n - 1 \in Nat
      BY <1>1
    <2> HIDE DEF M
    <2> QED
      BY <2>1, <1>8, <1>9, Induction
  <1>11. at[n] \in Inner(t, V) \ {0}
    <2>1. (n - 1) + 1 = n /\ n \in 1..n
      BY <1>1
    <2> QED
      BY <2>1, <1>10
  <1> QED
    BY <1>6, <1>11 DEF labels

\* Where a key's value is
LEMMA ExactOk ==
    ASSUME NEW t, Alloc(t), NEW V, Tree(InUse(t), t, V, {}, -1), NEW key, key \in Keys,
           Exact(t, key) # NoValue, NEW n, n = Walk(t, 0, Labels(key)), NEW e, e = t.node[n].base
    PROVE  e \in V /\ t.node[e].check = n /\ Exact(t, key) = t.node[e].base
  <1>1. n # NoPath /\ ValueAt(t, n) # NoValue /\ Exact(t, key) = ValueAt(t, n)
    BY DEF Exact
  <1>2. t.node[e].check = n /\ ValueAt(t, n) = t.node[e].base
    BY <1>1 DEF ValueAt
  <1>3. n \in InUse(t) \ (V \cup {}) /\ n # 0
    BY <1>1, WalkOk DEF Inner
  <1>4. t.size \in Nat /\ InUse(t) \subseteq 0..(t.size - 1)
        /\ \A i \in 1..(t.size - 1) : i \in InUse(t) <=> t.node[i].check >= 0
    BY NodeTypes DEF Alloc
  <1>5. /\ e \in 0..(t.size - 1)
        /\ e \div B = 0 <=> n = 0
        /\ \A x \in KidsIn(InUse(t), t, n) : x \in V <=> x = e
    <2>1. n # -1
      BY <1>3, <1>4
    <2>2. /\ t.node[n].base \in 0..(t.size - 1)
          /\ t.node[n].base \div B = 0 <=> n = 0
          /\ \A x \in KidsIn(InUse(t), t, n) : x \in V <=> x = t.node[n].base
      BY <2>1, <1>3, <1>4, KinFacts
    <2> QED
      BY <2>2
  <1>6. e # 0
    <2>1. 0 \div B = 0
      BY LabelAssumption
    <2> QED
      BY <2>1, <1>3, <1>5
  <1>7. e \in InUse(t)
    <2>1. e \in 1..(t.size - 1)
      BY <1>4, <1>5, <1>6
    <2>2. n >= 0
      BY <1>3, <1>4
    <2> QED
      BY <2>1, <2>2, <1>2, <1>4
  <1>8. e \in KidsIn(InUse(t), t, n)
    BY <1>2, <1>6, <1>7 DEF KidsIn
  <1> QED
    BY <1>1, <1>2, <1>5, <1>8
-----------------------------------------------------------------------------
(* etdb_trie_erase_impl                                                    *)

\* Node u.e, a child of u.from, is to go: a value, or a node that lost its
\* only child.
Erasing(u, V, F) ==
    /\ Alloc(u.t) /\ Tree(InUse(u.t), u.t, V, F, -1)
    /\ F \subseteq {u.e} /\ u.e \in V \cup F /\ u.t.node[u.e].check = u.from

\* What is known of the parent
ParentOf(u, V, F, s) ==
    /\ u.t.size \in Nat /\ InUse(u.t) \subseteq 0..(u.t.size - 1) /\ 0 \in InUse(u.t)
    /\ u.e \in InUse(u.t) \ {0} /\ u.from \in InUse(u.t) \ (V \cup F) /\ u.e # u.from
    /\ u.e \in KidsIn(InUse(u.t), u.t, u.from)
    /\ Kin(InUse(u.t), u.t, V, u.from, s)
    /\ Chain(u.t, u.t.node[u.from].base, u.t.ninfo[u.from].child, s)
    /\ Named(s, Len(s))
    /\ More(u) <=> Len(s) # 1

\* The node that is erased is on the list of its parent.
LEMMA ParentOk ==
    ASSUME NEW u, NEW V, NEW F, Erasing(u, V, F)
    PROVE  \E s : ParentOf(u, V, F, s)
  <1> DEFINE t == u.t
             U == InUse(t)
             q == u.from
             e == u.e
             base == t.node[q].base
             c == t.ninfo[q].child
  <1>1. Alloc(t) /\ Tree(U, t, V, F, -1) /\ e \in V \cup F /\ t.node[e].check = q
    BY DEF Erasing
  <1>2. t.size \in Nat /\ U \subseteq 0..(t.size - 1) /\ 0 \in U
    BY <1>1, NodeTypes DEF Alloc
  <1>3. e \in U \ {0} /\ q \in U \ (V \cup F) /\ q # e
    BY <1>1 DEF Tree, Nodes
  <1>4. e \in KidsIn(U, t, q)
    BY <1>1, <1>3 DEF KidsIn
  <1>5. PICK s : Kin(U, t, V, q, s)
    <2>1. q # -1
      BY <1>2, <1>3
    <2> QED
      BY <2>1, <1>1, <1>3 DEF Tree
  <1>6. Chain(t, base, c, s)
    BY <1>5 DEF Kin
  <1>7. Named(s, Len(s))
    BY <1>6, ListNamed DEF Chain
  <1>8. More(u) <=> Len(s) # 1
    <2>1. Len(s) \in Nat /\ Len(s) >= 1
      BY <1>7 DEF Named
    <2>2. /\ s[1] = c /\ \A i \in 2..Len(s) : s[i] # 0
          /\ \A i \in 1..Len(s) : t.ninfo[To(base, s[i])].sibling = IF i = Len(s) THEN 0 ELSE s[i + 1]
      BY <1>6 DEF Chain
    <2>3. More(u) <=> t.ninfo[To(base, s[1])].sibling # 0
      BY <2>2 DEF More
    <2> DEFINE b == t.ninfo[To(base, s[1])].sibling
    <2>4. b = IF 1 = Len(s) THEN 0 ELSE s[1 + 1]
      <3>1. 1 \in 1..Len(s)
        BY <2>1
      <3> QED
        BY <3>1, <2>2
    <2>5. Len(s) # 1 => 1 + 1 \in 2..Len(s)
      <3> DEFINE n == Len(s)
      <3>1. n \in Nat /\ n >= 1
        BY <2>1
      <3> HIDE DEF n
      <3>2. n # 1 => 1 + 1 \in 2..n
        BY <3>1
      <3> QED
        BY <3>2 DEF n
    <2>6. Len(s) # 1 => s[1 + 1] # 0
      BY <2>2, <2>5
    <2> HIDE DEF b
    <2>7. b # 0 <=> Len(s) # 1
      BY <2>4, <2>6
    <2> QED
      BY <2>3, <2>7 DEF b
  <1> QED
    BY <1>2, <1>3, <1>4, <1>5, <1>6, <1>7, <1>8 DEF ParentOf

\* The node goes, and its parent, which has no other child, goes next.
LEMMA GoUpOk ==
    ASSUME NEW u, NEW V, NEW F, Erasing(u, V, F), ~ More(u)
    PROVE  /\ Erasing(GoUp(u), V \ {u.e}, {u.from})
           /\ GaveNode(u.t, GoUp(u).t, u.e) /\ u.e \in InUse(u.t)
  <1> DEFINE t == u.t
             U == InUse(t)
             q == u.from
             e == u.e
             w == PushEmptyNode(t, e)
             V1 == V \ {e}
             F1 == F \ {e}
  <1>1. Alloc(t) /\ Tree(U, t, V, F, -1) /\ F \subseteq {e} /\ e \in V \cup F /\ t.node[e].check = q
    BY DEF Erasing
  <1>2. PICK s : ParentOf(u, V, F, s)
    BY ParentOk
  <1>3. /\ t.size \in Nat /\ U \subseteq 0..(t.size - 1) /\ 0 \in U
        /\ e \in U \ {0} /\ q \in U \ (V \cup F) /\ e # q
        /\ e \in KidsIn(U, t, q) /\ Kin(U, t, V, q, s) /\ Len(s) = 1
    BY <1>2 DEF ParentOf
  <1>4. KidsIn(U, t, q) = {e}
    <2>1. \A x \in KidsIn(U, t, q) : \E l \in Members(s) : x = To(t.node[q].base, l)
      BY <1>3 DEF Kin
    <2>2. Members(s) = {s[1]}
      <3>1. \A i \in 1..1 : i = 1
        OBVIOUS
      <3> QED
        BY <3>1, <1>3 DEF Members
    <2> QED
      BY <2>1, <2>2, <1>3
  <1>5. q # 0
    <2> SUFFICES ASSUME q = 0 PROVE FALSE
      OBVIOUS
    <2>1. t.node[q].base = 0 /\ s[1] = 0 /\ \A x \in KidsIn(U, t, q) : \E l \in Members(s) : x = To(t.node[q].base, l)
      BY <1>3 DEF Kin
    <2>2. Members(s) = {s[1]}
      <3>1. \A i \in 1..1 : i = 1
        OBVIOUS
      <3> QED
        BY <3>1, <1>3 DEF Members
    <2>3. e = To(0, 0)
      BY <2>1, <2>2, <1>3
    <2>4. 0 \in Nat /\ 0 \in Label
      BY LabelAssumption DEF Label
    <2>5. To(0, 0) = 0
      BY <2>4, ToFacts
    <2> QED
      BY <2>3, <2>5, <1>3
  <1>6. GaveNode(t, w, e)
    BY <1>1, <1>3, GiveOk
  <1> HIDE DEF w
  <1>7. Alloc(w) /\ InUse(w) = U \ {e} /\ SameOn(U \ {e}, t, w)
    BY <1>6 DEF GaveNode
  <1>8. Tree(U, t, V, F, q)
    <2>1. Tree(U, t, V, F, -1)
      BY <1>1
    <2> QED
      BY <2>1, TreeOpen
  <1>9. Tree(U \ {e}, w, V1, F1, q)
    <2> HIDE DEF U
    <2> QED
      BY <1>1, <1>7, <1>8, LeafFreed
  <1>10. F1 = {}
    BY <1>1
  <1>11. KidsIn(U \ {e}, w, q) = {}
    <2>1. \A i \in U \ {e} : w.node[i] = t.node[i]
      BY <1>7 DEF SameOn
    <2> SUFFICES ASSUME NEW i \in U \ {e}, i # 0, w.node[i].check = q PROVE FALSE
      BY DEF KidsIn
    <2>2. i \in KidsIn(U, t, q)
      BY <2>1 DEF KidsIn
    <2> QED
      BY <2>2, <1>4
  <1>12. Tree(U \ {e}, w, V1, F1 \cup {q}, -1)
    <2> DEFINE U1 == U \ {e}
    <2>1. q \in U1 \ (V1 \cup F1) /\ Tree(U1, w, V1, F1, q) /\ KidsIn(U1, w, q) = {}
      BY <1>3, <1>9, <1>11
    <2> HIDE DEF U1, V1, F1
    <2>2. Tree(U1, w, V1, F1 \cup {q}, -1)
      BY <2>1, <1>5, LeafClose
    <2> QED
      BY <2>2 DEF U1
  <1>13. Tree(InUse(w), w, V1, {q}, -1)
    <2>1. F1 \cup {q} = {q}
      BY <1>10
    <2> HIDE DEF V1, F1, U
    <2> QED
      BY <2>1, <1>7, <1>12
  <1>14. w.node[q] = t.node[q]
    BY <1>3, <1>7 DEF SameOn
  <1>15. GoUp(u).t = w /\ GoUp(u).e = q /\ GoUp(u).from = t.node[q].check
    BY DEF GoUp, w
  <1>16. Erasing(GoUp(u), V1, {q})
    BY <1>7, <1>13, <1>14, <1>15 DEF Erasing
  <1> QED
    BY <1>3, <1>6, <1>15, <1>16

\* Its label leaves the list of the children.
SiblingPopped(t, w, q, base, s, j) ==
    /\ Wrote(t, w) /\ w.node = t.node
    /\ j = 1 => \A i \in 0..(t.size - 1) :
         /\ w.ninfo[i].sibling = t.ninfo[i].sibling
         /\ w.ninfo[i].child = IF i = q THEN t.ninfo[To(base, s[j])].sibling ELSE t.ninfo[i].child
    /\ j # 1 => \A i \in 0..(t.size - 1) :
         /\ w.ninfo[i].child = t.ninfo[i].child
         /\ w.ninfo[i].sibling = IF i = To(base, s[j - 1]) THEN t.ninfo[To(base, s[j])].sibling
                                 ELSE t.ninfo[i].sibling

\* PopSibling takes the label from the list of its parent, at its head or behind another.
LEMMA PopSiblingOk ==
    ASSUME NEW t, Alloc(t), NEW q, q \in InUse(t), NEW base, NEW s, Chain(t, base, t.ninfo[q].child, s),
           NEW j, j \in 1..Len(s), To(base, s[j]) \in InUse(t), j # 1 => To(base, s[j - 1]) \in InUse(t),
           NEW label, label = s[j]
    PROVE  SiblingPopped(t, PopSibling(t, q, base, label), q, base, s, j)
  <1> DEFINE next == t.ninfo[To(base, label)].sibling
             c == t.ninfo[q].child
  <1>1. Named(s, Len(s)) /\ s[1] = c
    BY ListNamed DEF Chain
  <1>2. next \in Label
    <2>1. Shape(t)
      BY DEF Alloc
    <2> DEFINE x == To(base, label)
    <2>2. x \in InUse(t)
      OBVIOUS
    <2> HIDE DEF x
    <2>3. x \in 0..(t.capacity - 1)
      BY <2>1, <2>2, NodeTypes
    <2>4. t.ninfo[x].sibling \in Label
      BY <2>1, <2>3, NodeTypes
    <2> QED
      BY <2>4 DEF x
  <1>3. c = label <=> j = 1
    <2>1. 1 \in 1..Len(s) /\ \A i, k \in 1..Len(s) : s[i] = s[k] => i = k
      BY <1>1 DEF Named
    <2> QED
      BY <2>1, <1>1
  <1>4. CASE j = 1
    <2> DEFINE w == [t EXCEPT !.ninfo[q].child = next]
    <2>1. PopSibling(t, q, base, label) = w
      BY <1>3, <1>4 DEF PopSibling
    <2> HIDE DEF next
    <2>2. ChildSet(t, w, q, next)
      BY <1>2, SetFirst
    <2> HIDE DEF w
    <2>3. SiblingPopped(t, w, q, base, s, j)
      BY <2>2, <1>4 DEF ChildSet, SiblingPopped, next
    <2> QED
      BY <2>1, <2>3
  <1>5. CASE j # 1
    <2> DEFINE kids == Children(t, base, c)
               i == CHOOSE i \in 1..(Len(kids) - 1) : kids[i + 1] = label
               x == To(base, s[j - 1])
               w == [t EXCEPT !.ninfo[x].sibling = next]
    <2>1. kids = s
      BY ChildrenAre
    <2>2. i = j - 1
      <3>1. Len(s) \in Nat /\ \A h, k \in 1..Len(s) : s[h] = s[k] => h = k
        BY <1>1 DEF Named
      <3>2. j - 1 \in 1..(Len(s) - 1) /\ (j - 1) + 1 = j
        BY <3>1, <1>5
      <3>3. \A k \in 1..(Len(s) - 1) : s[k + 1] = label => k = j - 1
        <4> SUFFICES ASSUME NEW k \in 1..(Len(s) - 1), s[k + 1] = label PROVE k = j - 1
          OBVIOUS
        <4>1. k + 1 \in 1..Len(s)
          BY <3>1
        <4>2. k + 1 = j
          BY <4>1, <3>1
        <4> QED
          BY <4>2, <3>1
      <3> HIDE DEF kids
      <3>4. i = CHOOSE k \in 1..(Len(s) - 1) : s[k + 1] = label
        BY <2>1
      <3>5. s[(j - 1) + 1] = label
        BY <3>2
      <3> HIDE DEF i
      <3> QED
        BY <3>2, <3>3, <3>4, <3>5
    <2>3. PopSibling(t, q, base, label) = w
      <3> HIDE DEF i, kids
      <3>1. PopSibling(t, q, base, label) = [t EXCEPT !.ninfo[To(base, kids[i])].sibling = next]
        BY <1>3, <1>5 DEF PopSibling, i, kids
      <3> QED
        BY <3>1, <2>1, <2>2
    <2> HIDE DEF next, i, kids
    <2>4. x \in InUse(t)
      BY <1>5
    <2> HIDE DEF x
    <2>5. SiblingSet(t, w, x, next)
      BY <1>2, <2>4, SetSibling
    <2> HIDE DEF w
    <2>6. SiblingPopped(t, w, q, base, s, j)
      BY <2>5, <1>5 DEF SiblingSet, SiblingPopped, next, x
    <2> QED
      BY <2>3, <2>6
  <1> QED
    BY <1>4, <1>5

\* The node goes, and its parent keeps the other children.
LEMMA EraseChildOk ==
    ASSUME NEW u, NEW V, NEW F, Erasing(u, V, F), More(u)
    PROVE  TrieTree(EraseChild(u))
  <1> DEFINE t == u.t
             U == InUse(t)
             q == u.from
             e == u.e
             base == t.node[q].base
             pop == PopSibling(t, q, base, LabelTo(base, e))
             w == PushEmptyNode(pop, e)
             V1 == V \ {e}
             F1 == F \ {e}
  <1>1. Alloc(t) /\ Tree(U, t, V, F, -1) /\ F \subseteq {e} /\ e \in V \cup F /\ t.node[e].check = q
    BY DEF Erasing
  <1>2. PICK s : ParentOf(u, V, F, s)
    BY ParentOk
  <1>3. /\ t.size \in Nat /\ U \subseteq 0..(t.size - 1) /\ 0 \in U
        /\ e \in U \ {0} /\ q \in U \ (V \cup F) /\ e # q
        /\ e \in KidsIn(U, t, q) /\ Kin(U, t, V, q, s) /\ Named(s, Len(s)) /\ Len(s) # 1
        /\ Chain(t, base, t.ninfo[q].child, s)
    BY <1>2 DEF ParentOf
  <1>4. Len(s) \in Nat /\ Len(s) > 1 /\ (\A i \in 1..Len(s) : s[i] \in Label)
        /\ \A i, k \in 1..Len(s) : s[i] = s[k] => i = k
    BY <1>3 DEF Named
  <1>5. /\ base \in Nat
        /\ \A i \in 1..Len(s) : To(base, s[i]) \in KidsIn(U, t, q) \/ (q = 0 /\ s[i] = 0)
        /\ \E i \in 1..Len(s) : e = To(base, s[i])
        /\ q = 0 => base = 0
    <2>1. /\ base \in 0..(t.size - 1)
          /\ \A l \in Members(s) : To(base, l) \in KidsIn(U, t, q) \/ (q = 0 /\ l = 0)
          /\ \A x \in KidsIn(U, t, q) : \E l \in Members(s) : x = To(base, l)
          /\ q = 0 => base = 0
      BY <1>3 DEF Kin
    <2> HIDE DEF base
    <2> QED
      BY <2>1, <1>3 DEF Members
  <1>6. PICK j \in 1..Len(s) : e = To(base, s[j])
    BY <1>5
  <1>7. LabelTo(base, e) = s[j]
    <2>1. s[j] \in Label /\ 0 \in Label
      BY <1>4, LabelAssumption DEF Label
    <2> HIDE DEF base, e
    <2> QED
      BY <2>1, <1>5, <1>6, ToFacts
  <1> DEFINE z == To(base, s[j - 1])
  <1>8. j # 1 => z \in U /\ z # e /\ (z \in KidsIn(U, t, q) \/ (q = 0 /\ z = 0))
    <2> SUFFICES ASSUME j # 1 PROVE z \in U /\ z # e /\ (z \in KidsIn(U, t, q) \/ (q = 0 /\ z = 0))
      OBVIOUS
    <2>1. j - 1 \in 1..Len(s) /\ j - 1 # j
      BY <1>4
    <2>2. z # e
      <3>1. s[j - 1] # s[j]
        BY <2>1, <1>4
      <3>2. s[j - 1] \in Label /\ s[j] \in Label
        BY <2>1, <1>4
      <3> DEFINE a == s[j - 1]
                 b == s[j]
      <3>3. a # b /\ a \in Label /\ b \in Label
        BY <3>1, <3>2
      <3> HIDE DEF a, b, base
      <3>4. To(base, a) # To(base, b)
        BY <3>3, <1>5, ToFacts
      <3> QED
        BY <3>4, <1>6 DEF a, b
    <2>3. z \in KidsIn(U, t, q) \/ (q = 0 /\ z = 0)
      <3>1. z \in KidsIn(U, t, q) \/ (q = 0 /\ s[j - 1] = 0)
        BY <2>1, <1>5
      <3>2. To(0, 0) = 0
        <4>1. 0 \in Nat /\ 0 \in Label
          BY LabelAssumption DEF Label
        <4> QED
          BY <4>1, ToFacts
      <3>3. q = 0 /\ s[j - 1] = 0 => z = 0
        <4> HIDE DEF base
        <4> QED
          BY <3>2, <1>5
      <3> QED
        BY <3>1, <3>3
    <2>4. z \in U
      BY <2>3, <1>3 DEF KidsIn
    <2> QED
      BY <2>2, <2>3, <2>4
  <1> DEFINE label == LabelTo(base, e)
  <1>9. SiblingPopped(t, pop, q, base, s, j)
    <2>1. q \in InUse(t) /\ To(base, s[j]) \in InUse(t) /\ (j # 1 => To(base, s[j - 1]) \in InUse(t)) /\ label = s[j]
      BY <1>3, <1>6, <1>7, <1>8
    <2>2. pop = PopSibling(t, q, base, label)
      OBVIOUS
    <2> HIDE DEF label, base, q, pop, t
    <2> QED
      BY <2>1, <2>2, <1>1, <1>3, PopSiblingOk
  <1> HIDE DEF pop
  <1>10. /\ Alloc(pop) /\ InUse(pop) = U /\ pop.size = t.size /\ pop.node = t.node
         /\ \A i \in U : i # q => pop.ninfo[i].child = t.ninfo[i].child
         /\ j = 1 => /\ pop.ninfo[q].child = t.ninfo[e].sibling
                     /\ \A i \in U : pop.ninfo[i].sibling = t.ninfo[i].sibling
         /\ j # 1 => /\ pop.ninfo[q].child = t.ninfo[q].child
                     /\ pop.ninfo[z].sibling = t.ninfo[e].sibling
                     /\ \A i \in U : i # z => pop.ninfo[i].sibling = t.ninfo[i].sibling
    <2>1. To(base, s[j]) = e
      BY <1>6
    <2> HIDE DEF z
    <2>2. To(base, s[j - 1]) = z
      BY DEF z
    <2> HIDE DEF base, e, q, t
    <2>3. U = InUse(t)
      OBVIOUS
    <2> HIDE DEF U
    <2>4. Wrote(t, pop) /\ pop.node = t.node
      BY <1>9 DEF SiblingPopped
    <2>5. CASE j = 1
      <3>1. \A i \in 0..(t.size - 1) :
              /\ pop.ninfo[i].sibling = t.ninfo[i].sibling
              /\ pop.ninfo[i].child = IF i = q THEN t.ninfo[e].sibling ELSE t.ninfo[i].child
        BY <1>9, <2>1, <2>5 DEF SiblingPopped
      <3> QED
        BY <3>1, <2>3, <2>4, <2>5, <1>3 DEF Wrote
    <2>6. CASE j # 1
      <3>1. \A i \in 0..(t.size - 1) :
              /\ pop.ninfo[i].child = t.ninfo[i].child
              /\ pop.ninfo[i].sibling = IF i = z THEN t.ninfo[e].sibling ELSE t.ninfo[i].sibling
        BY <1>9, <2>1, <2>2, <2>6 DEF SiblingPopped
      <3> QED
        BY <3>1, <2>3, <2>4, <2>6, <1>3, <1>8 DEF Wrote
    <2> QED
      BY <2>5, <2>6
  <1>11. Tree(U, pop, V, F, q)
    <2>1. Tree(U, t, V, F, q)
      <3>1. Tree(U, t, V, F, -1)
        BY <1>1
      <3> QED
        BY <3>1, TreeOpen
    <2>2. ListWritten(U, t, V, F, q, pop)
      <3>1. \A i \in U \ {0} : t.node[i].check # q => pop.ninfo[i].sibling = t.ninfo[i].sibling
        <4> SUFFICES ASSUME NEW i \in U \ {0}, t.node[i].check # q PROVE pop.ninfo[i].sibling = t.ninfo[i].sibling
          OBVIOUS
        <4>1. j # 1 => i # z
          BY <1>8 DEF KidsIn
        <4> HIDE DEF z
        <4> QED
          BY <4>1, <1>10
      <3>2. q # 0 => pop.ninfo[0].sibling = t.ninfo[0].sibling
        <4> SUFFICES ASSUME q # 0 PROVE pop.ninfo[0].sibling = t.ninfo[0].sibling
          OBVIOUS
        <4>1. j # 1 => 0 # z
          BY <1>8 DEF KidsIn
        <4> HIDE DEF z
        <4> QED
          BY <4>1, <1>3, <1>10
      <3> HIDE DEF U, z
      <3> QED
        BY <3>1, <3>2, <1>3, <1>10 DEF ListWritten
    <2> HIDE DEF U
    <2> QED
      BY <2>1, <2>2, TreeWritten
  <1>12. GaveNode(pop, w, e)
    <2>1. Alloc(pop) /\ e \in InUse(pop) /\ e # 0
      BY <1>3, <1>10
    <2> HIDE DEF e
    <2> QED
      BY <2>1, GiveOk
  <1> HIDE DEF w
  <1>13. Alloc(w) /\ InUse(w) = U \ {e} /\ SameOn(U \ {e}, pop, w) /\ w.size = t.size
    BY <1>10, <1>12 DEF GaveNode
  <1>14. pop.node[e].check = q
    BY <1>1, <1>10
  <1>15. Tree(U \ {e}, w, V1, F1, q)
    <2> HIDE DEF U, e
    <2> QED
      BY <1>1, <1>11, <1>13, <1>14, LeafFreed
  <1>16. \A i \in U \ {e} : w.node[i] = t.node[i] /\ w.ninfo[i] = pop.ninfo[i]
    BY <1>10, <1>13 DEF SameOn
  <1>17. KidDropped(U, t, V, q, e, s, j, U \ {e}, w, V1)
    <2>1. KidsIn(U \ {e}, w, q) = KidsIn(U, t, q) \ {e}
      BY <1>16 DEF KidsIn
    <2>2. w.node[q].base = base
      BY <1>3, <1>16
    <2>3. j = 1 => /\ w.ninfo[q].child = t.ninfo[e].sibling
                   /\ \A y \in KidsIn(U, t, q) \ {e} : w.ninfo[y].sibling = t.ninfo[y].sibling
      <3> HIDE DEF z
      <3> QED
        BY <1>3, <1>10, <1>16 DEF KidsIn
    <2>4. j # 1 => /\ w.ninfo[q].child = t.ninfo[q].child
                   /\ w.ninfo[z].sibling = t.ninfo[e].sibling
                   /\ \A y \in (KidsIn(U, t, q) \cup {0}) \ {e} : y # z => w.ninfo[y].sibling = t.ninfo[y].sibling
      <3> HIDE DEF z
      <3> QED
        BY <1>3, <1>8, <1>10, <1>16 DEF KidsIn
    <2>5. e = To(base, s[j]) /\ z = To(base, s[j - 1]) /\ base = t.node[q].base
      BY <1>6
    <2>6. t.size \in Nat /\ w.size \in Nat /\ t.size <= w.size
      BY <1>3, <1>13
    <2>7. \A y \in KidsIn(U, t, q) \ {e} : y \in V1 <=> y \in V
      OBVIOUS
    <2> HIDE DEF U, e, q, z, V1, base, t
    <2> QED
      BY <2>1, <2>2, <2>3, <2>4, <2>5, <2>6, <2>7, <1>3 DEF KidDropped, Sib
  <1>18. Kin(U \ {e}, w, V1, q, Del(s, j))
    <2> DEFINE U1 == U \ {e}
    <2>1. KidDropped(U, t, V, q, e, s, j, U1, w, V1)
      BY <1>17
    <2> HIDE DEF U, U1, V1, e, q, t
    <2>2. Kin(U1, w, V1, q, Del(s, j))
      BY <2>1, <1>3, <1>4, KinDrop
    <2> QED
      BY <2>2 DEF U1
  <1>19. Tree(U \ {e}, w, V1, F1, -1)
    <2> HIDE DEF U, e, q, V1, F1
    <2> QED
      BY <1>15, <1>18, TreeClose
  <1>20. F1 = {}
    BY <1>1
  <1>21. Tree(InUse(w), w, V1, {}, -1)
    <2> HIDE DEF U, V1, F1
    <2> QED
      BY <1>13, <1>19, <1>20
  <1>22. EraseChild(u) = w
    BY DEF EraseChild, w, pop
  <1> QED
    BY <1>13, <1>21, <1>22 DEF TrieTree

\* How far the climb is: every step frees a node.
Climbed(u, k, c) ==
    /\ \E V, F : Erasing(u, V, F)
    /\ IsFiniteSet(InUse(u.t)) /\ Cardinality(InUse(u.t)) \in Nat
    /\ Cardinality(InUse(u.t)) + k = c

\* Every step of the climb of etdb_trie_erase frees a node, so it ends.
LEMMA ClimbStep ==
    ASSUME NEW u, NEW k, k \in Nat, NEW c, Climbed(u, k, c), ~ More(u)
    PROVE  Climbed(GoUp(u), k + 1, c)
  <1> DEFINE U == InUse(u.t)
             w == GoUp(u)
  <1>1. PICK V, F : Erasing(u, V, F)
    BY DEF Climbed
  <1>2. /\ Erasing(w, V \ {u.e}, {u.from})
        /\ GaveNode(u.t, w.t, u.e) /\ u.e \in U
    BY <1>1, GoUpOk
  <1> HIDE DEF w
  <1>3. InUse(w.t) = U \ {u.e}
    BY <1>2 DEF GaveNode
  <1>4. IsFiniteSet(U) /\ Cardinality(U) \in Nat /\ Cardinality(U) + k = c
    BY DEF Climbed
  <1>5. IsFiniteSet(U \ {u.e}) /\ Cardinality(U \ {u.e}) = Cardinality(U) - 1
    <2> HIDE DEF U
    <2> QED
      BY <1>2, <1>4, FS_RemoveElement
  <1>6. Cardinality(U \ {u.e}) \in Nat
    <2> HIDE DEF U
    <2> QED
      BY <1>5, FS_CardinalityType
  <1>7. \E V1, F1 : Erasing(w, V1, F1)
    BY <1>2
  <1>8. IsFiniteSet(InUse(w.t)) /\ Cardinality(InUse(w.t)) \in Nat /\ Cardinality(InUse(w.t)) + (k + 1) = c
    <2> HIDE DEF U
    <2> QED
      BY <1>3, <1>4, <1>5, <1>6
  <1> QED
    BY <1>7, <1>8 DEF Climbed, w

\* etdb_trie_erase frees the value and every node left without children, and a tree is left.
LEMMA EraseFromOk ==
    ASSUME NEW t, NEW from, NEW e, NEW V, Erasing([t |-> t, from |-> from, e |-> e], V, {})
    PROVE  TrieTree(EraseFrom(t, from, e))
  <1> DEFINE s0 == [t |-> t, from |-> from, e |-> e]
             n == t.size
             U == InUse(t)
             c == Cardinality(U)
             up == CHOOSE up : IsClimb(up, n, s0)
  <1>1. Alloc(t)
    BY DEF Erasing
  <1>2. n \in Nat /\ U \subseteq 0..(n - 1)
    BY <1>1, NodeTypes DEF Alloc
  <1>3. IsFiniteSet(U) /\ c \in Nat /\ c <= n
    <2> HIDE DEF U, n
    <2>1. 0 \in Int /\ n - 1 \in Int
      BY <1>2
    <2>2. IsFiniteSet(0..(n - 1)) /\ Cardinality(0..(n - 1)) = IF 0 <= n - 1 THEN (n - 1) - 0 + 1 ELSE 0
      BY <2>1, FS_Interval
    <2>3. Cardinality(0..(n - 1)) = n
      BY <2>2, <1>2
    <2>4. IsFiniteSet(U) /\ Cardinality(U) <= Cardinality(0..(n - 1))
      BY <2>2, <1>2, FS_Subset
    <2>5. Cardinality(U) \in Nat
      BY <2>4, FS_CardinalityType
    <2> QED
      BY <2>3, <2>4, <2>5
  <1>4. Climbed(s0, 0, c)
    <2>1. Erasing(s0, V, {})
      OBVIOUS
    <2>2. s0.t = t
      OBVIOUS
    <2> HIDE DEF s0
    <2>3. c + 0 = c
      BY <1>3
    <2> QED
      BY <2>1, <2>2, <2>3, <1>3 DEF Climbed
  <1> HIDE DEF n, s0, c
  <1>5. IsClimb(up, n, s0)
    BY <1>2, ClimbMade
  <1>6. EraseFrom(t, from, e) =
          EraseChild(up[CHOOSE k \in DOMAIN up : More(up[k]) /\ \A j \in 0..(k - 1) : ~ More(up[j])])
    BY DEF EraseFrom, IsClimb, n, s0
  <1> HIDE DEF up
  <1>7. /\ DOMAIN up = 0..n
        /\ \A k \in 0..n : up[k] = IF k = 0 THEN s0 ELSE GoUp(up[k - 1])
    BY <1>5 DEF IsClimb
  <1> DEFINE P(k) == \A j \in 0..(k - 1) : ~ More(up[j])
             M == {k \in Nat : k \in 0..n /\ P(k) => Climbed(up[k], k, c)}
  <1>8. 0 \in M
    <2>1. 0 \in 0..n
      BY <1>2
    <2>2. up[0] = s0
      BY <2>1, <1>7
    <2> QED
      BY <2>2, <1>4
  <1>9. ASSUME NEW k \in Nat, k \in M PROVE k + 1 \in M
    <2> SUFFICES ASSUME k + 1 \in 0..n, P(k + 1) PROVE Climbed(up[k + 1], k + 1, c)
      OBVIOUS
    <2>1. k \in 0..n /\ k + 1 # 0 /\ (k + 1) - 1 = k /\ k \in 0..((k + 1) - 1)
      BY <1>2
    <2>2. P(k) /\ ~ More(up[k])
      <3>1. 0..(k - 1) \subseteq 0..((k + 1) - 1)
        OBVIOUS
      <3> QED
        BY <2>1, <3>1
    <2>3. up[k + 1] = GoUp(up[k])
      BY <2>1, <1>7
    <2>4. Climbed(up[k], k, c)
      BY <1>9, <2>1, <2>2
    <2> DEFINE a == up[k]
    <2> HIDE DEF a
    <2>5. Climbed(a, k, c) /\ ~ More(a)
      BY <2>2, <2>4 DEF a
    <2>6. Climbed(GoUp(a), k + 1, c)
      BY <2>5, ClimbStep
    <2> QED
      BY <2>3, <2>6 DEF a
  <1>10. \A k \in 0..n : P(k) => Climbed(up[k], k, c)
    <2>1. Nat \subseteq M
      <3> HIDE DEF M
      <3> QED
        BY <1>8, <1>9, Induction
    <2>2. 0..n \subseteq Nat
      OBVIOUS
    <2> HIDE DEF P
    <2> QED
      BY <2>1, <2>2
  <1>11. \E k \in 0..n : More(up[k])
    <2> SUFFICES ASSUME \A k \in 0..n : ~ More(up[k]) PROVE FALSE
      OBVIOUS
    <2>1. n \in 0..n /\ 0..(n - 1) \subseteq 0..n
      BY <1>2
    <2>2. Climbed(up[n], n, c)
      BY <2>1, <1>10
    <2> DEFINE U1 == InUse(up[n].t)
    <2>3. IsFiniteSet(U1) /\ Cardinality(U1) \in Nat /\ Cardinality(U1) + n = c
      BY <2>2 DEF Climbed
    <2>4. 0 \in U1
      <3>1. PICK V1, F1 : Erasing(up[n], V1, F1)
        BY <2>2 DEF Climbed
      <3>2. Shape(up[n].t)
        BY <3>1 DEF Erasing, Alloc
      <3> QED
        BY <3>2, NodeTypes
    <2> HIDE DEF U1
    <2>5. Cardinality(U1) # 0
      BY <2>3, <2>4, FS_EmptySet
    <2>6. c \in Nat /\ c <= n
      BY <1>3 DEF c, n
    <2> QED
      BY <2>3, <2>5, <2>6, <1>2
  <1> DEFINE T == {k \in 0..n : More(up[k])}
             E(k) == More(up[k]) /\ \A j \in 0..(k - 1) : ~ More(up[j])
  <1>12. \E k \in 0..n : E(k)
    <2>1. T \subseteq Nat /\ T # {}
      BY <1>2, <1>11
    <2>2. PICK k \in T : \A j \in T : k <= j
      <3> HIDE DEF T
      <3> QED
        BY <2>1, LeastOf
    <2>3. \A j \in 0..(k - 1) : ~ More(up[j])
      <3> SUFFICES ASSUME NEW j \in 0..(k - 1), More(up[j]) PROVE FALSE
        OBVIOUS
      <3>1. j \in 0..n /\ j < k
        BY <2>2, <1>2
      <3>2. j \in T
        BY <3>1
      <3> QED
        BY <3>1, <3>2, <2>2
    <2> QED
      BY <2>2, <2>3
  <1> DEFINE k == CHOOSE k \in 0..n : E(k)
  <1>13. k \in 0..n /\ E(k)
    <2> HIDE DEF E
    <2> QED
      BY <1>12
  <1>14. EraseFrom(t, from, e) = EraseChild(up[k])
    BY <1>6, <1>7
  <1> HIDE DEF k
  <1>15. Climbed(up[k], k, c) /\ More(up[k])
    BY <1>10, <1>13
  <1>16. PICK V1, F1 : Erasing(up[k], V1, F1)
    BY <1>15 DEF Climbed
  <1>17. TrieTree(EraseChild(up[k]))
    BY <1>15, <1>16, EraseChildOk
  <1> QED
    BY <1>14, <1>17

\* etdb_trie_erase, when the key has a value
LEMMA EraseOk ==
    ASSUME NEW t, TrieTree(t), NEW key, key \in Keys, Exact(t, key) # NoValue,
           NEW n, n = Walk(t, 0, Labels(key))
    PROVE  TrieTree(EraseFrom(t, n, t.node[n].base))
  <1>1. PICK V : Tree(InUse(t), t, V, {}, -1)
    BY DEF TrieTree
  <1>2. Alloc(t)
    BY DEF TrieTree
  <1> DEFINE e == t.node[n].base
             u == [t |-> t, from |-> n, e |-> e]
  <1>3. e \in V /\ t.node[e].check = n
    BY <1>1, <1>2, ExactOk
  <1> HIDE DEF e
  <1>4. u.t = t /\ u.e = e /\ u.from = n
    OBVIOUS
  <1>5. Erasing([t |-> t, from |-> n, e |-> e], V, {})
    <2> HIDE DEF u
    <2>1. Erasing(u, V, {})
      BY <1>1, <1>2, <1>3, <1>4 DEF Erasing
    <2> QED
      BY <2>1 DEF u
  <1> QED
    BY <1>5, EraseFromOk DEF e

-----------------------------------------------------------------------------
(* The trie                                                                *)

\* The first trie has one node, the root, whose list of children is the label 0.
LEMMA FirstTree ==
    TrieTree(EmptyTrie)
  <1> DEFINE t == EmptyTrie
             U == InUse(t)
  <1>1. Alloc(t)
    BY EmptyTrieOk
  <1>2. B \in Nat /\ 0 \in Label /\ B >= 3
    BY LabelAssumption DEF Label
  <1>3. t.size = B
    BY DEF EmptyTrie
  <1>4. \A i \in 1..(B - 1) : t.node[i].check < 0
    <2> SUFFICES ASSUME NEW i \in 1..(B - 1) PROVE t.node[i].check < 0
      OBVIOUS
    <2>1. t.node[i] = Ring(1, B - 1)[i]
      BY <1>2 DEF EmptyTrie
    <2>2. Ring(1, B - 1)[i].check = IF i = B - 1 THEN -1 ELSE -(i + 1)
      BY DEF Ring
    <2> QED
      BY <2>1, <2>2, <1>2
  <1>5. /\ t.node[0].base = 0
        /\ \A i \in 0..(B - 1) : t.ninfo[i].sibling = 0 /\ t.ninfo[i].child = 0
    <2>1. 0 \in 0..(B - 1)
      BY <1>2
    <2> QED
      BY <2>1 DEF EmptyTrie, NewNinfo
  <1>6. U = {0}
    <2>1. Free(t) = 1..(B - 1)
      BY <1>2, <1>3, <1>4 DEF Free
    <2> QED
      BY <2>1, <1>2, <1>3 DEF InUse
  <1> HIDE DEF t, U
  <1>7. Kin({0}, t, {}, 0, <<0>>)
    <2>1. <<0>> \in Lists /\ Len(<<0>>) = 1 /\ Members(<<0>>) = {0} /\ <<0>>[1] = 0
      BY <1>2, OneLabel
    <2>2. To(0, 0) = 0
      BY <1>2, ToFacts
    <2>3. 0 \in 0..(B - 1) /\ 0 \div B = 0
      BY <1>2
    <2>4. t.ninfo[0].sibling = 0 /\ t.ninfo[0].child = 0
      BY <2>3, <1>5
    <2>5. Chain(t, 0, 0, <<0>>)
      <3> DEFINE s == <<0>>
      <3>1. s \in Lists /\ Len(s) = 1 /\ s[1] = 0
        BY <2>1
      <3> HIDE DEF s
      <3>2. \A i \in 1..1 : i = 1
        OBVIOUS
      <3> QED
        BY <3>1, <3>2, <2>2, <2>4 DEF Chain, s
    <2>6. KidsIn({0}, t, 0) = {}
      BY DEF KidsIn
    <2> QED
      BY <2>1, <2>3, <2>4, <2>5, <2>6, <1>3, <1>5 DEF Kin
  <1>8. Nodes({0}, t, {}, {})
    BY <1>2, <1>3 DEF Nodes
  <1>9. Tree({0}, t, {}, {}, -1)
    BY <1>7, <1>8 DEF Tree
  <1>10. \E V : Tree(InUse(t), t, V, {}, -1)
    BY <1>6, <1>9 DEF U
  <1> QED
    BY <1>1, <1>10 DEF TrieTree, t

\* The list of the children of a node names the nodes of S whose check it is.
ListedKids(S, t, n) ==
    LET base == t.node[n].base
        kids == Children(t, base, t.ninfo[n].child)
    IN  /\ {To(base, kids[i]) : i \in DOMAIN kids} \ {0} = {i \in S \ {0} : t.node[i].check = n}
        /\ \A i, j \in DOMAIN kids : kids[i] = kids[j] => i = j

\* Every node in use but the values' nodes has the list of its children.
LEMMA ChildListsHold ==
    ASSUME TrieTree(trie)
    PROVE  ChildLists
  <1> DEFINE t == trie
             U == InUse(t)
  <1>1. PICK V : Alloc(t) /\ Tree(U, t, V, {}, -1)
    BY DEF TrieTree
  <1>2. /\ t.size \in Nat /\ U \subseteq 0..(t.size - 1) /\ 0 \in U
        /\ \A i \in 1..(t.size - 1) : i \in U <=> t.node[i].check >= 0
    BY <1>1, NodeTypes DEF Alloc
  <1>3. Used = U
    <2>1. \A i \in 0..(t.size - 1) : i = 0 \/ i \in 1..(t.size - 1)
      OBVIOUS
    <2> QED
      BY <2>1, <1>2 DEF Used
  <1>4. ASSUME NEW n \in U, n = 0 \/ LabelTo(t.node[t.node[n].check].base, n) # 0
        PROVE  n \notin V
    <2> SUFFICES ASSUME n \in V PROVE FALSE
      OBVIOUS
    <2> DEFINE q == t.node[n].check
               base == t.node[q].base
    <2>1. n # 0 /\ q \in U \ (V \cup {})
      BY <1>1 DEF Tree, Nodes
    <2>2. n \in KidsIn(U, t, q) /\ q # -1
      BY <2>1, <1>2 DEF KidsIn
    <2>3. base \in Nat /\ \A x \in KidsIn(U, t, q) : x \in V <=> x = base
      <3> HIDE DEF U, q
      <3> QED
        BY <2>1, <2>2, <1>1, <1>2, KinFacts
    <2>4. n = base
      BY <2>2, <2>3
    <2>5. LabelTo(base, base) = 0
      <3>1. base % B \in Label
        BY <2>3, Division
      <3> HIDE DEF base
      <3> QED
        BY <3>1, XorAssumption DEF LabelTo
    <2> QED
      BY <2>1, <2>4, <2>5, <1>4
  <1>5. ASSUME NEW n \in U, n \notin V
        PROVE  ListedKids(U, t, n)
    <2> DEFINE base == t.node[n].base
               kids == Children(t, base, t.ninfo[n].child)
    <2>1. PICK s : Kin(U, t, V, n, s)
      <3>1. n # -1
        BY <1>2
      <3> QED
        BY <3>1, <1>1, <1>5 DEF Tree
    <2>2. /\ Chain(t, base, t.ninfo[n].child, s)
          /\ n = 0 => base = 0
          /\ \A l \in Members(s) : To(base, l) \in KidsIn(U, t, n) \/ (n = 0 /\ l = 0)
          /\ \A x \in KidsIn(U, t, n) : \E l \in Members(s) : x = To(base, l)
      BY <2>1, <1>5 DEF Kin
    <2>3. kids = s
      BY <2>2, <1>5, ChildrenAre
    <2>4. DOMAIN s = 1..Len(s) /\ \A i, j \in 1..Len(s) : s[i] = s[j] => i = j
      <3>1. s \in Lists
        BY <2>2 DEF Chain
      <3> QED
        BY <3>1, ListNamed DEF Named
    <2>5. To(0, 0) = 0
      <3>1. 0 \in Nat /\ 0 \in Label
        BY LabelAssumption DEF Label
      <3> QED
        BY <3>1, ToFacts
    <2> DEFINE K == {To(base, s[i]) : i \in DOMAIN s} \ {0}
    <2>6. K \subseteq KidsIn(U, t, n)
      <3> SUFFICES ASSUME NEW i \in 1..Len(s), To(base, s[i]) # 0 PROVE To(base, s[i]) \in KidsIn(U, t, n)
        BY <2>4
      <3>1. To(base, s[i]) \in KidsIn(U, t, n) \/ (n = 0 /\ s[i] = 0)
        BY <2>2 DEF Members
      <3>2. n = 0 /\ s[i] = 0 => To(base, s[i]) = 0
        BY <2>2, <2>5
      <3> QED
        BY <3>1, <3>2
    <2>7. KidsIn(U, t, n) \subseteq K
      <3> SUFFICES ASSUME NEW x \in KidsIn(U, t, n) PROVE x \in K
        OBVIOUS
      <3>1. PICK i \in 1..Len(s) : x = To(base, s[i])
        BY <2>2 DEF Members
      <3>2. x # 0
        BY DEF KidsIn
      <3> QED
        BY <3>1, <3>2, <2>4
    <2>8. K = {i \in U \ {0} : t.node[i].check = n}
      BY <2>6, <2>7 DEF KidsIn
    <2> HIDE DEF K
    <2>9. {To(base, s[i]) : i \in DOMAIN s} \ {0} = {i \in U \ {0} : t.node[i].check = n}
      BY <2>8 DEF K
    <2>10. \A i, j \in DOMAIN s : s[i] = s[j] => i = j
      BY <2>4
    <2> HIDE DEF U
    <2>11. /\ {To(base, kids[i]) : i \in DOMAIN kids} \ {0} = {i \in U \ {0} : t.node[i].check = n}
           /\ \A i, j \in DOMAIN kids : kids[i] = kids[j] => i = j
      <3> HIDE DEF base, kids
      <3> QED
        BY <2>3, <2>9, <2>10
    <2> QED
      BY <2>11 DEF ListedKids
  <1>6. ASSUME NEW n \in Used, n = 0 \/ LabelTo(t.node[t.node[n].check].base, n) # 0
        PROVE  LET base == t.node[n].base
                   kids == Children(t, base, t.ninfo[n].child)
               IN  /\ {To(base, kids[i]) : i \in DOMAIN kids} \ {0} = {i \in Used \ {0} : t.node[i].check = n}
                   /\ \A i, j \in DOMAIN kids : kids[i] = kids[j] => i = j
    <2>1. n \in U /\ n \notin V
      BY <1>3, <1>4, <1>6
    <2>2. ListedKids(U, t, n)
      BY <2>1, <1>5
    <2> HIDE DEF U
    <2>3. ListedKids(Used, t, n)
      BY <2>2, <1>3
    <2> QED
      BY <2>3 DEF ListedKids
  <1> QED
    BY <1>6 DEF ChildLists

\* Every reachable trie is well formed: free nodes, blocks and the tree.
TrieInv == TrieTree(trie)

\* Every trie that updates and erases lead to is well formed: its free nodes form
\* one ring per block, its blocks the three lists, and its other nodes one tree whose
\* lists of children are complete. It is the invariant the other theorems rest on;
\* every handler of etdb_trie_update and etdb_trie_erase keeps it, with every conflict
\* etdb_trie_resolve resolves on the way.
THEOREM TrieWellFormed == Spec => []TrieInv
  <1>1. Init => TrieInv
    BY FirstTree DEF Init, TrieInv
  <1>2. TrieInv /\ [Next]_vars => TrieInv'
    <2> SUFFICES ASSUME TrieInv, [Next]_vars PROVE TrieInv'
      OBVIOUS
    <2>1. TrieTree(trie)
      BY DEF TrieInv
    <2>2. ASSUME NEW k \in Keys, NEW v \in Value[k], Update(k, v) PROVE TrieInv'
      <3>1. trie' = UpdateKey(trie, k, v).t
        BY <2>2 DEF Update, Becomes
      <3>2. TrieTree(UpdateKey(trie, k, v).t)
        BY <2>1, UpdateOk
      <3> QED
        BY <3>1, <3>2 DEF TrieInv
    <2>3. ASSUME NEW k \in Keys, Erase(k) PROVE TrieInv'
      <3>1. CASE UNCHANGED trie
        BY <3>1, <2>1 DEF TrieInv
      <3>2. CASE trie' # trie
        <4> DEFINE n == Walk(trie, 0, Labels(k))
        <4>1. Exact(trie, k) # NoValue /\ trie' = EraseFrom(trie, n, trie.node[n].base)
          BY <2>3, <3>2 DEF Erase, Becomes
        <4> HIDE DEF n
        <4>2. n = Walk(trie, 0, Labels(k))
          BY DEF n
        <4>3. TrieTree(EraseFrom(trie, n, trie.node[n].base))
          BY <4>1, <4>2, <2>1, EraseOk
        <4> QED
          BY <4>1, <4>3 DEF TrieInv
      <3> QED
        BY <3>1, <3>2
    <2>4. CASE UNCHANGED vars
      BY <2>1, <2>4 DEF vars, TrieInv
    <2> QED
      BY <2>2, <2>3, <2>4 DEF Next
  <1> QED
    BY <1>1, <1>2, PTL DEF Spec

\* The free nodes of every block form one ring through base and check, with the
\* number the block counts and its ehead on it: pop_empty_node and push_empty_node never
\* leave a node outside or a head that is in use.
THEOREM FreeRingsHold == Spec => []FreeRings
  <1>1. TrieInv => FreeRings
    BY AllocHolds DEF TrieInv, TrieTree
  <1> QED
    BY <1>1, TrieWellFormed, PTL

\* The blocks are on the three lists open, close and full as their numbers of
\* free nodes and trials say, each list a ring: transfer_block, pop_block and push_block
\* lose no block, whatever is updated and erased.
THEOREM BlockListsHold == Spec => []BlockLists
  <1>1. TrieInv => BlockLists
    BY AllocHolds DEF TrieInv, TrieTree
  <1> QED
    BY <1>1, TrieWellFormed, PTL

\* The list of children of every node (ninfo's child and sibling) has exactly the
\* nodes whose check is that node, each once: the walks and searches that follow the lists
\* see every key, and erase frees no node that is still used.
THEOREM ChildListsAlways == Spec => []ChildLists
  <1>1. TrieInv => ChildLists
    BY ChildListsHold DEF TrieInv
  <1> QED
    BY <1>1, TrieWellFormed, PTL
==============================================================================
