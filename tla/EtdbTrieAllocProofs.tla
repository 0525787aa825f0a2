------------------------- MODULE EtdbTrieAllocProofs -------------------------
(***************************************************************************)
(* Proofs about the allocator of EtdbTrie: the nodes and blocks of the     *)
(* double array, for any number of labels and any state.                   *)
(*                                                                         *)
(* Alloc says that the free nodes of each block are one ring, the blocks   *)
(* three rings. Every operation on nodes and blocks keeps it: pop_empty,   *)
(* push_empty, transfer_block, add_block and the search for a place.       *)
(***************************************************************************)
EXTENDS EtdbTrie, FiniteSetTheorems, WellFoundedInduction, TLAPS

-----------------------------------------------------------------------------
(* Addresses: a node of the array is a block and a label of that block.    *)

\* A number splits into a quotient and a remainder of B.
LEMMA Division ==
    ASSUME NEW i \in Nat
    PROVE  /\ i \div B \in Nat /\ i % B \in Label
           /\ i = B * (i \div B) + (i % B)
  <1>1. B \in Nat /\ B > 0
    BY LabelAssumption
  <1> QED
    BY <1>1 DEF Label

\* There is one way to split it.
LEMMA DivisionUnique ==
    ASSUME NEW q \in Nat, NEW r \in Label
    PROVE  (B * q + r) \div B = q /\ (B * q + r) % B = r
  <1>1. B \in Nat /\ B > 0
    BY LabelAssumption
  <1> QED
    BY <1>1 DEF Label

\* The exclusive or of labels: adding one twice undoes it.
LEMMA XorLabel ==
    ASSUME NEW x \in Label, NEW y \in Label, NEW z \in Label
    PROVE  /\ XorOf[x][y] \in Label
           /\ XorOf[x][0] = x
           /\ XorOf[XorOf[x][y]][y] = x
           /\ XorOf[x][XorOf[x][y]] = y
           /\ XorOf[XorOf[x][y]][z] = XorOf[XorOf[x][z]][y]
           /\ XorOf[x][y] = XorOf[x][z] => y = z
           /\ XorOf[y][x] = XorOf[z][x] => y = z
  <1>0. 0 \in Label
    BY LabelAssumption DEF Label
  <1>1. \A a, b \in Label : XorOf[a][b] \in Label
    BY XorAssumption
  <1>2. \A a, b \in Label : XorOf[XorOf[a][b]][b] = a
    BY XorAssumption
  <1>3. \A a, b \in Label : XorOf[a][XorOf[a][b]] = b
    <2> TAKE a, b \in Label
    <2>1. XorOf[a][b] = XorOf[b][a]
      BY XorAssumption
    <2>2. XorOf[a][XorOf[a][b]] = XorOf[XorOf[b][a]][a]
      BY <2>1, <1>1, XorAssumption
    <2> QED
      BY <2>2, <1>2
  <1>4. XorOf[XorOf[x][y]][z] = XorOf[XorOf[x][z]][y]
    BY XorAssumption
  <1>5. XorOf[x][y] = XorOf[x][z] => y = z
    BY <1>3
  <1>6. XorOf[y][x] = XorOf[z][x] => y = z
    BY <1>2
  <1> QED
    BY <1>0, <1>1, <1>2, <1>3, <1>4, <1>5, <1>6, XorAssumption

\* A child is in the block of the base.
LEMMA ToBlock ==
    ASSUME NEW i \in Nat, NEW l \in Label
    PROVE  /\ To(i, l) \in Nat
           /\ To(i, l) \div B = i \div B
           /\ To(i, l) % B = XorOf[i % B][l]
  <1>1. i \div B \in Nat /\ i % B \in Label
    BY Division
  <1>2. XorOf[i % B][l] \in Label
    BY <1>1, XorLabel
  <1> DEFINE q == i \div B
             r == XorOf[i % B][l]
  <1>3. q \in Nat /\ r \in Label /\ To(i, l) = B * q + r
    BY <1>1, <1>2 DEF To
  <1> HIDE DEF q, r
  <1>4. B * q + r \in Nat
    BY <1>3, LabelAssumption DEF Label
  <1>5. (B * q + r) \div B = q /\ (B * q + r) % B = r
    BY <1>3, DivisionUnique
  <1> QED
    BY <1>3, <1>4, <1>5 DEF q, r

\* Two numbers of a block and an offset are one.
LEMMA SameAddress ==
    ASSUME NEW i \in Nat, NEW j \in Nat, i \div B = j \div B, i % B = j % B
    PROVE  i = j
  BY Division

\* The children under the labels are different nodes, and the way back.
LEMMA ToFacts ==
    ASSUME NEW i \in Nat, NEW a \in Label, NEW b \in Label
    PROVE  /\ To(i, 0) = i
           /\ To(To(i, a), a) = i
           /\ To(To(i, a), b) = To(To(i, b), a)
           /\ To(i, a) = To(i, b) => a = b
           /\ LabelTo(i, To(i, a)) = a
  <1>a. 0 \in Label
    BY LabelAssumption DEF Label
  <1>0. 0 \in Label /\ i % B \in Label
    BY <1>a, Division
  <1>1. /\ To(i, a) \in Nat /\ To(i, a) \div B = i \div B /\ To(i, a) % B = XorOf[i % B][a]
        /\ To(i, b) \in Nat /\ To(i, b) \div B = i \div B /\ To(i, b) % B = XorOf[i % B][b]
        /\ To(i, 0) \in Nat /\ To(i, 0) \div B = i \div B /\ To(i, 0) % B = XorOf[i % B][0]
    BY <1>0, ToBlock
  <1>2. To(i, 0) = i
    BY <1>0, <1>1, XorLabel, SameAddress
  <1>3. To(To(i, a), a) = i
    <2>1. To(To(i, a), a) \in Nat /\ To(To(i, a), a) \div B = i \div B
          /\ To(To(i, a), a) % B = XorOf[XorOf[i % B][a]][a]
      BY <1>1, ToBlock
    <2>2. XorOf[XorOf[i % B][a]][a] = i % B
      BY <1>0, XorLabel
    <2> QED
      BY <2>1, <2>2, SameAddress
  <1>4. To(To(i, a), b) = To(To(i, b), a)
    <2>1. To(To(i, a), b) \in Nat /\ To(To(i, a), b) \div B = i \div B
          /\ To(To(i, a), b) % B = XorOf[XorOf[i % B][a]][b]
      BY <1>1, ToBlock
    <2>2. To(To(i, b), a) \in Nat /\ To(To(i, b), a) \div B = i \div B
          /\ To(To(i, b), a) % B = XorOf[XorOf[i % B][b]][a]
      BY <1>1, ToBlock
    <2>3. XorOf[XorOf[i % B][a]][b] = XorOf[XorOf[i % B][b]][a]
      BY <1>0, XorLabel
    <2> QED
      BY <2>1, <2>2, <2>3, SameAddress
  <1>5. To(i, a) = To(i, b) => a = b
    BY <1>0, <1>1, XorLabel
  <1>6. LabelTo(i, To(i, a)) = a
    <2>1. XorOf[i % B][XorOf[i % B][a]] = a
      BY <1>0, XorLabel
    <2> QED
      BY <1>1, <2>1 DEF LabelTo
  <1> QED
    BY <1>2, <1>3, <1>4, <1>5, <1>6

\* A node of the base's block is the child under the label that leads to it.
LEMMA ToLabel ==
    ASSUME NEW i \in Nat, NEW j \in Nat, i \div B = j \div B
    PROVE  LabelTo(i, j) \in Label /\ To(i, LabelTo(i, j)) = j
  <1>1. i % B \in Label /\ j % B \in Label
    BY Division
  <1>2. LabelTo(i, j) \in Label /\ XorOf[i % B][LabelTo(i, j)] = j % B
    BY <1>1, XorLabel DEF LabelTo
  <1>3. To(i, LabelTo(i, j)) \in Nat /\ To(i, LabelTo(i, j)) \div B = i \div B
        /\ To(i, LabelTo(i, j)) % B = j % B
    BY <1>2, ToBlock
  <1> QED
    BY <1>2, <1>3, SameAddress

\* Blocks are intervals of nodes.
LEMMA BlockInterval ==
    ASSUME NEW i \in Nat, NEW b \in Nat
    PROVE  /\ i \div B = b <=> i \in (B * b)..(B * b + B - 1)
           /\ i < B * b <=> i \div B < b
           /\ i >= B <=> i \div B # 0
  <1>0. B \in Nat /\ B > 0
    BY LabelAssumption
  <1>1. i \div B \in Nat /\ i % B \in 0..(B - 1) /\ i = B * (i \div B) + (i % B)
    BY Division DEF Label
  <1> DEFINE q == i \div B
             r == i % B
  <1>2. q \in Nat /\ r \in 0..(B - 1) /\ i = B * q + r
    BY <1>1
  <1> HIDE DEF q, r
  <1>3. q < b => B * q + B <= B * b
    <2> SUFFICES ASSUME q < b PROVE B * q + B <= B * b
      OBVIOUS
    <2>1. PICK d \in Nat : b = q + 1 + d
      <3>1. b - q - 1 \in Nat /\ b = q + 1 + (b - q - 1)
        BY <1>2
      <3> QED
        BY <3>1
    <2>2. B * b = B * q + B + B * d /\ B * d \in Nat
      BY <2>1, <1>0, <1>2
    <2> QED
      BY <2>2, <1>0, <1>2
  <1>4. b < q => B * b + B <= B * q
    <2> SUFFICES ASSUME b < q PROVE B * b + B <= B * q
      OBVIOUS
    <2>1. PICK d \in Nat : q = b + 1 + d
      <3>1. q - b - 1 \in Nat /\ q = b + 1 + (q - b - 1)
        BY <1>2
      <3> QED
        BY <3>1
    <2>2. B * q = B * b + B + B * d /\ B * d \in Nat
      BY <2>1, <1>0, <1>2
    <2> QED
      BY <2>2, <1>0, <1>2
  <1> DEFINE x == B * q
             y == B * b
  <1>5. x \in Nat /\ y \in Nat /\ i = x + r /\ (q < b => x + B <= y) /\ (b < q => y + B <= x)
        /\ (q = b => x = y) /\ (q = 0 => x = 0) /\ (q # 0 => x >= B)
    BY <1>0, <1>2, <1>3, <1>4
  <1> HIDE DEF x, y
  <1>6. q = b <=> i \in y..(y + B - 1)
    BY <1>0, <1>2, <1>5
  <1>7. i < y <=> q < b
    BY <1>0, <1>2, <1>5
  <1>8. i >= B <=> q # 0
    BY <1>0, <1>2, <1>5
  <1> QED
    BY <1>6, <1>7, <1>8 DEF q, y

-----------------------------------------------------------------------------
(* Rings, linked both ways *)

\* A ring depends on the links of its members only.
LEMMA RingSame ==
    ASSUME NEW S, NEW next, NEW prev, NEW next1, NEW prev1, IsRing(S, next, prev),
           \A x \in S : next1[x] = next[x] /\ prev1[x] = prev[x]
    PROVE  IsRing(S, next1, prev1)
  BY DEF IsRing

\* Nothing is a ring, and so is one member that is linked to itself.
LEMMA SmallRings ==
    ASSUME NEW next, NEW prev, NEW e
    PROVE  /\ IsRing({}, next, prev)
           /\ next[e] = e /\ prev[e] = e => IsRing({e}, next, prev)
  BY DEF IsRing

\* The members of a ring that are their own neighbours are alone.
LEMMA RingOne ==
    ASSUME NEW S, NEW next, NEW prev, IsRing(S, next, prev), NEW e \in S
    PROVE  /\ next[e] = e <=> S = {e}
           /\ prev[e] = e <=> S = {e}
  <1>1. next[e] = e => S = {e}
    <2>1. \A T \in SUBSET S : T # {} /\ (\A x \in T : next[x] \in T) => T = S
      BY DEF IsRing
    <2>2. {e} \in SUBSET S /\ {e} # {}
      OBVIOUS
    <2> QED
      BY <2>1, <2>2
  <1>2. next[e] \in S /\ prev[e] \in S /\ prev[next[e]] = e /\ next[prev[e]] = e
    BY DEF IsRing
  <1> QED
    BY <1>1, <1>2

\* A member more, between two neighbours.
LEMMA RingInsert ==
    ASSUME NEW S, NEW next, NEW prev, NEW next1, NEW prev1, IsRing(S, next, prev),
           NEW a \in S, NEW e, e \notin S,
           next1[a] = e, next1[e] = next[a], prev1[e] = a, prev1[next[a]] = e,
           \A x \in S \ {a} : next1[x] = next[x],
           \A x \in S \ {next[a]} : prev1[x] = prev[x]
    PROVE  IsRing(S \cup {e}, next1, prev1)
  <1> DEFINE b == next[a]
  <1>0. \A x \in S : next[x] \in S /\ prev[x] \in S /\ prev[next[x]] = x /\ next[prev[x]] = x
    BY DEF IsRing
  <1>1. b \in S
    BY <1>0
  <1>2. ASSUME NEW x \in S \cup {e}
        PROVE  /\ next1[x] \in S \cup {e} /\ prev1[x] \in S \cup {e}
               /\ prev1[next1[x]] = x /\ next1[prev1[x]] = x
    <2>1. CASE x = e
      BY <2>1, <1>0, <1>1
    <2>2. CASE x # e /\ x = a
      <3>1. next1[x] = e /\ prev1[next1[x]] = x
        BY <2>2
      <3>2. CASE x = b
        BY <3>1, <3>2, <2>2
      <3>3. CASE x # b
        <4>1. prev1[x] = prev[x] /\ prev[x] \in S /\ next[prev[x]] = x
          BY <2>2, <3>3, <1>0
        <4>2. prev[x] # a
          BY <4>1, <3>3
        <4> QED
          BY <3>1, <4>1, <4>2
      <3> QED
        BY <3>2, <3>3
    <2>3. CASE x # e /\ x # a
      <3>1. next1[x] = next[x] /\ next[x] \in S /\ prev[next[x]] = x
        BY <2>3, <1>0
      <3>2. next[x] # b
        BY <3>1, <2>3, <1>0
      <3>3. prev1[next1[x]] = x
        BY <3>1, <3>2
      <3>4. CASE x = b
        BY <3>1, <3>3, <3>4
      <3>5. CASE x # b
        <4>1. prev1[x] = prev[x] /\ prev[x] \in S /\ next[prev[x]] = x
          BY <2>3, <3>5, <1>0
        <4>2. prev[x] # a
          BY <4>1, <3>5
        <4> QED
          BY <3>1, <3>3, <4>1, <4>2
      <3> QED
        BY <3>4, <3>5
    <2> QED
      BY <2>1, <2>2, <2>3
  <1>3. ASSUME NEW T \in SUBSET (S \cup {e}), T # {}, \A x \in T : next1[x] \in T
        PROVE  T = S \cup {e}
    <2> DEFINE R == T \ {e}
    <2>1. R # {}
      BY <1>3, <1>1
    <2>2. ASSUME NEW x \in R PROVE next[x] \in R
      <3>1. CASE x = a
        BY <3>1, <1>3, <1>1
      <3>2. CASE x # a
        BY <3>2, <1>3, <1>0
      <3> QED
        BY <3>1, <3>2
    <2>3. R = S
      BY <2>1, <2>2 DEF IsRing
    <2> QED
      BY <2>3, <1>3
  <1> QED
    BY <1>2, <1>3 DEF IsRing

\* A member less: its neighbours become neighbours.
LEMMA RingRemove ==
    ASSUME NEW S, NEW next, NEW prev, NEW next1, NEW prev1, IsRing(S, next, prev),
           NEW e \in S, next[e] # e,
           next1[prev[e]] = next[e], prev1[next[e]] = prev[e],
           \A x \in S \ {e, prev[e]} : next1[x] = next[x],
           \A x \in S \ {e, next[e]} : prev1[x] = prev[x]
    PROVE  IsRing(S \ {e}, next1, prev1)
  <1> DEFINE a == prev[e]
             b == next[e]
  <1>0. \A x \in S : next[x] \in S /\ prev[x] \in S /\ prev[next[x]] = x /\ next[prev[x]] = x
    BY DEF IsRing
  <1>1. a \in S \ {e} /\ b \in S \ {e} /\ next[a] = e /\ prev[b] = e
    BY <1>0
  <1>2. ASSUME NEW x \in S \ {e}
        PROVE  /\ next1[x] \in S \ {e} /\ prev1[x] \in S \ {e}
               /\ prev1[next1[x]] = x /\ next1[prev1[x]] = x
    <2>1. next1[x] \in S \ {e} /\ prev1[next1[x]] = x
      <3>1. CASE x = a
        BY <3>1, <1>1
      <3>2. CASE x # a
        <4>1. next1[x] = next[x] /\ next[x] \in S /\ prev[next[x]] = x
          BY <3>2, <1>0
        <4>2. next[x] # e /\ next[x] # b
          BY <3>2, <4>1, <1>1
        <4> QED
          BY <4>1, <4>2
      <3> QED
        BY <3>1, <3>2
    <2>2. prev1[x] \in S \ {e} /\ next1[prev1[x]] = x
      <3>1. CASE x = b
        BY <3>1, <1>1
      <3>2. CASE x # b
        <4>1. prev1[x] = prev[x] /\ prev[x] \in S /\ next[prev[x]] = x
          BY <3>2, <1>0
        <4>2. prev[x] # e /\ prev[x] # a
          BY <3>2, <4>1, <1>1
        <4> QED
          BY <4>1, <4>2
      <3> QED
        BY <3>1, <3>2
    <2> QED
      BY <2>1, <2>2
  <1>3. ASSUME NEW T \in SUBSET (S \ {e}), T # {}, \A x \in T : next1[x] \in T
        PROVE  T = S \ {e}
    <2>1. CASE a \in T
      <3> DEFINE R == T \cup {e}
      <3>1. ASSUME NEW x \in R PROVE next[x] \in R
        BY <2>1, <1>1, <1>3
      <3>2. R = S
        <4>1. \A Q \in SUBSET S : Q # {} /\ (\A x \in Q : next[x] \in Q) => Q = S
          BY DEF IsRing
        <4>2. R \in SUBSET S /\ R # {}
          BY <1>3
        <4> QED
          BY <3>1, <4>1, <4>2
      <3> QED
        BY <3>2, <1>3
    <2>2. CASE a \notin T
      <3>1. \A x \in T : next[x] \in T
        BY <2>2, <1>3
      <3>2. T = S
        BY <3>1, <1>3 DEF IsRing
      <3> QED
        BY <3>2
    <2> QED
      BY <2>1, <2>2
  <1> QED
    BY <1>2, <1>3 DEF IsRing

-----------------------------------------------------------------------------
(* The shape of a trie: whole blocks, the capacity a multiple of them      *)

NodeType == [base : Int, check : Int]
NinfoType == [sibling : Label, child : Label]
BlockType == [prev : Nat, next : Nat, num : Nat, reject : Int, trial : Nat, ehead : Nat]
ListNames == {"open", "close", "full"}

NB(t) == t.size \div B
CB(t) == t.capacity \div B

Shape(t) ==
    /\ t \in [node : [0..(t.capacity - 1) -> NodeType], ninfo : [0..(t.capacity - 1) -> NinfoType],
              block : [0..(CB(t) - 1) -> BlockType], head : [ListNames -> Nat],
              capacity : Nat, size : Nat, reject : [0..B -> Int]]
    /\ t.size = B * NB(t) /\ t.capacity = B * CB(t)
    /\ NB(t) \in Nat /\ CB(t) \in Nat /\ 1 <= NB(t) /\ NB(t) <= CB(t)

\* The blocks on a list, and with block 0 where the full ones are linked.
Circle(l, S) == IF l = "full" THEN S \cup {0} ELSE S

ListOk(t, l, S) ==
    /\ t.head[l] = 0 <=> S = {}
    /\ S # {} => t.head[l] \in S
    /\ IsRing(Circle(l, S), [b \in Circle(l, S) |-> t.block[b].next],
                            [b \in Circle(l, S) |-> t.block[b].prev])
    /\ l = "full" => t.head[l] = t.block[0].next

\* From t to u only links between the blocks R and the head of list l changed.
Relinked(t, u, R, l) ==
    /\ Shape(u)
    /\ u.node = t.node /\ u.ninfo = t.ninfo
    /\ u.capacity = t.capacity /\ u.size = t.size /\ u.reject = t.reject
    /\ \A b \in 0..(CB(t) - 1) :
         /\ u.block[b].num = t.block[b].num /\ u.block[b].reject = t.block[b].reject
         /\ u.block[b].trial = t.block[b].trial /\ u.block[b].ehead = t.block[b].ehead
         /\ b \notin R => u.block[b].next = t.block[b].next /\ u.block[b].prev = t.block[b].prev
    /\ \A m \in ListNames \ {l} : u.head[m] = t.head[m]

WithNext(f, a, c) == [f EXCEPT ![a].next = c]
WithPrev(f, a, c) == [f EXCEPT ![a].prev = c]

\* A link of a block, and nothing else, is set.
LEMMA SetNext ==
    ASSUME NEW D, NEW f \in [D -> BlockType], NEW a \in D, NEW c \in Nat,
           NEW g, g = WithNext(f, a, c)
    PROVE  /\ g \in [D -> BlockType]
           /\ \A b \in D :
                /\ g[b].next = IF b = a THEN c ELSE f[b].next
                /\ g[b].prev = f[b].prev
                /\ g[b].num = f[b].num /\ g[b].reject = f[b].reject
                /\ g[b].trial = f[b].trial /\ g[b].ehead = f[b].ehead
  <1>1. f[a] \in BlockType
    OBVIOUS
  <1>0. g = [f EXCEPT ![a].next = c]
    BY DEF WithNext
  <1>2. g[a] = [f[a] EXCEPT !.next = c] /\ \A b \in D \ {a} : g[b] = f[b]
    BY <1>0
  <1>3. g[a] \in BlockType /\ g[a].next = c /\ g[a].prev = f[a].prev
        /\ g[a].num = f[a].num /\ g[a].reject = f[a].reject
        /\ g[a].trial = f[a].trial /\ g[a].ehead = f[a].ehead
    BY <1>1, <1>2 DEF BlockType
  <1>4. DOMAIN g = D /\ g = [b \in D |-> g[b]]
    BY <1>0
  <1>5. \A b \in D : g[b] \in BlockType
    BY <1>2, <1>3
  <1>6. g \in [D -> BlockType]
    BY <1>4, <1>5
  <1> QED
    BY <1>2, <1>3, <1>6

\* The other link.
LEMMA SetPrev ==
    ASSUME NEW D, NEW f \in [D -> BlockType], NEW a \in D, NEW c \in Nat,
           NEW g, g = WithPrev(f, a, c)
    PROVE  /\ g \in [D -> BlockType]
           /\ \A b \in D :
                /\ g[b].prev = IF b = a THEN c ELSE f[b].prev
                /\ g[b].next = f[b].next
                /\ g[b].num = f[b].num /\ g[b].reject = f[b].reject
                /\ g[b].trial = f[b].trial /\ g[b].ehead = f[b].ehead
  <1>1. f[a] \in BlockType
    OBVIOUS
  <1>0. g = [f EXCEPT ![a].prev = c]
    BY DEF WithPrev
  <1>2. g[a] = [f[a] EXCEPT !.prev = c] /\ \A b \in D \ {a} : g[b] = f[b]
    BY <1>0
  <1>3. g[a] \in BlockType /\ g[a].prev = c /\ g[a].next = f[a].next
        /\ g[a].num = f[a].num /\ g[a].reject = f[a].reject
        /\ g[a].trial = f[a].trial /\ g[a].ehead = f[a].ehead
    BY <1>1, <1>2 DEF BlockType
  <1>4. DOMAIN g = D /\ g = [b \in D |-> g[b]]
    BY <1>0
  <1>5. \A b \in D : g[b] \in BlockType
    BY <1>2, <1>3
  <1>6. g \in [D -> BlockType]
    BY <1>4, <1>5
  <1> QED
    BY <1>2, <1>3, <1>6

\* A list whose links did not change is still that list.
LEMMA ListSame ==
    ASSUME NEW t, NEW u, NEW l, NEW S, ListOk(t, l, S), u.head[l] = t.head[l],
           \A b \in Circle(l, S) \cup {0} : l = "full" \/ b # 0 =>
               u.block[b].next = t.block[b].next /\ u.block[b].prev = t.block[b].prev,
           l = "full" \/ 0 \notin S
    PROVE  ListOk(u, l, S)
  <1> DEFINE C == Circle(l, S)
             n == [b \in C |-> t.block[b].next]
             p == [b \in C |-> t.block[b].prev]
             n1 == [b \in C |-> u.block[b].next]
             p1 == [b \in C |-> u.block[b].prev]
  <1>1. IsRing(C, n, p)
    BY DEF ListOk
  <1>2. \A b \in C : n1[b] = n[b] /\ p1[b] = p[b]
    BY DEF Circle
  <1>3. IsRing(C, n1, p1)
    BY <1>1, <1>2, RingSame
  <1>4. l = "full" => u.block[0].next = t.block[0].next
    OBVIOUS
  <1> QED
    BY <1>3, <1>4 DEF ListOk

\* PopBlock takes a block off its list.
LEMMA PopBlockOk ==
    ASSUME NEW t, Shape(t), NEW l \in ListNames, NEW S \in SUBSET (1..(NB(t) - 1)),
           ListOk(t, l, S), NEW bi \in S
    PROVE  /\ Relinked(t, PopBlock(t, bi, l), Circle(l, S), l)
           /\ ListOk(PopBlock(t, bi, l), l, S \ {bi})
  <1> DEFINE u == PopBlock(t, bi, l)
             D == 0..(CB(t) - 1)
             C == Circle(l, S)
             a == t.block[bi].prev
             c == t.block[bi].next
             n == [b \in C |-> t.block[b].next]
             p == [b \in C |-> t.block[b].prev]
  <1>0. /\ t \in [node : [0..(t.capacity - 1) -> NodeType], ninfo : [0..(t.capacity - 1) -> NinfoType],
                  block : [D -> BlockType], head : [ListNames -> Nat],
                  capacity : Nat, size : Nat, reject : [0..B -> Int]]
        /\ NB(t) \in Nat /\ CB(t) \in Nat /\ 1 <= NB(t) /\ NB(t) <= CB(t)
    BY DEF Shape
  <1>1. S \subseteq D /\ 0 \notin S /\ 0 \in D /\ C \subseteq D /\ bi \in C
    BY <1>0 DEF Circle
  <1>2. IsRing(C, n, p)
    BY DEF ListOk
  <1>3. a \in C /\ c \in C /\ t.block[a].next = bi /\ t.block[c].prev = bi
        /\ (c = bi <=> C = {bi}) /\ (a = bi <=> C = {bi})
    <2>1. n[bi] = c /\ p[bi] = a
      BY <1>1
    <2>2. n[bi] \in C /\ p[bi] \in C /\ p[n[bi]] = bi /\ n[p[bi]] = bi
      BY <1>1, <1>2 DEF IsRing
    <2>3. (n[bi] = bi <=> C = {bi}) /\ (p[bi] = bi <=> C = {bi})
      BY <1>1, <1>2, RingOne
    <2> QED
      BY <2>1, <2>2, <2>3
  <1>4. CASE c = bi
    <2>1. C = {bi} /\ l # "full" /\ S = {bi}
      BY <1>1, <1>3, <1>4 DEF Circle
    <2>2. u = [t EXCEPT !.head[l] = 0]
      BY <1>4 DEF PopBlock
    <2>3. u.block = t.block /\ u.head = [t.head EXCEPT ![l] = 0] /\ u.node = t.node
          /\ u.ninfo = t.ninfo /\ u.capacity = t.capacity /\ u.size = t.size /\ u.reject = t.reject
      BY <1>0, <2>2
    <2>4. Shape(u)
      <3>1. u.head \in [ListNames -> Nat]
        BY <1>0, <2>3
      <3>2. u \in [node : [0..(t.capacity - 1) -> NodeType], ninfo : [0..(t.capacity - 1) -> NinfoType],
                  block : [D -> BlockType], head : [ListNames -> Nat],
                  capacity : Nat, size : Nat, reject : [0..B -> Int]]
        BY <1>0, <2>2, <3>1
      <3> QED
        BY <2>3, <3>2 DEF Shape, NB, CB
    <2>5. Relinked(t, u, C, l)
      BY <1>0, <2>3, <2>4 DEF Relinked
    <2>6. ListOk(u, l, S \ {bi})
      <3>1. S \ {bi} = {} /\ Circle(l, S \ {bi}) = {}
        BY <2>1 DEF Circle
      <3>2. u.head[l] = 0
        BY <1>0, <2>3
      <3> DEFINE E == Circle(l, S \ {bi})
      <3>3. IsRing(E, [b \in E |-> u.block[b].next], [b \in E |-> u.block[b].prev])
        <4>1. IsRing({}, [b \in E |-> u.block[b].next], [b \in E |-> u.block[b].prev])
          BY SmallRings
        <4> QED
          BY <4>1, <3>1
      <3> QED
        BY <3>1, <3>2, <3>3, <2>1 DEF ListOk
    <2> QED
      BY <2>5, <2>6
  <1>5. CASE c # bi
    <2> DEFINE n1 == [b \in C \ {bi} |-> u.block[b].next]
               p1 == [b \in C \ {bi} |-> u.block[b].prev]
               h == IF bi = t.head[l] THEN c ELSE t.head[l]
    <2>1. u = [t EXCEPT !.block[a].next = c, !.block[c].prev = a,
                        !.head[l] = IF bi = @ THEN c ELSE @]
      BY <1>5 DEF PopBlock
    <2>2. /\ u.block = [[t.block EXCEPT ![a].next = c] EXCEPT ![c].prev = a]
          /\ u.head = [t.head EXCEPT ![l] = h]
          /\ u.node = t.node /\ u.ninfo = t.ninfo /\ u.capacity = t.capacity /\ u.size = t.size
          /\ u.reject = t.reject
      BY <1>0, <2>1
    <2>3. a \in D /\ c \in D /\ a \in Nat /\ c \in Nat
      BY <1>1, <1>3
    <2> DEFINE f == t.block
               f1 == WithNext(f, a, c)
               f2 == u.block
    <2>b. f \in [D -> BlockType] /\ f2 = WithPrev(f1, c, a)
      BY <1>0, <2>2 DEF WithNext, WithPrev
    <2>c. /\ f1 \in [D -> BlockType]
          /\ \A b \in D :
               /\ f1[b].next = IF b = a THEN c ELSE f[b].next
               /\ f1[b].prev = f[b].prev
               /\ f1[b].num = f[b].num /\ f1[b].reject = f[b].reject
               /\ f1[b].trial = f[b].trial /\ f1[b].ehead = f[b].ehead
      <3>1. f1 = WithNext(f, a, c)
        OBVIOUS
      <3>2. c \in Nat /\ a \in D
        BY <2>3
      <3> HIDE DEF f1, f, f2, D, a, c
      <3> QED
        BY <3>1, <3>2, <2>b, SetNext
    <2>d. /\ f2 \in [D -> BlockType]
          /\ \A b \in D :
               /\ f2[b].prev = IF b = c THEN a ELSE f1[b].prev
               /\ f2[b].next = f1[b].next
               /\ f2[b].num = f1[b].num /\ f2[b].reject = f1[b].reject
               /\ f2[b].trial = f1[b].trial /\ f2[b].ehead = f1[b].ehead
      <3>1. f2 = WithPrev(f1, c, a) /\ f1 \in [D -> BlockType]
        BY <2>b, <2>c
      <3>2. a \in Nat /\ c \in D
        BY <2>3
      <3> HIDE DEF f1, f, f2, D, a, c
      <3> QED
        BY <3>1, <3>2, SetPrev
    <2>4. u.block \in [D -> BlockType]
      BY <2>d
    <2>5. ASSUME NEW b \in D
          PROVE  /\ u.block[b].next = IF b = a THEN c ELSE t.block[b].next
                 /\ u.block[b].prev = IF b = c THEN a ELSE t.block[b].prev
                 /\ u.block[b].num = t.block[b].num /\ u.block[b].reject = t.block[b].reject
                 /\ u.block[b].trial = t.block[b].trial /\ u.block[b].ehead = t.block[b].ehead
      <3> HIDE DEF f1
      <3> QED
        BY <2>c, <2>d
    <2>6. u.head \in [ListNames -> Nat] /\ u.head[l] = h /\ \A m \in ListNames \ {l} : u.head[m] = t.head[m]
      BY <1>0, <2>2, <2>3
    <2>7. Shape(u)
      <3>1. u \in [node : [0..(t.capacity - 1) -> NodeType], ninfo : [0..(t.capacity - 1) -> NinfoType],
                  block : [D -> BlockType], head : [ListNames -> Nat],
                  capacity : Nat, size : Nat, reject : [0..B -> Int]]
        BY <1>0, <2>1, <2>4, <2>6
      <3> QED
        BY <2>2, <3>1 DEF Shape, NB, CB
    <2>8. Relinked(t, u, C, l)
      BY <2>2, <2>5, <2>6, <2>7, <1>3 DEF Relinked
    <2>9. IsRing(C \ {bi}, n1, p1)
      <3>1. n[bi] = c /\ p[bi] = a /\ n[bi] # bi
        BY <1>1, <1>5
      <3>2. a \in C \ {bi} /\ c \in C \ {bi}
        BY <1>3, <1>5
      <3>3. n1[p[bi]] = n[bi] /\ p1[n[bi]] = p[bi]
        BY <3>1, <3>2, <2>3, <2>5
      <3>4. \A x \in C \ {bi, p[bi]} : n1[x] = n[x]
        BY <3>1, <1>1, <2>5
      <3>5. \A x \in C \ {bi, n[bi]} : p1[x] = p[x]
        BY <3>1, <1>1, <2>5
      <3> HIDE DEF n, p, n1, p1
      <3> QED
        BY <3>1, <3>3, <3>4, <3>5, <1>1, <1>2, RingRemove
    <2>10. Circle(l, S \ {bi}) = C \ {bi}
      BY <1>1 DEF Circle
    <2>11. u.head[l] = 0 <=> S \ {bi} = {}
      <3>1. t.head[l] \in S
        BY DEF ListOk
      <3>2. l # "full" => c \in S /\ c # bi
        BY <1>3, <1>5 DEF Circle
      <3>3. CASE l # "full"
        BY <3>1, <3>2, <3>3, <1>1, <2>6
      <3>4. CASE l = "full"
        <4>1. t.head[l] = t.block[0].next
          BY <3>4 DEF ListOk
        <4>2. CASE S = {bi}
          <5>1. c = 0
            BY <1>3, <1>5, <4>2 DEF Circle
          <5> QED
            BY <5>1, <4>2, <3>1, <2>6
        <4>3. CASE S # {bi}
          <5>1. t.head[l] # bi => t.head[l] # 0 /\ t.head[l] \in S \ {bi}
            BY <3>1, <1>1
          <5>2. ASSUME t.head[l] = bi, c = 0 PROVE FALSE
            <6>1. n[0] = bi /\ n[bi] = 0
              BY <5>2, <4>1, <3>4, <1>1 DEF Circle
            <6>2. {0, bi} \in SUBSET C /\ \A x \in {0, bi} : n[x] \in {0, bi}
              BY <6>1, <3>4, <1>1 DEF Circle
            <6>3. {0, bi} = C
              <7>1. \A Q \in SUBSET C : Q # {} /\ (\A x \in Q : n[x] \in Q) => Q = C
                BY <1>2 DEF IsRing
              <7> HIDE DEF n, C
              <7> QED
                BY <7>1, <6>2
            <6> QED
              BY <6>3, <4>3, <3>4, <1>1 DEF Circle
          <5>3. t.head[l] = bi => c \in S \ {bi}
            BY <5>2, <1>3, <1>5, <3>4 DEF Circle
          <5> QED
            BY <5>1, <5>2, <5>3, <2>6
        <4> QED
          BY <4>2, <4>3
      <3> QED
        BY <3>3, <3>4
    <2>12. S \ {bi} # {} => u.head[l] \in S \ {bi}
      <3>1. t.head[l] \in S /\ c \in C
        BY <1>3 DEF ListOk
      <3>2. u.head[l] # bi /\ u.head[l] \in C
        BY <3>1, <2>6, <1>5 DEF Circle
      <3> QED
        BY <3>2, <2>11 DEF Circle
    <2>13. l = "full" => u.head[l] = u.block[0].next
      <3> SUFFICES ASSUME l = "full" PROVE u.head[l] = u.block[0].next
        OBVIOUS
      <3>1. t.head[l] = t.block[0].next
        BY DEF ListOk
      <3>2. u.block[0].next = IF 0 = a THEN c ELSE t.block[0].next
        BY <1>1, <2>5
      <3>3. 0 = a <=> t.block[0].next = bi
        <4>1. 0 \in C
          BY DEF Circle
        <4>2. p[n[0]] = 0 /\ n[0] = t.block[0].next /\ p[bi] = a /\ n[p[bi]] = bi
          BY <4>1, <1>1, <1>2 DEF IsRing
        <4> QED
          BY <4>2
      <3> QED
        BY <3>1, <3>2, <3>3, <2>6
    <2>14. ListOk(u, l, S \ {bi})
      <3> HIDE DEF u, C
      <3> QED
        BY <2>9, <2>10, <2>11, <2>12, <2>13 DEF ListOk
    <2> QED
      BY <2>8, <2>14
  <1> QED
    BY <1>4, <1>5

InBlocks(t, b) == b \in 1..(CB(t) - 1)

\* PushBlock puts a block at the head of a list.
LEMMA PushBlockOk ==
    ASSUME NEW t, Shape(t), NEW l \in ListNames, NEW S \in SUBSET (1..(NB(t) - 1)),
           ListOk(t, l, S), NEW bi, InBlocks(t, bi), bi \notin S,
           NEW empty \in BOOLEAN, empty <=> S = {} /\ l # "full"
    PROVE  /\ Relinked(t, PushBlock(t, bi, l, empty), Circle(l, S \cup {bi}), l)
           /\ ListOk(PushBlock(t, bi, l, empty), l, S \cup {bi})
  <1> DEFINE u == PushBlock(t, bi, l, empty)
             D == 0..(CB(t) - 1)
             C == Circle(l, S)
             n == [b \in C |-> t.block[b].next]
             p == [b \in C |-> t.block[b].prev]
             n1 == [b \in C \cup {bi} |-> u.block[b].next]
             p1 == [b \in C \cup {bi} |-> u.block[b].prev]
             f == t.block
  <1>0. /\ t \in [node : [0..(t.capacity - 1) -> NodeType], ninfo : [0..(t.capacity - 1) -> NinfoType],
                  block : [D -> BlockType], head : [ListNames -> Nat],
                  capacity : Nat, size : Nat, reject : [0..B -> Int]]
        /\ NB(t) \in Nat /\ CB(t) \in Nat /\ 1 <= NB(t) /\ NB(t) <= CB(t)
    BY DEF Shape
  <1>1. S \subseteq D /\ 0 \notin S /\ 0 \in D /\ C \subseteq D /\ bi \notin C /\ bi \in D /\ bi \in Nat
        /\ bi # 0
    BY <1>0 DEF Circle, InBlocks
  <1>2. IsRing(C, n, p)
    BY DEF ListOk
  <1>3. Circle(l, S \cup {bi}) = C \cup {bi}
    BY DEF Circle
  <1>4. CASE empty
    <2> DEFINE f1 == WithPrev(f, bi, bi)
               f2 == u.block
    <2>1. u = [t EXCEPT !.head[l] = bi, !.block[bi].prev = bi, !.block[bi].next = bi]
      BY <1>4 DEF PushBlock
    <2>2. /\ f \in [D -> BlockType] /\ f2 = WithNext(f1, bi, bi)
          /\ u.head = [t.head EXCEPT ![l] = bi]
          /\ u.node = t.node /\ u.ninfo = t.ninfo /\ u.capacity = t.capacity /\ u.size = t.size
          /\ u.reject = t.reject
      BY <1>0, <2>1 DEF WithNext, WithPrev
    <2>3. /\ f1 \in [D -> BlockType]
          /\ \A b \in D :
               /\ f1[b].prev = IF b = bi THEN bi ELSE f[b].prev
               /\ f1[b].next = f[b].next
               /\ f1[b].num = f[b].num /\ f1[b].reject = f[b].reject
               /\ f1[b].trial = f[b].trial /\ f1[b].ehead = f[b].ehead
      <3> DEFINE e == bi
      <3>1. f1 = WithPrev(f, bi, e) /\ f \in [D -> BlockType]
        BY <2>2
      <3>2. bi \in D /\ e \in Nat
        BY <1>1
      <3> HIDE DEF f1, f, D, e
      <3>3. \A b \in D :
               /\ f1[b].prev = IF b = bi THEN e ELSE f[b].prev
               /\ f1[b].next = f[b].next
               /\ f1[b].num = f[b].num /\ f1[b].reject = f[b].reject
               /\ f1[b].trial = f[b].trial /\ f1[b].ehead = f[b].ehead
        BY <3>1, <3>2, SetPrev
      <3>4. f1 \in [D -> BlockType]
        BY <3>1, <3>2, SetPrev
      <3> QED
        BY <3>3, <3>4 DEF e
    <2>4. /\ f2 \in [D -> BlockType]
          /\ \A b \in D :
               /\ f2[b].next = IF b = bi THEN bi ELSE f1[b].next
               /\ f2[b].prev = f1[b].prev
               /\ f2[b].num = f1[b].num /\ f2[b].reject = f1[b].reject
               /\ f2[b].trial = f1[b].trial /\ f2[b].ehead = f1[b].ehead
      <3> DEFINE e == bi
      <3>1. f2 = WithNext(f1, bi, e) /\ f1 \in [D -> BlockType]
        BY <2>2, <2>3
      <3>2. bi \in D /\ e \in Nat
        BY <1>1
      <3> HIDE DEF f1, f2, D, e
      <3>3. \A b \in D :
               /\ f2[b].next = IF b = bi THEN e ELSE f1[b].next
               /\ f2[b].prev = f1[b].prev
               /\ f2[b].num = f1[b].num /\ f2[b].reject = f1[b].reject
               /\ f2[b].trial = f1[b].trial /\ f2[b].ehead = f1[b].ehead
        BY <3>1, <3>2, SetNext
      <3>4. f2 \in [D -> BlockType]
        BY <3>1, <3>2, SetNext
      <3> QED
        BY <3>3, <3>4 DEF e
    <2>5. u.head \in [ListNames -> Nat] /\ u.head[l] = bi /\ \A m \in ListNames \ {l} : u.head[m] = t.head[m]
      BY <1>0, <1>1, <2>2
    <2>6. ASSUME NEW b \in D
          PROVE  /\ u.block[b].next = IF b = bi THEN bi ELSE t.block[b].next
                 /\ u.block[b].prev = IF b = bi THEN bi ELSE t.block[b].prev
                 /\ u.block[b].num = t.block[b].num /\ u.block[b].reject = t.block[b].reject
                 /\ u.block[b].trial = t.block[b].trial /\ u.block[b].ehead = t.block[b].ehead
      <3> HIDE DEF f1
      <3> QED
        BY <2>3, <2>4
    <2>7. Shape(u)
      <3>1. u \in [node : [0..(t.capacity - 1) -> NodeType], ninfo : [0..(t.capacity - 1) -> NinfoType],
                  block : [D -> BlockType], head : [ListNames -> Nat],
                  capacity : Nat, size : Nat, reject : [0..B -> Int]]
        BY <1>0, <2>1, <2>4, <2>5
      <3> QED
        BY <2>2, <3>1 DEF Shape, NB, CB
    <2>8. Relinked(t, u, C \cup {bi}, l)
      BY <2>2, <2>5, <2>6, <2>7 DEF Relinked
    <2>9. S = {} /\ l # "full" /\ S \cup {bi} = {bi} /\ Circle(l, S \cup {bi}) = {bi} /\ C \cup {bi} = {bi}
      BY <1>4 DEF Circle
    <2>10. IsRing({bi}, n1, p1)
      <3>1. n1[bi] = bi /\ p1[bi] = bi
        BY <1>1, <2>6
      <3> HIDE DEF n1, p1
      <3> QED
        BY <3>1, SmallRings
    <2>11. ListOk(u, l, S \cup {bi})
      <3> HIDE DEF u, C
      <3> QED
        BY <2>5, <2>9, <2>10, <1>1 DEF ListOk
    <2> QED
      BY <2>8, <2>11, <1>3
  <1>5. CASE ~ empty
    <2> DEFINE h == t.head[l]
               a == t.block[h].prev
               f1 == WithPrev(f, bi, a)
               f2 == WithNext(f1, bi, h)
               f3 == WithNext(f2, a, bi)
               f4 == u.block
    <2>0. h \in C /\ h \in D /\ h \in Nat
      BY <1>0, <1>1, <1>5 DEF ListOk, Circle
    <2>1. a \in C /\ a \in D /\ a \in Nat /\ n[a] = h /\ p[h] = a
      <3>1. p[h] = a /\ p[h] \in C /\ n[p[h]] = h
        BY <1>2, <2>0 DEF IsRing
      <3> HIDE DEF a, n, p
      <3>2. a \in C /\ n[a] = h
        BY <3>1
      <3>3. a \in D /\ a \in Nat
        BY <3>2, <1>1
      <3> QED
        BY <3>1, <3>2, <3>3
    <2>2. u = [t EXCEPT !.block[bi].prev = a, !.block[bi].next = h,
                        !.block[a].next = bi, !.block[h].prev = bi, !.head[l] = bi]
      BY <1>5 DEF PushBlock
    <2>3. /\ f \in [D -> BlockType] /\ f4 = WithPrev(f3, h, bi)
          /\ u.head = [t.head EXCEPT ![l] = bi]
          /\ u.node = t.node /\ u.ninfo = t.ninfo /\ u.capacity = t.capacity /\ u.size = t.size
          /\ u.reject = t.reject
      BY <1>0, <2>2, ZenonT(60) DEF WithNext, WithPrev
    <2> HIDE DEF f, D
    <2>4. /\ f1 \in [D -> BlockType]
          /\ \A b \in D :
               /\ f1[b].prev = IF b = bi THEN a ELSE f[b].prev
               /\ f1[b].next = f[b].next
               /\ f1[b].num = f[b].num /\ f1[b].reject = f[b].reject
               /\ f1[b].trial = f[b].trial /\ f1[b].ehead = f[b].ehead
      <3>1. f1 = WithPrev(f, bi, a) /\ f \in [D -> BlockType]
        BY <2>3
      <3>2. bi \in D /\ a \in Nat
        BY <1>1, <2>1
      <3> HIDE DEF f1, a
      <3> QED
        BY <3>1, <3>2, SetPrev
    <2>5. /\ f2 \in [D -> BlockType]
          /\ \A b \in D :
               /\ f2[b].next = IF b = bi THEN h ELSE f1[b].next
               /\ f2[b].prev = f1[b].prev
               /\ f2[b].num = f1[b].num /\ f2[b].reject = f1[b].reject
               /\ f2[b].trial = f1[b].trial /\ f2[b].ehead = f1[b].ehead
      <3>1. f2 = WithNext(f1, bi, h) /\ f1 \in [D -> BlockType]
        BY <2>4
      <3>2. bi \in D /\ h \in Nat
        BY <1>1, <2>0
      <3> HIDE DEF f1, f2, h
      <3> QED
        BY <3>1, <3>2, SetNext
    <2>6. /\ f3 \in [D -> BlockType]
          /\ \A b \in D :
               /\ f3[b].next = IF b = a THEN bi ELSE f2[b].next
               /\ f3[b].prev = f2[b].prev
               /\ f3[b].num = f2[b].num /\ f3[b].reject = f2[b].reject
               /\ f3[b].trial = f2[b].trial /\ f3[b].ehead = f2[b].ehead
      <3>1. f3 = WithNext(f2, a, bi) /\ f2 \in [D -> BlockType]
        BY <2>5
      <3>2. a \in D /\ bi \in Nat
        BY <1>1, <2>1
      <3> HIDE DEF f2, f3, a
      <3> QED
        BY <3>1, <3>2, SetNext
    <2>7. /\ f4 \in [D -> BlockType]
          /\ \A b \in D :
               /\ f4[b].prev = IF b = h THEN bi ELSE f3[b].prev
               /\ f4[b].next = f3[b].next
               /\ f4[b].num = f3[b].num /\ f4[b].reject = f3[b].reject
               /\ f4[b].trial = f3[b].trial /\ f4[b].ehead = f3[b].ehead
      <3>1. f4 = WithPrev(f3, h, bi) /\ f3 \in [D -> BlockType]
        BY <2>3, <2>6
      <3>2. h \in D /\ bi \in Nat
        BY <1>1, <2>0
      <3> HIDE DEF f3, f4, h
      <3> QED
        BY <3>1, <3>2, SetPrev
    <2>8. ASSUME NEW b \in D
          PROVE  /\ u.block[b].next = IF b = a THEN bi ELSE IF b = bi THEN h ELSE t.block[b].next
                 /\ u.block[b].prev = IF b = h THEN bi ELSE IF b = bi THEN a ELSE t.block[b].prev
                 /\ u.block[b].num = t.block[b].num /\ u.block[b].reject = t.block[b].reject
                 /\ u.block[b].trial = t.block[b].trial /\ u.block[b].ehead = t.block[b].ehead
      <3>1. f[b] = t.block[b]
        BY DEF f
      <3> HIDE DEF f1, f2, f3, a, h
      <3> QED
        BY <2>4, <2>5, <2>6, <2>7, <3>1
    <2>9. u.head \in [ListNames -> Nat] /\ u.head[l] = bi /\ \A m \in ListNames \ {l} : u.head[m] = t.head[m]
      BY <1>0, <1>1, <2>3
    <2>10. Shape(u)
      <3>1. u \in [node : [0..(t.capacity - 1) -> NodeType], ninfo : [0..(t.capacity - 1) -> NinfoType],
                  block : [D -> BlockType], head : [ListNames -> Nat],
                  capacity : Nat, size : Nat, reject : [0..B -> Int]]
        BY <1>0, <2>2, <2>7, <2>9
      <3> QED
        BY <2>3, <3>1 DEF Shape, NB, CB, D
    <2>11. Relinked(t, u, C \cup {bi}, l)
      <3>1. ASSUME NEW b \in D, b \notin C \cup {bi}
            PROVE  u.block[b].next = t.block[b].next /\ u.block[b].prev = t.block[b].prev
        BY <3>1, <2>8, <2>0, <2>1
      <3> HIDE DEF u, C, a, h
      <3> QED
        BY <3>1, <2>3, <2>8, <2>9, <2>10 DEF Relinked, D
    <2>12. IsRing(C \cup {bi}, n1, p1)
      <3>1. n1[a] = bi /\ n1[bi] = n[a] /\ p1[bi] = a /\ p1[n[a]] = bi
        BY <2>0, <2>1, <2>8, <1>1
      <3>2. \A x \in C \ {a} : n1[x] = n[x]
        BY <2>8, <1>1
      <3>3. \A x \in C \ {n[a]} : p1[x] = p[x]
        BY <2>8, <1>1, <2>1
      <3>4. a \in C /\ bi \notin C
        BY <2>1, <1>1
      <3> HIDE DEF n, p, n1, p1, a, C
      <3> QED
        BY <3>1, <3>2, <3>3, <3>4, <1>2, RingInsert
    <2>13. l = "full" => u.head[l] = u.block[0].next
      <3> SUFFICES ASSUME l = "full" PROVE u.head[l] = u.block[0].next
        OBVIOUS
      <3>1. 0 \in C /\ h = n[0]
        BY DEF ListOk, Circle
      <3>2. p[n[0]] = 0
        BY <3>1, <1>2 DEF IsRing
      <3>3. a = 0
        BY <3>1, <3>2, <2>1
      <3> QED
        BY <3>3, <2>8, <2>9, <1>1
    <2>14. ListOk(u, l, S \cup {bi})
      <3> HIDE DEF u, C
      <3> QED
        BY <2>9, <2>12, <2>13, <1>3, <1>1 DEF ListOk
    <2> QED
      BY <2>11, <2>14, <1>3
  <1> QED
    BY <1>4, <1>5

\* The other lists stay.
LEMMA OtherList ==
    ASSUME NEW t, NEW u, NEW R, NEW l \in ListNames, Relinked(t, u, R, l),
           NEW m \in ListNames \ {l}, NEW S, ListOk(t, m, S), S \subseteq 1..(CB(t) - 1),
           CB(t) \in Nat, 1 <= CB(t),
           Circle(m, S) \cap R = {}
    PROVE  ListOk(u, m, S)
  <1>1. Circle(m, S) \subseteq 0..(CB(t) - 1) /\ 0 \notin S
    BY DEF Circle
  <1>2. u.head[m] = t.head[m]
    BY DEF Relinked
  <1>3. \A b \in Circle(m, S) : u.block[b].next = t.block[b].next /\ u.block[b].prev = t.block[b].prev
    BY <1>1 DEF Relinked
  <1>4. \A b \in Circle(m, S) \cup {0} : m = "full" \/ b # 0 =>
               u.block[b].next = t.block[b].next /\ u.block[b].prev = t.block[b].prev
    BY <1>3 DEF Circle
  <1> QED
    BY <1>1, <1>2, <1>4, ListSame

\* Every list is a ring of its blocks, and no block is on two lists.
Linked(t, on) ==
    /\ \A l \in ListNames : on[l] \subseteq 1..(NB(t) - 1) /\ ListOk(t, l, on[l])
    /\ \A l, m \in ListNames : l # m => on[l] \cap on[m] = {}

\* From t to u only links between blocks changed.
Kept(t, u) ==
    /\ Shape(u)
    /\ u.node = t.node /\ u.ninfo = t.ninfo
    /\ u.capacity = t.capacity /\ u.size = t.size /\ u.reject = t.reject
    /\ \A b \in 0..(CB(t) - 1) :
         /\ u.block[b].num = t.block[b].num /\ u.block[b].reject = t.block[b].reject
         /\ u.block[b].trial = t.block[b].trial /\ u.block[b].ehead = t.block[b].ehead

\* TransferBlock takes a block from one list to another.
LEMMA TransferOk ==
    ASSUME NEW t, Shape(t), NEW on, Linked(t, on),
           NEW in \in ListNames, NEW out \in ListNames, in # out, NEW bi, bi \in on[in],
           out = "full" <=> t.block[bi].num = 0
    PROVE  /\ Kept(t, TransferBlock(t, bi, in, out))
           /\ Linked(TransferBlock(t, bi, in, out),
                    [l \in ListNames |-> CASE l = in -> on[l] \ {bi} [] l = out -> on[l] \cup {bi}
                                           [] OTHER -> on[l]])
  <1> DEFINE p == PopBlock(t, bi, in)
             empty == p.head[out] = 0 /\ p.block[bi].num # 0
             u == PushBlock(p, bi, out, empty)
             on2 == [l \in ListNames |-> CASE l = in -> on[l] \ {bi} [] l = out -> on[l] \cup {bi}
                                           [] OTHER -> on[l]]
             S == on[in]
             U == on[out]
  <1>0. TransferBlock(t, bi, in, out) = u
    BY DEF TransferBlock
  <1>1. /\ CB(t) \in Nat /\ 1 <= CB(t) /\ NB(t) \in Nat /\ NB(t) <= CB(t)
        /\ S \in SUBSET (1..(NB(t) - 1)) /\ U \in SUBSET (1..(NB(t) - 1))
        /\ ListOk(t, in, S) /\ ListOk(t, out, U) /\ S \cap U = {}
    BY DEF Shape, Linked
  <1>2. bi \in 1..(NB(t) - 1) /\ bi \in S /\ bi \notin U
    BY <1>1
  <1>3. Relinked(t, p, Circle(in, S), in) /\ ListOk(p, in, S \ {bi})
    <2> HIDE DEF S
    <2> QED
      BY <1>1, <1>2, PopBlockOk
  <1>4. Shape(p) /\ NB(p) = NB(t) /\ CB(p) = CB(t)
    BY <1>3 DEF Relinked, NB, CB
  <1>5. ASSUME NEW m \in ListNames \ {in} PROVE ListOk(p, m, on[m])
    <2>1. ListOk(t, m, on[m]) /\ on[m] \subseteq 1..(NB(t) - 1) /\ on[m] \cap S = {}
      BY DEF Linked
    <2>2. on[m] \subseteq 1..(CB(t) - 1)
      BY <2>1, <1>1
    <2>3. Circle(m, on[m]) \cap Circle(in, S) = {}
      BY <2>1, <1>1 DEF Circle
    <2> DEFINE O == on[m]
               R == Circle(in, S)
    <2>4. ListOk(t, m, O) /\ O \subseteq 1..(CB(t) - 1) /\ Circle(m, O) \cap R = {}
          /\ Relinked(t, p, R, in)
      BY <2>1, <2>2, <2>3, <1>3
    <2> HIDE DEF O, R, p
    <2>5. ListOk(p, m, O)
      BY <2>4, <1>1, OtherList
    <2> QED
      BY <2>5 DEF O
  <1>6. /\ U \in SUBSET (1..(NB(p) - 1)) /\ ListOk(p, out, U)
        /\ InBlocks(p, bi) /\ bi \notin U
        /\ empty \in BOOLEAN /\ (empty <=> U = {} /\ out # "full")
    <2>1. ListOk(p, out, U)
      BY <1>5
    <2>2. InBlocks(p, bi)
      BY <1>1, <1>2, <1>4 DEF InBlocks
    <2>3. p.block[bi].num = t.block[bi].num
      BY <1>1, <1>2, <1>3 DEF Relinked
    <2>4. p.head[out] = 0 <=> U = {}
      BY <2>1 DEF ListOk
    <2> QED
      BY <2>1, <2>2, <2>3, <2>4, <1>1, <1>2, <1>4
  <1>7. Relinked(p, u, Circle(out, U \cup {bi}), out) /\ ListOk(u, out, U \cup {bi})
    <2> HIDE DEF U, p, empty
    <2> QED
      BY <1>4, <1>6, PushBlockOk
  <1>8. Kept(t, u)
    <2> HIDE DEF u, p
    <2> QED
      BY <1>3, <1>4, <1>7 DEF Kept, Relinked
  <1>9. Shape(u) /\ NB(u) = NB(t) /\ CB(u) = CB(t)
    BY <1>8 DEF Kept, NB, CB
  <1>10. ASSUME NEW m \in ListNames \ {out}, NEW V, ListOk(p, m, V), V \subseteq 1..(NB(t) - 1),
                V \cap U = {}, bi \notin V
         PROVE  ListOk(u, m, V)
    <2> DEFINE R == Circle(out, U \cup {bi})
    <2>1. V \subseteq 1..(CB(p) - 1)
      BY <1>1, <1>4, <1>10
    <2>2. Circle(m, V) \cap R = {}
      BY <1>1, <1>2, <1>10 DEF Circle
    <2>3. Relinked(p, u, R, out) /\ CB(p) \in Nat /\ 1 <= CB(p)
      BY <1>1, <1>4, <1>7
    <2> HIDE DEF R, p, u, U
    <2> QED
      BY <2>1, <2>2, <2>3, <1>10, OtherList
  <1>11. ListOk(u, in, S \ {bi})
    BY <1>1, <1>2, <1>3, <1>10
  <1>12. ASSUME NEW m \in ListNames \ {in, out} PROVE ListOk(u, m, on[m])
    <2>1. ListOk(p, m, on[m])
      BY <1>5
    <2>2. on[m] \subseteq 1..(NB(t) - 1) /\ on[m] \cap U = {} /\ on[m] \cap S = {}
      BY DEF Linked
    <2> QED
      BY <2>1, <2>2, <1>2, <1>10
  <1>13. on2[in] = S \ {bi} /\ on2[out] = U \cup {bi} /\ \A m \in ListNames \ {in, out} : on2[m] = on[m]
    OBVIOUS
  <1>14. \A l \in ListNames : on2[l] \subseteq 1..(NB(u) - 1) /\ ListOk(u, l, on2[l])
    <2> TAKE l \in ListNames
    <2>1. CASE l = in
      BY <2>1, <1>1, <1>9, <1>11, <1>13
    <2>2. CASE l = out
      BY <2>2, <1>1, <1>2, <1>7, <1>9, <1>13
    <2>3. CASE l \notin {in, out}
      BY <2>3, <1>9, <1>12, <1>13 DEF Linked
    <2> QED
      BY <2>1, <2>2, <2>3
  <1>15. ASSUME NEW l \in ListNames, NEW m \in ListNames, l # m PROVE on2[l] \cap on2[m] = {}
    <2>1. on[l] \cap on[m] = {} /\ (\A k \in ListNames \ {in} : bi \notin on[k])
      BY <1>15, <1>2 DEF Linked
    <2> QED
      BY <2>1, <1>15
  <1>16. Linked(u, on2)
    <2> HIDE DEF u, on2
    <2> QED
      BY <1>14, <1>15 DEF Linked
  <1> QED
    BY <1>0, <1>8, <1>16

-----------------------------------------------------------------------------
(* The invariant of the allocator *)

\* The free nodes of a block
FreeIn(t, b) == {i \in ((B * b)..(B * b + B - 1)) \ {0} : t.node[i].check < 0}

NodeRing(t, F) == IsRing(F, [x \in F |-> -t.node[x].check], [x \in F |-> -t.node[x].base])

RingOk(t, b) ==
    /\ t.block[b].num = Cardinality(FreeIn(t, b)) + (IF b = 0 THEN 1 ELSE 0)
    /\ FreeIn(t, b) # {} => t.block[b].ehead \in FreeIn(t, b)
    /\ NodeRing(t, FreeIn(t, b))

\* The list a block belongs on, and the blocks of every list
ListIn(t, b) == CASE t.block[b].num = 0 -> "full"
                  [] t.block[b].num = 1 \/ (t.block[b].num > 1 /\ t.block[b].trial = MaxTrial) -> "close"
                  [] OTHER -> "open"
OnList(t) == [l \in ListNames |-> {b \in 1..(NB(t) - 1) : ListIn(t, b) = l}]

\* The nodes a trie may use, free or not
Spare(t, i) == i >= t.size \/ (i # 0 /\ t.node[i].check < 0)

Alloc(t) ==
    /\ Shape(t)
    /\ \A b \in 0..(NB(t) - 1) : RingOk(t, b) /\ t.block[b].trial \in {0, 1}
    /\ Linked(t, OnList(t))
    /\ FreeIn(t, 0) # {}
    /\ \A i \in 0..(t.capacity - 1) : Spare(t, i) => t.ninfo[i] = NewNinfo
    /\ \A b \in NB(t)..(CB(t) - 1) : t.block[b].num = B /\ t.block[b].trial = 0

\* From t to u no link between blocks changed.
SameLinks(t, u) ==
    /\ Shape(u) /\ u.capacity = t.capacity /\ u.size = t.size /\ u.head = t.head
    /\ \A b \in 0..(CB(t) - 1) :
         u.block[b].next = t.block[b].next /\ u.block[b].prev = t.block[b].prev

\* Then the lists are the same.
LEMMA LinkedSame ==
    ASSUME NEW t, Shape(t), NEW u, SameLinks(t, u), NEW on, Linked(t, on)
    PROVE  Linked(u, on)
  <1>1. NB(u) = NB(t) /\ CB(u) = CB(t)
    BY DEF SameLinks, NB, CB
  <1>2. NB(t) \in Nat /\ CB(t) \in Nat /\ 1 <= NB(t) /\ NB(t) <= CB(t)
    BY DEF Shape
  <1>3. ASSUME NEW l \in ListNames PROVE ListOk(u, l, on[l])
    <2>1. on[l] \subseteq 1..(NB(t) - 1) /\ ListOk(t, l, on[l])
      BY DEF Linked
    <2>2. \A b \in Circle(l, on[l]) \cup {0} : b \in 0..(CB(t) - 1)
      BY <2>1, <1>2 DEF Circle
    <2>3. \A b \in Circle(l, on[l]) \cup {0} : l = "full" \/ b # 0 =>
               u.block[b].next = t.block[b].next /\ u.block[b].prev = t.block[b].prev
      BY <2>2 DEF SameLinks
    <2>4. 0 \notin on[l]
      BY <2>1
    <2>5. u.head[l] = t.head[l]
      BY DEF SameLinks
    <2> QED
      BY <2>1, <2>3, <2>4, <2>5, ListSame
  <1> QED
    BY <1>1, <1>3 DEF Linked

\* One block goes to another list,
LEMMA OnListMoved ==
    ASSUME NEW t, NEW w, NB(w) = NB(t), NEW bi, bi \in 1..(NB(t) - 1),
           NEW in \in ListNames, NEW out \in ListNames, in # out,
           ListIn(t, bi) = in, ListIn(w, bi) = out,
           \A b \in (1..(NB(t) - 1)) \ {bi} : ListIn(w, b) = ListIn(t, b)
    PROVE  /\ bi \in OnList(t)[in]
           /\ [l \in ListNames |-> CASE l = in -> OnList(t)[l] \ {bi} [] l = out -> OnList(t)[l] \cup {bi}
                                     [] OTHER -> OnList(t)[l]] = OnList(w)
  <1> DEFINE f == [l \in ListNames |-> CASE l = in -> OnList(t)[l] \ {bi} [] l = out -> OnList(t)[l] \cup {bi}
                                     [] OTHER -> OnList(t)[l]]
  <1>1. ASSUME NEW l \in ListNames PROVE f[l] = OnList(w)[l]
    <2>1. OnList(t)[l] = {b \in 1..(NB(t) - 1) : ListIn(t, b) = l}
          /\ OnList(w)[l] = {b \in 1..(NB(t) - 1) : ListIn(w, b) = l}
      BY DEF OnList
    <2>2. CASE l = in
      BY <2>1, <2>2
    <2>3. CASE l = out
      BY <2>1, <2>3
    <2>4. CASE l # in /\ l # out
      <3>1. f[l] = OnList(t)[l]
        BY <2>4
      <3>2. \A b \in 1..(NB(t) - 1) : ListIn(t, b) = l <=> ListIn(w, b) = l
        BY <2>4
      <3> QED
        BY <3>1, <3>2, <2>1
    <2> QED
      BY <2>2, <2>3, <2>4
  <1>2. f = OnList(w)
    <2>1. DOMAIN f = ListNames /\ OnList(w) = [l \in ListNames |-> OnList(w)[l]]
      BY DEF OnList
    <2> QED
      BY <1>1, <2>1
  <1>3. bi \in OnList(t)[in]
    BY DEF OnList
  <1> QED
    BY <1>2, <1>3

\* or none does.
LEMMA OnListSame ==
    ASSUME NEW t, NEW w, NB(w) = NB(t),
           \A b \in 1..(NB(t) - 1) : ListIn(w, b) = ListIn(t, b)
    PROVE  OnList(w) = OnList(t)
  <1>1. \A l \in ListNames : {b \in 1..(NB(t) - 1) : ListIn(w, b) = l} = {b \in 1..(NB(t) - 1) : ListIn(t, b) = l}
    OBVIOUS
  <1> QED
    BY <1>1 DEF OnList

\* The nodes of a block, and its number
LEMMA FreeInBlock ==
    ASSUME NEW t, Shape(t), NEW b, b \in 0..(NB(t) - 1)
    PROVE  /\ FreeIn(t, b) = {i \in 0..(t.size - 1) : i # 0 /\ i \div B = b /\ t.node[i].check < 0}
           /\ IsFiniteSet(FreeIn(t, b)) /\ Cardinality(FreeIn(t, b)) \in Nat
           /\ Cardinality(FreeIn(t, b)) + (IF b = 0 THEN 1 ELSE 0) <= B
  <1>0. B \in Nat /\ B > 0 /\ b \in Nat /\ B * b \in Nat
    BY LabelAssumption
  <1> DEFINE lo == B * b
             hi == lo + B - 1
  <1>1. t.size \in Nat /\ t.size = B * NB(t) /\ NB(t) \in Nat
    BY DEF Shape
  <1>2. \A i \in Nat : (i \div B = b <=> i \in lo..hi) /\ (i < B * NB(t) <=> i \div B < NB(t))
    BY <1>0, <1>1, BlockInterval
  <1>3. lo..hi \subseteq Nat
    BY <1>0
  <1>4. ASSUME NEW i \in Nat PROVE i \in lo..hi <=> i \in 0..(t.size - 1) /\ i \div B = b
    <2>1. i \div B = b => i < t.size
      BY <1>1, <1>2
    <2> HIDE DEF lo, hi
    <2> QED
      BY <1>1, <1>2, <2>1
  <1>5. FreeIn(t, b) = {i \in 0..(t.size - 1) : i # 0 /\ i \div B = b /\ t.node[i].check < 0}
    <2>1. FreeIn(t, b) = {i \in (lo..hi) \ {0} : t.node[i].check < 0}
      BY DEF FreeIn
    <2>2. 0..(t.size - 1) \subseteq Nat
      OBVIOUS
    <2> HIDE DEF lo, hi
    <2> QED
      BY <1>3, <1>4, <2>1, <2>2
  <1>6. IsFiniteSet(lo..hi) /\ Cardinality(lo..hi) = B
    <2>1. IsFiniteSet(lo..hi) /\ Cardinality(lo..hi) = IF lo > hi THEN 0 ELSE hi - lo + 1
      BY <1>0, FS_Interval
    <2> QED
      BY <1>0, <2>1
  <1>7. IsFiniteSet((lo..hi) \ {0}) /\ Cardinality((lo..hi) \ {0}) = IF 0 \in lo..hi THEN B - 1 ELSE B
    BY <1>6, FS_RemoveElement
  <1>8. FreeIn(t, b) \subseteq (lo..hi) \ {0}
    BY DEF FreeIn
  <1>9. IsFiniteSet(FreeIn(t, b)) /\ Cardinality(FreeIn(t, b)) <= Cardinality((lo..hi) \ {0})
    BY <1>7, <1>8, FS_Subset
  <1>10. Cardinality(FreeIn(t, b)) \in Nat
    BY <1>9, FS_CardinalityType
  <1>11. b = 0 => 0 \in lo..hi
    BY <1>0
  <1> DEFINE c == Cardinality(FreeIn(t, b))
  <1>12. c + (IF b = 0 THEN 1 ELSE 0) <= B
    <2> HIDE DEF c, lo, hi
    <2>1. c <= Cardinality((lo..hi) \ {0})
      BY <1>9 DEF c
    <2> QED
      BY <2>1, <1>7, <1>10, <1>11, <1>0 DEF c
  <1> QED
    BY <1>5, <1>9, <1>10, <1>12

-----------------------------------------------------------------------------
(* Taking and freeing nodes *)

WithAt(f, a, r) == [f EXCEPT ![a] = r]

\* One place of an array is set.
LEMMA SetAt ==
    ASSUME NEW D, NEW T, NEW f, f \in [D -> T], NEW a, a \in D, NEW r, r \in T,
           NEW g, g = WithAt(f, a, r)
    PROVE  g \in [D -> T] /\ g[a] = r /\ \A b \in D : b # a => g[b] = f[b]
  <1>1. g = [f EXCEPT ![a] = r]
    BY DEF WithAt
  <1> QED
    BY <1>1

\* g is f but for r at a.
Differs(D, T, f, a, r, g) == g \in [D -> T] /\ g[a] = r /\ \A b \in D : b # a => g[b] = f[b]

\* The same, in one word.
LEMMA SetOne ==
    ASSUME NEW D, NEW T, NEW f, f \in [D -> T], NEW a, a \in D, NEW r, r \in T
    PROVE  Differs(D, T, f, a, r, WithAt(f, a, r))
  <1> DEFINE g == WithAt(f, a, r)
  <1>1. g = [f EXCEPT ![a] = r]
    BY DEF WithAt
  <1> HIDE DEF g
  <1>2. g \in [D -> T] /\ g[a] = r /\ \A b \in D : b # a => g[b] = f[b]
    BY <1>1
  <1> QED
    BY <1>2 DEF Differs, g

\* The free nodes are nodes of the array, and not the root.
LEMMA FreeInNodes ==
    ASSUME NEW t, Shape(t), NEW b, b \in 0..(NB(t) - 1), NEW e, e \in FreeIn(t, b)
    PROVE  /\ e \in Nat /\ e > 0 /\ e \in 0..(t.size - 1) /\ e \in 0..(t.capacity - 1) /\ e \div B = b
           /\ t.node[e].check < 0 /\ t.size <= t.capacity
  <1>1. e \in 0..(t.size - 1) /\ e # 0 /\ e \div B = b /\ t.node[e].check < 0
    BY FreeInBlock
  <1>2. t.size = B * NB(t) /\ t.capacity = B * CB(t) /\ NB(t) <= CB(t) /\ NB(t) \in Nat /\ CB(t) \in Nat
        /\ t.size \in Nat /\ t.capacity \in Nat
    BY DEF Shape
  <1>3. t.size <= t.capacity
    <2>1. B \in Nat /\ B > 0
      BY LabelAssumption
    <2>2. PICK d \in Nat : CB(t) = NB(t) + d
      <3>1. CB(t) - NB(t) \in Nat /\ CB(t) = NB(t) + (CB(t) - NB(t))
        BY <1>2
      <3> QED
        BY <3>1
    <2> DEFINE m == NB(t)
    <2>3. B * (m + d) = B * m + B * d /\ B * d \in Nat /\ B * m \in Nat
      <3>1. m \in Nat
        BY <1>2
      <3> HIDE DEF m
      <3> QED
        BY <3>1, <2>1
    <2>4. t.capacity = t.size + B * d
      BY <2>2, <2>3, <1>2
    <2> DEFINE y == B * d
    <2>5. t.capacity = t.size + y /\ y \in Nat
      BY <2>3, <2>4
    <2> HIDE DEF y
    <2> QED
      BY <2>5, <1>2
  <1> QED
    BY <1>1, <1>2, <1>3

\* From t to u node e left the ring F of block bi.
Off(t, u, bi, F, e) ==
    /\ SameLinks(t, u)
    /\ u.ninfo = t.ninfo /\ u.reject = t.reject
    /\ \A b \in 0..(CB(t) - 1) :
         /\ u.block[b].num = t.block[b].num
         /\ u.block[b].trial = t.block[b].trial
         /\ u.block[b].reject = t.block[b].reject
         /\ b # bi => u.block[b].ehead = t.block[b].ehead
    /\ u.block[bi].ehead \in F \ {e}
    /\ \A i \in 0..(t.capacity - 1) :
         (i \notin F => u.node[i] = t.node[i]) /\ (i \in F => u.node[i].check < 0)
    /\ NodeRing(u, F \ {e})

\* Unlink takes a node out of the ring of its block.
LEMMA UnlinkOk ==
    ASSUME NEW t, Shape(t), NEW bi, bi \in 0..(NB(t) - 1), NEW F, F = FreeIn(t, bi),
           NodeRing(t, F), t.block[bi].ehead \in F, NEW e, e \in F, F # {e}
    PROVE  Off(t, Unlink(t, e), bi, F, e)
  <1> DEFINE D == 0..(CB(t) - 1)
             N == 0..(t.capacity - 1)
             u == Unlink(t, e)
             f == t.node
             p == -t.node[e].base
             q == -t.node[e].check
             next == [x \in F |-> -t.node[x].check]
             prev == [x \in F |-> -t.node[x].base]
             r1 == [f[p] EXCEPT !.check = f[e].check]
             f1 == WithAt(f, p, r1)
             r2 == [f1[q] EXCEPT !.base = f[e].base]
             f2 == WithAt(f1, q, r2)
             eh == IF e = t.block[bi].ehead THEN q ELSE t.block[bi].ehead
             rb == [t.block[bi] EXCEPT !.ehead = eh]
  <1>0. /\ t \in [node : [N -> NodeType], ninfo : [N -> NinfoType],
                  block : [D -> BlockType], head : [ListNames -> Nat],
                  capacity : Nat, size : Nat, reject : [0..B -> Int]]
        /\ NB(t) \in Nat /\ CB(t) \in Nat /\ 1 <= NB(t) /\ NB(t) <= CB(t)
    BY DEF Shape
  <1>1. \A x \in F : x \in Nat /\ x > 0 /\ x \in N /\ x \div B = bi /\ f[x].check < 0
    BY FreeInNodes
  <1>2. /\ f \in [N -> NodeType] /\ \A x \in N : f[x].base \in Int /\ f[x].check \in Int
    BY <1>0 DEF NodeType
  <1>3. IsRing(F, next, prev)
    BY DEF NodeRing
  <1>4. p \in F /\ q \in F /\ p # e /\ q # e /\ next[p] = e /\ prev[q] = e /\ prev[e] = p /\ next[e] = q
    <2>1. next[e] = q /\ prev[e] = p
      OBVIOUS
    <2>2. next[e] \in F /\ prev[e] \in F /\ prev[next[e]] = e /\ next[prev[e]] = e
      BY <1>3 DEF IsRing
    <2>3. next[e] # e /\ prev[e] # e
      BY <1>3, RingOne
    <2> HIDE DEF next, prev, p, q
    <2> QED
      BY <2>1, <2>2, <2>3
  <1>5. /\ u.node = f2
        /\ u.block = WithAt(t.block, bi, rb)
        /\ u.ninfo = t.ninfo /\ u.head = t.head /\ u.capacity = t.capacity /\ u.size = t.size
        /\ u.reject = t.reject
        /\ u = [t EXCEPT !.node = f2, !.block = WithAt(t.block, bi, rb)]
    <2>1. e \div B = bi
      BY <1>1
    <2> HIDE DEF eh
    <2>2. u = [t EXCEPT !.node[p].check = f[e].check, !.node[q].base = f[e].base, !.block[bi].ehead = eh]
      BY <2>1 DEF Unlink, eh
    <2>3. u = [t EXCEPT !.node = f2, !.block = WithAt(t.block, bi, rb)]
      BY <2>2 DEF WithAt
    <2> QED
      BY <1>0, <2>3
  <1>6. r1 \in NodeType /\ r1.check = f[e].check /\ r1.base = f[p].base /\ p \in N /\ q \in N /\ e \in N
    <2>1. f[p] \in NodeType /\ p \in N /\ q \in N /\ e \in N
      BY <1>1, <1>2, <1>4
    <2> QED
      BY <2>1, <1>2 DEF NodeType
  <1>7. f1 \in [N -> NodeType] /\ f1[p] = r1 /\ \A b \in N : b # p => f1[b] = f[b]
    <2>1. f1 = WithAt(f, p, r1) /\ f \in [N -> NodeType] /\ r1 \in NodeType /\ p \in N
      BY <1>2, <1>6
    <2> HIDE DEF r1, f, p, N, f1
    <2> QED
      BY <2>1, SetAt
  <1>8. r2 \in NodeType /\ r2.base = f[e].base /\ r2.check = f1[q].check
    <2>1. f1[q] \in NodeType
      BY <1>6, <1>7
    <2> QED
      BY <2>1, <1>2, <1>6 DEF NodeType
  <1>9. f2 \in [N -> NodeType] /\ f2[q] = r2 /\ \A b \in N : b # q => f2[b] = f1[b]
    <2>1. f2 = WithAt(f1, q, r2) /\ f1 \in [N -> NodeType] /\ r2 \in NodeType /\ q \in N
      BY <1>6, <1>7, <1>8
    <2> HIDE DEF r2, f1, q, N, f2
    <2> QED
      BY <2>1, SetAt, SMTT(60)
  <1>10. ASSUME NEW x \in N
         PROVE  /\ u.node[x].check = IF x = p THEN f[e].check ELSE f[x].check
                /\ u.node[x].base = IF x = q THEN f[e].base ELSE f[x].base
                /\ x # p /\ x # q => u.node[x] = f[x]
    <2> HIDE DEF r1, r2, f1, f2, p, q, f, u
    <2> QED
      BY <1>5, <1>6, <1>7, <1>8, <1>9
  <1>11. eh \in F \ {e}
    BY <1>4
  <1>12. bi \in D
    BY <1>0
  <1>13. /\ t.block \in [D -> BlockType] /\ rb \in BlockType
         /\ rb.next = t.block[bi].next /\ rb.prev = t.block[bi].prev /\ rb.num = t.block[bi].num
         /\ rb.trial = t.block[bi].trial /\ rb.reject = t.block[bi].reject /\ rb.ehead = eh
    <2>1. t.block \in [D -> BlockType] /\ t.block[bi] \in BlockType
      BY <1>0, <1>12
    <2>2. eh \in Nat
      BY <1>1, <1>11
    <2> HIDE DEF eh
    <2> QED
      BY <2>1, <2>2 DEF BlockType
  <1>14. u.block \in [D -> BlockType] /\ u.block[bi] = rb /\ \A b \in D : b # bi => u.block[b] = t.block[b]
    <2> DEFINE g == t.block
               h == u.block
               j == bi
    <2>1. h = WithAt(g, j, rb) /\ g \in [D -> BlockType] /\ rb \in BlockType /\ j \in D
      BY <1>5, <1>12, <1>13
    <2> HIDE DEF g, h, rb, D, j
    <2>a. h = WithAt(g, j, rb)
      BY <2>1
    <2>b. g \in [D -> BlockType]
      BY <2>1
    <2>c. rb \in BlockType
      BY <2>1
    <2>d. j \in D
      BY <2>1
    <2>1a. Differs(D, BlockType, g, j, rb, h)
      BY <2>a, <2>b, <2>c, <2>d, SetOne
    <2>2. h \in [D -> BlockType] /\ h[j] = rb /\ \A b \in D : b # j => h[b] = g[b]
      BY <2>1a DEF Differs
    <2> QED
      BY <2>2 DEF g, h, j
  <1>15. Shape(u)
    <2> HIDE DEF f2, rb
    <2>1. u \in [node : [N -> NodeType], ninfo : [N -> NinfoType],
                  block : [D -> BlockType], head : [ListNames -> Nat],
                  capacity : Nat, size : Nat, reject : [0..B -> Int]]
      BY <1>0, <1>5, <1>9, <1>14
    <2> QED
      BY <2>1, <1>5 DEF Shape, NB, CB
  <1>16. SameLinks(t, u)
    <2> HIDE DEF rb, u
    <2> QED
      BY <1>5, <1>13, <1>14, <1>15 DEF SameLinks
  <1>17. \A b \in D :
                /\ u.block[b].num = t.block[b].num
                /\ u.block[b].trial = t.block[b].trial
                /\ u.block[b].reject = t.block[b].reject
                /\ b # bi => u.block[b].ehead = t.block[b].ehead
    <2> HIDE DEF rb, u
    <2> QED
      BY <1>13, <1>14
  <1>18. u.block[bi].ehead \in F \ {e}
    <2> HIDE DEF rb, u, eh
    <2> QED
      BY <1>11, <1>13, <1>14
  <1>19. \A i \in N : (i \notin F => u.node[i] = t.node[i]) /\ (i \in F => u.node[i].check < 0)
    <2> HIDE DEF u, p, q
    <2> QED
      BY <1>1, <1>4, <1>10
  <1>20. NodeRing(u, F \ {e})
    <2> DEFINE n1 == [x \in F \ {e} |-> -u.node[x].check]
               p1 == [x \in F \ {e} |-> -u.node[x].base]
    <2>1. n1[p] = q /\ p1[q] = p
      <3>1. p \in F \ {e} /\ q \in F \ {e} /\ p \in N /\ q \in N
        BY <1>4, <1>6
      <3>2. u.node[p].check = f[e].check /\ u.node[q].base = f[e].base
        BY <3>1, <1>10
      <3> HIDE DEF u
      <3> QED
        BY <3>1, <3>2
    <2>2. \A x \in F \ {e, p} : n1[x] = next[x]
      <3> HIDE DEF u, p, q
      <3> QED
        BY <1>1, <1>10
    <2>3. \A x \in F \ {e, q} : p1[x] = prev[x]
      <3> HIDE DEF u, p, q
      <3> QED
        BY <1>1, <1>10
    <2>4. IsRing(F \ {e}, n1, p1)
      <3> HIDE DEF n1, p1, next, prev, p, q
      <3> QED
        BY <1>3, <1>4, <2>1, <2>2, <2>3, RingRemove
    <2> QED
      BY <2>4 DEF NodeRing
  <1> QED
    BY <1>5, <1>16, <1>17, <1>18, <1>19, <1>20 DEF Off

\* The free nodes of the trie
Free(t) == {i \in 0..(t.size - 1) : i # 0 /\ t.node[i].check < 0}

\* They are those of its blocks.
LEMMA FreeOf ==
    ASSUME NEW t, Shape(t), NEW e, e \in Free(t)
    PROVE  e \div B \in 0..(NB(t) - 1) /\ e \in FreeIn(t, e \div B) /\ e \in Nat
           /\ t.size <= t.capacity
  <1>1. e \in Nat /\ e < t.size /\ t.size = B * NB(t) /\ NB(t) \in Nat
    BY DEF Free, Shape
  <1>2. e \div B \in Nat /\ e \div B < NB(t)
    BY <1>1, Division, BlockInterval
  <1>3. e \div B \in 0..(NB(t) - 1)
    BY <1>1, <1>2
  <1>4. e \in FreeIn(t, e \div B)
    BY <1>3, FreeInBlock DEF Free
  <1> QED
    BY <1>1, <1>3, <1>4, FreeInNodes

\* A change of one block keeps the invariant if that block is right.
LEMMA AllocStep ==
    ASSUME NEW t, Alloc(t), NEW w, Shape(w), w.capacity = t.capacity, w.size = t.size,
           NEW bi, bi \in 0..(NB(t) - 1),
           \A i \in 0..(t.capacity - 1) : i \div B # bi => w.node[i] = t.node[i],
           \A b \in 0..(CB(t) - 1) : b # bi =>
               /\ w.block[b].num = t.block[b].num /\ w.block[b].trial = t.block[b].trial
               /\ w.block[b].ehead = t.block[b].ehead,
           RingOk(w, bi), w.block[bi].trial \in {0, 1},
           Linked(w, OnList(w)), FreeIn(w, 0) # {},
           \A i \in 0..(t.capacity - 1) : Spare(w, i) => w.ninfo[i] = NewNinfo
    PROVE  Alloc(w)
  <1>1. NB(w) = NB(t) /\ CB(w) = CB(t)
    BY DEF NB, CB
  <1>2. Shape(t) /\ NB(t) \in Nat /\ CB(t) \in Nat /\ NB(t) <= CB(t) /\ 1 <= NB(t)
    BY DEF Alloc, Shape
  <1>3. ASSUME NEW b \in 0..(NB(t) - 1), b # bi PROVE RingOk(w, b) /\ w.block[b].trial \in {0, 1}
    <2>0. b \in 0..(CB(t) - 1)
      BY <1>2
    <2>1. RingOk(t, b) /\ t.block[b].trial \in {0, 1}
      BY DEF Alloc
    <2>2. /\ FreeIn(t, b) = {i \in 0..(t.size - 1) : i # 0 /\ i \div B = b /\ t.node[i].check < 0}
          /\ FreeIn(w, b) = {i \in 0..(t.size - 1) : i # 0 /\ i \div B = b /\ w.node[i].check < 0}
      BY <1>1, <1>2, FreeInBlock
    <2>3. 0..(t.size - 1) \subseteq 0..(t.capacity - 1)
      <3>1. FreeIn(t, 0) # {} /\ 0 \in 0..(NB(t) - 1)
        BY <1>2 DEF Alloc
      <3>2. PICK e : e \in FreeIn(t, 0)
        BY <3>1
      <3>3. t.size <= t.capacity /\ t.size \in Nat /\ t.capacity \in Nat
        BY <1>2, <3>1, <3>2, FreeInNodes DEF Shape
      <3> QED
        BY <3>3
    <2>4. \A i \in 0..(t.size - 1) : i \div B = b => w.node[i] = t.node[i]
      BY <1>3, <2>3
    <2>5. FreeIn(w, b) = FreeIn(t, b)
      BY <2>2, <2>4
    <2> DEFINE F == FreeIn(t, b)
    <2>6. \A x \in F : w.node[x] = t.node[x]
      BY <2>2, <2>4
    <2>7. NodeRing(w, F)
      <3> DEFINE n == [x \in F |-> -t.node[x].check]
                 p == [x \in F |-> -t.node[x].base]
                 n1 == [x \in F |-> -w.node[x].check]
                 p1 == [x \in F |-> -w.node[x].base]
      <3>1. IsRing(F, n, p)
        BY <2>1 DEF RingOk, NodeRing
      <3>2. \A x \in F : n1[x] = n[x] /\ p1[x] = p[x]
        BY <2>6
      <3> HIDE DEF n, p, n1, p1, F
      <3>3. IsRing(F, n1, p1)
        BY <3>1, <3>2, RingSame
      <3> QED
        BY <3>3 DEF n1, p1, NodeRing
    <2>8. RingOk(w, b)
      BY <2>0, <2>1, <2>5, <2>7, <1>3 DEF RingOk
    <2> QED
      BY <2>0, <2>1, <2>8, <1>3
  <1>4. \A b \in 0..(NB(w) - 1) : RingOk(w, b) /\ w.block[b].trial \in {0, 1}
    BY <1>1, <1>3
  <1>5. \A b \in NB(w)..(CB(w) - 1) : w.block[b].num = B /\ w.block[b].trial = 0
    <2> TAKE b \in NB(w)..(CB(w) - 1)
    <2>1. b \in NB(t)..(CB(t) - 1) /\ b \in 0..(CB(t) - 1) /\ b # bi
      BY <1>1, <1>2
    <2> QED
      BY <2>1 DEF Alloc
  <1> QED
    BY <1>4, <1>5 DEF Alloc

\* From t to w node e was taken for a child of from.
Taken(t, w, e, label, from) ==
    /\ w.size = t.size /\ w.capacity = t.capacity /\ w.ninfo = t.ninfo
    /\ w.node[e] = FreshNode(label, from)
    /\ Free(w) = Free(t) \ {e}
    /\ \A i \in 0..(t.capacity - 1) : i \notin Free(t) => w.node[i] = t.node[i]

WithNum(t, bi, n) == [t EXCEPT !.block[bi].num = n]

\* Only the number of free nodes of a block is set.
LEMMA WithNumOk ==
    ASSUME NEW t, Shape(t), NEW bi, bi \in 0..(NB(t) - 1), NEW n, n \in Nat
    PROVE  /\ SameLinks(t, WithNum(t, bi, n))
           /\ WithNum(t, bi, n).node = t.node /\ WithNum(t, bi, n).ninfo = t.ninfo
           /\ WithNum(t, bi, n).reject = t.reject
           /\ WithNum(t, bi, n).block[bi].num = n
           /\ \A b \in 0..(CB(t) - 1) :
                /\ WithNum(t, bi, n).block[b].trial = t.block[b].trial
                /\ WithNum(t, bi, n).block[b].reject = t.block[b].reject
                /\ WithNum(t, bi, n).block[b].ehead = t.block[b].ehead
                /\ b # bi => WithNum(t, bi, n).block[b].num = t.block[b].num
  <1> DEFINE D == 0..(CB(t) - 1)
             N == 0..(t.capacity - 1)
             u == WithNum(t, bi, n)
             rb == [t.block[bi] EXCEPT !.num = n]
             g == t.block
             h == u.block
             j == bi
  <1>0. /\ t \in [node : [N -> NodeType], ninfo : [N -> NinfoType],
                  block : [D -> BlockType], head : [ListNames -> Nat],
                  capacity : Nat, size : Nat, reject : [0..B -> Int]]
        /\ NB(t) \in Nat /\ CB(t) \in Nat /\ 1 <= NB(t) /\ NB(t) <= CB(t)
    BY DEF Shape
  <1>1. bi \in D
    BY <1>0
  <1>2. /\ rb \in BlockType /\ rb.next = t.block[bi].next /\ rb.prev = t.block[bi].prev /\ rb.num = n
        /\ rb.trial = t.block[bi].trial /\ rb.reject = t.block[bi].reject /\ rb.ehead = t.block[bi].ehead
    <2>1. t.block[bi] \in BlockType
      BY <1>0, <1>1
    <2> QED
      BY <2>1 DEF BlockType
  <1>3. /\ u = [t EXCEPT !.block = WithAt(t.block, bi, rb)]
        /\ h = WithAt(g, bi, rb)
        /\ u.node = t.node /\ u.ninfo = t.ninfo /\ u.head = t.head /\ u.capacity = t.capacity
        /\ u.size = t.size /\ u.reject = t.reject
    <2>1. u = [t EXCEPT !.block = WithAt(t.block, bi, rb)]
      BY DEF WithAt, WithNum
    <2> QED
      BY <1>0, <2>1
  <1>4. Differs(D, BlockType, g, j, rb, h)
    <2>a. h = WithAt(g, j, rb)
      BY <1>3
    <2>b. g \in [D -> BlockType]
      BY <1>0
    <2>c. rb \in BlockType
      BY <1>2
    <2>d. j \in D
      BY <1>1
    <2> HIDE DEF g, h, rb, D, j
    <2> QED
      BY <2>a, <2>b, <2>c, <2>d, SetOne
  <1>5. h \in [D -> BlockType] /\ h[bi] = rb /\ \A b \in D : b # bi => h[b] = t.block[b]
    BY <1>4 DEF Differs
  <1>6. Shape(u)
    <2> HIDE DEF rb
    <2>1. u \in [node : [N -> NodeType], ninfo : [N -> NinfoType],
                  block : [D -> BlockType], head : [ListNames -> Nat],
                  capacity : Nat, size : Nat, reject : [0..B -> Int]]
      BY <1>0, <1>3, <1>5
    <2> QED
      BY <2>1, <1>3 DEF Shape, NB, CB
  <1>7. \A b \in D : /\ h[b].next = t.block[b].next /\ h[b].prev = t.block[b].prev
                     /\ h[b].trial = t.block[b].trial /\ h[b].reject = t.block[b].reject
                     /\ h[b].ehead = t.block[b].ehead
                     /\ b # bi => h[b].num = t.block[b].num
    <2> HIDE DEF rb, h, D
    <2> QED
      BY <1>2, <1>5
  <1>8. h[bi].num = n
    <2> HIDE DEF rb, h, D
    <2> QED
      BY <1>2, <1>5
  <1>9. SameLinks(t, u)
    <2> HIDE DEF rb, u
    <2> QED
      BY <1>3, <1>6, <1>7 DEF SameLinks
  <1> QED
    BY <1>3, <1>7, <1>8, <1>9

NodeSet(t, w, e, r) ==
    /\ SameLinks(t, w)
    /\ w.block = t.block /\ w.ninfo = t.ninfo /\ w.reject = t.reject
    /\ w.node[e] = r /\ \A i \in 0..(t.capacity - 1) : i # e => w.node[i] = t.node[i]

\* Only a node is set.
LEMMA WithNodeOk ==
    ASSUME NEW t, Shape(t), NEW e, e \in 0..(t.capacity - 1), NEW r, r \in NodeType,
           NEW w, w = [t EXCEPT !.node[e] = r]
    PROVE  NodeSet(t, w, e, r)
  <1>a. /\ SameLinks(t, w)
           /\ w.block = t.block /\ w.ninfo = t.ninfo /\ w.reject = t.reject
           /\ w.node[e] = r /\ \A i \in 0..(t.capacity - 1) : i # e => w.node[i] = t.node[i]
   <2> DEFINE D == 0..(CB(t) - 1)
             N == 0..(t.capacity - 1)
             g == t.node
             h == w.node
             j == e
   <2>0. /\ t \in [node : [N -> NodeType], ninfo : [N -> NinfoType],
                  block : [D -> BlockType], head : [ListNames -> Nat],
                  capacity : Nat, size : Nat, reject : [0..B -> Int]]
    BY DEF Shape
   <2>1. /\ w = [t EXCEPT !.node = WithAt(g, e, r)]
        /\ h = WithAt(g, e, r)
        /\ w.block = t.block /\ w.ninfo = t.ninfo /\ w.head = t.head /\ w.capacity = t.capacity
        /\ w.size = t.size /\ w.reject = t.reject
    <3>1. w = [t EXCEPT !.node = WithAt(g, e, r)]
      BY DEF WithAt
    <3> QED
      BY <2>0, <3>1
   <2>2. Differs(N, NodeType, g, j, r, h)
    <3>a. h = WithAt(g, j, r)
      BY <2>1
    <3>b. g \in [N -> NodeType]
      BY <2>0
    <3>d. j \in N
      OBVIOUS
    <3> HIDE DEF g, h, N, j
    <3> QED
      BY <3>a, <3>b, <3>d, SetOne
   <2>3. h \in [N -> NodeType] /\ h[e] = r /\ \A b \in N : b # e => h[b] = t.node[b]
    BY <2>2 DEF Differs
   <2>4. Shape(w)
    <3>1. w \in [node : [N -> NodeType], ninfo : [N -> NinfoType],
                  block : [D -> BlockType], head : [ListNames -> Nat],
                  capacity : Nat, size : Nat, reject : [0..B -> Int]]
      BY <2>0, <2>1, <2>3
    <3> QED
      BY <3>1, <2>1 DEF Shape, NB, CB
   <2>5. SameLinks(t, w)
    BY <2>1, <2>4 DEF SameLinks
   <2> QED
    BY <2>1, <2>3, <2>5
  <1> QED
    BY <1>a DEF NodeSet

\* From t to v node e left the ring of its block, and the block counts one less.
Unlinked(t, v, bi, e) ==
    /\ Shape(v) /\ v.size = t.size /\ v.capacity = t.capacity
    /\ v.ninfo = t.ninfo /\ v.reject = t.reject
    /\ \A i \in 0..(t.capacity - 1) :
         /\ i \notin FreeIn(t, bi) => v.node[i] = t.node[i]
         /\ i \in FreeIn(t, bi) => v.node[i].check < 0
    /\ \A b \in 0..(CB(t) - 1) :
         /\ v.block[b].trial = t.block[b].trial
         /\ v.block[b].num = IF b = bi THEN t.block[b].num - 1 ELSE t.block[b].num
         /\ b # bi => v.block[b].ehead = t.block[b].ehead
    /\ FreeIn(t, bi) # {e} =>
         v.block[bi].ehead \in FreeIn(t, bi) \ {e} /\ NodeRing(v, FreeIn(t, bi) \ {e})

\* The block of a free node counts it.
LEMMA NumOf ==
    ASSUME NEW t, Alloc(t), NEW bi, bi \in 0..(NB(t) - 1), NEW e, e \in FreeIn(t, bi)
    PROVE  /\ t.block[bi].num \in Nat \ {0}
           /\ t.block[bi].num = Cardinality(FreeIn(t, bi)) + (IF bi = 0 THEN 1 ELSE 0)
           /\ Cardinality(FreeIn(t, bi)) \in Nat
           /\ Cardinality(FreeIn(t, bi) \ {e}) = Cardinality(FreeIn(t, bi)) - 1
           /\ bi # 0 => (t.block[bi].num = 1 <=> FreeIn(t, bi) = {e})
           /\ t.block[bi].ehead \in FreeIn(t, bi)
           /\ t.block[bi].trial \in {0, 1}
           /\ NodeRing(t, FreeIn(t, bi))
  <1>0. Shape(t) /\ RingOk(t, bi) /\ t.block[bi].trial \in {0, 1}
    BY DEF Alloc
  <1> DEFINE F == FreeIn(t, bi)
             c == Cardinality(F)
  <1>1. IsFiniteSet(F) /\ c \in Nat
    BY <1>0, FreeInBlock
  <1>2. e \in F
    OBVIOUS
  <1> HIDE DEF F
  <1>3. Cardinality(F \ {e}) = c - 1 /\ IsFiniteSet(F \ {e})
    BY <1>1, <1>2, FS_RemoveElement
  <1>4. c - 1 \in Nat
    BY <1>3, FS_CardinalityType
  <1>5. c = 1 <=> F \ {e} = {}
    BY <1>1, <1>3, FS_EmptySet
  <1>6. t.block[bi].num = c + (IF bi = 0 THEN 1 ELSE 0) /\ t.block[bi].ehead \in F /\ NodeRing(t, F)
    BY <1>0, <1>2 DEF RingOk, F
  <1>7. F \ {e} = {} <=> F = {e}
    BY <1>2
  <1> HIDE DEF c
  <1>8. t.block[bi].num \in Nat \ {0} /\ (bi # 0 => (t.block[bi].num = 1 <=> F = {e}))
    BY <1>1, <1>4, <1>5, <1>6, <1>7
  <1> QED
    BY <1>0, <1>1, <1>3, <1>6, <1>8 DEF F, c

\* What TakeNode does before it sets the node
TakenOff(t, e) ==
    LET bi == e \div B
        b == t.block[bi]
        u == WithNum(t, bi, b.num - 1)
    IN  CASE b.num = 1 /\ bi # 0 -> TransferBlock(u, bi, "close", "full")
          [] b.num = 2 /\ bi # 0 /\ b.trial # MaxTrial ->
               TransferBlock(Unlink(u, e), bi, "open", "close")
          [] OTHER -> Unlink(u, e)

\* The last free node of a block leaves: the block becomes full.
LEMMA TakenOffFull ==
    ASSUME NEW t, Alloc(t), NEW bi, bi \in 0..(NB(t) - 1), NEW e, e \in FreeIn(t, bi),
           bi # 0, t.block[bi].num = 1, NEW v,
           v = TransferBlock(WithNum(t, bi, t.block[bi].num - 1), bi, "close", "full")
    PROVE  Unlinked(t, v, bi, e) /\ Linked(v, OnList(v))
  <1> DEFINE u == WithNum(t, bi, t.block[bi].num - 1)
             on == OnList(t)
             on2 == [l \in ListNames |-> CASE l = "close" -> on[l] \ {bi} [] l = "full" -> on[l] \cup {bi}
                                           [] OTHER -> on[l]]
             F == FreeIn(t, bi)
  <1>0. Shape(t) /\ Linked(t, on) /\ bi \in 1..(NB(t) - 1) /\ bi \in 0..(CB(t) - 1)
        /\ NB(t) \in Nat /\ CB(t) \in Nat /\ NB(t) <= CB(t)
    BY DEF Alloc, Shape
  <1>1. F = {e} /\ t.block[bi].num - 1 = 0
    <2>1. bi # 0 => (t.block[bi].num = 1 <=> FreeIn(t, bi) = {e})
      BY NumOf
    <2> QED
      BY <2>1
  <1>2. /\ SameLinks(t, u) /\ u.node = t.node /\ u.ninfo = t.ninfo /\ u.reject = t.reject
        /\ u.block[bi].num = 0
        /\ \A b \in 0..(CB(t) - 1) :
                /\ u.block[b].trial = t.block[b].trial
                /\ u.block[b].reject = t.block[b].reject
                /\ u.block[b].ehead = t.block[b].ehead
                /\ b # bi => u.block[b].num = t.block[b].num
    <2> DEFINE n == t.block[bi].num - 1
    <2>1. n \in Nat /\ n = 0
      BY <1>1
    <2> HIDE DEF n
    <2> QED
      BY <1>0, <2>1, WithNumOk
  <1>3. Shape(u) /\ NB(u) = NB(t) /\ CB(u) = CB(t) /\ u.size = t.size /\ u.capacity = t.capacity
    BY <1>2 DEF SameLinks, NB, CB
  <1>4. Linked(u, on)
    <2> HIDE DEF u, on
    <2> QED
      BY <1>0, <1>2, LinkedSame
  <1>5. ListIn(t, bi) = "close"
    BY DEF ListIn
  <1>6. bi \in on["close"]
    BY <1>0, <1>5 DEF OnList, ListNames
  <1>7. Kept(u, v) /\ Linked(v, on2)
    <2>1. "close" \in ListNames /\ "full" \in ListNames /\ "close" # "full"
      BY DEF ListNames
    <2>2. v = TransferBlock(u, bi, "close", "full")
      OBVIOUS
    <2> HIDE DEF u, on
    <2> QED
      BY <1>2, <1>3, <1>4, <1>6, <2>1, <2>2, TransferOk
  <1>8. /\ Shape(v) /\ NB(v) = NB(t) /\ CB(v) = CB(t) /\ v.size = t.size /\ v.capacity = t.capacity
        /\ v.node = t.node /\ v.ninfo = t.ninfo /\ v.reject = t.reject
        /\ \A b \in 0..(CB(t) - 1) :
             /\ v.block[b].num = IF b = bi THEN 0 ELSE t.block[b].num
             /\ v.block[b].trial = t.block[b].trial /\ v.block[b].ehead = t.block[b].ehead
    <2> HIDE DEF u
    <2> QED
      BY <1>2, <1>3, <1>7 DEF Kept, NB, CB
  <1>9. Unlinked(t, v, bi, e)
    <2>1. \A i \in F : t.node[i].check < 0
      BY <1>0, FreeInNodes
    <2> QED
      BY <1>1, <1>8, <2>1 DEF Unlinked
  <1>10. on2 = OnList(v)
    <2>1. \A b \in (1..(NB(t) - 1)) \ {bi} : ListIn(v, b) = ListIn(t, b)
      <3> TAKE b \in (1..(NB(t) - 1)) \ {bi}
      <3>1. b \in 0..(CB(t) - 1) /\ b # bi
        BY <1>0
      <3> QED
        BY <1>8, <3>1 DEF ListIn
    <2>2. ListIn(v, bi) = "full"
      BY <1>0, <1>8 DEF ListIn
    <2>3. "close" \in ListNames /\ "full" \in ListNames /\ "close" # "full"
      BY DEF ListNames
    <2> QED
      BY <1>0, <1>5, <1>8, <2>1, <2>2, <2>3, OnListMoved
  <1> QED
    BY <1>7, <1>9, <1>10

\* Taken off, a block with another free node counts one less.
LEMMA UnlinkedOk ==
    ASSUME NEW t, Alloc(t), NEW bi, bi \in 0..(NB(t) - 1), NEW e, e \in FreeIn(t, bi),
           FreeIn(t, bi) # {e}, NEW v, v = Unlink(WithNum(t, bi, t.block[bi].num - 1), e)
    PROVE  /\ Unlinked(t, v, bi, e) /\ SameLinks(t, v)
           /\ t.block[bi].num - 1 \in Nat /\ v.block[bi].num = t.block[bi].num - 1
           /\ \A b \in 0..(CB(t) - 1) : v.block[b].reject = t.block[b].reject
  <1> DEFINE n == t.block[bi].num - 1
             u == WithNum(t, bi, n)
             F == FreeIn(t, bi)
  <1>0. Shape(t) /\ bi \in 0..(CB(t) - 1) /\ NB(t) \in Nat /\ CB(t) \in Nat /\ NB(t) <= CB(t)
    BY DEF Alloc, Shape
  <1>1. n \in Nat /\ t.block[bi].ehead \in F /\ NodeRing(t, F)
    <2>1. t.block[bi].num \in Nat \ {0} /\ t.block[bi].ehead \in FreeIn(t, bi) /\ NodeRing(t, FreeIn(t, bi))
      BY NumOf
    <2> QED
      BY <2>1
  <1>2. /\ SameLinks(t, u) /\ u.node = t.node /\ u.ninfo = t.ninfo /\ u.reject = t.reject
        /\ u.block[bi].num = n
        /\ \A b \in 0..(CB(t) - 1) :
                /\ u.block[b].trial = t.block[b].trial
                /\ u.block[b].reject = t.block[b].reject
                /\ u.block[b].ehead = t.block[b].ehead
                /\ b # bi => u.block[b].num = t.block[b].num
    <2> HIDE DEF n
    <2> QED
      BY <1>0, <1>1, WithNumOk
  <1>3. Shape(u) /\ NB(u) = NB(t) /\ CB(u) = CB(t) /\ u.size = t.size /\ u.capacity = t.capacity
    BY <1>2 DEF SameLinks, NB, CB
  <1>4. F = FreeIn(u, bi) /\ NodeRing(u, F) /\ u.block[bi].ehead \in F
    <2>1. F = FreeIn(u, bi)
      BY <1>2 DEF FreeIn
    <2>2. NodeRing(u, F)
      BY <1>1, <1>2 DEF NodeRing
    <2> QED
      BY <2>1, <2>2, <1>0, <1>1, <1>2
  <1>5. /\ SameLinks(u, v) /\ v.ninfo = u.ninfo /\ v.reject = u.reject
        /\ \A b \in 0..(CB(u) - 1) :
             /\ v.block[b].num = u.block[b].num /\ v.block[b].trial = u.block[b].trial
             /\ v.block[b].reject = u.block[b].reject
             /\ b # bi => v.block[b].ehead = u.block[b].ehead
        /\ v.block[bi].ehead \in F \ {e}
        /\ \A i \in 0..(u.capacity - 1) :
             (i \notin F => v.node[i] = u.node[i]) /\ (i \in F => v.node[i].check < 0)
        /\ NodeRing(v, F \ {e})
    <2>1. bi \in 0..(NB(u) - 1) /\ e \in F /\ F # {e}
      BY <1>3
    <2> DEFINE j == bi
    <2>2. v = Unlink(u, e)
      OBVIOUS
    <2>a. Shape(u)
      BY <1>3
    <2>b. j \in 0..(NB(u) - 1)
      BY <2>1
    <2>c. F = FreeIn(u, j)
      BY <1>4
    <2>d. NodeRing(u, F)
      BY <1>4
    <2>e. u.block[j].ehead \in F
      BY <1>4
    <2>f. e \in F
      BY <2>1
    <2>g. F # {e}
      BY <2>1
    <2> HIDE DEF F, u, j
    <2>h. Off(u, Unlink(u, e), j, F, e)
      BY <2>a, <2>b, <2>c, <2>d, <2>e, <2>f, <2>g, UnlinkOk
    <2> QED
      BY <2>2, <2>h DEF j, Off
  <1>6. SameLinks(t, v)
    <2> HIDE DEF u
    <2> QED
      BY <1>2, <1>3, <1>5, ZenonT(60) DEF SameLinks
  <1>7. v.block[bi].num = n
    <2> HIDE DEF u, n
    <2> QED
      BY <1>0, <1>2, <1>3, <1>5
  <1>8. Unlinked(t, v, bi, e)
    <2>1. Shape(v) /\ v.size = t.size /\ v.capacity = t.capacity /\ v.ninfo = t.ninfo /\ v.reject = t.reject
      <3> HIDE DEF u
      <3> QED
        BY <1>2, <1>5, <1>6 DEF SameLinks
    <2>2. \A i \in 0..(t.capacity - 1) :
             (i \notin F => v.node[i] = t.node[i]) /\ (i \in F => v.node[i].check < 0)
      <3> HIDE DEF u, F
      <3> QED
        BY <1>2, <1>3, <1>5
    <2>3. \A b \in 0..(CB(t) - 1) :
             /\ v.block[b].trial = t.block[b].trial
             /\ v.block[b].num = IF b = bi THEN n ELSE t.block[b].num
             /\ b # bi => v.block[b].ehead = t.block[b].ehead
      <3> HIDE DEF u, F, n
      <3> QED
        BY <1>2, <1>3, <1>5, ZenonT(60)
    <2> QED
      BY <2>1, <2>2, <2>3, <1>5 DEF Unlinked
  <1>9. \A b \in 0..(CB(t) - 1) : v.block[b].reject = t.block[b].reject
    <2> HIDE DEF u, F, n
    <2> QED
      BY <1>2, <1>3, <1>5
  <1> QED
    BY <1>1, <1>6, <1>7, <1>8, <1>9

\* A block that has two free nodes left before goes to the other list, or stays there.
LEMMA TakenOffClose ==
    ASSUME NEW t, Alloc(t), NEW bi, bi \in 0..(NB(t) - 1), NEW e, e \in FreeIn(t, bi),
           bi # 0, t.block[bi].num = 2, t.block[bi].trial # MaxTrial, FreeIn(t, bi) # {e}, NEW v,
           v = TransferBlock(Unlink(WithNum(t, bi, t.block[bi].num - 1), e), bi, "open", "close")
    PROVE  Unlinked(t, v, bi, e) /\ Linked(v, OnList(v))
  <1> DEFINE u == Unlink(WithNum(t, bi, t.block[bi].num - 1), e)
             on == OnList(t)
             on2 == [l \in ListNames |-> CASE l = "open" -> on[l] \ {bi} [] l = "close" -> on[l] \cup {bi}
                                           [] OTHER -> on[l]]
             F == FreeIn(t, bi)
  <1>0. Shape(t) /\ Linked(t, on) /\ bi \in 1..(NB(t) - 1) /\ bi \in 0..(CB(t) - 1)
        /\ NB(t) \in Nat /\ CB(t) \in Nat /\ NB(t) <= CB(t)
    BY DEF Alloc, Shape
  <1>1. /\ Unlinked(t, u, bi, e) /\ SameLinks(t, u)
        /\ u.block[bi].num = 1
        /\ \A b \in 0..(CB(t) - 1) : u.block[b].reject = t.block[b].reject
    <2>1. u = Unlink(WithNum(t, bi, t.block[bi].num - 1), e)
      OBVIOUS
    <2> HIDE DEF u
    <2>2. Unlinked(t, u, bi, e) /\ SameLinks(t, u) /\ u.block[bi].num = t.block[bi].num - 1
          /\ \A b \in 0..(CB(t) - 1) : u.block[b].reject = t.block[b].reject
      BY <2>1, UnlinkedOk
    <2> QED
      BY <2>2
  <1>3. Shape(u) /\ NB(u) = NB(t) /\ CB(u) = CB(t) /\ u.size = t.size /\ u.capacity = t.capacity
    BY <1>1 DEF SameLinks, NB, CB
  <1>4. Linked(u, on)
    <2> HIDE DEF u, on
    <2> QED
      BY <1>0, <1>1, LinkedSame
  <1>5. ListIn(t, bi) = "open"
    BY DEF ListIn
  <1>6. bi \in on["open"]
    BY <1>0, <1>5 DEF OnList, ListNames
  <1>7. Kept(u, v) /\ Linked(v, on2)
    <2>1. "close" \in ListNames /\ "open" \in ListNames /\ "close" # "open" /\ "close" # "full"
      BY DEF ListNames
    <2>2. v = TransferBlock(u, bi, "open", "close")
      OBVIOUS
    <2>3. "close" = "full" <=> u.block[bi].num = 0
      BY <1>1
    <2> HIDE DEF u, on
    <2> QED
      BY <1>3, <1>4, <1>6, <2>1, <2>2, <2>3, TransferOk
  <1>8. /\ Shape(v) /\ NB(v) = NB(t) /\ CB(v) = CB(t) /\ v.size = t.size /\ v.capacity = t.capacity
        /\ v.node = u.node /\ v.ninfo = u.ninfo /\ v.reject = u.reject
        /\ \A b \in 0..(CB(t) - 1) :
             /\ v.block[b].num = u.block[b].num
             /\ v.block[b].trial = u.block[b].trial /\ v.block[b].ehead = u.block[b].ehead
    <2> HIDE DEF u
    <2> QED
      BY <1>3, <1>7 DEF Kept, NB, CB
  <1>9. Unlinked(t, v, bi, e)
    <2>1. F # {e} /\ NodeRing(u, F \ {e}) => NodeRing(v, F \ {e})
      BY <1>8 DEF NodeRing
    <2> HIDE DEF u
    <2> QED
      BY <1>0, <1>1, <1>8, <2>1 DEF Unlinked
  <1>10. on2 = OnList(v)
    <2>1. \A b \in (1..(NB(t) - 1)) \ {bi} : ListIn(v, b) = ListIn(t, b)
      <3> TAKE b \in (1..(NB(t) - 1)) \ {bi}
      <3>1. b \in 0..(CB(t) - 1) /\ b # bi
        BY <1>0
      <3>2. v.block[b].num = t.block[b].num /\ v.block[b].trial = t.block[b].trial
        BY <1>9, <3>1 DEF Unlinked
      <3> QED
        BY <3>2 DEF ListIn
    <2>2. ListIn(v, bi) = "close"
      BY <1>0, <1>1, <1>8 DEF ListIn
    <2>3. "close" \in ListNames /\ "open" \in ListNames /\ "close" # "open"
      BY DEF ListNames
    <2> QED
      BY <1>0, <1>5, <1>8, <2>1, <2>2, <2>3, OnListMoved
  <1> QED
    BY <1>7, <1>9, <1>10

\* Or it stays where it is.
LEMMA TakenOffStay ==
    ASSUME NEW t, Alloc(t), NEW bi, bi \in 0..(NB(t) - 1), NEW e, e \in FreeIn(t, bi),
           FreeIn(t, bi) # {e},
           bi # 0 => t.block[bi].num # 1 /\ ~ (t.block[bi].num = 2 /\ t.block[bi].trial # MaxTrial),
           NEW v, v = Unlink(WithNum(t, bi, t.block[bi].num - 1), e)
    PROVE  Unlinked(t, v, bi, e) /\ Linked(v, OnList(v))
  <1>0. Shape(t) /\ Linked(t, OnList(t)) /\ bi \in 0..(CB(t) - 1)
        /\ NB(t) \in Nat /\ CB(t) \in Nat /\ NB(t) <= CB(t)
    BY DEF Alloc, Shape
  <1>1. Unlinked(t, v, bi, e) /\ SameLinks(t, v)
    BY UnlinkedOk
  <1>2. NB(v) = NB(t)
    BY <1>1 DEF SameLinks, NB
  <1>3. t.block[bi].num \in Nat \ {0} /\ t.block[bi].trial \in {0, 1}
    BY NumOf
  <1>4. \A b \in 1..(NB(t) - 1) : ListIn(v, b) = ListIn(t, b)
    <2> TAKE b \in 1..(NB(t) - 1)
    <2>1. b \in 0..(CB(t) - 1)
      BY <1>0
    <2>2. v.block[b].num = (IF b = bi THEN t.block[bi].num - 1 ELSE t.block[b].num)
          /\ v.block[b].trial = t.block[b].trial
      BY <1>1, <2>1 DEF Unlinked
    <2>3. CASE b # bi
      BY <2>2, <2>3 DEF ListIn
    <2>4. CASE b = bi
      <3>1. v.block[bi].num = t.block[bi].num - 1 /\ v.block[bi].trial = t.block[bi].trial
        BY <2>2, <2>4
      <3>2. t.block[bi].num >= 2 /\ (t.block[bi].num = 2 => t.block[bi].trial = 1)
        BY <1>3, <2>4 DEF MaxTrial
      <3> QED
        BY <1>3, <2>4, <3>1, <3>2 DEF ListIn, MaxTrial
    <2> QED
      BY <2>3, <2>4
  <1>5. OnList(v) = OnList(t)
    BY <1>2, <1>4, OnListSame
  <1>6. Linked(v, OnList(t))
    BY <1>0, <1>1, LinkedSame
  <1> QED
    BY <1>1, <1>5, <1>6

\* TakeNode keeps the invariant of the allocator.
LEMMA TakeNodeOk ==
    ASSUME NEW t, Alloc(t), NEW e, e \in Free(t), e \div B = 0 => FreeIn(t, 0) # {e},
           NEW label, label \in Label, NEW from, from \in Nat
    PROVE  Alloc(TakeNode(t, e, label, from))
           /\ Taken(t, TakeNode(t, e, label, from), e, label, from)
  <1> DEFINE bi == e \div B
             b == t.block[bi]
             v == TakenOff(t, e)
             r == FreshNode(label, from)
             w == TakeNode(t, e, label, from)
             F == FreeIn(t, bi)
             N == 0..(t.capacity - 1)
  <1>0. Shape(t) /\ bi \in 0..(NB(t) - 1) /\ e \in F /\ e \in Nat /\ t.size <= t.capacity
    BY FreeOf DEF Alloc
  <1>1. /\ b.num \in Nat \ {0} /\ b.num = Cardinality(F) + (IF bi = 0 THEN 1 ELSE 0)
        /\ Cardinality(F) \in Nat /\ Cardinality(F \ {e}) = Cardinality(F) - 1
        /\ (bi # 0 => (b.num = 1 <=> F = {e})) /\ b.trial \in {0, 1}
    <2> HIDE DEF bi
    <2> QED
      BY <1>0, NumOf
  <1>2. w = [v EXCEPT !.node[e] = r]
    BY DEF TakeNode, TakenOff, WithNum
  <1>3. Unlinked(t, v, bi, e) /\ Linked(v, OnList(v))
    <2>1. CASE b.num = 1 /\ bi # 0
      <3>1. v = TransferBlock(WithNum(t, bi, b.num - 1), bi, "close", "full")
        BY <2>1 DEF TakenOff
      <3> HIDE DEF bi, v
      <3> QED
        BY <2>1, <3>1, <1>0, TakenOffFull
    <2>2. CASE b.num = 2 /\ bi # 0 /\ b.trial # MaxTrial
      <3>1. v = TransferBlock(Unlink(WithNum(t, bi, b.num - 1), e), bi, "open", "close")
        BY <2>2 DEF TakenOff
      <3>2. F # {e}
        BY <2>2, <1>1
      <3> HIDE DEF bi, v
      <3> QED
        BY <2>2, <3>1, <3>2, <1>0, TakenOffClose
    <2>3. CASE ~ (b.num = 1 /\ bi # 0) /\ ~ (b.num = 2 /\ bi # 0 /\ b.trial # MaxTrial)
      <3>1. v = Unlink(WithNum(t, bi, b.num - 1), e)
        BY <2>3 DEF TakenOff
      <3>2. F # {e}
        BY <2>3, <1>1
      <3>3. bi # 0 => b.num # 1 /\ ~ (b.num = 2 /\ b.trial # MaxTrial)
        BY <2>3
      <3> HIDE DEF bi, v
      <3> QED
        BY <3>1, <3>2, <3>3, <1>0, TakenOffStay
    <2> QED
      BY <2>1, <2>2, <2>3
  <1>4. r \in NodeType /\ r.check = from
    BY DEF FreshNode, NodeType
  <1>5. Shape(v) /\ v.size = t.size /\ v.capacity = t.capacity /\ v.ninfo = t.ninfo
    BY <1>3 DEF Unlinked
  <1>6. e \in N
    BY <1>0, FreeInNodes
  <1>7. /\ SameLinks(v, w) /\ w.block = v.block /\ w.ninfo = v.ninfo /\ w.reject = v.reject
        /\ w.node[e] = r /\ \A i \in N : i # e => w.node[i] = v.node[i]
    <2> DEFINE j == e
    <2>1. Shape(v)
      BY <1>5
    <2>2. j \in 0..(v.capacity - 1)
      BY <1>5, <1>6
    <2>3. r \in NodeType
      BY <1>4
    <2>4. w = [v EXCEPT !.node[j] = r]
      BY <1>2
    <2> HIDE DEF v, w, r, j
    <2>5. NodeSet(v, w, j, r)
      BY <2>1, <2>2, <2>3, <2>4, WithNodeOk
    <2> QED
      BY <2>5, <1>5 DEF NodeSet, j
  <1>8. Shape(w) /\ w.size = t.size /\ w.capacity = t.capacity /\ w.ninfo = t.ninfo
        /\ NB(w) = NB(t) /\ CB(w) = CB(t) /\ NB(v) = NB(t)
    BY <1>5, <1>7 DEF SameLinks, NB, CB
  <1>9. \A i \in N : i \notin F => w.node[i] = t.node[i]
    <2> TAKE i \in N
    <2> HAVE i \notin F
    <2>1. i # e /\ v.node[i] = t.node[i]
      BY <1>0, <1>3 DEF Unlinked
    <2> HIDE DEF v, w
    <2> QED
      BY <2>1, <1>7
  <1>10. \A i \in N : i \in F /\ i # e => w.node[i].check < 0
    <2> TAKE i \in N
    <2> HAVE i \in F /\ i # e
    <2>1. v.node[i].check < 0
      BY <1>3 DEF Unlinked
    <2> HIDE DEF v, w
    <2> QED
      BY <2>1, <1>7
  <1>11. ~ (w.node[e].check < 0)
    BY <1>4, <1>7
  <1>12. \A x \in F : x \in N /\ x # 0 /\ x \div B = bi /\ x \in 0..(t.size - 1) /\ t.node[x].check < 0
    <2> HIDE DEF bi
    <2> QED
      BY <1>0, FreeInNodes
  <1>13. t.size \in Nat /\ t.capacity \in Nat /\ 0..(t.size - 1) \subseteq N
    BY <1>0 DEF Shape
  <1>14. Free(w) = Free(t) \ {e}
    <2>1. \A i \in 0..(t.size - 1) : i # 0 => ((w.node[i].check < 0) <=> (t.node[i].check < 0 /\ i # e))
      <3> TAKE i \in 0..(t.size - 1)
      <3> HAVE i # 0
      <3> HIDE DEF w, F, bi
      <3>1. CASE i \in F
        BY <3>1, <1>10, <1>11, <1>12
      <3>2. CASE i \notin F
        BY <3>2, <1>0, <1>9, <1>13
      <3> QED
        BY <3>1, <3>2
    <2> HIDE DEF w
    <2> QED
      BY <2>1, <1>8 DEF Free
  <1>15. FreeIn(w, bi) = F \ {e}
    <2>1. /\ FreeIn(w, bi) = {i \in 0..(t.size - 1) : i # 0 /\ i \div B = bi /\ w.node[i].check < 0}
          /\ F = {i \in 0..(t.size - 1) : i # 0 /\ i \div B = bi /\ t.node[i].check < 0}
      <3> HIDE DEF w, bi
      <3> QED
        BY <1>0, <1>8, FreeInBlock
    <2>2. \A i \in 0..(t.size - 1) : i # 0 => ((w.node[i].check < 0) <=> (t.node[i].check < 0 /\ i # e))
      BY <1>8, <1>14 DEF Free
    <2> HIDE DEF w, F, bi
    <2> QED
      BY <2>1, <2>2
  <1>16. \A c \in 0..(CB(t) - 1) :
           /\ w.block[c].trial = t.block[c].trial
           /\ w.block[c].num = IF c = bi THEN b.num - 1 ELSE t.block[c].num
           /\ c # bi => w.block[c].ehead = t.block[c].ehead
    <2> HIDE DEF w, v
    <2> QED
      BY <1>3, <1>7 DEF Unlinked
  <1>17. bi \in 0..(CB(t) - 1)
    <2>1. NB(t) \in Nat /\ CB(t) \in Nat /\ NB(t) <= CB(t)
      BY <1>0 DEF Shape
    <2> HIDE DEF bi
    <2> QED
      BY <1>0, <2>1
  <1>18. RingOk(w, bi)
    <2>1. w.block[bi].num = Cardinality(FreeIn(w, bi)) + (IF bi = 0 THEN 1 ELSE 0)
      <3> DEFINE c == Cardinality(F)
      <3>1. w.block[bi].num = b.num - 1 /\ b.num = c + (IF bi = 0 THEN 1 ELSE 0) /\ c \in Nat
            /\ Cardinality(FreeIn(w, bi)) = c - 1
        BY <1>1, <1>15, <1>16, <1>17
      <3> HIDE DEF c, w, bi
      <3> QED
        BY <3>1
    <2>2. FreeIn(w, bi) # {} => w.block[bi].ehead \in FreeIn(w, bi)
      <3> HIDE DEF w, v, F
      <3> QED
        BY <1>3, <1>7, <1>15 DEF Unlinked, F
    <2>3. NodeRing(w, FreeIn(w, bi))
      <3>1. CASE F = {e}
        <4>1. FreeIn(w, bi) = {}
          BY <1>15, <3>1
        <4>2. IsRing({}, [x \in FreeIn(w, bi) |-> -w.node[x].check], [x \in FreeIn(w, bi) |-> -w.node[x].base])
          BY SmallRings
        <4> QED
          BY <4>1, <4>2 DEF NodeRing
      <3>2. CASE F # {e}
        <4> DEFINE G == F \ {e}
        <4>1. NodeRing(v, G)
          BY <1>3, <3>2 DEF Unlinked
        <4>2. \A x \in G : w.node[x] = v.node[x]
          BY <1>7, <1>12
        <4>3. NodeRing(w, G)
          <5> DEFINE n == [x \in G |-> -v.node[x].check]
                     p == [x \in G |-> -v.node[x].base]
                     n1 == [x \in G |-> -w.node[x].check]
                     p1 == [x \in G |-> -w.node[x].base]
          <5>1. IsRing(G, n, p)
            BY <4>1 DEF NodeRing
          <5>2. \A x \in G : n1[x] = n[x] /\ p1[x] = p[x]
            BY <4>2
          <5> HIDE DEF n, p, n1, p1, G
          <5>3. IsRing(G, n1, p1)
            BY <5>1, <5>2, RingSame
          <5> QED
            BY <5>3 DEF n1, p1, NodeRing
        <4> QED
          BY <4>3, <1>15
      <3> QED
        BY <3>1, <3>2
    <2> HIDE DEF w, bi
    <2> QED
      BY <2>1, <2>2, <2>3 DEF RingOk
  <1>19. Linked(w, OnList(w))
    <2>1. OnList(w) = OnList(v)
      <3>1. \A c \in 1..(NB(v) - 1) : ListIn(w, c) = ListIn(v, c)
        BY <1>7 DEF ListIn
      <3> HIDE DEF v, w
      <3> QED
        BY <3>1, <1>8, OnListSame
    <2> HIDE DEF v, w
    <2> QED
      BY <2>1, <1>3, <1>5, <1>7, LinkedSame
  <1>20. FreeIn(w, 0) # {}
    <2>0. 0 \in 0..(NB(t) - 1)
      BY <1>0 DEF Shape
    <2>1. CASE bi = 0
      <3>1. FreeIn(w, 0) = FreeIn(t, 0) \ {e} /\ FreeIn(t, 0) # {e} /\ e \in FreeIn(t, 0)
        BY <2>1, <1>0, <1>15
      <3> HIDE DEF w
      <3> QED
        BY <3>1
    <2>2. CASE bi # 0
      <3>1. PICK x : x \in FreeIn(t, 0)
        BY DEF Alloc
      <3>2. x \in N /\ x \div B = 0 /\ t.node[x].check < 0 /\ x \in 0..(t.size - 1) /\ x > 0
        BY <3>1, <2>0, <1>0, FreeInNodes
      <3>3. x \notin F
        BY <3>2, <2>2, <1>12
      <3>4. w.node[x].check < 0
        BY <3>2, <3>3, <1>9
      <3>5. x \in FreeIn(w, 0)
        <4> HIDE DEF w
        <4> QED
          BY <3>2, <3>4, <2>0, <1>8, FreeInBlock
      <3> QED
        BY <3>5
    <2> QED
      BY <2>1, <2>2
  <1>21. \A i \in N : Spare(w, i) => w.ninfo[i] = NewNinfo
    <2> TAKE i \in N
    <2> HAVE Spare(w, i)
    <2>1. Spare(t, i)
      <3>1. CASE i >= t.size
        BY <3>1 DEF Spare
      <3>2. CASE ~ (i >= t.size)
        <4>1. i \in 0..(t.size - 1) /\ i # 0 /\ w.node[i].check < 0
          BY <3>2, <1>8, <1>13 DEF Spare
        <4>2. i \in Free(t)
          <5> HIDE DEF w
          <5> QED
            BY <4>1, <1>8, <1>14 DEF Free
        <4> QED
          BY <4>1, <4>2 DEF Spare, Free
      <3> QED
        BY <3>1, <3>2
    <2> QED
      BY <2>1, <1>8 DEF Alloc
  <1>22. \A i \in N : i \div B # bi => w.node[i] = t.node[i]
    BY <1>9, <1>12
  <1>23. Alloc(w)
    <2>1. w.block[bi].trial \in {0, 1}
      BY <1>1, <1>16, <1>17
    <2>2. \A c \in 0..(CB(t) - 1) : c # bi =>
             /\ w.block[c].num = t.block[c].num /\ w.block[c].trial = t.block[c].trial
             /\ w.block[c].ehead = t.block[c].ehead
      <3> HIDE DEF w, bi
      <3> QED
        BY <1>16
    <2> HIDE DEF w, bi
    <2> QED
      BY <1>0, <1>8, <1>18, <1>19, <1>20, <1>21, <1>22, <2>1, <2>2, AllocStep
  <1>24. Taken(t, w, e, label, from)
    <2>1. \A i \in N : i \notin Free(t) => w.node[i] = t.node[i]
      <3> TAKE i \in N
      <3> HAVE i \notin Free(t)
      <3>1. i \notin F
        BY <1>12 DEF Free
      <3> QED
        BY <3>1, <1>9
    <2> HIDE DEF w
    <2> QED
      BY <2>1, <1>7, <1>8, <1>14 DEF Taken
  <1> QED
    BY <1>23, <1>24

-----------------------------------------------------------------------------
(* push_empty_node: a node is given back                                   *)

\* From t to u the nodes became f and block bi became rb, with the links it had.
Rewrote(t, u, f, bi, rb) ==
    /\ SameLinks(t, u)
    /\ u.node = f /\ u.ninfo = t.ninfo /\ u.reject = t.reject
    /\ u.block[bi] = rb
    /\ \A b \in 0..(CB(t) - 1) : b # bi => u.block[b] = t.block[b]

\* Nodes and a block are set.
LEMMA RewriteOk ==
    ASSUME NEW t, Shape(t), NEW f, f \in [0..(t.capacity - 1) -> NodeType],
           NEW bi, bi \in 0..(CB(t) - 1), NEW rb, rb \in BlockType,
           rb.next = t.block[bi].next, rb.prev = t.block[bi].prev,
           NEW u, u = [t EXCEPT !.node = f, !.block = WithAt(@, bi, rb)]
    PROVE  Rewrote(t, u, f, bi, rb)
  <1> DEFINE D == 0..(CB(t) - 1)
             N == 0..(t.capacity - 1)
             g == t.block
             h == u.block
             j == bi
  <1>0. /\ t \in [node : [N -> NodeType], ninfo : [N -> NinfoType],
                  block : [D -> BlockType], head : [ListNames -> Nat],
                  capacity : Nat, size : Nat, reject : [0..B -> Int]]
    BY DEF Shape
  <1>1. /\ u.node = f /\ h = WithAt(g, bi, rb)
        /\ u.ninfo = t.ninfo /\ u.head = t.head /\ u.capacity = t.capacity /\ u.size = t.size
        /\ u.reject = t.reject
        /\ u = [t EXCEPT !.node = f, !.block = h]
    BY <1>0
  <1>2. Differs(D, BlockType, g, j, rb, h)
    <2>a. h = WithAt(g, j, rb)
      BY <1>1
    <2>b. g \in [D -> BlockType]
      BY <1>0
    <2>d. j \in D
      OBVIOUS
    <2> HIDE DEF g, h, D, j
    <2> QED
      BY <2>a, <2>b, <2>d, SetOne
  <1>3. h \in [D -> BlockType] /\ h[bi] = rb /\ \A b \in D : b # bi => h[b] = t.block[b]
    BY <1>2 DEF Differs
  <1>4. Shape(u)
    <2>1. u \in [node : [N -> NodeType], ninfo : [N -> NinfoType],
                  block : [D -> BlockType], head : [ListNames -> Nat],
                  capacity : Nat, size : Nat, reject : [0..B -> Int]]
      <3> HIDE DEF h
      <3> QED
        BY <1>0, <1>1, <1>3
    <2> QED
      BY <2>1, <1>1 DEF Shape, NB, CB
  <1>5. SameLinks(t, u)
    <2>1. \A b \in D : u.block[b].next = t.block[b].next /\ u.block[b].prev = t.block[b].prev
      BY <1>3
    <2> QED
      BY <2>1, <1>1, <1>4 DEF SameLinks
  <1> QED
    BY <1>1, <1>3, <1>5 DEF Rewrote

\* From t to u node e joined the ring of block bi, which counts one more.
Joined(t, u, bi, e) ==
    /\ Shape(u) /\ u.size = t.size /\ u.capacity = t.capacity
    /\ u.ninfo = t.ninfo /\ u.reject = t.reject
    /\ \A i \in 0..(t.capacity - 1) :
         /\ i \notin FreeIn(t, bi) \cup {e} => u.node[i] = t.node[i]
         /\ i \in FreeIn(t, bi) \cup {e} => u.node[i].check < 0
    /\ \A b \in 0..(CB(t) - 1) :
         /\ u.block[b].trial = t.block[b].trial
         /\ u.block[b].num = IF b = bi THEN t.block[bi].num + 1 ELSE t.block[b].num
         /\ b # bi => u.block[b].ehead = t.block[b].ehead
    /\ u.block[bi].ehead \in FreeIn(t, bi) \cup {e}
    /\ NodeRing(u, FreeIn(t, bi) \cup {e})

WithNumHead(g, a, x, y) == [g EXCEPT ![a].num = x, ![a].ehead = y]
NumHead(r, x, y) == [r EXCEPT !.num = x, !.ehead = y]

\* Setting two fields of an entry, one after the other, is setting the entry.
LEMMA SetNumHead ==
    ASSUME NEW D, NEW T, NEW g, g \in [D -> T], NEW a, a \in D, NEW x, NEW y
    PROVE  WithNumHead(g, a, x, y) = WithAt(g, a, NumHead(g[a], x, y))
  <1> DEFINE h1 == [g EXCEPT ![a].num = x]
             h == [h1 EXCEPT ![a].ehead = y]
             k == WithAt(g, a, NumHead(g[a], x, y))
  <1>1. h1 = [b \in D |-> IF b = a THEN [g[a] EXCEPT !.num = x] ELSE g[b]]
    OBVIOUS
  <1>2. h = [b \in D |-> IF b = a THEN [h1[a] EXCEPT !.ehead = y] ELSE h1[b]]
    BY <1>1
  <1>3. k = [b \in D |-> IF b = a THEN [g[a] EXCEPT !.num = x, !.ehead = y] ELSE g[b]]
    BY DEF WithAt, NumHead
  <1>4. h1[a] = [g[a] EXCEPT !.num = x]
    BY <1>1
  <1>5. \A b \in D : h[b] = k[b]
    <2> HIDE DEF h1, h, k
    <2> TAKE b \in D
    <2>1. CASE b = a
      <3>1. h[a] = [h1[a] EXCEPT !.ehead = y]
        BY <1>2
      <3>2. k[a] = [g[a] EXCEPT !.num = x, !.ehead = y]
        BY <1>3
      <3> QED
        BY <2>1, <3>1, <3>2, <1>4
    <2>2. CASE b # a
      BY <2>2, <1>1, <1>2, <1>3
    <2> QED
      BY <2>1, <2>2
  <1>6. h = k
    <2> HIDE DEF h1, h, k
    <2> QED
      BY <1>2, <1>3, <1>5
  <1> QED
    BY <1>6 DEF WithNumHead

\* FirstFree: a node given back to a block without free nodes becomes its ring.
LEMMA FirstFreeOk ==
    ASSUME NEW t, Shape(t), NEW bi, bi \in 0..(NB(t) - 1), FreeIn(t, bi) = {}, t.block[bi].num = 0,
           NEW e, e \in 0..(t.capacity - 1), e # 0
    PROVE  Joined(t, FirstFree(t, bi, e), bi, e) /\ SameLinks(t, FirstFree(t, bi, e))
  <1> DEFINE D == 0..(CB(t) - 1)
             N == 0..(t.capacity - 1)
             u == FirstFree(t, bi, e)
             r == [base |-> -e, check |-> -e]
             f == WithAt(t.node, e, r)
             rb == [t.block[bi] EXCEPT !.num = 1, !.ehead = e]
  <1>0. /\ t.node \in [N -> NodeType] /\ t.block \in [D -> BlockType]
        /\ NB(t) \in Nat /\ CB(t) \in Nat /\ 1 <= NB(t) /\ NB(t) <= CB(t)
        /\ t \in [node : [N -> NodeType], ninfo : [N -> NinfoType],
                  block : [D -> BlockType], head : [ListNames -> Nat],
                  capacity : Nat, size : Nat, reject : [0..B -> Int]]
    BY DEF Shape
  <1>1. bi \in D /\ r \in NodeType /\ r.check = -e /\ r.base = -e /\ e \in Nat
    BY <1>0 DEF NodeType
  <1>2. Differs(N, NodeType, t.node, e, r, f)
    <2> DEFINE j == e
               g == t.node
    <2>1. g \in [N -> NodeType]
      BY <1>0
    <2>2. j \in N
      OBVIOUS
    <2>3. r \in NodeType
      BY <1>1
    <2> HIDE DEF g, N, j, r
    <2>4. Differs(N, NodeType, g, j, r, WithAt(g, j, r))
      BY <2>1, <2>2, <2>3, SetOne
    <2> QED
      BY <2>4 DEF g, j
  <1>3. f \in [N -> NodeType] /\ f[e] = r /\ \A i \in N : i # e => f[i] = t.node[i]
    <2> HIDE DEF f, r
    <2> QED
      BY <1>2 DEF Differs
  <1>4. /\ rb \in BlockType /\ rb.next = t.block[bi].next /\ rb.prev = t.block[bi].prev
        /\ rb.num = 1 /\ rb.ehead = e /\ rb.trial = t.block[bi].trial
    <2>1. t.block[bi] \in BlockType
      BY <1>0, <1>1
    <2> QED
      BY <2>1, <1>1 DEF BlockType
  <1>5. u = [t EXCEPT !.node = f, !.block = WithAt(@, bi, rb)]
    <2> DEFINE g == t.block
               h == WithNumHead(g, bi, 1, e)
    <2>1. h = WithAt(g, bi, rb)
      <3>1. DOMAIN g = D /\ g = [b \in D |-> g[b]]
        BY <1>0
      <3>2. bi \in D
        BY <1>1
      <3> DEFINE j == bi
                 k == e
                 n == 1
      <3>3. j \in D
        BY <3>2
      <3>4. rb = NumHead(g[j], n, k)
        BY DEF NumHead
      <3>6. g \in [D -> BlockType]
        BY <1>0
      <3> HIDE DEF D, g, j, k, rb, n
      <3>5. WithNumHead(g, j, n, k) = WithAt(g, j, NumHead(g[j], n, k))
        BY <3>6, <3>3, SetNumHead
      <3>7. WithNumHead(g, j, n, k) = WithAt(g, j, rb)
        BY <3>4, <3>5
      <3> QED
        BY <3>7 DEF j, k, g, n
    <2>2. u = [t EXCEPT !.block = h, !.node = f]
      <3> DEFINE a == [t EXCEPT !.block[bi].num = 1]
                 c == [a EXCEPT !.block[bi].ehead = e]
      <3>1. a = [t EXCEPT !.block = [g EXCEPT ![bi].num = 1]]
        OBVIOUS
      <3>2. a.block = [g EXCEPT ![bi].num = 1]
        BY <1>0
      <3>3. c = [a EXCEPT !.block = h]
        BY <3>2 DEF WithNumHead
      <3>4. u = [c EXCEPT !.node[e] = r]
        BY DEF FirstFree
      <3> HIDE DEF h
      <3>5. c = [t EXCEPT !.block = h] /\ c.node = t.node
        BY <1>0, <3>1, <3>3
      <3>6. u = [c EXCEPT !.node = f]
        BY <3>4, <3>5 DEF WithAt
      <3> HIDE DEF f, c, u, a
      <3> QED
        BY <3>5, <3>6
    <2> HIDE DEF h, f, rb
    <2>3. [t EXCEPT !.block = h, !.node = f] = [t EXCEPT !.node = f, !.block = h]
      BY <1>0
    <2> QED
      BY <1>0, <2>1, <2>2, <2>3
  <1>6. Rewrote(t, u, f, bi, rb)
    <2> DEFINE j == bi
    <2>1. j \in D
      BY <1>1
    <2>2. rb.next = t.block[j].next
      BY <1>4
    <2>3. rb.prev = t.block[j].prev
      BY <1>4
    <2>4. rb \in BlockType
      BY <1>4
    <2>5. f \in [N -> NodeType]
      BY <1>3
    <2>6. u = [t EXCEPT !.node = f, !.block = WithAt(@, j, rb)]
      BY <1>5
    <2> HIDE DEF f, u, rb, j
    <2>7. Rewrote(t, u, f, j, rb)
      BY <2>1, <2>2, <2>3, <2>4, <2>5, <2>6, RewriteOk
    <2> QED
      BY <2>7 DEF j
  <1>7. SameLinks(t, u) /\ u.node = f /\ u.ninfo = t.ninfo /\ u.reject = t.reject
        /\ u.block[bi] = rb /\ \A b \in D : b # bi => u.block[b] = t.block[b]
    <2> HIDE DEF f, u, rb
    <2> QED
      BY <1>6 DEF Rewrote
  <1>8. u.node[e] = r /\ \A i \in N : i # e => u.node[i] = t.node[i]
    <2> HIDE DEF f, u, rb, r
    <2> QED
      BY <1>3, <1>7
  <1>9. NodeRing(u, {e})
    <2> DEFINE n == [x \in {e} |-> -u.node[x].check]
               p == [x \in {e} |-> -u.node[x].base]
    <2>1. n[e] = e /\ p[e] = e
      <3>1. u.node[e].check = -e /\ u.node[e].base = -e
        BY <1>1, <1>8
      <3> HIDE DEF u
      <3> QED
        BY <3>1, <1>1
    <2> HIDE DEF n, p
    <2>2. IsRing({e}, n, p)
      BY <2>1, SmallRings
    <2> QED
      BY <2>2 DEF NodeRing, n, p
  <1>10. FreeIn(t, bi) \cup {e} = {e}
    OBVIOUS
  <1>11. u.node[e].check < 0
    BY <1>1, <1>8
  <1>12. \A b \in D :
         /\ u.block[b].trial = t.block[b].trial
         /\ u.block[b].num = IF b = bi THEN t.block[bi].num + 1 ELSE t.block[b].num
         /\ b # bi => u.block[b].ehead = t.block[b].ehead
    <2> HIDE DEF u, rb
    <2> QED
      BY <1>4, <1>7
  <1>13. u.block[bi].ehead \in {e}
    <2> HIDE DEF u, rb
    <2> QED
      BY <1>4, <1>7
  <1>14. Shape(u) /\ u.size = t.size /\ u.capacity = t.capacity
    BY <1>7 DEF SameLinks
  <1> HIDE DEF u, f, rb, r
  <1>15. Joined(t, u, bi, e)
    BY <1>7, <1>8, <1>9, <1>10, <1>11, <1>12, <1>13, <1>14 DEF Joined
  <1> QED
    BY <1>7, <1>15 DEF u

\* A freed node joins the ring behind its head.
LEMMA LinkedFreeOk ==
    ASSUME NEW t, Shape(t), NEW bi, bi \in 0..(NB(t) - 1), NEW F, F = FreeIn(t, bi),
           NodeRing(t, F), t.block[bi].ehead \in F,
           NEW e, e \in 0..(t.capacity - 1), e # 0, e \notin F
    PROVE  Joined(t, LinkedFree(t, bi, e), bi, e) /\ SameLinks(t, LinkedFree(t, bi, e))
  <1> DEFINE D == 0..(CB(t) - 1)
             N == 0..(t.capacity - 1)
             u == LinkedFree(t, bi, e)
             f == t.node
             h == t.block[bi].ehead
             q == -t.node[h].check
             next == [x \in F |-> -t.node[x].check]
             prev == [x \in F |-> -t.node[x].base]
             r0 == [base |-> -h, check |-> -q]
             f1 == WithAt(f, e, r0)
             r1 == [f1[h] EXCEPT !.check = -e]
             f2 == WithAt(f1, h, r1)
             r2 == [f2[q] EXCEPT !.base = -e]
             f3 == WithAt(f2, q, r2)
             rb == [t.block[bi] EXCEPT !.num = @ + 1]
  <1>0. /\ t \in [node : [N -> NodeType], ninfo : [N -> NinfoType],
                  block : [D -> BlockType], head : [ListNames -> Nat],
                  capacity : Nat, size : Nat, reject : [0..B -> Int]]
        /\ NB(t) \in Nat /\ CB(t) \in Nat /\ 1 <= NB(t) /\ NB(t) <= CB(t)
        /\ e \in Nat
    BY DEF Shape
  <1>1. \A x \in F : x \in Nat /\ x > 0 /\ x \in N /\ x \div B = bi /\ f[x].check < 0
    BY FreeInNodes
  <1>2. /\ f \in [N -> NodeType] /\ \A x \in N : f[x].base \in Int /\ f[x].check \in Int
    BY <1>0 DEF NodeType
  <1>3. IsRing(F, next, prev)
    BY DEF NodeRing
  <1>4. h \in F /\ q \in F /\ next[h] = q /\ prev[q] = h
    <2>1. next[h] = q
      OBVIOUS
    <2>2. next[h] \in F /\ prev[next[h]] = h
      BY <1>3 DEF IsRing
    <2> HIDE DEF next, prev, q, h
    <2> QED
      BY <2>1, <2>2 DEF h
  <1>5. h \in Nat /\ q \in Nat /\ h > 0 /\ q > 0 /\ h \in N /\ q \in N /\ e \in N /\ e # h /\ e # q
    <2> HIDE DEF h, q, N
    <2> QED
      BY <1>1, <1>4 DEF N
  <1>6. r0 \in NodeType /\ r0.base = -h /\ r0.check = -q
    <2> HIDE DEF h, q
    <2> QED
      BY <1>5 DEF NodeType
  <1>7. f1 \in [N -> NodeType] /\ f1[e] = r0 /\ \A b \in N : b # e => f1[b] = f[b]
    <2>1. f1 = WithAt(f, e, r0) /\ f \in [N -> NodeType] /\ r0 \in NodeType /\ e \in N
      BY <1>2, <1>6
    <2> DEFINE j == e
    <2>2. j \in N
      BY <2>1
    <2> HIDE DEF r0, f, N, j
    <2>3. Differs(N, NodeType, f, j, r0, WithAt(f, j, r0))
      BY <2>1, <2>2, SetOne
    <2> QED
      BY <2>3 DEF j, Differs
  <1>8. r1 \in NodeType /\ r1.check = -e /\ r1.base = f[h].base
    <2> DEFINE y == f1[h]
    <2>1. y = f[h] /\ y \in NodeType
      <3> HIDE DEF f1, h
      <3> QED
        BY <1>5, <1>7
    <2>2. r1 = [y EXCEPT !.check = -e]
      OBVIOUS
    <2> DEFINE c == -e
    <2>4. c \in Int /\ r1 = [y EXCEPT !.check = c]
      BY <1>0, <2>2
    <2> HIDE DEF f1, h, y, r1, c
    <2>5. r1 \in NodeType /\ r1.check = c /\ r1.base = y.base
      BY <2>1, <2>4 DEF NodeType
    <2>3. r1 \in NodeType /\ r1.check = -e /\ r1.base = y.base
      BY <2>5 DEF c
    <2> QED
      BY <2>1, <2>3
  <1>9. f2 \in [N -> NodeType] /\ f2[h] = r1 /\ \A b \in N : b # h => f2[b] = f1[b]
    <2>1. f2 = WithAt(f1, h, r1) /\ f1 \in [N -> NodeType] /\ r1 \in NodeType /\ h \in N
      BY <1>5, <1>7, <1>8
    <2> HIDE DEF r1, f1, h, N
    <2>2. Differs(N, NodeType, f1, h, r1, WithAt(f1, h, r1))
      BY <2>1, SetOne
    <2> QED
      BY <2>2 DEF Differs
  <1>10. r2 \in NodeType /\ r2.base = -e /\ r2.check = f2[q].check
    <2> DEFINE y == f2[q]
    <2>1. y \in NodeType
      <3> HIDE DEF f2, q
      <3> QED
        BY <1>5, <1>9
    <2>2. r2 = [y EXCEPT !.base = -e]
      OBVIOUS
    <2> DEFINE c == -e
    <2>4. c \in Int /\ r2 = [y EXCEPT !.base = c]
      BY <1>0, <2>2
    <2> HIDE DEF f2, q, y, r2, c
    <2>5. r2 \in NodeType /\ r2.base = c /\ r2.check = y.check
      BY <2>1, <2>4 DEF NodeType
    <2>3. r2 \in NodeType /\ r2.base = -e /\ r2.check = y.check
      BY <2>5 DEF c
    <2> QED
      BY <2>3 DEF y
  <1>11. f3 \in [N -> NodeType] /\ f3[q] = r2 /\ \A b \in N : b # q => f3[b] = f2[b]
    <2>1. f3 = WithAt(f2, q, r2) /\ f2 \in [N -> NodeType] /\ r2 \in NodeType /\ q \in N
      BY <1>5, <1>9, <1>10
    <2> HIDE DEF r2, f2, q, N
    <2>2. Differs(N, NodeType, f2, q, r2, WithAt(f2, q, r2))
      BY <2>1, SetOne
    <2> QED
      BY <2>2 DEF Differs
  <1>12. ASSUME NEW x \in N
         PROVE  /\ f3[x].check = IF x = h THEN -e ELSE IF x = e THEN -q ELSE f[x].check
                /\ f3[x].base = IF x = q THEN -e ELSE IF x = e THEN -h ELSE f[x].base
                /\ x # h /\ x # q /\ x # e => f3[x] = f[x]
    <2> HIDE DEF r0, r1, r2, f1, f2, f3, h, q, f, N
    <2>1. CASE x = q
      BY <2>1, <1>5, <1>6, <1>7, <1>8, <1>9, <1>10, <1>11
    <2>2. CASE x = h
      BY <2>2, <1>5, <1>6, <1>7, <1>8, <1>9, <1>10, <1>11
    <2>3. CASE x = e
      BY <2>3, <1>5, <1>6, <1>7, <1>8, <1>9, <1>10, <1>11
    <2>4. CASE x # e /\ x # h /\ x # q
      BY <2>4, <1>5, <1>6, <1>7, <1>8, <1>9, <1>10, <1>11
    <2> QED
      BY <2>1, <2>2, <2>3, <2>4
  <1>13. bi \in D
    BY <1>0
  <1>14. /\ rb \in BlockType /\ rb.next = t.block[bi].next /\ rb.prev = t.block[bi].prev
         /\ rb.num = t.block[bi].num + 1 /\ rb.ehead = h /\ rb.trial = t.block[bi].trial
    <2>1. t.block[bi] \in BlockType
      BY <1>0, <1>13
    <2> QED
      BY <2>1 DEF BlockType
  <1>15. u = [t EXCEPT !.node = f3, !.block = WithAt(@, bi, rb)]
    <2> DEFINE n == t.block[bi].num
               a0 == [t EXCEPT !.block[bi].num = @ + 1]
               a1 == [a0 EXCEPT !.node[e] = r0]
               a2 == [a1 EXCEPT !.node[h].check = -e]
               a3 == [a2 EXCEPT !.node[q].base = -e]
    <2>1. u = a3
      BY DEF LinkedFree
    <2> HIDE DEF q, h, rb
    <2>2. a0 = [t EXCEPT !.block = WithAt(@, bi, rb)] /\ a0.node = f
      BY <1>0 DEF WithAt, rb
    <2>3. a1 = [a0 EXCEPT !.node = f1] /\ a1.node = f1
      <3> HIDE DEF a0, r0
      <3>1. a0 \in [node : [N -> NodeType], ninfo : [N -> NinfoType],
                  block : {a0.block}, head : [ListNames -> Nat],
                  capacity : Nat, size : Nat, reject : [0..B -> Int]]
        BY <1>0, <2>2
      <3> QED
        BY <2>2, <3>1 DEF WithAt
    <2>4. a2 = [a1 EXCEPT !.node = f2] /\ a2.node = f2
      <3> HIDE DEF a0, r0
      <3>1. a1 \in [node : {f1}, ninfo : [N -> NinfoType],
                  block : {a1.block}, head : [ListNames -> Nat],
                  capacity : Nat, size : Nat, reject : [0..B -> Int]]
        BY <1>0, <2>2, <2>3
      <3> HIDE DEF a1, f1
      <3> QED
        BY <2>3, <3>1 DEF WithAt
    <2>5. a3 = [a2 EXCEPT !.node = f3]
      <3> HIDE DEF a2, f2
      <3> QED
        BY <2>4 DEF WithAt
    <2> HIDE DEF a0, a1, a2, a3, f1, f2, f3
    <2> QED
      BY <1>0, <2>1, <2>2, <2>3, <2>4, <2>5
  <1>16. Rewrote(t, u, f3, bi, rb)
    <2> DEFINE j == bi
    <2>1. j \in D
      BY <1>13
    <2>2. rb.next = t.block[j].next
      BY <1>14
    <2>3. rb.prev = t.block[j].prev
      BY <1>14
    <2>4. rb \in BlockType
      BY <1>14
    <2>5. f3 \in [N -> NodeType]
      BY <1>11
    <2>6. u = [t EXCEPT !.node = f3, !.block = WithAt(@, j, rb)]
      BY <1>15
    <2> HIDE DEF f3, u, rb, j
    <2>7. Rewrote(t, u, f3, j, rb)
      BY <2>1, <2>2, <2>3, <2>4, <2>5, <2>6, RewriteOk
    <2> QED
      BY <2>7 DEF j
  <1>17. SameLinks(t, u) /\ u.node = f3 /\ u.ninfo = t.ninfo /\ u.reject = t.reject
        /\ u.block[bi] = rb /\ \A b \in D : b # bi => u.block[b] = t.block[b]
    <2> HIDE DEF f3, u, rb
    <2> QED
      BY <1>16 DEF Rewrote
  <1>18. NodeRing(u, F \cup {e})
    <2> DEFINE n1 == [x \in F \cup {e} |-> -u.node[x].check]
               p1 == [x \in F \cup {e} |-> -u.node[x].base]
    <2>0. \A x \in F \cup {e} : x \in N
      BY <1>1
    <2>1. n1[h] = e /\ n1[e] = q /\ p1[e] = h /\ p1[q] = e
      <3>1. u.node[h].check = -e /\ u.node[e].check = -q /\ u.node[e].base = -h /\ u.node[q].base = -e
        <4> HIDE DEF u, f3, h, q
        <4> QED
          BY <1>5, <1>12, <1>17
      <3> HIDE DEF u, h, q
      <3> QED
        BY <3>1, <1>4, <1>5
    <2>2. \A x \in F \ {h} : n1[x] = next[x]
      <3> HIDE DEF u, h, q, f3
      <3> QED
        BY <2>0, <1>12, <1>17
    <2>3. \A x \in F \ {q} : p1[x] = prev[x]
      <3> HIDE DEF u, h, q, f3
      <3> QED
        BY <2>0, <1>12, <1>17
    <2>4. IsRing(F \cup {e}, n1, p1)
      <3>1. h \in F /\ next[h] = q
        BY <1>4
      <3>2. n1[e] = next[h] /\ p1[next[h]] = e
        <4> HIDE DEF n1, p1, next, q, h
        <4> QED
          BY <2>1, <3>1
      <3>3. \A x \in F \ {next[h]} : p1[x] = prev[x]
        <4> HIDE DEF n1, p1, next, q, h
        <4> QED
          BY <2>3, <3>1
      <3> DEFINE j == e
      <3>4. j \notin F /\ n1[h] = j /\ n1[j] = next[h] /\ p1[j] = h /\ p1[next[h]] = j
        BY <2>1, <3>2
      <3> HIDE DEF n1, p1, next, prev, q, h, j
      <3>5. IsRing(F \cup {j}, n1, p1)
        BY <1>3, <2>2, <3>1, <3>3, <3>4, RingInsert
      <3> QED
        BY <3>5 DEF j
    <2> QED
      BY <2>4 DEF NodeRing
  <1>19. \A i \in N : (i \notin F \cup {e} => u.node[i] = f[i]) /\ (i \in F \cup {e} => u.node[i].check < 0)
    <2> TAKE i \in N
    <2> HIDE DEF u, h, q, f3, f, N
    <2>1. i \notin F \cup {e} => u.node[i] = f[i]
      BY <1>4, <1>12, <1>17
    <2>2. ASSUME i \in F \cup {e} PROVE u.node[i].check < 0
      <3>1. e > 0
        BY <1>0
      <3>2. i # e => i \in F /\ f[i].check < 0
        BY <2>2, <1>1
      <3>3. u.node[i].check = IF i = h THEN -e ELSE IF i = e THEN -q ELSE f[i].check
        BY <1>12, <1>17
      <3> QED
        BY <3>1, <3>2, <3>3, <1>0, <1>5
    <2> QED
      BY <2>1, <2>2
  <1>20. \A b \in D :
         /\ u.block[b].trial = t.block[b].trial
         /\ u.block[b].num = IF b = bi THEN t.block[bi].num + 1 ELSE t.block[b].num
         /\ b # bi => u.block[b].ehead = t.block[b].ehead
    <2> HIDE DEF u, rb
    <2> QED
      BY <1>14, <1>17
  <1>21. u.block[bi].ehead \in F \cup {e}
    <2> HIDE DEF u, rb, h
    <2> QED
      BY <1>4, <1>14, <1>17
  <1>22. Shape(u) /\ u.size = t.size /\ u.capacity = t.capacity
    BY <1>17 DEF SameLinks
  <1> HIDE DEF u, rb, h, q, f3
  <1>23. Joined(t, u, bi, e)
    BY <1>17, <1>18, <1>19, <1>20, <1>21, <1>22 DEF Joined
  <1> QED
    BY <1>17, <1>23 DEF u

Finished(u, w, bi, e, n) ==
    /\ SameLinks(u, w) /\ w.node = u.node /\ w.reject = u.reject
    /\ w.ninfo[e] = NewNinfo /\ \A i \in 0..(u.capacity - 1) : i # e => w.ninfo[i] = u.ninfo[i]
    /\ \A b \in 0..(CB(u) - 1) :
         /\ w.block[b].num = u.block[b].num /\ w.block[b].ehead = u.block[b].ehead
         /\ w.block[b].trial = IF b = bi /\ n # 0 THEN 0 ELSE u.block[b].trial

\* FinishFree, the end of PushEmptyNode: the node's labels are cleared, and a block
\* that had free nodes is tried afresh.
LEMMA FinishFreeOk ==
    ASSUME NEW u, Shape(u), NEW bi, bi \in 0..(CB(u) - 1), NEW e, e \in 0..(u.capacity - 1),
           NEW n, n \in Nat, NEW r, r \in Int
    PROVE  Finished(u, FinishFree(u, bi, e, n, r), bi, e, n)
  <1> DEFINE D == 0..(CB(u) - 1)
             N == 0..(u.capacity - 1)
             w == FinishFree(u, bi, e, n, r)
             tr == IF n = 0 THEN u.block[bi].trial ELSE 0
             rj == IF u.block[bi].reject < r THEN r ELSE u.block[bi].reject
             g == u.block
             h == [b \in D |-> IF b = bi THEN [g[bi] EXCEPT !.trial = tr, !.reject = rj] ELSE g[b]]
             m == [i \in N |-> IF i = e THEN NewNinfo ELSE u.ninfo[i]]
  <1>0. /\ u \in [node : [N -> NodeType], ninfo : [N -> NinfoType],
                  block : [D -> BlockType], head : [ListNames -> Nat],
                  capacity : Nat, size : Nat, reject : [0..B -> Int]]
        /\ g \in [D -> BlockType]
    BY DEF Shape
  <1>1. w = [u EXCEPT !.block = h, !.ninfo = m]
    <2> DEFINE g1 == [g EXCEPT ![bi].trial = tr]
               g2 == [g1 EXCEPT ![bi].reject = rj]
               a0 == [u EXCEPT !.block[bi].trial = IF n = 0 THEN @ ELSE 0]
               a1 == [a0 EXCEPT !.block[bi].reject = IF @ < r THEN r ELSE @]
               a2 == [a1 EXCEPT !.ninfo[e] = NewNinfo]
    <2>1. w = a2
      BY DEF FinishFree
    <2>2. a0 = [u EXCEPT !.block = g1] /\ a0.block = g1 /\ a0.ninfo = u.ninfo
      BY <1>0
    <2>3. g1[bi].reject = u.block[bi].reject
      <3>1. g[bi] \in BlockType
        BY <1>0
      <3>2. g1[bi] = [g[bi] EXCEPT !.trial = tr]
        BY <1>0
      <3> QED
        BY <3>1, <3>2 DEF BlockType
    <2>4. a1 = [a0 EXCEPT !.block = g2]
      <3> HIDE DEF a0, g1
      <3>1. a1 = [a0 EXCEPT !.block[bi].reject = rj]
        BY <2>2, <2>3
      <3> HIDE DEF rj
      <3> QED
        BY <2>2, <3>1
    <2>5. g2 = h
      <3> DEFINE j == bi
      <3>0. j \in D
        OBVIOUS
      <3>1. g1 = [b \in D |-> IF b = bi THEN [g[bi] EXCEPT !.trial = tr] ELSE g[b]]
        BY <1>0
      <3>2. g2 = [b \in D |-> IF b = bi THEN [g1[bi] EXCEPT !.reject = rj] ELSE g1[b]]
        BY <3>1
      <3>3. g1[bi] = [g[bi] EXCEPT !.trial = tr]
        BY <3>1
      <3> HIDE DEF g1, g2, g, tr, rj
      <3>4. \A b \in D : g2[b] = h[b]
        <4> TAKE b \in D
        <4>1. CASE b = bi
          <5>1. g2[b] = [g1[bi] EXCEPT !.reject = rj] /\ h[b] = [g[bi] EXCEPT !.trial = tr, !.reject = rj]
            BY <4>1, <3>2
          <5> QED
            BY <5>1, <3>3
        <4>2. CASE b # bi
          <5>1. g2[b] = g1[b] /\ g1[b] = g[b] /\ h[b] = g[b]
            BY <4>2, <3>1, <3>2
          <5> QED
            BY <5>1
        <4> QED
          BY <4>1, <4>2
      <3>5. DOMAIN g2 = D /\ DOMAIN h = D /\ g2 = [b \in D |-> g2[b]] /\ h = [b \in D |-> h[b]]
        BY <3>2
      <3> HIDE DEF h
      <3> QED
        BY <3>4, <3>5
    <2> HIDE DEF a0, g1, g2, h
    <2>6. a1 = [u EXCEPT !.block = h] /\ a1.ninfo = u.ninfo
      BY <1>0, <2>2, <2>4, <2>5
    <2>7. a2 = [a1 EXCEPT !.ninfo = m]
      <3>1. [u.ninfo EXCEPT ![e] = NewNinfo] = m
        BY <1>0
      <3> HIDE DEF a1, m
      <3> QED
        BY <2>6, <3>1
    <2> HIDE DEF a1, a2, m
    <2> QED
      BY <1>0, <2>1, <2>6, <2>7
  <1>2. tr \in Nat /\ rj \in Int /\ u.block[bi] \in BlockType
    BY <1>0 DEF BlockType
  <1> DEFINE rb == [g[bi] EXCEPT !.trial = tr, !.reject = rj]
  <1>3. /\ rb \in BlockType /\ rb.next = g[bi].next /\ rb.prev = g[bi].prev
        /\ rb.num = g[bi].num /\ rb.ehead = g[bi].ehead /\ rb.trial = tr
    <2> HIDE DEF tr, rj
    <2> QED
      BY <1>2 DEF BlockType
  <1>4. h \in [D -> BlockType] /\ h[bi] = rb /\ \A b \in D : b # bi => h[b] = g[b]
    <2>1. h = [b \in D |-> IF b = bi THEN rb ELSE g[b]]
      OBVIOUS
    <2> HIDE DEF rb, h, g
    <2> QED
      BY <1>0, <1>3, <2>1
  <1>5. NewNinfo \in NinfoType
    BY LabelAssumption DEF NewNinfo, NinfoType, Label
  <1>6. m \in [N -> NinfoType] /\ m[e] = NewNinfo /\ \A i \in N : i # e => m[i] = u.ninfo[i]
    <2> HIDE DEF NinfoType
    <2> QED
      BY <1>0, <1>5
  <1>7. /\ w.node = u.node /\ w.block = h /\ w.ninfo = m /\ w.head = u.head /\ w.capacity = u.capacity
        /\ w.size = u.size /\ w.reject = u.reject
        /\ w \in [node : [N -> NodeType], ninfo : [N -> NinfoType],
                  block : [D -> BlockType], head : [ListNames -> Nat],
                  capacity : Nat, size : Nat, reject : [0..B -> Int]]
    <2> HIDE DEF h, m, w
    <2> QED
      BY <1>0, <1>1, <1>4, <1>6
  <1>8. Shape(w)
    <2> HIDE DEF w
    <2> QED
      BY <1>7 DEF Shape, NB, CB
  <1>9. \A b \in D : w.block[b].next = g[b].next /\ w.block[b].prev = g[b].prev
             /\ w.block[b].num = g[b].num /\ w.block[b].ehead = g[b].ehead
             /\ w.block[b].trial = IF b = bi /\ n # 0 THEN 0 ELSE g[b].trial
    <2> HIDE DEF w, h, rb
    <2> QED
      BY <1>3, <1>4, <1>7
  <1>10. SameLinks(u, w)
    <2> HIDE DEF w, h
    <2> QED
      BY <1>7, <1>8, <1>9 DEF SameLinks
  <1> HIDE DEF w, h, m
  <1>11. Finished(u, w, bi, e, n)
    BY <1>6, <1>7, <1>9, <1>10 DEF Finished
  <1> QED
    BY <1>11 DEF w

\* From t to w node e was freed.
Freed(t, w, e) ==
    /\ w.size = t.size /\ w.capacity = t.capacity
    /\ w.ninfo[e] = NewNinfo
    /\ \A i \in 0..(t.capacity - 1) : i # e => w.ninfo[i] = t.ninfo[i]
    /\ Free(w) = Free(t) \cup {e}
    /\ \A i \in 0..(t.capacity - 1) : i \notin Free(t) \cup {e} => w.node[i] = t.node[i]

\* A used node
UsedNode(t, e) == e \in 1..(t.size - 1) /\ t.node[e].check >= 0

\* The block of a used node has room for it.
UsedIn(t, e, bi) ==
    /\ bi \in 0..(NB(t) - 1) /\ bi \in 0..(CB(t) - 1) /\ e \in 0..(t.capacity - 1) /\ e # 0 /\ e \in Nat
    /\ e \notin FreeIn(t, bi) /\ e \notin Free(t)
    /\ Cardinality(FreeIn(t, bi) \cup {e}) = Cardinality(FreeIn(t, bi)) + 1
    /\ Cardinality(FreeIn(t, bi)) \in Nat
    /\ t.block[bi].num = Cardinality(FreeIn(t, bi)) + (IF bi = 0 THEN 1 ELSE 0)
    /\ t.block[bi].num = 0 <=> FreeIn(t, bi) = {}
    /\ t.block[bi].num + 1 \in 0..B
    /\ t.reject[t.block[bi].num + 1] \in Int

\* A block with a node in use counts less than B free nodes.
LEMMA NumUsed ==
    ASSUME NEW t, Alloc(t), NEW e, UsedNode(t, e), NEW bi, bi = e \div B
    PROVE  UsedIn(t, e, bi)
  <1>0. Shape(t) /\ e \in 1..(t.size - 1) /\ t.node[e].check >= 0 /\ FreeIn(t, 0) # {}
    BY DEF Alloc, UsedNode
  <1>1. /\ t.size \in Nat /\ t.size = B * NB(t) /\ NB(t) \in Nat /\ CB(t) \in Nat /\ NB(t) <= CB(t) /\ 1 <= NB(t)
        /\ t.reject \in [0..B -> Int] /\ t.node \in [0..(t.capacity - 1) -> NodeType] /\ t.capacity \in Nat
    BY <1>0 DEF Shape
  <1>2. e \in Nat /\ e < B * NB(t) /\ e # 0
    BY <1>0, <1>1
  <1>3. bi \in 0..(NB(t) - 1)
    <2>1. e \div B \in Nat /\ (e < B * NB(t) <=> e \div B < NB(t))
      BY <1>1, <1>2, Division, BlockInterval
    <2> DEFINE n == NB(t)
               q == e \div B
    <2>2. q \in Nat /\ q < n /\ n \in Nat
      BY <1>1, <1>2, <2>1
    <2> HIDE DEF n, q
    <2>3. q \in 0..(n - 1)
      BY <2>2
    <2> QED
      BY <2>3 DEF n, q
  <1>4. t.size <= t.capacity
    <2>1. PICK x : x \in FreeIn(t, 0)
      BY <1>0
    <2>2. 0 \in 0..(NB(t) - 1)
      BY <1>1
    <2> QED
      BY <1>0, <2>1, <2>2, FreeInNodes
  <1>5. e \in 0..(t.capacity - 1) /\ bi \in 0..(CB(t) - 1)
    <2>1. e \in 0..(t.capacity - 1)
      BY <1>0, <1>1, <1>4
    <2> QED
      BY <2>1, <1>1, <1>3
  <1>6. ~ (t.node[e].check < 0)
    <2>1. t.node[e].check \in Int
      BY <1>1, <1>5 DEF NodeType
    <2> QED
      BY <2>1, <1>0
  <1> DEFINE F == FreeIn(t, bi)
             c == Cardinality(F)
  <1>7. e \notin F /\ e \notin Free(t)
    BY <1>6 DEF FreeIn, Free
  <1>8. /\ F = {i \in 0..(t.size - 1) : i # 0 /\ i \div B = bi /\ t.node[i].check < 0}
        /\ IsFiniteSet(F) /\ c \in Nat
    <2> DEFINE j == bi
    <2>1. j \in 0..(NB(t) - 1)
      BY <1>3
    <2> HIDE DEF j
    <2>2. /\ FreeIn(t, j) = {i \in 0..(t.size - 1) : i # 0 /\ i \div B = j /\ t.node[i].check < 0}
          /\ IsFiniteSet(FreeIn(t, j)) /\ Cardinality(FreeIn(t, j)) \in Nat
      BY <1>0, <2>1, FreeInBlock
    <2> QED
      BY <2>2 DEF j
  <1>9. Cardinality(F \cup {e}) = c + 1
    <2> DEFINE j == e
    <2>1. j \notin F
      BY <1>7
    <2> HIDE DEF F, j
    <2>2. Cardinality(F \cup {j}) = Cardinality(F) + 1
      BY <1>8, <2>1, FS_AddElement
    <2> QED
      BY <2>2 DEF j
  <1>10. t.block[bi].num = c + (IF bi = 0 THEN 1 ELSE 0)
    BY <1>3 DEF Alloc, RingOk
  <1>11. t.block[bi].num = 0 <=> F = {}
    <2>1. c = 0 <=> F = {}
      <3> HIDE DEF F
      <3> QED
        BY <1>8, FS_EmptySet
    <2>2. bi = 0 => F # {}
      BY <1>0
    <2> HIDE DEF F, c
    <2> QED
      BY <1>8, <1>10, <2>1, <2>2
  <1>12. c + 1 + (IF bi = 0 THEN 1 ELSE 0) <= B
    <2> DEFINE t2 == [t EXCEPT !.node = WithAt(@, e, [base |-> 0, check |-> -1])]
    <2>1. NodeSet(t, t2, e, [base |-> 0, check |-> -1])
      <3> DEFINE j == e
                 r == [base |-> 0, check |-> -1]
      <3>1. j \in 0..(t.capacity - 1)
        BY <1>5
      <3>2. r \in NodeType
        BY DEF NodeType
      <3>3. t2 = [t EXCEPT !.node[j] = r]
        BY <1>0 DEF WithAt, Shape
      <3> HIDE DEF t2, j, r
      <3>4. NodeSet(t, t2, j, r)
        BY <1>0, <3>1, <3>2, <3>3, WithNodeOk
      <3> QED
        BY <3>4 DEF j, r
    <2>2. /\ Shape(t2) /\ t2.size = t.size /\ t2.capacity = t.capacity /\ NB(t2) = NB(t)
          /\ t2.node[e] = [base |-> 0, check |-> -1]
          /\ \A i \in 0..(t.capacity - 1) : i # e => t2.node[i] = t.node[i]
      <3> HIDE DEF t2
      <3> QED
        BY <2>1 DEF NodeSet, SameLinks, NB
    <2>3. FreeIn(t2, bi) = F \cup {e}
      <3>1. FreeIn(t2, bi) = {i \in 0..(t2.size - 1) : i # 0 /\ i \div B = bi /\ t2.node[i].check < 0}
        <4> DEFINE j == bi
        <4>1. j \in 0..(NB(t2) - 1)
          BY <1>3, <2>2
        <4> HIDE DEF j, t2
        <4>2. FreeIn(t2, j) = {i \in 0..(t2.size - 1) : i # 0 /\ i \div B = j /\ t2.node[i].check < 0}
          BY <2>2, <4>1, FreeInBlock
        <4> QED
          BY <4>2 DEF j
      <3>2. 0..(t.size - 1) \subseteq 0..(t.capacity - 1)
        BY <1>1, <1>4
      <3>3. t2.node[e].check < 0 /\ e \in 0..(t.size - 1) /\ e \div B = bi /\ e # 0
        <4>1. t2.node[e].check = -1
          BY <2>2
        <4> HIDE DEF t2
        <4> QED
          BY <4>1, <1>0, <1>1, <1>2
      <3>4. \A i \in 0..(t.size - 1) : i # e => t2.node[i] = t.node[i]
        BY <2>2, <3>2
      <3> HIDE DEF t2, F
      <3> QED
        BY <3>1, <3>3, <3>4, <1>8, <2>2
    <2>4. Cardinality(FreeIn(t2, bi)) + (IF bi = 0 THEN 1 ELSE 0) <= B
      <3> DEFINE j == bi
      <3>1. j \in 0..(NB(t2) - 1)
        BY <1>3, <2>2
      <3> HIDE DEF j, t2
      <3>2. Cardinality(FreeIn(t2, j)) + (IF j = 0 THEN 1 ELSE 0) <= B
        BY <2>2, <3>1, FreeInBlock
      <3> QED
        BY <3>2 DEF j
    <2> QED
      BY <2>3, <2>4, <1>9
  <1>13. t.block[bi].num + 1 \in 0..B
    <2> DEFINE n == t.block[bi].num
    <2> HIDE DEF c
    <2>1. n = c + (IF bi = 0 THEN 1 ELSE 0) /\ c + 1 + (IF bi = 0 THEN 1 ELSE 0) <= B /\ c \in Nat
      BY <1>8, <1>10, <1>12
    <2>2. B \in Nat
      BY LabelAssumption
    <2> HIDE DEF n
    <2>3. n + 1 \in 0..B
      BY <2>1, <2>2
    <2> QED
      BY <2>3 DEF n
  <1>14. t.reject[t.block[bi].num + 1] \in Int
    BY <1>1, <1>13
  <1> QED
    BY <1>2, <1>3, <1>5, <1>7, <1>8, <1>9, <1>10, <1>11, <1>13, <1>14 DEF UsedIn

\* Put on another list, the block keeps its ring.
LEMMA JoinedMoved ==
    ASSUME NEW t, Alloc(t), NEW bi, bi \in 1..(NB(t) - 1), NEW e, NEW u, Joined(t, u, bi, e), SameLinks(t, u),
           NEW in, in \in ListNames, NEW out, out \in ListNames, in # out, ListIn(t, bi) = in,
           out # "full", NEW v, v = TransferBlock(u, bi, in, out)
    PROVE  /\ Joined(t, v, bi, e)
           /\ Linked(v, [l \in ListNames |-> CASE l = in -> OnList(t)[l] \ {bi} [] l = out -> OnList(t)[l] \cup {bi}
                                     [] OTHER -> OnList(t)[l]])
  <1> DEFINE on == OnList(t)
             on2 == [l \in ListNames |-> CASE l = in -> on[l] \ {bi} [] l = out -> on[l] \cup {bi}
                                           [] OTHER -> on[l]]
  <1>0. Shape(t) /\ Linked(t, on) /\ bi \in 0..(CB(t) - 1) /\ t.block[bi].num \in Nat
        /\ NB(t) \in Nat /\ CB(t) \in Nat /\ NB(t) <= CB(t)
    <2>1. Shape(t) /\ Linked(t, on)
      BY DEF Alloc
    <2>2. NB(t) \in Nat /\ CB(t) \in Nat /\ NB(t) <= CB(t) /\ t.block \in [0..(CB(t) - 1) -> BlockType]
      BY <2>1 DEF Shape
    <2>3. bi \in 0..(CB(t) - 1)
      BY <2>2
    <2> QED
      BY <2>1, <2>2, <2>3 DEF BlockType
  <1>1. u.block[bi].num = t.block[bi].num + 1 /\ u.block[bi].num # 0
    BY <1>0 DEF Joined
  <1>2. Linked(u, on) /\ Shape(u)
    <2> HIDE DEF on
    <2> QED
      BY <1>0, LinkedSame DEF Joined
  <1>3. bi \in on[in]
    BY DEF OnList
  <1>4. Kept(u, v) /\ Linked(v, on2)
    <2>1. out = "full" <=> u.block[bi].num = 0
      BY <1>1
    <2> HIDE DEF on
    <2> QED
      BY <1>2, <1>3, <2>1, TransferOk
  <1>5. /\ Shape(v) /\ v.node = u.node /\ v.ninfo = u.ninfo /\ v.capacity = u.capacity /\ v.size = u.size
        /\ v.reject = u.reject /\ CB(u) = CB(t)
        /\ \A b \in 0..(CB(t) - 1) :
             /\ v.block[b].num = u.block[b].num
             /\ v.block[b].trial = u.block[b].trial /\ v.block[b].ehead = u.block[b].ehead
    <2>1. CB(u) = CB(t)
      BY DEF Joined, CB
    <2> QED
      BY <2>1, <1>4 DEF Kept
  <1>6. Joined(t, v, bi, e)
    <2>1. NodeRing(v, FreeIn(t, bi) \cup {e})
      BY <1>5 DEF Joined, NodeRing
    <2>2. v.block[bi].ehead \in FreeIn(t, bi) \cup {e}
      BY <1>0, <1>5 DEF Joined
    <2>3. \A i \in 0..(t.capacity - 1) :
         /\ i \notin FreeIn(t, bi) \cup {e} => v.node[i] = t.node[i]
         /\ i \in FreeIn(t, bi) \cup {e} => v.node[i].check < 0
      BY <1>5 DEF Joined
    <2>4. \A b \in 0..(CB(t) - 1) :
         /\ v.block[b].trial = t.block[b].trial
         /\ v.block[b].num = IF b = bi THEN t.block[bi].num + 1 ELSE t.block[b].num
         /\ b # bi => v.block[b].ehead = t.block[b].ehead
      BY <1>5 DEF Joined
    <2>5. Shape(v) /\ v.size = t.size /\ v.capacity = t.capacity /\ v.ninfo = t.ninfo /\ v.reject = t.reject
      BY <1>5 DEF Joined
    <2> QED
      BY <2>1, <2>2, <2>3, <2>4, <2>5 DEF Joined
  <1> QED
    BY <1>4, <1>6

\* From t to w only the nodes and the free nodes of one block changed.
OneBlock(t, w, bi) ==
    /\ Shape(w) /\ w.capacity = t.capacity /\ w.size = t.size
    /\ \A i \in 0..(t.capacity - 1) : i \div B # bi => w.node[i] = t.node[i]
    /\ \A b \in 0..(CB(t) - 1) : b # bi =>
               /\ w.block[b].num = t.block[b].num /\ w.block[b].trial = t.block[b].trial
               /\ w.block[b].ehead = t.block[b].ehead

\* A node that is not in use has no children.
SparesClean(w) == \A i \in 0..(w.capacity - 1) : Spare(w, i) => w.ninfo[i] = NewNinfo

\* A step that changes the free nodes of one block and the lists it is on keeps the
\* allocator consistent if the ring, the trial and the lists of the new state are.
LEMMA AllocStepOf ==
    ASSUME NEW t, Alloc(t), NEW bi, bi \in 0..(NB(t) - 1), NEW w, OneBlock(t, w, bi),
           RingOk(w, bi), w.block[bi].trial \in {0, 1},
           Linked(w, OnList(w)), FreeIn(w, 0) # {}, SparesClean(w)
    PROVE  Alloc(w)
  <1> DEFINE j == bi
  <1>1. j \in 0..(NB(t) - 1)
    OBVIOUS
  <1>2. Shape(w) /\ w.capacity = t.capacity /\ w.size = t.size
    BY DEF OneBlock
  <1>3. \A i \in 0..(t.capacity - 1) : i \div B # j => w.node[i] = t.node[i]
    BY DEF OneBlock
  <1>4. \A b \in 0..(CB(t) - 1) : b # j =>
               /\ w.block[b].num = t.block[b].num /\ w.block[b].trial = t.block[b].trial
               /\ w.block[b].ehead = t.block[b].ehead
    BY DEF OneBlock
  <1>5. \A i \in 0..(t.capacity - 1) : Spare(w, i) => w.ninfo[i] = NewNinfo
    BY <1>2 DEF SparesClean
  <1>6. RingOk(w, j) /\ w.block[j].trial \in {0, 1}
    OBVIOUS
  <1> HIDE DEF j
  <1> QED
    BY <1>1, <1>2, <1>3, <1>4, <1>5, <1>6, AllocStep

\* A block with a free node more, on its list, is as it should be.
LEMMA FreedOk ==
    ASSUME NEW t, Alloc(t), NEW e, UsedNode(t, e), NEW bi, bi = e \div B, NEW v, Joined(t, v, bi, e),
           NEW r, r \in Int, NEW w, w = FinishFree(v, bi, e, t.block[bi].num, r),
           Linked(v, OnList(w))
    PROVE  Alloc(w) /\ Freed(t, w, e)
  <1> DEFINE F == FreeIn(t, bi)
             N == 0..(t.capacity - 1)
             n == t.block[bi].num
  <1>0. /\ bi \in 0..(NB(t) - 1) /\ bi \in 0..(CB(t) - 1) /\ e \in N /\ e # 0
        /\ e \notin F /\ e \notin Free(t) /\ Cardinality(F \cup {e}) = Cardinality(F) + 1
        /\ Cardinality(F) \in Nat
        /\ n = Cardinality(F) + (IF bi = 0 THEN 1 ELSE 0)
    <2>1. /\ bi \in 0..(NB(t) - 1) /\ bi \in 0..(CB(t) - 1) /\ e \in 0..(t.capacity - 1) /\ e # 0
          /\ e \notin FreeIn(t, bi) /\ e \notin Free(t)
          /\ Cardinality(FreeIn(t, bi) \cup {e}) = Cardinality(FreeIn(t, bi)) + 1
          /\ Cardinality(FreeIn(t, bi)) \in Nat
          /\ t.block[bi].num = Cardinality(FreeIn(t, bi)) + (IF bi = 0 THEN 1 ELSE 0)
      <3>1. UsedIn(t, e, bi)
        BY NumUsed
      <3> QED
        BY <3>1 DEF UsedIn
    <2> QED
      BY <2>1
  <1>a. /\ Shape(t) /\ t.block[bi].trial \in {0, 1} /\ n \in Nat /\ e \in 0..(t.size - 1)
        /\ NB(t) \in Nat /\ CB(t) \in Nat /\ 1 <= NB(t) /\ NB(t) <= CB(t) /\ t.size \in Nat /\ t.capacity \in Nat
    <2>1. Shape(t) /\ t.block[bi].trial \in {0, 1}
      BY <1>0 DEF Alloc
    <2>2. e \in 0..(t.size - 1)
      BY DEF UsedNode
    <2> QED
      BY <1>0, <2>1, <2>2, SMTT(60) DEF Shape
  <1>1. Finished(v, w, bi, e, n)
    <2>1. Shape(v) /\ CB(v) = CB(t) /\ v.capacity = t.capacity
      BY DEF Joined, CB
    <2> DEFINE j == bi
               k == e
               m == n
    <2>2. j \in 0..(CB(v) - 1)
      BY <1>0, <2>1
    <2>3. k \in 0..(v.capacity - 1)
      BY <1>0, <2>1
    <2>4. m \in Nat
      BY <1>a
    <2>5. w = FinishFree(v, j, k, m, r)
      OBVIOUS
    <2> HIDE DEF j, k, m, n
    <2>6. Finished(v, FinishFree(v, j, k, m, r), j, k, m)
      BY <2>1, <2>2, <2>3, <2>4, FinishFreeOk
    <2> QED
      BY <2>5, <2>6 DEF j, k, m
  <1>2. /\ Shape(w) /\ w.size = t.size /\ w.capacity = t.capacity /\ NB(w) = NB(t) /\ CB(w) = CB(t) /\ CB(v) = CB(t)
        /\ w.node = v.node /\ v.ninfo = t.ninfo /\ v.capacity = t.capacity /\ Shape(v) /\ SameLinks(v, w)
    BY <1>1 DEF Finished, Joined, SameLinks, NB, CB
  <1>3. \A b \in 0..(CB(t) - 1) :
         /\ w.block[b].num = IF b = bi THEN n + 1 ELSE t.block[b].num
         /\ b # bi => w.block[b].trial = t.block[b].trial /\ w.block[b].ehead = t.block[b].ehead
         /\ b = bi => w.block[b].trial \in {0, t.block[b].trial}
    <2> TAKE b \in 0..(CB(t) - 1)
    <2>1. /\ w.block[b].num = v.block[b].num /\ w.block[b].ehead = v.block[b].ehead
          /\ w.block[b].trial = IF b = bi /\ n # 0 THEN 0 ELSE v.block[b].trial
      BY <1>1, <1>2 DEF Finished
    <2>2. /\ v.block[b].trial = t.block[b].trial
          /\ v.block[b].num = IF b = bi THEN n + 1 ELSE t.block[b].num
          /\ b # bi => v.block[b].ehead = t.block[b].ehead
      BY DEF Joined
    <2> HIDE DEF n
    <2> QED
      BY <2>1, <2>2
  <1>4. \A i \in N : (i \notin F \cup {e} => w.node[i] = t.node[i]) /\ (i \in F \cup {e} => w.node[i].check < 0)
    BY <1>2 DEF Joined
  <1>5. t.size <= t.capacity /\ \A x \in F : x \in N /\ x # 0 /\ x \div B = bi /\ x \in 0..(t.size - 1) /\ t.node[x].check < 0
    <2>1. PICK x : x \in FreeIn(t, 0)
      BY DEF Alloc
    <2>2. 0 \in 0..(NB(t) - 1)
      BY <1>a
    <2>3. t.size <= t.capacity
      BY <1>a, <2>1, <2>2, FreeInNodes
    <2> DEFINE j == bi
    <2>4. j \in 0..(NB(t) - 1)
      BY <1>0
    <2> HIDE DEF j
    <2>5. \A y \in FreeIn(t, j) : y \in N /\ y # 0 /\ y \div B = j /\ y \in 0..(t.size - 1) /\ t.node[y].check < 0
      BY <1>a, <2>4, FreeInNodes
    <2> QED
      BY <2>3, <2>5 DEF j
  <1>6. 0..(t.size - 1) \subseteq N
    BY <1>a, <1>5
  <1>7. \A i \in 0..(t.size - 1) : i # 0 => ((w.node[i].check < 0) <=> (t.node[i].check < 0 \/ i = e))
    <2> TAKE i \in 0..(t.size - 1)
    <2> HAVE i # 0
    <2>1. i \in N
      BY <1>6
    <2> HIDE DEF F, N
    <2>2. CASE i \in F \cup {e}
      BY <2>1, <2>2, <1>4, <1>5
    <2>3. CASE i \notin F \cup {e}
      BY <2>1, <2>3, <1>4
    <2> QED
      BY <2>2, <2>3
  <1>8. Free(w) = Free(t) \cup {e}
    BY <1>a, <1>0, <1>2, <1>7 DEF Free
  <1>9. FreeIn(w, bi) = F \cup {e}
    <2> DEFINE j == bi
    <2>1. j \in 0..(NB(t) - 1) /\ j \in 0..(NB(w) - 1)
      BY <1>0, <1>2
    <2>2. /\ FreeIn(w, j) = {i \in 0..(t.size - 1) : i # 0 /\ i \div B = j /\ w.node[i].check < 0}
          /\ FreeIn(t, j) = {i \in 0..(t.size - 1) : i # 0 /\ i \div B = j /\ t.node[i].check < 0}
      <3> HIDE DEF j
      <3>a. Shape(w)
        BY <1>2
      <3>b. j \in 0..(NB(w) - 1)
        BY <2>1
      <3>1. FreeIn(w, j) = {i \in 0..(w.size - 1) : i # 0 /\ i \div B = j /\ w.node[i].check < 0}
        <4> DEFINE z == w
        <4>1. Shape(z) /\ j \in 0..(NB(z) - 1)
          BY <3>a, <3>b
        <4> HIDE DEF z, F, N, n
        <4>2. FreeIn(z, j) = {i \in 0..(z.size - 1) : i # 0 /\ i \div B = j /\ z.node[i].check < 0}
          BY <4>1, FreeInBlock
        <4> QED
          BY <4>2 DEF z
      <3>2. FreeIn(t, j) = {i \in 0..(t.size - 1) : i # 0 /\ i \div B = j /\ t.node[i].check < 0}
        BY <1>a, <2>1, FreeInBlock
      <3> QED
        BY <1>2, <3>1, <3>2
    <2>3. e \in 0..(t.size - 1) /\ e # 0 /\ e \div B = bi
      BY <1>a, <1>0
    <2> QED
      BY <2>2, <2>3, <1>7
  <1>10. RingOk(w, bi)
    <2> DEFINE j == bi
               c == Cardinality(F)
    <2>1. w.block[j].num = Cardinality(FreeIn(w, j)) + (IF j = 0 THEN 1 ELSE 0)
      <3>1. w.block[j].num = n + 1 /\ n = c + (IF j = 0 THEN 1 ELSE 0) /\ c \in Nat
            /\ Cardinality(FreeIn(w, j)) = c + 1
        BY <1>0, <1>3, <1>9
      <3> HIDE DEF n, c, j
      <3> QED
        BY <3>1
    <2>2. w.block[bi].ehead \in FreeIn(w, bi)
      <3>1. w.block[bi].ehead = v.block[bi].ehead
        BY <1>0, <1>1, <1>2 DEF Finished
      <3>2. v.block[bi].ehead \in F \cup {e}
        BY DEF Joined
      <3> QED
        BY <3>1, <3>2, <1>9
    <2>3. NodeRing(w, FreeIn(w, bi))
      <3>1. NodeRing(v, F \cup {e})
        BY DEF Joined
      <3> HIDE DEF F
      <3> QED
        BY <3>1, <1>2, <1>9 DEF NodeRing
    <2> QED
      BY <2>1, <2>2, <2>3 DEF RingOk
  <1>11. Linked(w, OnList(w))
    BY <1>2, LinkedSame
  <1>12. FreeIn(w, 0) # {}
    <2>0. 0 \in 0..(NB(t) - 1)
      BY <1>a
    <2>1. PICK x : x \in FreeIn(t, 0)
      BY DEF Alloc
    <2>2. x \in 0..(t.size - 1) /\ x # 0 /\ x \div B = 0 /\ t.node[x].check < 0
      BY <1>a, <2>0, <2>1, FreeInNodes
    <2>3. w.node[x].check < 0
      BY <2>2, <1>7
    <2>4. x \in FreeIn(w, 0)
      BY <2>0, <2>2, <2>3, <1>2, FreeInBlock
    <2> QED
      BY <2>4
  <1>13. w.ninfo[e] = NewNinfo /\ \A i \in N : i # e => w.ninfo[i] = t.ninfo[i]
    BY <1>1, <1>2 DEF Finished
  <1>14. \A i \in N : Spare(w, i) => w.ninfo[i] = NewNinfo
    <2> TAKE i \in N
    <2> HAVE Spare(w, i)
    <2>1. CASE i = e
      BY <2>1, <1>13
    <2>2. CASE i # e
      <3>1. Spare(t, i)
        <4>1. CASE i >= t.size
          BY <4>1 DEF Spare
        <4>2. CASE ~ (i >= t.size)
          <5>1. i \in 0..(t.size - 1) /\ i # 0 /\ w.node[i].check < 0
            BY <4>2, <1>2, <1>a DEF Spare
          <5> QED
            BY <5>1, <2>2, <1>7 DEF Spare
        <4> QED
          BY <4>1, <4>2
      <3> QED
        BY <3>1, <2>2, <1>13 DEF Alloc
    <2> QED
      BY <2>1, <2>2
  <1>15. \A i \in N : i \div B # bi => w.node[i] = t.node[i]
    BY <1>4, <1>5
  <1>16. Alloc(w)
    <2> DEFINE j == bi
    <2>1. w.block[j].trial \in {0, 1}
      BY <1>a, <1>0, <1>3
    <2>2. \A c \in 0..(CB(t) - 1) : c # j =>
             /\ w.block[c].num = t.block[c].num /\ w.block[c].trial = t.block[c].trial
             /\ w.block[c].ehead = t.block[c].ehead
      BY <1>3
    <2>3. j \in 0..(NB(t) - 1)
      BY <1>0
    <2>4. RingOk(w, j)
      BY <1>10
    <2>5. \A i \in N : i \div B # j => w.node[i] = t.node[i]
      BY <1>15
    <2>6. Shape(w) /\ w.capacity = t.capacity /\ w.size = t.size
      BY <1>2
    <2>7. \A i \in 0..(t.capacity - 1) : Spare(w, i) => w.ninfo[i] = NewNinfo
      BY <1>14
    <2> HIDE DEF j, N
    <2>8. \A i \in 0..(t.capacity - 1) : i \div B # j => w.node[i] = t.node[i]
      BY <2>5 DEF N
    <2>9. OneBlock(t, w, j)
      BY <2>2, <2>6, <2>8 DEF OneBlock
    <2>10. SparesClean(w)
      BY <2>6, <2>7 DEF SparesClean
    <2> QED
      BY <1>11, <1>12, <2>1, <2>3, <2>4, <2>9, <2>10, AllocStepOf
  <1>17. \A i \in N : i \notin Free(t) \cup {e} => w.node[i] = t.node[i]
    BY <1>4, <1>5 DEF Free
  <1>18. Freed(t, w, e)
    BY <1>2, <1>8, <1>13, <1>17 DEF Freed
  <1> QED
    BY <1>16, <1>18

\* PushEmptyNode in two steps
LEMMA PushedIs ==
    ASSUME NEW t, NEW e
    PROVE  PushEmptyNode(t, e) =
             FinishFree(Relisted(t, e), e \div B, e, t.block[e \div B].num,
                        t.reject[t.block[e \div B].num + 1])
  BY DEF PushEmptyNode

\* The lists of the blocks after the last lines
ListedAs(t, w, bi) ==
    /\ NB(w) = NB(t)
    /\ \A c \in 0..(CB(t) - 1) : c # bi => ListIn(w, c) = ListIn(t, c)
    /\ t.block[bi].num \in Nat
    /\ w.block[bi].num = t.block[bi].num + 1
    /\ w.block[bi].trial = IF t.block[bi].num # 0 THEN 0 ELSE t.block[bi].trial

\* PushEmptyNode with one more free node in a block: what the lists of blocks go by.
LEMMA FinishLists ==
    ASSUME NEW t, Alloc(t), NEW bi, bi \in 0..(CB(t) - 1), NEW e, e \in 0..(t.capacity - 1),
           NEW u, Joined(t, u, bi, e), NEW r, r \in Int,
           NEW w, w = FinishFree(u, bi, e, t.block[bi].num, r)
    PROVE  ListedAs(t, w, bi)
  <1> DEFINE n == t.block[bi].num
  <1>0. n \in Nat /\ Shape(t)
    <2>1. Shape(t)
      BY DEF Alloc
    <2>2. t.block[bi] \in BlockType
      BY <2>1 DEF Shape
    <2> QED
      BY <2>1, <2>2 DEF BlockType
  <1>1. Shape(u) /\ CB(u) = CB(t) /\ u.capacity = t.capacity /\ NB(u) = NB(t)
    BY DEF Joined, CB, NB
  <1>2. Finished(u, w, bi, e, n)
    <2> DEFINE j == bi
               k == e
               m == n
    <2>2. j \in 0..(CB(u) - 1)
      BY <1>1
    <2>3. k \in 0..(u.capacity - 1)
      BY <1>1
    <2>4. m \in Nat
      BY <1>0
    <2>5. w = FinishFree(u, j, k, m, r)
      OBVIOUS
    <2> HIDE DEF j, k, m, n
    <2>6. Finished(u, FinishFree(u, j, k, m, r), j, k, m)
      BY <1>1, <2>2, <2>3, <2>4, FinishFreeOk
    <2> QED
      BY <2>5, <2>6 DEF j, k, m
  <1>3. \A c \in 0..(CB(t) - 1) :
              /\ w.block[c].num = IF c = bi THEN n + 1 ELSE t.block[c].num
              /\ w.block[c].trial = IF c = bi /\ n # 0 THEN 0 ELSE t.block[c].trial
    <2> TAKE c \in 0..(CB(t) - 1)
    <2>1. /\ w.block[c].num = u.block[c].num
          /\ w.block[c].trial = IF c = bi /\ n # 0 THEN 0 ELSE u.block[c].trial
      BY <1>1, <1>2 DEF Finished
    <2>2. /\ u.block[c].trial = t.block[c].trial
          /\ u.block[c].num = IF c = bi THEN n + 1 ELSE t.block[c].num
      BY DEF Joined
    <2> HIDE DEF n
    <2> QED
      BY <2>1, <2>2
  <1>4. \A c \in 0..(CB(t) - 1) : c # bi => ListIn(w, c) = ListIn(t, c)
    <2> TAKE c \in 0..(CB(t) - 1)
    <2> HAVE c # bi
    <2>1. w.block[c].num = t.block[c].num /\ w.block[c].trial = t.block[c].trial
      BY <1>3
    <2> QED
      BY <2>1 DEF ListIn
  <1>5. w.block[bi].num = n + 1 /\ w.block[bi].trial = IF n # 0 THEN 0 ELSE t.block[bi].trial
    <2> DEFINE q == bi
    <2>2. q \in 0..(CB(t) - 1)
      OBVIOUS
    <2> HIDE DEF q
    <2>3. w.block[q].num = IF q = bi THEN n + 1 ELSE t.block[q].num
      BY <2>2, <1>3
    <2>4. w.block[q].trial = IF q = bi /\ n # 0 THEN 0 ELSE t.block[q].trial
      BY <2>2, <1>3
    <2> QED
      BY <2>3, <2>4 DEF q
  <1>6. NB(w) = NB(t)
    BY <1>1, <1>2 DEF Finished, SameLinks, NB
  <1> QED
    BY <1>0, <1>4, <1>5, <1>6 DEF ListedAs

\* A full block,
LEMMA PushFull ==
    ASSUME NEW t, Alloc(t), NEW e, UsedNode(t, e), NEW bi, bi = e \div B, t.block[bi].num = 0,
           NEW r, r \in Int, NEW u, u = TransferBlock(FirstFree(t, bi, e), bi, "full", "close"),
           NEW w, w = FinishFree(u, bi, e, t.block[bi].num, r)
    PROVE  Joined(t, u, bi, e) /\ Linked(u, OnList(w))
  <1> DEFINE first == FirstFree(t, bi, e)
             on == [l \in ListNames |-> CASE l = "full" -> OnList(t)[l] \ {bi}
                              [] l = "close" -> OnList(t)[l] \cup {bi} [] OTHER -> OnList(t)[l]]
  <1>0. /\ bi \in 0..(NB(t) - 1) /\ bi \in 0..(CB(t) - 1) /\ e \in 0..(t.capacity - 1) /\ e # 0
        /\ FreeIn(t, bi) = {}
    <2>1. UsedIn(t, e, bi)
      BY NumUsed
    <2> QED
      BY <2>1 DEF UsedIn
  <1>1. Shape(t) /\ FreeIn(t, 0) # {} /\ NB(t) \in Nat /\ CB(t) \in Nat /\ NB(t) <= CB(t)
    BY DEF Alloc, Shape
  <1>2. bi # 0
    BY <1>0, <1>1
  <1>3. bi \in 1..(NB(t) - 1)
    BY <1>0, <1>1, <1>2
  <1>4. Joined(t, first, bi, e) /\ SameLinks(t, first)
    <2> DEFINE j == bi
               k == e
    <2>1. j \in 0..(NB(t) - 1)
      BY <1>0
    <2>2. k \in 0..(t.capacity - 1)
      BY <1>0
    <2>3. k # 0 /\ FreeIn(t, j) = {} /\ t.block[j].num = 0
      BY <1>0
    <2> HIDE DEF j, k
    <2>4. Joined(t, FirstFree(t, j, k), j, k) /\ SameLinks(t, FirstFree(t, j, k))
      BY <1>1, <2>1, <2>2, <2>3, FirstFreeOk
    <2> QED
      BY <2>4 DEF j, k
  <1>5. ListIn(t, bi) = "full"
    BY DEF ListIn
  <1>6. "full" \in ListNames /\ "close" \in ListNames
    BY DEF ListNames
  <1>7. Joined(t, u, bi, e) /\ Linked(u, on)
    <2> DEFINE j == bi
    <2>1. j \in 1..(NB(t) - 1) /\ Joined(t, first, j, e) /\ SameLinks(t, first)
          /\ ListIn(t, j) = "full" /\ u = TransferBlock(first, j, "full", "close")
      BY <1>3, <1>4, <1>5
    <2> HIDE DEF j, first
    <2>2. /\ Joined(t, u, j, e)
          /\ Linked(u, [l \in ListNames |-> CASE l = "full" -> OnList(t)[l] \ {j}
                              [] l = "close" -> OnList(t)[l] \cup {j} [] OTHER -> OnList(t)[l]])
      BY <1>6, <2>1, JoinedMoved
    <2> QED
      BY <2>2 DEF j
  <1>8. /\ NB(w) = NB(t)
        /\ \A c \in 0..(CB(t) - 1) : c # bi => ListIn(w, c) = ListIn(t, c)
        /\ w.block[bi].num = t.block[bi].num + 1
    <2>1. ListedAs(t, w, bi)
      BY <1>0, <1>7, FinishLists
    <2> QED
      BY <2>1 DEF ListedAs
  <1>9. ListIn(w, bi) = "close"
    BY <1>8 DEF ListIn
  <1>10. on = OnList(w)
    <2> DEFINE j == bi
    <2>1. \A c \in (1..(NB(t) - 1)) \ {j} : ListIn(w, c) = ListIn(t, c)
      BY <1>1, <1>8
    <2>2. j \in 1..(NB(t) - 1) /\ ListIn(t, j) = "full" /\ ListIn(w, j) = "close"
      BY <1>3, <1>5, <1>9
    <2> HIDE DEF j
    <2>3. [l \in ListNames |-> CASE l = "full" -> OnList(t)[l] \ {j}
                              [] l = "close" -> OnList(t)[l] \cup {j} [] OTHER -> OnList(t)[l]] = OnList(w)
      BY <1>6, <1>8, <2>1, <2>2, OnListMoved, SMTT(60)
    <2> QED
      BY <2>3 DEF j
  <1> QED
    BY <1>7, <1>10

ListsMoved(t, in, out, bi) ==
    [l \in ListNames |-> CASE l = in -> OnList(t)[l] \ {bi} [] l = out -> OnList(t)[l] \cup {bi}
                           [] OTHER -> OnList(t)[l]]

\* TransferBlock moves a block between the lists that its counts say.
LEMMA ListsMovedOk ==
    ASSUME NEW t, NEW w, NB(w) = NB(t), NEW bi, bi \in 1..(NB(t) - 1),
           NEW in, in \in ListNames, NEW out, out \in ListNames, in # out,
           ListIn(t, bi) = in, ListIn(w, bi) = out,
           \A b \in (1..(NB(t) - 1)) \ {bi} : ListIn(w, b) = ListIn(t, b)
    PROVE  ListsMoved(t, in, out, bi) = OnList(w)
  <1>1. [l \in ListNames |-> CASE l = in -> OnList(t)[l] \ {bi} [] l = out -> OnList(t)[l] \cup {bi}
                                     [] OTHER -> OnList(t)[l]] = OnList(w)
    BY OnListMoved
  <1> QED
    BY <1>1 DEF ListsMoved

\* one of the close ones,
LEMMA PushClose ==
    ASSUME NEW t, Alloc(t), NEW e, UsedNode(t, e), NEW bi, bi = e \div B, t.block[bi].num # 0,
           bi # 0, t.block[bi].num = 1 \/ t.block[bi].trial = MaxTrial,
           NEW r, r \in Int, NEW u, u = TransferBlock(LinkedFree(t, bi, e), bi, "close", "open"),
           NEW w, w = FinishFree(u, bi, e, t.block[bi].num, r)
    PROVE  Joined(t, u, bi, e) /\ Linked(u, OnList(w))
  <1> DEFINE linked == LinkedFree(t, bi, e)
             on == [l \in ListNames |-> CASE l = "close" -> OnList(t)[l] \ {bi}
                              [] l = "open" -> OnList(t)[l] \cup {bi} [] OTHER -> OnList(t)[l]]
  <1>0. /\ bi \in 0..(NB(t) - 1) /\ bi \in 0..(CB(t) - 1) /\ e \in 0..(t.capacity - 1) /\ e # 0
        /\ FreeIn(t, bi) # {} /\ e \notin FreeIn(t, bi)
    <2>1. /\ bi \in 0..(NB(t) - 1) /\ bi \in 0..(CB(t) - 1) /\ e \in 0..(t.capacity - 1) /\ e # 0
          /\ e \notin FreeIn(t, bi) /\ (t.block[bi].num = 0 <=> FreeIn(t, bi) = {})
      <3>1. UsedIn(t, e, bi)
        BY NumUsed
      <3> QED
        BY <3>1 DEF UsedIn
    <2> QED
      BY <2>1
  <1>1. Shape(t) /\ NB(t) \in Nat /\ CB(t) \in Nat /\ NB(t) <= CB(t)
        /\ NodeRing(t, FreeIn(t, bi)) /\ t.block[bi].ehead \in FreeIn(t, bi)
    BY <1>0 DEF Alloc, Shape, RingOk
  <1>3. bi \in 1..(NB(t) - 1)
    BY <1>0, <1>1
  <1>4. Joined(t, linked, bi, e) /\ SameLinks(t, linked)
    <2> DEFINE j == bi
               k == e
               G == FreeIn(t, j)
    <2>1. j \in 0..(NB(t) - 1)
      BY <1>0
    <2>2. k \in 0..(t.capacity - 1)
      BY <1>0
    <2>3. k # 0 /\ k \notin G /\ NodeRing(t, G) /\ t.block[j].ehead \in G
      BY <1>0, <1>1
    <2>4. G = FreeIn(t, j)
      OBVIOUS
    <2> HIDE DEF j, k, G
    <2>5. Joined(t, LinkedFree(t, j, k), j, k) /\ SameLinks(t, LinkedFree(t, j, k))
      BY <1>1, <2>1, <2>2, <2>3, <2>4, LinkedFreeOk
    <2> QED
      BY <2>5 DEF j, k
  <1>a. t.block[bi].num \in Nat
    <2>1. t.block[bi] \in BlockType
      BY <1>0, <1>1 DEF Shape
    <2> QED
      BY <2>1 DEF BlockType
  <1>5. ListIn(t, bi) = "close"
    <2>1. t.block[bi].num > 1 \/ t.block[bi].num = 1
      BY <1>a
    <2> QED
      BY <2>1 DEF ListIn
  <1>6. "open" \in ListNames /\ "close" \in ListNames
    BY DEF ListNames
  <1>7. Joined(t, u, bi, e) /\ Linked(u, on)
    <2> DEFINE j == bi
    <2>1. j \in 1..(NB(t) - 1) /\ Joined(t, linked, j, e) /\ SameLinks(t, linked)
          /\ ListIn(t, j) = "close" /\ u = TransferBlock(linked, j, "close", "open")
      BY <1>3, <1>4, <1>5
    <2> HIDE DEF j, linked
    <2>2. /\ Joined(t, u, j, e)
          /\ Linked(u, [l \in ListNames |-> CASE l = "close" -> OnList(t)[l] \ {j}
                              [] l = "open" -> OnList(t)[l] \cup {j} [] OTHER -> OnList(t)[l]])
      BY <1>6, <2>1, JoinedMoved
    <2> QED
      BY <2>2 DEF j
  <1>8. /\ NB(w) = NB(t)
        /\ \A c \in 0..(CB(t) - 1) : c # bi => ListIn(w, c) = ListIn(t, c)
        /\ w.block[bi].num = t.block[bi].num + 1 /\ w.block[bi].trial = 0
    <2>1. ListedAs(t, w, bi)
      BY <1>0, <1>7, FinishLists
    <2> QED
      BY <2>1 DEF ListedAs
  <1>9. ListIn(w, bi) = "open"
    <2>1. w.block[bi].num # 0 /\ w.block[bi].num # 1 /\ w.block[bi].trial # MaxTrial
      <3> DEFINE x == t.block[bi].num
                 y == w.block[bi].num
      <3>1. x \in Nat /\ x # 0 /\ y = x + 1
        BY <1>8, <1>a
      <3>2. w.block[bi].trial # MaxTrial
        BY <1>8 DEF MaxTrial
      <3> HIDE DEF x, y
      <3>3. y # 0 /\ y # 1
        BY <3>1
      <3> QED
        BY <3>2, <3>3 DEF y
    <2> QED
      BY <2>1 DEF ListIn
  <1>10. on = OnList(w)
    <2> DEFINE j == bi
    <2>1. \A c \in (1..(NB(t) - 1)) \ {j} : ListIn(w, c) = ListIn(t, c)
      BY <1>1, <1>8
    <2>2. j \in 1..(NB(t) - 1) /\ ListIn(t, j) = "close" /\ ListIn(w, j) = "open"
      BY <1>3, <1>5, <1>9
    <2> HIDE DEF j
    <2>3. [l \in ListNames |-> CASE l = "close" -> OnList(t)[l] \ {j}
                              [] l = "open" -> OnList(t)[l] \cup {j} [] OTHER -> OnList(t)[l]] = OnList(w)
      <3> DEFINE ci == "close"
                 co == "open"
      <3>1. NB(w) = NB(t)
        BY <1>8
      <3>2. ci # co /\ ci \in ListNames /\ co \in ListNames
        BY <1>6
      <3>3. ListIn(t, j) = ci /\ ListIn(w, j) = co
        BY <2>2
      <3>4. j \in 1..(NB(t) - 1)
        BY <2>2
      <3> HIDE DEF ci, co
      <3>5. ListsMoved(t, ci, co, j) = OnList(w)
        BY <2>1, <3>1, <3>2, <3>3, <3>4, ListsMovedOk
      <3> QED
        BY <3>5 DEF ci, co, ListsMoved
    <2> QED
      BY <2>3 DEF j
  <1> QED
    BY <1>7, <1>10

\* or one that stays on its list.
LEMMA PushStay ==
    ASSUME NEW t, Alloc(t), NEW e, UsedNode(t, e), NEW bi, bi = e \div B, t.block[bi].num # 0,
           bi # 0 => t.block[bi].num # 1 /\ t.block[bi].trial # MaxTrial,
           NEW r, r \in Int, NEW u, u = LinkedFree(t, bi, e),
           NEW w, w = FinishFree(u, bi, e, t.block[bi].num, r)
    PROVE  Joined(t, u, bi, e) /\ Linked(u, OnList(w))
  <1>0. /\ bi \in 0..(NB(t) - 1) /\ bi \in 0..(CB(t) - 1) /\ e \in 0..(t.capacity - 1) /\ e # 0
        /\ FreeIn(t, bi) # {} /\ e \notin FreeIn(t, bi)
    <2>1. /\ bi \in 0..(NB(t) - 1) /\ bi \in 0..(CB(t) - 1) /\ e \in 0..(t.capacity - 1) /\ e # 0
          /\ e \notin FreeIn(t, bi) /\ (t.block[bi].num = 0 <=> FreeIn(t, bi) = {})
      <3>1. UsedIn(t, e, bi)
        BY NumUsed
      <3> QED
        BY <3>1 DEF UsedIn
    <2> QED
      BY <2>1
  <1>1. Shape(t) /\ NB(t) \in Nat /\ CB(t) \in Nat /\ NB(t) <= CB(t) /\ Linked(t, OnList(t))
        /\ NodeRing(t, FreeIn(t, bi)) /\ t.block[bi].ehead \in FreeIn(t, bi)
    BY <1>0 DEF Alloc, Shape, RingOk
  <1>4. Joined(t, u, bi, e) /\ SameLinks(t, u)
    <2> DEFINE j == bi
               k == e
               G == FreeIn(t, j)
    <2>1. j \in 0..(NB(t) - 1)
      BY <1>0
    <2>2. k \in 0..(t.capacity - 1)
      BY <1>0
    <2>3. k # 0 /\ k \notin G /\ NodeRing(t, G) /\ t.block[j].ehead \in G
      BY <1>0, <1>1
    <2>4. G = FreeIn(t, j)
      OBVIOUS
    <2> HIDE DEF j, k, G
    <2>5. Joined(t, LinkedFree(t, j, k), j, k) /\ SameLinks(t, LinkedFree(t, j, k))
      BY <1>1, <2>1, <2>2, <2>3, <2>4, LinkedFreeOk
    <2> QED
      BY <2>5 DEF j, k
  <1>8. /\ NB(w) = NB(t)
        /\ \A c \in 0..(CB(t) - 1) : c # bi => ListIn(w, c) = ListIn(t, c)
        /\ t.block[bi].num \in Nat
        /\ w.block[bi].num = t.block[bi].num + 1 /\ w.block[bi].trial = 0
    <2>1. ListedAs(t, w, bi)
      BY <1>0, <1>4, FinishLists
    <2> QED
      BY <2>1 DEF ListedAs
  <1>9. \A c \in 1..(NB(t) - 1) : ListIn(w, c) = ListIn(t, c)
    <2> TAKE c \in 1..(NB(t) - 1)
    <2>1. c \in 0..(CB(t) - 1)
      BY <1>1
    <2>2. CASE c # bi
      BY <2>1, <2>2, <1>8
    <2>3. CASE c = bi
      <3>1. t.block[bi].num # 1 /\ t.block[bi].trial # MaxTrial
        BY <2>3
      <3>2. ListIn(t, bi) = "open"
        BY <3>1 DEF ListIn
      <3>3. w.block[bi].num # 0 /\ w.block[bi].num # 1 /\ w.block[bi].trial # MaxTrial
        <4> DEFINE x == t.block[bi].num
                   y == w.block[bi].num
        <4>1. x \in Nat /\ x # 0 /\ y = x + 1
          BY <1>8
        <4>2. w.block[bi].trial # MaxTrial
          BY <1>8 DEF MaxTrial
        <4> HIDE DEF x, y
        <4>3. y # 0 /\ y # 1
          BY <4>1
        <4> QED
          BY <4>2, <4>3 DEF y
      <3>4. ListIn(w, bi) = "open"
        BY <3>3 DEF ListIn
      <3> QED
        BY <2>3, <3>2, <3>4
    <2> QED
      BY <2>2, <2>3
  <1>10. OnList(w) = OnList(t)
    BY <1>8, <1>9, OnListSame, SMTT(60)
  <1>11. Linked(u, OnList(t))
    BY <1>1, <1>4, LinkedSame
  <1> QED
    BY <1>4, <1>10, <1>11

\* PushEmptyNode keeps the invariant of the allocator.
LEMMA PushEmptyNodeOk ==
    ASSUME NEW t, Alloc(t), NEW e, UsedNode(t, e)
    PROVE  Alloc(PushEmptyNode(t, e)) /\ Freed(t, PushEmptyNode(t, e), e)
  <1> DEFINE j == e \div B
             v == Relisted(t, e)
             r == t.reject[t.block[j].num + 1]
             w == PushEmptyNode(t, e)
  <1>0. j = e \div B
    OBVIOUS
  <1>1. w = FinishFree(v, j, e, t.block[j].num, r)
    BY PushedIs
  <1>2. CASE t.block[j].num = 0
    <2>0. v = TransferBlock(FirstFree(t, j, e), j, "full", "close")
      <3>1. j # 0
        <4> HIDE DEF j
        <4>1. t.block[j].num = 0 <=> FreeIn(t, j) = {}
          <5>1. UsedIn(t, e, j)
            BY <1>0, NumUsed
          <5> QED
            BY <5>1 DEF UsedIn
        <4>2. FreeIn(t, 0) # {}
          BY DEF Alloc
        <4> QED
          BY <4>1, <4>2, <1>2
      <3> QED
        BY <1>2, <3>1 DEF Relisted
    <2> HIDE DEF j, v, w
    <2>1. r \in Int
      <3>1. UsedIn(t, e, j)
        BY <1>0, NumUsed
      <3> QED
        BY <3>1 DEF UsedIn
    <2> HIDE DEF r
    <2>2. Joined(t, v, j, e) /\ Linked(v, OnList(w))
      BY <1>0, <1>1, <1>2, <2>0, <2>1, PushFull
    <2>3. Alloc(w) /\ Freed(t, w, e)
      BY <1>0, <1>1, <2>1, <2>2, FreedOk
    <2> QED
      BY <2>3 DEF w
  <1>3. CASE t.block[j].num # 0 /\ j # 0 /\ (t.block[j].num = 1 \/ t.block[j].trial = MaxTrial)
    <2>0. v = TransferBlock(LinkedFree(t, j, e), j, "close", "open")
      BY <1>3 DEF Relisted
    <2> HIDE DEF j, v, w
    <2>1. r \in Int
      <3>1. UsedIn(t, e, j)
        BY <1>0, NumUsed
      <3> QED
        BY <3>1 DEF UsedIn
    <2> HIDE DEF r
    <2>2. Joined(t, v, j, e) /\ Linked(v, OnList(w))
      BY <1>0, <1>1, <1>3, <2>0, <2>1, PushClose
    <2>3. Alloc(w) /\ Freed(t, w, e)
      BY <1>0, <1>1, <2>1, <2>2, FreedOk
    <2> QED
      BY <2>3 DEF w
  <1>4. CASE t.block[j].num # 0 /\ ~ (j # 0 /\ (t.block[j].num = 1 \/ t.block[j].trial = MaxTrial))
    <2>0. v = LinkedFree(t, j, e)
      BY <1>4 DEF Relisted
    <2> HIDE DEF j, v, w
    <2>1. r \in Int
      <3>1. UsedIn(t, e, j)
        BY <1>0, NumUsed
      <3> QED
        BY <3>1 DEF UsedIn
    <2> HIDE DEF r
    <2>2. Joined(t, v, j, e) /\ Linked(v, OnList(w))
      BY <1>0, <1>1, <1>4, <2>0, <2>1, PushStay
    <2>3. Alloc(w) /\ Freed(t, w, e)
      BY <1>0, <1>1, <2>1, <2>2, FreedOk
    <2> QED
      BY <2>3 DEF w
  <1> QED
    BY <1>2, <1>3, <1>4

-----------------------------------------------------------------------------
(* add_block and find_place: a set has a least number, a scan an end       *)

\* A set of natural numbers has a least one.
LEMMA LeastOf ==
    ASSUME NEW T, T \subseteq Nat, T # {}
    PROVE  \E m \in T : \A k \in T : m <= k
  <1> DEFINE R == {ss \in Nat \X Nat : ss[1] < ss[2]}
  <1>1. IsWellFoundedOn(R, Nat)
    BY NatLessThanWellFounded, Zenon DEF OpToRel
  <1> HIDE DEF R
  <1>2. PICK x \in T : \A y \in T : <<y, x>> \notin R
    BY <1>1, WFMin
  <1>3. \A y \in T : ~(y < x)
    BY <1>2 DEF R
  <1> QED
    BY <1>3

\* Induction, for a set.
LEMMA Induction ==
    ASSUME NEW S, 0 \in S, \A n \in Nat : n \in S => n + 1 \in S
    PROVE  Nat \subseteq S
  <1> SUFFICES ASSUME Nat \ S # {} PROVE FALSE
    OBVIOUS
  <1>1. PICK m \in Nat \ S : \A k \in Nat \ S : m <= k
    BY LeastOf
  <1>2. m # 0 /\ m - 1 \in Nat
    BY <1>1
  <1>3. m - 1 \in S
    BY <1>1, <1>2
  <1> QED
    BY <1>1, <1>2, <1>3

-----------------------------------------------------------------------------
(* A new block *)

\* An interval whose ends are linked is one ring.
LEMMA IntervalRing ==
    ASSUME NEW a \in Nat, NEW z \in Nat, a <= z, NEW next, NEW prev,
           \A i \in a..z : next[i] = (IF i = z THEN a ELSE i + 1),
           \A i \in a..z : prev[i] = (IF i = a THEN z ELSE i - 1)
    PROVE  IsRing(a..z, next, prev)
  <1>1. \A x \in a..z : next[x] \in a..z /\ prev[x] \in a..z
    OBVIOUS
  <1>2. \A x \in a..z : prev[next[x]] = x
    <2> TAKE x \in a..z
    <2>1. CASE x = z
      BY <2>1
    <2>2. CASE x # z
      <3>1. next[x] = x + 1 /\ x + 1 \in a..z /\ x + 1 # a
        BY <2>2
      <3>2. prev[x + 1] = x + 1 - 1
        BY <3>1
      <3> QED
        BY <3>1, <3>2
    <2> QED
      BY <2>1, <2>2
  <1>3. \A x \in a..z : next[prev[x]] = x
    <2> TAKE x \in a..z
    <2>1. CASE x = a
      BY <2>1
    <2>2. CASE x # a
      <3>1. prev[x] = x - 1 /\ x - 1 \in a..z /\ x - 1 # z
        BY <2>2
      <3>2. next[x - 1] = x - 1 + 1
        BY <3>1
      <3> QED
        BY <3>1, <3>2
    <2> QED
      BY <2>1, <2>2
  <1>4. ASSUME NEW T \in SUBSET (a..z), T # {}, \A x \in T : next[x] \in T
        PROVE  T = a..z
    <2>1. z \in T
      <3> SUFFICES ASSUME z \notin T PROVE FALSE
        OBVIOUS
      <3> DEFINE W == {z - x : x \in T}
      <3>1. W \subseteq Nat /\ W # {}
        <4>1. W \subseteq Nat
          OBVIOUS
        <4>2. PICK x : x \in T
          BY <1>4
        <4>3. z - x \in W
          BY <4>2
        <4> QED
          BY <4>1, <4>3
      <3>2. PICK w \in W : \A k \in W : w <= k
        BY <3>1, LeastOf
      <3>3. PICK x \in T : w = z - x
        BY <3>2
      <3>4. x \in a..z /\ x # z
        BY <3>3
      <3>5. x + 1 \in T
        BY <3>4, <1>4, <3>3
      <3>6. z - (x + 1) \in W
        BY <3>5
      <3> QED
        BY <3>2, <3>3, <3>4, <3>6
    <2>2. a \in T
      BY <2>1, <1>4
    <2>3. (a..z) \ T = {}
      <3> SUFFICES ASSUME (a..z) \ T # {} PROVE FALSE
        OBVIOUS
      <3>1. (a..z) \ T \subseteq Nat
        OBVIOUS
      <3>2. PICK m \in (a..z) \ T : \A k \in (a..z) \ T : m <= k
        BY <3>1, LeastOf
      <3>3. m # a /\ m \in a..z
        BY <2>2, <3>2
      <3>4. m - 1 \in a..z /\ m - 1 # z
        BY <3>3
      <3>5. m - 1 \in T
        BY <3>2, <3>4
      <3>6. next[m - 1] = m - 1 + 1
        BY <3>4
      <3>7. m \in T
        BY <3>3, <3>5, <3>6, <1>4
      <3> QED
        BY <3>2, <3>7
    <2> QED
      BY <2>3
  <1> QED
    BY <1>1, <1>2, <1>3, <1>4 DEF IsRing

\* Sizes are multiples of B.
LEMMA Sizes ==
    ASSUME NEW t, Shape(t)
    PROVE  /\ B \in Nat /\ B >= 3 /\ NB(t) \in Nat /\ CB(t) \in Nat /\ 1 <= NB(t) /\ NB(t) <= CB(t)
           /\ t.size \in Nat /\ t.capacity \in Nat /\ t.size <= t.capacity /\ B <= t.size
           /\ t.size \div B = NB(t) /\ t.capacity \div B = CB(t)
           /\ t.size = t.capacity <=> NB(t) = CB(t)
           /\ (t.size + B) \div B = NB(t) + 1 /\ t.size + B = B * (NB(t) + 1)
           /\ (2 * t.capacity) \div B = 2 * CB(t) /\ 2 * t.capacity = B * (2 * CB(t))
           /\ t.size < t.capacity => t.size + B <= t.capacity
  <1>1. /\ NB(t) \in Nat /\ CB(t) \in Nat /\ 1 <= NB(t) /\ NB(t) <= CB(t)
        /\ t.size \in Nat /\ t.capacity \in Nat /\ t.size = B * NB(t) /\ t.capacity = B * CB(t)
    BY DEF Shape
  <1>2. B \in Nat /\ B >= 3
    BY LabelAssumption
  <1> DEFINE n == NB(t)
             c == CB(t)
  <1>3. n \in Nat /\ c \in Nat /\ n >= 1 /\ n <= c
    BY <1>1
  <1>4. t.size = B * n /\ t.capacity = B * c
    BY <1>1
  <1> HIDE DEF n, c
  <1>5. PICK d \in Nat : c = n + d
    <2>1. c - n \in Nat /\ c = n + (c - n)
      BY <1>3
    <2> QED
      BY <2>1
  <1>6. B * c = B * n + B * d /\ B * d \in Nat /\ B * n \in Nat
    BY <1>2, <1>3, <1>5
  <1>7. PICK m \in Nat : n = m + 1
    <2>1. n - 1 \in Nat /\ n = (n - 1) + 1
      BY <1>3
    <2> QED
      BY <2>1
  <1>8. B * n = B * m + B /\ B * m \in Nat
    BY <1>2, <1>7
  <1>9. d = 0 => B * d = 0
    BY <1>2
  <1>10. d # 0 => B * d >= B
    <2> SUFFICES ASSUME d # 0 PROVE B * d >= B
      OBVIOUS
    <2>1. PICK g \in Nat : d = g + 1
      <3>1. d - 1 \in Nat /\ d = (d - 1) + 1
        BY <1>5
      <3> QED
        BY <3>1
    <2>2. B * d = B * g + B /\ B * g \in Nat
      BY <1>2, <2>1
    <2> QED
      BY <2>2, <1>2
  <1>11. B * (n + 1) = B * n + B
    BY <1>2, <1>3
  <1>12. B * (2 * c) = 2 * (B * c)
    BY <1>2, <1>3
  <1>13. \A q \in Nat : (B * q) \div B = q
    BY <1>2
  <1> DEFINE x == B * n
             y == B * d
             z == B * m
  <1>14. t.size = x /\ t.capacity = x + y /\ x = z + B /\ x \in Nat /\ y \in Nat /\ z \in Nat
    BY <1>4, <1>6, <1>8
  <1>15. (d = 0 => y = 0) /\ (d # 0 => y >= B)
    BY <1>9, <1>10
  <1>16. x \div B = n /\ t.capacity \div B = c
    BY <1>13, <1>3, <1>4
  <1>17. (x + B) \div B = n + 1 /\ x + B = B * (n + 1)
    <2>1. n + 1 \in Nat
      BY <1>3
    <2>2. (B * (n + 1)) \div B = n + 1
      BY <2>1, <1>13
    <2> QED
      BY <2>2, <1>11
  <1>18. (2 * t.capacity) \div B = 2 * c /\ 2 * t.capacity = B * (2 * c)
    <2>1. 2 * c \in Nat
      BY <1>3
    <2>2. (B * (2 * c)) \div B = 2 * c
      BY <2>1, <1>13
    <2> QED
      BY <2>2, <1>12, <1>4
  <1> HIDE DEF x, y, z
  <1>19. t.size <= t.capacity /\ B <= t.size /\ (t.size < t.capacity => t.size + B <= t.capacity)
    BY <1>14, <1>15, <1>2, <1>5
  <1>20. t.size = t.capacity <=> n = c
    BY <1>14, <1>15, <1>2, <1>5, <1>3
  <1> QED
    BY <1>1, <1>2, <1>16, <1>17, <1>18, <1>19, <1>20, <1>14 DEF n, c

\* From t to u there is a block more, and all its nodes are free.
Grew(t, u) ==
    /\ Shape(u) /\ u.size = t.size + B /\ NB(u) = NB(t) + 1 /\ CB(t) <= CB(u)
    /\ t.size <= t.capacity /\ t.capacity <= u.capacity
    /\ u.head = t.head
    /\ \A i \in 0..(t.size - 1) : u.node[i] = t.node[i]
    /\ \A i \in t.size..(t.size + B - 1) : u.node[i] = Ring(t.size, t.size + B - 1)[i]
    /\ \A i \in 0..(t.capacity - 1) : u.ninfo[i] = t.ninfo[i]
    /\ \A i \in t.capacity..(u.capacity - 1) : u.ninfo[i] = NewNinfo
    /\ \A b \in 0..(CB(t) - 1) : b # NB(t) => u.block[b] = t.block[b]
    /\ u.block[NB(t)].num = B /\ u.block[NB(t)].trial = 0 /\ u.block[NB(t)].ehead = t.size
    /\ \A b \in CB(t)..(CB(u) - 1) : u.block[b].num = B /\ u.block[b].trial = 0

\* g is f with d at the places from m on.
Extended(T, m, c, f, d, g) ==
    /\ g \in [0..(c - 1) -> T]
    /\ \A i \in 0..(m - 1) : g[i] = f[i]
    /\ \A i \in m..(c - 1) : g[i] = d

\* An array is extended with a default.
LEMMA ExtendOk ==
    ASSUME NEW T, NEW m, m \in Nat, NEW c, c \in Nat, m <= c, NEW f, f \in [0..(m - 1) -> T],
           NEW d, d \in T
    PROVE  Extended(T, m, c, f, d, Extend(f, c, d))
  <1>1. Extend(f, c, d) = [i \in 0..(c - 1) |-> IF i \in 0..(m - 1) THEN f[i] ELSE d]
    BY DEF Extend
  <1>2. \A i \in 0..(m - 1) : i \in 0..(c - 1)
    OBVIOUS
  <1>3. \A i \in m..(c - 1) : i \in 0..(c - 1) /\ i \notin 0..(m - 1)
    OBVIOUS
  <1> QED
    BY <1>1, <1>2, <1>3 DEF Extended

\* The array grows by a block, and to twice its capacity when it was full.
LEMMA GrownOk ==
    ASSUME NEW t, Alloc(t)
    PROVE  Grew(t, Grown(t))
  <1> DEFINE u == Grown(t)
             n == NB(t)
             c == IF t.size = t.capacity THEN 2 * t.capacity ELSE t.capacity
             N == 0..(t.capacity - 1)
             D == 0..(CB(t) - 1)
             N1 == 0..(c - 1)
             D1 == 0..((c \div B) - 1)
             ring == Ring(t.size, t.size + B - 1)
             nodes == [i \in N1 |-> IF i \in DOMAIN ring THEN ring[i] ELSE Extend(t.node, c, NewNode)[i]]
             infos == Extend(t.ninfo, c, NewNinfo)
             more == Extend(t.block, c \div B, NewBlock)
             blocks == [more EXCEPT ![n].ehead = t.size]
  <1>0. Shape(t)
    BY DEF Alloc
  <1>1. /\ t \in [node : [N -> NodeType], ninfo : [N -> NinfoType],
                  block : [D -> BlockType], head : [ListNames -> Nat],
                  capacity : Nat, size : Nat, reject : [0..B -> Int]]
    BY <1>0 DEF Shape
  <1>2. /\ B \in Nat /\ B >= 3 /\ NB(t) \in Nat /\ CB(t) \in Nat /\ 1 <= NB(t) /\ NB(t) <= CB(t)
        /\ t.size \in Nat /\ t.capacity \in Nat /\ t.size <= t.capacity /\ B <= t.size
        /\ t.size \div B = NB(t) /\ t.capacity \div B = CB(t)
        /\ (t.size = t.capacity <=> NB(t) = CB(t))
        /\ (t.size + B) \div B = NB(t) + 1 /\ t.size + B = B * (NB(t) + 1)
        /\ (2 * t.capacity) \div B = 2 * CB(t) /\ 2 * t.capacity = B * (2 * CB(t))
        /\ (t.size < t.capacity => t.size + B <= t.capacity) /\ t.capacity = B * CB(t)
    BY <1>0, Sizes DEF Shape
  <1>3. /\ c \in Nat /\ c \div B \in Nat /\ c = B * (c \div B) /\ n + 1 <= c \div B /\ CB(t) <= c \div B
        /\ t.capacity <= c /\ t.size + B <= c
    BY <1>2
  <1>4. /\ u.capacity = c /\ u.size = t.size + B /\ u.head = t.head /\ u.reject = t.reject
        /\ u.node = nodes /\ u.ninfo = infos /\ u.block = blocks
        /\ u = [node |-> nodes, ninfo |-> infos, block |-> blocks, head |-> t.head,
                capacity |-> c, size |-> t.size + B, reject |-> t.reject]
    <2>1. u = [t EXCEPT !.capacity = c, !.size = t.size + B, !.node = nodes, !.ninfo = infos,
                 !.block = blocks]
      BY <1>2 DEF Grown
    <2> HIDE DEF u, c, nodes, infos, blocks
    <2> QED
      BY <2>1, <1>1
  <1> HIDE DEF u
  <1>5. /\ infos \in [N1 -> NinfoType]
        /\ \A i \in N : infos[i] = t.ninfo[i]
        /\ \A i \in t.capacity..(c - 1) : infos[i] = NewNinfo
    <2>2. NewNinfo \in NinfoType
      BY LabelAssumption DEF NewNinfo, NinfoType, Label
    <2>3. t.ninfo \in [N -> NinfoType] /\ t.capacity \in Nat /\ t.capacity <= c /\ c \in Nat
      BY <1>1, <1>3
    <2> HIDE DEF c
    <2>4. Extended(NinfoType, t.capacity, c, t.ninfo, NewNinfo, infos)
      BY <2>2, <2>3, ExtendOk
    <2> QED
      BY <2>4 DEF Extended
  <1>6. /\ more \in [D1 -> BlockType]
        /\ \A b \in D : more[b] = t.block[b]
        /\ \A b \in CB(t)..((c \div B) - 1) : more[b] = NewBlock
    <2> DEFINE d == c \div B
    <2>2. NewBlock \in BlockType
      BY LabelAssumption DEF NewBlock, BlockType
    <2>3. t.block \in [D -> BlockType]
      BY <1>1
    <2>4. d \in Nat /\ CB(t) <= d /\ CB(t) \in Nat
      BY <1>2, <1>3
    <2>5. more = Extend(t.block, d, NewBlock)
      OBVIOUS
    <2> HIDE DEF more, c, d
    <2>6. Extended(BlockType, CB(t), d, t.block, NewBlock, Extend(t.block, d, NewBlock))
      BY <2>2, <2>3, <2>4, ExtendOk
    <2>7. /\ more \in [0..(d - 1) -> BlockType]
          /\ \A b \in D : more[b] = t.block[b]
          /\ \A b \in CB(t)..(d - 1) : more[b] = NewBlock
      BY <2>5, <2>6 DEF Extended
    <2> QED
      BY <2>7 DEF d
  <1>7. /\ blocks \in [D1 -> BlockType]
        /\ \A b \in D1 : b # n => blocks[b] = more[b]
        /\ blocks[n].ehead = t.size /\ blocks[n].num = more[n].num /\ blocks[n].trial = more[n].trial
    <2> DEFINE y == more[n]
               r == [y EXCEPT !.ehead = t.size]
               j == n
    <2>1. j \in D1 /\ y \in BlockType
      <3>1. n \in Nat /\ n + 1 <= c \div B /\ c \div B \in Nat
        BY <1>2, <1>3
      <3> DEFINE d == c \div B
      <3>2. more \in [0..(d - 1) -> BlockType]
        BY <1>6
      <3> HIDE DEF d, more
      <3>3. n \in 0..(d - 1)
        <4> HIDE DEF n
        <4> QED
          BY <3>1 DEF d
      <3>4. more[n] \in BlockType
        BY <3>2, <3>3
      <3> QED
        BY <3>3, <3>4 DEF d
    <2>2. blocks = WithAt(more, j, r)
      BY DEF WithAt
    <2>3. t.size \in Nat
      BY <1>2
    <2> HIDE DEF more, c, y, blocks
    <2>4. r \in BlockType /\ r.ehead = t.size /\ r.num = y.num /\ r.trial = y.trial
      BY <2>1, <2>3 DEF BlockType
    <2> HIDE DEF j
    <2>5. Differs(D1, BlockType, more, j, r, WithAt(more, j, r))
      BY <2>1, <2>4, <1>6, SetOne
    <2>6. blocks \in [D1 -> BlockType] /\ blocks[j] = r /\ \A b \in D1 : b # j => blocks[b] = more[b]
      BY <2>2, <2>5 DEF Differs
    <2> QED
      BY <2>4, <2>6 DEF j, y
  <1>8. /\ nodes \in [N1 -> NodeType]
        /\ \A i \in 0..(t.size - 1) : nodes[i] = t.node[i]
        /\ \A i \in t.size..(t.size + B - 1) : nodes[i] = ring[i]
    <2> DEFINE M == t.size..(t.size + B - 1)
               old == Extend(t.node, c, NewNode)
    <2>1. DOMAIN ring = M /\ \A i \in M : ring[i] \in NodeType
      <3> DEFINE x == t.size
                 y == t.size + B - 1
      <3>1. x \in Int /\ y \in Int
        BY <1>2
      <3>2. ring = Ring(x, y)
        OBVIOUS
      <3> HIDE DEF x, y
      <3>3. \A i \in x..y : Ring(x, y)[i] \in NodeType
        BY <3>1 DEF Ring, NodeType
      <3>4. DOMAIN Ring(x, y) = x..y
        BY DEF Ring
      <3> QED
        BY <3>2, <3>3, <3>4 DEF x, y
    <2>2. old = [i \in N1 |-> IF i \in DOMAIN t.node THEN t.node[i] ELSE NewNode]
      BY DEF Extend
    <2>3. NewNode \in NodeType /\ t.node \in [N -> NodeType]
      BY <1>1 DEF NewNode, NodeType
    <2> DEFINE rg == ring
    <2>4. nodes = [i \in N1 |-> IF i \in M THEN rg[i] ELSE old[i]]
      BY <2>1
    <2>5. \A i \in M : rg[i] \in NodeType
      BY <2>1
    <2> HIDE DEF nodes, c, old, rg
    <2>6. \A i \in N1 : old[i] \in NodeType
      BY <2>2, <2>3
    <2>7. \A i \in 0..(t.size - 1) : i \in N1 /\ i \in N /\ i \notin M
      BY <1>2, <1>3
    <2>8. \A i \in M : i \in N1
      BY <1>2, <1>3
    <2>9. \A i \in N : i \in N1
      BY <1>2, <1>3
    <2>10. nodes \in [N1 -> NodeType]
      <3> HIDE DEF M
      <3> QED
        BY <2>4, <2>5, <2>6
    <2>11. \A i \in 0..(t.size - 1) : nodes[i] = t.node[i]
      <3> HIDE DEF M
      <3> QED
        BY <2>2, <2>3, <2>4, <2>7
    <2>12. \A i \in M : nodes[i] = rg[i]
      <3> HIDE DEF M
      <3> QED
        BY <2>4, <2>8
    <2> QED
      BY <2>10, <2>11, <2>12 DEF rg
  <1> HIDE DEF nodes, infos, blocks, more
  <1>9. NB(u) = n + 1 /\ CB(u) = c \div B
    BY <1>2, <1>4 DEF NB, CB
  <1>10. Shape(u)
    <2>1. u \in [node : [0..(u.capacity - 1) -> NodeType], ninfo : [0..(u.capacity - 1) -> NinfoType],
              block : [0..(CB(u) - 1) -> BlockType], head : [ListNames -> Nat],
              capacity : Nat, size : Nat, reject : [0..B -> Int]]
      <3>1. t.head \in [ListNames -> Nat] /\ t.reject \in [0..B -> Int] /\ t.size + B \in Nat /\ c \in Nat
        <4>1. t.head \in [ListNames -> Nat] /\ t.reject \in [0..B -> Int]
          BY <1>1
        <4>2. t.size + B \in Nat
          BY <1>2
        <4> QED
          BY <4>1, <4>2, <1>3
      <3>2. u.capacity = c /\ CB(u) = c \div B
        BY <1>4, <1>9
      <3>3. nodes \in [N1 -> NodeType] /\ infos \in [N1 -> NinfoType] /\ blocks \in [D1 -> BlockType]
        BY <1>5, <1>7, <1>8
      <3>4. u = [node |-> nodes, ninfo |-> infos, block |-> blocks, head |-> t.head,
                capacity |-> c, size |-> t.size + B, reject |-> t.reject]
        BY <1>4
      <3> HIDE DEF c
      <3> QED
        BY <3>1, <3>2, <3>3, <3>4
    <2>2. u.size = B * NB(u) /\ u.capacity = B * CB(u) /\ NB(u) \in Nat /\ CB(u) \in Nat
          /\ 1 <= NB(u) /\ NB(u) <= CB(u)
      BY <1>2, <1>3, <1>4, <1>9
    <2> QED
      BY <2>1, <2>2 DEF Shape
  <1>11. \A b \in NB(t)..(CB(t) - 1) : t.block[b].num = B /\ t.block[b].trial = 0
    BY DEF Alloc
  <1>12. NewBlock.num = B /\ NewBlock.trial = 0
    BY DEF NewBlock
  <1>13. \A b \in 0..(CB(t) - 1) : b # NB(t) => u.block[b] = t.block[b]
    <2>1. CB(t) \in Nat /\ c \div B \in Nat /\ CB(t) <= c \div B
      BY <1>2, <1>3
    <2>2. \A b \in D : b \in D1
      <3> DEFINE d == c \div B
      <3> HIDE DEF d
      <3> QED
        BY <2>1 DEF d
    <2> HIDE DEF c, D1
    <2> QED
      BY <2>2, <1>4, <1>6, <1>7
  <1>14. u.block[n].num = B /\ u.block[n].trial = 0 /\ u.block[n].ehead = t.size
    <2>1. more[n].num = B /\ more[n].trial = 0
      <3>1. CASE n = CB(t)
        <4> DEFINE d == c \div B
        <4>1. n + 1 <= d /\ d \in Nat /\ n \in Nat
          BY <1>2, <1>3
        <4>2. \A b \in CB(t)..(d - 1) : more[b] = NewBlock
          BY <1>6
        <4> HIDE DEF d, c, more
        <4>3. n \in CB(t)..(d - 1)
          <5> HIDE DEF n
          <5> QED
            BY <4>1, <3>1
        <4> QED
          BY <4>2, <4>3, <1>12
      <3>2. CASE n # CB(t)
        <4>1. n \in NB(t)..(CB(t) - 1) /\ n \in D
          BY <3>2, <1>2
        <4> QED
          BY <4>1, <1>6, <1>11
      <3> QED
        BY <3>1, <3>2
    <2> QED
      BY <2>1, <1>4, <1>7
  <1>15. \A b \in CB(t)..(CB(u) - 1) : u.block[b].num = B /\ u.block[b].trial = 0
    <2> TAKE b \in CB(t)..(CB(u) - 1)
    <2>1. CASE b = n
      BY <2>1, <1>14
    <2>2. CASE b # n
      <3>1. b \in D1 /\ b \in CB(t)..((c \div B) - 1)
        BY <1>9, <1>2
      <3>2. u.block[b] = NewBlock
        BY <3>1, <2>2, <1>4, <1>6, <1>7
      <3> QED
        BY <3>2, <1>12
    <2> QED
      BY <2>1, <2>2
  <1>16. \A i \in 0..(t.size - 1) : u.node[i] = t.node[i]
    BY <1>4, <1>8
  <1>17. \A i \in t.size..(t.size + B - 1) : u.node[i] = Ring(t.size, t.size + B - 1)[i]
    BY <1>4, <1>8
  <1>18. /\ \A i \in 0..(t.capacity - 1) : u.ninfo[i] = t.ninfo[i]
         /\ \A i \in t.capacity..(u.capacity - 1) : u.ninfo[i] = NewNinfo
    BY <1>4, <1>5
  <1>19. u.size = t.size + B /\ NB(u) = NB(t) + 1 /\ CB(t) <= CB(u) /\ t.size <= t.capacity
         /\ t.capacity <= u.capacity /\ u.head = t.head
    BY <1>2, <1>3, <1>4, <1>9
  <1> QED
    BY <1>10, <1>13, <1>14, <1>15, <1>16, <1>17, <1>18, <1>19 DEF Grew, u

\* In block b the nodes of t and w are the same.
SameRing(t, w, b) ==
    /\ b \in 0..(NB(t) - 1) /\ b \in 0..(NB(w) - 1)
    /\ \A i \in Nat : i \div B = b => w.node[i] = t.node[i]
    /\ w.block[b].num = t.block[b].num /\ w.block[b].ehead = t.block[b].ehead

\* Then so is its ring.
LEMMA SameRingOk ==
    ASSUME NEW t, Shape(t), NEW w, Shape(w), NEW b, SameRing(t, w, b)
    PROVE  FreeIn(w, b) = FreeIn(t, b) /\ (RingOk(t, b) => RingOk(w, b))
  <1> DEFINE I == (B * b)..(B * b + B - 1)
             F == FreeIn(t, b)
  <1>1. b \in Nat /\ B \in Nat /\ B * b \in Nat
    <2>1. b \in Nat /\ B \in Nat
      BY LabelAssumption, Sizes DEF SameRing
    <2> QED
      BY <2>1
  <1>2. \A i \in I : i \in Nat /\ i \div B = b
    <2> TAKE i \in I
    <2>1. i \in Nat
      <3> DEFINE x == B * b
      <3>1. x \in Nat /\ i \in x..(x + B - 1)
        BY <1>1
      <3> HIDE DEF x
      <3> QED
        BY <3>1
    <2> QED
      BY <2>1, <1>1, BlockInterval
  <1>3. \A i \in I : w.node[i] = t.node[i]
    BY <1>2 DEF SameRing
  <1>4. FreeIn(w, b) = F
    BY <1>3 DEF FreeIn
  <1>5. \A x \in F : w.node[x] = t.node[x]
    BY <1>3 DEF FreeIn
  <1>6. ASSUME RingOk(t, b) PROVE RingOk(w, b)
    <2>1. NodeRing(w, F)
      <3> DEFINE n == [x \in F |-> -t.node[x].check]
                 p == [x \in F |-> -t.node[x].base]
                 n1 == [x \in F |-> -w.node[x].check]
                 p1 == [x \in F |-> -w.node[x].base]
      <3>1. IsRing(F, n, p)
        BY <1>6 DEF RingOk, NodeRing
      <3>2. \A x \in F : n1[x] = n[x] /\ p1[x] = p[x]
        BY <1>5
      <3> HIDE DEF n, p, n1, p1, F
      <3>3. IsRing(F, n1, p1)
        BY <3>1, <3>2, RingSame
      <3> QED
        BY <3>3 DEF n1, p1, NodeRing
    <2> QED
      BY <1>4, <1>6, <2>1 DEF RingOk, SameRing
  <1> QED
    BY <1>4, <1>6

\* All nodes of a new block are free, and one ring.
LEMMA NewRing ==
    ASSUME NEW w, NEW n, n \in Nat, n >= 1,
           NEW s, s = B * n, w.block[n].num = B, w.block[n].ehead = s,
           \A i \in s..(s + B - 1) : w.node[i] = Ring(s, s + B - 1)[i]
    PROVE  RingOk(w, n) /\ FreeIn(w, n) = s..(s + B - 1)
  <1> DEFINE z == s + B - 1
             I == s..z
  <1>1. B \in Nat /\ B >= 3 /\ s \in Nat /\ s > 0 /\ z \in Nat /\ s <= z
    <2>1. B \in Nat /\ B >= 3
      BY LabelAssumption
    <2>2. s \in Nat /\ s > 0
      BY <2>1
    <2> QED
      BY <2>1, <2>2
  <1>2. \A i \in I : w.node[i].base = (IF i = s THEN -z ELSE -(i - 1))
                   /\ w.node[i].check = (IF i = z THEN -s ELSE -(i + 1))
    <2> HIDE DEF z
    <2>1. \A i \in s..z : Ring(s, z)[i] = [base |-> IF i = s THEN -z ELSE -(i - 1),
                                           check |-> IF i = z THEN -s ELSE -(i + 1)]
      BY DEF Ring
    <2>2. \A i \in s..z : w.node[i] = Ring(s, z)[i]
      BY DEF z
    <2> TAKE i \in I
    <2>3. w.node[i] = [base |-> IF i = s THEN -z ELSE -(i - 1),
                       check |-> IF i = z THEN -s ELSE -(i + 1)]
      BY <2>1, <2>2
    <2> QED
      BY <2>3
  <1> HIDE DEF z
  <1>3. \A i \in I : w.node[i].check < 0 /\ i # 0
    BY <1>1, <1>2
  <1>4. FreeIn(w, n) = I
    BY <1>3 DEF FreeIn, z
  <1>5. NodeRing(w, I)
    <2> DEFINE nx == [x \in I |-> -w.node[x].check]
               pv == [x \in I |-> -w.node[x].base]
    <2>1. \A i \in I : nx[i] = (IF i = z THEN s ELSE i + 1) /\ pv[i] = (IF i = s THEN z ELSE i - 1)
      BY <1>1, <1>2
    <2> HIDE DEF nx, pv
    <2>2. IsRing(s..z, nx, pv)
      BY <1>1, <2>1, IntervalRing
    <2> QED
      BY <2>2 DEF nx, pv, NodeRing
  <1>6. Cardinality(I) = B
    <2>1. Cardinality(s..z) = z - s + 1
      BY <1>1, FS_Interval
    <2> QED
      BY <2>1, <1>1 DEF z
  <1>7. s \in I /\ n # 0
    BY <1>1
  <1> QED
    BY <1>4, <1>5, <1>6, <1>7, <1>1 DEF RingOk, z

\* From t to w a block was added; the nodes that were there are the same.
Added(t, w) ==
    /\ w.size = t.size + B
    /\ Free(w) = Free(t) \cup t.size..(t.size + B - 1)
    /\ \A i \in 0..(t.size - 1) : w.node[i] = t.node[i] /\ w.ninfo[i] = t.ninfo[i]

\* AddBlock puts the new block on the list of the open ones.
LEMMA AddBlockOk ==
    ASSUME NEW t, Alloc(t)
    PROVE  Alloc(AddBlock(t)) /\ Added(t, AddBlock(t))
  <1> DEFINE u == Grown(t)
             n == NB(t)
             S == OnList(t)["open"]
             empty == t.head.open = 0
             w == AddBlock(t)
             C == Circle("open", S \cup {n})
  <1>0. Shape(t) /\ Linked(t, OnList(t))
    BY DEF Alloc
  <1>1. /\ B \in Nat /\ B >= 3 /\ NB(t) \in Nat /\ CB(t) \in Nat /\ 1 <= NB(t) /\ NB(t) <= CB(t)
        /\ t.size \in Nat /\ t.capacity \in Nat /\ t.size <= t.capacity /\ B <= t.size
        /\ t.size \div B = NB(t)
    BY <1>0, Sizes
  <1>2. /\ Shape(u) /\ u.size = t.size + B /\ NB(u) = n + 1 /\ CB(t) <= CB(u)
        /\ t.capacity <= u.capacity /\ u.head = t.head
        /\ \A i \in 0..(t.size - 1) : u.node[i] = t.node[i]
        /\ \A i \in t.size..(t.size + B - 1) : u.node[i] = Ring(t.size, t.size + B - 1)[i]
        /\ \A i \in 0..(t.capacity - 1) : u.ninfo[i] = t.ninfo[i]
        /\ \A i \in t.capacity..(u.capacity - 1) : u.ninfo[i] = NewNinfo
        /\ \A b \in 0..(CB(t) - 1) : b # n => u.block[b] = t.block[b]
        /\ u.block[n].num = B /\ u.block[n].trial = 0 /\ u.block[n].ehead = t.size
        /\ \A b \in CB(t)..(CB(u) - 1) : u.block[b].num = B /\ u.block[b].trial = 0
    BY GrownOk DEF Grew
  <1>3. CB(u) \in Nat /\ n + 1 <= CB(u) /\ u.size \in Nat /\ u.capacity \in Nat /\ u.size <= u.capacity
    BY <1>2, Sizes
  <1>4. w = PushBlock(u, n, "open", empty)
    BY <1>1 DEF AddBlock
  <1> HIDE DEF u, w
  <1>5. ASSUME NEW l \in ListNames PROVE ListOk(u, l, OnList(t)[l]) /\ OnList(t)[l] \subseteq 1..(n - 1)
    <2>1. OnList(t)[l] \subseteq 1..(n - 1) /\ ListOk(t, l, OnList(t)[l])
      BY <1>0 DEF Linked
    <2>2. \A b \in Circle(l, OnList(t)[l]) \cup {0} : b \in 0..(CB(t) - 1) /\ b # n
      BY <2>1, <1>1 DEF Circle
    <2>3. \A b \in Circle(l, OnList(t)[l]) \cup {0} : l = "full" \/ b # 0 =>
               u.block[b].next = t.block[b].next /\ u.block[b].prev = t.block[b].prev
      BY <2>2, <1>2
    <2>4. 0 \notin OnList(t)[l] /\ u.head[l] = t.head[l]
      BY <2>1, <1>2
    <2> QED
      BY <2>1, <2>3, <2>4, ListSame
  <1>6. S \in SUBSET (1..(NB(u) - 1)) /\ n \notin S /\ InBlocks(u, n)
    <2>1. S \subseteq 1..(n - 1)
      BY <1>5 DEF ListNames
    <2> HIDE DEF S
    <2> QED
      BY <2>1, <1>1, <1>2, <1>3 DEF InBlocks
  <1>7. empty <=> S = {}
    <2>1. ListOk(t, "open", S)
      BY <1>0 DEF Linked, ListNames
    <2> HIDE DEF S
    <2> QED
      BY <2>1 DEF ListOk
  <1>8. Relinked(u, w, C, "open") /\ ListOk(w, "open", S \cup {n})
    <2>1. Shape(u) /\ "open" \in ListNames /\ ListOk(u, "open", S) /\ empty \in BOOLEAN
      BY <1>2, <1>5 DEF ListNames
    <2>2. empty <=> S = {} /\ "open" # "full"
      BY <1>7
    <2> HIDE DEF S, empty, n
    <2> QED
      BY <2>1, <2>2, <1>4, <1>6, PushBlockOk
  <1>9. /\ Shape(w) /\ w.node = u.node /\ w.ninfo = u.ninfo /\ w.capacity = u.capacity /\ w.size = u.size
        /\ \A b \in 0..(CB(u) - 1) :
             /\ w.block[b].num = u.block[b].num /\ w.block[b].trial = u.block[b].trial
             /\ w.block[b].ehead = u.block[b].ehead
        /\ NB(w) = NB(u) /\ CB(w) = CB(u)
    BY <1>8 DEF Relinked, NB, CB
  <1>10. /\ \A b \in 1..(n - 1) : ListIn(w, b) = ListIn(t, b)
         /\ ListIn(w, n) = "open"
    <2>1. \A b \in 1..(n - 1) : w.block[b].num = t.block[b].num /\ w.block[b].trial = t.block[b].trial
      <3> TAKE b \in 1..(n - 1)
      <3>1. b \in 0..(CB(t) - 1) /\ b # n /\ b \in 0..(CB(u) - 1)
        BY <1>1, <1>2, <1>3
      <3> QED
        BY <3>1, <1>2, <1>9
    <2>2. w.block[n].num = B /\ w.block[n].trial = 0
      <3>1. n \in 0..(CB(u) - 1)
        BY <1>1, <1>3
      <3> QED
        BY <3>1, <1>2, <1>9
    <2> QED
      BY <2>1, <2>2, <1>1 DEF ListIn, MaxTrial
  <1>11. /\ OnList(w)["open"] = S \cup {n}
         /\ \A l \in ListNames \ {"open"} : OnList(w)[l] = OnList(t)[l]
    <2>1. \A l \in ListNames : /\ OnList(w)[l] = {b \in 1..n : ListIn(w, b) = l}
                               /\ OnList(t)[l] = {b \in 1..(n - 1) : ListIn(t, b) = l}
      BY <1>1, <1>2, <1>9 DEF OnList
    <2>2. "open" \in ListNames
      BY DEF ListNames
    <2>3. 1..n = (1..(n - 1)) \cup {n} /\ n \notin 1..(n - 1)
      BY <1>1
    <2> HIDE DEF n
    <2>4. \A b : b \in 1..n <=> (b \in 1..(n - 1) \/ b = n)
      BY <2>3
    <2>5. OnList(w)["open"] = S \cup {n}
      <3>1. OnList(w)["open"] = {b \in 1..n : ListIn(w, b) = "open"}
            /\ S = {b \in 1..(n - 1) : ListIn(t, b) = "open"}
        BY <2>1, <2>2
      <3> HIDE DEF S
      <3> QED
        BY <3>1, <2>4, <1>10
    <2>6. ASSUME NEW l \in ListNames \ {"open"} PROVE OnList(w)[l] = OnList(t)[l]
      <3>1. /\ OnList(w)[l] = {b \in 1..n : ListIn(w, b) = l}
            /\ OnList(t)[l] = {b \in 1..(n - 1) : ListIn(t, b) = l}
        BY <2>1
      <3>2. ListIn(w, n) # l
        BY <1>10
      <3> QED
        BY <3>1, <3>2, <2>4, <1>10
    <2> QED
      BY <2>5, <2>6
  <1>12. Linked(w, OnList(w))
    <2>1. ASSUME NEW l \in ListNames
          PROVE  OnList(w)[l] \subseteq 1..(NB(w) - 1) /\ ListOk(w, l, OnList(w)[l])
      <3>1. OnList(w)[l] \subseteq 1..(NB(w) - 1)
        BY DEF OnList
      <3>2. CASE l = "open"
        BY <3>1, <3>2, <1>8, <1>11
      <3>3. CASE l # "open"
        <4> DEFINE T == OnList(t)[l]
        <4>1. l \in ListNames \ {"open"} /\ ListOk(u, l, T) /\ T \subseteq 1..(n - 1)
          BY <3>3, <1>5
        <4>2. T \subseteq 1..(CB(u) - 1) /\ CB(u) \in Nat /\ 1 <= CB(u)
          BY <4>1, <1>1, <1>3
        <4>3. T \cap S = {} /\ n \notin T /\ 0 \notin S /\ n # 0
          <5>1. T \cap S = {}
            BY <3>3, <1>0 DEF Linked, ListNames
          <5>2. 0 \notin S
            BY <1>6
          <5> QED
            BY <5>1, <5>2, <4>1, <1>1
        <4>4. Circle(l, T) \cap C = {}
          BY <4>3 DEF Circle
        <4>5. ListOk(w, l, T)
          <5> HIDE DEF T, C
          <5> QED
            BY <4>1, <4>2, <4>4, <1>8, OtherList DEF ListNames
        <4> QED
          BY <3>1, <4>1, <4>5, <1>11
      <3> QED
        BY <3>2, <3>3
    <2>2. \A l, m \in ListNames : l # m => OnList(w)[l] \cap OnList(w)[m] = {}
      BY DEF OnList
    <2> QED
      BY <2>1, <2>2 DEF Linked
  <1>13. RingOk(w, n) /\ FreeIn(w, n) = t.size..(t.size + B - 1) /\ w.block[n].trial = 0
    <2>1. w.block[n].num = B /\ w.block[n].ehead = t.size /\ w.block[n].trial = 0
      <3>1. n \in 0..(CB(u) - 1)
        BY <1>1, <1>3
      <3> QED
        BY <3>1, <1>2, <1>9
    <2>2. \A i \in t.size..(t.size + B - 1) : w.node[i] = Ring(t.size, t.size + B - 1)[i]
      BY <1>2, <1>9
    <2>3. n \in Nat /\ n >= 1 /\ t.size = B * n
      BY <1>0, <1>1 DEF Shape
    <2> QED
      BY <2>1, <2>2, <2>3, NewRing
  <1>14. ASSUME NEW b \in 0..(n - 1)
         PROVE  RingOk(w, b) /\ w.block[b].trial \in {0, 1} /\ FreeIn(w, b) = FreeIn(t, b)
    <2>1. b \in 0..(CB(t) - 1) /\ b # n /\ b \in 0..(CB(u) - 1) /\ b \in 0..(NB(w) - 1)
      BY <1>1, <1>2, <1>3, <1>9
    <2>2. w.block[b].num = t.block[b].num /\ w.block[b].ehead = t.block[b].ehead
          /\ w.block[b].trial = t.block[b].trial
      BY <2>1, <1>2, <1>9
    <2>3. \A i \in Nat : i \div B = b => w.node[i] = t.node[i]
      <3> SUFFICES ASSUME NEW i \in Nat, i \div B = b PROVE w.node[i] = t.node[i]
        OBVIOUS
      <3>1. n \in Nat /\ t.size = B * n
        BY <1>0, <1>1 DEF Shape
      <3>2. i < B * n
        <4>1. i \div B < n
          BY <1>1
        <4> QED
          BY <3>1, <4>1, BlockInterval
      <3>3. i \in 0..(t.size - 1)
        BY <3>1, <3>2, <1>1
      <3> QED
        BY <3>3, <1>2, <1>9
    <2>4. SameRing(t, w, b)
      BY <2>1, <2>2, <2>3 DEF SameRing
    <2>5. RingOk(t, b) /\ t.block[b].trial \in {0, 1}
      BY DEF Alloc
    <2> QED
      BY <2>2, <2>4, <2>5, <1>0, <1>9, SameRingOk
  <1>15. \A b \in 0..(NB(w) - 1) : RingOk(w, b) /\ w.block[b].trial \in {0, 1}
    <2> TAKE b \in 0..(NB(w) - 1)
    <2>1. b = n \/ b \in 0..(n - 1)
      BY <1>1, <1>2, <1>9
    <2> QED
      BY <2>1, <1>13, <1>14
  <1>16. FreeIn(w, 0) # {}
    <2>1. 0 \in 0..(n - 1)
      BY <1>1
    <2> QED
      BY <2>1, <1>14 DEF Alloc
  <1>17. \A i \in 0..(w.capacity - 1) : Spare(w, i) => w.ninfo[i] = NewNinfo
    <2> SUFFICES ASSUME NEW i \in 0..(w.capacity - 1), Spare(w, i) PROVE w.ninfo[i] = NewNinfo
      OBVIOUS
    <2>1. CASE i \in 0..(t.size - 1)
      <3>1. w.node[i] = t.node[i] /\ i \in 0..(t.capacity - 1) /\ w.ninfo[i] = t.ninfo[i]
        BY <2>1, <1>1, <1>2, <1>9
      <3>2. Spare(t, i)
        BY <2>1, <3>1, <1>1, <1>2, <1>9 DEF Spare
      <3> QED
        BY <3>1, <3>2 DEF Alloc
    <2>2. CASE i \in t.size..(t.capacity - 1)
      <3>1. i \in 0..(t.capacity - 1) /\ Spare(t, i) /\ w.ninfo[i] = t.ninfo[i]
        BY <2>2, <1>1, <1>2, <1>9 DEF Spare
      <3> QED
        BY <3>1 DEF Alloc
    <2>3. CASE i \in t.capacity..(u.capacity - 1)
      BY <2>3, <1>2, <1>9
    <2> QED
      BY <2>1, <2>2, <2>3, <1>1, <1>9, <1>3
  <1>18. \A b \in NB(w)..(CB(w) - 1) : w.block[b].num = B /\ w.block[b].trial = 0
    <2> TAKE b \in NB(w)..(CB(w) - 1)
    <2>1. b \in 0..(CB(u) - 1) /\ b \in (n + 1)..(CB(u) - 1)
      BY <1>1, <1>2, <1>3, <1>9
    <2>2. CASE b < CB(t)
      <3>1. b \in 0..(CB(t) - 1) /\ b # n /\ b \in NB(t)..(CB(t) - 1)
        BY <2>1, <2>2, <1>1
      <3>2. t.block[b].num = B /\ t.block[b].trial = 0
        BY <3>1 DEF Alloc
      <3> QED
        BY <3>1, <3>2, <2>1, <1>2, <1>9
    <2>3. CASE b >= CB(t)
      <3>1. b \in CB(t)..(CB(u) - 1)
        BY <2>1, <2>3, <1>1, <1>3
      <3> QED
        BY <3>1, <2>1, <1>2, <1>9
    <2> QED
      BY <2>1, <2>2, <2>3, <1>1, <1>3
  <1>19. Added(t, w)
    <2>1. \A i \in 0..(t.size - 1) : w.node[i] = t.node[i] /\ w.ninfo[i] = t.ninfo[i]
      <3> TAKE i \in 0..(t.size - 1)
      <3>1. i \in 0..(t.capacity - 1)
        BY <1>1
      <3> QED
        BY <3>1, <1>2, <1>9
    <2>2. \A i \in t.size..(t.size + B - 1) : i # 0 /\ w.node[i].check < 0
      <3>1. \A i \in FreeIn(w, n) : i # 0 /\ w.node[i].check < 0
        BY DEF FreeIn
      <3> QED
        BY <3>1, <1>13
    <2>3. w.size = t.size + B
      BY <1>2, <1>9
    <2>4. \A i : i \in 0..(w.size - 1) <=> (i \in 0..(t.size - 1) \/ i \in t.size..(t.size + B - 1))
      BY <2>3, <1>1
    <2>5. Free(w) = Free(t) \cup t.size..(t.size + B - 1)
      BY <2>1, <2>2, <2>4 DEF Free
    <2> QED
      BY <2>1, <2>3, <2>5 DEF Added
  <1> QED
    BY <1>9, <1>12, <1>15, <1>16, <1>17, <1>18, <1>19 DEF Alloc, w

-----------------------------------------------------------------------------
(* Finding free nodes *)

\* From t to w no node changed; new ones are free.
Held(t, w) ==
    /\ t.size <= w.size
    /\ \A i \in 0..(t.size - 1) : w.node[i] = t.node[i] /\ w.ninfo[i] = t.ninfo[i]
    /\ \A i \in t.size..(w.size - 1) : i \in Free(w)

\* Node e is free, and not in block 0.
Place(w, e) == e \in Free(w) /\ e \div B # 0

\* The head of a block that is not full is free.
LEMMA HeadFree ==
    ASSUME NEW t, Alloc(t), NEW b, b \in 1..(NB(t) - 1), ListIn(t, b) # "full"
    PROVE  t.block[b].ehead \in FreeIn(t, b) /\ Place(t, t.block[b].ehead)
           /\ t.block[b].ehead \div B = b
  <1> DEFINE c == b
  <1>0. Shape(t) /\ NB(t) \in Nat /\ c \in 0..(NB(t) - 1) /\ c # 0
    <2>1. Shape(t)
      BY DEF Alloc
    <2>2. NB(t) \in Nat
      BY <2>1, Sizes
    <2> QED
      BY <2>1, <2>2
  <1>1. RingOk(t, c)
    BY <1>0 DEF Alloc
  <1>2. t.block[c].num # 0
    BY DEF ListIn
  <1>3. FreeIn(t, c) # {}
    BY <1>0, <1>1, <1>2, FS_EmptySet DEF RingOk
  <1>4. t.block[c].ehead \in FreeIn(t, c)
    BY <1>1, <1>3 DEF RingOk
  <1> DEFINE e == t.block[c].ehead
  <1> HIDE DEF c, e
  <1>5. e \in FreeIn(t, c)
    BY <1>4 DEF e
  <1>6. e \in Nat /\ e > 0 /\ e \in 0..(t.size - 1) /\ e \div B = c /\ t.node[e].check < 0
    BY <1>0, <1>5, FreeInNodes
  <1>7. Place(t, e) /\ e \div B = c
    BY <1>6, <1>0 DEF Free, Place
  <1> QED
    BY <1>5, <1>7 DEF c, e

\* A list whose head is not 0 has that block.
LEMMA HeadOn ==
    ASSUME NEW t, Alloc(t), NEW l \in ListNames, t.head[l] # 0
    PROVE  t.head[l] \in 1..(NB(t) - 1) /\ ListIn(t, t.head[l]) = l
  <1>1. Linked(t, OnList(t))
    BY DEF Alloc
  <1>2. ListOk(t, l, OnList(t)[l])
    BY <1>1 DEF Linked
  <1>3. t.head[l] \in OnList(t)[l]
    BY <1>2 DEF ListOk
  <1> QED
    BY <1>3 DEF OnList

\* The first node of a new block is a place.
LEMMA AddedPlace ==
    ASSUME NEW t, Alloc(t)
    PROVE  Alloc(AddBlock(t)) /\ Held(t, AddBlock(t)) /\ Place(AddBlock(t), t.size)
           /\ \A i \in t.size..(t.size + B - 1) : i \in Free(AddBlock(t))
  <1> DEFINE w == AddBlock(t)
  <1>1. Alloc(w) /\ Added(t, w)
    BY AddBlockOk
  <1>2. B \in Nat /\ B >= 3 /\ t.size \in Nat /\ t.size \div B = NB(t) /\ 1 <= NB(t) /\ NB(t) \in Nat
    <2>1. Shape(t)
      BY DEF Alloc
    <2> QED
      BY <2>1, Sizes
  <1> HIDE DEF w
  <1>3. /\ w.size = t.size + B
        /\ Free(w) = Free(t) \cup t.size..(t.size + B - 1)
        /\ \A i \in 0..(t.size - 1) : w.node[i] = t.node[i] /\ w.ninfo[i] = t.ninfo[i]
    BY <1>1 DEF Added
  <1>4. Held(t, w)
    BY <1>2, <1>3 DEF Held
  <1>5. t.size \in Free(w)
    BY <1>2, <1>3
  <1>6. t.size \div B # 0
    BY <1>2
  <1> QED
    BY <1>1, <1>3, <1>4, <1>5, <1>6 DEF Place, w

\* The place and the trie with it
Found(t, f) == Alloc(f.t) /\ Held(t, f.t) /\ Place(f.t, f.to)

\* Nothing changed.
LEMMA HeldSame ==
    ASSUME NEW t, Shape(t)
    PROVE  Held(t, t)
  <1>1. t.size \in Nat
    BY Sizes
  <1> QED
    BY <1>1 DEF Held

\* FindPlace finds a place.
LEMMA FindPlaceOk ==
    ASSUME NEW t, Alloc(t)
    PROVE  Found(t, FindPlace(t))
  <1>0. Held(t, t)
    BY HeldSame DEF Alloc
  <1>1. CASE t.head.close # 0
    <2>1. FindPlace(t) = [t |-> t, to |-> t.block[t.head.close].ehead]
      BY <1>1 DEF FindPlace
    <2> DEFINE b == t.head["close"]
    <2>2. b \in 1..(NB(t) - 1) /\ ListIn(t, b) = "close"
      BY <1>1, HeadOn DEF ListNames
    <2> HIDE DEF b
    <2>3. Place(t, t.block[b].ehead)
      BY <2>2, HeadFree
    <2> QED
      BY <2>1, <2>3, <1>0 DEF Found, b
  <1>2. CASE t.head.close = 0 /\ t.head.open # 0
    <2>1. FindPlace(t) = [t |-> t, to |-> t.block[t.head.open].ehead]
      BY <1>2 DEF FindPlace
    <2> DEFINE b == t.head["open"]
    <2>2. b \in 1..(NB(t) - 1) /\ ListIn(t, b) = "open"
      BY <1>2, HeadOn DEF ListNames
    <2> HIDE DEF b
    <2>3. Place(t, t.block[b].ehead)
      BY <2>2, HeadFree
    <2> QED
      BY <2>1, <2>3, <1>0 DEF Found, b
  <1>3. CASE t.head.close = 0 /\ t.head.open = 0
    <2>1. FindPlace(t) = [t |-> AddBlock(t), to |-> t.size]
      BY <1>3 DEF FindPlace
    <2> QED
      BY <2>1, AddedPlace DEF Found
  <1> QED
    BY <1>1, <1>2, <1>3

\* f begins with s and goes on by g.
Iterated(f, n, s, g) == f = [k \in 0..n |-> IF k = 0 THEN s ELSE g[f[k - 1]]]

\* A function can be iterated.
LEMMA Iterates ==
    ASSUME NEW g, NEW s, NEW n, n \in Nat
    PROVE  \E f : Iterated(f, n, s, g)
  <1> DEFINE P(m, f) == f = [k \in 0..m |-> IF k = 0 THEN s ELSE g[f[k - 1]]]
             M == {m \in Nat : \E f : P(m, f)}
  <1>1. 0 \in M
    <2> DEFINE f == [k \in 0..0 |-> s]
    <2>1. P(0, f)
      OBVIOUS
    <2> HIDE DEF f
    <2> QED
      BY <2>1
  <1>2. ASSUME NEW m \in Nat, m \in M PROVE m + 1 \in M
    <2>1. PICK f : P(m, f)
      BY <1>2
    <2> DEFINE h == [k \in 0..(m + 1) |-> IF k = m + 1 THEN g[f[m]] ELSE f[k]]
    <2>2. \A k \in 0..(m + 1) : h[k] = (IF k = 0 THEN s ELSE g[h[k - 1]])
      <3> TAKE k \in 0..(m + 1)
      <3>1. CASE k = 0
        <4>1. h[0] = f[0] /\ f[0] = s
          BY <2>1
        <4> QED
          BY <3>1, <4>1
      <3>2. CASE k = m + 1
        <4>1. h[k] = g[f[m]] /\ k - 1 = m /\ m \in 0..(m + 1) /\ m # m + 1
          BY <3>2
        <4>2. h[m] = f[m]
          BY <4>1
        <4> QED
          BY <3>2, <4>1, <4>2
      <3>3. CASE k # 0 /\ k # m + 1
        <4>1. k \in 0..m /\ k - 1 \in 0..m /\ k - 1 # m + 1 /\ k - 1 \in 0..(m + 1)
          BY <3>3
        <4>2. h[k] = f[k] /\ h[k - 1] = f[k - 1]
          BY <4>1, <3>3
        <4>3. f[k] = g[f[k - 1]]
          BY <2>1, <4>1, <3>3
        <4> QED
          BY <4>2, <4>3, <3>3
      <3> QED
        BY <3>1, <3>2, <3>3
    <2>3. P(m + 1, h)
      <3>1. h = [k \in 0..(m + 1) |-> h[k]]
        OBVIOUS
      <3> HIDE DEF h
      <3> QED
        BY <2>2, <3>1
    <2> HIDE DEF h
    <2>4. \E ff : P(m + 1, ff)
      BY <2>3
    <2> QED
      BY <2>4
  <1>3. n \in M
    <2> HIDE DEF M
    <2> QED
      BY <1>1, <1>2, Induction
  <1> QED
    BY <1>3 DEF Iterated

\* A set that holds the first value and is closed holds all.
LEMMA IteratesIn ==
    ASSUME NEW g, NEW s, NEW n, n \in Nat, NEW f, Iterated(f, n, s, g), NEW D, s \in D,
           \A x \in D : g[x] \in D
    PROVE  \A k \in 0..n : f[k] \in D
  <1> DEFINE M == {k \in Nat : k \in 0..n => f[k] \in D}
  <1>1. 0 \in M
    BY DEF Iterated
  <1>2. ASSUME NEW k \in Nat, k \in M PROVE k + 1 \in M
    <2> SUFFICES ASSUME k + 1 \in 0..n PROVE f[k + 1] \in D
      OBVIOUS
    <2>1. k \in 0..n /\ f[k] \in D
      BY <1>2
    <2>2. f[k + 1] = g[f[k]]
      BY DEF Iterated
    <2> QED
      BY <2>1, <2>2
  <1>3. Nat \subseteq M
    <2> HIDE DEF M
    <2> QED
      BY <1>1, <1>2, Induction
  <1> QED
    BY <1>3

\* Node e is free in block b, and so are the places of the other labels.
Fits(t, b, e, labels) == e \in FreeIn(t, b) /\ Suits(t, e, labels)

\* Fit goes through free nodes of the block only.
LEMMA FitOk ==
    ASSUME NEW t, NEW F, NodeRing(t, F), NEW h, h \in F, NEW labels, Fit(t, h, labels) # -1
    PROVE  Fit(t, h, labels) \in F /\ Suits(t, Fit(t, h, labels), labels)
  <1> DEFINE N == 0..(B - 1)
             P(f) == f = [k \in N |-> IF k = 0 THEN h ELSE -t.node[f[k - 1]].check]
             ring == CHOOSE f : P(f)
             fits == {k \in N : Suits(t, ring[k], labels)}
  <1>0. B \in Nat /\ B >= 3 /\ B - 1 \in Nat
    BY LabelAssumption
  <1>1. \A x \in F : -t.node[x].check \in F
    <2> DEFINE n == [x \in F |-> -t.node[x].check]
               p == [x \in F |-> -t.node[x].base]
    <2>1. IsRing(F, n, p)
      BY DEF NodeRing
    <2> HIDE DEF n, p
    <2>2. \A x \in F : n[x] \in F
      BY <2>1 DEF IsRing
    <2> QED
      BY <2>2 DEF n
  <1>2. \E f : P(f)
    <2> DEFINE g == [x \in F |-> -t.node[x].check]
    <2>1. PICK f : Iterated(f, B - 1, h, g)
      <3> HIDE DEF g
      <3> QED
        BY <1>0, Iterates
    <2>2. \A x \in F : g[x] = -t.node[x].check /\ g[x] \in F
      BY <1>1
    <2> HIDE DEF g
    <2>3. \A k \in N : f[k] \in F
      BY <1>0, <2>1, <2>2, IteratesIn
    <2>4. f = [k \in N |-> IF k = 0 THEN h ELSE g[f[k - 1]]]
      BY <2>1 DEF Iterated
    <2>5. \A k \in N : k # 0 => g[f[k - 1]] = -t.node[f[k - 1]].check
      <3> SUFFICES ASSUME NEW k \in N, k # 0 PROVE g[f[k - 1]] = -t.node[f[k - 1]].check
        OBVIOUS
      <3>1. k - 1 \in N
        BY <1>0
      <3> QED
        BY <3>1, <2>2, <2>3
    <2>6. f = [k \in N |-> IF k = 0 THEN h ELSE -t.node[f[k - 1]].check]
      BY <2>4, <2>5
    <2> QED
      BY <2>6
  <1>3. P(ring)
    <2> HIDE DEF P
    <2> QED
      BY <1>2
  <1>4. Fit(t, h, labels) = IF fits = {} THEN -1 ELSE ring[CHOOSE k \in fits : \A j \in fits : k <= j]
    BY DEF Fit
  <1> HIDE DEF ring
  <1>5. \A k \in N : ring[k] \in F
    <2> DEFINE M == {k \in Nat : k \in N => ring[k] \in F}
    <2>1. 0 \in M
      BY <1>3, <1>0
    <2>2. ASSUME NEW k \in Nat, k \in M PROVE k + 1 \in M
      <3> SUFFICES ASSUME k + 1 \in N PROVE ring[k + 1] \in F
        OBVIOUS
      <3>1. k \in N /\ ring[k] \in F
        BY <2>2, <1>0
      <3>2. ring[k + 1] = -t.node[ring[k]].check
        BY <1>3, <3>1
      <3> QED
        BY <3>1, <3>2, <1>1
    <2>3. Nat \subseteq M
      <3> HIDE DEF M
      <3> QED
        BY <2>1, <2>2, Induction
    <2> QED
      BY <2>3
  <1>6. fits # {}
    BY <1>4
  <1>7. PICK m \in fits : \A j \in fits : m <= j
    <2>1. fits \subseteq Nat
      BY <1>0
    <2> HIDE DEF fits
    <2> QED
      BY <2>1, <1>6, LeastOf
  <1> DEFINE c == CHOOSE k \in fits : \A j \in fits : k <= j
  <1>8. c \in fits
    <2> HIDE DEF fits
    <2> QED
      BY <1>7
  <1>9. Fit(t, h, labels) = ring[c]
    BY <1>4, <1>6
  <1> HIDE DEF c
  <1> QED
    BY <1>5, <1>8, <1>9

\* PlaceIn finds a place whose labels have free nodes.
LEMMA PlaceInOk ==
    ASSUME NEW t, Alloc(t), NEW b, b \in 1..(NB(t) - 1), ListIn(t, b) # "full",
           NEW labels, PlaceIn(t, b, labels) # -1
    PROVE  Fits(t, b, PlaceIn(t, b, labels), labels)
  <1>1. PlaceIn(t, b, labels) = Fit(t, t.block[b].ehead, labels)
    BY DEF PlaceIn
  <1>2. t.block[b].ehead \in FreeIn(t, b)
    BY HeadFree
  <1>3. NodeRing(t, FreeIn(t, b))
    <2> DEFINE c == b
    <2>1. c \in 0..(NB(t) - 1)
      OBVIOUS
    <2> HIDE DEF c
    <2>2. RingOk(t, c)
      BY <2>1 DEF Alloc
    <2>3. NodeRing(t, FreeIn(t, c))
      BY <2>2 DEF RingOk
    <2> QED
      BY <2>3 DEF c
  <1> QED
    BY <1>1, <1>2, <1>3, FitOk DEF Fits

\* From t to u block bi became rb, with the links it had, and the rejects h.
Renoted(t, u, bi, rb, h) ==
    /\ SameLinks(t, u)
    /\ u.node = t.node /\ u.ninfo = t.ninfo /\ u.reject = h
    /\ u.block[bi] = rb
    /\ \A b \in 0..(CB(t) - 1) : b # bi => u.block[b] = t.block[b]

\* A block and the rejects are set.
LEMMA RenoteOk ==
    ASSUME NEW t, Shape(t), NEW h, h \in [0..B -> Int],
           NEW bi, bi \in 0..(CB(t) - 1), NEW rb, rb \in BlockType,
           rb.next = t.block[bi].next, rb.prev = t.block[bi].prev,
           NEW u, u = [t EXCEPT !.block = WithAt(@, bi, rb), !.reject = h]
    PROVE  Renoted(t, u, bi, rb, h)
  <1> DEFINE D == 0..(CB(t) - 1)
             N == 0..(t.capacity - 1)
             g == t.block
             k == u.block
             j == bi
  <1>0. /\ t \in [node : [N -> NodeType], ninfo : [N -> NinfoType],
                  block : [D -> BlockType], head : [ListNames -> Nat],
                  capacity : Nat, size : Nat, reject : [0..B -> Int]]
    BY DEF Shape
  <1>1. /\ u.node = t.node /\ k = WithAt(g, bi, rb)
        /\ u.ninfo = t.ninfo /\ u.head = t.head /\ u.capacity = t.capacity /\ u.size = t.size
        /\ u.reject = h
        /\ u = [t EXCEPT !.block = k, !.reject = h]
    BY <1>0
  <1>2. Differs(D, BlockType, g, j, rb, k)
    <2>a. k = WithAt(g, j, rb)
      BY <1>1
    <2>b. g \in [D -> BlockType]
      BY <1>0
    <2>d. j \in D
      OBVIOUS
    <2> HIDE DEF g, k, D, j
    <2> QED
      BY <2>a, <2>b, <2>d, SetOne
  <1>3. k \in [D -> BlockType] /\ k[bi] = rb /\ \A b \in D : b # bi => k[b] = t.block[b]
    BY <1>2 DEF Differs
  <1>4. Shape(u)
    <2>1. u \in [node : [N -> NodeType], ninfo : [N -> NinfoType],
                  block : [D -> BlockType], head : [ListNames -> Nat],
                  capacity : Nat, size : Nat, reject : [0..B -> Int]]
      <3> HIDE DEF k
      <3> QED
        BY <1>0, <1>1, <1>3
    <2> QED
      BY <2>1, <1>1 DEF Shape, NB, CB
  <1>5. SameLinks(t, u)
    <2>1. \A b \in D : u.block[b].next = t.block[b].next /\ u.block[b].prev = t.block[b].prev
      BY <1>3
    <2> QED
      BY <2>1, <1>1, <1>4 DEF SameLinks
  <1> QED
    BY <1>1, <1>3, <1>5 DEF Renoted

\* An open block has two free nodes or more, and was not tried.
LEMMA OpenBlock ==
    ASSUME NEW t, Alloc(t), NEW b, b \in OnList(t)["open"]
    PROVE  /\ b \in 1..(NB(t) - 1) /\ b \in 0..(NB(t) - 1) /\ b \in 0..(CB(t) - 1) /\ b # 0
           /\ ListIn(t, b) = "open"
           /\ t.block[b].num \in 2..B /\ t.block[b].trial = 0
  <1>1. b \in 1..(NB(t) - 1) /\ ListIn(t, b) = "open"
    BY DEF OnList, ListNames
  <1>2. Shape(t)
    BY DEF Alloc
  <1>3. NB(t) \in Nat /\ CB(t) \in Nat /\ NB(t) <= CB(t) /\ B \in Nat
    BY <1>2, Sizes
  <1>4. b \in 0..(NB(t) - 1) /\ b \in 0..(CB(t) - 1) /\ b # 0
    BY <1>1, <1>3
  <1> DEFINE c == b
  <1>5. c \in 0..(NB(t) - 1)
    BY <1>4
  <1>6. RingOk(t, c) /\ t.block[c].trial \in {0, 1}
    <2> HIDE DEF c
    <2> QED
      BY <1>5 DEF Alloc
  <1>7. Cardinality(FreeIn(t, c)) \in Nat /\ Cardinality(FreeIn(t, c)) + (IF c = 0 THEN 1 ELSE 0) <= B
    <2> HIDE DEF c
    <2> QED
      BY <1>5, <1>2, FreeInBlock
  <1>8. t.block[b].num \in Nat /\ t.block[b].num <= B
    BY <1>4, <1>6, <1>7 DEF RingOk
  <1>9. t.block[b].num # 0 /\ t.block[b].num # 1 /\ t.block[b].trial # 1
    BY <1>1, <1>6, <1>8 DEF ListIn, MaxTrial
  <1> QED
    BY <1>1, <1>3, <1>4, <1>6, <1>8, <1>9

\* From t to w only lists changed; block bi is no longer on the open one.
Closed(t, w, bi) ==
    /\ w.size = t.size /\ w.capacity = t.capacity /\ w.node = t.node /\ w.ninfo = t.ninfo
    /\ OnList(w)["open"] = OnList(t)["open"] \ {bi}

\* A rejected block is closed.
LEMMA RejectedOk ==
    ASSUME NEW t, Alloc(t), NEW bi, bi \in OnList(t)["open"], NEW nc, nc \in Nat
    PROVE  Alloc(Rejected(t, bi, nc)) /\ Closed(t, Rejected(t, bi, nc), bi)
  <1> DEFINE b == t.block[bi]
             rb == [b EXCEPT !.reject = nc, !.trial = b.trial + 1]
             h == [t.reject EXCEPT ![b.num] = IF nc < @ THEN nc ELSE @]
             u == Refused(t, bi, nc)
             w == Rejected(t, bi, nc)
             on == OnList(t)
             on2 == [l \in ListNames |-> CASE l = "open" -> on[l] \ {bi} [] l = "close" -> on[l] \cup {bi}
                                           [] OTHER -> on[l]]
  <1>0. Shape(t) /\ Linked(t, on) /\ NB(t) \in Nat
    <2>1. Shape(t) /\ Linked(t, on)
      BY DEF Alloc
    <2> QED
      BY <2>1, Sizes
  <1>1. /\ bi \in 1..(NB(t) - 1) /\ bi \in 0..(NB(t) - 1) /\ bi \in 0..(CB(t) - 1) /\ bi # 0
        /\ ListIn(t, bi) = "open" /\ b.num \in 2..B /\ b.trial = 0
    BY OpenBlock
  <1>2. b \in BlockType
    <2> DEFINE D == 0..(CB(t) - 1)
               j == bi
    <2>1. t.block \in [D -> BlockType] /\ j \in D
      BY <1>0, <1>1 DEF Shape
    <2> HIDE DEF D, j
    <2>2. t.block[j] \in BlockType
      BY <2>1
    <2> QED
      BY <2>2 DEF j
  <1>3. /\ rb \in BlockType /\ rb.next = b.next /\ rb.prev = b.prev /\ rb.num = b.num /\ rb.trial = 1
        /\ rb.ehead = b.ehead
    <2> HIDE DEF b
    <2>1. b.trial + 1 = 1 /\ nc \in Int
      BY <1>1
    <2> DEFINE x == b.trial + 1
    <2>2. rb = [b EXCEPT !.reject = nc, !.trial = x] /\ x = 1
      BY <2>1
    <2> HIDE DEF rb, x
    <2>3. /\ rb \in BlockType /\ rb.next = b.next /\ rb.prev = b.prev /\ rb.num = b.num
          /\ rb.ehead = b.ehead /\ rb.trial = 1
      BY <1>2, <2>1, <2>2 DEF BlockType
    <2> QED
      BY <2>3
  <1>4. h \in [0..B -> Int]
    <2> DEFINE rj == t.reject
               n == b.num
    <2>1. rj \in [0..B -> Int] /\ n \in 0..B
      <3>1. t.reject \in [0..B -> Int]
        BY <1>0 DEF Shape
      <3> QED
        BY <3>1, <1>1
    <2> HIDE DEF rj, n
    <2>2. rj[n] \in Int
      BY <2>1
    <2>3. (IF nc < rj[n] THEN nc ELSE rj[n]) \in Int
      BY <2>2
    <2>4. [rj EXCEPT ![n] = IF nc < rj[n] THEN nc ELSE rj[n]] \in [0..B -> Int]
      BY <2>1, <2>3
    <2> QED
      BY <2>4 DEF rj, n
  <1>5. u = [t EXCEPT !.block = WithAt(@, bi, rb), !.reject = h]
    <2>1. u = [t EXCEPT !.block[bi] = rb, !.reject = h]
      BY DEF Refused
    <2> HIDE DEF rb, u, h
    <2> QED
      BY <2>1 DEF WithAt
  <1>6. Renoted(t, u, bi, rb, h)
    <2> HIDE DEF u, rb, h
    <2> QED
      BY <1>0, <1>1, <1>3, <1>4, <1>5, RenoteOk
  <1> HIDE DEF u
  <1>7. /\ SameLinks(t, u) /\ Shape(u) /\ u.capacity = t.capacity /\ u.size = t.size
        /\ u.node = t.node /\ u.ninfo = t.ninfo /\ u.block[bi] = rb
        /\ \A c \in 0..(CB(t) - 1) : c # bi => u.block[c] = t.block[c]
        /\ NB(u) = NB(t) /\ CB(u) = CB(t)
    BY <1>6 DEF Renoted, SameLinks, NB, CB
  <1>8. w = TransferBlock(u, bi, "open", "close")
    BY <1>3, <1>7 DEF Rejected, MaxTrial, u
  <1> HIDE DEF w, rb, b
  <1>9. Kept(u, w) /\ Linked(w, on2)
    <2>1. Linked(u, on)
      BY <1>0, <1>7, LinkedSame
    <2>2. bi \in on["open"] /\ "open" \in ListNames /\ "close" \in ListNames /\ "open" # "close"
      BY DEF ListNames
    <2>3. "close" = "full" <=> u.block[bi].num = 0
      <3>1. u.block[bi].num # 0
        BY <1>7, <1>3, <1>1
      <3> QED
        BY <3>1
    <2>4. Kept(u, TransferBlock(u, bi, "open", "close"))
          /\ Linked(TransferBlock(u, bi, "open", "close"), on2)
      <3> HIDE DEF on
      <3> QED
        BY <2>1, <2>2, <2>3, <1>7, TransferOk
    <2> QED
      BY <2>4, <1>8
  <1>10. /\ Shape(w) /\ w.node = t.node /\ w.ninfo = t.ninfo /\ w.size = t.size /\ w.capacity = t.capacity
         /\ NB(w) = NB(t) /\ CB(w) = CB(t)
         /\ w.block[bi].num = b.num /\ w.block[bi].trial = 1 /\ w.block[bi].ehead = b.ehead
         /\ \A c \in 0..(CB(t) - 1) : c # bi =>
              /\ w.block[c].num = t.block[c].num /\ w.block[c].trial = t.block[c].trial
              /\ w.block[c].ehead = t.block[c].ehead
    <2>1. /\ Shape(w) /\ w.node = u.node /\ w.ninfo = u.ninfo /\ w.size = u.size /\ w.capacity = u.capacity
          /\ \A c \in 0..(CB(u) - 1) :
               /\ w.block[c].num = u.block[c].num /\ w.block[c].trial = u.block[c].trial
               /\ w.block[c].ehead = u.block[c].ehead
      BY <1>9 DEF Kept
    <2>2. NB(w) = NB(t) /\ CB(w) = CB(t)
      BY <2>1, <1>7 DEF NB, CB
    <2>3. w.block[bi].num = b.num /\ w.block[bi].trial = 1 /\ w.block[bi].ehead = b.ehead
      BY <2>1, <1>1, <1>3, <1>7
    <2>4. \A c \in 0..(CB(t) - 1) : c # bi =>
              /\ w.block[c].num = t.block[c].num /\ w.block[c].trial = t.block[c].trial
              /\ w.block[c].ehead = t.block[c].ehead
      BY <2>1, <1>7
    <2> QED
      BY <2>1, <2>2, <2>3, <2>4, <1>7
  <1>11. ListIn(w, bi) = "close"
    BY <1>1, <1>10 DEF ListIn, MaxTrial
  <1>12. \A c \in (1..(NB(t) - 1)) \ {bi} : ListIn(w, c) = ListIn(t, c)
    <2> TAKE c \in (1..(NB(t) - 1)) \ {bi}
    <2>1. c \in 0..(CB(t) - 1) /\ c # bi
      <3>1. NB(t) <= CB(t) /\ CB(t) \in Nat
        BY <1>0, Sizes
      <3> QED
        BY <3>1, <1>0
    <2> QED
      BY <2>1, <1>10 DEF ListIn
  <1>13. on2 = OnList(w)
    <2>1. "open" \in ListNames /\ "close" \in ListNames /\ "open" # "close"
      BY DEF ListNames
    <2>2. ListsMoved(t, "open", "close", bi) = OnList(w)
      BY <2>1, <1>1, <1>10, <1>11, <1>12, ListsMovedOk
    <2> QED
      BY <2>2 DEF ListsMoved
  <1>14. Closed(t, w, bi)
    <2>1. on2["open"] = on["open"] \ {bi}
      BY DEF ListNames
    <2> QED
      BY <2>1, <1>10, <1>13 DEF Closed
  <1>15. SameRing(t, w, bi)
    BY <1>1, <1>10 DEF SameRing, b
  <1>16. RingOk(w, bi)
    <2>1. RingOk(t, bi)
      BY <1>1 DEF Alloc
    <2> QED
      BY <2>1, <1>0, <1>10, <1>15, SameRingOk
  <1>17. FreeIn(w, 0) # {}
    <2>1. FreeIn(w, 0) = FreeIn(t, 0)
      BY <1>10 DEF FreeIn
    <2> QED
      BY <2>1 DEF Alloc
  <1>18. SparesClean(w)
    BY <1>10 DEF SparesClean, Spare, Alloc
  <1>19. OneBlock(t, w, bi)
    BY <1>10 DEF OneBlock
  <1>20. Alloc(w)
    <2>1. Linked(w, OnList(w))
      BY <1>9, <1>13
    <2>2. w.block[bi].trial \in {0, 1}
      BY <1>10
    <2> QED
      BY <2>1, <2>2, <1>1, <1>16, <1>17, <1>18, <1>19, AllocStepOf
  <1> QED
    BY <1>14, <1>20 DEF w

\* Another free node becomes the head of the ring of a block.
LEMMA SetHeadOk ==
    ASSUME NEW t, Alloc(t), NEW b, b \in 1..(NB(t) - 1), NEW e, e \in FreeIn(t, b),
           NEW w, w = [t EXCEPT !.block[b].ehead = e]
    PROVE  Alloc(w) /\ w.size = t.size /\ w.capacity = t.capacity /\ w.node = t.node /\ w.ninfo = t.ninfo
  <1> DEFINE rb == [t.block[b] EXCEPT !.ehead = e]
             h == t.reject
             j == b
  <1>0. Shape(t) /\ Linked(t, OnList(t)) /\ NB(t) \in Nat /\ CB(t) \in Nat /\ NB(t) <= CB(t)
    <2>1. Shape(t) /\ Linked(t, OnList(t))
      BY DEF Alloc
    <2> QED
      BY <2>1, Sizes
  <1>1. j \in 1..(NB(t) - 1) /\ j \in 0..(NB(t) - 1) /\ j \in 0..(CB(t) - 1) /\ j # 0
    BY <1>0
  <1>2. e \in Nat
    <2> HIDE DEF j
    <2>1. e \in FreeIn(t, j)
      BY DEF j
    <2> QED
      BY <1>0, <1>1, <2>1, FreeInNodes
  <1>3. /\ rb \in BlockType /\ rb.next = t.block[j].next /\ rb.prev = t.block[j].prev
        /\ rb.num = t.block[j].num /\ rb.trial = t.block[j].trial /\ rb.ehead = e
    <2> DEFINE D == 0..(CB(t) - 1)
               y == t.block[j]
    <2>1. t.block \in [D -> BlockType] /\ j \in D
      BY <1>0, <1>1 DEF Shape
    <2>2. y \in BlockType
      <3> HIDE DEF D, j
      <3> QED
        BY <2>1
    <2>3. rb = [y EXCEPT !.ehead = e]
      OBVIOUS
    <2> HIDE DEF y, rb
    <2>4. /\ rb \in BlockType /\ rb.next = y.next /\ rb.prev = y.prev
          /\ rb.num = y.num /\ rb.trial = y.trial /\ rb.ehead = e
      BY <1>2, <2>2, <2>3 DEF BlockType
    <2> QED
      BY <2>4 DEF y
  <1>4. w = [t EXCEPT !.block = WithAt(@, j, rb), !.reject = h]
    <2>1. w = [t EXCEPT !.block = WithAt(@, j, rb)]
      BY DEF WithAt
    <2>2. t = [t EXCEPT !.reject = h]
      BY <1>0 DEF Shape
    <2> DEFINE k == WithAt(t.block, j, rb)
    <2>3. w = [t EXCEPT !.block = k]
      BY <2>1
    <2> HIDE DEF k
    <2>4. w = [t EXCEPT !.block = k, !.reject = h]
      BY <2>3, <1>0 DEF Shape
    <2> QED
      BY <2>4 DEF k
  <1>5. Renoted(t, w, j, rb, h)
    <2>1. h \in [0..B -> Int]
      BY <1>0 DEF Shape
    <2> HIDE DEF j, rb, h
    <2> QED
      BY <1>0, <1>1, <1>3, <1>4, <2>1, RenoteOk
  <1> HIDE DEF rb, h, j
  <1>6. /\ SameLinks(t, w) /\ Shape(w) /\ w.capacity = t.capacity /\ w.size = t.size
        /\ w.node = t.node /\ w.ninfo = t.ninfo /\ w.block[j] = rb
        /\ \A c \in 0..(CB(t) - 1) : c # j => w.block[c] = t.block[c]
        /\ NB(w) = NB(t) /\ CB(w) = CB(t)
    BY <1>5 DEF Renoted, SameLinks, NB, CB
  <1>7. OneBlock(t, w, j)
    BY <1>6 DEF OneBlock
  <1>8. RingOk(t, j) /\ t.block[j].trial \in {0, 1}
    BY <1>1 DEF Alloc
  <1>9. FreeIn(w, j) = FreeIn(t, j) /\ FreeIn(w, 0) = FreeIn(t, 0)
    BY <1>6 DEF FreeIn
  <1>10. RingOk(w, j)
    <2>1. e \in FreeIn(w, j)
      BY <1>9 DEF j
    <2>2. NodeRing(w, FreeIn(w, j))
      BY <1>6, <1>8, <1>9 DEF RingOk, NodeRing
    <2>3. w.block[j].num = t.block[j].num /\ w.block[j].ehead = e
      BY <1>3, <1>6
    <2> QED
      BY <2>1, <2>2, <2>3, <1>8, <1>9 DEF RingOk
  <1>11. Linked(w, OnList(w))
    <2>1. \A c \in 1..(NB(t) - 1) : ListIn(w, c) = ListIn(t, c)
      <3> TAKE c \in 1..(NB(t) - 1)
      <3>1. c \in 0..(CB(t) - 1)
        BY <1>0
      <3>2. w.block[c].num = t.block[c].num /\ w.block[c].trial = t.block[c].trial
        <4>1. CASE c = j
          BY <4>1, <1>3, <1>6
        <4>2. CASE c # j
          BY <4>2, <3>1, <1>6
        <4> QED
          BY <4>1, <4>2
      <3> QED
        BY <3>2 DEF ListIn
    <2>2. OnList(w) = OnList(t)
      BY <2>1, <1>6, OnListSame
    <2> QED
      BY <2>2, <1>0, <1>6, LinkedSame
  <1>12. FreeIn(w, 0) # {} /\ SparesClean(w)
    BY <1>6, <1>9 DEF Alloc, SparesClean, Spare
  <1>13. w.block[j].trial \in {0, 1}
    BY <1>3, <1>6, <1>8
  <1>14. Alloc(w)
    BY <1>1, <1>7, <1>10, <1>11, <1>12, <1>13, AllocStepOf
  <1> QED
    BY <1>6, <1>14

\* h is f and one value more.
Longer(h, f, m, v) ==
    /\ h = [k \in 0..(m + 1) |-> h[k]] /\ h[m + 1] = v /\ h[m] = f[m]
    /\ \A k \in 0..m : h[k] = f[k]
    /\ \A k \in 1..m : h[k - 1] = f[k - 1]

\* A value is added.
LEMMA LongerOk ==
    ASSUME NEW m, m \in Nat, NEW f, NEW v
    PROVE  Longer([k \in 0..(m + 1) |-> IF k = m + 1 THEN v ELSE f[k]], f, m, v)
  <1> DEFINE h == [k \in 0..(m + 1) |-> IF k = m + 1 THEN v ELSE f[k]]
  <1>1. h = [k \in 0..(m + 1) |-> h[k]] /\ h[m + 1] = v
    OBVIOUS
  <1>2. \A k \in 0..m : h[k] = f[k]
    OBVIOUS
  <1>3. \A k \in 1..m : k - 1 \in 0..m
    OBVIOUS
  <1>4. m \in 0..m
    OBVIOUS
  <1> HIDE DEF h
  <1> QED
    BY <1>1, <1>2, <1>3, <1>4 DEF Longer, h

\* The turns of a scan from s, for nc labels
IsScan(f, n, s, nc) == f = [k \in 0..n |-> IF k = 0 THEN s ELSE NextTry(f[k - 1], nc)]

\* There is one.
LEMMA ScanMade ==
    ASSUME NEW s, NEW nc, NEW n, n \in Nat
    PROVE  \E f : IsScan(f, n, s, nc)
  <1> DEFINE Q(m, f) == /\ f = [k \in 0..m |-> f[k]] /\ f[0] = s
                        /\ \A k \in 1..m : f[k] = NextTry(f[k - 1], nc)
             M == {m \in Nat : \E f : Q(m, f)}
  <1>1. 0 \in M
    <2> DEFINE f == [k \in 0..0 |-> s]
    <2>1. Q(0, f)
      OBVIOUS
    <2> HIDE DEF f
    <2> QED
      BY <2>1
  <1>2. ASSUME NEW m \in Nat, m \in M PROVE m + 1 \in M
    <2>1. PICK f : Q(m, f)
      BY <1>2
    <2> DEFINE v == NextTry(f[m], nc)
    <2>2. PICK h : Longer(h, f, m, v)
      BY LongerOk
    <2>3. h = [k \in 0..(m + 1) |-> h[k]] /\ h[0] = s
      <3>1. 0 \in 0..m
        OBVIOUS
      <3> QED
        BY <2>1, <2>2, <3>1 DEF Longer
    <2>4. ASSUME NEW k \in 1..(m + 1) PROVE h[k] = NextTry(h[k - 1], nc)
      <3>1. CASE k = m + 1
        <4>1. h[k] = v /\ k - 1 = m /\ h[m] = f[m]
          BY <2>2, <3>1 DEF Longer
        <4> QED
          BY <4>1
      <3>2. CASE k # m + 1
        <4>1. k \in 1..m /\ k \in 0..m
          BY <3>2
        <4>2. h[k] = f[k] /\ h[k - 1] = f[k - 1] /\ f[k] = NextTry(f[k - 1], nc)
          BY <4>1, <2>1, <2>2 DEF Longer
        <4> QED
          BY <4>2
      <3> QED
        BY <3>1, <3>2
    <2>5. Q(m + 1, h)
      BY <2>3, <2>4
    <2> HIDE DEF Q
    <2>6. \E ff : Q(m + 1, ff)
      BY <2>5
    <2> QED
      BY <2>6
  <1>3. n \in M
    <2> HIDE DEF M
    <2> QED
      BY <1>1, <1>2, Induction
  <1>4. PICK f : Q(n, f)
    BY <1>3
  <1>5. \A k \in 0..n : f[k] = IF k = 0 THEN s ELSE NextTry(f[k - 1], nc)
    <2>1. \A k \in 0..n : k = 0 \/ k \in 1..n
      OBVIOUS
    <2> QED
      BY <2>1, <1>4
  <1>6. f = [k \in 0..n |-> f[k]]
    BY <1>4
  <1>7. IsScan(f, n, s, nc)
    BY <1>5, <1>6 DEF IsScan
  <1> QED
    BY <1>7

\* A turn of the scan: the list of the open blocks is a block shorter, and the
\* last one to try is still on it.
Scanning(t, bz, k, s) ==
    /\ Alloc(s.t) /\ s.t.size = t.size /\ s.t.capacity = t.capacity
    /\ s.t.node = t.node /\ s.t.ninfo = t.ninfo
    /\ s.bi \in OnList(s.t)["open"] /\ bz \in OnList(s.t)["open"]
    /\ Cardinality(OnList(s.t)["open"]) + k = Cardinality(OnList(t)["open"])

\* There are fewer open blocks than blocks.
LEMMA OpenBlocks ==
    ASSUME NEW t, Alloc(t)
    PROVE  /\ IsFiniteSet(OnList(t)["open"]) /\ Cardinality(OnList(t)["open"]) \in Nat
           /\ Cardinality(OnList(t)["open"]) < NB(t) /\ NB(t) \in Nat
  <1> DEFINE S == OnList(t)["open"]
  <1>1. NB(t) \in Nat /\ 1 <= NB(t)
    <2>1. Shape(t)
      BY DEF Alloc
    <2> QED
      BY <2>1, Sizes
  <1>2. S \subseteq 1..(NB(t) - 1)
    BY DEF OnList, ListNames
  <1>3. IsFiniteSet(1..(NB(t) - 1)) /\ Cardinality(1..(NB(t) - 1)) = NB(t) - 1
    <2> DEFINE z == NB(t) - 1
    <2>1. z \in Nat
      BY <1>1
    <2> HIDE DEF z
    <2>2. IsFiniteSet(1..z) /\ Cardinality(1..z) = (IF 1 > z THEN 0 ELSE z - 1 + 1)
      BY <2>1, FS_Interval
    <2>3. Cardinality(1..z) = z
      BY <2>1, <2>2
    <2> QED
      BY <2>2, <2>3 DEF z
  <1> HIDE DEF S
  <1>4. IsFiniteSet(S) /\ Cardinality(S) <= NB(t) - 1
    BY <1>2, <1>3, FS_Subset
  <1>5. Cardinality(S) \in Nat
    BY <1>4, FS_CardinalityType
  <1> QED
    BY <1>1, <1>4, <1>5 DEF S

\* One turn of the scan
LEMMA NextTryOk ==
    ASSUME NEW t, Alloc(t), NEW bz, NEW k, k \in Nat, NEW s, Scanning(t, bz, k, s), s.bi # bz,
           NEW nc, nc \in Nat
    PROVE  Scanning(t, bz, k + 1, NextTry(s, nc))
  <1> DEFINE u == s.t
             b == s.bi
             w == Rejected(u, b, nc)
             c == u.block[b].next
             S == OnList(u)["open"]
  <1>1. NextTry(s, nc) = [t |-> w, bi |-> c]
    BY DEF NextTry
  <1>2. /\ Alloc(u) /\ u.size = t.size /\ u.capacity = t.capacity
        /\ u.node = t.node /\ u.ninfo = t.ninfo
        /\ b \in S /\ bz \in S
        /\ Cardinality(S) + k = Cardinality(OnList(t)["open"])
    BY DEF Scanning
  <1> HIDE DEF u, b
  <1>3. Alloc(w) /\ Closed(u, w, b)
    BY <1>2, RejectedOk
  <1> HIDE DEF w
  <1>4. c \in S \ {b}
    <2> DEFINE n == [x \in S |-> u.block[x].next]
               p == [x \in S |-> u.block[x].prev]
    <2>1. Linked(u, OnList(u))
      BY <1>2 DEF Alloc
    <2>2. ListOk(u, "open", S)
      BY <2>1 DEF Linked, ListNames
    <2>3. IsRing(S, n, p)
      BY <2>2 DEF ListOk, Circle
    <2>4. n[b] = c
      BY <1>2
    <2> HIDE DEF n, p, S, c
    <2>5. n[b] \in S /\ (n[b] = b => S = {b})
      <3>1. n[b] \in S
        BY <2>3, <1>2 DEF IsRing
      <3>2. n[b] = b <=> S = {b}
        BY <2>3, <1>2, RingOne
      <3> QED
        BY <3>1, <3>2
    <2>6. S # {b}
      BY <1>2 DEF b
    <2> QED
      BY <2>4, <2>5, <2>6
  <1>5. OnList(w)["open"] = S \ {b}
    BY <1>3 DEF Closed
  <1>6. Cardinality(S \ {b}) = Cardinality(S) - 1 /\ Cardinality(S) \in Nat
    <2>1. IsFiniteSet(S) /\ Cardinality(S) \in Nat
      BY <1>2, OpenBlocks
    <2> HIDE DEF S
    <2> QED
      BY <2>1, <1>2, FS_RemoveElement
  <1>7. Cardinality(S \ {b}) + (k + 1) = Cardinality(OnList(t)["open"])
    <2> DEFINE x == Cardinality(S)
               y == Cardinality(OnList(t)["open"])
               z == Cardinality(S \ {b})
    <2>1. x + k = y /\ z = x - 1 /\ x \in Nat
      BY <1>2, <1>6
    <2> HIDE DEF x, y, z
    <2>2. z + (k + 1) = y
      BY <2>1
    <2> QED
      BY <2>2 DEF y, z
  <1>8. bz \in S \ {b}
    BY <1>2 DEF b
  <1> HIDE DEF S, c
  <1>9. Scanning(t, bz, k + 1, [t |-> w, bi |-> c])
    BY <1>2, <1>3, <1>4, <1>5, <1>7, <1>8 DEF Scanning, Closed
  <1> QED
    BY <1>1, <1>9

\* In the trie w the place e and those of all labels are free, not in block 0.
AllFree(w, e, labels) ==
    \A i \in 1..Len(labels) : Place(w, To(To(e, labels[1]), labels[i]))

\* A block has places for all labels when they are free in it.
LEMMA AllFreeOk ==
    ASSUME NEW w, Shape(w), NEW e, Place(w, e), NEW labels, labels \in Seq(Label), labels # << >>,
           Suits(w, e, labels)
    PROVE  AllFree(w, e, labels)
  <1> DEFINE l == labels[1]
             base == To(e, l)
             b == e \div B
  <1>0. l \in Label /\ \A i \in 1..Len(labels) : labels[i] \in Label
    OBVIOUS
  <1>1. e \in Nat /\ b \in 0..(NB(w) - 1) /\ b # 0 /\ e \in Free(w)
    BY FreeOf DEF Place
  <1>2. base \in Nat /\ base \div B = b /\ To(base, l) = e
    BY <1>0, <1>1, ToBlock, ToFacts
  <1>3. ASSUME NEW i \in 1..Len(labels) PROVE Place(w, To(base, labels[i]))
    <2> DEFINE x == To(base, labels[i])
    <2>1. x \in Nat /\ x \div B = b
      BY <1>0, <1>2, ToBlock
    <2>2. w.node[x].check < 0
      <3>1. CASE i = 1
        <4>1. x = e
          BY <1>2, <3>1
        <4> QED
          BY <4>1, <1>1 DEF Free
      <3>2. CASE i # 1
        <4>1. i \in 2..Len(labels)
          BY <3>2
        <4> QED
          BY <4>1 DEF Suits
      <3> QED
        BY <3>1, <3>2
    <2>3. x \in 0..(w.size - 1) /\ x # 0
      <3>1. w.size = B * NB(w) /\ w.size \in Nat /\ NB(w) \in Nat
        BY DEF Shape
      <3>2. b < NB(w)
        BY <1>1, <3>1
      <3> HIDE DEF x, b
      <3>3. x < B * NB(w)
        BY <2>1, <3>1, <3>2, BlockInterval
      <3>4. x # 0
        <4>1. B \in Nat /\ B > 0
          BY LabelAssumption
        <4>2. 0 \div B = 0
          BY <4>1
        <4> QED
          BY <4>2, <2>1, <1>1
      <3> QED
        BY <3>1, <3>3, <3>4, <2>1
    <2> HIDE DEF x
    <2> QED
      BY <2>1, <2>2, <2>3, <1>1 DEF Place, Free, x
  <1> QED
    BY <1>3 DEF AllFree

\* The scan ends before it has gone through more blocks than there are.
LEMMA ScanEnds ==
    ASSUME NEW t, Alloc(t), NEW bz, bz \in OnList(t)["open"], t.head["open"] \in OnList(t)["open"],
           NEW labels, Len(labels) \in Nat,
           NEW scan, IsScan(scan, NB(t), [t |-> t, bi |-> t.head["open"]], Len(labels))
    PROVE  \E k \in 0..NB(t) :
             /\ PlaceIn(scan[k].t, scan[k].bi, labels) # -1 \/ scan[k].bi = bz
             /\ \A j \in 0..(k - 1) : ~ (PlaceIn(scan[j].t, scan[j].bi, labels) # -1 \/ scan[j].bi = bz)
             /\ Scanning(t, bz, k, scan[k])
  <1> DEFINE n == NB(t)
             nc == Len(labels)
             E(k) == PlaceIn(scan[k].t, scan[k].bi, labels) # -1 \/ scan[k].bi = bz
             s0 == [t |-> t, bi |-> t.head["open"]]
             y == Cardinality(OnList(t)["open"])
             T == {k \in 0..n : E(k)}
             M == {k \in Nat : k \in 0..n /\ (\A j \in 0..(k - 1) : ~ E(j)) => Scanning(t, bz, k, scan[k])}
  <1>0. n \in Nat /\ y \in Nat /\ y < n
    BY OpenBlocks
  <1>1. scan = [k \in 0..n |-> IF k = 0 THEN s0 ELSE NextTry(scan[k - 1], nc)]
    BY DEF IsScan
  <1>2. Scanning(t, bz, 0, scan[0])
    <2>1. scan[0] = s0
      BY <1>0, <1>1
    <2>2. y + 0 = y
      BY <1>0
    <2>3. Scanning(t, bz, 0, s0)
      BY <2>2 DEF Scanning
    <2> QED
      BY <2>1, <2>3
  <1> HIDE DEF E, s0, nc
  <1>3. 0 \in M
    BY <1>2
  <1>4. ASSUME NEW k \in Nat, k \in M PROVE k + 1 \in M
    <2> SUFFICES ASSUME k + 1 \in 0..n, \A j \in 0..(k + 1 - 1) : ~ E(j)
                 PROVE  Scanning(t, bz, k + 1, scan[k + 1])
      BY <1>4
    <2>1. k \in 0..n /\ (\A j \in 0..(k - 1) : ~ E(j)) /\ ~ E(k)
      BY <1>0
    <2>2. Scanning(t, bz, k, scan[k])
      BY <1>4, <2>1
    <2>3. scan[k + 1] = NextTry(scan[k], nc)
      BY <1>0, <1>1, SMTT(60)
    <2>4. scan[k].bi # bz
      BY <2>1 DEF E
    <2> DEFINE s == scan[k]
    <2>5. Scanning(t, bz, k + 1, NextTry(s, nc))
      <3>1. nc \in Nat /\ Scanning(t, bz, k, s) /\ s.bi # bz
        BY <2>2, <2>4 DEF nc
      <3> HIDE DEF s, n, y
      <3> QED
        BY <3>1, NextTryOk
    <2> QED
      BY <2>3, <2>5
  <1>5. Nat \subseteq M
    <2> HIDE DEF M
    <2> QED
      BY <1>3, <1>4, Induction
  <1>6. T # {}
    <2> SUFFICES ASSUME T = {} PROVE FALSE
      OBVIOUS
    <2>1. \A j \in 0..n : ~ E(j)
      OBVIOUS
    <2>2. \A j \in 0..(n - 1) : ~ E(j)
      BY <2>1, <1>0
    <2>3. Scanning(t, bz, n, scan[n])
      BY <1>0, <1>5, <2>2
    <2>4. Alloc(scan[n].t) /\ Cardinality(OnList(scan[n].t)["open"]) + n = y
      BY <2>3 DEF Scanning
    <2> DEFINE x == Cardinality(OnList(scan[n].t)["open"])
    <2>5. x \in Nat
      BY <2>4, OpenBlocks
    <2>6. x + n = y
      BY <2>4
    <2> HIDE DEF x, y, n
    <2> QED
      BY <2>5, <2>6, <1>0
  <1>7. PICK k \in T : \A j \in T : k <= j
    <2>1. T \subseteq Nat
      BY <1>0
    <2> HIDE DEF T
    <2> QED
      BY <2>1, <1>6, LeastOf
  <1>8. k \in 0..n /\ E(k) /\ k \in Nat
    BY <1>0, <1>7
  <1>9. \A j \in 0..(k - 1) : ~ E(j)
    <2> SUFFICES ASSUME NEW j \in 0..(k - 1), E(j) PROVE FALSE
      OBVIOUS
    <2>1. j \in T
      BY <1>0, <1>8
    <2> QED
      BY <2>1, <1>7, <1>8
  <1>10. Scanning(t, bz, k, scan[k])
    BY <1>5, <1>8, <1>9
  <1> QED
    BY <1>8, <1>9, <1>10 DEF E

\* The scan finds places for all labels.
LEMMA ScanBlocksOk ==
    ASSUME NEW t, Alloc(t), NEW bz, bz \in OnList(t)["open"], t.head["open"] \in OnList(t)["open"],
           NEW labels, labels \in Seq(Label), labels # << >>
    PROVE  Found(t, ScanBlocks(t, bz, labels))
           /\ AllFree(ScanBlocks(t, bz, labels).t, ScanBlocks(t, bz, labels).to, labels)
  <1> DEFINE n == NB(t)
             nc == Len(labels)
             s0 == [t |-> t, bi |-> t.head["open"]]
             scan == CHOOSE f : f = [k \in 0..n |-> IF k = 0 THEN s0 ELSE NextTry(f[k - 1], nc)]
             Ends(s) == PlaceIn(s.t, s.bi, labels) # -1 \/ s.bi = bz
             c == CHOOSE k \in DOMAIN scan : Ends(scan[k]) /\ \A j \in 0..(k - 1) : ~ Ends(scan[j])
             end == scan[c]
             e == PlaceIn(end.t, end.bi, labels)
             v == Rejected(end.t, end.bi, nc)
             f == ScanBlocks(t, bz, labels)
  <1>0. Shape(t) /\ nc \in Nat /\ t.size \div B = n /\ n \in Nat
    <2>1. Shape(t)
      BY DEF Alloc
    <2> QED
      BY <2>1, Sizes
  <1>1. f = IF e # -1 THEN [t |-> [end.t EXCEPT !.block[end.bi].ehead = e], to |-> e]
            ELSE [t |-> AddBlock(v), to |-> v.size]
    BY Zenon DEF ScanBlocks, NB
  <1>2. IsScan(scan, n, s0, nc)
    <2>1. \E g : IsScan(g, n, s0, nc)
      <3> HIDE DEF n, s0, nc
      <3> QED
        BY <1>0, ScanMade
    <2>2. \E g : g = [k \in 0..n |-> IF k = 0 THEN s0 ELSE NextTry(g[k - 1], nc)]
      BY <2>1 DEF IsScan
    <2> HIDE DEF n, s0, nc
    <2> QED
      BY <2>2 DEF IsScan
  <1>3. DOMAIN scan = 0..n
    <2>1. scan = [k \in 0..n |-> IF k = 0 THEN s0 ELSE NextTry(scan[k - 1], nc)]
      BY <1>2 DEF IsScan
    <2> HIDE DEF scan
    <2> QED
      BY <2>1
  <1> HIDE DEF scan
  <1>4. PICK k \in 0..n :
             /\ PlaceIn(scan[k].t, scan[k].bi, labels) # -1 \/ scan[k].bi = bz
             /\ \A j \in 0..(k - 1) : ~ (PlaceIn(scan[j].t, scan[j].bi, labels) # -1 \/ scan[j].bi = bz)
             /\ Scanning(t, bz, k, scan[k])
    BY <1>0, <1>2, ScanEnds
  <1>5. c = k
    <2>1. c \in 0..n /\ Ends(scan[c]) /\ \A j \in 0..(c - 1) : ~ Ends(scan[j])
      <3>1. \E x \in DOMAIN scan : Ends(scan[x]) /\ \A j \in 0..(x - 1) : ~ Ends(scan[j])
        BY <1>3, <1>4
      <3> HIDE DEF Ends
      <3> QED
        BY <1>3, <3>1
    <2>2. Ends(scan[k]) /\ \A j \in 0..(k - 1) : ~ Ends(scan[j])
      BY <1>4
    <2> HIDE DEF Ends, c
    <2>3. ~ (k < c) /\ ~ (c < k)
      BY <2>1, <2>2, <1>0
    <2> QED
      BY <2>1, <2>3, <1>0
  <1>6. Scanning(t, bz, k, end)
    BY <1>4, <1>5
  <1> HIDE DEF c, end
  <1>7. /\ Alloc(end.t) /\ end.t.size = t.size /\ end.t.capacity = t.capacity
        /\ end.t.node = t.node /\ end.t.ninfo = t.ninfo
        /\ end.bi \in OnList(end.t)["open"]
    BY <1>6 DEF Scanning
  <1>8. /\ end.bi \in 1..(NB(end.t) - 1) /\ ListIn(end.t, end.bi) # "full" /\ end.bi # 0
    BY <1>7, OpenBlock
  <1>9. CASE e # -1
    <2> DEFINE w == [end.t EXCEPT !.block[end.bi].ehead = e]
    <2>1. Fits(end.t, end.bi, e, labels)
      BY <1>7, <1>8, <1>9, PlaceInOk
    <2>2. e \in FreeIn(end.t, end.bi) /\ Suits(end.t, e, labels)
      BY <2>1 DEF Fits
    <2> DEFINE u == end.t
               b == end.bi
    <2>3. Alloc(u) /\ b \in 1..(NB(u) - 1) /\ e \in FreeIn(u, b)
      BY <1>7, <1>8, <2>2
    <2>4. w = [u EXCEPT !.block[b].ehead = e]
      OBVIOUS
    <2>5. u.size = t.size /\ u.capacity = t.capacity /\ u.node = t.node /\ u.ninfo = t.ninfo
      BY <1>7
    <2>11. Suits(u, e, labels)
      BY <2>2
    <2> HIDE DEF u, b, w, e
    <2>6. Alloc(w) /\ w.size = u.size /\ w.capacity = u.capacity /\ w.node = u.node /\ w.ninfo = u.ninfo
      BY <2>3, <2>4, SetHeadOk
    <2>7. Held(t, w)
      <3>1. Held(t, t)
        BY <1>0, HeldSame
      <3>2. Free(w) = Free(t)
        BY <2>5, <2>6 DEF Free
      <3> QED
        BY <3>1, <3>2, <2>5, <2>6 DEF Held
    <2>8. Place(w, e)
      <3>1. Shape(u) /\ NB(u) \in Nat
        <4>1. Shape(u)
          BY <2>3 DEF Alloc
        <4> QED
          BY <4>1, Sizes
      <3> DEFINE j == b
      <3>2. j \in 0..(NB(u) - 1) /\ j # 0 /\ e \in FreeIn(u, j)
        BY <2>3, <3>1
      <3> HIDE DEF j
      <3>3. e > 0 /\ e \in 0..(u.size - 1) /\ e \div B = j /\ u.node[e].check < 0 /\ e \in Nat
        BY <3>1, <3>2, FreeInNodes
      <3>4. e \in Free(u) /\ e \div B # 0
        BY <3>2, <3>3 DEF Free
      <3> QED
        BY <3>4, <2>5, <2>6 DEF Place, Free
    <2>9. AllFree(w, e, labels)
      <3>1. Suits(w, e, labels)
        BY <2>11, <2>6 DEF Suits
      <3>2. Shape(w)
        BY <2>6 DEF Alloc
      <3> QED
        BY <3>1, <3>2, <2>8, AllFreeOk
    <2>10. f.t = w /\ f.to = e
      BY <1>1, <1>9 DEF w
    <2> QED
      BY <2>6, <2>7, <2>8, <2>9, <2>10 DEF Found
  <1>10. CASE e = -1
    <2> DEFINE w == AddBlock(v)
               z == v.size
    <2>1. Alloc(v) /\ Closed(end.t, v, end.bi)
      BY <1>0, <1>7, RejectedOk
    <2>2. v.size = t.size /\ v.capacity = t.capacity /\ v.node = t.node /\ v.ninfo = t.ninfo
      BY <2>1, <1>7 DEF Closed
    <2> HIDE DEF v
    <2>3. Alloc(w) /\ Held(v, w) /\ Place(w, z) /\ \A i \in z..(z + B - 1) : i \in Free(w)
      BY <2>1, AddedPlace
    <2>4. f.t = w /\ f.to = z
      BY <1>1, <1>10 DEF v
    <2> HIDE DEF w, f
    <2>5. Held(t, w)
      BY <2>2, <2>3 DEF Held
    <2>6. AllFree(w, z, labels)
      <3> DEFINE l == labels[1]
                 base == To(z, l)
      <3>1. z \in Nat /\ z \div B = n /\ z = B * n /\ n # 0
        BY <1>0, <2>2, Sizes DEF Shape
      <3>2. l \in Label /\ \A i \in 1..Len(labels) : labels[i] \in Label
        BY <1>0
      <3>3. base \in Nat /\ base \div B = n
        BY <3>1, <3>2, ToBlock
      <3>4. ASSUME NEW i \in 1..Len(labels) PROVE Place(w, To(base, labels[i]))
        <4> DEFINE x == To(base, labels[i])
        <4>1. x \in Nat /\ x \div B = n
          BY <3>2, <3>3, ToBlock
        <4> HIDE DEF x
        <4>2. x \in (B * n)..(B * n + B - 1)
          BY <4>1, <1>0, BlockInterval
        <4>3. x \in Free(w)
          BY <4>2, <3>1, <2>3
        <4> QED
          BY <4>1, <4>3, <3>1 DEF Place, x
      <3> QED
        BY <3>4 DEF AllFree
    <2> QED
      BY <2>3, <2>4, <2>5, <2>6 DEF Found, f
  <1> QED
    BY <1>9, <1>10

\* FindPlaceInterval finds places for all labels.
LEMMA FindPlaceIntervalOk ==
    ASSUME NEW t, Alloc(t), NEW labels, labels \in Seq(Label), labels # << >>
    PROVE  Found(t, FindPlaceInterval(t, labels))
           /\ AllFree(FindPlaceInterval(t, labels).t, FindPlaceInterval(t, labels).to, labels)
  <1> DEFINE f == FindPlaceInterval(t, labels)
             h == t.head["open"]
             bz == t.block[h].prev
  <1>1. CASE h = 0
    <2> DEFINE w == AddBlock(t)
               z == t.size
    <2>1. f = [t |-> w, to |-> z]
      BY <1>1 DEF FindPlaceInterval
    <2>2. Alloc(w) /\ Held(t, w) /\ Place(w, z) /\ \A i \in z..(z + B - 1) : i \in Free(w)
      BY AddedPlace
    <2>3. Shape(w)
      BY <2>2 DEF Alloc
    <2>4. Suits(w, z, labels)
      <3>1. z \in Nat /\ z \div B = NB(t) /\ z = B * NB(t) /\ NB(t) \in Nat
        <4>1. Shape(t)
          BY DEF Alloc
        <4> QED
          BY <4>1, Sizes DEF Shape
      <3> DEFINE n == NB(t)
      <3>2. n \in Nat /\ z = B * n
        BY <3>1
      <3> HIDE DEF w, z, n
      <3>3. ASSUME NEW i \in 2..Len(labels) PROVE w.node[To(To(z, labels[1]), labels[i])].check < 0
        <4> DEFINE x == To(To(z, labels[1]), labels[i])
        <4>1. labels[1] \in Label /\ labels[i] \in Label
          OBVIOUS
        <4>2. To(z, labels[1]) \in Nat /\ To(z, labels[1]) \div B = n
          BY <3>1, <4>1, ToBlock DEF n
        <4>3. x \in Nat /\ x \div B = n
          BY <4>1, <4>2, ToBlock
        <4> HIDE DEF x
        <4>4. x \in (B * n)..(B * n + B - 1)
          BY <4>3, <3>2, BlockInterval
        <4>5. x \in Free(w)
          BY <4>4, <3>2, <2>2
        <4> QED
          BY <4>5 DEF Free, x
      <3> QED
        BY <3>3 DEF Suits
    <2>5. AllFree(w, z, labels)
      <3> HIDE DEF w, z
      <3> QED
        BY <2>2, <2>3, <2>4, AllFreeOk
    <2> QED
      BY <2>1, <2>2, <2>5 DEF Found
  <1>2. CASE h # 0
    <2>1. f = ScanBlocks(t, bz, labels)
      BY <1>2 DEF FindPlaceInterval
    <2>2. h \in OnList(t)["open"] /\ bz \in OnList(t)["open"]
      <3> DEFINE S == OnList(t)["open"]
                 n == [x \in S |-> t.block[x].next]
                 p == [x \in S |-> t.block[x].prev]
      <3>1. Linked(t, OnList(t))
        BY DEF Alloc
      <3>2. ListOk(t, "open", S)
        BY <3>1 DEF Linked, ListNames
      <3>3. IsRing(S, n, p) /\ h \in S
        BY <3>2, <1>2 DEF ListOk, Circle
      <3>4. p[h] \in S
        <4> HIDE DEF n, p, S, h
        <4> QED
          BY <3>3 DEF IsRing
      <3>5. p[h] = bz
        BY <3>3
      <3> QED
        BY <3>3, <3>4, <3>5
    <2>3. bz \in OnList(t)["open"]
      BY <2>2
    <2> HIDE DEF f, bz
    <2>4. Found(t, ScanBlocks(t, bz, labels))
          /\ AllFree(ScanBlocks(t, bz, labels).t, ScanBlocks(t, bz, labels).to, labels)
      BY <2>2, <2>3, ScanBlocksOk DEF h
    <2> QED
      BY <2>1, <2>4 DEF f
  <1> QED
    BY <1>1, <1>2

-----------------------------------------------------------------------------
(* Writing used nodes, and the first trie *)

\* From t to w only nodes in use changed, and they still are.
Written(t, w) ==
    /\ Shape(w) /\ w.block = t.block /\ w.head = t.head /\ w.capacity = t.capacity /\ w.size = t.size
    /\ \A i \in 0..(t.capacity - 1) :
         /\ Spare(t, i) => w.node[i] = t.node[i] /\ w.ninfo[i] = t.ninfo[i]
         /\ i # 0 /\ ~ Spare(t, i) => w.node[i].check >= 0

\* The allocator does not notice.
LEMMA WrittenOk ==
    ASSUME NEW t, Alloc(t), NEW w, Written(t, w)
    PROVE  Alloc(w) /\ Free(w) = Free(t)
  <1>0. /\ Shape(t) /\ Linked(t, OnList(t)) /\ NB(t) \in Nat /\ CB(t) \in Nat /\ NB(t) <= CB(t)
        /\ t.size \in Nat /\ t.capacity \in Nat /\ t.size <= t.capacity
    <2>1. Shape(t) /\ Linked(t, OnList(t))
      BY DEF Alloc
    <2> QED
      BY <2>1, Sizes
  <1>1. /\ Shape(w) /\ w.block = t.block /\ w.head = t.head /\ w.capacity = t.capacity
        /\ w.size = t.size /\ NB(w) = NB(t) /\ CB(w) = CB(t)
    BY DEF Written, NB, CB
  <1>2. ASSUME NEW i \in 0..(t.size - 1), i # 0
        PROVE  /\ w.node[i].check < 0 <=> t.node[i].check < 0
               /\ t.node[i].check < 0 => w.node[i] = t.node[i]
    <2>1. i \in 0..(t.capacity - 1) /\ i < t.size
      BY <1>0
    <2>2. t.node[i].check \in Int /\ w.node[i].check \in Int
      <3> DEFINE N == 0..(t.capacity - 1)
                 j == i
      <3>1. t.node \in [N -> NodeType] /\ w.node \in [N -> NodeType] /\ j \in N
        BY <2>1, <1>0, <1>1 DEF Shape
      <3> HIDE DEF N, j
      <3>2. t.node[j] \in NodeType /\ w.node[j] \in NodeType
        BY <3>1
      <3> QED
        BY <3>2 DEF NodeType, j
    <2>3. Spare(t, i) <=> t.node[i].check < 0
      BY <2>1, <1>0, <1>2 DEF Spare
    <2>4. CASE t.node[i].check < 0
      BY <2>1, <2>3, <2>4 DEF Written
    <2>5. CASE ~ (t.node[i].check < 0)
      <3>1. w.node[i].check >= 0
        BY <2>1, <2>3, <2>5, <1>2 DEF Written
      <3> QED
        BY <3>1, <2>2, <2>5
    <2> QED
      BY <2>4, <2>5
  <1>3. Free(w) = Free(t)
    BY <1>1, <1>2 DEF Free
  <1>4. ASSUME NEW b \in 0..(NB(t) - 1)
        PROVE  RingOk(w, b) /\ w.block[b].trial \in {0, 1} /\ FreeIn(w, b) = FreeIn(t, b)
    <2> DEFINE F == FreeIn(t, b)
    <2>1. /\ F = {i \in 0..(t.size - 1) : i # 0 /\ i \div B = b /\ t.node[i].check < 0}
          /\ FreeIn(w, b) = {i \in 0..(t.size - 1) : i # 0 /\ i \div B = b /\ w.node[i].check < 0}
      BY <1>0, <1>1, FreeInBlock
    <2>2. FreeIn(w, b) = F
      BY <2>1, <1>2
    <2>3. \A x \in F : w.node[x] = t.node[x]
      BY <2>1, <1>2
    <2>4. RingOk(t, b) /\ t.block[b].trial \in {0, 1}
      BY DEF Alloc
    <2>5. NodeRing(w, F)
      <3> DEFINE n == [x \in F |-> -t.node[x].check]
                 p == [x \in F |-> -t.node[x].base]
                 n1 == [x \in F |-> -w.node[x].check]
                 p1 == [x \in F |-> -w.node[x].base]
      <3>1. IsRing(F, n, p)
        BY <2>4 DEF RingOk, NodeRing
      <3>2. \A x \in F : n1[x] = n[x] /\ p1[x] = p[x]
        BY <2>3
      <3> HIDE DEF n, p, n1, p1, F
      <3>3. IsRing(F, n1, p1)
        BY <3>1, <3>2, RingSame
      <3> QED
        BY <3>3 DEF n1, p1, NodeRing
    <2>6. w.block[b] = t.block[b]
      BY <1>1
    <2> QED
      BY <2>2, <2>4, <2>5, <2>6 DEF RingOk
  <1>5. Linked(w, OnList(w))
    <2>1. OnList(w) = OnList(t)
      <3>1. \A b \in 1..(NB(t) - 1) : ListIn(w, b) = ListIn(t, b)
        BY <1>1 DEF ListIn
      <3> QED
        BY <3>1, <1>1, OnListSame
    <2>2. SameLinks(t, w)
      BY <1>1 DEF SameLinks
    <2> QED
      BY <2>1, <2>2, <1>0, <1>1, LinkedSame
  <1>6. FreeIn(w, 0) # {}
    <2>1. 0 \in 0..(NB(t) - 1)
      BY <1>0 DEF Shape
    <2> QED
      BY <2>1, <1>4 DEF Alloc
  <1>7. \A i \in 0..(w.capacity - 1) : Spare(w, i) => w.ninfo[i] = NewNinfo
    <2> SUFFICES ASSUME NEW i \in 0..(t.capacity - 1), Spare(w, i) PROVE w.ninfo[i] = NewNinfo
      BY <1>1
    <2>1. Spare(t, i)
      <3>1. CASE i >= t.size
        BY <3>1 DEF Spare
      <3>2. CASE ~ (i >= t.size)
        <4>1. i \in 0..(t.size - 1) /\ i # 0 /\ w.node[i].check < 0
          BY <3>2, <1>0, <1>1 DEF Spare
        <4> QED
          BY <4>1, <1>2 DEF Spare
      <3> QED
        BY <3>1, <3>2
    <2>2. w.ninfo[i] = t.ninfo[i]
      BY <2>1 DEF Written
    <2> QED
      BY <2>1, <2>2 DEF Alloc
  <1>8. \A b \in NB(w)..(CB(w) - 1) : w.block[b].num = B /\ w.block[b].trial = 0
    BY <1>1 DEF Alloc
  <1>9. \A b \in 0..(NB(w) - 1) : RingOk(w, b) /\ w.block[b].trial \in {0, 1}
    BY <1>1, <1>4
  <1>10. Alloc(w)
    BY <1>1, <1>5, <1>6, <1>7, <1>8, <1>9 DEF Alloc
  <1> QED
    BY <1>3, <1>10

\* The first trie has block 0 alone, with the root and the other nodes free.
LEMMA EmptyTrieOk ==
    Alloc(EmptyTrie)
  <1> DEFINE t == EmptyTrie
             N == 0..(B - 1)
             F == 1..(B - 1)
  <1>0. B \in Nat /\ B >= 3 /\ B \div B = 1 /\ B - 1 \in Nat /\ B = B * 1
    BY LabelAssumption
  <1>a. B \in Nat /\ B >= 3 /\ B - 1 \in Nat
    BY LabelAssumption
  <1>1. /\ t.node = [i \in N |-> IF i = 0 THEN [base |-> 0, check |-> -1] ELSE Ring(1, B - 1)[i]]
        /\ t.ninfo = [i \in N |-> NewNinfo]
        /\ t.block = [i \in {0} |-> [NewBlock EXCEPT !.ehead = 1]]
        /\ t.head = [l \in ListNames |-> 0]
        /\ t.capacity = B /\ t.size = B /\ t.reject = [i \in 0..B |-> i + 1]
        /\ t = [node |-> t.node, ninfo |-> t.ninfo, block |-> t.block, head |-> t.head,
                capacity |-> B, size |-> B, reject |-> t.reject]
    BY DEF EmptyTrie, ListNames
  <1>2. NB(t) = 1 /\ CB(t) = 1
    BY <1>0, <1>1 DEF NB, CB
  <1>3. \A i \in F : Ring(1, B - 1)[i] = [base |-> IF i = 1 THEN -(B - 1) ELSE -(i - 1),
                                          check |-> IF i = B - 1 THEN -1 ELSE -(i + 1)]
    BY DEF Ring
  <1>4. t.node \in [N -> NodeType]
    <2>1. \A i \in F : Ring(1, B - 1)[i] \in NodeType
      <3> TAKE i \in F
      <3>1. /\ (IF i = 1 THEN -(B - 1) ELSE -(i - 1)) \in Int
            /\ (IF i = B - 1 THEN -1 ELSE -(i + 1)) \in Int
        BY <1>a
      <3> DEFINE x == IF i = 1 THEN -(B - 1) ELSE -(i - 1)
                 y == IF i = B - 1 THEN -1 ELSE -(i + 1)
      <3>2. Ring(1, B - 1)[i] = [base |-> x, check |-> y]
        BY <1>3
      <3> HIDE DEF x, y
      <3>3. [base |-> x, check |-> y] \in NodeType
        BY <3>1 DEF NodeType, x, y
      <3> QED
        BY <3>2, <3>3
    <2>2. [base |-> 0, check |-> -1] \in NodeType
      BY DEF NodeType
    <2>3. \A i \in N : i = 0 \/ i \in F
      BY <1>0
    <2> DEFINE rg == Ring(1, B - 1)
               f == t.node
    <2>4. f = [i \in N |-> IF i = 0 THEN [base |-> 0, check |-> -1] ELSE rg[i]]
      BY <1>1
    <2>5. \A i \in F : rg[i] \in NodeType
      BY <2>1
    <2> HIDE DEF f, rg, F, N
    <2>6. f \in [N -> NodeType]
      BY <2>2, <2>3, <2>4, <2>5
    <2> QED
      BY <2>6 DEF f
  <1>5. t.ninfo \in [N -> NinfoType]
    <2>1. NewNinfo \in NinfoType
      BY LabelAssumption DEF NewNinfo, NinfoType, Label
    <2> QED
      BY <2>1, <1>1
  <1>6. t.block \in [0..0 -> BlockType]
    <2>1. [NewBlock EXCEPT !.ehead = 1] \in BlockType
      <3>1. NewBlock \in BlockType
        <4>1. B \in Nat /\ B + 1 \in Int
          BY <1>a
        <4> DEFINE x == B + 1
        <4>2. NewBlock = [prev |-> 0, next |-> 0, num |-> B, reject |-> x, trial |-> 0, ehead |-> 0]
          BY DEF NewBlock
        <4> HIDE DEF x
        <4> QED
          BY <4>1, <4>2 DEF BlockType, x
      <3> DEFINE y == NewBlock
      <3> HIDE DEF y
      <3>2. [y EXCEPT !.ehead = 1] \in BlockType
        BY <3>1 DEF BlockType, y
      <3> QED
        BY <3>2 DEF y
    <2>2. 0..0 = {0}
      OBVIOUS
    <2> QED
      BY <2>1, <2>2, <1>1
  <1>7. t.head \in [ListNames -> Nat] /\ t.reject \in [0..B -> Int]
        /\ \A l \in ListNames : t.head[l] = 0
    <2>1. t.head \in [ListNames -> Nat] /\ \A l \in ListNames : t.head[l] = 0
      BY <1>1
    <2>2. t.reject \in [0..B -> Int]
      BY <1>1
    <2> QED
      BY <2>1, <2>2
  <1>8. Shape(t)
    <2>1. t \in [node : [0..(t.capacity - 1) -> NodeType], ninfo : [0..(t.capacity - 1) -> NinfoType],
              block : [0..(CB(t) - 1) -> BlockType], head : [ListNames -> Nat],
              capacity : Nat, size : Nat, reject : [0..B -> Int]]
      <3>1. 0..(t.capacity - 1) = N /\ 0..(CB(t) - 1) = 0..0
        BY <1>1, <1>2
      <3> DEFINE u == t
      <3>2. u = [node |-> t.node, ninfo |-> t.ninfo, block |-> t.block, head |-> t.head,
                capacity |-> B, size |-> B, reject |-> t.reject]
        BY <1>1
      <3> DEFINE f1 == t.node
                 f2 == t.ninfo
                 f3 == t.block
                 f4 == t.head
                 f5 == t.reject
      <3>3. f1 \in [N -> NodeType] /\ f2 \in [N -> NinfoType] /\ f3 \in [0..0 -> BlockType]
            /\ f4 \in [ListNames -> Nat] /\ f5 \in [0..B -> Int]
        BY <1>4, <1>5, <1>6, <1>7
      <3>4. u = [node |-> f1, ninfo |-> f2, block |-> f3, head |-> f4,
                capacity |-> B, size |-> B, reject |-> f5]
        BY <3>2
      <3> HIDE DEF u, f1, f2, f3, f4, f5
      <3>5. u \in [node : [N -> NodeType], ninfo : [N -> NinfoType],
              block : [0..0 -> BlockType], head : [ListNames -> Nat],
              capacity : Nat, size : Nat, reject : [0..B -> Int]]
        BY <3>3, <3>4, <1>0
      <3> QED
        BY <3>1, <3>5 DEF u
    <2>2. t.size = B * NB(t) /\ t.capacity = B * CB(t)
          /\ NB(t) \in Nat /\ CB(t) \in Nat /\ 1 <= NB(t) /\ NB(t) <= CB(t)
      <3>1. t.size = B /\ t.capacity = B
        BY <1>1
      <3> QED
        BY <3>1, <1>0, <1>2
    <2> QED
      BY <2>1, <2>2 DEF Shape
  <1>9. \A i \in F : t.node[i].base = (IF i = 1 THEN -(B - 1) ELSE -(i - 1))
                   /\ t.node[i].check = (IF i = B - 1 THEN -1 ELSE -(i + 1))
    <2> TAKE i \in F
    <2>1. i \in N /\ i # 0
      BY <1>a
    <2>2. t.node[i] = Ring(1, B - 1)[i]
      BY <2>1, <1>1
    <2> DEFINE x == IF i = 1 THEN -(B - 1) ELSE -(i - 1)
               y == IF i = B - 1 THEN -1 ELSE -(i + 1)
    <2>3. t.node[i] = [base |-> x, check |-> y]
      BY <2>2, <1>3
    <2> HIDE DEF x, y
    <2>4. t.node[i].base = x /\ t.node[i].check = y
      BY <2>3
    <2> QED
      BY <2>4 DEF x, y
  <1>10. FreeIn(t, 0) = F
    <2>1. \A i \in F : t.node[i].check < 0 /\ i # 0
      BY <1>a, <1>9
    <2>2. ((B * 0)..(B * 0 + B - 1)) \ {0} = F
      BY <1>0
    <2> QED
      BY <2>1, <2>2 DEF FreeIn
  <1>11. t.block[0].num = B /\ t.block[0].trial = 0 /\ t.block[0].ehead = 1
         /\ t.block[0].next = 0 /\ t.block[0].prev = 0
    BY <1>1 DEF NewBlock
  <1>12. RingOk(t, 0)
    <2>1. NodeRing(t, F)
      <3> DEFINE nx == [x \in F |-> -t.node[x].check]
                 pv == [x \in F |-> -t.node[x].base]
      <3> DEFINE z == B - 1
      <3>1. \A i \in 1..z : nx[i] = (IF i = z THEN 1 ELSE i + 1) /\ pv[i] = (IF i = 1 THEN z ELSE i - 1)
        <4> TAKE i \in 1..z
        <4>1. i \in F
          OBVIOUS
        <4> DEFINE x == t.node[i].base
                   y == t.node[i].check
        <4>2. nx[i] = -y /\ pv[i] = -x
          BY <4>1
        <4>3. x = (IF i = 1 THEN -z ELSE -(i - 1)) /\ y = (IF i = z THEN -1 ELSE -(i + 1))
          BY <4>1, <1>9
        <4> HIDE DEF x, y, nx, pv
        <4> QED
          BY <4>2, <4>3, <1>a
      <3>2. z \in Nat /\ 1 <= z
        BY <1>0
      <3> DEFINE a == 1
      <3>3. a \in Nat /\ a <= z
        BY <3>2
      <3>4. \A i \in a..z : nx[i] = (IF i = z THEN a ELSE i + 1)
        BY <3>1
      <3>5. \A i \in a..z : pv[i] = (IF i = a THEN z ELSE i - 1)
        BY <3>1
      <3> HIDE DEF nx, pv, z, a
      <3>6. IsRing(a..z, nx, pv)
        BY <3>2, <3>3, <3>4, <3>5, IntervalRing
      <3> QED
        BY <3>6 DEF nx, pv, NodeRing, z, a
    <2>2. Cardinality(F) = B - 1
      <3> DEFINE z == B - 1
      <3>1. z \in Nat /\ z >= 1
        BY <1>0
      <3> HIDE DEF z
      <3>2. Cardinality(1..z) = z - 1 + 1
        BY <3>1, FS_Interval
      <3> QED
        BY <3>1, <3>2 DEF z
    <2>3. 1 \in F
      BY <1>0
    <2> QED
      BY <2>1, <2>2, <2>3, <1>0, <1>10, <1>11 DEF RingOk
  <1>13. Linked(t, OnList(t))
    <2>1. \A l \in ListNames : OnList(t)[l] = {}
      BY <1>2 DEF OnList
    <2>2. ASSUME NEW l \in ListNames PROVE ListOk(t, l, {})
      <3>1. t.head[l] = 0 /\ t.block[0].next = 0
        BY <1>7, <1>11
      <3> DEFINE C == Circle(l, {})
                 nx == [b \in C |-> t.block[b].next]
                 pv == [b \in C |-> t.block[b].prev]
      <3>2. IsRing(C, nx, pv)
        <4>1. CASE l = "full"
          <5>1. C = {0} /\ nx[0] = 0 /\ pv[0] = 0
            BY <4>1, <1>11 DEF Circle
          <5> HIDE DEF C, nx, pv
          <5>2. IsRing({0}, nx, pv)
            BY <5>1, SmallRings
          <5> QED
            BY <5>1, <5>2
        <4>2. CASE l # "full"
          <5>1. C = {}
            BY <4>2 DEF Circle
          <5> HIDE DEF C, nx, pv
          <5> QED
            BY <5>1, SmallRings
        <4> QED
          BY <4>1, <4>2
      <3> QED
        BY <3>1, <3>2 DEF ListOk
    <2> QED
      BY <2>1, <2>2 DEF Linked
  <1>14. FreeIn(t, 0) # {}
    <2>1. 1 \in F
      BY <1>0
    <2> QED
      BY <2>1, <1>10
  <1>15. \A i \in 0..(t.capacity - 1) : t.ninfo[i] = NewNinfo
    BY <1>1
  <1> QED
    BY <1>0, <1>2, <1>8, <1>11, <1>12, <1>13, <1>14, <1>15 DEF Alloc

\* What the allocator keeps is what the runs check.
LEMMA AllocHolds ==
    ASSUME Alloc(trie)
    PROVE  FreeRings /\ BlockLists
  <1>0. /\ Shape(trie) /\ NB(trie) \in Nat /\ trie.size \div B = NB(trie) /\ B \in Nat
    <2>1. Shape(trie)
      BY DEF Alloc
    <2> QED
      BY <2>1, Sizes
  <1>1. ASSUME NEW bi \in Blocks
        PROVE  LET free == FreeNodes(bi)
               IN  /\ trie.block[bi].num = Cardinality(free) + (IF bi = 0 THEN 1 ELSE 0)
                   /\ free # {} => trie.block[bi].ehead \in free
                   /\ IsRing(free, [e \in free |-> -trie.node[e].check], [e \in free |-> -trie.node[e].base])
    <2>1. bi \in 0..(NB(trie) - 1)
      BY <1>0 DEF Blocks
    <2> DEFINE b == bi
    <2>2. b \in 0..(NB(trie) - 1)
      BY <2>1
    <2>3. FreeNodes(b) = FreeIn(trie, b)
      BY DEF FreeNodes, FreeIn, BlockNodes
    <2> HIDE DEF b
    <2>4. RingOk(trie, b)
      BY <2>2 DEF Alloc
    <2>5. LET free == FreeNodes(b)
          IN  /\ trie.block[b].num = Cardinality(free) + (IF b = 0 THEN 1 ELSE 0)
              /\ free # {} => trie.block[b].ehead \in free
              /\ IsRing(free, [e \in free |-> -trie.node[e].check], [e \in free |-> -trie.node[e].base])
      BY <2>3, <2>4 DEF RingOk, NodeRing
    <2> QED
      BY <2>5 DEF b
  <1>2. FreeRings
    BY <1>1 DEF FreeRings
  <1>3. ASSUME NEW l \in ListNames
        PROVE  LET on == {bi \in Blocks \ {0} : ListOf(bi) = l}
                   ring == IF l = "full" THEN on \cup {0} ELSE on
               IN  /\ trie.head[l] = 0 <=> on = {}
                   /\ on # {} => trie.head[l] \in on
                   /\ IsRing(ring, [bi \in ring |-> trie.block[bi].next],
                                   [bi \in ring |-> trie.block[bi].prev])
    <2> DEFINE on == {bi \in Blocks \ {0} : ListOf(bi) = l}
               S == OnList(trie)[l]
    <2>1. \A x : x \in Blocks \ {0} <=> x \in 1..(NB(trie) - 1)
      BY <1>0 DEF Blocks
    <2>2. \A x : ListOf(x) = ListIn(trie, x)
      BY DEF ListOf, ListIn
    <2>3. S = {x \in 1..(NB(trie) - 1) : ListIn(trie, x) = l}
      BY DEF OnList
    <2>4. on = S
      <3> HIDE DEF S
      <3> QED
        BY <2>1, <2>2, <2>3
    <2>5. ListOk(trie, l, S)
      <3>1. Linked(trie, OnList(trie))
        BY DEF Alloc
      <3> QED
        BY <3>1 DEF Linked
    <2> HIDE DEF S, on
    <2>6. LET ring == IF l = "full" THEN on \cup {0} ELSE on
          IN  /\ trie.head[l] = 0 <=> on = {}
              /\ on # {} => trie.head[l] \in on
              /\ IsRing(ring, [bi \in ring |-> trie.block[bi].next],
                              [bi \in ring |-> trie.block[bi].prev])
      BY <2>4, <2>5 DEF ListOk, Circle
    <2> QED
      BY <2>6 DEF on
  <1>4. BlockLists
    BY <1>3 DEF BlockLists, ListNames
  <1> QED
    BY <1>2, <1>4
==============================================================================
