------------------------ MODULE EtdbConnectionProofs ------------------------
(***************************************************************************)
(* Proofs about EtdbResp, for any requests, any first size of the buffer   *)
(* and any way to write lengths, where reads end with a record or with the *)
(* buffer full. What was sent is one sequence of bytes, cut into pieces    *)
(* with one newline in a place that the length before it tells; the parser *)
(* is always at the beginning of a piece, and either the piece has come    *)
(* completely or nothing behind the data is taken for its end.             *)
(*                                                                         *)
(* Proofs about EtdbMemory, the memory of the same connection, which       *)
(* shares no state with the bytes.                                         *)
(* What a pool gives out never overlaps, no allocation looks at more than  *)
(* seven blocks, and every chunk has one owner, for any block size, any    *)
(* sizes of replies and any order of requests, searches, growing stacks    *)
(* and failing reallocs.                                                   *)
(***************************************************************************)
EXTENDS EtdbResp, EtdbMemory, FiniteSetTheorems, SequenceTheorems, WellFoundedInduction, TLAPS

-----------------------------------------------------------------------------
(* The bytes of the requests *)

(***************************************************************************)
(* Sets of integers                                                        *)
(***************************************************************************)
\* A set of natural numbers has a least one.
LEMMA LeastOf ==
    ASSUME NEW T, T \subseteq Nat, T # {}
    PROVE  \E m \in T : \A k \in T : m <= k
  <1> DEFINE R == {ss \in Nat \X Nat : ss[1] < ss[2]}
  <1>1. IsWellFoundedOn(R, Nat)
    BY NatLessThanWellFounded, Zenon DEF OpToRel
  <1> HIDE DEF R
  <1>2. PICK x \in T : \A y \in T : <<y, x>> \notin R
    BY <1>1, WFMin
  <1>3. \A y \in T : ~(y < x)
    BY <1>2 DEF R
  <1> QED
    BY <1>3

\* Induction, for a set.
LEMMA Induction ==
    ASSUME NEW S, 0 \in S, \A n \in Nat : n \in S => n + 1 \in S
    PROVE  Nat \subseteq S
  <1> SUFFICES ASSUME Nat \ S # {} PROVE FALSE
    OBVIOUS
  <1>1. PICK m \in Nat \ S : \A k \in Nat \ S : m <= k
    BY LeastOf
  <1>2. m # 0 /\ m - 1 \in Nat
    BY <1>1
  <1>3. m - 1 \in S
    BY <1>1, <1>2
  <1> QED
    BY <1>1, <1>2, <1>3

\* Min and Max are what bounds a set from within.
LEMMA MinIs ==
    ASSUME NEW S, S \subseteq Int, NEW x \in S, \A y \in S : x <= y
    PROVE  Min(S) = x
  <1> DEFINE Least(y) == y \in S /\ \A z \in S : y =< z
  <1>1. Least(x)
    OBVIOUS
  <1>2. Min(S) = CHOOSE y : Least(y)
    BY DEF Min
  <1>3. Least(Min(S))
    <2> HIDE DEF Least
    <2> QED
      BY <1>1, <1>2
  <1>4. x =< Min(S) /\ Min(S) =< x /\ x \in Int /\ Min(S) \in Int
    BY <1>1, <1>3
  <1> QED
    BY <1>4

LEMMA MaxIs ==
    ASSUME NEW S, S \subseteq Int, NEW x \in S, \A y \in S : y <= x
    PROVE  Max(S) = x
  <1> DEFINE Greatest(y) == y \in S /\ \A z \in S : y >= z
  <1>1. Greatest(x)
    OBVIOUS
  <1>2. Max(S) = CHOOSE y : Greatest(y)
    BY DEF Max
  <1>3. Greatest(Max(S))
    <2> HIDE DEF Greatest
    <2> QED
      BY <1>1, <1>2
  <1>4. x >= Max(S) /\ Max(S) >= x /\ x \in Int /\ Max(S) \in Int
    BY <1>1, <1>3
  <1> QED
    BY <1>4

-----------------------------------------------------------------------------
(***************************************************************************)
(* Concatenations                                                          *)
(***************************************************************************)
\* g[k] is the concatenation of the first k elements of s
Joining(s, n, g) ==
    /\ DOMAIN g = 1..n
    /\ \A k \in 1..n : g[k] = IF k = 1 THEN s[1] ELSE g[k - 1] \o s[k]

Alike(s, t, n) == \A k \in 1..n : s[k] = t[k]

LEMMA JoiningMade ==
    ASSUME NEW s, NEW n \in Nat
    PROVE  \E g : Joining(s, n, g)
  <1> DEFINE S == {m \in Nat : \E g : Joining(s, m, g)}
  <1>1. 0 \in S
    <2>1. Joining(s, 0, [k \in 1..0 |-> s])
      BY DEF Joining
    <2> QED
      BY <2>1
  <1>2. ASSUME NEW m \in Nat, m \in S PROVE m + 1 \in S
    <2>1. PICK g : Joining(s, m, g)
      BY <1>2
    <2> DEFINE e == IF m + 1 = 1 THEN s[1] ELSE g[m] \o s[m + 1]
               h == [k \in 1..(m + 1) |-> IF k = m + 1 THEN e ELSE g[k]]
    <2>2. DOMAIN h = 1..(m + 1)
      OBVIOUS
    <2>3. ASSUME NEW k \in 1..(m + 1)
          PROVE  h[k] = IF k = 1 THEN s[1] ELSE h[k - 1] \o s[k]
      <3>1. CASE k = m + 1
        <4>1. h[k] = e
          BY <3>1
        <4>2. CASE k = 1
          BY <4>1, <4>2, <3>1
        <4>3. CASE k # 1
          <5>1. k - 1 = m /\ m \in 1..(m + 1) /\ m # m + 1
            BY <3>1, <4>3
          <5>2. h[m] = g[m]
            BY <5>1
          <5>3. e = g[m] \o s[k]
            BY <3>1, <4>3
          <5> HIDE DEF h, e
          <5> QED
            BY <4>1, <4>3, <5>1, <5>2, <5>3
        <4> QED
          BY <4>2, <4>3
      <3>2. CASE k # m + 1
        <4>1. k \in 1..m /\ h[k] = g[k]
          BY <3>2
        <4>2. CASE k = 1
          BY <4>1, <4>2, <2>1 DEF Joining
        <4>3. CASE k # 1
          <5>1. k - 1 \in 1..(m + 1) /\ k - 1 # m + 1
            BY <4>1, <4>3
          <5>2. h[k - 1] = g[k - 1]
            BY <5>1
          <5>3. g[k] = g[k - 1] \o s[k]
            BY <4>1, <4>3, <2>1 DEF Joining
          <5> HIDE DEF h, e
          <5> QED
            BY <4>1, <4>3, <5>2, <5>3
        <4> QED
          BY <4>2, <4>3
      <3> QED
        BY <3>1, <3>2
    <2> HIDE DEF h
    <2>4. Joining(s, m + 1, h)
      BY <2>2, <2>3 DEF Joining
    <2> QED
      BY <2>4
  <1> HIDE DEF S
  <1>3. Nat \subseteq S
    BY <1>1, <1>2, Induction
  <1> QED
    BY <1>3 DEF S

LEMMA JoiningAgree ==
    ASSUME NEW s, NEW t, NEW n \in Nat, NEW m \in Nat, n <= m, NEW g, NEW h,
           Alike(s, t, n), Joining(s, n, g), Joining(t, m, h)
    PROVE  Alike(g, h, n)
  <1> DEFINE S == {k \in Nat : k \in 1..n => g[k] = h[k]}
  <1>1. 0 \in S
    OBVIOUS
  <1>2. ASSUME NEW k \in Nat, k \in S PROVE k + 1 \in S
    <2>1. SUFFICES ASSUME k + 1 \in 1..n PROVE g[k + 1] = h[k + 1]
      OBVIOUS
    <2>2. k + 1 \in 1..m /\ (k + 1) - 1 = k /\ s[k + 1] = t[k + 1]
      BY <2>1 DEF Alike
    <2>3. CASE k = 0
      <3>1. k + 1 = 1
        BY <2>3
      <3> QED
        BY <3>1, <2>1, <2>2 DEF Joining
    <2>4. CASE k # 0
      <3>1. k \in 1..n /\ k + 1 # 1
        BY <2>1, <2>4
      <3>2. g[k] = h[k]
        BY <1>2, <3>1
      <3>3. g[k + 1] = g[k] \o s[k + 1] /\ h[k + 1] = h[k] \o t[k + 1]
        BY <2>1, <2>2, <3>1 DEF Joining
      <3> QED
        BY <3>2, <3>3, <2>2
    <2> QED
      BY <2>3, <2>4
  <1> HIDE DEF S
  <1>3. Nat \subseteq S
    BY <1>1, <1>2, Induction
  <1> QED
    BY <1>3 DEF S, Alike

\* FlattenSeq is the last of them.
LEMMA FlattenIs ==
    ASSUME NEW s, NEW n \in Nat \ {0}, Len(s) = n
    PROVE  \E g : Joining(s, n, g) /\ FlattenSeq(s) = g[n]
  <1> DEFINE IsFlat(h) == h = [i \in 1..n |-> IF i = 1 THEN s[i] ELSE h[i - 1] \o s[i]]
             f == CHOOSE h : IsFlat(h)
  <1>1. FlattenSeq(s) = f[n]
    <2>1. Len(s) # 0
      OBVIOUS
    <2> QED
      BY <2>1, Zenon DEF FlattenSeq
  <1>2. PICK g : Joining(s, n, g)
    BY JoiningMade
  <1> DEFINE h == [i \in 1..n |-> g[i]]
  <1>3. IsFlat(h)
    <2>1. ASSUME NEW i \in 1..n
          PROVE  h[i] = IF i = 1 THEN s[i] ELSE h[i - 1] \o s[i]
      <3>1. CASE i = 1
        BY <3>1, <1>2 DEF Joining
      <3>2. CASE i # 1
        <4>1. i - 1 \in 1..n
          BY <3>2
        <4> QED
          BY <4>1, <3>2, <1>2 DEF Joining
      <3> QED
        BY <3>1, <3>2
    <2>2. h = [i \in 1..n |-> h[i]]
      OBVIOUS
    <2> HIDE DEF h
    <2> QED
      BY <2>1, <2>2
  <1> HIDE DEF h
  <1>4. IsFlat(f)
    <2> HIDE DEF IsFlat
    <2> QED
      BY <1>3
  <1> HIDE DEF f
  <1>5. Joining(s, n, f)
    <2>1. DOMAIN f = 1..n
      BY <1>4
    <2>2. \A k \in 1..n : f[k] = IF k = 1 THEN s[1] ELSE f[k - 1] \o s[k]
      BY <1>4
    <2> QED
      BY <2>1, <2>2 DEF Joining
  <1> QED
    BY <1>1, <1>5

LEMMA FlattenEmpty == FlattenSeq(<< >>) = << >>
  BY DEF FlattenSeq

LEMMA FlattenAppend ==
    ASSUME NEW T, NEW s \in Seq(Seq(T)), NEW e \in Seq(T)
    PROVE  FlattenSeq(Append(s, e)) = FlattenSeq(s) \o e
  <1> DEFINE a == Append(s, e)
             n == Len(s)
  <1>1. a \in Seq(Seq(T)) /\ Len(a) = n + 1 /\ n \in Nat
        /\ a[n + 1] = e /\ \A k \in 1..n : s[k] = a[k]
    BY AppendProperties
  <1> HIDE DEF a
  <1>2. PICK h : Joining(a, n + 1, h) /\ FlattenSeq(a) = h[n + 1]
    BY <1>1, FlattenIs
  <1>3. CASE n = 0
    <2>1. s = << >>
      BY <1>3, EmptySeq
    <2>2. h[1] = a[1] /\ a[1] = e
      BY <1>1, <1>2, <1>3 DEF Joining
    <2>3. FlattenSeq(s) = << >>
      BY <2>1, FlattenEmpty
    <2>4. << >> \o e = e
      BY ConcatEmptySeq
    <2>5. FlattenSeq(a) = e
      BY <2>2, <1>2, <1>3
    <2> QED
      BY <2>3, <2>4, <2>5 DEF a
  <1>4. CASE n # 0
    <2>1. PICK g : Joining(s, n, g) /\ FlattenSeq(s) = g[n]
      BY <1>1, <1>4, FlattenIs
    <2>2. \A k \in 1..n : g[k] = h[k]
      <3>1. n \in Nat /\ n + 1 \in Nat /\ n <= n + 1
        BY <1>1
      <3>2. Alike(s, a, n)
        BY <1>1 DEF Alike
      <3>3. Alike(g, h, n)
        <4> HIDE DEF n
        <4> QED
          BY <3>1, <3>2, <1>2, <2>1, JoiningAgree
      <3> QED
        BY <3>3 DEF Alike
    <2>3. n + 1 \in 1..(n + 1) /\ n + 1 # 1 /\ (n + 1) - 1 = n /\ n \in 1..n
      BY <1>1, <1>4
    <2>4. h[n + 1] = h[n] \o a[n + 1]
      BY <1>2, <2>3 DEF Joining
    <2>5. g[n] = h[n]
      BY <2>2, <2>3
    <2> QED
      BY <1>1, <1>2, <2>1, <2>4, <2>5 DEF a
  <1> QED
    BY <1>3, <1>4

\* The beginning of a sequence, element by element
LEMMA Beginnings ==
    ASSUME NEW S, NEW s \in Seq(S)
    PROVE  /\ SubSeq(s, 1, 0) = << >>
           /\ SubSeq(s, 1, Len(s)) = s
           /\ \A i \in 0..Len(s) :
                 /\ SubSeq(s, 1, i) \in Seq(S) /\ Len(SubSeq(s, 1, i)) = i
                 /\ \A j \in 1..i : SubSeq(s, 1, i)[j] = s[j]
           /\ \A i \in 0..(Len(s) - 1) :
                 s[i + 1] \in S /\ SubSeq(s, 1, i + 1) = Append(SubSeq(s, 1, i), s[i + 1])
  <1>1. Len(s) \in Nat
    BY LenProperties
  <1>2. SubSeq(s, 1, 0) = << >>
    BY SubSeqEmpty
  <1>3. SubSeq(s, 1, Len(s)) = s
    BY SubSeqFull
  <1>4. ASSUME NEW i \in 0..Len(s)
        PROVE  /\ SubSeq(s, 1, i) \in Seq(S) /\ Len(SubSeq(s, 1, i)) = i
               /\ \A j \in 1..i : SubSeq(s, 1, i)[j] = s[j]
    <2>1. \A j \in 1..i : s[j] \in S
      BY <1>1, ElementOfSeq
    <2>2. i \in Int /\ 1 \in Int /\ i - 1 + 1 = i /\ (1 <= i \/ i = 0)
      BY <1>1
    <2>3. /\ SubSeq(s, 1, i) \in Seq(S)
          /\ Len(SubSeq(s, 1, i)) = IF 1 <= i THEN i - 1 + 1 ELSE 0
          /\ \A j \in 1..(i - 1 + 1) : SubSeq(s, 1, i)[j] = s[1 + j - 1]
      BY <2>1, <2>2, SubSeqProperties
    <2>4. \A j \in 1..i : 1 + j - 1 = j
      OBVIOUS
    <2>5. Len(SubSeq(s, 1, i)) = i
      BY <2>2, <2>3
    <2>6. \A j \in 1..i : SubSeq(s, 1, i)[j] = s[j]
      BY <2>2, <2>3, <2>4
    <2> QED
      BY <2>3, <2>5, <2>6
  <1>5. ASSUME NEW i \in 0..(Len(s) - 1)
        PROVE  s[i + 1] \in S /\ SubSeq(s, 1, i + 1) = Append(SubSeq(s, 1, i), s[i + 1])
    <2>1. i + 1 \in 1..Len(s) /\ i \in 0..Len(s) /\ i + 1 \in 0..Len(s) /\ i \in Nat
      BY <1>1
    <2>2. s[i + 1] \in S
      BY <2>1, ElementOfSeq
    <2> DEFINE a == SubSeq(s, 1, i)
               b == SubSeq(s, 1, i + 1)
               c == Append(a, s[i + 1])
    <2>3. a \in Seq(S) /\ Len(a) = i /\ \A j \in 1..i : a[j] = s[j]
      BY <2>1, <1>4
    <2>4. b \in Seq(S) /\ Len(b) = i + 1 /\ \A j \in 1..(i + 1) : b[j] = s[j]
      BY <2>1, <1>4
    <2> HIDE DEF a, b
    <2>5. c \in Seq(S) /\ Len(c) = i + 1 /\ c[i + 1] = s[i + 1] /\ \A j \in 1..i : c[j] = a[j]
      BY <2>2, <2>3, AppendProperties
    <2> HIDE DEF c
    <2>6. \A j \in 1..Len(b) : b[j] = c[j]
      <3>1. ASSUME NEW j \in 1..(i + 1) PROVE b[j] = c[j]
        <4>1. CASE j = i + 1
          BY <4>1, <2>4, <2>5
        <4>2. CASE j # i + 1
          <5>1. j \in 1..i
            BY <4>2, <2>1
          <5> QED
            BY <5>1, <2>3, <2>4, <2>5
        <4> QED
          BY <4>1, <4>2
      <3> QED
        BY <3>1, <2>4
    <2>7. b = c
      BY <2>4, <2>5, <2>6, SeqEqual
    <2> QED
      BY <2>2, <2>7 DEF a, b, c
  <1> QED
    BY <1>2, <1>3, <1>4, <1>5

\* A concatenation, place by place
LEMMA ConcatPlaces ==
    ASSUME NEW S, NEW s \in Seq(S), NEW t \in Seq(S), NEW n, NEW m, Len(s) = n, Len(t) = m
    PROVE  /\ n \in Nat /\ m \in Nat /\ s \o t \in Seq(S) /\ Len(s \o t) = n + m
           /\ \A j \in 1..n : (s \o t)[j] = s[j]
           /\ \A j \in 1..m : (s \o t)[n + j] = t[j]
  <1> DEFINE w == s \o t
  <1>1. n \in Nat /\ m \in Nat
    BY LenProperties
  <1>2. w \in Seq(S) /\ Len(w) = n + m
        /\ \A j \in 1..(n + m) : w[j] = IF j <= n THEN s[j] ELSE t[j - n]
    BY ConcatProperties
  <1> HIDE DEF w
  <1>3. ASSUME NEW j \in 1..n PROVE w[j] = s[j]
    <2>1. j \in 1..(n + m) /\ j <= n
      BY <1>1
    <2> QED
      BY <2>1, <1>2
  <1>4. ASSUME NEW j \in 1..m PROVE w[n + j] = t[j]
    <2>1. n + j \in 1..(n + m) /\ ~(n + j <= n) /\ n + j - n = j
      BY <1>1
    <2>2. w[n + j] = t[n + j - n]
      BY <2>1, <1>2
    <2> QED
      BY <2>1, <2>2
  <1> QED
    BY <1>1, <1>2, <1>3, <1>4 DEF w

\* The first i elements of s, joined
Joined(s, i) == FlattenSeq(SubSeq(s, 1, i))

LEMMA JoinedFacts ==
    ASSUME NEW T, NEW s \in Seq(Seq(T))
    PROVE  /\ Joined(s, 0) = << >> /\ Joined(s, Len(s)) = FlattenSeq(s)
           /\ \A i \in 0..(Len(s) - 1) : s[i + 1] \in Seq(T) /\ Joined(s, i + 1) = Joined(s, i) \o s[i + 1]
           /\ \A i \in 0..Len(s) : Joined(s, i) \in Seq(T)
  <1>1. Len(s) \in Nat
    BY LenProperties
  <1>2. Joined(s, 0) = << >> /\ Joined(s, Len(s)) = FlattenSeq(s)
    BY Beginnings, FlattenEmpty DEF Joined
  <1>3. ASSUME NEW i \in 0..(Len(s) - 1)
        PROVE  s[i + 1] \in Seq(T) /\ Joined(s, i + 1) = Joined(s, i) \o s[i + 1]
    <2>1. i \in 0..Len(s)
      BY <1>1
    <2>2. SubSeq(s, 1, i) \in Seq(Seq(T)) /\ s[i + 1] \in Seq(T)
          /\ SubSeq(s, 1, i + 1) = Append(SubSeq(s, 1, i), s[i + 1])
      BY <2>1, Beginnings
    <2> QED
      BY <2>2, FlattenAppend DEF Joined
  <1> DEFINE S == {i \in Nat : i <= Len(s) => Joined(s, i) \in Seq(T)}
  <1>4. 0 \in S
    BY <1>2, EmptySeq
  <1>5. ASSUME NEW i \in Nat, i \in S PROVE i + 1 \in S
    <2>1. SUFFICES ASSUME i + 1 <= Len(s) PROVE Joined(s, i + 1) \in Seq(T)
      OBVIOUS
    <2>2. i \in 0..(Len(s) - 1) /\ i <= Len(s)
      BY <1>1, <2>1
    <2>3. Joined(s, i) \in Seq(T)
      BY <1>5, <2>2
    <2>4. s[i + 1] \in Seq(T) /\ Joined(s, i + 1) = Joined(s, i) \o s[i + 1]
      BY <1>3, <2>2
    <2> QED
      BY <2>3, <2>4, ConcatProperties
  <1> HIDE DEF S
  <1>6. Nat \subseteq S
    BY <1>4, <1>5, Induction
  <1>7. \A i \in 0..Len(s) : Joined(s, i) \in Seq(T)
    BY <1>1, <1>6 DEF S
  <1> QED
    BY <1>2, <1>3, <1>7

\* Where the elements of s end
LEMMA Ends ==
    ASSUME NEW T, NEW s \in Seq(Seq(T))
    PROVE  /\ Len(s) \in Nat /\ FlattenSeq(s) \in Seq(T) /\ Len(FlattenSeq(s)) \in Nat
           /\ EndOf(s, 0) = 0 /\ EndOf(s, Len(s)) = Len(FlattenSeq(s))
           /\ \A i \in 0..(Len(s) - 1) :
                 s[i + 1] \in Seq(T) /\ Len(s[i + 1]) \in Nat /\ EndOf(s, i + 1) = EndOf(s, i) + Len(s[i + 1])
           /\ \A i \in 0..Len(s) : EndOf(s, i) \in Nat
  <1>1. \A i : EndOf(s, i) = Len(Joined(s, i))
    BY DEF EndOf, Joined
  <1>2. Len(s) \in Nat
    BY LenProperties
  <1>3. \A i \in 0..Len(s) : EndOf(s, i) \in Nat
    BY <1>1, JoinedFacts, LenProperties
  <1>4. ASSUME NEW i \in 0..(Len(s) - 1)
        PROVE  s[i + 1] \in Seq(T) /\ Len(s[i + 1]) \in Nat /\ EndOf(s, i + 1) = EndOf(s, i) + Len(s[i + 1])
    <2>1. i \in 0..Len(s)
      BY <1>2
    <2>2. s[i + 1] \in Seq(T) /\ Joined(s, i) \in Seq(T) /\ Joined(s, i + 1) = Joined(s, i) \o s[i + 1]
      BY <2>1, JoinedFacts
    <2>3. Len(Joined(s, i) \o s[i + 1]) = Len(Joined(s, i)) + Len(s[i + 1])
      BY <2>2, ConcatProperties
    <2>4. Len(s[i + 1]) \in Nat
      BY <2>2, LenProperties
    <2> QED
      BY <1>1, <2>2, <2>3, <2>4
  <1>5. EndOf(s, 0) = 0
    BY <1>1, JoinedFacts, EmptySeq
  <1>6. EndOf(s, Len(s)) = Len(FlattenSeq(s))
    BY <1>1, JoinedFacts
  <1>7. FlattenSeq(s) \in Seq(T)
    <2>1. Len(s) \in 0..Len(s)
      BY <1>2
    <2> QED
      BY <2>1, JoinedFacts
  <1>8. Len(FlattenSeq(s)) \in Nat
    BY <1>7, LenProperties
  <1> QED
    BY <1>2, <1>3, <1>4, <1>5, <1>6, <1>7, <1>8

LEMMA EndsOrdered ==
    ASSUME NEW T, NEW s \in Seq(Seq(T)), NEW i \in 0..Len(s), NEW k \in i..Len(s)
    PROVE  EndOf(s, i) <= EndOf(s, k)
  <1> DEFINE S == {n \in Nat : i <= n /\ n <= Len(s) => EndOf(s, i) <= EndOf(s, n)}
  <1>1. Len(s) \in Nat /\ i \in Nat /\ k \in Nat /\ k <= Len(s) /\ i <= k
    BY LenProperties
  <1>2. \A n \in 0..Len(s) : EndOf(s, n) \in Nat
    BY Ends
  <1>3. 0 \in S
    BY <1>1, <1>2
  <1>4. ASSUME NEW n \in Nat, n \in S PROVE n + 1 \in S
    <2>1. SUFFICES ASSUME i <= n + 1, n + 1 <= Len(s) PROVE EndOf(s, i) <= EndOf(s, n + 1)
      OBVIOUS
    <2>2. CASE i = n + 1
      BY <2>2, <1>1, <1>2
    <2>3. CASE i # n + 1
      <3>1. n \in 0..(Len(s) - 1) /\ i <= n /\ n <= Len(s)
        BY <1>1, <2>1, <2>3
      <3>2. EndOf(s, i) <= EndOf(s, n)
        BY <1>4, <3>1
      <3>3. EndOf(s, n + 1) = EndOf(s, n) + Len(s[n + 1]) /\ Len(s[n + 1]) \in Nat
        BY <3>1, Ends
      <3>4. EndOf(s, n) \in Nat /\ EndOf(s, i) \in Nat
        BY <1>2, <3>1
      <3> QED
        BY <3>2, <3>3, <3>4
    <2> QED
      BY <2>2, <2>3
  <1> HIDE DEF S
  <1>5. Nat \subseteq S
    BY <1>3, <1>4, Induction
  <1> QED
    BY <1>1, <1>5 DEF S

\* The elements of s lie one behind the other.
LEMMA Positions ==
    ASSUME NEW T, NEW s \in Seq(Seq(T)), NEW i \in 0..(Len(s) - 1), NEW j \in 1..Len(s[i + 1])
    PROVE  FlattenSeq(s)[EndOf(s, i) + j] = s[i + 1][j]
  <1> DEFINE p == EndOf(s, i) + j
             S == {n \in Nat : i + 1 <= n /\ n <= Len(s) => Joined(s, n)[p] = s[i + 1][j]}
  <1>1. /\ Len(s) \in Nat /\ i \in Nat /\ i \in 0..Len(s) /\ i + 1 \in 0..Len(s)
        /\ s[i + 1] \in Seq(T) /\ Len(s[i + 1]) \in Nat /\ EndOf(s, i) \in Nat
        /\ EndOf(s, i + 1) = EndOf(s, i) + Len(s[i + 1])
    <2>1. Len(s) \in Nat
      BY LenProperties
    <2>2. i \in Nat /\ i \in 0..Len(s) /\ i + 1 \in 0..Len(s)
      BY <2>1
    <2> QED
      BY <2>1, <2>2, Ends
  <1>2. p \in 1..EndOf(s, i + 1) /\ p > EndOf(s, i)
    BY <1>1
  <1>3. 0 \in S
    BY <1>1
  <1>4. ASSUME NEW n \in Nat, n \in S PROVE n + 1 \in S
    <2>1. SUFFICES ASSUME i + 1 <= n + 1, n + 1 <= Len(s) PROVE Joined(s, n + 1)[p] = s[i + 1][j]
      OBVIOUS
    <2>2. n \in 0..(Len(s) - 1) /\ n \in 0..Len(s)
      BY <2>1, <1>1
    <2>3. /\ Joined(s, n) \in Seq(T) /\ s[n + 1] \in Seq(T)
          /\ Joined(s, n + 1) = Joined(s, n) \o s[n + 1]
      BY <2>2, JoinedFacts
    <2>4. Len(Joined(s, n)) = EndOf(s, n) /\ EndOf(s, n) \in Nat
      BY <2>2, Ends DEF EndOf, Joined
    <2>5. Len(s[n + 1]) \in Nat
      BY <2>3, LenProperties
    <2>6. \A q \in 1..(EndOf(s, n) + Len(s[n + 1])) :
             Joined(s, n + 1)[q] = IF q <= EndOf(s, n) THEN Joined(s, n)[q] ELSE s[n + 1][q - EndOf(s, n)]
      <3> DEFINE a == Joined(s, n)
                 b == s[n + 1]
                 c == EndOf(s, n)
      <3>1. a \in Seq(T) /\ b \in Seq(T) /\ Len(a) = c
        BY <2>3, <2>4
      <3> HIDE DEF a, b, c
      <3>2. \A q \in 1..(c + Len(b)) : (a \o b)[q] = IF q <= c THEN a[q] ELSE b[q - c]
        BY <3>1, ConcatProperties
      <3> QED
        BY <3>2, <2>3 DEF a, b, c
    <2>7. CASE n = i
      <3>1. p \in 1..(EndOf(s, n) + Len(s[n + 1])) /\ ~(p <= EndOf(s, n)) /\ p - EndOf(s, n) = j
        BY <2>7, <1>1, <1>2
      <3>2. Joined(s, n + 1)[p] = s[n + 1][p - EndOf(s, n)]
        BY <2>6, <3>1
      <3> QED
        BY <3>1, <3>2, <2>7
    <2>8. CASE n # i
      <3>1. i + 1 <= n /\ n \in (i + 1)..Len(s)
        BY <2>8, <2>1, <1>1
      <3>2. EndOf(s, i + 1) <= EndOf(s, n)
        BY <1>1, <3>1, EndsOrdered
      <3>3. EndOf(s, i + 1) \in Nat
        BY <1>1
      <3>4. p \in 1..(EndOf(s, n) + Len(s[n + 1])) /\ p <= EndOf(s, n)
        <4> HIDE DEF p
        <4> QED
          BY <1>2, <3>2, <3>3, <2>4, <2>5, SMTT(40)
      <3>5. Joined(s, n + 1)[p] = Joined(s, n)[p]
        BY <2>6, <3>4
      <3>6. Joined(s, n)[p] = s[i + 1][j]
        BY <1>4, <3>1
      <3> QED
        BY <3>5, <3>6
    <2> QED
      BY <2>7, <2>8
  <1> HIDE DEF S
  <1>5. Nat \subseteq S
    BY <1>3, <1>4, Induction
  <1>6. Len(s) \in Nat /\ i + 1 <= Len(s)
    BY <1>1
  <1>7. Joined(s, Len(s))[p] = s[i + 1][j]
    BY <1>5, <1>6 DEF S
  <1>8. Joined(s, Len(s)) = FlattenSeq(s)
    BY JoinedFacts
  <1> QED
    BY <1>7, <1>8

LEMMA EndsAppend ==
    ASSUME NEW T, NEW s \in Seq(Seq(T)), NEW e \in Seq(T), NEW i \in 0..Len(s)
    PROVE  EndOf(Append(s, e), i) = EndOf(s, i)
  <1> DEFINE a == Append(s, e)
  <1>1. a \in Seq(Seq(T)) /\ Len(a) = Len(s) + 1 /\ Len(s) \in Nat /\ \A k \in 1..Len(s) : a[k] = s[k]
    BY AppendProperties, LenProperties
  <1> HIDE DEF a
  <1>2. i \in 0..Len(a) /\ \A k \in 1..i : k \in 1..Len(s)
    BY <1>1
  <1>3. /\ SubSeq(a, 1, i) \in Seq(Seq(T)) /\ Len(SubSeq(a, 1, i)) = i
        /\ \A k \in 1..i : SubSeq(a, 1, i)[k] = a[k]
    BY <1>1, <1>2, Beginnings
  <1>4. /\ SubSeq(s, 1, i) \in Seq(Seq(T)) /\ Len(SubSeq(s, 1, i)) = i
        /\ \A k \in 1..i : SubSeq(s, 1, i)[k] = s[k]
    BY Beginnings
  <1>5. \A k \in 1..i : SubSeq(a, 1, i)[k] = SubSeq(s, 1, i)[k]
    BY <1>1, <1>2, <1>3, <1>4
  <1>6. SubSeq(a, 1, i) = SubSeq(s, 1, i)
    <2> DEFINE u == SubSeq(a, 1, i)
               v == SubSeq(s, 1, i)
    <2>1. u \in Seq(Seq(T)) /\ v \in Seq(Seq(T)) /\ Len(u) = Len(v) /\ \A k \in 1..Len(u) : u[k] = v[k]
      BY <1>3, <1>4, <1>5
    <2> HIDE DEF u, v
    <2>2. u = v
      BY <2>1, SeqEqual
    <2> QED
      BY <2>2 DEF u, v
  <1> QED
    BY <1>6 DEF EndOf, a

-----------------------------------------------------------------------------
(***************************************************************************)
(* Records and requests                                                    *)
(***************************************************************************)
\* The length of the digits at the head of a record
HeadLen(b) == Len(Decimal[Len(b)])

LEMMA DigitsFacts ==
    ASSUME NEW n \in DOMAIN Decimal
    PROVE  /\ Decimal[n] \in Seq(Digit) /\ Len(Decimal[n]) \in 1..(MaxHead - 1)
           /\ Atoi(Decimal[n]) = n
  BY DecimalAssumption

\* A record, byte by byte
LEMMA RecordFacts ==
    ASSUME NEW b \in Seq(Char), Len(b) \in DOMAIN Decimal
    PROVE  /\ Record(b) \in Seq(Char) /\ Len(b) \in Nat /\ HeadLen(b) \in 1..14
           /\ Len(Record(b)) = HeadLen(b) + Len(b) + 2
           /\ \A j \in 1..HeadLen(b) : Record(b)[j] = Decimal[Len(b)][j] /\ Record(b)[j] \in Digit
           /\ Record(b)[HeadLen(b) + 1] = NL
           /\ \A j \in 1..Len(b) : Record(b)[HeadLen(b) + 1 + j] = b[j]
           /\ Record(b)[HeadLen(b) + Len(b) + 2] = NL
  <1> DEFINE d == Decimal[Len(b)]
             n == Len(d)
             m == Len(b)
             l == <<NL>>
             u == d \o l
             v == u \o b
             w == v \o l
  <1>1. d \in Seq(Digit) /\ n \in 1..14 /\ m \in Nat
    BY DigitsFacts, LenProperties DEF MaxHead
  <1>2. d \in Seq(Char) /\ \A j \in 1..n : d[j] \in Digit
    <2>1. Digit \subseteq Char
      BY DEF Char
    <2> HIDE DEF d
    <2> QED
      BY <1>1, <2>1, SeqMonotonic, ElementOfSeq
  <1>3. l \in Seq(Char) /\ Len(l) = 1 /\ l[1] = NL
    BY DEF Char
  <1>4. Record(b) = w /\ HeadLen(b) = n
    BY DEF Record, HeadLen
  <1> HIDE DEF d, m, l
  <1>5. u \in Seq(Char) /\ Len(u) = n + 1
        /\ (\A j \in 1..n : u[j] = d[j]) /\ \A j \in 1..1 : u[n + j] = l[j]
    <2> DEFINE x == 1
    <2>1. Len(d) = n /\ Len(l) = x
      BY <1>3
    <2> HIDE DEF n, x
    <2>2. u \in Seq(Char) /\ Len(u) = n + x
          /\ (\A j \in 1..n : u[j] = d[j]) /\ \A j \in 1..x : u[n + j] = l[j]
      BY <1>2, <1>3, <2>1, ConcatPlaces
    <2> QED
      BY <2>2 DEF x
  <1> HIDE DEF u, n
  <1>6. v \in Seq(Char) /\ Len(v) = n + 1 + m
        /\ (\A j \in 1..(n + 1) : v[j] = u[j]) /\ \A j \in 1..m : v[n + 1 + j] = b[j]
    <2>1. Len(b) = m
      BY DEF m
    <2> QED
      BY <1>5, <2>1, ConcatPlaces
  <1> HIDE DEF v
  <1>7. w \in Seq(Char) /\ Len(w) = n + 1 + m + 1
        /\ (\A j \in 1..(n + 1 + m) : w[j] = v[j]) /\ \A j \in 1..1 : w[n + 1 + m + j] = l[j]
    <2> DEFINE x == 1
               k == n + 1 + m
    <2>1. Len(v) = k /\ Len(l) = x
      BY <1>3, <1>6
    <2> HIDE DEF x, k
    <2>2. w \in Seq(Char) /\ Len(w) = k + x
          /\ (\A j \in 1..k : w[j] = v[j]) /\ \A j \in 1..x : w[k + j] = l[j]
      BY <1>3, <1>6, <2>1, ConcatPlaces
    <2> QED
      BY <2>2 DEF x, k
  <1> HIDE DEF w
  <1>8. Len(w) = n + m + 2
    BY <1>1, <1>7
  <1>9. \A j \in 1..n : w[j] = d[j]
    <2>1. ASSUME NEW j \in 1..n PROVE w[j] = d[j]
      <3>1. j \in 1..(n + 1 + m) /\ j \in 1..(n + 1)
        BY <1>1
      <3> QED
        BY <3>1, <1>5, <1>6, <1>7
    <2> QED
      BY <2>1
  <1>10. w[n + 1] = NL
    <2>1. n + 1 \in 1..(n + 1 + m) /\ n + 1 \in 1..(n + 1) /\ 1 \in 1..1
      BY <1>1
    <2>2. w[n + 1] = v[n + 1] /\ v[n + 1] = u[n + 1] /\ u[n + 1] = l[1]
      BY <2>1, <1>5, <1>6, <1>7
    <2> QED
      BY <2>1, <2>2, <1>3
  <1>11. \A j \in 1..m : w[n + 1 + j] = b[j]
    <2>1. ASSUME NEW j \in 1..m PROVE w[n + 1 + j] = b[j]
      <3>1. n + 1 + j \in 1..(n + 1 + m)
        BY <1>1
      <3>2. w[n + 1 + j] = v[n + 1 + j] /\ v[n + 1 + j] = b[j]
        BY <3>1, <1>6, <1>7
      <3> QED
        BY <3>1, <3>2
    <2> QED
      BY <2>1
  <1>12. w[n + m + 2] = NL
    <2>1. n + 1 + m + 1 = n + m + 2 /\ 1 \in 1..1
      BY <1>1
    <2>2. w[n + 1 + m + 1] = l[1]
      BY <2>1, <1>7
    <2> QED
      BY <2>1, <2>2, <1>3
  <1>13. \A j \in 1..n : w[j] \in Digit
    BY <1>2, <1>9
  <1> QED
    BY <1>1, <1>4, <1>7, <1>8, <1>9, <1>10, <1>11, <1>12, <1>13 DEF d, m

\* What the request r goes on with behind its first k records: a record, the
\* empty one that ends it, or the whole line that is none
NextBody(r, k) == IF k < Len(r) THEN r[k + 1] ELSE << >>
Piece(r, k) == IF r = << >> THEN <<Other, NL>> ELSE Record(NextBody(r, k))

LEMMA RequestFacts ==
    ASSUME NEW r \in Requests
    PROVE  /\ r \in Seq(Seq(Char)) /\ Len(r) \in Nat
           /\ \A i \in 1..Len(r) : r[i] \in Seq(Char) /\ Len(r[i]) \in DOMAIN Decimal \ {0}
           /\ Len(Encode(r)) <= MaxPacket
  <1>1. r \in Seq(Seq(Char)) /\ (\A i \in DOMAIN r : Len(r[i]) \in DOMAIN Decimal \ {0})
        /\ Len(Encode(r)) <= MaxPacket
    BY RequestAssumption
  <1>2. Len(r) \in Nat /\ DOMAIN r = 1..Len(r)
    BY <1>1, LenProperties
  <1>3. \A i \in 1..Len(r) : r[i] \in Seq(Char)
    BY <1>1, ElementOfSeq
  <1> QED
    BY <1>1, <1>2, <1>3

LEMMA NextBodyFacts ==
    ASSUME NEW r \in Requests, NEW k \in 0..Len(r)
    PROVE  /\ NextBody(r, k) \in Seq(Char) /\ Len(NextBody(r, k)) \in DOMAIN Decimal
           /\ Len(NextBody(r, k)) \in Nat
           /\ Len(NextBody(r, k)) = 0 <=> k = Len(r)
           /\ k < Len(r) => NextBody(r, k) = r[k + 1]
  <1>1. Len(r) \in Nat
    BY RequestFacts
  <1>2. CASE k < Len(r)
    <2>1. k + 1 \in 1..Len(r) /\ NextBody(r, k) = r[k + 1] /\ k # Len(r)
      BY <1>1, <1>2 DEF NextBody
    <2>2. r[k + 1] \in Seq(Char) /\ Len(r[k + 1]) \in DOMAIN Decimal \ {0}
      BY <2>1, RequestFacts
    <2>3. Len(r[k + 1]) \in Nat
      BY <2>2, LenProperties
    <2> QED
      BY <2>1, <2>2, <2>3
  <1>3. CASE ~(k < Len(r))
    <2>1. k = Len(r) /\ NextBody(r, k) = << >>
      BY <1>1, <1>3 DEF NextBody
    <2>2. << >> \in Seq(Char) /\ Len(<< >>) = 0 /\ 0 \in DOMAIN Decimal
      BY EmptySeq, DecimalAssumption
    <2> QED
      BY <2>1, <2>2, <1>3
  <1> QED
    BY <1>2, <1>3

\* Every piece begins with something else than a newline and ends with one.
LEMMA PieceFacts ==
    ASSUME NEW r \in Requests, NEW k \in 0..Len(r)
    PROVE  /\ Piece(r, k) \in Seq(Char) /\ Len(Piece(r, k)) \in Nat /\ Len(Piece(r, k)) >= 2
           /\ Piece(r, k)[1] # NL /\ Piece(r, k)[Len(Piece(r, k))] = NL
  <1>1. CASE r = << >>
    <2> DEFINE p == <<Other, NL>>
    <2>1. Piece(r, k) = p
      BY <1>1 DEF Piece
    <2>2. p \in Seq(Char) /\ Len(p) = 2 /\ p[1] = Other /\ p[2] = NL /\ Other # NL
      BY DEF Char, Other, NL
    <2> HIDE DEF p
    <2> QED
      BY <2>1, <2>2
  <1>2. CASE r # << >>
    <2> DEFINE b == NextBody(r, k)
    <2>1. Piece(r, k) = Record(b)
      BY <1>2 DEF Piece
    <2>2. b \in Seq(Char) /\ Len(b) \in DOMAIN Decimal
      BY NextBodyFacts
    <2> HIDE DEF b
    <2>3. /\ Record(b) \in Seq(Char) /\ Len(b) \in Nat /\ HeadLen(b) \in 1..14
          /\ Len(Record(b)) = HeadLen(b) + Len(b) + 2
          /\ (\A j \in 1..HeadLen(b) : Record(b)[j] \in Digit)
          /\ Record(b)[HeadLen(b) + Len(b) + 2] = NL
      BY <2>2, RecordFacts
    <2>4. 1 \in 1..HeadLen(b) /\ NL \notin Digit
      BY <2>3 DEF NL, Digit
    <2>5. HeadLen(b) + Len(b) + 2 \in Nat /\ HeadLen(b) + Len(b) + 2 >= 2
      <3>1. \A x \in 1..14, y \in Nat : x + y + 2 \in Nat /\ x + y + 2 >= 2
        OBVIOUS
      <3> QED
        BY <3>1, <2>3
    <2> QED
      BY <2>1, <2>3, <2>4, <2>5
  <1> QED
    BY <1>1, <1>2

\* A request is its pieces, one behind the other.
LEMMA EncodeFacts ==
    ASSUME NEW r \in Requests
    PROVE  /\ Records(r) \in Seq(Seq(Char)) /\ Len(Records(r)) = Len(r) /\ Len(r) \in Nat
           /\ Encode(r) \in Seq(Char) /\ Len(Encode(r)) \in Nat
           /\ Len(Encode(r)) = EndOf(Records(r), Len(r)) + Len(Piece(r, Len(r)))
           /\ EndOf(Records(r), 0) = 0
           /\ \A k \in 0..Len(r) : EndOf(Records(r), k) \in Nat
           /\ \A k \in 0..(Len(r) - 1) :
                 EndOf(Records(r), k + 1) = EndOf(Records(r), k) + Len(Piece(r, k))
           /\ \A k \in 0..Len(r) : \A j \in 1..Len(Piece(r, k)) :
                 Encode(r)[EndOf(Records(r), k) + j] = Piece(r, k)[j]
  <1> DEFINE s == Records(r)
             n == Len(r)
             f == FlattenSeq(s)
             z == Piece(r, n)
  <1>1. n \in Nat /\ \A i \in 1..n : r[i] \in Seq(Char) /\ Len(r[i]) \in DOMAIN Decimal
    BY RequestFacts
  <1>2. s \in Seq(Seq(Char)) /\ Len(s) = n /\ \A i \in 1..n : s[i] = Record(r[i])
    <2>1. DOMAIN r = 1..n
      BY RequestFacts, LenProperties
    <2>2. s = [i \in 1..n |-> Record(r[i])]
      BY <2>1 DEF Records
    <2>3. \A i \in 1..n : Record(r[i]) \in Seq(Char)
      BY <1>1, RecordFacts
    <2> HIDE DEF s, n
    <2> QED
      BY <1>1, <2>2, <2>3
  <1> HIDE DEF s
  <1>3. \A k \in 0..(n - 1) : s[k + 1] = Piece(r, k)
    <2>1. ASSUME NEW k \in 0..(n - 1) PROVE s[k + 1] = Piece(r, k)
      <3>1. k + 1 \in 1..n /\ k < Len(r) /\ k \in 0..Len(r)
        BY <1>1
      <3>2. r # << >>
        BY <3>1, EmptySeq
      <3> QED
        BY <1>2, <3>1, <3>2 DEF Piece, NextBody
    <2> QED
      BY <2>1
  <1>4. /\ f \in Seq(Char) /\ Len(f) = EndOf(s, n) /\ EndOf(s, 0) = 0
        /\ (\A k \in 0..n : EndOf(s, k) \in Nat)
        /\ \A k \in 0..(n - 1) : EndOf(s, k + 1) = EndOf(s, k) + Len(s[k + 1])
    <2> HIDE DEF n
    <2> QED
      BY <1>2, Ends
  <1>5. z \in Seq(Char)
    <2>1. n \in 0..Len(r)
      BY <1>1
    <2> QED
      BY <2>1, PieceFacts
  <1>6. Encode(r) = f \o z
    <2>1. CASE r = << >>
      <3>1. n = 0
        BY <2>1, EmptySeq
      <3>2. s = << >>
        BY <1>2, <3>1, EmptySeq
      <3>3. f = << >>
        BY <3>2, FlattenEmpty
      <3>4. << >> \o z = z
        BY <1>5, ConcatEmptySeq
      <3>5. z = <<Other, NL>>
        BY <2>1 DEF Piece
      <3> HIDE DEF f, z
      <3> QED
        BY <3>3, <3>4, <3>5, <2>1 DEF Encode
    <2>2. CASE r # << >>
      <3>1. ~(n < n)
        BY <1>1
      <3>2. z = Record(<< >>)
        BY <2>2, <3>1 DEF Piece, NextBody
      <3> HIDE DEF z
      <3> QED
        BY <2>2, <3>2 DEF Encode, s
    <2> QED
      BY <2>1, <2>2
  <1> DEFINE l == EndOf(s, n)
             m == Len(z)
  <1>7. /\ l \in Nat /\ m \in Nat /\ f \o z \in Seq(Char) /\ Len(f \o z) = l + m
        /\ (\A j \in 1..l : (f \o z)[j] = f[j])
        /\ \A j \in 1..m : (f \o z)[l + j] = z[j]
    <2>1. Len(f) = l /\ Len(z) = m
      BY <1>4
    <2> HIDE DEF f, z, l, m
    <2> QED
      BY <2>1, <1>4, <1>5, ConcatPlaces
  <1>8. ASSUME NEW k \in 0..n, NEW j \in 1..Len(Piece(r, k))
        PROVE  (f \o z)[EndOf(s, k) + j] = Piece(r, k)[j]
    <2>1. CASE k = n
      BY <2>1, <1>7
    <2>2. CASE k # n
      <3>1. k \in 0..(Len(s) - 1) /\ k \in 0..(n - 1)
        BY <2>2, <1>1, <1>2
      <3>2. s[k + 1] = Piece(r, k)
        BY <3>1, <1>3
      <3>3. f[EndOf(s, k) + j] = Piece(r, k)[j]
        <4>1. j \in 1..Len(s[k + 1])
          BY <3>2
        <4>2. FlattenSeq(s)[EndOf(s, k) + j] = s[k + 1][j]
          BY <3>1, <4>1, <1>2, Positions
        <4> QED
          BY <4>2, <3>2
      <3>4. EndOf(s, k + 1) = EndOf(s, k) + Len(Piece(r, k)) /\ EndOf(s, k) \in Nat
        BY <1>4, <3>1, <3>2
      <3>5. EndOf(s, k + 1) <= l
        <4>1. k + 1 \in 0..Len(s) /\ n \in (k + 1)..Len(s)
          BY <1>1, <1>2, <3>1
        <4> QED
          BY <4>1, <1>2, EndsOrdered
      <3>6. Len(Piece(r, k)) \in Nat
        BY PieceFacts
      <3>7. EndOf(s, k) + j \in 1..l
        <4> HIDE DEF l
        <4> QED
          BY <3>4, <3>5, <3>6, <1>7
      <3> HIDE DEF l
      <3> QED
        BY <1>7, <3>3, <3>7
    <2> QED
      BY <2>1, <2>2
  <1>9. \A k \in 0..(n - 1) : EndOf(s, k + 1) = EndOf(s, k) + Len(Piece(r, k))
    BY <1>3, <1>4
  <1>10. Len(Encode(r)) = l + m /\ Encode(r) \in Seq(Char) /\ l + m \in Nat
    BY <1>6, <1>7
  <1> QED
    BY <1>1, <1>2, <1>4, <1>6, <1>8, <1>9, <1>10 DEF s

-----------------------------------------------------------------------------
(***************************************************************************)
(* The buffer                                                              *)
(***************************************************************************)
IsBuf(b) ==
    /\ b \in [mem : Seq(Char), off : Nat, size : Nat]
    /\ b.off + b.size <= Len(b.mem)

\* Buffers with the same data
SameData(b, c) == c.size = b.size /\ \A j \in 1..b.size : c.mem[c.off + j] = b.mem[b.off + j]

\* No newline lies behind the data.
Clear(b) == \A i \in (b.off + b.size + 1)..Len(b.mem) : b.mem[i] # NL

LEMMA BytesFacts ==
    ASSUME NEW m \in Seq(Char), NEW i \in Nat, NEW n \in Nat, i + n - 1 <= Len(m), i >= 1
    PROVE  /\ Bytes(m, i, n) \in Seq(Char) /\ Len(Bytes(m, i, n)) = n
           /\ \A j \in 1..n : Bytes(m, i, n)[j] = m[i + j - 1]
  <1>1. Len(m) \in Nat /\ DOMAIN m = 1..Len(m)
    BY LenProperties
  <1>2. \A j \in 1..n : i + j - 1 \in 1..Len(m)
    BY <1>1
  <1>3. \A j \in 1..n : Byte(m, i + j - 1) = m[i + j - 1] /\ m[i + j - 1] \in Char
    BY <1>1, <1>2, ElementOfSeq DEF Byte
  <1> DEFINE s == [j \in 1..n |-> m[i + j - 1]]
  <1>4. Bytes(m, i, n) = s
    BY <1>3 DEF Bytes
  <1>5. s \in Seq(Char) /\ Len(s) = n /\ \A j \in 1..n : s[j] = m[i + j - 1]
    BY <1>3
  <1> HIDE DEF s
  <1> QED
    BY <1>4, <1>5

LEMMA PutFacts ==
    ASSUME NEW m \in Seq(Char), NEW i \in Nat, i >= 1, NEW s \in Seq(Char), i + Len(s) - 1 <= Len(m)
    PROVE  /\ Put(m, i, s) \in Seq(Char) /\ Len(Put(m, i, s)) = Len(m)
           /\ \A j \in 1..Len(s) : Put(m, i, s)[i + j - 1] = s[j]
           /\ \A j \in 1..Len(m) : j < i \/ j >= i + Len(s) => Put(m, i, s)[j] = m[j]
  <1>1. Len(m) \in Nat /\ DOMAIN m = 1..Len(m) /\ Len(s) \in Nat
    BY LenProperties
  <1> DEFINE n == Len(m)
             k == Len(s)
             e(j) == IF j \in i..(i + k - 1) THEN s[j - i + 1] ELSE m[j]
             p == [j \in 1..n |-> e(j)]
  <1>2. Put(m, i, s) = p
    BY <1>1 DEF Put
  <1>3. \A j \in 1..n : e(j) \in Char
    <2>1. ASSUME NEW j \in 1..n PROVE e(j) \in Char
      <3>1. CASE j \in i..(i + k - 1)
        <4>1. j - i + 1 \in 1..k
          BY <3>1, <1>1
        <4> QED
          BY <3>1, <4>1, ElementOfSeq
      <3>2. CASE j \notin i..(i + k - 1)
        BY <3>2, ElementOfSeq
      <3> QED
        BY <3>1, <3>2
    <2> QED
      BY <2>1
  <1>4. p \in Seq(Char) /\ Len(p) = n /\ \A j \in 1..n : p[j] = e(j)
    <2> HIDE DEF e, n
    <2> QED
      BY <1>1, <1>3 DEF n
  <1>5. ASSUME NEW j \in 1..k PROVE p[i + j - 1] = s[j]
    <2>1. i + j - 1 \in 1..n /\ i + j - 1 \in i..(i + k - 1) /\ i + j - 1 - i + 1 = j
      BY <1>1
    <2>2. e(i + j - 1) = s[j]
      BY <2>1
    <2> HIDE DEF p, e
    <2> QED
      BY <1>4, <2>1, <2>2
  <1>6. ASSUME NEW j \in 1..n, j < i \/ j >= i + k PROVE p[j] = m[j]
    <2>1. j \notin i..(i + k - 1)
      BY <1>1, <1>6
    <2>2. e(j) = m[j]
      BY <2>1
    <2> HIDE DEF p, e
    <2> QED
      BY <1>4, <2>2
  <1> HIDE DEF p
  <1> QED
    BY <1>2, <1>4, <1>5, <1>6

\* etdb_buf_nice keeps the data and makes room.
LEMMA NiceFacts ==
    ASSUME NEW b, IsBuf(b)
    PROVE  /\ IsBuf(Nice(b)) /\ SameData(b, Nice(b)) /\ Len(Nice(b).mem) = Len(b.mem)
           /\ Nice(b).off <= b.off /\ Nice(b).off <= Len(b.mem) \div 2
           /\ b.off <= Len(b.mem) \div 2 => Nice(b) = b
  <1> DEFINE m == b.mem
             o == b.off
             z == b.size
             n == Len(m)
  <1>1. m \in Seq(Char) /\ o \in Nat /\ z \in Nat /\ n \in Nat /\ o + z <= n
    BY LenProperties DEF IsBuf
  <1>2. n \div 2 \in Nat
    <2> HIDE DEF n
    <2> QED
      BY <1>1
  <1>3. CASE o > n \div 2
    <2> DEFINE s == Bytes(m, o + 1, z)
               p == Put(m, 1, s)
               c == [b EXCEPT !.mem = p, !.off = 0]
    <2>1. Nice(b) = c
      BY <1>3 DEF Nice
    <2>2. s \in Seq(Char) /\ Len(s) = z /\ \A j \in 1..z : s[j] = m[o + 1 + j - 1]
      <3> HIDE DEF m, o, z
      <3>1. o + 1 \in Nat /\ o + 1 + z - 1 <= Len(m) /\ o + 1 >= 1
        BY <1>1
      <3> QED
        BY <3>1, <1>1, BytesFacts
    <2> HIDE DEF s
    <2>3. p \in Seq(Char) /\ Len(p) = n /\ \A j \in 1..z : p[1 + j - 1] = s[j]
      <3> HIDE DEF m, o, z
      <3>1. 1 \in Nat /\ 1 >= 1 /\ 1 + Len(s) - 1 <= Len(m)
        BY <1>1, <2>2
      <3> QED
        BY <3>1, <1>1, <2>2, PutFacts
    <2> HIDE DEF p
    <2>4. c.mem = p /\ c.off = 0 /\ c.size = z /\ c \in [mem : Seq(Char), off : Nat, size : Nat]
      BY <2>3 DEF IsBuf
    <2> HIDE DEF c
    <2>5. \A j \in 1..z : c.mem[c.off + j] = m[o + j]
      <3>1. \A j \in 1..z : 1 + j - 1 = j /\ 0 + j = j /\ o + 1 + j - 1 = o + j
        BY <1>1
      <3> HIDE DEF m, o, z
      <3> QED
        BY <3>1, <2>2, <2>3, <2>4
    <2>6. 0 + z <= n /\ 0 <= o /\ 0 <= n \div 2 /\ ~(o <= n \div 2)
      <3> HIDE DEF n, o, z
      <3> QED
        BY <1>1, <1>2, <1>3
    <2>7. IsBuf(c)
      BY <2>3, <2>4, <2>6 DEF IsBuf
    <2>8. SameData(b, c)
      BY <2>4, <2>5 DEF SameData
    <2>9. Len(c.mem) = n /\ c.off <= o /\ c.off <= n \div 2
      BY <2>3, <2>4, <2>6
    <2> QED
      BY <2>1, <2>6, <2>7, <2>8, <2>9
  <1>4. CASE ~(o > n \div 2)
    <2>1. Nice(b) = b
      BY <1>4 DEF Nice
    <2>2. o <= o /\ o <= n \div 2
      <3> HIDE DEF n, o, z
      <3> QED
        BY <1>1, <1>2, <1>4
    <2> QED
      BY <2>1, <2>2 DEF SameData
  <1> QED
    BY <1>3, <1>4

LEMMA GrowFacts ==
    ASSUME NEW b, IsBuf(b), Beyond \in Char, Beyond # NL
    PROVE  /\ IsBuf(Grow(b)) /\ SameData(b, Grow(b)) /\ Grow(b).off = b.off
           /\ Len(Grow(b).mem) = 2 * Len(b.mem)
           /\ Clear(b) => Clear(Grow(b))
  <1> DEFINE m == b.mem
             o == b.off
             z == b.size
             n == Len(m)
             f == [i \in DOMAIN m |-> Beyond]
             p == m \o f
             c == [b EXCEPT !.mem = p]
  <1>1. m \in Seq(Char) /\ o \in Nat /\ z \in Nat /\ n \in Nat /\ o + z <= n /\ DOMAIN m = 1..n
    BY LenProperties DEF IsBuf
  <1>2. f \in Seq(Char) /\ Len(f) = n /\ \A i \in 1..n : f[i] = Beyond
    BY <1>1
  <1> HIDE DEF f
  <1>3. /\ p \in Seq(Char) /\ Len(p) = n + n
        /\ (\A j \in 1..n : p[j] = m[j]) /\ \A j \in 1..n : p[n + j] = f[j]
    <2>1. Len(m) = n
      OBVIOUS
    <2> HIDE DEF m, n
    <2> QED
      BY <2>1, <1>1, <1>2, ConcatPlaces
  <1> HIDE DEF p
  <1>4. Grow(b) = c
    BY DEF Grow, p, f
  <1>5. c.mem = p /\ c.off = o /\ c.size = z /\ c \in [mem : Seq(Char), off : Nat, size : Nat]
    BY <1>3 DEF IsBuf
  <1> HIDE DEF c
  <1>6. o + z <= n + n /\ n + n = 2 * n
    BY <1>1
  <1>7. IsBuf(c)
    BY <1>3, <1>5, <1>6 DEF IsBuf
  <1>8. SameData(b, c)
    <2>1. \A j \in 1..z : o + j \in 1..n
      BY <1>1
    <2>2. \A j \in 1..z : p[o + j] = m[o + j]
      BY <2>1, <1>3
    <2> QED
      BY <2>2, <1>5 DEF SameData
  <1>9. ASSUME Clear(b) PROVE Clear(c)
    <2>1. ASSUME NEW i \in (o + z + 1)..(n + n) PROVE p[i] # NL
      <3>1. CASE i <= n
        <4>1. i \in (o + z + 1)..n /\ i \in 1..n
          BY <3>1, <1>1
        <4>2. m[i] # NL
          BY <4>1, <1>9 DEF Clear
        <4> QED
          BY <4>1, <4>2, <1>3
      <3>2. CASE ~(i <= n)
        <4>1. i - n \in 1..n /\ n + (i - n) = i
          BY <3>2, <1>1
        <4>2. p[n + (i - n)] = Beyond
          BY <4>1, <1>2, <1>3
        <4> QED
          BY <4>1, <4>2
      <3> QED
        BY <3>1, <3>2
    <2> QED
      BY <2>1, <1>3, <1>5 DEF Clear
  <1> QED
    BY <1>3, <1>4, <1>5, <1>6, <1>7, <1>8, <1>9

\* When the data is not ready, room is made, and nothing is moved from the
\* first half of the buffer.
LEMMA MakeRoomFacts ==
    ASSUME NEW b, IsBuf(b), Beyond \in Char, Beyond # NL, Len(b.mem) > 0
    PROVE  /\ IsBuf(MakeRoom(b)) /\ SameData(b, MakeRoom(b)) /\ Len(MakeRoom(b).mem) > 0
           /\ Room(Nice(MakeRoom(b))) > 0
           /\ b.off <= Len(b.mem) \div 2 /\ Clear(b) => Clear(MakeRoom(b))
  <1> DEFINE c == Nice(b)
             g == Grow(c)
             n == Len(b.mem)
  <1>1. /\ IsBuf(c) /\ SameData(b, c) /\ Len(c.mem) = n
        /\ c.off <= b.off /\ c.off <= n \div 2
        /\ b.off <= n \div 2 => c = b
    BY NiceFacts
  <1>2. /\ IsBuf(g) /\ SameData(c, g) /\ g.off = c.off /\ Len(g.mem) = 2 * n
        /\ Clear(c) => Clear(g)
    BY <1>1, GrowFacts
  <1> HIDE DEF c, g
  <1>3. /\ b.off \in Nat /\ b.size \in Nat /\ n \in Nat /\ b.off + b.size <= n
        /\ c.off \in Nat /\ c.size = b.size /\ g.size = b.size /\ n > 0
    BY <1>1, <1>2, LenProperties DEF IsBuf, SameData
  <1>4. MakeRoom(b) = IF Room(b) # 0 THEN b ELSE IF Room(c) # 0 THEN c ELSE g
    BY DEF MakeRoom, c, g
  <1>5. Room(b) = n - b.off - b.size /\ Room(c) = n - c.off - b.size /\ Room(g) = 2 * n - c.off - b.size
    BY <1>1, <1>2, <1>3 DEF Room
  <1>6. Room(b) >= 0 /\ Room(c) >= Room(b) /\ Room(g) > 0
    <2> DEFINE u == b.off
               v == b.size
               y == c.off
    <2>1. u \in Nat /\ v \in Nat /\ y \in Nat /\ n \in Nat /\ u + v <= n /\ y <= u /\ n > 0
      BY <1>1, <1>3
    <2>2. Room(b) = n - u - v /\ Room(c) = n - y - v /\ Room(g) = 2 * n - y - v
      BY <1>5
    <2> HIDE DEF n, u, v, y
    <2> QED
      BY <2>1, <2>2
  <1>7. SameData(b, b) /\ SameData(b, g)
    BY <1>1, <1>2, <1>3 DEF SameData
  <1>8. CASE Room(b) # 0
    <2>1. Room(c) > 0
      BY <1>8, <1>5, <1>6, <1>3, SMTT(40)
    <2> QED
      BY <2>1, <1>4, <1>7, <1>8 DEF c
  <1>9. CASE Room(b) = 0 /\ Room(c) # 0
    <2>1. MakeRoom(b) = c
      BY <1>4, <1>9
    <2>2. Nice(c) = c
      BY <1>1, NiceFacts
    <2>3. Room(c) > 0
      BY <1>9, <1>5, <1>6, <1>3
    <2> QED
      BY <1>1, <1>3, <2>1, <2>2, <2>3
  <1>10. CASE Room(b) = 0 /\ Room(c) = 0
    <2>1. MakeRoom(b) = g
      BY <1>4, <1>10
    <2>2. Nice(g).off <= g.off /\ Len(Nice(g).mem) = 2 * n /\ Nice(g).size = b.size /\ Nice(g).off \in Nat
      BY <1>2, <1>3, NiceFacts DEF IsBuf, SameData
    <2>3. Room(Nice(g)) = 2 * n - Nice(g).off - b.size
      BY <2>2 DEF Room
    <2>4. Room(Nice(g)) > 0
      BY <1>2, <1>3, <1>5, <1>6, <2>2, <2>3
    <2>5. Len(g.mem) > 0
      BY <1>2, <1>3
    <2>6. b.off <= n \div 2 /\ Clear(b) => Clear(g)
      BY <1>1, <1>2
    <2> QED
      BY <1>2, <1>7, <2>1, <2>4, <2>5, <2>6
  <1> QED
    BY <1>8, <1>9, <1>10

-----------------------------------------------------------------------------
(***************************************************************************)
(* What was sent                                                           *)
(***************************************************************************)
\* The encodings of the requests s, and all their bytes; Encodings and Sent
\* are those of sent.
Enc(s) == [i \in DOMAIN s |-> Encode(s[i])]
All(s) == FlattenSeq(Enc(s))

\* Where the piece behind the first k records of request i + 1 begins
Place(s, i, k) == EndOf(Enc(s), i) + EndOf(Records(s[i + 1]), k)

\* A record ends with the byte at a place of what is sent, as in EndsRecord.
EndsAt(s, place) ==
    \E i \in 0..Len(s) :
       \/ place = EndOf(Enc(s), i)
       \/ i < Len(s) /\ \E k \in 1..Len(s[i + 1]) : place = Place(s, i, k)

LEMMA SentIs ==
    /\ Encodings = Enc(sent) /\ Sent = All(sent)
    /\ \A place : EndsRecord(place) <=> EndsAt(sent, place)
  <1>1. Encodings = Enc(sent) /\ Sent = All(sent)
    BY DEF Encodings, Sent, Enc, All
  <1>2. \A place : EndsRecord(place) <=> EndsAt(sent, place)
    BY <1>1 DEF EndsRecord, EndsAt, Place
  <1> QED
    BY <1>1, <1>2

LEMMA SentFacts ==
    ASSUME NEW s \in Seq(Requests)
    PROVE  /\ Enc(s) \in Seq(Seq(Char)) /\ Len(Enc(s)) = Len(s) /\ Len(s) \in Nat
           /\ All(s) \in Seq(Char) /\ Len(All(s)) \in Nat
           /\ EndOf(Enc(s), 0) = 0 /\ EndOf(Enc(s), Len(s)) = Len(All(s))
           /\ \A i \in 0..Len(s) : EndOf(Enc(s), i) \in Nat
           /\ \A i \in 0..(Len(s) - 1) :
                 /\ s[i + 1] \in Requests
                 /\ EndOf(Enc(s), i + 1) = EndOf(Enc(s), i) + Len(Encode(s[i + 1]))
  <1> DEFINE n == Len(s)
             t == Enc(s)
  <1>1. n \in Nat /\ DOMAIN s = 1..n /\ \A i \in 1..n : s[i] \in Requests
    BY LenProperties, ElementOfSeq
  <1>2. \A i \in 1..n : Encode(s[i]) \in Seq(Char)
    BY <1>1, EncodeFacts
  <1>3. t \in Seq(Seq(Char)) /\ Len(t) = n /\ \A i \in 1..n : t[i] = Encode(s[i])
    <2>1. t = [i \in 1..n |-> Encode(s[i])]
      BY <1>1 DEF Enc
    <2> HIDE DEF t, n
    <2> QED
      BY <1>1, <1>2, <2>1
  <1> HIDE DEF t
  <1>4. /\ FlattenSeq(t) \in Seq(Char) /\ Len(FlattenSeq(t)) \in Nat
        /\ EndOf(t, 0) = 0 /\ EndOf(t, Len(t)) = Len(FlattenSeq(t))
        /\ (\A i \in 0..(Len(t) - 1) : EndOf(t, i + 1) = EndOf(t, i) + Len(t[i + 1]))
        /\ \A i \in 0..Len(t) : EndOf(t, i) \in Nat
    BY <1>3, Ends
  <1>5. All(s) = FlattenSeq(t)
    BY DEF All, t
  <1>6. \A i \in 0..(n - 1) : s[i + 1] \in Requests /\ t[i + 1] = Encode(s[i + 1])
    <2>1. \A i \in 0..(n - 1) : i + 1 \in 1..n
      BY <1>1
    <2> QED
      BY <2>1, <1>1, <1>3
  <1>7. \A i \in 0..(n - 1) : s[i + 1] \in Requests
           /\ EndOf(t, i + 1) = EndOf(t, i) + Len(Encode(s[i + 1]))
    BY <1>3, <1>4, <1>6
  <1> QED
    BY <1>1, <1>3, <1>4, <1>5, <1>7 DEF t

LEMMA SentOrdered ==
    ASSUME NEW s \in Seq(Requests), NEW i \in 0..Len(s), NEW k \in i..Len(s)
    PROVE  EndOf(Enc(s), i) <= EndOf(Enc(s), k)
  <1>1. Enc(s) \in Seq(Seq(Char)) /\ Len(Enc(s)) = Len(s)
    BY SentFacts
  <1> QED
    BY <1>1, EndsOrdered

\* The places of request i + 1
LEMMA PlaceFacts ==
    ASSUME NEW s \in Seq(Requests), NEW i \in 0..(Len(s) - 1)
    PROVE  /\ i \in 0..Len(s) /\ i + 1 \in 0..Len(s) /\ s[i + 1] \in Requests /\ Len(s[i + 1]) \in Nat
           /\ Place(s, i, 0) = EndOf(Enc(s), i)
           /\ Place(s, i, Len(s[i + 1])) + Len(Piece(s[i + 1], Len(s[i + 1]))) = EndOf(Enc(s), i + 1)
           /\ \A k \in 0..Len(s[i + 1]) : Place(s, i, k) \in Nat
           /\ \A k \in 0..(Len(s[i + 1]) - 1) :
                 Place(s, i, k + 1) = Place(s, i, k) + Len(Piece(s[i + 1], k))
           /\ \A k \in 0..Len(s[i + 1]) : \A m \in k..Len(s[i + 1]) :
                 Place(s, i, k) <= Place(s, i, m)
  <1> DEFINE r == s[i + 1]
             e(k) == EndOf(Records(r), k)
             b == EndOf(Enc(s), i)
             p(k) == Len(Piece(r, k))
  <1>1. i \in 0..Len(s) /\ i + 1 \in 0..Len(s)
    BY SentFacts
  <1>2. r \in Requests /\ b \in Nat /\ EndOf(Enc(s), i + 1) = b + Len(Encode(r))
    BY <1>1, SentFacts
  <1> HIDE DEF r
  <1>3. /\ Records(r) \in Seq(Seq(Char)) /\ Len(Records(r)) = Len(r) /\ Len(r) \in Nat
        /\ Len(Encode(r)) = e(Len(r)) + p(Len(r)) /\ e(0) = 0
        /\ (\A k \in 0..Len(r) : e(k) \in Nat)
        /\ \A k \in 0..(Len(r) - 1) : e(k + 1) = e(k) + p(k)
    BY <1>2, EncodeFacts
  <1>4. \A k \in 0..Len(r) : \A m \in k..Len(r) : e(k) <= e(m)
    BY <1>3, EndsOrdered
  <1>5. \A k \in 0..Len(r) : p(k) \in Nat
    BY <1>2, PieceFacts
  <1>6. \A k : Place(s, i, k) = b + e(k)
    BY DEF Place, r
  <1> HIDE DEF b, e, p
  <1>7. Place(s, i, 0) = b /\ Place(s, i, Len(r)) + p(Len(r)) = b + Len(Encode(r))
    <2>1. Len(r) \in 0..Len(r)
      BY <1>3
    <2>2. e(Len(r)) \in Nat /\ p(Len(r)) \in Nat
      BY <2>1, <1>3, <1>5
    <2> QED
      BY <2>2, <1>2, <1>3, <1>6
  <1>8. \A k \in 0..Len(r) : Place(s, i, k) \in Nat
    BY <1>2, <1>3, <1>6
  <1>9. \A k \in 0..(Len(r) - 1) : Place(s, i, k + 1) = Place(s, i, k) + p(k)
    <2>1. ASSUME NEW k \in 0..(Len(r) - 1) PROVE Place(s, i, k + 1) = Place(s, i, k) + p(k)
      <3>1. k \in 0..Len(r)
        BY <1>3
      <3>2. e(k) \in Nat /\ p(k) \in Nat
        BY <3>1, <1>3, <1>5
      <3>3. e(k + 1) = e(k) + p(k)
        BY <1>3
      <3> QED
        BY <3>2, <3>3, <1>2, <1>6
    <2> QED
      BY <2>1
  <1>10. \A k \in 0..Len(r) : \A m \in k..Len(r) : Place(s, i, k) <= Place(s, i, m)
    <2>1. ASSUME NEW k \in 0..Len(r), NEW m \in k..Len(r) PROVE Place(s, i, k) <= Place(s, i, m)
      <3>1. m \in 0..Len(r)
        BY <1>3
      <3>2. e(k) \in Nat /\ e(m) \in Nat /\ e(k) <= e(m)
        BY <3>1, <1>3, <1>4
      <3> QED
        BY <3>2, <1>2, <1>6
    <2> QED
      BY <2>1
  <1> QED
    BY <1>1, <1>2, <1>3, <1>7, <1>8, <1>9, <1>10 DEF r, b, p

\* What is sent at a place
LEMMA SentPiece ==
    ASSUME NEW s \in Seq(Requests), NEW i \in 0..(Len(s) - 1), NEW k \in 0..Len(s[i + 1]),
           NEW j \in 1..Len(Piece(s[i + 1], k))
    PROVE  All(s)[Place(s, i, k) + j] = Piece(s[i + 1], k)[j]
  <1> DEFINE r == s[i + 1]
             p == Piece(r, k)
             e == EndOf(Records(r), k)
             b == EndOf(Enc(s), i)
             n == Len(Encode(r))
  <1>1. r \in Requests /\ Len(r) \in Nat /\ i \in 0..Len(s)
    BY PlaceFacts
  <1>2. b \in Nat
    BY <1>1, SentFacts
  <1>3. Enc(s) \in Seq(Seq(Char)) /\ Len(Enc(s)) = Len(s)
    BY SentFacts
  <1>4. Enc(s)[i + 1] = Encode(r)
    <2>1. i + 1 \in DOMAIN s
      BY SentFacts, LenProperties
    <2> QED
      BY <2>1 DEF Enc
  <1> HIDE DEF r
  <1>5. /\ e \in Nat /\ n \in Nat /\ Len(r) \in 0..Len(r) /\ k \in 0..Len(r)
        /\ n = EndOf(Records(r), Len(r)) + Len(Piece(r, Len(r)))
        /\ \A m \in 0..(Len(r) - 1) : EndOf(Records(r), m + 1) = EndOf(Records(r), m) + Len(Piece(r, m))
    <2>1. k \in 0..Len(r)
      BY DEF r
    <2>2. Len(r) \in 0..Len(r)
      BY <1>1
    <2>3. /\ n \in Nat /\ n = EndOf(Records(r), Len(r)) + Len(Piece(r, Len(r)))
          /\ (\A m \in 0..Len(r) : EndOf(Records(r), m) \in Nat)
          /\ \A m \in 0..(Len(r) - 1) : EndOf(Records(r), m + 1) = EndOf(Records(r), m) + Len(Piece(r, m))
      BY <1>1, EncodeFacts
    <2> QED
      BY <2>1, <2>2, <2>3
  <1>6. Encode(r)[e + j] = p[j]
    BY <1>1, <1>5, EncodeFacts DEF r
  <1>7. Len(p) \in Nat
    BY <1>1, <1>5, PieceFacts
  <1>8. e + Len(p) <= n
    <2>1. CASE k = Len(r)
      BY <2>1, <1>5, <1>7
    <2>2. CASE k # Len(r)
      <3>1. k \in 0..(Len(r) - 1) /\ k + 1 \in 0..Len(r) /\ Len(r) \in (k + 1)..Len(r)
        BY <2>2, <1>1, <1>5
      <3>2. EndOf(Records(r), k + 1) = e + Len(p)
        BY <3>1, <1>5
      <3>3. EndOf(Records(r), k + 1) <= EndOf(Records(r), Len(r))
        <4>1. Records(r) \in Seq(Seq(Char)) /\ Len(Records(r)) = Len(r)
          BY <1>1, EncodeFacts
        <4> QED
          BY <4>1, <3>1, EndsOrdered
      <3>4. EndOf(Records(r), Len(r)) \in Nat /\ Len(Piece(r, Len(r))) \in Nat
        BY <1>1, <1>5, EncodeFacts, PieceFacts
      <3> HIDE DEF n, p, e
      <3> QED
        BY <3>2, <3>3, <3>4, <1>5, <1>7
    <2> QED
      BY <2>1, <2>2
  <1>9. e + j \in 1..n
    <2>1. j \in 1..Len(p)
      BY DEF r
    <2> HIDE DEF n, p, e
    <2> QED
      BY <2>1, <1>5, <1>7, <1>8
  <1>10. FlattenSeq(Enc(s))[b + (e + j)] = Enc(s)[i + 1][e + j]
    <2> DEFINE t == Enc(s)
               q == e + j
    <2>1. t \in Seq(Seq(Char)) /\ i \in 0..(Len(t) - 1) /\ q \in 1..Len(t[i + 1])
      BY <1>3, <1>4, <1>9
    <2> HIDE DEF t, q
    <2>2. FlattenSeq(t)[EndOf(t, i) + q] = t[i + 1][q]
      BY <2>1, Positions
    <2> QED
      BY <2>2 DEF t, q
  <1>11. b + (e + j) = Place(s, i, k) + j
    <2>1. Place(s, i, k) = b + e /\ j \in Nat
      BY DEF Place, r
    <2> HIDE DEF b, e
    <2> QED
      BY <2>1, <1>2, <1>5
  <1> QED
    BY <1>4, <1>6, <1>10, <1>11 DEF All, r

\* The last byte of a request is a newline.
LEMMA LastByte ==
    ASSUME NEW s \in Seq(Requests), NEW i \in 1..Len(s)
    PROVE  EndOf(Enc(s), i) >= 2 /\ All(s)[EndOf(Enc(s), i)] = NL
  <1> DEFINE h == i - 1
             r == s[h + 1]
             k == Len(r)
             p == Piece(r, k)
             m == Len(p)
  <1>1. h \in 0..(Len(s) - 1) /\ h + 1 = i
    BY SentFacts
  <1> HIDE DEF h
  <1>2. r \in Requests /\ k \in Nat /\ k \in 0..Len(r) /\ Place(s, h, k) \in Nat
        /\ Place(s, h, k) + m = EndOf(Enc(s), h + 1)
    <2>1. Len(s[h + 1]) \in Nat
      BY <1>1, PlaceFacts
    <2>2. Len(s[h + 1]) \in 0..Len(s[h + 1])
      BY <2>1
    <2> QED
      BY <1>1, <2>1, <2>2, PlaceFacts
  <1>3. m \in Nat /\ m >= 2 /\ p[m] = NL
    BY <1>2, PieceFacts
  <1>4. All(s)[Place(s, h, k) + m] = p[m]
    <2>1. m \in 1..Len(Piece(s[h + 1], k)) /\ k \in 0..Len(s[h + 1])
      BY <1>2, <1>3
    <2> HIDE DEF m
    <2> QED
      BY <1>1, <2>1, SentPiece
  <1>5. EndOf(Enc(s), i) = Place(s, h, k) + m
    BY <1>1, <1>2
  <1>6. Place(s, h, k) + m >= 2
    <2> HIDE DEF m
    <2> QED
      BY <1>2, <1>3
  <1> QED
    BY <1>3, <1>4, <1>5, <1>6

\* No record ends within a piece.
LEMMA Boundary ==
    ASSUME NEW s \in Seq(Requests), NEW i \in 0..(Len(s) - 1), NEW k \in 0..Len(s[i + 1]),
           NEW place \in Nat, EndsAt(s, place), place > Place(s, i, k)
    PROVE  place >= Place(s, i, k) + Len(Piece(s[i + 1], k))
  <1> DEFINE r == s[i + 1]
             n == Len(r)
             m == Len(Piece(r, k))
             E(h) == EndOf(Enc(s), h)
             P(h) == Place(s, i, h)
  <1>1. /\ i \in 0..Len(s) /\ i + 1 \in 0..Len(s) /\ n \in Nat /\ Len(s) \in Nat
        /\ P(0) = E(i) /\ P(n) + Len(Piece(r, n)) = E(i + 1)
        /\ (\A h \in 0..n : P(h) \in Nat)
        /\ (\A h \in 0..(n - 1) : P(h + 1) = P(h) + Len(Piece(r, h)))
        /\ \A h \in 0..n : \A g \in h..n : P(h) <= P(g)
    BY PlaceFacts, SentFacts
  <1>2. \A h \in 0..n : Len(Piece(r, h)) \in Nat
    BY PlaceFacts, PieceFacts
  <1>3. \A h \in 0..Len(s) : E(h) \in Nat
    BY SentFacts
  <1>4. \A h \in 0..Len(s) : \A g \in h..Len(s) : E(h) <= E(g)
    BY SentOrdered
  <1> HIDE DEF E
  <1>5. P(k) + m <= E(i + 1)
    <2>1. CASE k = n
      BY <2>1, <1>1, <1>3
    <2>2. CASE k # n
      <3>1. k \in 0..(n - 1) /\ n \in (k + 1)..n /\ k + 1 \in 0..n /\ n \in 0..n
        BY <2>2, <1>1
      <3>2. P(k + 1) = P(k) + m /\ P(k + 1) <= P(n)
        BY <3>1, <1>1
      <3>3. P(n) \in Nat /\ Len(Piece(r, n)) \in Nat /\ P(k) \in Nat /\ m \in Nat
            /\ P(n) + Len(Piece(r, n)) = E(i + 1)
        BY <3>1, <1>1, <1>2
      <3> DEFINE x == P(k)
                 y == P(n)
                 z == Len(Piece(r, n))
                 w == P(k + 1)
      <3>4. w = x + m /\ w <= y /\ x \in Nat /\ y \in Nat /\ z \in Nat /\ m \in Nat /\ y + z = E(i + 1)
        BY <3>2, <3>3
      <3> HIDE DEF x, y, z, w, m
      <3>5. x + m <= E(i + 1)
        BY <3>4
      <3> QED
        BY <3>5 DEF x
    <2> QED
      BY <2>1, <2>2
  <1>6. P(k) \in Nat /\ m \in Nat /\ E(i) <= P(k)
    <2>1. 0 \in 0..n /\ k \in 0..n
      BY <1>1
    <2> QED
      BY <2>1, <1>1, <1>2
  <1>7. PICK h \in 0..Len(s) :
           \/ place = E(h)
           \/ h < Len(s) /\ \E g \in 1..Len(s[h + 1]) : place = Place(s, h, g)
    BY DEF EndsAt, E
  <1>8. CASE h > i
    <2>1. h \in (i + 1)..Len(s)
      BY <1>8, <1>1
    <2>2. E(i + 1) <= E(h)
      BY <2>1, <1>1, <1>4
    <2>3. E(h) <= place
      <3>1. CASE place = E(h)
        BY <3>1
      <3>2. CASE h < Len(s) /\ \E g \in 1..Len(s[h + 1]) : place = Place(s, h, g)
        <4>1. PICK g \in 1..Len(s[h + 1]) : place = Place(s, h, g)
          BY <3>2
        <4>2. h \in 0..(Len(s) - 1)
          BY <3>2, <1>1
        <4>3. Len(s[h + 1]) \in Nat
          BY <4>2, PlaceFacts
        <4>4. 0 \in 0..Len(s[h + 1]) /\ g \in 0..Len(s[h + 1])
          BY <4>3
        <4>5. Place(s, h, 0) = E(h) /\ Place(s, h, 0) <= Place(s, h, g)
          BY <4>2, <4>4, PlaceFacts DEF E
        <4> QED
          BY <4>1, <4>5
      <3> QED
        BY <1>7, <3>1, <3>2
    <2> DEFINE x == P(k)
               y == E(i + 1)
               z == E(h)
    <2>4. x \in Nat /\ y \in Nat /\ z \in Nat /\ m \in Nat /\ y <= z /\ z <= place /\ x + m <= y
      BY <2>2, <2>3, <1>1, <1>3, <1>5, <1>6
    <2> HIDE DEF x, y, z, m
    <2>5. place >= x + m
      BY <2>4
    <2> QED
      BY <2>5 DEF x, m
  <1>9. CASE h < i
    <2>1. h + 1 \in 0..Len(s) /\ h \in 0..(Len(s) - 1) /\ i \in (h + 1)..Len(s) /\ h + 1 \in h..Len(s)
      BY <1>9, <1>1
    <2>2. E(h + 1) <= E(i) /\ E(h) <= E(h + 1)
      BY <2>1, <1>4
    <2>3. place <= E(h + 1)
      <3>1. CASE place = E(h)
        BY <3>1, <2>2
      <3>2. CASE h < Len(s) /\ \E g \in 1..Len(s[h + 1]) : place = Place(s, h, g)
        <4>1. PICK g \in 1..Len(s[h + 1]) : place = Place(s, h, g)
          BY <3>2
        <4> DEFINE q == Len(s[h + 1])
        <4>2. q \in Nat
          BY <2>1, PlaceFacts
        <4>3. q \in 0..q /\ g \in 0..q /\ q \in g..q
          BY <4>2
        <4>4. Place(s, h, g) <= Place(s, h, q) /\ Place(s, h, q) \in Nat
              /\ Place(s, h, q) + Len(Piece(s[h + 1], q)) = E(h + 1)
          BY <2>1, <4>3, PlaceFacts DEF E
        <4>5. Len(Piece(s[h + 1], q)) \in Nat
          BY <2>1, <4>3, PlaceFacts, PieceFacts
        <4> HIDE DEF q
        <4> QED
          BY <4>1, <4>4, <4>5, <1>3, <2>1, SMTT(40)
      <3> QED
        BY <1>7, <3>1, <3>2
    <2> DEFINE x == P(k)
               y == E(i)
               z == E(h + 1)
    <2>4. x \in Nat /\ y \in Nat /\ z \in Nat /\ z <= y /\ place <= z /\ y <= x /\ place > x
      BY <2>1, <2>2, <2>3, <1>1, <1>3, <1>6
    <2> HIDE DEF x, y, z
    <2> QED
      BY <2>4
  <1>10. CASE h = i
    <2>1. place # E(h)
      BY <1>10, <1>1, <1>3, <1>6
    <2>2. PICK g \in 1..n : place = P(g)
      BY <1>7, <1>10, <2>1
    <2>3. g > k
      <3>1. SUFFICES ASSUME g <= k PROVE FALSE
        BY <1>1
      <3>2. g \in 0..n /\ k \in g..n
        BY <3>1, <1>1
      <3>3. P(g) <= P(k) /\ P(g) \in Nat
        BY <3>2, <1>1
      <3> DEFINE x == P(k)
                 y == P(g)
      <3>4. x \in Nat /\ y \in Nat /\ y <= x /\ y > x
        BY <3>3, <2>2, <1>6
      <3> HIDE DEF x, y
      <3> QED
        BY <3>4
    <2>4. k \in 0..(n - 1) /\ k + 1 \in 0..n /\ g \in (k + 1)..n
      BY <2>3, <1>1
    <2>5. P(k + 1) = P(k) + m /\ P(k + 1) <= P(g)
      BY <2>4, <1>1
    <2> QED
      BY <2>2, <2>5
  <1> QED
    BY <1>1, <1>8, <1>9, <1>10

\* Sending one more request changes nothing of what was sent before.
LEMMA SentAppend ==
    ASSUME NEW s \in Seq(Requests), NEW r \in Requests
    PROVE  /\ All(Append(s, r)) = All(s) \o Encode(r)
           /\ \A i \in 0..Len(s) : EndOf(Enc(Append(s, r)), i) = EndOf(Enc(s), i)
           /\ \A place : EndsAt(s, place) => EndsAt(Append(s, r), place)
  <1> DEFINE a == Append(s, r)
  <1>1. /\ a \in Seq(Requests) /\ Len(a) = Len(s) + 1 /\ Len(s) \in Nat
        /\ (\A i \in 1..Len(s) : a[i] = s[i]) /\ a[Len(s) + 1] = r
    BY AppendProperties, LenProperties
  <1> HIDE DEF a
  <1>2. Encode(r) \in Seq(Char) /\ Enc(s) \in Seq(Seq(Char)) /\ Len(Enc(s)) = Len(s)
    BY EncodeFacts, SentFacts
  <1>3. Enc(a) = Append(Enc(s), Encode(r))
    <2> DEFINE u == Enc(a)
               v == Append(Enc(s), Encode(r))
    <2>1. u \in Seq(Seq(Char)) /\ Len(u) = Len(s) + 1
      BY <1>1, SentFacts
    <2>2. v \in Seq(Seq(Char)) /\ Len(v) = Len(s) + 1 /\ v[Len(s) + 1] = Encode(r)
          /\ \A i \in 1..Len(s) : v[i] = Enc(s)[i]
      BY <1>2, AppendProperties
    <2>3. \A i \in 1..(Len(s) + 1) : u[i] = Encode(a[i])
      BY <1>1, LenProperties DEF Enc
    <2>4. \A i \in 1..Len(s) : Enc(s)[i] = Encode(s[i])
      BY LenProperties DEF Enc
    <2>5. ASSUME NEW i \in 1..(Len(s) + 1) PROVE u[i] = v[i]
      <3>1. CASE i = Len(s) + 1
        BY <3>1, <1>1, <2>2, <2>3
      <3>2. CASE i # Len(s) + 1
        <4>1. i \in 1..Len(s)
          BY <3>2, <1>1
        <4> HIDE DEF u, v
        <4> QED
          BY <4>1, <1>1, <2>2, <2>3, <2>4
      <3> QED
        BY <3>1, <3>2
    <2> HIDE DEF u, v
    <2>6. u = v
      BY <2>1, <2>2, <2>5, SeqEqual
    <2> QED
      BY <2>6 DEF u, v
  <1>4. All(a) = All(s) \o Encode(r)
    BY <1>2, <1>3, FlattenAppend DEF All
  <1>5. \A i \in 0..Len(s) : EndOf(Enc(a), i) = EndOf(Enc(s), i)
    BY <1>2, <1>3, EndsAppend
  <1>6. ASSUME NEW place, EndsAt(s, place) PROVE EndsAt(a, place)
    <2>1. PICK i \in 0..Len(s) :
             \/ place = EndOf(Enc(s), i)
             \/ i < Len(s) /\ \E k \in 1..Len(s[i + 1]) : place = Place(s, i, k)
      BY <1>6 DEF EndsAt
    <2>2. i \in 0..Len(a) /\ EndOf(Enc(a), i) = EndOf(Enc(s), i)
      BY <1>1, <1>5
    <2>3. CASE place = EndOf(Enc(s), i)
      BY <2>2, <2>3 DEF EndsAt
    <2>4. CASE i < Len(s) /\ \E k \in 1..Len(s[i + 1]) : place = Place(s, i, k)
      <3>1. i < Len(a) /\ a[i + 1] = s[i + 1]
        BY <2>4, <1>1
      <3>2. \A k : Place(a, i, k) = Place(s, i, k)
        BY <2>2, <3>1 DEF Place
      <3>3. \E k \in 1..Len(a[i + 1]) : place = Place(a, i, k)
        BY <2>4, <3>1, <3>2
      <3> QED
        BY <2>2, <3>1, <3>3 DEF EndsAt
    <2> QED
      BY <2>1, <2>3, <2>4
  <1> QED
    BY <1>4, <1>5, <1>6 DEF a

-----------------------------------------------------------------------------
(***************************************************************************)
(* A turn of the parser                                                    *)
(***************************************************************************)
\* The left bytes are those of the piece w, as far as they go; when it has not
\* come completely, there are none or there is no newline behind them.
Window(w) ==
    /\ head \in Nat /\ left \in Nat /\ left < SizeMod
    /\ \A j \in 1..left : j <= Len(w) => Byte(mem, head + j - 1) = w[j]
    /\ left >= Len(w) \/ left = 0 \/ \A i \in Nat : i >= head + left => Byte(mem, i) # NL

\* The head of a record is found when its newline has come.
LEMMA HeadFound ==
    ASSUME NEW b \in Seq(Char), Len(b) \in DOMAIN Decimal, Window(Record(b))
    PROVE  /\ HasHead <=> left >= HeadLen(b) + 1
           /\ HasHead => /\ GoodHead /\ Body = head + HeadLen(b) + 1 /\ BodyLen = Len(b)
  <1> DEFINE w == Record(b)
             n == HeadLen(b)
             d == Decimal[Len(b)]
  <1>1. /\ Len(b) \in Nat /\ n \in 1..14 /\ Len(w) = n + Len(b) + 2
        /\ (\A j \in 1..n : w[j] = d[j] /\ w[j] \in Digit) /\ w[n + 1] = NL
    BY RecordFacts
  <1>2. head \in Nat /\ left \in Nat /\ \A j \in 1..left : j <= Len(w) => Byte(mem, head + j - 1) = w[j]
    BY DEF Window
  <1> HIDE DEF w, n
  <1>a. n \in 1..14 /\ head \in Nat /\ left \in Nat
    BY <1>1, <1>2
  <1>3. \A j \in 1..left : j <= n + 1 => Byte(mem, head + j - 1) = w[j]
    <2> SUFFICES ASSUME NEW j \in 1..left, j <= n + 1
                 PROVE  Byte(mem, head + j - 1) = w[j]
      OBVIOUS
    <2>1. Len(w) = n + Len(b) + 2 /\ Len(b) \in Nat /\ n \in Nat
      BY <1>1
    <2>2. j <= n + Len(b) + 2
      BY <1>2, <2>1
    <2>3. j <= Len(w)
      BY <2>1, <2>2
    <2> QED
      BY <1>2, <2>3
  <1>4. \A j \in 1..left : j <= n => Byte(mem, head + j - 1) \in Digit
    <2>1. \A j \in 1..left : j <= n => j <= n + 1 /\ j \in 1..n
      BY <1>a
    <2> QED
      BY <2>1, <1>1, <1>3
  <1>5. NL \notin Digit
    BY DEF NL, Digit
  <1>6. ASSUME NEW i \in Newlines PROVE i >= head + n
    <2>1. i \in head..(head + left - 1) /\ Byte(mem, i) = NL
      BY DEF Newlines
    <2>2. SUFFICES ASSUME i < head + n PROVE FALSE
      BY <1>a, <2>1
    <2>3. i - head + 1 \in 1..left /\ i - head + 1 <= n /\ head + (i - head + 1) - 1 = i
      BY <1>a, <2>1, <2>2
    <2>4. Byte(mem, head + (i - head + 1) - 1) \in Digit
      BY <1>4, <2>3
    <2>5. Byte(mem, i) \in Digit
      <3>1. head + (i - head + 1) - 1 = i
        BY <2>3
      <3> QED
        BY <2>4, <3>1
    <2> QED
      BY <1>5, <2>1, <2>5
  <1>7. CASE left >= n + 1
    <2>1. n + 1 \in 1..left /\ head + (n + 1) - 1 = head + n
      BY <1>a, <1>7
    <2>2. n + 1 <= n + 1
      BY <1>1
    <2>3. Byte(mem, head + (n + 1) - 1) = NL
      BY <1>1, <1>3, <2>1, <2>2
    <2>4. Byte(mem, head + n) = NL
      BY <2>1, <2>3
    <2>5. head + n \in head..(head + left - 1)
      BY <1>a, <1>7
    <2>6. head + n \in Newlines
      BY <2>4, <2>5 DEF Newlines
    <2>7. Newlines \subseteq Int
      BY <1>2 DEF Newlines
    <2>8. Min(Newlines) = head + n
      <3> DEFINE x == head + n
      <3>1. x \in Newlines /\ \A y \in Newlines : x <= y
        <4>1. \A y \in Newlines : y >= head + n => head + n <= y
          BY <1>a, <2>7
        <4> QED
          BY <2>6, <1>6, <4>1
      <3> HIDE DEF x
      <3>2. Min(Newlines) = x
        BY <2>7, <3>1, MinIs
      <3> QED
        BY <3>2 DEF x
    <2>9. HasHead
      BY <1>1, <1>7, <1>2, <2>6 DEF HasHead
    <2>10. Body = head + n + 1 /\ Body - head - 1 = n /\ Body - head = n + 1
      BY <1>1, <1>2, <2>8 DEF Body
    <2>11. Byte(mem, head) \in Digit
      <3>1. 1 \in 1..left /\ 1 <= n /\ head + 1 - 1 = head
        BY <1>a, <1>7
      <3>2. Byte(mem, head + 1 - 1) \in Digit
        BY <1>4, <3>1
      <3> QED
        BY <3>1, <3>2
    <2>12. Body - head <= MaxHead
      BY <2>10, <1>1 DEF MaxHead
    <2>13. Bytes(mem, head, n) = d
      <3>1. d \in Seq(Digit) /\ Len(d) = n
        BY DigitsFacts DEF n, HeadLen
      <3>2. d = [j \in 1..n |-> d[j]]
        <4> HIDE DEF d
        <4> QED
          BY <3>1, LenProperties
      <3>3. \A j \in 1..n : Byte(mem, head + j - 1) = d[j]
        <4>1. \A j \in 1..n : j \in 1..left /\ j <= n + 1
          BY <1>a, <1>7
        <4> QED
          BY <4>1, <1>1, <1>3
      <3> HIDE DEF d
      <3>4. Bytes(mem, head, n) = [j \in 1..n |-> d[j]]
        BY <3>3 DEF Bytes
      <3> QED
        BY <3>2, <3>4
    <2>14. BodyLen = Len(b)
      <3>1. Atoi(d) = Len(b)
        BY DigitsFacts
      <3>2. BodyLen = Atoi(Bytes(mem, head, n))
        BY <2>10 DEF BodyLen
      <3> QED
        BY <3>1, <3>2, <2>13
    <2>15. BodyLen >= 0
      BY <2>14
    <2> QED
      BY <1>7, <2>9, <2>10, <2>11, <2>12, <2>14, <2>15 DEF GoodHead, n
  <1>8. CASE ~(left >= n + 1)
    <2>1. Newlines = {}
      <3>1. SUFFICES ASSUME NEW i \in Newlines PROVE FALSE
        OBVIOUS
      <3>2. i >= head + n /\ i \in head..(head + left - 1)
        BY <1>6 DEF Newlines
      <3> QED
        BY <3>2, <1>a, <1>8
    <2> QED
      BY <2>1, <1>8 DEF HasHead, n
  <1> QED
    BY <1>7, <1>8

\* A record is parsed when it has come completely, and only then.
LEMMA RecordTurn ==
    ASSUME NEW b \in Seq(Char), Len(b) \in DOMAIN Decimal, Window(Record(b)), SizeMod \in Nat
    PROVE  /\ left >= Len(Record(b)) =>
                /\ GoodHead /\ Body = head + HeadLen(b) + 1 /\ BodyLen = Len(b)
                /\ Terminator <=> Len(b) = 0
                /\ Len(b) # 0 =>
                     /\ WholeRecord /\ After = left - HeadLen(b) - 1 - Len(b)
                     /\ Bytes(mem, Body, BodyLen) = b
           /\ left < Len(Record(b)) =>
                (HasHead => GoodHead) /\ ~Terminator /\ ~WholeRecord
  <1> DEFINE w == Record(b)
             n == HeadLen(b)
             m == Len(b)
  <1>1. /\ m \in Nat /\ n \in 1..14 /\ Len(w) = n + m + 2
        /\ (\A j \in 1..m : w[n + 1 + j] = b[j]) /\ w[n + 1] = NL /\ w[n + m + 2] = NL
    BY RecordFacts
  <1>2. /\ head \in Nat /\ left \in Nat /\ left < SizeMod
        /\ (\A j \in 1..left : j <= Len(w) => Byte(mem, head + j - 1) = w[j])
        /\ left >= Len(w) \/ left = 0 \/ \A i \in Nat : i >= head + left => Byte(mem, i) # NL
    BY DEF Window
  <1>3. /\ HasHead <=> left >= n + 1
        /\ HasHead => GoodHead /\ Body = head + n + 1 /\ BodyLen = m
    BY HeadFound
  <1>4. GoodHead => HasHead
    BY DEF GoodHead
  <1> HIDE DEF w, n, m
  <1>5. ASSUME left >= Len(w)
        PROVE  /\ GoodHead /\ Body = head + n + 1 /\ BodyLen = m
               /\ Terminator <=> m = 0
               /\ m # 0 => WholeRecord /\ After = left - n - 1 - m /\ Bytes(mem, Body, BodyLen) = b
    <2>1. left >= n + 1
      BY <1>1, <1>2, <1>5
    <2>2. HasHead /\ GoodHead /\ Body = head + n + 1 /\ BodyLen = m
      BY <2>1, <1>3
    <2>3. \A j \in 1..(n + m + 2) : Byte(mem, head + j - 1) = w[j]
      <3>1. \A j \in 1..(n + m + 2) : j \in 1..left /\ j <= n + m + 2
        BY <1>1, <1>2, <1>5
      <3> QED
        BY <3>1, <1>1, <1>2
    <2>4. CASE m = 0
      <3>1. n + m + 2 \in 1..(n + m + 2) /\ head + (n + m + 2) - 1 = head + n + 1
        BY <1>1, <1>2, <2>4
      <3>2. Byte(mem, head + (n + m + 2) - 1) = NL
        BY <3>1, <2>3, <1>1
      <3>3. Byte(mem, Body) = NL
        BY <3>1, <3>2, <2>2
      <3>4. Terminator
        BY <3>3, <2>2, <2>4 DEF Terminator
      <3> QED
        BY <3>4, <2>2, <2>4
    <2>5. CASE m # 0
      <3>1. ~Terminator
        BY <2>2, <2>5 DEF Terminator
      <3>2. left - (Body - head) - BodyLen = left - n - 1 - m
        BY <1>1, <1>2, <2>2
      <3>3. left - n - 1 - m \in 0..(SizeMod - 1) /\ left - n - 1 - m > 0
        BY <1>1, <1>2, <1>5
      <3>4. After = left - n - 1 - m
        <4> DEFINE x == left - n - 1 - m
        <4>1. After = x % SizeMod
          BY <3>2 DEF After
        <4>2. x \in 0..(SizeMod - 1)
          BY <3>3
        <4> HIDE DEF x
        <4>3. x % SizeMod = x
          BY <4>2
        <4> QED
          BY <4>1, <4>3 DEF x
      <3>5. n + m + 2 \in 1..(n + m + 2) /\ head + (n + m + 2) - 1 = head + n + 1 + m
        BY <1>1, <1>2
      <3>6. Byte(mem, head + (n + m + 2) - 1) = NL
        BY <3>5, <2>3, <1>1
      <3>7. Byte(mem, Body + BodyLen) = NL
        BY <3>5, <3>6, <2>2
      <3>8. WholeRecord
        BY <2>2, <3>1, <3>3, <3>4, <3>7 DEF WholeRecord
      <3>9. Bytes(mem, head + n + 1, m) = b
        <4>1. b = [j \in 1..m |-> b[j]]
          BY LenProperties DEF m
        <4>2. ASSUME NEW j \in 1..m PROVE Byte(mem, head + n + 1 + j - 1) = b[j]
          <5>1. n + 1 + j \in 1..(n + m + 2) /\ head + (n + 1 + j) - 1 = head + n + 1 + j - 1
            BY <1>1, <1>2
          <5>2. Byte(mem, head + (n + 1 + j) - 1) = w[n + 1 + j]
            BY <5>1, <2>3
          <5> QED
            BY <5>1, <5>2, <1>1
        <4>3. Bytes(mem, head + n + 1, m) = [j \in 1..m |-> b[j]]
          BY <4>2 DEF Bytes
        <4> QED
          BY <4>1, <4>3
      <3>10. Bytes(mem, Body, BodyLen) = b
        BY <3>9, <2>2
      <3> QED
        BY <2>2, <2>5, <3>1, <3>4, <3>8, <3>10
    <2> QED
      BY <2>4, <2>5
  <1>6. ASSUME ~(left >= Len(w))
        PROVE  (HasHead => GoodHead) /\ ~Terminator /\ ~WholeRecord
    <2>1. CASE ~HasHead
      BY <2>1, <1>4 DEF Terminator, WholeRecord
    <2>2. CASE HasHead
      <3>1. left >= n + 1 /\ GoodHead /\ Body = head + n + 1 /\ BodyLen = m
        BY <2>2, <1>3
      <3>2. left # 0
        BY <3>1, <1>1, <1>2
      <3>3. \A i \in Nat : i >= head + left => Byte(mem, i) # NL
        BY <3>2, <1>2, <1>6
      <3>4. Body \in Nat /\ Body + BodyLen \in Nat /\ Body + BodyLen >= head + left
        BY <3>1, <1>1, <1>2, <1>6
      <3>5. Byte(mem, Body + BodyLen) # NL
        BY <3>3, <3>4
      <3>6. ~Terminator
        <4>1. SUFFICES ASSUME BodyLen = 0 PROVE Byte(mem, Body) # NL
          BY DEF Terminator
        <4>2. Body + BodyLen = Body
          BY <3>4, <4>1
        <4> QED
          BY <3>5, <4>2
      <3>7. ~WholeRecord
        BY <3>5 DEF WholeRecord
      <3> QED
        BY <3>1, <3>6, <3>7
    <2> QED
      BY <2>1, <2>2
  <1>7. left < Len(w) => ~(left >= Len(w))
    BY <1>1, <1>2
  <1> QED
    BY <1>5, <1>6, <1>7 DEF w, n, m

\* A line that is no request is refused when it has come.
LEMMA LineTurn ==
    ASSUME Window(<<Other, NL>>)
    PROVE  /\ left >= 2 => HasHead
           /\ left < 2 => ~HasHead
           /\ ~GoodHead
  <1>1. /\ head \in Nat /\ left \in Nat
        /\ \A j \in 1..left : j <= 2 => Byte(mem, head + j - 1) = <<Other, NL>>[j]
    BY DEF Window
  <1>2. left >= 1 => Byte(mem, head) = Other
    <2>1. SUFFICES ASSUME left >= 1 PROVE Byte(mem, head) = Other
      OBVIOUS
    <2>2. 1 \in 1..left /\ head + 1 - 1 = head
      BY <1>1, <2>1
    <2>3. Byte(mem, head + 1 - 1) = <<Other, NL>>[1]
      BY <1>1, <2>2
    <2> QED
      BY <2>2, <2>3
  <1>3. Other # NL /\ Other \notin Digit
    BY DEF Other, NL, Digit
  <1>4. CASE left >= 2
    <2>1. 2 \in 1..left /\ head + 2 - 1 = head + 1
      BY <1>1, <1>4
    <2>2. Byte(mem, head + 2 - 1) = <<Other, NL>>[2]
      BY <1>1, <2>1
    <2>3. head + 1 \in head..(head + left - 1) /\ left > 0
      BY <1>1, <1>4
    <2>4. head + 1 \in Newlines
      BY <2>1, <2>2, <2>3 DEF Newlines
    <2> QED
      BY <2>3, <2>4, <1>2, <1>3, <1>4, <1>1 DEF HasHead, GoodHead
  <1>5. CASE left < 2
    <2>1. left = 0 \/ left = 1
      BY <1>1, <1>5
    <2>2. CASE left = 0
      BY <2>2 DEF HasHead, GoodHead
    <2>3. CASE left = 1
      <3>1. \A i \in head..(head + left - 1) : i = head
        BY <1>1, <2>3
      <3>2. Newlines = {}
        BY <3>1, <1>2, <1>3, <2>3 DEF Newlines
      <3> QED
        BY <3>2, <2>3 DEF HasHead, GoodHead
    <2> QED
      BY <2>1, <2>2, <2>3
  <1> QED
    BY <1>1, <1>4, <1>5

-----------------------------------------------------------------------------
(***************************************************************************)
(* The inductive invariant                                                 *)
(***************************************************************************)
\* How much was read, and parsed and left behind; where the request that
\* comes next begins
WasRead == Len(Sent) - Len(stream)
Before == WasRead - size
Start == EndOf(Encodings, Len(got))
Following == sent[Len(got) + 1]

Types ==
    /\ IsBuf(Buf) /\ Len(mem) > 0
    /\ stream \in Seq(Char) /\ sent \in Seq(Requests) /\ got \in Seq(Requests)
    /\ ready \in BOOLEAN /\ out \in BOOLEAN /\ open \in BOOLEAN /\ parsing \in BOOLEAN
    /\ head \in Nat /\ left \in Nat /\ recs \in Seq(Seq(Char))

\* The data and the stream are what was sent.
Data ==
    /\ Len(stream) <= Len(Sent) /\ size <= WasRead /\ Len(Sent) < SizeMod
    /\ \A j \in 1..size : mem[off + j] = Sent[Before + j]
    /\ \A j \in 1..Len(stream) : stream[j] = Sent[WasRead + j]

\* What was parsed is a beginning of what was sent. The newline at its end is
\* still in the buffer.
Progress ==
    /\ Len(got) <= Len(sent)
    /\ \A i \in 1..Len(got) : got[i] = sent[i] /\ got[i] # << >>
    /\ Start <= WasRead
    /\ Before = IF got = << >> THEN 0 ELSE Start - 1
    /\ out => got # << >>

\* When there may be something to parse, a record ends with the data, or no
\* newline lies behind it. While a response is written, the data is where it
\* need not be moved.
CutSafe ==
    open =>
        /\ ready \/ out => EndsRecord(WasRead) \/ Clear(Buf)
        /\ ready /\ out => off <= Len(mem) \div 2

\* The parser is behind the records it has, at the beginning of a piece.
ParseInv ==
    parsing =>
        /\ open /\ ready
        /\ head > off /\ head + left = off + size + 1
        /\ Len(got) = Len(sent) => recs = << >> /\ Before + (head - off - 1) = Start
        /\ Len(got) < Len(sent) =>
              /\ Len(recs) <= Len(Following) /\ recs = SubSeq(Following, 1, Len(recs))
              /\ Before + (head - off - 1) = Place(sent, Len(got), Len(recs))

\* A connection that waits has no complete request, and room for more.
Waiting ==
    open /\ ~ready /\ ~out =>
        /\ Len(got) < Len(sent) => WasRead < EndOf(Encodings, Len(got) + 1)
        /\ Room(Nice(Buf)) > 0

\* Why a connection was closed
Closed ==
    ~open => Len(got) < Len(sent) /\ (Following = << >> \/ (out /\ Room(Nice(Buf)) = 0))

Inv ==
    /\ Types
    /\ Data
    /\ Progress
    /\ CutSafe
    /\ ParseInv
    /\ Waiting
    /\ Closed

\* What the theorems assume: the reads that the parser handles, memory behind
\* the data that is no newline, and a value that lets the request be executed
Handled == ~AnyCut /\ Beyond # NL /\ NoReturn \subseteq Nat

-----------------------------------------------------------------------------
(***************************************************************************)
(* What the invariant says of the parser                                   *)
(***************************************************************************)
\* The numbers of the invariant
LEMMA Numbers ==
    ASSUME Types, Data, Progress
    PROVE  /\ off \in Nat /\ size \in Nat /\ Len(mem) \in Nat /\ off + size <= Len(mem)
           /\ mem \in Seq(Char) /\ DOMAIN mem = 1..Len(mem)
           /\ Len(sent) \in Nat /\ Len(got) \in Nat /\ Len(got) <= Len(sent)
           /\ Len(stream) \in Nat /\ Len(Sent) \in Nat /\ WasRead \in Nat /\ Before \in Nat
           /\ Start \in Nat /\ Start <= WasRead /\ WasRead <= Len(Sent)
           /\ WasRead = Before + size /\ Len(Sent) = WasRead + Len(stream)
           /\ Start = EndOf(Enc(sent), Len(got)) /\ Sent = All(sent)
           /\ Buf.mem = mem /\ Buf.off = off /\ Buf.size = size
           /\ SizeMod \in Nat /\ Beyond \in Char
  <1>1. Buf.mem = mem /\ Buf.off = off /\ Buf.size = size
    BY DEF Buf
  <1>2. mem \in Seq(Char) /\ off \in Nat /\ size \in Nat /\ off + size <= Len(mem)
    BY <1>1 DEF Types, IsBuf
  <1>3. Len(mem) \in Nat /\ DOMAIN mem = 1..Len(mem)
    BY <1>2, LenProperties
  <1>4. Len(sent) \in Nat /\ Len(got) \in Nat /\ Len(stream) \in Nat
    BY LenProperties DEF Types
  <1>5. Sent = All(sent) /\ Encodings = Enc(sent)
    BY SentIs
  <1>6. Len(All(sent)) \in Nat /\ \A i \in 0..Len(sent) : EndOf(Enc(sent), i) \in Nat
    BY SentFacts DEF Types
  <1>7. Len(got) <= Len(sent) /\ Start <= WasRead
    BY DEF Progress
  <1>8. Start \in Nat /\ Start = EndOf(Enc(sent), Len(got))
    <2>1. Len(got) \in 0..Len(sent)
      BY <1>4, <1>7
    <2> QED
      BY <2>1, <1>5, <1>6 DEF Start
  <1>9. WasRead \in Nat /\ Before \in Nat /\ WasRead <= Len(Sent)
        /\ WasRead = Before + size /\ Len(Sent) = WasRead + Len(stream) /\ Len(Sent) \in Nat
    <2>1. Len(Sent) \in Nat /\ Len(stream) <= Len(Sent) /\ size <= WasRead
      BY <1>5, <1>6 DEF Data
    <2> QED
      BY <2>1, <1>2, <1>4 DEF WasRead, Before
  <1> QED
    BY <1>1, <1>2, <1>3, <1>4, <1>5, <1>7, <1>8, <1>9, SizeAssumption, ByteAssumption

\* Where the parser is, and what it sees
LEMMA ParserSees ==
    ASSUME Inv, Handled, parsing, Len(got) < Len(sent)
    PROVE  /\ Len(got) \in 0..(Len(sent) - 1) /\ Following \in Requests
           /\ Len(recs) \in 0..Len(Following) /\ recs = SubSeq(Following, 1, Len(recs))
           /\ Place(sent, Len(got), Len(recs)) \in Nat
           /\ left = WasRead - Place(sent, Len(got), Len(recs))
           /\ Window(Piece(Following, Len(recs)))
  <1> DEFINE i == Len(got)
             k == Len(recs)
             w == Piece(Following, k)
             p == Place(sent, i, k)
  <1>1. /\ off \in Nat /\ size \in Nat /\ DOMAIN mem = 1..Len(mem) /\ Len(mem) \in Nat
        /\ off + size <= Len(mem)
        /\ Len(sent) \in Nat /\ i \in Nat /\ WasRead \in Nat /\ Before \in Nat
        /\ WasRead = Before + size /\ WasRead <= Len(Sent) /\ Len(Sent) \in Nat
        /\ SizeMod \in Nat /\ Sent = All(sent)
    BY Numbers DEF Inv
  <1>2. head \in Nat /\ left \in Nat /\ k \in Nat /\ sent \in Seq(Requests)
    BY LenProperties DEF Inv, Types
  <1>3. /\ head > off /\ head + left = off + size + 1 /\ open /\ ready
        /\ k <= Len(Following) /\ recs = SubSeq(Following, 1, k)
        /\ Before + (head - off - 1) = p
    BY DEF Inv, ParseInv
  <1>4. i \in 0..(Len(sent) - 1)
    BY <1>1
  <1>5. Following \in Requests /\ Len(Following) \in Nat
    BY <1>2, <1>4, PlaceFacts DEF Following
  <1>6. k \in 0..Len(Following)
    BY <1>2, <1>3, <1>5
  <1>7. p \in Nat
    BY <1>2, <1>4, <1>6, PlaceFacts DEF Following
  <1>8. Len(w) \in Nat
    BY <1>5, <1>6, PieceFacts
  <1> HIDE DEF p
  <1>9. left = WasRead - p /\ left <= size
    BY <1>1, <1>2, <1>3, <1>7
  <1>10. left < SizeMod
    BY <1>1, <1>2, <1>9 DEF Inv, Data
  <1> HIDE DEF k
  <1>11. ASSUME NEW j \in 1..left, j <= Len(w) PROVE Byte(mem, head + j - 1) = w[j]
    <2> DEFINE q == head - off + j - 1
    <2>1. q \in 1..size /\ off + q = head + j - 1 /\ Before + q = p + j
      BY <1>1, <1>2, <1>3, <1>7
    <2>2. mem[off + q] = Sent[Before + q]
      BY <2>1 DEF Inv, Data
    <2>3. head + j - 1 \in DOMAIN mem
      BY <1>1, <1>2, <2>1
    <2>4. j \in 1..Len(w)
      BY <1>8, <1>11
    <2> HIDE DEF q
    <2>5. All(sent)[p + j] = w[j]
      BY <1>2, <1>4, <1>6, <2>4, SentPiece DEF p, Following
    <2> QED
      BY <1>1, <2>1, <2>2, <2>3, <2>5 DEF Byte
  <1>12. left >= Len(w) \/ left = 0 \/ \A x \in Nat : x >= head + left => Byte(mem, x) # NL
    <2>1. EndsRecord(WasRead) \/ Clear(Buf)
      BY <1>3 DEF Inv, CutSafe
    <2>2. CASE EndsRecord(WasRead)
      <3>1. EndsAt(sent, WasRead)
        BY <2>2, SentIs
      <3>2. CASE left = 0
        BY <3>2
      <3>3. CASE left # 0
        <4>1. WasRead > p
          BY <3>3, <1>1, <1>2, <1>7, <1>9
        <4>2. WasRead >= p + Len(w)
          BY <3>1, <4>1, <1>1, <1>2, <1>4, <1>6, Boundary DEF p, Following
        <4> QED
          BY <4>2, <1>1, <1>7, <1>8, <1>9
      <3> QED
        BY <3>2, <3>3
    <2>3. CASE Clear(Buf)
      <3>1. ASSUME NEW x \in Nat, x >= head + left PROVE Byte(mem, x) # NL
        <4>1. CASE x \in DOMAIN mem
          <5>1. x \in (off + size + 1)..Len(mem)
            BY <4>1, <3>1, <1>1, <1>3
          <5>2. mem[x] # NL
            BY <5>1, <2>3 DEF Clear, Buf
          <5> QED
            BY <4>1, <5>2 DEF Byte
        <4>2. CASE x \notin DOMAIN mem
          BY <4>2 DEF Byte, Handled
        <4> QED
          BY <4>1, <4>2
      <3> QED
        BY <3>1
    <2> QED
      BY <2>1, <2>2, <2>3
  <1>13. Window(w)
    BY <1>2, <1>10, <1>11, <1>12 DEF Window
  <1> QED
    BY <1>3, <1>4, <1>5, <1>6, <1>7, <1>9, <1>13 DEF k, p

\* What is behind the requests parsed does not begin with a newline.
LEMMA FirstByte ==
    ASSUME Inv, Start < WasRead
    PROVE  Len(got) < Len(sent) /\ Sent[Start + 1] # NL
  <1>1. /\ Len(sent) \in Nat /\ Len(got) \in Nat /\ Len(got) <= Len(sent)
        /\ Start \in Nat /\ WasRead \in Nat /\ WasRead <= Len(Sent) /\ Len(Sent) \in Nat
        /\ Start = EndOf(Enc(sent), Len(got)) /\ Sent = All(sent) /\ sent \in Seq(Requests)
    BY Numbers DEF Inv, Types
  <1>2. Len(got) < Len(sent)
    <2>1. SUFFICES ASSUME Len(got) = Len(sent) PROVE FALSE
      BY <1>1
    <2>2. Start = Len(All(sent))
      BY <1>1, <2>1, SentFacts
    <2> QED
      BY <1>1, <2>2
  <1> DEFINE i == Len(got)
  <1>3. i \in 0..(Len(sent) - 1)
    BY <1>1, <1>2
  <1>4. sent[i + 1] \in Requests /\ Len(sent[i + 1]) \in Nat /\ Place(sent, i, 0) = Start
    BY <1>1, <1>3, PlaceFacts
  <1>5. 0 \in 0..Len(sent[i + 1])
    BY <1>4
  <1>6. Len(Piece(sent[i + 1], 0)) \in Nat /\ Len(Piece(sent[i + 1], 0)) >= 2 /\ Piece(sent[i + 1], 0)[1] # NL
    BY <1>4, <1>5, PieceFacts
  <1>7. 1 \in 1..Len(Piece(sent[i + 1], 0))
    BY <1>6
  <1>8. All(sent)[Place(sent, i, 0) + 1] = Piece(sent[i + 1], 0)[1]
    BY <1>1, <1>3, <1>5, <1>7, SentPiece
  <1> QED
    BY <1>1, <1>2, <1>4, <1>6, <1>8

\* Without another request there is nothing to parse.
LEMMA NothingToParse ==
    ASSUME Inv, parsing, Len(got) = Len(sent)
    PROVE  left = 0 /\ ~HasHead /\ ~GoodHead /\ ~Terminator /\ ~WholeRecord
  <1>1. /\ off \in Nat /\ size \in Nat /\ Start \in Nat /\ WasRead \in Nat /\ Before \in Nat
        /\ WasRead = Before + size /\ WasRead <= Len(Sent) /\ Len(Sent) \in Nat
        /\ Start = EndOf(Enc(sent), Len(got)) /\ Sent = All(sent) /\ sent \in Seq(Requests)
    BY Numbers DEF Inv, Types
  <1>2. Start = Len(Sent)
    BY <1>1, SentFacts
  <1>3. head > off /\ head + left = off + size + 1 /\ Before + (head - off - 1) = Start
        /\ head \in Nat /\ left \in Nat
    BY DEF Inv, ParseInv, Types
  <1>4. left = 0
    BY <1>1, <1>2, <1>3
  <1> QED
    BY <1>4 DEF HasHead, GoodHead, Terminator, WholeRecord

\* A record or the end of a request, when it has come; whatever is not complete
\* is left alone.
LEMMA Turns ==
    ASSUME Inv, Handled, parsing, Len(got) < Len(sent), Following # << >>,
           NEW b, b = NextBody(Following, Len(recs)), NEW w, w = Record(b)
    PROVE  /\ b \in Seq(Char) /\ Len(b) \in Nat /\ HeadLen(b) \in 1..14 /\ Len(w) = HeadLen(b) + Len(b) + 2
           /\ Len(b) = 0 <=> Len(recs) = Len(Following)
           /\ Len(recs) < Len(Following) => b = Following[Len(recs) + 1]
           /\ w = Piece(Following, Len(recs))
           /\ left >= Len(w) =>
                /\ GoodHead /\ Body = head + HeadLen(b) + 1 /\ BodyLen = Len(b)
                /\ Terminator <=> Len(b) = 0
                /\ Len(b) # 0 =>
                     /\ WholeRecord /\ After = left - HeadLen(b) - 1 - Len(b)
                     /\ Bytes(mem, Body, BodyLen) = b
           /\ left < Len(w) => (HasHead => GoodHead) /\ ~Terminator /\ ~WholeRecord
  <1>1. Following \in Requests /\ Len(recs) \in 0..Len(Following) /\ Window(Piece(Following, Len(recs)))
    BY ParserSees
  <1>2. /\ b \in Seq(Char) /\ Len(b) \in DOMAIN Decimal /\ Len(b) \in Nat
        /\ Len(b) = 0 <=> Len(recs) = Len(Following)
        /\ Len(recs) < Len(Following) => b = Following[Len(recs) + 1]
    BY <1>1, NextBodyFacts
  <1>3. w = Piece(Following, Len(recs))
    BY DEF Piece
  <1>4. SizeMod \in Nat
    BY SizeAssumption
  <1>5. HeadLen(b) \in 1..14 /\ Len(w) = HeadLen(b) + Len(b) + 2
    BY <1>2, RecordFacts
  <1>6. Window(Record(b))
    BY <1>1, <1>3
  <1>7. /\ left >= Len(Record(b)) =>
                /\ GoodHead /\ Body = head + HeadLen(b) + 1 /\ BodyLen = Len(b)
                /\ Terminator <=> Len(b) = 0
                /\ Len(b) # 0 =>
                     /\ WholeRecord /\ After = left - HeadLen(b) - 1 - Len(b)
                     /\ Bytes(mem, Body, BodyLen) = b
        /\ left < Len(Record(b)) => (HasHead => GoodHead) /\ ~Terminator /\ ~WholeRecord
    BY <1>2, <1>4, <1>6, RecordTurn
  <1> QED
    BY <1>2, <1>3, <1>5, <1>7

\* The same for a line that is no request
LEMMA LineTurns ==
    ASSUME Inv, Handled, parsing, Len(got) < Len(sent), Following = << >>
    PROVE  /\ recs = << >> /\ Piece(Following, Len(recs)) = <<Other, NL>>
           /\ left >= 2 => HasHead
           /\ left < 2 => ~HasHead
           /\ ~GoodHead /\ ~Terminator /\ ~WholeRecord
  <1>1. Len(recs) \in 0..Len(Following) /\ recs \in Seq(Seq(Char)) /\ Window(Piece(Following, Len(recs)))
    BY ParserSees DEF Inv, Types
  <1>2. Len(Following) = 0
    BY EmptySeq
  <1>3. recs = << >>
    BY <1>1, <1>2, EmptySeq
  <1>4. Piece(Following, Len(recs)) = <<Other, NL>>
    BY DEF Piece
  <1> QED
    BY <1>1, <1>3, <1>4, LineTurn DEF Terminator, WholeRecord

-----------------------------------------------------------------------------
(***************************************************************************)
(* The steps                                                               *)
(***************************************************************************)
LEMMA InitInv ==
    ASSUME Init, Handled
    PROVE  Inv
  <1> DEFINE m == [i \in 1..BufCap |-> Beyond]
  <1>1. BufCap \in Nat \ {0} /\ SizeMod \in Nat \ {0} /\ Beyond \in Char
    BY SizeAssumption, ByteAssumption
  <1>2. m \in Seq(Char) /\ Len(m) = BufCap
    BY <1>1
  <1> HIDE DEF m
  <1>3. mem = m /\ off = 0 /\ size = 0 /\ stream = << >> /\ sent = << >> /\ got = << >>
        /\ ready = FALSE /\ out = FALSE /\ open = TRUE
        /\ parsing = FALSE /\ head = 0 /\ left = 0 /\ recs = << >>
    BY DEF Init, m
  <1>4. IsBuf(Buf) /\ Buf.mem = m /\ Buf.off = 0 /\ Buf.size = 0
    BY <1>1, <1>2, <1>3 DEF IsBuf, Buf
  <1>5. Types
    <2>1. << >> \in Seq(Char) /\ << >> \in Seq(Requests) /\ << >> \in Seq(Seq(Char))
      BY EmptySeq
    <2>2. Len(mem) > 0 /\ head \in Nat /\ left \in Nat
      BY <1>1, <1>2, <1>3
    <2>3. ready \in BOOLEAN /\ out \in BOOLEAN /\ open \in BOOLEAN /\ parsing \in BOOLEAN
      BY <1>3
    <2>4. stream \in Seq(Char) /\ sent \in Seq(Requests) /\ got \in Seq(Requests) /\ recs \in Seq(Seq(Char))
      BY <1>3, <2>1
    <2> QED
      BY <1>4, <2>2, <2>3, <2>4 DEF Types
  <1>6. Len(sent) = 0 /\ Len(got) = 0 /\ Len(stream) = 0
    BY <1>3, EmptySeq
  <1>7. Sent = All(sent) /\ Encodings = Enc(sent)
    BY SentIs
  <1>8. Len(Sent) = 0 /\ EndOf(Encodings, 0) = 0
    <2>1. sent \in Seq(Requests)
      BY <1>5 DEF Types
    <2> QED
      BY <1>6, <1>7, <2>1, SentFacts
  <1>9. WasRead = 0 /\ Before = 0 /\ Start = 0
    <2>1. size = 0
      BY <1>3
    <2>2. WasRead = 0
      BY <1>6, <1>8 DEF WasRead
    <2> QED
      BY <1>6, <1>8, <2>1, <2>2 DEF Before, Start
  <1>10. Data
    BY <1>1, <1>3, <1>6, <1>8, <1>9 DEF Data
  <1>11. Progress
    BY <1>3, <1>6, <1>9 DEF Progress
  <1>12. CutSafe /\ ParseInv /\ Closed
    BY <1>3 DEF CutSafe, ParseInv, Closed
  <1>13. Room(Nice(Buf)) > 0
    <2>1. /\ IsBuf(Nice(Buf)) /\ Len(Nice(Buf).mem) = BufCap /\ Nice(Buf).off <= 0
          /\ Nice(Buf).size = 0 /\ Nice(Buf).off \in Nat
      BY <1>2, <1>4, NiceFacts DEF SameData, IsBuf
    <2> QED
      BY <1>1, <2>1 DEF Room
  <1>14. Waiting
    BY <1>6, <1>13 DEF Waiting
  <1> QED
    BY <1>5, <1>10, <1>11, <1>12, <1>14 DEF Inv

\* SentIs, after a step
LEMMA SentWillBe ==
    /\ Encodings' = Enc(sent') /\ Sent' = All(sent')
    /\ EndsRecord(WasRead)' <=> EndsAt(sent', WasRead')
  <1>1. Encodings' = Enc(sent') /\ Sent' = All(sent')
    BY DEF Encodings, Sent, Enc, All
  <1>2. EndsRecord(WasRead)' <=> EndsAt(sent', WasRead')
    BY <1>1 DEF EndsRecord, EndsAt, Place
  <1> QED
    BY <1>1, <1>2

\* A step that neither reads, sends nor completes a request, and leaves the
\* bytes alone
LEMMA Still ==
    ASSUME Inv, UNCHANGED <<mem, off, size, stream, sent, got>>
    PROVE  /\ Data' /\ Buf' = Buf /\ Sent' = Sent /\ Encodings' = Encodings
           /\ WasRead' = WasRead /\ Before' = Before /\ Start' = Start /\ Following' = Following
           /\ EndsRecord(WasRead)' <=> EndsRecord(WasRead)
           /\ Clear(Buf)' <=> Clear(Buf)
           /\ (out' => got # << >>) => Progress'
           /\ /\ ready' \in BOOLEAN /\ out' \in BOOLEAN /\ open' \in BOOLEAN /\ parsing' \in BOOLEAN
              /\ head' \in Nat /\ left' \in Nat /\ recs' \in Seq(Seq(Char))
              => Types'
  <1>1. Buf' = Buf /\ Sent' = Sent /\ Encodings' = Encodings
    BY DEF Buf, Sent, Encodings
  <1>2. WasRead' = WasRead
    BY <1>1 DEF WasRead
  <1>3. Before' = Before /\ Start' = Start /\ Following' = Following
    BY <1>1, <1>2 DEF Before, Start, Following
  <1>4. EndsRecord(WasRead)' <=> EndsRecord(WasRead)
    <2>1. EndsRecord(WasRead)' <=> EndsAt(sent, WasRead)
      BY <1>2, SentWillBe
    <2> QED
      BY <2>1, SentIs
  <1>5. Clear(Buf)' <=> Clear(Buf)
    BY <1>1 DEF Clear
  <1>6. Data'
    BY <1>1, <1>2, <1>3 DEF Inv, Data
  <1>7. (out' => got # << >>) => Progress'
    BY <1>1, <1>2, <1>3 DEF Inv, Progress
  <1>8. /\ ready' \in BOOLEAN /\ out' \in BOOLEAN /\ open' \in BOOLEAN /\ parsing' \in BOOLEAN
        /\ head' \in Nat /\ left' \in Nat /\ recs' \in Seq(Seq(Char))
        => Types'
    BY <1>1 DEF Inv, Types, IsBuf
  <1> QED
    BY <1>1, <1>2, <1>3, <1>4, <1>5, <1>6, <1>7, <1>8

LEMMA WrittenStep ==
    ASSUME Inv, Written
    PROVE  Inv'
  <1>1. /\ open /\ out /\ ~ready /\ out' = FALSE /\ ready' = (size # 0)
        /\ UNCHANGED <<mem, off, size, stream, sent, got>> /\ UNCHANGED <<open, parsing, head, left, recs>>
    BY DEF Written, parser
  <1>2. ~parsing
    BY <1>1 DEF Inv, ParseInv
  <1>3. /\ Before \in Nat /\ size \in Nat /\ Start \in Nat /\ WasRead \in Nat
        /\ WasRead = Before + size /\ Start <= WasRead
    BY Numbers DEF Inv
  <1>4. size # 0
    <2>1. Before = Start - 1
      BY <1>1 DEF Inv, Progress
    <2> QED
      BY <1>3, <2>1
  <1>5. Types'
    <2>1. /\ ready' \in BOOLEAN /\ out' \in BOOLEAN /\ open' \in BOOLEAN /\ parsing' \in BOOLEAN
          /\ head' \in Nat /\ left' \in Nat /\ recs' \in Seq(Seq(Char))
      BY <1>1 DEF Inv, Types
    <2> QED
      BY <1>1, <2>1, Still
  <1>6. Data' /\ Progress'
    BY <1>1, Still
  <1>7. CutSafe'
    <2>1. EndsRecord(WasRead) \/ Clear(Buf)
      BY <1>1 DEF Inv, CutSafe
    <2>2. EndsRecord(WasRead)' \/ Clear(Buf)'
      BY <1>1, <2>1, Still
    <2> QED
      BY <1>1, <2>2 DEF CutSafe
  <1>8. ParseInv' /\ Waiting' /\ Closed'
    BY <1>1, <1>2, <1>4 DEF ParseInv, Waiting, Closed
  <1> QED
    BY <1>5, <1>6, <1>7, <1>8 DEF Inv

LEMMA ReadFullStep ==
    ASSUME Inv, ReadFull
    PROVE  Inv'
  <1>1. /\ open /\ ~ready /\ Room(Nice(Buf)) = 0 /\ stream # << >> /\ open' = FALSE
        /\ UNCHANGED <<mem, off, size, stream, sent, got>> /\ UNCHANGED <<ready, out, parsing, head, left, recs>>
    BY DEF ReadFull, parser
  <1>2. ~parsing
    BY <1>1 DEF Inv, ParseInv
  <1>3. out
    BY <1>1 DEF Inv, Waiting
  <1>4. Start < Len(Sent) /\ Start < WasRead + Len(stream)
    <2>1. Len(stream) # 0
      BY <1>1, EmptySeq DEF Inv, Types
    <2> QED
      BY <2>1, Numbers, SMTT(40) DEF Inv
  <1>5. Len(got) < Len(sent)
    <2>1. SUFFICES ASSUME Len(got) = Len(sent) PROVE FALSE
      BY Numbers DEF Inv
    <2>2. Start = Len(Sent)
      BY <2>1, Numbers, SentFacts DEF Inv, Types
    <2> QED
      BY <1>4, <2>2, Numbers DEF Inv
  <1>6. Types'
    <2>1. /\ ready' \in BOOLEAN /\ out' \in BOOLEAN /\ open' \in BOOLEAN /\ parsing' \in BOOLEAN
          /\ head' \in Nat /\ left' \in Nat /\ recs' \in Seq(Seq(Char))
      BY <1>1 DEF Inv, Types
    <2> QED
      BY <1>1, <2>1, Still
  <1>7. Data' /\ Progress'
    <2>1. out' => got # << >>
      BY <1>1 DEF Inv, Progress
    <2> QED
      BY <1>1, <2>1, Still
  <1>8. CutSafe' /\ ParseInv' /\ Waiting'
    BY <1>1, <1>2 DEF CutSafe, ParseInv, Waiting
  <1>9. Closed'
    <2>1. Buf' = Buf
      BY <1>1, Still
    <2> QED
      BY <1>1, <1>3, <1>5, <2>1 DEF Closed
  <1> QED
    BY <1>6, <1>7, <1>8, <1>9 DEF Inv

\* Only a line that is no request is refused.
LEMMA RefusedIsNone ==
    ASSUME Inv, Handled, RequestRefused
    PROVE  Len(got) < Len(sent) /\ Following = << >>
  <1>1. parsing /\ ((HasHead /\ ~GoodHead) \/ (WholeRecord /\ Parsed > MaxPacket))
    BY DEF RequestRefused
  <1>2. Len(got) < Len(sent)
    <2>1. Len(got) # Len(sent)
      BY <1>1, NothingToParse
    <2> QED
      BY <2>1, Numbers DEF Inv
  <1>3. SUFFICES ASSUME Following # << >> PROVE FALSE
    BY <1>2
  <1> DEFINE b == NextBody(Following, Len(recs))
             w == Record(b)
             k == Len(recs)
             i == Len(got)
  <1>4. /\ Len(b) \in Nat /\ HeadLen(b) \in 1..14 /\ Len(w) = HeadLen(b) + Len(b) + 2
        /\ Len(b) = 0 <=> k = Len(Following)
        /\ w = Piece(Following, k)
        /\ left >= Len(w) =>
             GoodHead /\ Body = head + HeadLen(b) + 1 /\ BodyLen = Len(b) /\ (Terminator <=> Len(b) = 0)
        /\ left < Len(w) => (HasHead => GoodHead) /\ ~Terminator /\ ~WholeRecord
    BY <1>1, <1>2, <1>3, Turns
  <1> HIDE DEF b, w, k
  <1>5. left \in Nat /\ head \in Nat /\ MaxPacket \in Nat
    BY SizeAssumption DEF Inv, Types
  <1>6. left >= Len(w) /\ WholeRecord /\ Parsed > MaxPacket
    BY <1>1, <1>4, <1>5
  <1>7. Body = head + HeadLen(b) + 1 /\ BodyLen = Len(b) /\ ~Terminator
    BY <1>4, <1>6 DEF WholeRecord
  <1>8. Len(b) # 0 /\ GoodHead
    BY <1>4, <1>6, <1>7
  <1>9. /\ i \in 0..(Len(sent) - 1) /\ Following \in Requests /\ k \in 0..Len(Following)
        /\ Place(sent, i, k) \in Nat /\ sent \in Seq(Requests)
    BY <1>1, <1>2, ParserSees DEF k, Inv, Types
  <1>10. Len(Following) \in Nat /\ k \in 0..(Len(Following) - 1) /\ k + 1 \in 0..Len(Following)
         /\ Len(Following) \in (k + 1)..Len(Following)
    <2>1. Len(Following) \in Nat
      BY <1>9, RequestFacts
    <2> QED
      BY <2>1, <1>4, <1>8, <1>9
  <1> DEFINE p == Place(sent, i, k)
             e == Place(sent, i, Len(Following))
             z == Len(Piece(Following, Len(Following)))
  <1>11. /\ Place(sent, i, k + 1) = p + Len(w) /\ Place(sent, i, k + 1) <= e
         /\ e + z = EndOf(Enc(sent), i + 1) /\ EndOf(Enc(sent), i + 1) = Start + Len(Encode(Following))
         /\ e \in Nat
    <2>1. /\ Place(sent, i, k + 1) = p + Len(w) /\ Place(sent, i, k + 1) <= e
          /\ e + z = EndOf(Enc(sent), i + 1) /\ e \in Nat
      <3>1. Len(Following) \in 0..Len(Following)
        BY <1>10
      <3> QED
        BY <1>4, <1>9, <1>10, <3>1, PlaceFacts DEF Following
    <2>2. EndOf(Enc(sent), i + 1) = EndOf(Enc(sent), i) + Len(Encode(Following))
      BY <1>9, SentFacts DEF Following
    <2>3. Start = EndOf(Enc(sent), i)
      BY SentIs DEF Start
    <2> QED
      BY <2>1, <2>2, <2>3
  <1>12. z \in Nat /\ z >= 2 /\ Len(Encode(Following)) \in Nat /\ Len(Encode(Following)) <= MaxPacket
    <2>1. Len(Following) \in 0..Len(Following)
      BY <1>10
    <2> QED
      BY <2>1, <1>9, PieceFacts, EncodeFacts, RequestFacts
  <1>13. /\ Before + (head - off - 1) = p /\ head > off
         /\ Before = (IF got = << >> THEN 0 ELSE Start - 1)
    BY <1>1, <1>2 DEF Inv, ParseInv, Progress, k
  <1>14. Parsed = head - off + HeadLen(b) + 1 + Len(b)
    <2>1. off \in Nat
      BY Numbers DEF Inv
    <2> DEFINE h == HeadLen(b)
               c == Len(b)
    <2>2. h \in Nat /\ c \in Nat
      BY <1>4
    <2>3. Body = head + h + 1 /\ BodyLen = c /\ head \in Nat
      BY <1>5, <1>7
    <2> HIDE DEF h, c
    <2>4. Parsed = head - off + h + 1 + c
      BY <2>1, <2>2, <2>3 DEF Parsed
    <2> QED
      BY <2>4 DEF h, c
  <1>15. Start \in Nat /\ Before \in Nat /\ off \in Nat /\ (Before = Start \/ Before = Start - 1)
    <2>1. got = << >> => Start = 0
      <3>1. got = << >> => Len(got) = 0
        BY EmptySeq
      <3>2. Start = EndOf(Enc(sent), Len(got)) /\ EndOf(Enc(sent), 0) = 0
        BY Numbers, SentFacts DEF Inv, Types
      <3> QED
        BY <3>1, <3>2
    <2> QED
      BY <2>1, <1>13, Numbers DEF Inv
  <1>16. p \in Nat /\ p + Len(w) <= e
    BY <1>9, <1>11
  <1>17. Parsed = p - Before + Len(w)
    <2> DEFINE l == Len(w)
               h == HeadLen(b)
               c == Len(b)
    <2>1. Before + (head - off - 1) = p /\ Parsed = head - off + h + 1 + c /\ l = h + c + 2
      BY <1>4, <1>13, <1>14
    <2>2. h \in Nat /\ c \in Nat
      BY <1>4
    <2>3. p \in Nat /\ Before \in Nat /\ off \in Nat /\ head \in Nat
      BY <1>5, <1>15, <1>16
    <2> HIDE DEF p, l, h, c
    <2>4. Parsed = p - Before + l
      BY <2>1, <2>2, <2>3
    <2> QED
      BY <2>4 DEF l
  <1> DEFINE n == Len(Encode(Following))
             t == Len(w)
  <1>18. t \in Nat /\ n \in Nat /\ e + z = Start + n
    BY <1>4, <1>11, <1>12
  <1> HIDE DEF p, e, z, n, t
  <1>19. Parsed <= n
    BY <1>11, <1>12, <1>15, <1>16, <1>17, <1>18 DEF t
  <1>20. Parsed \in Int /\ n <= MaxPacket
    BY <1>12, <1>15, <1>16, <1>17, <1>18 DEF n, t
  <1> QED
    BY <1>5, <1>6, <1>18, <1>19, <1>20

LEMMA RequestRefusedStep ==
    ASSUME Inv, Handled, RequestRefused
    PROVE  Inv'
  <1>1. /\ open' = FALSE /\ ready' = FALSE /\ parsing' = FALSE /\ head' = 0 /\ left' = 0 /\ recs' = << >>
        /\ UNCHANGED <<mem, off, size, stream, sent, got>> /\ UNCHANGED out
    BY DEF RequestRefused, Return
  <1>2. Types'
    <2>1. /\ ready' \in BOOLEAN /\ out' \in BOOLEAN /\ open' \in BOOLEAN /\ parsing' \in BOOLEAN
          /\ head' \in Nat /\ left' \in Nat /\ recs' \in Seq(Seq(Char))
      BY <1>1, EmptySeq DEF Inv, Types
    <2> QED
      BY <1>1, <2>1, Still
  <1>3. Data' /\ Progress'
    <2>1. out' => got # << >>
      BY <1>1 DEF Inv, Progress
    <2> QED
      BY <1>1, <2>1, Still
  <1>4. CutSafe' /\ ParseInv' /\ Waiting'
    BY <1>1 DEF CutSafe, ParseInv, Waiting
  <1>5. Closed'
    <2>1. Following' = Following
      BY <1>1, Still
    <2> QED
      BY <1>1, <2>1, RefusedIsNone DEF Closed
  <1> QED
    BY <1>2, <1>3, <1>4, <1>5 DEF Inv

\* The newline that the last request left is skipped, and nothing else.
LEMMA LeadingIs ==
    ASSUME Inv
    PROVE  Leading(Buf) = IF got = << >> THEN 0 ELSE 1
  <1> DEFINE T == {n \in 0..size : \A i \in 1..n : Byte(mem, off + i) = NL}
  <1>1. Leading(Buf) = Max(T)
    BY Numbers DEF Inv, Leading
  <1>2. /\ off \in Nat /\ size \in Nat /\ Len(mem) \in Nat /\ off + size <= Len(mem)
        /\ DOMAIN mem = 1..Len(mem)
        /\ Start \in Nat /\ WasRead \in Nat /\ Before \in Nat /\ Start <= WasRead /\ WasRead = Before + size
    BY Numbers DEF Inv
  <1>3. \A j \in 1..size : Byte(mem, off + j) = Sent[Before + j]
    <2>1. \A j \in 1..size : off + j \in DOMAIN mem
      BY <1>2
    <2> QED
      BY <2>1 DEF Inv, Data, Byte
  <1>4. T \subseteq Int
    OBVIOUS
  <1>5. CASE got = << >>
    <2>1. Before = 0 /\ Start = 0
      <3>1. Len(got) = 0
        BY <1>5, EmptySeq
      <3>2. Start = EndOf(Enc(sent), Len(got)) /\ EndOf(Enc(sent), 0) = 0
        BY Numbers, SentFacts DEF Inv, Types
      <3>3. Before = 0
        BY <1>5 DEF Inv, Progress
      <3> QED
        BY <3>1, <3>2, <3>3
    <2>2. 0 \in T
      BY <1>2
    <2>3. ASSUME NEW n \in T PROVE n <= 0
      <3>1. n \in 0..size /\ \A i \in 1..n : Byte(mem, off + i) = NL
        OBVIOUS
      <3>2. SUFFICES ASSUME n >= 1 PROVE FALSE
        BY <3>1
      <3>3. 1 \in 1..n /\ 1 \in 1..size /\ Start < WasRead /\ Before + 1 = Start + 1
        BY <1>2, <2>1, <3>1, <3>2
      <3>4. Byte(mem, off + 1) = NL
        BY <3>1, <3>3
      <3>5. Byte(mem, off + 1) = Sent[Start + 1]
        BY <1>3, <3>3
      <3>6. Sent[Start + 1] # NL
        BY <3>3, FirstByte
      <3> QED
        BY <3>4, <3>5, <3>6
    <2> HIDE DEF T
    <2>4. Max(T) = 0
      BY <1>4, <2>2, <2>3, MaxIs
    <2> QED
      BY <1>1, <1>5, <2>4
  <1>6. CASE got # << >>
    <2>1. Before = Start - 1
      BY <1>6 DEF Inv, Progress
    <2>2. size >= 1 /\ Before + 1 = Start /\ 1 \in 1..size
      BY <1>2, <2>1
    <2>3. Byte(mem, off + 1) = NL
      <3>1. Len(got) \in 1..Len(sent)
        <4>1. Len(got) # 0
          BY <1>6, EmptySeq DEF Inv, Types
        <4> QED
          BY <4>1, Numbers DEF Inv
      <3>2. All(sent)[EndOf(Enc(sent), Len(got))] = NL
        BY <3>1, LastByte DEF Inv, Types
      <3>3. Sent[Before + 1] = NL
        BY <2>2, <3>2, Numbers DEF Inv
      <3> QED
        BY <1>3, <2>2, <3>3
    <2>4. 1 \in T
      <3>1. 1 \in 0..size /\ \A i \in 1..1 : i = 1
        BY <1>2, <2>2
      <3> QED
        BY <2>3, <3>1
    <2>5. ASSUME NEW n \in T PROVE n <= 1
      <3>1. n \in 0..size /\ \A i \in 1..n : Byte(mem, off + i) = NL
        OBVIOUS
      <3>2. SUFFICES ASSUME n >= 2 PROVE FALSE
        BY <3>1
      <3>3. 2 \in 1..n /\ 2 \in 1..size /\ Start < WasRead /\ Before + 2 = Start + 1
        BY <1>2, <2>2, <3>1, <3>2
      <3>4. Byte(mem, off + 2) = NL
        BY <3>1, <3>3
      <3>5. Byte(mem, off + 2) = Sent[Start + 1]
        BY <1>3, <3>3
      <3>6. Sent[Start + 1] # NL
        BY <3>3, FirstByte
      <3> QED
        BY <3>4, <3>5, <3>6
    <2> HIDE DEF T
    <2>6. Max(T) = 1
      BY <1>4, <2>4, <2>5, MaxIs
    <2> QED
      BY <1>1, <1>6, <2>6
  <1> QED
    BY <1>5, <1>6

LEMMA RecvStep ==
    ASSUME Inv, Recv
    PROVE  Inv'
  <1> DEFINE l == Leading(Buf)
  <1>1. /\ open /\ ready /\ ~parsing /\ parsing' = TRUE
        /\ head' = off + l + 1 /\ left' = size - l /\ recs' = << >>
        /\ UNCHANGED <<mem, off, size, stream, sent, got>> /\ UNCHANGED <<ready, out, open>>
    BY DEF Recv, conn
  <1>2. l = IF got = << >> THEN 0 ELSE 1
    BY LeadingIs
  <1> HIDE DEF l
  <1>3. /\ off \in Nat /\ size \in Nat /\ Start \in Nat /\ WasRead \in Nat /\ Before \in Nat
        /\ Start <= WasRead /\ WasRead = Before + size /\ Len(got) \in Nat /\ Len(sent) \in Nat
    BY Numbers DEF Inv
  <1>4. l \in Nat /\ Before + l = Start
    <2>1. CASE got = << >>
      <3>1. Before = 0 /\ l = 0 /\ Len(got) = 0
        BY <1>2, <2>1, EmptySeq DEF Inv, Progress
      <3>2. Start = EndOf(Enc(sent), Len(got)) /\ EndOf(Enc(sent), 0) = 0
        BY Numbers, SentFacts DEF Inv, Types
      <3> QED
        BY <3>1, <3>2
    <2>2. CASE got # << >>
      <3>1. Before = Start - 1 /\ l = 1
        BY <1>2, <2>2 DEF Inv, Progress
      <3> QED
        BY <1>3, <3>1
    <2> QED
      BY <2>1, <2>2
  <1>5. l <= size /\ left' \in Nat /\ head' \in Nat /\ head' > off /\ head' + left' = off + size + 1
        /\ Before + (head' - off - 1) = Start
    BY <1>1, <1>3, <1>4
  <1>6. Types'
    <2>1. /\ ready' \in BOOLEAN /\ out' \in BOOLEAN /\ open' \in BOOLEAN /\ parsing' \in BOOLEAN
      BY <1>1 DEF Inv, Types
    <2>2. recs' \in Seq(Seq(Char))
      BY <1>1, EmptySeq
    <2> QED
      BY <1>1, <1>5, <2>1, <2>2, Still
  <1>7. Data' /\ Progress'
    <2>1. out' => got # << >>
      BY <1>1 DEF Inv, Progress
    <2> QED
      BY <1>1, <2>1, Still
  <1>8. CutSafe'
    <2>1. EndsRecord(WasRead) \/ Clear(Buf)
      BY <1>1 DEF Inv, CutSafe
    <2>2. EndsRecord(WasRead)' \/ Clear(Buf)'
      BY <1>1, <2>1, Still
    <2>3. out => off <= Len(mem) \div 2
      BY <1>1 DEF Inv, CutSafe
    <2> QED
      BY <1>1, <2>2, <2>3 DEF CutSafe
  <1>9. ParseInv'
    <2>1. Before' = Before /\ Start' = Start /\ Following' = Following
      BY <1>1, Still
    <2>2. open' /\ ready' /\ head' > off' /\ head' + left' = off' + size' + 1
      BY <1>1, <1>5
    <2>3. recs' = << >> /\ Before' + (head' - off' - 1) = Start'
      BY <1>1, <1>5, <2>1
    <2>4. ASSUME Len(got) < Len(sent)
          PROVE  /\ Len(recs') <= Len(Following) /\ recs' = SubSeq(Following, 1, Len(recs'))
                 /\ Before' + (head' - off' - 1) = Place(sent, Len(got), Len(recs'))
      <3>1. Len(recs') = 0 /\ recs' = << >>
        BY <1>1, EmptySeq
      <3>2. Len(got) \in 0..(Len(sent) - 1)
        BY <1>3, <2>4
      <3>3. Len(Following) \in Nat /\ Place(sent, Len(got), 0) = EndOf(Enc(sent), Len(got))
        BY <3>2, PlaceFacts DEF Following, Inv, Types
      <3>4. Start = EndOf(Enc(sent), Len(got))
        BY Numbers DEF Inv
      <3>5. SubSeq(Following, 1, 0) = << >>
        BY SubSeqEmpty
      <3> QED
        BY <2>3, <2>1, <3>1, <3>3, <3>4, <3>5
    <2>5. Len(got') < Len(sent') =>
              /\ Len(recs') <= Len(Following') /\ recs' = SubSeq(Following', 1, Len(recs'))
              /\ Before' + (head' - off' - 1) = Place(sent', Len(got'), Len(recs'))
      BY <1>1, <2>1, <2>4
    <2> QED
      BY <2>2, <2>3, <2>5 DEF ParseInv
  <1>10. Waiting' /\ Closed'
    BY <1>1 DEF Waiting, Closed
  <1> QED
    BY <1>6, <1>7, <1>8, <1>9, <1>10 DEF Inv

LEMMA RecordParsedStep ==
    ASSUME Inv, Handled, RecordParsed
    PROVE  Inv'
  <1> DEFINE b == NextBody(Following, Len(recs))
             w == Record(b)
             k == Len(recs)
             i == Len(got)
             n == HeadLen(b)
             m == Len(b)
  <1>1. /\ parsing /\ WholeRecord
        /\ head' = Body + BodyLen + 1 /\ left' = After - 1 /\ recs' = Append(recs, Bytes(mem, Body, BodyLen))
        /\ UNCHANGED <<mem, off, size, stream, sent, got>> /\ UNCHANGED <<ready, out, open, parsing>>
    BY DEF RecordParsed, conn
  <1>2. i < Len(sent)
    <2>1. i # Len(sent)
      BY <1>1, NothingToParse
    <2> QED
      BY <2>1, Numbers DEF Inv
  <1>3. Following # << >>
    BY <1>1, <1>2, LineTurns
  <1>4. /\ b \in Seq(Char) /\ m \in Nat /\ n \in 1..14 /\ Len(w) = n + m + 2
        /\ m = 0 <=> k = Len(Following)
        /\ k < Len(Following) => b = Following[k + 1]
        /\ w = Piece(Following, k)
        /\ left >= Len(w) =>
             /\ GoodHead /\ Body = head + n + 1 /\ BodyLen = m
             /\ Terminator <=> m = 0
             /\ m # 0 => /\ WholeRecord /\ After = left - n - 1 - m
                         /\ Bytes(mem, Body, BodyLen) = b
        /\ left < Len(w) => (HasHead => GoodHead) /\ ~Terminator /\ ~WholeRecord
    BY <1>1, <1>2, <1>3, Turns
  <1> HIDE DEF b, w, k, n, m
  <1>5. left \in Nat /\ head \in Nat /\ ~Terminator
    BY <1>1 DEF Inv, Types, WholeRecord
  <1>6. left >= Len(w)
    BY <1>1, <1>4, <1>5
  <1>7. m # 0
    BY <1>4, <1>5, <1>6
  <1>8. Body = head + n + 1 /\ BodyLen = m /\ After = left - n - 1 - m /\ Bytes(mem, Body, BodyLen) = b
    BY <1>4, <1>6, <1>7
  <1>9. /\ i \in 0..(Len(sent) - 1) /\ Following \in Requests /\ k \in 0..Len(Following)
        /\ recs = SubSeq(Following, 1, k) /\ sent \in Seq(Requests)
    BY <1>1, <1>2, ParserSees DEF k, Inv, Types
  <1>10. Following \in Seq(Seq(Char)) /\ Len(Following) \in Nat
    BY <1>9, RequestFacts
  <1>11. k \in 0..(Len(Following) - 1) /\ k + 1 <= Len(Following) /\ b = Following[k + 1]
    BY <1>4, <1>7, <1>9, <1>10
  <1>12. recs' = SubSeq(Following, 1, k + 1) /\ recs' \in Seq(Seq(Char)) /\ Len(recs') = k + 1
    <2>1. SubSeq(Following, 1, k + 1) = Append(SubSeq(Following, 1, k), Following[k + 1])
      BY <1>10, <1>11, Beginnings
    <2>2. recs' = SubSeq(Following, 1, k + 1)
      BY <1>1, <1>8, <1>9, <1>11, <2>1
    <2>3. recs \in Seq(Seq(Char)) /\ recs' = Append(recs, b) /\ b \in Seq(Char) /\ Len(recs) = k
      BY <1>1, <1>4, <1>8 DEF Inv, Types, k
    <2> DEFINE T == Seq(Char)
    <2> HIDE DEF T
    <2>4. Append(recs, b) \in Seq(T) /\ Len(Append(recs, b)) = k + 1
      <3>1. recs \in Seq(T) /\ b \in T
        BY <2>3 DEF T
      <3>2. Append(recs, b) \in Seq(T) /\ Len(Append(recs, b)) = Len(recs) + 1
        BY <3>1, AppendProperties
      <3> QED
        BY <2>3, <3>2
    <2> QED
      BY <2>2, <2>3, <2>4 DEF T
  <1>13. /\ off \in Nat /\ size \in Nat /\ Before \in Nat
         /\ open /\ ready /\ head > off /\ head + left = off + size + 1
         /\ Before + (head - off - 1) = Place(sent, i, k)
    BY <1>1, <1>2, Numbers DEF Inv, ParseInv, k
  <1>14. Place(sent, i, k + 1) = Place(sent, i, k) + Len(w)
    BY <1>4, <1>9, <1>11, PlaceFacts DEF Following
  <1>15. /\ left' \in Nat /\ head' \in Nat /\ head' > off /\ head' + left' = off + size + 1
         /\ Before + (head' - off - 1) = Place(sent, i, k + 1)
    <2> DEFINE l == Len(w)
               P == Place(sent, i, k)
               Q == Place(sent, i, k + 1)
    <2>1. n \in Nat
      BY <1>4
    <2>2. m \in Nat /\ l = n + m + 2 /\ left >= l /\ Q = P + l
      BY <1>4, <1>6, <1>14
    <2>3. head' = Body + BodyLen + 1 /\ left' = After - 1
      BY <1>1
    <2>4. head' = (head + n + 1) + m + 1 /\ left' = (left - n - 1 - m) - 1
      BY <1>8, <2>3
    <2>5. head > off /\ head + left = off + size + 1 /\ Before + (head - off - 1) = P
      BY <1>13
    <2>6. left \in Nat /\ head \in Nat /\ off \in Nat /\ size \in Nat /\ Before \in Nat
      BY <1>5, <1>13
    <2> HIDE DEF l, P, Q
    <2>7. left' \in Nat /\ head' \in Nat /\ head' > off /\ head' + left' = off + size + 1
      BY <2>1, <2>2, <2>4, <2>5, <2>6
    <2>8. Before + (head' - off - 1) = Q
      BY <2>1, <2>2, <2>4, <2>5, <2>6
    <2> QED
      BY <2>7, <2>8 DEF Q
  <1>17. Types'
    <2>1. /\ ready' \in BOOLEAN /\ out' \in BOOLEAN /\ open' \in BOOLEAN /\ parsing' \in BOOLEAN
      BY <1>1 DEF Inv, Types
    <2> QED
      BY <1>1, <1>12, <1>15, <2>1, Still
  <1>18. Data' /\ Progress'
    <2>1. out' => got # << >>
      BY <1>1 DEF Inv, Progress
    <2> QED
      BY <1>1, <2>1, Still
  <1>19. CutSafe'
    <2>1. EndsRecord(WasRead) \/ Clear(Buf)
      BY <1>13 DEF Inv, CutSafe
    <2>2. EndsRecord(WasRead)' \/ Clear(Buf)'
      BY <1>1, <2>1, Still
    <2>3. out => off <= Len(mem) \div 2
      BY <1>13 DEF Inv, CutSafe
    <2> QED
      BY <1>1, <2>2, <2>3 DEF CutSafe
  <1>20. ParseInv'
    <2>1. Before' = Before /\ Following' = Following
      BY <1>1, Still
    <2>2. open' /\ ready' /\ head' > off' /\ head' + left' = off' + size' + 1
      BY <1>1, <1>13, <1>15
    <2>3. /\ Len(recs') <= Len(Following') /\ recs' = SubSeq(Following', 1, Len(recs'))
          /\ Before' + (head' - off' - 1) = Place(sent', Len(got'), Len(recs'))
      BY <1>1, <1>11, <1>12, <1>15, <2>1
    <2>4. Len(got') # Len(sent')
      BY <1>1, <1>2, Numbers DEF Inv
    <2> QED
      BY <2>2, <2>3, <2>4 DEF ParseInv
  <1>21. Waiting' /\ Closed'
    BY <1>1, <1>13 DEF Waiting, Closed
  <1> QED
    BY <1>17, <1>18, <1>19, <1>20, <1>21 DEF Inv

\* What the client sends changes nothing of what was sent before.
LEMMA SendKeeps ==
    ASSUME Inv, NEW r \in Requests, Send(r)
    PROVE  /\ UNCHANGED <<mem, off, size, got>> /\ UNCHANGED <<ready, out, open, parsing, head, left, recs>>
           /\ Buf' = Buf /\ WasRead' = WasRead /\ Before' = Before /\ Start' = Start
           /\ sent' \in Seq(Requests) /\ Len(sent') = Len(sent) + 1
           /\ \A i \in 1..Len(sent) : sent'[i] = sent[i]
           /\ Encode(r) \in Seq(Char) /\ Len(Encode(r)) \in Nat
           /\ Sent' = Sent \o Encode(r) /\ stream' = stream \o Encode(r)
           /\ Len(Sent') = Len(Sent) + Len(Encode(r)) /\ Len(stream') = Len(stream) + Len(Encode(r))
           /\ Len(Sent') < SizeMod
           /\ \A i \in 0..Len(sent) : EndOf(Enc(sent'), i) = EndOf(Enc(sent), i)
           /\ EndsRecord(WasRead) => EndsRecord(WasRead)'
  <1>1. /\ sent' = Append(sent, r) /\ stream' = stream \o Encode(r) /\ Len(Sent) + Len(Encode(r)) < SizeMod
        /\ UNCHANGED <<mem, off, size, got>> /\ UNCHANGED <<ready, out, open, parsing, head, left, recs>>
    BY DEF Send, conn, parser
  <1>2. sent \in Seq(Requests) /\ stream \in Seq(Char)
    BY DEF Inv, Types
  <1>3. sent' \in Seq(Requests) /\ Len(sent') = Len(sent) + 1 /\ \A i \in 1..Len(sent) : sent'[i] = sent[i]
    BY <1>1, <1>2, AppendProperties
  <1>4. Encode(r) \in Seq(Char) /\ Len(Encode(r)) \in Nat
    BY EncodeFacts
  <1>5. Sent' = Sent \o Encode(r)
    BY <1>1, <1>2, SentAppend, SentIs, SentWillBe
  <1>6. Sent \in Seq(Char)
    BY <1>2, SentFacts, SentIs
  <1>7. Len(Sent') = Len(Sent) + Len(Encode(r)) /\ Len(stream') = Len(stream) + Len(Encode(r))
    BY <1>1, <1>2, <1>4, <1>5, <1>6, ConcatProperties
  <1>8. WasRead' = WasRead
    <2>1. Len(Sent) \in Nat /\ Len(stream) \in Nat
      BY <1>2, <1>6, LenProperties
    <2>2. WasRead' = Len(Sent') - Len(stream')
      BY DEF WasRead
    <2> DEFINE n == Len(Encode(r))
    <2>3. n \in Nat /\ Len(Sent') = Len(Sent) + n /\ Len(stream') = Len(stream) + n
      BY <1>4, <1>7
    <2> HIDE DEF n
    <2> QED
      BY <2>1, <2>2, <2>3 DEF WasRead
  <1>9. Before' = Before /\ Buf' = Buf
    BY <1>1, <1>8 DEF Before, Buf
  <1>10. \A i \in 0..Len(sent) : EndOf(Enc(sent'), i) = EndOf(Enc(sent), i)
    BY <1>1, <1>2, SentAppend
  <1>11. Start' = Start
    <2>1. Len(got) \in 0..Len(sent)
      BY Numbers DEF Inv
    <2>2. Start' = EndOf(Enc(sent'), Len(got)) /\ Start = EndOf(Enc(sent), Len(got))
      BY <1>1, SentWillBe, SentIs DEF Start
    <2> QED
      BY <1>10, <2>1, <2>2
  <1>12. EndsRecord(WasRead) => EndsRecord(WasRead)'
    <2>1. EndsAt(sent, WasRead) => EndsAt(sent', WasRead')
      BY <1>1, <1>2, <1>8, SentAppend
    <2> QED
      BY <2>1, SentIs, SentWillBe
  <1>13. Len(Sent') < SizeMod
    BY <1>1, <1>7
  <1> QED
    BY <1>1, <1>3, <1>4, <1>5, <1>7, <1>8, <1>9, <1>10, <1>11, <1>12, <1>13

LEMMA SendStep ==
    ASSUME Inv, NEW r \in Requests, Send(r)
    PROVE  Inv'
  <1> DEFINE e == Encode(r)
             n == Len(e)
  <1>1. /\ UNCHANGED <<mem, off, size, got>> /\ UNCHANGED <<ready, out, open, parsing, head, left, recs>>
        /\ Buf' = Buf /\ WasRead' = WasRead /\ Before' = Before /\ Start' = Start
    BY SendKeeps
  <1>2. /\ sent' \in Seq(Requests) /\ Len(sent') = Len(sent) + 1
        /\ \A i \in 1..Len(sent) : sent'[i] = sent[i]
        /\ \A i \in 0..Len(sent) : EndOf(Enc(sent'), i) = EndOf(Enc(sent), i)
    BY SendKeeps
  <1>3. /\ e \in Seq(Char) /\ n \in Nat /\ Sent' = Sent \o e /\ stream' = stream \o e
        /\ Len(Sent') = Len(Sent) + n /\ Len(stream') = Len(stream) + n /\ Len(Sent') < SizeMod
    BY SendKeeps
  <1> HIDE DEF e, n
  <1>4. /\ off \in Nat /\ size \in Nat /\ Len(sent) \in Nat /\ Len(got) \in Nat /\ Len(got) <= Len(sent)
        /\ Len(stream) \in Nat /\ Len(Sent) \in Nat /\ WasRead \in Nat /\ Before \in Nat
        /\ Start \in Nat /\ Start <= WasRead /\ WasRead <= Len(Sent)
        /\ WasRead = Before + size /\ Len(Sent) = WasRead + Len(stream)
    BY Numbers DEF Inv
  <1>5. Sent \in Seq(Char) /\ stream \in Seq(Char) /\ sent \in Seq(Requests)
    BY SentFacts, SentIs DEF Inv, Types
  <1>6. Types'
    <2>1. stream' \in Seq(Char)
      BY <1>3, <1>5, ConcatProperties
    <2> QED
      BY <1>1, <1>2, <2>1 DEF Inv, Types
  <1>7. Data'
    <2>1. Len(stream') <= Len(Sent') /\ size' <= WasRead'
      BY <1>1, <1>3, <1>4
    <2>2. ASSUME NEW j \in 1..size' PROVE mem'[off' + j] = Sent'[Before' + j]
      <3>1. j \in 1..size /\ mem'[off' + j] = mem[off + j] /\ Before' = Before
        BY <1>1
      <3>2. mem[off + j] = Sent[Before + j]
        BY <3>1 DEF Inv, Data
      <3>3. Before + j \in 1..Len(Sent)
        BY <1>4, <3>1
      <3>4. (Sent \o e)[Before + j] = Sent[Before + j]
        BY <1>3, <1>5, <3>3, ConcatPlaces
      <3> QED
        BY <1>3, <3>1, <3>2, <3>4
    <2>3. ASSUME NEW j \in 1..Len(stream') PROVE stream'[j] = Sent'[WasRead' + j]
      <3>1. \A i \in 1..Len(stream) : (stream \o e)[i] = stream[i]
        BY <1>3, <1>5, ConcatPlaces
      <3>2. \A i \in 1..n : (stream \o e)[Len(stream) + i] = e[i]
        BY <1>3, <1>5, ConcatPlaces DEF n
      <3>3. \A i \in 1..Len(Sent) : (Sent \o e)[i] = Sent[i]
        BY <1>3, <1>5, ConcatPlaces
      <3>4. \A i \in 1..n : (Sent \o e)[Len(Sent) + i] = e[i]
        BY <1>3, <1>5, ConcatPlaces DEF n
      <3>5. CASE j <= Len(stream)
        <4>1. j \in 1..Len(stream) /\ WasRead + j \in 1..Len(Sent)
          BY <1>4, <3>5
        <4>2. stream[j] = Sent[WasRead + j]
          BY <4>1 DEF Inv, Data
        <4> QED
          BY <1>1, <1>3, <3>1, <3>3, <4>1, <4>2
      <3>6. CASE j > Len(stream)
        <4> DEFINE i == j - Len(stream)
        <4>1. i \in 1..n /\ j = Len(stream) + i /\ WasRead + j = Len(Sent) + i
          BY <1>3, <1>4, <3>6
        <4> HIDE DEF i
        <4> QED
          BY <1>1, <1>3, <3>2, <3>4, <4>1
      <3> QED
        BY <1>4, <3>5, <3>6
    <2> QED
      BY <1>3, <2>1, <2>2, <2>3 DEF Data
  <1>8. Progress'
    <2>1. \A i \in 1..Len(got') : got'[i] = sent'[i] /\ got'[i] # << >>
      <3>1. \A i \in 1..Len(got) : got[i] = sent[i] /\ got[i] # << >>
        BY DEF Inv, Progress
      <3>2. \A i \in 1..Len(got) : i \in 1..Len(sent)
        BY <1>4
      <3> QED
        BY <1>1, <1>2, <3>1, <3>2
    <2>2. Len(got') <= Len(sent')
      BY <1>1, <1>2, <1>4
    <2>3. Before' = IF got' = << >> THEN 0 ELSE Start' - 1
      BY <1>1 DEF Inv, Progress
    <2>4. Start' <= WasRead' /\ (out' => got' # << >>)
      BY <1>1 DEF Inv, Progress
    <2> QED
      BY <2>1, <2>2, <2>3, <2>4 DEF Progress
  <1>9. CutSafe'
    <2>1. EndsRecord(WasRead) => EndsRecord(WasRead)'
      BY SendKeeps
    <2>2. Clear(Buf)' <=> Clear(Buf)
      BY <1>1 DEF Clear
    <2> QED
      BY <1>1, <2>1, <2>2 DEF Inv, CutSafe
  <1>10. Len(got) < Len(sent) => Following' = Following
    BY <1>1, <1>2, <1>4 DEF Following
  <1>11. ParseInv'
    <2> SUFFICES ASSUME parsing' PROVE ParseInv'
      BY DEF ParseInv
    <2>1. parsing /\ open /\ ready /\ head > off /\ head + left = off + size + 1
      BY <1>1 DEF Inv, ParseInv
    <2>2. Len(got') # Len(sent')
      BY <1>1, <1>2, <1>4
    <2>3. CASE Len(got) = Len(sent)
      <3>1. recs = << >> /\ Before + (head - off - 1) = Start
        BY <2>1, <2>3 DEF Inv, ParseInv
      <3>2. Len(recs) = 0 /\ SubSeq(Following', 1, 0) = << >>
        BY <3>1, EmptySeq, SubSeqEmpty
      <3>3. Len(got) \in 0..(Len(sent') - 1) /\ Following' = sent'[Len(got) + 1]
        BY <1>1, <1>2, <1>4, <2>3 DEF Following
      <3>4. Len(Following') \in Nat /\ Place(sent', Len(got), 0) = EndOf(Enc(sent'), Len(got))
        BY <1>2, <3>3, PlaceFacts
      <3>5. EndOf(Enc(sent'), Len(got)) = Start
        BY <1>2, <1>4, SentIs DEF Start
      <3>6. Before' + (head' - off' - 1) = Place(sent', Len(got'), Len(recs'))
        BY <1>1, <3>1, <3>2, <3>4, <3>5
      <3>7. Len(recs') <= Len(Following') /\ recs' = SubSeq(Following', 1, Len(recs'))
        BY <1>1, <3>1, <3>2, <3>4
      <3> QED
        BY <1>1, <2>1, <2>2, <3>6, <3>7 DEF ParseInv
    <2>4. CASE Len(got) < Len(sent)
      <3>1. /\ Len(recs) <= Len(Following) /\ recs = SubSeq(Following, 1, Len(recs))
            /\ Before + (head - off - 1) = Place(sent, Len(got), Len(recs))
        BY <2>1, <2>4 DEF Inv, ParseInv
      <3>2. Place(sent', Len(got), Len(recs)) = Place(sent, Len(got), Len(recs))
        <4>1. sent'[Len(got) + 1] = sent[Len(got) + 1]
          BY <1>2, <1>4, <2>4
        <4>2. EndOf(Enc(sent'), Len(got)) = EndOf(Enc(sent), Len(got))
          BY <1>2, <1>4
        <4> QED
          BY <4>1, <4>2 DEF Place
      <3>3. Following' = Following
        BY <1>10, <2>4
      <3>4. Before' + (head' - off' - 1) = Place(sent', Len(got'), Len(recs'))
        BY <1>1, <3>1, <3>2
      <3>5. Len(recs') <= Len(Following') /\ recs' = SubSeq(Following', 1, Len(recs'))
        BY <1>1, <3>1, <3>3
      <3> QED
        BY <1>1, <2>1, <2>2, <3>4, <3>5 DEF ParseInv
    <2> QED
      BY <1>4, <2>3, <2>4
  <1>12. Waiting'
    <2> SUFFICES ASSUME open', ~ready', ~out' PROVE Waiting'
      BY DEF Waiting
    <2>1. Room(Nice(Buf'))  > 0
      BY <1>1 DEF Inv, Waiting
    <2>2. WasRead < EndOf(Enc(sent'), Len(got) + 1)
      <3>1. CASE Len(got) < Len(sent)
        <4>1. WasRead < EndOf(Enc(sent), Len(got) + 1)
          BY <1>1, <3>1, SentIs DEF Inv, Waiting
        <4>2. Len(got) + 1 \in 0..Len(sent)
          BY <1>4, <3>1
        <4> QED
          BY <1>2, <4>1, <4>2
      <3>2. CASE Len(got) = Len(sent)
        <4>1. Len(got) + 1 = Len(sent') /\ Sent' = All(sent')
          BY <1>2, <1>4, <3>2, SentWillBe
        <4>2. EndOf(Enc(sent'), Len(got) + 1) = Len(Sent')
          BY <1>2, <4>1, SentFacts
        <4>3. n >= 2
          <5>1. Len(r) \in 0..Len(r) /\ Len(r) \in Nat
            BY RequestFacts
          <5>2. /\ Len(Piece(r, Len(r))) \in Nat /\ Len(Piece(r, Len(r))) >= 2
            BY <5>1, PieceFacts
          <5>3. EndOf(Records(r), Len(r)) \in Nat /\ n = EndOf(Records(r), Len(r)) + Len(Piece(r, Len(r)))
            BY <5>1, EncodeFacts DEF n, e
          <5> QED
            BY <5>2, <5>3
        <4> QED
          BY <1>3, <1>4, <4>2, <4>3
      <3> QED
        BY <1>4, <3>1, <3>2
    <2>3. WasRead' < EndOf(Encodings', Len(got') + 1)
      BY <1>1, <2>2, SentWillBe
    <2> QED
      BY <1>1, <2>1, <2>3 DEF Waiting
  <1>13. Closed'
    BY <1>1, <1>2, <1>4, <1>10 DEF Inv, Closed
  <1> QED
    BY <1>6, <1>7, <1>8, <1>9, <1>11, <1>12, <1>13 DEF Inv

\* What a read does to the bytes: those of the stream are put behind the data,
\* which may have been moved first.
LEMMA ReadBytes ==
    ASSUME Inv, NEW n, Read(n)
    PROVE  /\ open /\ ~ready /\ ready' /\ UNCHANGED <<sent, got, out, open, parsing, head, left, recs>>
           /\ n \in Nat /\ n >= 1 /\ n <= Len(stream)
           /\ mem' \in Seq(Char) /\ Len(mem') = Len(mem) /\ off' \in Nat /\ off' <= Len(mem) \div 2
           /\ size' = size + n /\ off' + size' <= Len(mem)
           /\ AnyCut \/ off' + size' = Len(mem) \/ EndsRecord(WasRead + n)
           /\ \A j \in 1..size : mem'[off' + j] = mem[off + j]
           /\ \A j \in 1..n : mem'[off' + size + j] = stream[j]
           /\ stream' \in Seq(Char) /\ Len(stream') = Len(stream) - n
           /\ \A j \in 1..Len(stream') : stream'[j] = stream[n + j]
  <1> DEFINE b == Nice(Buf)
             i == b.off + b.size + 1
             s == SubSeq(stream, 1, n)
  <1>1. /\ open /\ ~ready /\ n \in 1..Min({Room(b), Len(stream)})
        /\ AnyCut \/ n = Room(b) \/ EndsRecord(Len(Sent) - Len(stream) + n)
        /\ mem' = Put(b.mem, i, s) /\ off' = b.off /\ size' = b.size + n
        /\ stream' = SubSeq(stream, n + 1, Len(stream))
        /\ ready' = TRUE /\ UNCHANGED <<sent, got, out, open, parsing, head, left, recs>>
    BY DEF Read, parser
  <1>2. IsBuf(Buf) /\ Buf.mem = mem /\ Buf.off = off /\ Buf.size = size
        /\ Len(mem) \in Nat /\ stream \in Seq(Char) /\ Len(stream) \in Nat
    BY Numbers, LenProperties DEF Inv, Types
  <1>3. /\ IsBuf(b) /\ SameData(Buf, b) /\ Len(b.mem) = Len(mem) /\ b.off <= Len(mem) \div 2
    BY <1>2, NiceFacts
  <1> HIDE DEF b
  <1>4. /\ b.mem \in Seq(Char) /\ b.off \in Nat /\ b.size \in Nat /\ b.off + b.size <= Len(mem)
        /\ b.size = size /\ \A j \in 1..size : b.mem[b.off + j] = mem[off + j]
    BY <1>2, <1>3 DEF IsBuf, SameData
  <1>5. n \in Nat /\ n >= 1 /\ n <= Len(stream) /\ n <= Room(b)
    <2> DEFINE R == Room(b)
               l == Len(stream)
    <2>1. R \in Int /\ l \in Nat
      BY <1>2, <1>3, <1>4 DEF Room
    <2> HIDE DEF R, l
    <2>2. CASE R <= l
      <3>1. Min({R, l}) = R
        BY <2>1, <2>2, MinIs
      <3> QED
        BY <1>1, <2>1, <2>2, <3>1 DEF R, l
    <2>3. CASE l <= R
      <3>1. Min({R, l}) = l
        BY <2>1, <2>3, MinIs
      <3> QED
        BY <1>1, <2>1, <2>3, <3>1 DEF R, l
    <2> QED
      BY <2>1, <2>2, <2>3
  <1>6. Room(b) = Len(mem) - b.off - size
    BY <1>3, <1>4 DEF Room
  <1>7. s \in Seq(Char) /\ Len(s) = n /\ \A j \in 1..n : s[j] = stream[j]
    <2>1. n \in 0..Len(stream)
      BY <1>2, <1>5
    <2> QED
      BY <1>2, <2>1, Beginnings
  <1>8. i \in Nat /\ i >= 1 /\ i + n - 1 <= Len(mem) /\ i = b.off + size + 1
    BY <1>2, <1>4, <1>5, <1>6
  <1> HIDE DEF i, s
  <1>9. /\ mem' \in Seq(Char) /\ Len(mem') = Len(mem)
        /\ \A j \in 1..n : mem'[i + j - 1] = s[j]
        /\ \A j \in 1..Len(mem) : j < i => mem'[j] = b.mem[j]
    <2> DEFINE m == b.mem
    <2>1. m \in Seq(Char) /\ Len(m) = Len(mem) /\ i \in Nat /\ i >= 1 /\ s \in Seq(Char) /\ Len(s) = n
      BY <1>3, <1>4, <1>7, <1>8
    <2>2. i + Len(s) - 1 <= Len(m)
      BY <1>8, <2>1
    <2>3. mem' = Put(m, i, s)
      BY <1>1
    <2> HIDE DEF m
    <2>4. /\ Put(m, i, s) \in Seq(Char) /\ Len(Put(m, i, s)) = Len(m)
          /\ \A j \in 1..Len(s) : Put(m, i, s)[i + j - 1] = s[j]
          /\ \A j \in 1..Len(m) : j < i \/ j >= i + Len(s) => Put(m, i, s)[j] = m[j]
      BY <2>1, <2>2, PutFacts
    <2>5. \A j \in 1..n : Put(m, i, s)[i + j - 1] = s[j]
      BY <2>1, <2>4
    <2>6. \A j \in 1..Len(mem) : j < i => Put(m, i, s)[j] = m[j]
      BY <2>1, <2>4
    <2> QED
      BY <2>1, <2>3, <2>4, <2>5, <2>6 DEF m
  <1>10. \A j \in 1..size : mem'[off' + j] = mem[off + j]
    <2> SUFFICES ASSUME NEW j \in 1..size PROVE mem'[off' + j] = mem[off + j]
      OBVIOUS
    <2>1. b.off + j \in 1..Len(mem) /\ b.off + j < i
      BY <1>2, <1>4, <1>8
    <2> QED
      BY <1>1, <1>4, <1>9, <2>1
  <1>11. \A j \in 1..n : mem'[off' + size + j] = stream[j]
    <2> SUFFICES ASSUME NEW j \in 1..n PROVE mem'[off' + size + j] = stream[j]
      OBVIOUS
    <2>1. i + j - 1 = b.off + size + j
      BY <1>4, <1>5, <1>8, SMTT(40)
    <2> QED
      BY <1>1, <1>7, <1>9, <2>1
  <1>12. /\ stream' \in Seq(Char) /\ Len(stream') = Len(stream) - n
         /\ \A j \in 1..Len(stream') : stream'[j] = stream[n + j]
    <2> DEFINE l == Len(stream)
    <2>1. l \in Nat /\ n + 1 \in Int /\ l \in Int
      BY <1>2, <1>5
    <2>2. \A j \in (n + 1)..l : stream[j] \in Char
      BY <1>2, <1>5, ElementOfSeq
    <2>3. /\ SubSeq(stream, n + 1, l) \in Seq(Char)
          /\ Len(SubSeq(stream, n + 1, l)) = IF n + 1 <= l THEN l - (n + 1) + 1 ELSE 0
          /\ \A j \in 1..(l - (n + 1) + 1) : SubSeq(stream, n + 1, l)[j] = stream[(n + 1) + j - 1]
      <3> DEFINE a == n + 1
      <3>1. a \in Int /\ l \in Int /\ \A j \in a..l : stream[j] \in Char
        BY <2>1, <2>2
      <3> HIDE DEF a, l
      <3>2. /\ SubSeq(stream, a, l) \in Seq(Char)
            /\ Len(SubSeq(stream, a, l)) = IF a <= l THEN l - a + 1 ELSE 0
            /\ \A j \in 1..(l - a + 1) : SubSeq(stream, a, l)[j] = stream[a + j - 1]
        BY <3>1, SubSeqProperties
      <3> QED
        BY <3>2 DEF a
    <2>4. (IF n + 1 <= l THEN l - (n + 1) + 1 ELSE 0) = l - n /\ l - (n + 1) + 1 = l - n
      BY <1>5, <2>1
    <2>5. \A j \in 1..(l - n) : (n + 1) + j - 1 = n + j
      BY <1>5
    <2>6. Len(stream') = l - n /\ stream' \in Seq(Char)
      BY <1>1, <2>3, <2>4
    <2>7. \A j \in 1..(l - n) : stream'[j] = stream[n + j]
      BY <1>1, <2>3, <2>4, <2>5
    <2> QED
      BY <2>6, <2>7
  <1>13. AnyCut \/ off' + size' = Len(mem) \/ EndsRecord(WasRead + n)
    <2>1. n = Room(b) => off' + size' = Len(mem)
      <3> DEFINE p == b.off
      <3>1. off' = p /\ size' = size + n /\ Room(b) = Len(mem) - p - size /\ p \in Nat /\ size \in Nat
        BY <1>1, <1>4, <1>6
      <3> HIDE DEF p
      <3> QED
        BY <1>2, <1>5, <3>1
    <2> QED
      BY <1>1, <2>1 DEF WasRead
  <1>14. off' + size' <= Len(mem) /\ size' = size + n /\ off' \in Nat /\ off' <= Len(mem) \div 2
    BY <1>1, <1>2, <1>3, <1>4, <1>5, <1>6
  <1> QED
    BY <1>1, <1>5, <1>9, <1>10, <1>11, <1>12, <1>13, <1>14

LEMMA ReadStep ==
    ASSUME Inv, Handled, NEW n, Read(n)
    PROVE  Inv'
  <1>1. /\ open /\ ~ready /\ ready' /\ UNCHANGED <<sent, got, out, open, parsing, head, left, recs>>
        /\ n \in Nat /\ n >= 1 /\ n <= Len(stream)
        /\ mem' \in Seq(Char) /\ Len(mem') = Len(mem) /\ off' \in Nat /\ off' <= Len(mem) \div 2
        /\ size' = size + n /\ off' + size' <= Len(mem)
        /\ stream' \in Seq(Char) /\ Len(stream') = Len(stream) - n
    BY ReadBytes
  <1>2. /\ \A j \in 1..size : mem'[off' + j] = mem[off + j]
        /\ \A j \in 1..n : mem'[off' + size + j] = stream[j]
        /\ \A j \in 1..Len(stream') : stream'[j] = stream[n + j]
    BY ReadBytes
  <1>3. ~parsing
    BY <1>1 DEF Inv, ParseInv
  <1>4. /\ off \in Nat /\ size \in Nat /\ Len(mem) \in Nat
        /\ Len(stream) \in Nat /\ Len(Sent) \in Nat /\ WasRead \in Nat /\ Before \in Nat
        /\ Start \in Nat /\ Start <= WasRead
        /\ WasRead = Before + size /\ Len(Sent) = WasRead + Len(stream)
    BY Numbers DEF Inv
  <1>5. Sent' = Sent /\ Encodings' = Encodings
    BY <1>1 DEF Sent, Encodings
  <1>6. WasRead' = WasRead + n
    <2>1. WasRead' = Len(Sent) - Len(stream')
      BY <1>5 DEF WasRead
    <2> QED
      BY <1>1, <1>4, <2>1
  <1>7. Before' = Before /\ Start' = Start /\ size' \in Nat
    <2>1. Before' = WasRead' - size'
      BY DEF Before
    <2> QED
      BY <1>1, <1>4, <1>5, <1>6, <2>1 DEF Start
  <1>8. Types'
    <2>1. IsBuf(Buf)'
      BY <1>1, <1>7 DEF IsBuf, Buf
    <2>2. Len(mem') > 0
      BY <1>1 DEF Inv, Types
    <2> QED
      BY <1>1, <2>1, <2>2 DEF Inv, Types
  <1>9. Data'
    <2>1. Len(stream') <= Len(Sent') /\ size' <= WasRead' /\ Len(Sent') < SizeMod
      <3>1. Len(Sent) < SizeMod
        BY DEF Inv, Data
      <3> QED
        BY <1>1, <1>4, <1>5, <1>6, <3>1, SMTT(40)
    <2>2. ASSUME NEW j \in 1..size' PROVE mem'[off' + j] = Sent'[Before' + j]
      <3>1. CASE j <= size
        <4>1. j \in 1..size
          BY <1>4, <3>1
        <4> QED
          BY <1>2, <1>5, <1>7, <4>1 DEF Inv, Data
      <3>2. CASE j > size
        <4> DEFINE i == j - size
        <4>1. i \in 1..n /\ i \in 1..Len(stream) /\ off' + j = off' + size + i /\ Before + j = WasRead + i
          BY <1>1, <1>4, <3>2
        <4> HIDE DEF i
        <4>2. stream[i] = Sent[WasRead + i]
          BY <4>1 DEF Inv, Data
        <4> QED
          BY <1>2, <1>5, <1>7, <4>1, <4>2
      <3> QED
        BY <1>4, <3>1, <3>2
    <2>3. ASSUME NEW j \in 1..Len(stream') PROVE stream'[j] = Sent'[WasRead' + j]
      <3>1. n + j \in 1..Len(stream) /\ WasRead' + j = WasRead + (n + j)
        BY <1>1, <1>4, <1>6
      <3>2. stream[n + j] = Sent[WasRead + (n + j)]
        BY <3>1 DEF Inv, Data
      <3> QED
        BY <1>2, <1>5, <3>1, <3>2
    <2> QED
      BY <2>1, <2>2, <2>3 DEF Data
  <1>10. Progress'
    <2>1. Start' <= WasRead'
      BY <1>1, <1>4, <1>6, <1>7
    <2> QED
      BY <1>1, <1>7, <2>1 DEF Inv, Progress
  <1>11. CutSafe'
    <2>1. EndsRecord(WasRead)' \/ Clear(Buf)'
      <3>1. CASE EndsRecord(WasRead + n)
        <4>1. EndsAt(sent, WasRead + n)
          BY <3>1, SentIs
        <4> QED
          BY <1>1, <1>6, <4>1, SentWillBe
      <3>2. CASE off' + size' = Len(mem)
        <4>1. off' + size' + 1 > Len(mem')
          BY <1>1, <1>4, <3>2
        <4>2. Buf' = [mem |-> mem', off |-> off', size |-> size']
          BY DEF Buf
        <4>3. Clear(Buf') = \A i \in (off' + size' + 1)..Len(mem') : mem'[i] # NL
          BY <4>2 DEF Clear
        <4>4. (off' + size' + 1)..Len(mem') = {}
          BY <1>1, <1>4, <1>7, <4>1
        <4> QED
          BY <4>3, <4>4
      <3>3. ~AnyCut
        BY DEF Handled
      <3> QED
        BY <3>1, <3>2, <3>3, ReadBytes
    <2> QED
      BY <1>1, <2>1 DEF CutSafe
  <1>12. ParseInv' /\ Waiting' /\ Closed'
    BY <1>1, <1>3 DEF ParseInv, Waiting, Closed
  <1> QED
    BY <1>8, <1>9, <1>10, <1>11, <1>12 DEF Inv

\* The empty record is found at the end of a request, with all its records;
\* its last newline is what remains of it.
LEMMA TerminatorIs ==
    ASSUME Inv, Handled, parsing, Terminator
    PROVE  /\ Len(got) < Len(sent) /\ Following \in Requests /\ Following # << >> /\ recs = Following
           /\ \E z \in Nat :
                 /\ Rest.mem = mem /\ Rest.off = off + z /\ Rest.size = size - z /\ size - z >= 1
                 /\ Before + z = EndOf(Enc(sent), Len(got) + 1) - 1
  <1> DEFINE b == NextBody(Following, Len(recs))
             w == Record(b)
             k == Len(recs)
             i == Len(got)
             n == HeadLen(b)
             P == Place(sent, i, k)
             E == EndOf(Enc(sent), i + 1)
  <1>1. i < Len(sent)
    <2>1. i # Len(sent)
      BY NothingToParse
    <2> QED
      BY <2>1, Numbers DEF Inv
  <1>2. Following # << >>
    BY <1>1, LineTurns
  <1>3. /\ n \in 1..14 /\ Len(w) = n + Len(b) + 2
        /\ Len(b) = 0 <=> k = Len(Following)
        /\ w = Piece(Following, k)
        /\ left >= Len(w) => Body = head + n + 1 /\ (Terminator <=> Len(b) = 0)
        /\ left < Len(w) => ~Terminator
        /\ Len(b) \in Nat
    BY <1>1, <1>2, Turns
  <1> HIDE DEF b, w, k, n
  <1>4. left \in Nat /\ head \in Nat
    BY DEF Inv, Types
  <1>5. left >= Len(w)
    BY <1>3, <1>4
  <1>6. Len(b) = 0 /\ Body = head + n + 1 /\ n \in Nat /\ Len(w) = n + 2 /\ k = Len(Following)
    BY <1>3, <1>5
  <1>7. /\ i \in 0..(Len(sent) - 1) /\ Following \in Requests /\ recs = SubSeq(Following, 1, k)
        /\ P \in Nat /\ sent \in Seq(Requests)
    BY <1>1, ParserSees DEF k, Inv, Types
  <1>8. recs = Following
    <2>1. Following \in Seq(Seq(Char))
      BY <1>7, RequestFacts
    <2> QED
      BY <1>6, <1>7, <2>1, Beginnings
  <1>9. E = P + Len(w)
    BY <1>3, <1>6, <1>7, PlaceFacts DEF Following
  <1>10. /\ off \in Nat /\ size \in Nat /\ Before \in Nat /\ SizeMod \in Nat /\ size < SizeMod
         /\ head > off /\ head + left = off + size + 1 /\ Before + (head - off - 1) = P
    <2>1. /\ off \in Nat /\ size \in Nat /\ Before \in Nat /\ SizeMod \in Nat /\ WasRead \in Nat
          /\ WasRead <= Len(Sent) /\ Len(Sent) \in Nat
      BY Numbers DEF Inv
    <2>2. size <= WasRead /\ Len(Sent) < SizeMod
      BY DEF Inv, Data
    <2> QED
      BY <1>1, <2>1, <2>2 DEF Inv, ParseInv, k
  <1> DEFINE z == Body - off - 1
             l == Len(w)
  <1>11. z = head - off + n /\ l = n + 2 /\ left >= l
    BY <1>4, <1>5, <1>6, <1>10
  <1>12. Rest = [Buf EXCEPT !.off = @ + z, !.size = (@ - z) % SizeMod]
    BY DEF Rest
  <1> HIDE DEF z, l, P, E
  <1>13. z \in Nat /\ size - z >= 1 /\ size - z < SizeMod /\ size - z \in Nat
    BY <1>4, <1>6, <1>10, <1>11
  <1>14. (size - z) % SizeMod = size - z
    BY <1>10, <1>13
  <1>15. Rest.mem = mem /\ Rest.off = off + z /\ Rest.size = size - z
    BY <1>12, <1>14 DEF Buf
  <1>16. Before + z = E - 1
    <2>1. E = P + l
      BY <1>9 DEF l
    <2>2. P \in Nat
      BY <1>7
    <2> QED
      BY <1>4, <1>6, <1>10, <1>11, <2>1, <2>2
  <1> QED
    BY <1>1, <1>2, <1>7, <1>8, <1>13, <1>15, <1>16 DEF E

LEMMA RequestParsedStep ==
    ASSUME Inv, Handled, RequestParsed
    PROVE  Inv'
  <1>1. /\ parsing /\ Terminator /\ mem' = Rest.mem /\ off' = Rest.off /\ size' = Rest.size
        /\ ready' = FALSE /\ parsing' = FALSE /\ head' = 0 /\ left' = 0 /\ recs' = << >>
        /\ UNCHANGED <<stream, sent>>
    BY DEF RequestParsed, Becomes, Return
  <1>2. PICK ret \in NoReturn :
          /\ open' = (ret >= 0) /\ out' = (out \/ ret >= 0)
          /\ got' = IF ret >= 0 THEN Append(got, recs) ELSE got
    BY DEF RequestParsed
  <1>3. open' = TRUE /\ out' = TRUE /\ got' = Append(got, recs)
    <2>1. ret >= 0
      BY DEF Handled
    <2>2. out' = TRUE
      BY <1>2, <2>1
    <2> QED
      BY <1>2, <2>1, <2>2
  <1>4. /\ Len(got) < Len(sent) /\ Following \in Requests /\ Following # << >> /\ recs = Following
    BY <1>1, TerminatorIs
  <1> DEFINE E == EndOf(Enc(sent), Len(got) + 1)
  <1>9. PICK z \in Nat :
          mem' = mem /\ off' = off + z /\ size' = size - z /\ size - z >= 1 /\ Before + z = E - 1
    BY <1>1, TerminatorIs
  <1>5. /\ off \in Nat /\ size \in Nat /\ Len(mem) \in Nat /\ off + size <= Len(mem)
        /\ Len(sent) \in Nat /\ Len(got) \in Nat /\ WasRead \in Nat /\ Before \in Nat
        /\ WasRead = Before + size
    BY Numbers DEF Inv

  <1>6. Sent' = Sent /\ Encodings' = Encodings /\ WasRead' = WasRead
    BY <1>1 DEF Sent, Encodings, WasRead
  <1>7. got \in Seq(Requests) /\ got' \in Seq(Requests) /\ Len(got') = Len(got) + 1
        /\ got'[Len(got) + 1] = Following /\ \A i \in 1..Len(got) : got'[i] = got[i]
    <2>1. got \in Seq(Requests)
      BY DEF Inv, Types
    <2> QED
      BY <1>3, <1>4, <2>1, AppendProperties
  <1>8. Start' = E
    BY <1>1, <1>7, SentWillBe DEF Start
  <1>10. E \in Nat
    <2>1. Len(got) + 1 \in 0..Len(sent)
      BY <1>4, <1>5
    <2> QED
      BY <2>1, SentFacts DEF Inv, Types
  <1> HIDE DEF E
  <1>11. Before' = Before + z /\ Before' = E - 1
    <2>1. Before' = WasRead - size'
      BY <1>6 DEF Before
    <2> QED
      BY <1>5, <1>9, <2>1
  <1>12. Types'
    <2>1. off' \in Nat /\ size' \in Nat /\ off' + size' <= Len(mem')
      BY <1>5, <1>9
    <2>2. IsBuf(Buf)' /\ Len(mem') > 0
      BY <1>9, <2>1 DEF IsBuf, Buf, Inv, Types
    <2>3. recs' \in Seq(Seq(Char)) /\ head' \in Nat /\ left' \in Nat
      BY <1>1, EmptySeq
    <2> QED
      BY <1>1, <1>3, <1>7, <2>2, <2>3 DEF Inv, Types
  <1>13. Data'
    <2>1. size' <= WasRead'
      BY <1>5, <1>6, <1>9
    <2>2. ASSUME NEW j \in 1..size' PROVE mem'[off' + j] = Sent'[Before' + j]
      <3> DEFINE i == z + j
      <3>1. i \in 1..size /\ off' + j = off + i /\ Before' + j = Before + i
        BY <1>5, <1>9, <1>11
      <3> HIDE DEF i
      <3>2. mem[off + i] = Sent[Before + i]
        BY <3>1 DEF Inv, Data
      <3> QED
        BY <1>9, <1>6, <3>1, <3>2
    <2> QED
      BY <1>1, <1>6, <2>1, <2>2 DEF Inv, Data
  <1>14. Progress'
    <2>1. Len(got') <= Len(sent')
      BY <1>1, <1>4, <1>5, <1>7
    <2>2. ASSUME NEW i \in 1..Len(got') PROVE got'[i] = sent'[i] /\ got'[i] # << >>
      <3>1. CASE i = Len(got) + 1
        BY <1>1, <1>4, <1>7, <3>1 DEF Following
      <3>2. CASE i # Len(got) + 1
        <4>1. i \in 1..Len(got)
          BY <1>5, <1>7, <3>2
        <4> QED
          BY <1>1, <1>7, <4>1 DEF Inv, Progress
      <3> QED
        BY <3>1, <3>2
    <2>3. Start' <= WasRead'
      <3>1. Before' = WasRead - size'
        BY <1>6 DEF Before
      <3> QED
        BY <1>5, <1>6, <1>8, <1>9, <1>10, <1>11, <3>1
    <2>4. got' # << >>
      <3>1. Len(got') # 0
        BY <1>5, <1>7
      <3> QED
        BY <3>1, EmptySeq
    <2> QED
      BY <1>8, <1>11, <2>1, <2>2, <2>3, <2>4 DEF Progress
  <1>15. CutSafe'
    <2>1. EndsRecord(WasRead) \/ Clear(Buf)
      BY <1>1 DEF Inv, CutSafe, ParseInv
    <2>2. EndsRecord(WasRead) => EndsRecord(WasRead)'
      BY <1>1, <1>6, SentIs, SentWillBe
    <2>3. Clear(Buf) => Clear(Buf')
      <3>1. off' + size' + 1 = off + size + 1
        BY <1>5, <1>9
      <3>2. Buf = [mem |-> mem, off |-> off, size |-> size] /\ Buf' = [mem |-> mem', off |-> off', size |-> size']
        BY DEF Buf
      <3>3. Clear(Buf) <=> \A i \in (off + size + 1)..Len(mem) : mem[i] # NL
        BY <3>2 DEF Clear
      <3>4. Clear(Buf') <=> \A i \in (off' + size' + 1)..Len(mem') : mem'[i] # NL
        BY <3>2 DEF Clear
      <3> QED
        BY <1>9, <3>1, <3>3, <3>4
    <2> QED
      BY <1>1, <2>1, <2>2, <2>3 DEF CutSafe
  <1>16. ParseInv' /\ Waiting' /\ Closed'
    BY <1>1, <1>3 DEF ParseInv, Waiting, Closed
  <1> QED
    BY <1>12, <1>13, <1>14, <1>15, <1>16 DEF Inv

\* A piece ends before its request does, or with it.
LEMMA PieceEnds ==
    ASSUME NEW s \in Seq(Requests), NEW i \in 0..(Len(s) - 1), NEW k \in 0..Len(s[i + 1])
    PROVE  Place(s, i, k) + Len(Piece(s[i + 1], k)) <= EndOf(Enc(s), i + 1)
  <1> DEFINE r == s[i + 1]
             n == Len(r)
             E == EndOf(Enc(s), i + 1)
             l == Len(Piece(r, n))
  <1>1. r \in Requests /\ n \in Nat
    BY PlaceFacts
  <1>2. Place(s, i, n) + l = E /\ Place(s, i, n) \in Nat /\ l \in Nat
    <2>1. n \in 0..n
      BY <1>1
    <2>2. Place(s, i, n) + l = E /\ Place(s, i, n) \in Nat
      BY <2>1, PlaceFacts
    <2>3. l \in Nat
      BY <1>1, <2>1, PieceFacts
    <2> QED
      BY <2>2, <2>3
  <1>3. CASE k = n
    BY <1>2, <1>3
  <1>4. CASE k # n
    <2>1. k \in 0..(n - 1) /\ k + 1 \in 0..n /\ n \in (k + 1)..n
      BY <1>1, <1>4
    <2>2. Place(s, i, k + 1) = Place(s, i, k) + Len(Piece(r, k))
      BY <2>1, PlaceFacts
    <2>3. Place(s, i, k + 1) <= Place(s, i, n) /\ Place(s, i, k + 1) \in Nat
      BY <2>1, PlaceFacts
    <2> HIDE DEF E, n, l
    <2>4. Place(s, i, k + 1) <= E
      BY <1>2, <2>3
    <2> QED
      BY <2>2, <2>4 DEF E
  <1> QED
    BY <1>3, <1>4

\* The data is not ready when a piece has not come completely, and only then.
LEMMA PieceMissing ==
    ASSUME Inv, Handled, DataMissing
    PROVE  /\ ~Terminator
           /\ Len(got) < Len(sent) => WasRead < EndOf(Enc(sent), Len(got) + 1)
  <1>1. /\ parsing
        /\ \/ ~HasHead
           \/ Terminator /\ recs = << >>
           \/ GoodHead /\ ~Terminator /\ ~WholeRecord
    BY DEF DataMissing
  <1>2. ~Terminator
    <2> SUFFICES ASSUME Terminator PROVE FALSE
      OBVIOUS
    <2>1. recs = << >>
      BY <1>1 DEF Terminator, GoodHead
    <2>2. recs # << >>
      BY <1>1, TerminatorIs
    <2> QED
      BY <2>1, <2>2
  <1>3. ~HasHead \/ (GoodHead /\ ~WholeRecord)
    BY <1>1, <1>2
  <1>4. ASSUME Len(got) < Len(sent) PROVE WasRead < EndOf(Enc(sent), Len(got) + 1)
    <2> DEFINE i == Len(got)
               k == Len(recs)
               P == Place(sent, i, k)
               l == Len(Piece(Following, k))
               E == EndOf(Enc(sent), i + 1)
    <2>1. /\ i \in 0..(Len(sent) - 1) /\ Following \in Requests /\ k \in 0..Len(Following)
          /\ P \in Nat /\ left = WasRead - P /\ sent \in Seq(Requests)
      BY <1>1, <1>4, ParserSees DEF Inv, Types
    <2>2. l \in Nat /\ WasRead \in Nat /\ left \in Nat
      BY <2>1, PieceFacts, Numbers DEF Inv, Types
    <2>3. P + l <= E
      BY <2>1, PieceEnds DEF Following
    <2>4. E \in Nat
      <3>1. i + 1 \in 0..Len(sent)
        BY <1>4, Numbers DEF Inv
      <3> QED
        BY <2>1, <3>1, SentFacts
    <2>5. left < l
      <3>1. CASE Following = << >>
        <4>1. Piece(Following, k) = <<Other, NL>> /\ ~GoodHead /\ (left >= 2 => HasHead)
          BY <1>1, <1>4, <3>1, LineTurns
        <4>2. Len(<<Other, NL>>) = 2
          OBVIOUS
        <4>3. l = 2 /\ ~HasHead
          BY <1>3, <4>1, <4>2
        <4> QED
          BY <2>2, <4>1, <4>3
      <3>2. CASE Following # << >>
        <4> DEFINE b == NextBody(Following, k)
        <4>1. /\ Record(b) = Piece(Following, k) /\ Len(b) \in Nat
              /\ left >= Len(Record(b)) =>
                   GoodHead /\ (Len(b) = 0 => Terminator) /\ (Len(b) # 0 => WholeRecord)
          BY <1>1, <1>4, <3>2, Turns
        <4>2. ~(left >= Len(Record(b)))
          BY <1>2, <1>3, <4>1 DEF GoodHead
        <4>3. ~(left >= l)
          BY <4>1, <4>2
        <4> HIDE DEF l
        <4> QED
          BY <2>2, <4>3
      <3> QED
        BY <3>1, <3>2
    <2> HIDE DEF P, l, E
    <2>6. WasRead < E
      BY <2>1, <2>2, <2>3, <2>4, <2>5
    <2> QED
      BY <2>6 DEF E
  <1> QED
    BY <1>2, <1>4

LEMMA DataMissingStep ==
    ASSUME Inv, Handled, DataMissing
    PROVE  Inv'
  <1> DEFINE b == MakeRoom(Buf)
  <1>1. /\ parsing /\ mem' = MakeRoom(Rest).mem /\ off' = MakeRoom(Rest).off /\ size' = MakeRoom(Rest).size
        /\ ready' = FALSE /\ parsing' = FALSE /\ head' = 0 /\ left' = 0 /\ recs' = << >>
        /\ UNCHANGED <<stream, sent, got, out, open>>
    BY DEF DataMissing, Becomes, Return
  <1>2. /\ off \in Nat /\ size \in Nat /\ SizeMod \in Nat /\ WasRead \in Nat /\ Before \in Nat
        /\ Beyond \in Char
    BY Numbers DEF Inv
  <1>3. Rest = Buf
    <2>1. ~Terminator
      BY PieceMissing
    <2>2. Rest = [Buf EXCEPT !.off = @ + 0, !.size = (@ - 0) % SizeMod]
      BY <2>1 DEF Rest
    <2>3. off + 0 = off /\ (size - 0) % SizeMod = size
      <3>1. size < SizeMod
        BY <1>2, Numbers DEF Inv, Data
      <3> QED
        BY <1>2, <3>1
    <2> QED
      BY <2>2, <2>3 DEF Buf
  <1>4. /\ IsBuf(b) /\ SameData(Buf, b) /\ Len(b.mem) > 0 /\ Room(Nice(b)) > 0
        /\ off <= Len(mem) \div 2 /\ Clear(Buf) => Clear(b)
    <2>1. IsBuf(Buf) /\ Beyond # NL /\ Len(Buf.mem) > 0 /\ Buf.mem = mem /\ Buf.off = off
      BY Numbers DEF Inv, Types, Handled
    <2> QED
      BY <1>2, <2>1, MakeRoomFacts
  <1>5. Buf' = b
    <2>1. mem' = b.mem /\ off' = b.off /\ size' = b.size
      BY <1>1, <1>3
    <2>2. Buf' = [mem |-> b.mem, off |-> b.off, size |-> b.size]
      BY <2>1 DEF Buf
    <2>3. b = [mem |-> b.mem, off |-> b.off, size |-> b.size]
      <3> HIDE DEF b
      <3> QED
        BY <1>4 DEF IsBuf
    <2> QED
      BY <2>2, <2>3
  <1>6. mem' = b.mem /\ off' = b.off /\ size' = size /\ \A j \in 1..size : mem'[off' + j] = mem[off + j]
    <2>1. b.size = Buf.size /\ \A j \in 1..Buf.size : b.mem[b.off + j] = Buf.mem[Buf.off + j]
      BY <1>4 DEF SameData
    <2>2. Buf.size = size /\ Buf.mem = mem /\ Buf.off = off
      BY DEF Buf
    <2>3. mem' = b.mem /\ off' = b.off /\ size' = b.size
      BY <1>1, <1>3
    <2> HIDE DEF b
    <2> QED
      BY <2>1, <2>2, <2>3
  <1> HIDE DEF b
  <1>7. Sent' = Sent /\ Encodings' = Encodings /\ WasRead' = WasRead /\ Start' = Start
    BY <1>1 DEF Sent, Encodings, WasRead, Start
  <1>8. Before' = Before
    BY <1>6, <1>7 DEF Before
  <1>9. Types'
    <2>1. IsBuf(Buf') /\ Len(mem') > 0
      BY <1>4, <1>5, <1>6
    <2>2. recs' \in Seq(Seq(Char)) /\ head' \in Nat /\ left' \in Nat
      BY <1>1, EmptySeq
    <2> QED
      BY <1>1, <2>1, <2>2 DEF Inv, Types
  <1>10. Data' /\ Progress'
    BY <1>1, <1>6, <1>7, <1>8 DEF Inv, Data, Progress
  <1>11. open /\ ready
    BY <1>1 DEF Inv, ParseInv
  <1>12. CutSafe'
    <2>1. ASSUME out PROVE EndsRecord(WasRead)' \/ Clear(Buf')
      <3>1. off <= Len(mem) \div 2 /\ (EndsRecord(WasRead) \/ Clear(Buf))
        BY <1>11, <2>1 DEF Inv, CutSafe
      <3>2. EndsRecord(WasRead) => EndsRecord(WasRead)'
        BY <1>1, <1>7, SentIs, SentWillBe
      <3> QED
        BY <1>4, <1>5, <3>1, <3>2
    <2> QED
      BY <1>1, <2>1 DEF CutSafe
  <1>13. Waiting'
    <2>1. Len(got) < Len(sent) => WasRead < EndOf(Enc(sent), Len(got) + 1)
      BY PieceMissing
    <2>2. Len(got') < Len(sent') => WasRead' < EndOf(Encodings', Len(got') + 1)
      BY <1>1, <1>7, <2>1, SentIs
    <2>3. Room(Nice(Buf')) > 0
      BY <1>4, <1>5
    <2> QED
      BY <2>2, <2>3 DEF Waiting
  <1>14. ParseInv' /\ Closed'
    BY <1>1, <1>11 DEF ParseInv, Closed
  <1> QED
    BY <1>9, <1>10, <1>12, <1>13, <1>14 DEF Inv

LEMMA InvStep ==
    ASSUME Inv, Handled, [Next]_vars
    PROVE  Inv'
  <1>1. CASE UNCHANGED vars
    <2>1. /\ UNCHANGED <<mem, off, size, stream, sent, got>>
          /\ UNCHANGED <<ready, out, open, parsing, head, left, recs>>
      BY <1>1 DEF vars, conn, parser
    <2>2. /\ Buf' = Buf /\ Encodings' = Encodings
          /\ WasRead' = WasRead /\ Before' = Before /\ Start' = Start /\ Following' = Following
      BY <2>1, Still
    <2>3. EndsRecord(WasRead)' <=> EndsRecord(WasRead)
      BY <2>1, Still
    <2>4. Types' /\ Data' /\ Progress'
      <3>1. out' => got # << >>
        BY <2>1 DEF Inv, Progress
      <3>2. /\ ready' \in BOOLEAN /\ out' \in BOOLEAN /\ open' \in BOOLEAN /\ parsing' \in BOOLEAN
            /\ head' \in Nat /\ left' \in Nat /\ recs' \in Seq(Seq(Char))
        BY <2>1 DEF Inv, Types
      <3> QED
        BY <2>1, <3>1, <3>2, Still
    <2>5. CutSafe'
      BY <2>1, <2>2, <2>3 DEF Inv, CutSafe
    <2>6. ParseInv'
      <3>1. \A i, k : Place(sent, i, k)' = Place(sent, i, k)
        BY <2>1
      <3> QED
        BY <2>1, <2>2, <3>1 DEF Inv, ParseInv
    <2>7. Waiting' /\ Closed'
      BY <2>1, <2>2 DEF Inv, Waiting, Closed
    <2> QED
      BY <2>4, <2>5, <2>6, <2>7 DEF Inv
  <1>2. CASE \E r \in Requests : Send(r)
    BY <1>2, SendStep
  <1>3. CASE \E n \in 1..Len(stream) : Read(n)
    BY <1>3, ReadStep
  <1>4. CASE ReadFull
    BY <1>4, ReadFullStep
  <1>5. CASE Written
    BY <1>5, WrittenStep
  <1>6. CASE Recv
    BY <1>6, RecvStep
  <1>7. CASE RecordParsed
    BY <1>7, RecordParsedStep
  <1>8. CASE RequestParsed
    BY <1>8, RequestParsedStep
  <1>9. CASE RequestRefused
    BY <1>9, RequestRefusedStep
  <1>10. CASE DataMissing
    BY <1>10, DataMissingStep
  <1> QED
    BY <1>1, <1>2, <1>3, <1>4, <1>5, <1>6, <1>7, <1>8, <1>9, <1>10 DEF Next

-----------------------------------------------------------------------------
(***************************************************************************)
(* The properties                                                          *)
(***************************************************************************)
\* Prefixes and suffixes, element by element
LEMMA PrefixIs ==
    ASSUME NEW S, NEW s \in Seq(S), NEW t \in Seq(S), Len(s) <= Len(t), \A i \in 1..Len(s) : s[i] = t[i]
    PROVE  IsPrefix(s, t)
  <1> DEFINE n == Len(s)
  <1>1. n \in 0..Len(t) /\ n \in 0..n
    BY LenProperties
  <1>2. SubSeq(s, 1, n) = s
    BY SubSeqFull
  <1>3. /\ SubSeq(t, 1, n) \in Seq(S) /\ Len(SubSeq(t, 1, n)) = n
        /\ \A j \in 1..n : SubSeq(t, 1, n)[j] = t[j]
    BY <1>1, Beginnings
  <1> DEFINE u == SubSeq(t, 1, n)
  <1> HIDE DEF u
  <1>4. u \in Seq(S) /\ Len(u) = Len(s) /\ \A j \in 1..Len(s) : u[j] = s[j]
    BY <1>3 DEF u
  <1>5. u = s
    BY <1>4, SeqEqual
  <1> QED
    BY <1>2, <1>5 DEF IsPrefix, u

LEMMA SuffixIs ==
    ASSUME NEW S, NEW s \in Seq(S), NEW t \in Seq(S), NEW d \in Nat, Len(t) = d + Len(s),
           \A i \in 1..Len(s) : s[i] = t[d + i]
    PROVE  IsSuffix(s, t)
  <1>1. ASSUME NEW x \in Seq(S)
        PROVE  /\ Reverse(x) \in Seq(S) /\ Len(Reverse(x)) = Len(x)
               /\ \A i \in 1..Len(x) : Reverse(x)[i] = x[(Len(x) - i) + 1]
    <2> DEFINE n == Len(x)
               y == [i \in 1..n |-> x[(n - i) + 1]]
    <2>1. n \in Nat
      BY LenProperties
    <2>2. \A i \in 1..n : (n - i) + 1 \in 1..n
      BY <2>1
    <2>3. \A i \in 1..n : x[(n - i) + 1] \in S
      BY <2>2, ElementOfSeq
    <2>4. Reverse(x) = y
      BY DEF Reverse
    <2> HIDE DEF n
    <2>5. y \in Seq(S) /\ Len(y) = n /\ \A i \in 1..n : y[i] = x[(n - i) + 1]
      BY <2>1, <2>3
    <2> HIDE DEF y
    <2> QED
      BY <2>4, <2>5 DEF n
  <1> DEFINE a == Reverse(s)
             b == Reverse(t)
             n == Len(s)
             m == Len(t)
  <1>2. a \in Seq(S) /\ b \in Seq(S) /\ Len(a) = n /\ Len(b) = m /\ n \in Nat /\ m \in Nat /\ m = d + n
    BY <1>1, LenProperties
  <1>3. ASSUME NEW i \in 1..n PROVE a[i] = b[i]
    <2>1. a[i] = s[(n - i) + 1]
      BY <1>1
    <2>2. i \in 1..m
      BY <1>2
    <2>3. b[i] = t[(m - i) + 1]
      BY <1>1, <2>2
    <2>4. (n - i) + 1 \in 1..n /\ (m - i) + 1 = d + ((n - i) + 1)
      BY <1>2
    <2> HIDE DEF a, b, m
    <2> QED
      BY <2>1, <2>3, <2>4
  <1>4. IsPrefix(a, b)
    <2> HIDE DEF a, b, m, n
    <2>1. Len(a) <= Len(b) /\ \A i \in 1..Len(a) : a[i] = b[i]
      BY <1>2, <1>3
    <2> QED
      BY <1>2, <2>1, PrefixIs
  <1> QED
    BY <1>4 DEF IsSuffix

LEMMA InvReady ==
    ASSUME Inv
    PROVE  DataNotReady
  <1>1. IsPrefix(got, sent)
    <2>1. got \in Seq(Requests) /\ sent \in Seq(Requests)
      BY DEF Inv, Types
    <2>2. Len(got) <= Len(sent) /\ \A i \in 1..Len(got) : got[i] = sent[i]
      BY DEF Inv, Progress
    <2> QED
      BY <2>1, <2>2, PrefixIs
  <1>2. ~open => Len(got) < Len(sent) /\ (sent[Len(got) + 1] = << >> \/ (out /\ Room(Nice(Buf)) = 0))
    BY DEF Inv, Closed, Following
  <1> QED
    BY <1>1, <1>2 DEF DataNotReady

LEMMA InvKept ==
    ASSUME Inv
    PROVE  BytesKept
  <1> DEFINE s == Bytes(mem, off + 1, size)
             n == Len(stream)
  <1>1. /\ off \in Nat /\ size \in Nat /\ Len(mem) \in Nat /\ off + size <= Len(mem) /\ mem \in Seq(Char)
        /\ n \in Nat /\ WasRead \in Nat /\ Before \in Nat
        /\ WasRead = Before + size /\ Len(Sent) = WasRead + n
    BY Numbers DEF Inv
  <1>2. stream \in Seq(Char) /\ Sent \in Seq(Char)
    BY SentFacts, SentIs DEF Inv, Types
  <1>3. s \in Seq(Char) /\ Len(s) = size /\ \A j \in 1..size : s[j] = mem[(off + 1) + j - 1]
    <2>1. off + 1 \in Nat /\ (off + 1) + size - 1 <= Len(mem) /\ off + 1 >= 1
      BY <1>1
    <2> QED
      BY <1>1, <2>1, BytesFacts
  <1>4. \A j \in 1..size : s[j] = Sent[Before + j]
    <2> SUFFICES ASSUME NEW j \in 1..size PROVE s[j] = Sent[Before + j]
      OBVIOUS
    <2>1. (off + 1) + j - 1 = off + j
      BY <1>1
    <2>2. mem[off + j] = Sent[Before + j]
      BY DEF Inv, Data
    <2> QED
      BY <1>3, <2>1, <2>2
  <1> DEFINE t == s \o stream
  <1> HIDE DEF s
  <1>5. /\ t \in Seq(Char) /\ Len(t) = size + n
        /\ \A j \in 1..size : t[j] = s[j]
        /\ \A j \in 1..n : t[size + j] = stream[j]
    BY <1>2, <1>3, ConcatPlaces, SMTT(40)
  <1> HIDE DEF t
  <1>6. \A j \in 1..(size + n) : t[j] = Sent[Before + j]
    <2> SUFFICES ASSUME NEW j \in 1..(size + n) PROVE t[j] = Sent[Before + j]
      OBVIOUS
    <2>1. CASE j <= size
      <3>1. j \in 1..size
        BY <1>1, <2>1
      <3> QED
        BY <1>4, <1>5, <3>1
    <2>2. CASE j > size
      <3> DEFINE i == j - size
      <3>1. i \in 1..n /\ j = size + i /\ Before + j = WasRead + i
        BY <1>1, <2>2
      <3> HIDE DEF i
      <3>2. stream[i] = Sent[WasRead + i]
        BY <3>1 DEF Inv, Data
      <3> QED
        BY <1>5, <3>1, <3>2
    <2> QED
      BY <1>1, <2>1, <2>2
  <1>7. Len(Sent) = Before + Len(t) /\ \A j \in 1..Len(t) : t[j] = Sent[Before + j]
    <2>1. Len(Sent) = Before + (size + n)
      BY <1>1
    <2> QED
      BY <1>5, <1>6, <2>1
  <1>8. IsSuffix(t, Sent)
    BY <1>1, <1>2, <1>5, <1>7, SuffixIs
  <1> QED
    BY <1>1, <1>8 DEF BytesKept, t, s

LEMMA InvForgotten ==
    ASSUME Inv
    PROVE  NothingForgotten
  <1> SUFFICES ASSUME open, ~ready, ~out PROVE NothingForgotten
    BY DEF NothingForgotten
  <1>1. Room(Nice(Buf)) > 0
    BY DEF Inv, Waiting
  <1>2. ASSUME stream = << >> PROVE got = sent
    <2>1. Len(stream) = 0 /\ sent \in Seq(Requests) /\ got \in Seq(Requests)
      BY <1>2, EmptySeq DEF Inv, Types
    <2>2. WasRead = Len(Sent) /\ Len(got) \in Nat /\ Len(sent) \in Nat /\ Len(got) <= Len(sent)
      BY <2>1, Numbers DEF Inv
    <2>3. Len(got) = Len(sent)
      <3> SUFFICES ASSUME Len(got) < Len(sent) PROVE FALSE
        BY <2>2
      <3> DEFINE i == Len(got) + 1
                 m == Len(sent)
      <3>1. i \in 0..m /\ m \in i..m /\ m \in 0..m
        BY <2>2
      <3>2. WasRead < EndOf(Enc(sent), i)
        BY SentIs DEF Inv, Waiting
      <3>3. EndOf(Enc(sent), i) <= EndOf(Enc(sent), m)
        BY <2>1, <3>1, SentOrdered
      <3>4. EndOf(Enc(sent), m) = WasRead /\ EndOf(Enc(sent), m) \in Nat /\ EndOf(Enc(sent), i) \in Nat
        BY <2>1, <2>2, <3>1, SentFacts, SentIs
      <3> QED
        BY <3>2, <3>3, <3>4
    <2>4. \A i \in 1..Len(got) : got[i] = sent[i]
      BY DEF Inv, Progress
    <2> QED
      BY <2>1, <2>3, <2>4, SeqEqual
  <1> QED
    BY <1>1, <1>2 DEF NothingForgotten

\* The invariant holds in every state: the data is the end of what was read,
\* the parser stands at the beginning of a piece, and where a piece is not
\* complete nothing behind the data is taken for its end.
THEOREM Invariance ==
    ASSUME Handled
    PROVE  Spec => []Inv
  <1>1. Init => Inv
    BY InitInv
  <1>2. Inv /\ [Next]_vars => Inv'
    BY InvStep
  <1> QED
    BY <1>1, <1>2, PTL DEF Spec

\* The types, and that the data lies within the buffer whatever is read, moved
\* and parsed: buf_in->size never wraps below zero.
THEOREM TypeCorrect ==
    ASSUME Handled
    PROVE  Spec => []Types
  <1>1. Inv => Types
    BY DEF Inv
  <1> QED
    BY <1>1, Invariance, PTL

\* Requests are parsed as they were sent, one after the other, and a client is
\* closed only for a line that is no request, or for sending ahead of the
\* responses until the buffer is full (etdb_resp_parse_req,
\* etdb_connect_read_to_buf).
THEOREM DataNotReadyHolds ==
    ASSUME Handled
    PROVE  Spec => []DataNotReady
  <1>1. Inv => DataNotReady
    BY InvReady
  <1> QED
    BY <1>1, Invariance, PTL

\* No byte is lost or changed where the buffer is moved, grown or consumed
\* (etdb_buf_nice, etdb_buf_grow, etdb_buf_consume).
THEOREM BytesKeptHolds ==
    ASSUME Handled
    PROVE  Spec => []BytesKept
  <1>1. Inv => BytesKept
    BY InvKept
  <1> QED
    BY <1>1, Invariance, PTL

\* When all is read and nothing is to be done, every request sent has been
\* parsed; and a connection that waits has room to read
\* (etdb_resp_recv_req).
THEOREM NothingForgottenHolds ==
    ASSUME Handled
    PROVE  Spec => []NothingForgotten
  <1>1. Inv => NothingForgotten
    BY InvForgotten
  <1> QED
    BY <1>1, Invariance, PTL

-----------------------------------------------------------------------------
(* The memory of a connection *)

Regions == [block : Nat, from : Nat, to : Nat]

\* The four fields of a pool; what is in large plays no part here
Shape(p) ==
    /\ p = [blocks |-> p.blocks, current |-> p.current, large |-> p.large, used |-> p.used]
    /\ p.blocks \in Seq([last : Nat, failed : Nat])
    /\ p.current \in 1..Len(p.blocks)
    /\ p.used \in SUBSET Regions

Bounded(p) ==
    \A i \in 1..Len(p.blocks) : HeadSize(i) <= p.blocks[i].last /\ p.blocks[i].last <= PoolSize

\* A block that is still looked at has failed once for every block behind it
\* but one: the last two have not
Counted(p) ==
    /\ \A i \in p.current..(Len(p.blocks) - 1) : p.blocks[i].failed = Len(p.blocks) - 1 - i
    /\ p.blocks[Len(p.blocks)].failed = 0
    /\ Len(p.blocks) - p.current <= 6

PoolOK(p) == Shape(p) /\ Bounded(p) /\ Inside(p) /\ Apart(p) /\ Counted(p)

\* What an allocation of that many bytes gives: a region that was not in use
Served(p, g, bytes) ==
    /\ PoolOK(g.pool)
    /\ p.used \subseteq g.pool.used
    /\ g.at \in g.pool.used /\ g.at.to - g.at.from = bytes

-----------------------------------------------------------------------------
(* Numbers *)

LEMMA Sizes ==
    /\ MaxSmall \in Nat /\ ConnSize <= MaxSmall
    /\ MaxSmall + PoolHead <= PoolSize
    /\ PoolSize \in Nat
  BY PoolAssumption DEF MaxSmall, PoolHead, ConnSize

LEMMA AlignFacts ==
  ASSUME NEW n \in Nat
  PROVE  Align(n) \in Nat /\ n <= Align(n)
  BY DEF Align

\* With blocks of a multiple of eight bytes aligning stays within the block
LEMMA AlignInBlock ==
  ASSUME NEW n \in Nat, n <= PoolSize
  PROVE  Align(n) <= PoolSize
  BY PoolAssumption DEF Align

LEMMA FitFacts ==
  ASSUME NEW b \in [last : Nat, failed : Nat], b.last <= PoolSize, NEW bytes \in Nat, Fits(b, bytes)
  PROVE  /\ Align(b.last) \in Nat /\ b.last <= Align(b.last)
         /\ Align(b.last) + bytes <= PoolSize
<1>1. b.last \in Nat
  OBVIOUS
<1>2. Align(b.last) \in Nat /\ b.last <= Align(b.last) /\ Align(b.last) <= PoolSize
  BY <1>1, AlignFacts, AlignInBlock
<1> QED BY <1>2, PoolAssumption DEF Fits

-----------------------------------------------------------------------------
(* Pools *)

LEMMA SeqElement ==
  ASSUME NEW S, NEW b \in Seq(S), NEW i \in 1..Len(b) PROVE b[i] \in S
  OBVIOUS

LEMMA SeqMade ==
  ASSUME NEW S, NEW n \in Nat, NEW f \in [1..n -> S] PROVE f \in Seq(S) /\ Len(f) = n
  OBVIOUS

LEMMA BlockFacts ==
  ASSUME NEW b \in Seq([last : Nat, failed : Nat])
  PROVE  /\ Len(b) \in Nat /\ DOMAIN b = 1..Len(b)
         /\ \A i \in 1..Len(b) : /\ b[i] \in [last : Nat, failed : Nat]
                                 /\ b[i].last \in Nat /\ b[i].failed \in Nat
<1>1. \A i \in 1..Len(b) : b[i] \in [last : Nat, failed : Nat]
  BY SeqElement
<1> QED BY <1>1

LEMMA ShapeFacts ==
  ASSUME NEW p, Shape(p)
  PROVE  /\ Len(p.blocks) \in Nat /\ DOMAIN p.blocks = 1..Len(p.blocks)
         /\ p.current \in 1..Len(p.blocks)
         /\ \A i \in 1..Len(p.blocks) : /\ p.blocks[i] \in [last : Nat, failed : Nat]
                                        /\ p.blocks[i].last \in Nat
                                        /\ p.blocks[i].failed \in Nat
<1>1. p.blocks \in Seq([last : Nat, failed : Nat]) /\ p.current \in 1..Len(p.blocks)
  BY DEF Shape
<1> QED BY <1>1, BlockFacts

LEMMA CreatePoolOK == PoolOK(CreatePool)
<1>1. CreatePool.blocks = <<[last |-> PoolHead, failed |-> 0]>> /\ CreatePool.current = 1
      /\ CreatePool.used = {} /\ CreatePool.large = << >>
  BY DEF CreatePool
<1>2. Shape(CreatePool)
  BY <1>1 DEF Shape, CreatePool, PoolHead
<1>3. Bounded(CreatePool) /\ Inside(CreatePool) /\ Apart(CreatePool) /\ Counted(CreatePool)
  BY <1>1, PoolAssumption DEF Bounded, Inside, Apart, Counted, HeadSize, PoolHead, ConnSize
<1> QED BY <1>2, <1>3 DEF PoolOK

\* At most seven blocks are looked at, so one of those that fit is the first
LEMMA FirstFitFacts ==
  ASSUME NEW p, Shape(p), Counted(p), NEW bytes, Fitting(p, bytes) # {}
  PROVE  FirstFit(p, bytes) \in Fitting(p, bytes)
<1> DEFINE F == Fitting(p, bytes)
<1>1. \A i \in F : i \in Int /\ p.current <= i /\ i <= p.current + 6
  BY DEF Shape, Counted, Fitting
<1>2. p.current \in Int
  BY DEF Shape
<1>3. \E i \in F : \A j \in F : i <= j
  <2>1. SUFFICES ASSUME \A i \in F : \E j \in F : j < i PROVE FALSE
    BY <1>1
  <2> HIDE DEF F
  <2>2. PICK a \in F : a <= p.current + 6
    BY <1>1 DEF F
  <2>3. PICK b \in F : b <= p.current + 5
    BY <2>1, <2>2, <1>1, <1>2
  <2>4. PICK c \in F : c <= p.current + 4
    BY <2>1, <2>3, <1>1, <1>2
  <2>5. PICK d \in F : d <= p.current + 3
    BY <2>1, <2>4, <1>1, <1>2
  <2>6. PICK e \in F : e <= p.current + 2
    BY <2>1, <2>5, <1>1, <1>2
  <2>7. PICK f \in F : f <= p.current + 1
    BY <2>1, <2>6, <1>1, <1>2
  <2>8. PICK g \in F : g <= p.current
    BY <2>1, <2>7, <1>1, <1>2
  <2> QED BY <2>1, <2>8, <1>1, <1>2
<1> QED BY <1>3 DEF FirstFit

\* The new region r of an allocation lies behind d.last of its block
LEMMA AddRegion ==
  ASSUME NEW p, PoolOK(p), NEW q, Shape(q), Bounded(q),
         NEW r \in Regions, q.used = p.used \cup {r},
         Len(p.blocks) <= Len(q.blocks),
         r.block \in 1..Len(q.blocks), HeadSize(r.block) <= r.from, r.from < r.to,
         r.block \in 1..Len(p.blocks) => p.blocks[r.block].last <= r.from,
         q.blocks[r.block].last = r.to,
         \A i \in 1..Len(p.blocks) : i # r.block => q.blocks[i].last = p.blocks[i].last
  PROVE  Inside(q) /\ Apart(q)
<1>1. DOMAIN p.blocks = 1..Len(p.blocks) /\ DOMAIN q.blocks = 1..Len(q.blocks)
  BY DEF PoolOK, Shape
<1>2. \A s \in p.used : /\ s \in Regions /\ s.block \in 1..Len(p.blocks)
                        /\ HeadSize(s.block) <= s.from /\ s.from < s.to
                        /\ s.to <= p.blocks[s.block].last
  BY <1>1 DEF PoolOK, Inside, Shape
<1>3. \A i \in 1..Len(p.blocks) : p.blocks[i].last \in Nat
  BY ShapeFacts DEF PoolOK
<1>4. Len(p.blocks) \in Nat /\ Len(q.blocks) \in Nat
  BY ShapeFacts DEF PoolOK
<1>5. \A s \in p.used : s.block = r.block => s.to <= r.from
  BY <1>2, <1>3 DEF Regions
<1>6. Inside(q)
  <2>1. \A s \in p.used : s.block \in 1..Len(q.blocks) /\ s.to <= q.blocks[s.block].last
    BY SMTT(30), <1>2, <1>3, <1>4, <1>5 DEF Regions
  <2>2. \A i \in 1..Len(q.blocks) : q.blocks[i].last <= PoolSize
    BY DEF Bounded
  <2> QED BY <1>1, <1>2, <2>1, <2>2 DEF Inside, Regions
<1>7. Apart(q)
  BY <1>5 DEF PoolOK, Apart
<1> QED BY <1>6, <1>7

\* etdb_palloc_block: the new block is the last, and current goes on
LEMMA NewCurrentFacts ==
  ASSUME NEW p, Shape(p), Counted(p)
  PROVE  /\ NewCurrent(p) \in p.current..Len(p.blocks)
         /\ Len(p.blocks) + 1 - NewCurrent(p) <= 6
<1> DEFINE n == Len(p.blocks)
           Good(c) == /\ \A i \in c..(n - 1) : ~ Passed(p.blocks[i])
                      /\ c = p.current \/ Passed(p.blocks[c - 1])
<1>1. n \in Nat /\ p.current \in 1..n
  BY ShapeFacts
<1>2. \A i \in p.current..(n - 1) : Passed(p.blocks[i]) <=> n - 1 - i > 4
  BY DEF Counted, Passed
<1>3. \E c \in p.current..n : Good(c)
  <2>1. CASE p.current >= n - 5
    BY <1>1, <1>2, <2>1
  <2>2. CASE p.current < n - 5
    <3>1. n - 5 \in p.current..n /\ n - 6 \in p.current..(n - 1) /\ (n - 5) - 1 = n - 6
      BY <1>1, <2>2
    <3>2. Passed(p.blocks[n - 6])
      <4> HIDE DEF n
      <4>1. n - 1 - (n - 6) > 4
        BY <1>1
      <4> QED BY <1>2, <3>1, <4>1
    <3>3. \A i \in (n - 5)..(n - 1) : ~ Passed(p.blocks[i])
      BY <1>1, <1>2, <2>2
    <3> QED BY <3>1, <3>2, <3>3
  <2> QED BY <1>1, <2>1, <2>2
<1>4. NewCurrent(p) \in p.current..n /\ Good(NewCurrent(p))
  BY <1>3 DEF NewCurrent
<1>5. n + 1 - NewCurrent(p) <= 6
  <2>1. CASE NewCurrent(p) = n
    BY <2>1, <1>1
  <2>2. CASE NewCurrent(p) # n
    BY <2>2, <1>1, <1>2, <1>4
  <2> QED BY <2>1, <2>2
<1> QED BY <1>4, <1>5

LEMMA PallocBlockOK ==
  ASSUME NEW p, PoolOK(p), NEW bytes \in Nat, 0 < bytes, bytes <= MaxSmall
  PROVE  Served(p, PallocBlock(p, bytes), bytes)
<1> DEFINE n == Len(p.blocks)
           r == Region(n + 1, BlockHead, bytes)
           q == PallocBlock(p, bytes).pool
           b == [i \in 1..(n + 1) |->
                   IF i = n + 1 THEN [last |-> r.to, failed |-> 0]
                   ELSE [last |-> p.blocks[i].last,
                         failed |-> IF i \in p.current..(n - 1) THEN p.blocks[i].failed + 1
                                    ELSE p.blocks[i].failed]]
<1>1. /\ Shape(p) /\ Counted(p) /\ Bounded(p)
      /\ n \in Nat /\ p.current \in 1..n
      /\ \A i \in 1..n : p.blocks[i].last \in Nat /\ p.blocks[i].failed \in Nat
  BY ShapeFacts DEF PoolOK
<1>2. /\ r \in Regions /\ r.block = n + 1 /\ r.from = 32 /\ r.to = 32 + bytes
  BY <1>1 DEF Region, Regions, BlockHead
<1>3. q = [blocks |-> b, current |-> NewCurrent(p), large |-> p.large, used |-> p.used \cup {r}]
      /\ PallocBlock(p, bytes).at = r
  BY DEF PallocBlock, Got
<1>4. q.blocks = b /\ q.current = NewCurrent(p) /\ q.large = p.large /\ q.used = p.used \cup {r}
  BY <1>3
<1>5. b \in Seq([last : Nat, failed : Nat]) /\ Len(b) = n + 1
  <2>1. \A i \in 1..(n + 1) : b[i] \in [last : Nat, failed : Nat]
    BY <1>1, <1>2
  <2>2. DOMAIN b = 1..(n + 1) /\ b = [i \in 1..(n + 1) |-> b[i]]
    OBVIOUS
  <2> HIDE DEF b, n
  <2>3. b \in [1..(n + 1) -> [last : Nat, failed : Nat]] /\ n + 1 \in Nat
    BY <2>1, <2>2, <1>1
  <2> QED BY <2>3, SeqMade
<1>6. NewCurrent(p) \in p.current..n /\ n + 1 - NewCurrent(p) <= 6
  BY <1>1, NewCurrentFacts
<1>7. Shape(q)
  <2>1. q.used \in SUBSET Regions
    BY <1>1, <1>2, <1>4 DEF Shape
  <2>2. q.current \in 1..Len(q.blocks)
    BY <1>1, <1>4, <1>5, <1>6
  <2> QED BY <1>3, <1>4, <1>5, <2>1, <2>2 DEF Shape
<1>8. \A i \in 1..n : b[i].last = p.blocks[i].last
  BY <1>1
<1>9. b[n + 1].last = 32 + bytes /\ b[n + 1].failed = 0
  BY <1>1, <1>2
<1>10. Bounded(q)
  BY <1>1, <1>4, <1>5, <1>8, <1>9, Sizes DEF Bounded, HeadSize, BlockHead, PoolHead
<1>11. Counted(q)
  <2>1. \A i \in p.current..(n - 1) : b[i].failed = p.blocks[i].failed + 1
    BY <1>1
  <2>2. b[n].failed = p.blocks[n].failed
    BY <1>1
  <2>3. \A i \in p.current..(n - 1) : p.blocks[i].failed = n - 1 - i
    BY <1>1 DEF Counted
  <2>4. b[n].failed = 0
    BY <1>1, <2>2 DEF Counted
  <2> HIDE DEF b, q, n
  <2>5. \A i \in NewCurrent(p)..n : b[i].failed = n - i
    <3> SUFFICES ASSUME NEW i \in NewCurrent(p)..n
                 PROVE  b[i].failed = n - i
      OBVIOUS
    <3>1. n \in Nat /\ p.current \in Nat /\ NewCurrent(p) \in p.current..n
      BY <1>1, <1>6
    <3>2. CASE i = n
      BY <2>4, <3>1, <3>2
    <3>3. CASE i # n
      <4>1. i \in p.current..(n - 1)
        BY <3>1, <3>3
      <4>2. b[i].failed = p.blocks[i].failed + 1 /\ p.blocks[i].failed = n - 1 - i
        BY <2>1, <2>3, <4>1
      <4> QED
        BY <3>1, <4>1, <4>2
    <3> QED
      BY <3>2, <3>3
  <2>6. (n + 1) - 1 = n
    BY <1>1
  <2>7. Len(q.blocks) = n + 1 /\ q.blocks = b /\ q.current = NewCurrent(p)
    BY <1>4, <1>5
  <2>8. \A i \in q.current..(Len(q.blocks) - 1) : q.blocks[i].failed = Len(q.blocks) - 1 - i
    BY <2>5, <2>6, <2>7
  <2>9. q.blocks[Len(q.blocks)].failed = 0
    BY <1>9, <2>7
  <2>10. Len(q.blocks) - q.current <= 6
    <3>1. n + 1 \in Nat /\ NewCurrent(p) \in Nat /\ (n + 1) - NewCurrent(p) <= 6
      BY <1>1, <1>6
    <3>2. Len(q.blocks) - q.current = (n + 1) - NewCurrent(p)
      BY <2>7, Zenon
    <3> QED BY <3>1, <3>2, Zenon
  <2> QED BY <2>8, <2>9, <2>10 DEF Counted
<1>12. Inside(q) /\ Apart(q)
  <2> HIDE DEF q, b, r
  <2>1. HeadSize(r.block) <= r.from /\ r.from < r.to
    BY <1>1, <1>2 DEF HeadSize, BlockHead
  <2>2. Len(p.blocks) <= Len(q.blocks) /\ r.block \in 1..Len(q.blocks)
        /\ r.block \notin 1..Len(p.blocks)
    <3>1. n <= n + 1 /\ n + 1 \in 1..(n + 1) /\ n + 1 \notin 1..n
      BY <1>1
    <3> QED BY <1>2, <1>4, <1>5, <3>1
  <2>3. q.blocks[r.block].last = r.to
    BY <1>2, <1>4, <1>9
  <2>4. \A i \in 1..Len(p.blocks) : q.blocks[i].last = p.blocks[i].last
    BY <1>4, <1>8
  <2> QED BY <1>2, <1>4, <1>7, <1>10, <2>1, <2>2, <2>3, <2>4, AddRegion
<1> QED BY <1>2, <1>3, <1>4, <1>7, <1>10, <1>11, <1>12 DEF PoolOK, Served

\* A block whose d.last goes up, within the block
Raise(p, i, to, u) ==
    [blocks |-> [p.blocks EXCEPT ![i] = [last |-> to, failed |-> @.failed]],
     current |-> p.current, large |-> p.large, used |-> u]

LEMMA Raised ==
  ASSUME NEW p, PoolOK(p), NEW i \in 1..Len(p.blocks), NEW to \in Nat,
         p.blocks[i].last <= to, to <= PoolSize, NEW u \in SUBSET Regions,
         NEW q, q = Raise(p, i, to, u)
  PROVE  /\ Shape(q) /\ Bounded(q) /\ Counted(q)
         /\ Len(q.blocks) = Len(p.blocks) /\ q.blocks[i].last = to
         /\ \A j \in 1..Len(p.blocks) : j # i => q.blocks[j].last = p.blocks[j].last
<1> DEFINE n == Len(p.blocks)
           b == [p.blocks EXCEPT ![i] = [last |-> to, failed |-> @.failed]]
<1>1. /\ Shape(p) /\ Bounded(p) /\ Counted(p)
      /\ n \in Nat /\ DOMAIN p.blocks = 1..n /\ p.current \in 1..n
      /\ \A j \in 1..n : /\ p.blocks[j] \in [last : Nat, failed : Nat]
                         /\ p.blocks[j].last \in Nat /\ p.blocks[j].failed \in Nat
  BY ShapeFacts DEF PoolOK
<1>2. /\ q.blocks = b /\ q.current = p.current /\ q.used = u /\ q.large = p.large
      /\ q = [blocks |-> q.blocks, current |-> q.current, large |-> q.large, used |-> q.used]
  BY DEF Raise
<1>3. /\ DOMAIN b = 1..n
      /\ \A j \in 1..n : b[j] = IF j = i THEN [last |-> to, failed |-> p.blocks[i].failed]
                               ELSE p.blocks[j]
  BY <1>1
<1>4. b \in [1..n -> [last : Nat, failed : Nat]]
  <2>1. b = [j \in 1..n |-> b[j]]
    BY <1>3
  <2>2. \A j \in 1..n : b[j] \in [last : Nat, failed : Nat]
    BY <1>1, <1>3
  <2> HIDE DEF b
  <2> QED BY <2>1, <2>2
<1>5. b \in Seq([last : Nat, failed : Nat]) /\ Len(b) = n
  <2> HIDE DEF b, n
  <2> QED BY <1>1, <1>4, SeqMade
<1>6. \A j \in 1..n : /\ b[j].failed = p.blocks[j].failed
                     /\ b[j].last = IF j = i THEN to ELSE p.blocks[j].last
  BY <1>1, <1>3
<1> HIDE DEF b, n
<1>7. Shape(q)
  BY <1>1, <1>2, <1>5 DEF Shape
<1>8. Bounded(q)
  <2>1. HeadSize(i) <= p.blocks[i].last /\ HeadSize(i) \in Nat
    BY <1>1 DEF Bounded, HeadSize, PoolHead, BlockHead, n
  <2>2. HeadSize(i) <= to
    BY <2>1, <1>1 DEF n
  <2> QED BY <1>1, <1>2, <1>5, <1>6, <2>2 DEF Bounded, n
<1>9. Counted(q)
  <2>1. n - 1 \in Int /\ \A j \in p.current..(n - 1) : j \in 1..n
    BY <1>1
  <2>2. n \in 1..n
    BY <1>1
  <2>3. \A j \in p.current..(n - 1) : b[j].failed = n - 1 - j
    BY <1>1, <1>6, <2>1 DEF Counted, n
  <2>4. b[n].failed = 0 /\ n - p.current <= 6
    BY <1>1, <1>6, <2>2 DEF Counted, n
  <2> QED BY <1>2, <1>5, <2>3, <2>4 DEF Counted
<1> QED BY <1>2, <1>5, <1>6, <1>7, <1>8, <1>9 DEF n

\* etdb_palloc of at most pool->max
LEMMA PallocSmallOK ==
  ASSUME NEW p, PoolOK(p), NEW bytes \in Nat, 0 < bytes, bytes <= MaxSmall
  PROVE  Served(p, PallocSmall(p, bytes), bytes)
<1>1. CASE Fitting(p, bytes) = {}
  BY <1>1, PallocBlockOK DEF PallocSmall
<1>2. CASE Fitting(p, bytes) # {}
  <2> DEFINE i == FirstFit(p, bytes)
             r == Region(i, Align(p.blocks[i].last), bytes)
             q == PallocSmall(p, bytes).pool
  <2>1. Shape(p) /\ Bounded(p) /\ Counted(p)
    BY DEF PoolOK
  <2>2. i \in Fitting(p, bytes)
    BY <1>2, <2>1, FirstFitFacts
  <2>3. i \in 1..Len(p.blocks) /\ Fits(p.blocks[i], bytes)
    <3> HIDE DEF i
    <3> QED BY <2>1, <2>2, ShapeFacts DEF Fitting
  <2>4. q = Raise(p, i, r.to, p.used \cup {r}) /\ PallocSmall(p, bytes).at = r
    BY <1>2 DEF PallocSmall, Got, Raise
  <2> HIDE DEF i, q
  <2>5. p.blocks[i] \in [last : Nat, failed : Nat] /\ p.blocks[i].last \in Nat
    BY <2>1, <2>3, ShapeFacts
  <2>6. HeadSize(i) <= p.blocks[i].last /\ p.blocks[i].last <= PoolSize /\ HeadSize(i) \in Nat
    BY <2>1, <2>3 DEF Bounded, HeadSize, PoolHead, BlockHead
  <2>7. /\ Align(p.blocks[i].last) \in Nat /\ p.blocks[i].last <= Align(p.blocks[i].last)
        /\ Align(p.blocks[i].last) + bytes <= PoolSize
    BY <2>3, <2>5, <2>6, FitFacts
  <2>8. /\ r \in Regions /\ r.block = i /\ r.from = Align(p.blocks[i].last)
        /\ r.to = r.from + bytes
    BY <2>1, <2>3, <2>7, ShapeFacts DEF Region, Regions
  <2> HIDE DEF r
  <2>9. /\ r.to \in Nat /\ p.blocks[i].last <= r.to /\ r.to <= PoolSize
        /\ HeadSize(i) <= r.from /\ r.from < r.to /\ p.blocks[i].last <= r.from
        /\ r.to - r.from = bytes
    BY <2>5, <2>6, <2>7, <2>8, Sizes
  <2>10. p.used \cup {r} \in SUBSET Regions
    BY <2>1, <2>8 DEF Shape
  <2>11. /\ Shape(q) /\ Bounded(q) /\ Counted(q)
         /\ Len(q.blocks) = Len(p.blocks) /\ q.blocks[i].last = r.to
         /\ \A j \in 1..Len(p.blocks) : j # i => q.blocks[j].last = p.blocks[j].last
    BY SMTT(30), <2>3, <2>4, <2>9, <2>10, Raised
  <2>12. q.used = p.used \cup {r}
    BY <2>4 DEF Raise
  <2>13. Len(p.blocks) <= Len(q.blocks)
    BY <2>1, <2>11, ShapeFacts
  <2>14. Inside(q) /\ Apart(q)
    BY <2>3, <2>8, <2>9, <2>11, <2>12, <2>13, AddRegion
  <2>15. PoolOK(q)
    BY <2>11, <2>14 DEF PoolOK
  <2>16. PallocSmall(p, bytes).at = r /\ PallocSmall(p, bytes).pool = q
    BY <2>4 DEF q
  <2> QED BY <2>9, <2>12, <2>15, <2>16 DEF Served
<1> QED BY <1>1, <1>2

\* The list of chunks may change
LEMMA OtherChunks ==
  ASSUME NEW p, PoolOK(p), NEW l
  PROVE  PoolOK([p EXCEPT !.large = l]) /\ [p EXCEPT !.large = l].used = p.used
<1> DEFINE q == [p EXCEPT !.large = l]
<1>1. p = [blocks |-> p.blocks, current |-> p.current, large |-> p.large, used |-> p.used]
  BY DEF PoolOK, Shape
<1>2. q = [blocks |-> p.blocks, current |-> p.current, large |-> l, used |-> p.used]
  BY <1>1
<1>3. q.blocks = p.blocks /\ q.current = p.current /\ q.large = l /\ q.used = p.used
  BY <1>2
<1>4. Shape(q)
  BY <1>2, <1>3 DEF PoolOK, Shape
<1> HIDE DEF q
<1>5. Bounded(q) /\ Inside(q) /\ Apart(q) /\ Counted(q)
  BY <1>3 DEF PoolOK, Bounded, Inside, Apart, Counted
<1> QED BY <1>3, <1>4, <1>5 DEF PoolOK, q

LEMMA PallocLargeOK ==
  ASSUME NEW p, PoolOK(p), NEW chunk
  PROVE  /\ PoolOK(PallocLarge(p, chunk).pool)
         /\ p.used \subseteq PallocLarge(p, chunk).pool.used
         /\ PallocLarge(p, chunk).at.block = 0
<1> DEFINE free == {k \in DOMAIN p.large : k <= 5 /\ p.large[k] = NoChunk}
           s == PallocSmall(p, LargeSize)
<1>1. 0 < LargeSize /\ LargeSize <= MaxSmall /\ LargeSize \in Nat
  BY Sizes DEF LargeSize, ConnSize
<1>2. PoolOK(s.pool) /\ p.used \subseteq s.pool.used
  BY <1>1, PallocSmallOK DEF Served
<1> HIDE DEF s
<1>3. PallocLarge(p, chunk).at.block = 0
  BY DEF PallocLarge, Got
<1>4. \E q, l : PoolOK(q) /\ p.used \subseteq q.used
                 /\ PallocLarge(p, chunk).pool = [q EXCEPT !.large = l]
  <2>1. CASE free # {}
    <3> DEFINE k == CHOOSE k \in free : \A j \in free : k <= j
    <3>1. PallocLarge(p, chunk).pool = [p EXCEPT !.large = [@ EXCEPT ![k] = chunk]]
      BY <2>1 DEF PallocLarge, Got
    <3> HIDE DEF k
    <3> QED BY <3>1
  <2>2. CASE free = {}
    <3>1. PallocLarge(p, chunk).pool = [s.pool EXCEPT !.large = <<chunk>> \o @]
      BY <2>2 DEF PallocLarge, Got, s
    <3> QED BY <1>2, <3>1
  <2> QED BY <2>1, <2>2
<1> QED BY <1>3, <1>4, OtherChunks

\* etdb_palloc: a region, or a chunk of its own
LEMMA PallocOK ==
  ASSUME NEW p, PoolOK(p), NEW bytes \in Nat, 0 < bytes, NEW chunk
  PROVE  LET g == Palloc(p, bytes, chunk)
         IN  /\ PoolOK(g.pool) /\ p.used \subseteq g.pool.used
             /\ \/ g.at.block = 0
                \/ g.at \in g.pool.used /\ g.at.to - g.at.from = bytes
<1>1. CASE bytes <= MaxSmall
  BY <1>1, PallocSmallOK DEF Palloc, Served
<1>2. CASE ~ (bytes <= MaxSmall)
  BY <1>2, PallocLargeOK DEF Palloc
<1> QED BY <1>1, <1>2

-----------------------------------------------------------------------------
(* Stacks *)

\* The stack s lies in the pool p, in a region as long as it may grow without
\* another allocation, or in a chunk of its own
Holds(p, a, nalloc) ==
    /\ nalloc \in Nat /\ nalloc > 0
    /\ a.block # 0 => a \in p.used /\ a.to - a.from = nalloc
Held(p, s) ==
    /\ s = [at |-> s.at, nalloc |-> s.nalloc, nelts |-> s.nelts]
    /\ Holds(p, s.at, s.nalloc)
    /\ s.nelts \in Nat /\ s.nelts <= s.nalloc

LEMMA StackInitOK ==
  ASSUME NEW p, PoolOK(p)
  PROVE  LET s == StackInit(p)
         IN  PoolOK(s.pool) /\ Holds(s.pool, s.at, s.nalloc) /\ s.nelts = 0
<1>1. 1 <= MaxSmall
  BY Sizes DEF ConnSize
<1>2. Served(p, PallocSmall(p, 1), 1)
  BY <1>1, PallocSmallOK
<1> QED BY <1>2 DEF StackInit, Served, Holds

\* etdb_stack_push in place: all other regions of the first block end where
\* the stack begins or before
LEMMA GrowInPlaceOK ==
  ASSUME NEW p, PoolOK(p), NEW s, Held(p, s), NEW chunk, InPlace(p, s)
  PROVE  LET g == StackGrow(p, s, chunk)
         IN  PoolOK(g.pool) /\ Holds(g.pool, g.at, g.nalloc) /\ g.nalloc = s.nalloc + 1
<1> DEFINE g == StackGrow(p, s, chunk)
           r == [s.at EXCEPT !.to = @ + 1]
           u == (p.used \ {s.at}) \cup {r}
           q == g.pool
<1>1. /\ Shape(p) /\ Bounded(p) /\ Inside(p) /\ Apart(p)
      /\ Len(p.blocks) \in Nat /\ DOMAIN p.blocks = 1..Len(p.blocks)
      /\ 1 \in 1..Len(p.blocks) /\ p.blocks[1].last \in Nat
      /\ p.used \in SUBSET Regions
  <2>1. Shape(p)
    BY DEF PoolOK
  <2>2. 1 \in 1..Len(p.blocks)
    BY <2>1, ShapeFacts
  <2> QED BY <2>1, <2>2, ShapeFacts DEF PoolOK, Shape
<1>2. /\ s.at \in p.used /\ s.at \in Regions /\ s.at.block = 1
      /\ s.at.to = p.blocks[1].last /\ p.blocks[1].last + 1 <= PoolSize
      /\ s.at.to - s.at.from = s.nalloc /\ s.nalloc \in Nat
  BY <1>1 DEF Held, Holds, InPlace
<1>3. /\ r \in Regions /\ r.block = 1 /\ r.from = s.at.from /\ r.to = s.at.to + 1
  BY <1>2 DEF Regions
<1>4. q = Raise(p, 1, r.to, u) /\ g.at = r /\ g.nalloc = s.nalloc + 1
  BY DEF StackGrow, Raise
<1> HIDE DEF g, q, r
<1>5. u \in SUBSET Regions /\ r.to \in Nat /\ p.blocks[1].last <= r.to /\ r.to <= PoolSize
  BY <1>1, <1>2, <1>3 DEF Regions
<1> HIDE DEF u
<1>6. /\ Shape(q) /\ Bounded(q) /\ Counted(q)
      /\ Len(q.blocks) = Len(p.blocks) /\ q.blocks[1].last = r.to
      /\ \A j \in 1..Len(p.blocks) : j # 1 => q.blocks[j].last = p.blocks[j].last
  BY <1>1, <1>4, <1>5, Raised
<1>7. q.used = u /\ DOMAIN q.blocks = 1..Len(p.blocks)
  BY <1>4, <1>6, ShapeFacts DEF Raise
<1>8. \A t \in p.used : /\ t \in Regions /\ t.block \in 1..Len(p.blocks)
                        /\ HeadSize(t.block) <= t.from /\ t.from < t.to
                        /\ t.to <= p.blocks[t.block].last
  BY <1>1 DEF Inside
<1>9. \A t \in p.used : t # s.at /\ t.block = 1 => t.to <= r.from
  <2>1. SUFFICES ASSUME NEW t \in p.used, t # s.at, t.block = 1 PROVE t.to <= s.at.from
    BY <1>3
  <2>2. t.to <= s.at.from \/ s.at.to <= t.from
    BY <1>1, <1>2, <2>1 DEF Apart
  <2>3. t.to <= s.at.to /\ t.from < t.to /\ t.from \in Nat /\ t.to \in Nat /\ s.at.to \in Nat
    BY <1>2, <1>8, <2>1 DEF Regions
  <2> QED BY <2>2, <2>3
<1>10. Inside(q)
  <2>1. \A t \in p.used \ {s.at} :
           t.block \in 1..Len(p.blocks) /\ t.to <= q.blocks[t.block].last
    <3>1. SUFFICES ASSUME NEW t \in p.used, t # s.at PROVE t.to <= q.blocks[t.block].last
      BY <1>8
    <3>2. t.to \in Nat /\ t.to <= p.blocks[t.block].last /\ t.block \in 1..Len(p.blocks)
      BY <1>8 DEF Regions
    <3>3. CASE t.block = 1
      BY <1>1, <1>5, <1>6, <3>2, <3>3
    <3>4. CASE t.block # 1
      BY <1>6, <3>2, <3>4
    <3> QED BY <3>3, <3>4
  <2>2. HeadSize(r.block) <= r.from /\ r.from < r.to /\ r.to <= q.blocks[r.block].last
    BY <1>2, <1>3, <1>5, <1>6, <1>8 DEF Regions
  <2>3. \A j \in 1..Len(p.blocks) : q.blocks[j].last <= PoolSize
    BY <1>6 DEF Bounded
  <2> QED BY <1>1, <1>3, <1>7, <1>8, <2>1, <2>2, <2>3 DEF Inside, u
<1>11. Apart(q)
  BY <1>1, <1>3, <1>7, <1>9 DEF Apart, u
<1>12. r \in q.used /\ r.to - r.from = s.nalloc + 1
  <2>1. s.at.to \in Nat /\ s.at.from \in Nat
    BY <1>2 DEF Regions
  <2>2. (s.at.to + 1) - s.at.from = (s.at.to - s.at.from) + 1
    BY <2>1
  <2> QED BY <1>2, <1>3, <1>7, <2>2 DEF u
<1>13. PoolOK(q)
  BY <1>6, <1>10, <1>11 DEF PoolOK
<1>14. Holds(q, g.at, g.nalloc)
  BY <1>2, <1>4, <1>12 DEF Holds, Held
<1> QED BY <1>4, <1>13, <1>14 DEF g, q

LEMMA StackGrowOK ==
  ASSUME NEW p, PoolOK(p), NEW s, Held(p, s), NEW chunk
  PROVE  LET g == StackGrow(p, s, chunk)
         IN  PoolOK(g.pool) /\ Holds(g.pool, g.at, g.nalloc) /\ g.nalloc > s.nalloc
<1>1. CASE InPlace(p, s)
  BY <1>1, GrowInPlaceOK DEF Held, Holds
<1>2. CASE ~ InPlace(p, s)
  <2> DEFINE g == Palloc(p, 2 * s.nalloc, chunk)
  <2>1. s.nalloc \in Nat /\ s.nalloc > 0
    BY DEF Held, Holds
  <2>2. 2 * s.nalloc \in Nat /\ 0 < 2 * s.nalloc /\ 2 * s.nalloc > s.nalloc
    BY <2>1
  <2>3. /\ PoolOK(g.pool)
        /\ g.at.block = 0 \/ (g.at \in g.pool.used /\ g.at.to - g.at.from = 2 * s.nalloc)
    BY <2>2, PallocOK
  <2>4. StackGrow(p, s, chunk) = [pool |-> g.pool, at |-> g.at, nalloc |-> 2 * s.nalloc]
    BY <1>2 DEF StackGrow
  <2> HIDE DEF g
  <2> QED BY <2>2, <2>3, <2>4 DEF Holds
<1> QED BY <1>1, <1>2

-----------------------------------------------------------------------------
(* The connection *)

\* The pools are whole, and the stack exists while a search runs
MemInv ==
    /\ at \in {"closed", "idle", "parse", "exec", "search", "send"}
    /\ at # "closed" => PoolOK(pool)
    /\ at = "closed" => pool = NoPool
    /\ temp = NoPool \/ PoolOK(temp)
    /\ at \in {"exec", "search", "send"} => PoolOK(temp)
    /\ at = "search" => Held(temp, stack)
    /\ at # "search" => stack = NoStack

LEMMA InitMemInv == MemInit => MemInv
  BY DEF MemInit, MemInv

LEMMA AcceptInv == ASSUME MemInv, Accept PROVE MemInv'
<1> DEFINE c == PallocSmall(CreatePool, ConnSize).pool
           d == PallocSmall(c, BufSize).pool
           b == PallocSmall(d, BufSize).pool
           in == Fresh(heap)
           buf_out == Fresh(heap \cup {in})
<1>1. /\ ConnSize \in Nat /\ 0 < ConnSize /\ ConnSize <= MaxSmall
      /\ BufSize \in Nat /\ 0 < BufSize /\ BufSize <= MaxSmall
  BY Sizes DEF ConnSize, BufSize
<1>2. PoolOK(c)
  BY <1>1, CreatePoolOK, PallocSmallOK DEF Served
<1> HIDE DEF c
<1>3. PoolOK(d)
  BY <1>1, <1>2, PallocSmallOK DEF Served
<1> HIDE DEF d
<1>4. PoolOK(b)
  BY <1>1, <1>3, PallocSmallOK DEF Served
<1> HIDE DEF b
<1>5. PoolOK(PallocLarge(b, in).pool)
  BY <1>4, PallocLargeOK
<1>6. PoolOK(PallocLarge(PallocLarge(b, in).pool, buf_out).pool)
  BY <1>5, PallocLargeOK
<1>7. /\ at = "closed" /\ at' = "idle" /\ temp' = CreatePool /\ stack' = stack
      /\ pool' = PallocLarge(PallocLarge(b, in).pool, buf_out).pool
  BY DEF Accept, b, d, c
<1> QED BY <1>6, <1>7, CreatePoolOK DEF MemInv

\* The chunk of a buffer is exchanged or lost
LEMMA PreallocOK ==
  ASSUME NEW p, PoolOK(p), NEW raw, NEW new PROVE PoolOK(PreallocLarge(p, raw, new))
  BY OtherChunks DEF PreallocLarge

LEMMA RecvInv ==
  ASSUME MemInv,
         \/ Close \/ RecvBegins \/ ParseRecord \/ ParseIncomplete \/ ParseGrows \/ ParseGrowFails
  PROVE  MemInv'
<1>1. CASE Close \/ ParseGrowFails
  BY <1>1 DEF MemInv, Close, ParseGrowFails, Closes
<1>2. CASE RecvBegins \/ ParseIncomplete
  BY <1>2 DEF MemInv, RecvBegins, ParseIncomplete
<1>3. CASE ParseRecord
  <2>1. BytesSize \in Nat /\ 0 < BytesSize /\ BytesSize <= MaxSmall
    BY Sizes DEF BytesSize, ConnSize
  <2>2. PoolOK(pool) /\ PoolOK(PallocSmall(pool, BytesSize).pool)
    BY <1>3, <2>1, PallocSmallOK DEF MemInv, ParseRecord, Served
  <2>3. PoolOK(pool')
    BY <1>3, <2>2 DEF ParseRecord
  <2> QED BY <1>3, <2>3 DEF MemInv, ParseRecord
<1>4. CASE ParseGrows
  <2>1. PoolOK(pool')
    BY <1>4, PreallocOK DEF MemInv, ParseGrows, Grown
  <2> QED BY <1>4, <2>1 DEF MemInv, ParseGrows
<1> QED BY <1>1, <1>2, <1>3, <1>4

LEMMA ReplyInv ==
  ASSUME MemInv, NEW n \in ReplySizes,
         TempReply(n) \/ UnknownReply(n) \/ PoolReply(n)
  PROVE  MemInv'
<1>1. /\ BytesSize + n \in Nat /\ 0 < BytesSize + n
      /\ 16 + n \in Nat /\ 0 < 16 + n
  BY MemoryAssumption DEF BytesSize
<1>2. ASSUME NEW bytes \in Nat, 0 < bytes, FromTemp(bytes) PROVE MemInv'
  <2>1. PoolOK(temp')
    BY <1>2, PallocOK DEF MemInv, FromTemp
  <2> QED BY <1>2, <2>1 DEF MemInv, FromTemp
<1>3. CASE PoolReply(n)
  <2>1. PoolOK(pool')
    BY <1>1, <1>3, PallocOK DEF MemInv, PoolReply
  <2> QED BY <1>3, <2>1 DEF MemInv, PoolReply
<1> QED BY <1>1, <1>2, <1>3 DEF TempReply, UnknownReply

LEMMA VisitInv ==
  ASSUME MemInv, NEW key \in BOOLEAN, Visit(key) PROVE MemInv'
<1> DEFINE full == stack.nelts = stack.nalloc
           c1 == Fresh(heap)
           g == IF full THEN StackGrow(temp, stack, c1)
                ELSE [pool |-> temp, at |-> stack.at, nalloc |-> stack.nalloc]
           h1 == IF full /\ g.at.block = 0 THEN heap \cup {c1} ELSE heap
           bytes == BytesSize + stack.nelts + 1 + 8
           c2 == Fresh(h1)
<1>1. /\ at = "search" /\ at' = at /\ pool' = pool
      /\ temp' = IF key THEN Palloc(g.pool, bytes, c2).pool ELSE g.pool
      /\ stack' = [at |-> g.at, nalloc |-> g.nalloc, nelts |-> stack.nelts + 1]
  BY DEF Visit
<1>2. PoolOK(temp) /\ Held(temp, stack) /\ PoolOK(pool)
  BY <1>1 DEF MemInv
<1>3. PoolOK(g.pool) /\ Holds(g.pool, g.at, g.nalloc) /\ stack.nelts + 1 <= g.nalloc
  <2>1. CASE full
    <3>1. /\ PoolOK(StackGrow(temp, stack, c1).pool)
          /\ Holds(StackGrow(temp, stack, c1).pool, StackGrow(temp, stack, c1).at,
                   StackGrow(temp, stack, c1).nalloc)
          /\ StackGrow(temp, stack, c1).nalloc > stack.nalloc
      BY <1>2, StackGrowOK
    <3> QED BY <1>2, <2>1, <3>1 DEF Held, Holds
  <2>2. CASE ~ full
    BY <1>2, <2>2 DEF Held, Holds
  <2> QED BY <2>1, <2>2
<1>4. bytes \in Nat /\ 0 < bytes
  BY <1>2 DEF Held, BytesSize
<1> HIDE DEF g, bytes, c2
<1>5. PoolOK(Palloc(g.pool, bytes, c2).pool) /\ g.pool.used \subseteq Palloc(g.pool, bytes, c2).pool.used
  BY <1>3, <1>4, PallocOK
<1>6. PoolOK(temp') /\ g.pool.used \subseteq temp'.used
  BY <1>1, <1>3, <1>5
<1>7. Held(temp', stack')
  BY <1>1, <1>2, <1>3, <1>6 DEF Held, Holds
<1> QED BY <1>1, <1>2, <1>6, <1>7 DEF MemInv

LEMMA ExecInv ==
  ASSUME MemInv,
         \/ ExecBegins \/ NoReply \/ SearchBegins \/ LeaveNode \/ SearchEnds
         \/ SendGrows \/ SendGrowFails \/ ExecEnds
  PROVE  MemInv'
<1>1. CASE ExecBegins
  BY <1>1, CreatePoolOK DEF MemInv, ExecBegins
<1>2. CASE NoReply \/ SearchEnds \/ ExecEnds
  BY <1>2 DEF MemInv, NoReply, SearchEnds, ExecEnds
<1>3. CASE SearchBegins
  <2> DEFINE s == StackInit(temp)
  <2>1. PoolOK(temp) /\ PoolOK(pool)
    BY <1>3 DEF MemInv, SearchBegins
  <2>2. PoolOK(s.pool) /\ Holds(s.pool, s.at, s.nalloc) /\ s.nelts = 0
    BY <2>1, StackInitOK
  <2>3. /\ at' = "search" /\ temp' = s.pool /\ pool' = pool
        /\ stack' = [at |-> s.at, nalloc |-> s.nalloc, nelts |-> s.nelts]
    BY <1>3 DEF SearchBegins
  <2> HIDE DEF s
  <2>4. Held(temp', stack')
    BY <2>2, <2>3 DEF Held, Holds
  <2> QED BY <2>1, <2>2, <2>3, <2>4 DEF MemInv
<1>4. CASE LeaveNode
  <2>1. Held(temp, stack)
    BY <1>4 DEF MemInv, LeaveNode
  <2>2. stack' = [at |-> stack.at, nalloc |-> stack.nalloc, nelts |-> stack.nelts - 1]
    BY <1>4, <2>1 DEF LeaveNode, Held
  <2>3. Held(temp', stack')
    BY <1>4, <2>1, <2>2 DEF LeaveNode, Held, Holds
  <2> QED BY <1>4, <2>3 DEF MemInv, LeaveNode
<1>5. CASE SendGrows \/ SendGrowFails
  <2>1. PoolOK(pool')
    BY <1>5, PreallocOK DEF MemInv, SendGrows, SendGrowFails, Grown
  <2> QED BY <1>5, <2>1 DEF MemInv, SendGrows, SendGrowFails
<1> QED BY <1>1, <1>2, <1>3, <1>4, <1>5

LEMMA StepMemInv == MemInv /\ [MemNext]_memVars => MemInv'
<1>1. ASSUME MemInv, UNCHANGED memVars PROVE MemInv'
  BY <1>1 DEF memVars, MemInv
<1>2. ASSUME MemInv, MemNext PROVE MemInv'
  BY <1>2, AcceptInv, RecvInv, ReplyInv, VisitInv, ExecInv DEF MemNext
<1> QED BY <1>1, <1>2

-----------------------------------------------------------------------------
\* The pools of a connection stay whole, whatever it is asked to do.
THEOREM MemInvariance == MemSpec => []MemInv
  BY InitMemInv, StepMemInv, PTL DEF MemSpec

LEMMA NoPoolFacts ==
    /\ Inside(NoPool) /\ Apart(NoPool) /\ Len(NoPool.blocks) - NoPool.current <= 6
  BY DEF NoPool, Inside, Apart

\* No two allocations share a byte, for any size of the blocks that is a
\* multiple of eight.
THEOREM DisjointHolds == MemSpec => []Disjoint
<1>1. ASSUME MemInv PROVE Disjoint
  <2>1. Inside(pool) /\ Apart(pool) /\ Inside(temp) /\ Apart(temp)
    BY <1>1, NoPoolFacts DEF MemInv, PoolOK
  <2>2. StackHeld
    BY <1>1 DEF MemInv, StackHeld, Held, Holds, NoStack, Region
  <2> QED BY <2>1, <2>2 DEF Disjoint
<1> QED BY <1>1, MemInvariance, PTL

\* etdb_palloc looks at no more than seven blocks, whatever the pool holds.
THEOREM SearchBoundHolds == MemSpec => []SearchBound
<1>1. ASSUME MemInv PROVE SearchBound
  BY <1>1, NoPoolFacts DEF MemInv, PoolOK, Counted, SearchBound
<1> QED BY <1>1, MemInvariance, PTL

-----------------------------------------------------------------------------
(* What the connection holds *)

\* The nodes of the list large: a chunk is in one of them only
Listed(p) ==
    /\ p.large \in Seq(Nat)
    /\ \A j, k \in DOMAIN p.large : j # k /\ p.large[j] = p.large[k] => p.large[j] = NoChunk
AllUsed(p) == \A k \in DOMAIN p.large : p.large[k] # NoChunk

\* Every chunk that malloc gave is in the list of one pool or lost
Parted(a, b, l, h) ==
    /\ IsFiniteSet(h) /\ h \subseteq Nat \ {NoChunk}
    /\ h = a \cup b \cup l
    /\ a \cap b = {} /\ a \cap l = {} /\ b \cap l = {}
Owned ==
    /\ Listed(pool) /\ Listed(temp)
    /\ Parted(Chunks(pool), Chunks(temp), lost, heap)
    /\ at = "closed" => temp = NoPool

\* The buffers lead to chunks; the descriptors are as many as the records of
\* the longest request; and while no realloc failed, every node has its chunk
Due == 5 + past.most + past.tops
Descriptors ==
    /\ cmds = [free |-> cmds.free, recv |-> cmds.recv]
    /\ cmds.free \in Nat /\ cmds.recv \in Nat
    /\ past = [most |-> past.most, tops |-> past.tops, grows |-> past.grows,
               visits |-> past.visits]
    /\ past.most \in Nat /\ past.tops \in Nat
    /\ start = [in |-> start.in, out |-> start.out]
    /\ at = "closed" => cmds.free + cmds.recv = 0
    /\ at # "closed" =>
         /\ cmds.free + cmds.recv = past.most
         /\ start.in # NoChunk /\ start.out # NoChunk
Regular ==
    at # "closed" =>
      /\ IsFiniteSet(pool.used)
      /\ Cardinality(pool.used) <= Due
      /\ lost = {} => Cardinality(pool.used) = Due /\ AllUsed(pool)

HoldInv == MemInv /\ Owned /\ Descriptors /\ Regular

\* malloc always finds a chunk that is not in use
LEMMA FreshFacts ==
  ASSUME NEW h, IsFiniteSet(h)
  PROVE  Fresh(h) \in Nat \ {NoChunk} /\ Fresh(h) \notin h
<1> DEFINE n == Cardinality(h)
<1>1. n \in Nat
  BY FS_CardinalityType
<1>2. \E k \in 1..(n + 1) : k \notin h
  <2>1. SUFFICES ASSUME 1..(n + 1) \subseteq h PROVE FALSE
    OBVIOUS
  <2>2. Cardinality(1..(n + 1)) = n + 1
    <3>1. 1 \in Int /\ n + 1 \in Int /\ ~ (1 > n + 1) /\ (n + 1) - 1 + 1 = n + 1
      BY <1>1
    <3> HIDE DEF n
    <3> QED BY <3>1, FS_Interval
  <2>3. Cardinality(1..(n + 1)) <= n
    BY <2>1, FS_Subset
  <2> HIDE DEF n
  <2> QED BY <1>1, <2>2, <2>3
<1>3. Fresh(h) \in 1..(n + 1) /\ Fresh(h) \notin h
  BY <1>2 DEF Fresh
<1> HIDE DEF n
<1> QED BY <1>1, <1>3 DEF NoChunk

\* An allocation of at most pool->max is one region more
OneMore(p, g) ==
    /\ g.pool.large = p.large
    /\ g.at \notin p.used /\ g.pool.used = p.used \cup {g.at}
    /\ g.at.block # 0

LEMMA PallocBlockMore ==
  ASSUME NEW p, PoolOK(p), NEW bytes \in Nat
  PROVE  OneMore(p, PallocBlock(p, bytes))
<1> DEFINE n == Len(p.blocks)
           r == Region(n + 1, BlockHead, bytes)
           g == PallocBlock(p, bytes)
<1>1. g.at = r /\ g.pool.used = p.used \cup {r} /\ g.pool.large = p.large
  BY DEF PallocBlock, Got
<1>2. n \in Nat /\ DOMAIN p.blocks = 1..n
  BY ShapeFacts DEF PoolOK
<1>3. r.block = n + 1
  BY DEF Region
<1>4. \A s \in p.used : s.block \in 1..n
  BY <1>2 DEF PoolOK, Inside
<1>5. n + 1 \notin 1..n /\ n + 1 # 0
  BY <1>2
<1> HIDE DEF n, r, g
<1>6. r \notin p.used
  BY <1>3, <1>4, <1>5, Zenon
<1> QED BY <1>1, <1>3, <1>5, <1>6 DEF OneMore, g

LEMMA PallocSmallMore ==
  ASSUME NEW p, PoolOK(p), NEW bytes \in Nat, 0 < bytes, bytes <= MaxSmall
  PROVE  OneMore(p, PallocSmall(p, bytes))
<1>1. CASE Fitting(p, bytes) = {}
  BY <1>1, PallocBlockMore DEF PallocSmall
<1>2. CASE Fitting(p, bytes) # {}
  <2> DEFINE i == FirstFit(p, bytes)
             r == Region(i, Align(p.blocks[i].last), bytes)
             g == PallocSmall(p, bytes)
  <2>1. i \in 1..Len(p.blocks) /\ Fits(p.blocks[i], bytes)
    <3>1. i \in Fitting(p, bytes)
      BY <1>2, FirstFitFacts DEF PoolOK
    <3> HIDE DEF i
    <3> QED BY <3>1, ShapeFacts DEF Fitting, PoolOK
  <2>2. g.at = r /\ g.pool.used = p.used \cup {r} /\ g.pool.large = p.large
    BY <1>2 DEF PallocSmall, Got
  <2> HIDE DEF i, g
  <2>3. p.blocks[i] \in [last : Nat, failed : Nat] /\ p.blocks[i].last <= PoolSize
        /\ p.blocks[i].last \in Nat
    BY <2>1, ShapeFacts DEF PoolOK, Bounded
  <2>4. Align(p.blocks[i].last) \in Nat /\ p.blocks[i].last <= Align(p.blocks[i].last)
    BY <2>1, <2>3, FitFacts
  <2>5. r.block = i /\ r.to = Align(p.blocks[i].last) + bytes
    BY DEF Region
  <2> HIDE DEF r
  <2>6. ~ (r.to <= p.blocks[i].last)
    BY <2>3, <2>4, <2>5
  <2>7. \A s \in p.used : s.to <= p.blocks[s.block].last
    BY DEF PoolOK, Inside
  <2>8. r \notin p.used
    BY <2>5, <2>6, <2>7
  <2>9. i # 0
    BY <2>1, ShapeFacts DEF PoolOK
  <2> QED BY <2>2, <2>5, <2>8, <2>9 DEF OneMore, g
<1> QED BY <1>1, <1>2

LEMMA Counts ==
  ASSUME NEW S, IsFiniteSet(S), NEW x, x \notin S
  PROVE  IsFiniteSet(S \cup {x}) /\ Cardinality(S \cup {x}) = Cardinality(S) + 1
  BY FS_AddElement

\* A list with one node more, or with another chunk in one node
LEMMA ListFacts ==
  ASSUME NEW l \in Seq(Nat)
  PROVE  /\ Len(l) \in Nat /\ DOMAIN l = 1..Len(l)
         /\ \A k \in 1..Len(l) : l[k] \in Nat
  BY SeqElement

LEMMA ListPut ==
  ASSUME NEW l \in Seq(Nat), NEW c \in Nat
  PROVE  LET m == <<c>> \o l
         IN  /\ m \in Seq(Nat) /\ DOMAIN m = 1..(Len(l) + 1)
             /\ m[1] = c
             /\ \A k \in 1..Len(l) : m[k + 1] = l[k]
             /\ \A k \in 2..(Len(l) + 1) : k - 1 \in 1..Len(l) /\ m[k] = l[k - 1]
  BY ListFacts

LEMMA ListMade ==
  ASSUME NEW l \in Seq(Nat), NEW m, DOMAIN m = DOMAIN l, m = [k \in DOMAIN l |-> m[k]],
         \A k \in DOMAIN l : m[k] \in Nat
  PROVE  m \in Seq(Nat)
<1>1. Len(l) \in Nat /\ DOMAIN l = 1..Len(l)
  BY ListFacts
<1> DEFINE n == Len(l)
<1>2. m = [k \in 1..n |-> m[k]] /\ \A k \in 1..n : m[k] \in Nat
  BY <1>1
<1> HIDE DEF n
<1>3. m \in [1..n -> Nat] /\ n \in Nat
  BY <1>1, <1>2 DEF n
<1> QED BY <1>3, SeqMade

LEMMA ChunkIn ==
  ASSUME NEW p, NEW x
  PROVE  x \in Chunks(p) <=> x # NoChunk /\ \E k \in DOMAIN p.large : p.large[k] = x
  BY DEF Chunks

\* The new node is the first
LEMMA PutListed ==
  ASSUME NEW p, Listed(p), NEW q, NEW c \in Nat \ {NoChunk}, c \notin Chunks(p),
         q.large = <<c>> \o p.large
  PROVE  /\ Listed(q) /\ Chunks(q) = Chunks(p) \cup {c}
         /\ AllUsed(p) => AllUsed(q)
<1> DEFINE l == p.large
           m == <<c>> \o l
           n == Len(l)
<1>1. l \in Seq(Nat) /\ n \in Nat /\ DOMAIN l = 1..n
  BY ListFacts DEF Listed
<1>2. /\ m \in Seq(Nat) /\ DOMAIN m = 1..(n + 1) /\ m[1] = c
      /\ \A k \in 1..n : m[k + 1] = l[k]
      /\ \A k \in 2..(n + 1) : k - 1 \in 1..n /\ m[k] = l[k - 1]
  BY <1>1, ListPut
<1>3. \A k \in 1..n : l[k] # c
  BY <1>1, ChunkIn
<1> HIDE DEF m, n
<1>4. \A k \in 1..(n + 1) : k = 1 \/ k \in 2..(n + 1)
  BY <1>1
<1>5. q.large = m /\ DOMAIN q.large = 1..(n + 1)
  BY <1>2 DEF m
<1>6. \A j, k \in 1..(n + 1) : j # k /\ m[j] = m[k] => m[j] = NoChunk
  <2>1. SUFFICES ASSUME NEW j \in 1..(n + 1), NEW k \in 1..(n + 1), j # k, m[j] = m[k]
                 PROVE  m[j] = NoChunk
    OBVIOUS
  <2>2. j # 1 /\ k # 1
    BY ZenonT(40), <1>2, <1>3, <1>4, <2>1
  <2>3. j - 1 \in 1..n /\ k - 1 \in 1..n /\ m[j] = l[j - 1] /\ m[k] = l[k - 1]
    BY <1>2, <1>4, <2>2
  <2>4. j - 1 # k - 1
    BY <1>1, <2>1
  <2> QED BY <1>1, <2>1, <2>3, <2>4 DEF Listed
<1>7. Listed(q)
  BY <1>2, <1>5, <1>6 DEF Listed
<1>8. \A x : x \in Chunks(q) <=> x \in Chunks(p) \cup {c}
  <2>1. ASSUME NEW x \in Chunks(q) PROVE x \in Chunks(p) \cup {c}
    <3>1. x # NoChunk /\ \E k \in 1..(n + 1) : m[k] = x
      <4>1. x # NoChunk /\ \E k \in DOMAIN q.large : q.large[k] = x
        BY <2>1, ChunkIn
      <4> QED BY <4>1, <1>5, Zenon
    <3>2. PICK k \in 1..(n + 1) : m[k] = x
      BY <3>1
    <3>3. CASE k = 1
      BY <1>2, <3>2, <3>3
    <3>4. CASE k # 1
      <4>1. k - 1 \in 1..n /\ l[k - 1] = x
        BY <1>2, <1>4, <3>2, <3>4
      <4> QED BY <1>1, <3>1, <4>1, ChunkIn
    <3> QED BY <3>3, <3>4
  <2>2. c \in Chunks(q)
    <3>1. 1 \in 1..(n + 1)
      BY <1>1
    <3> QED BY <1>2, <1>5, <3>1, ChunkIn
  <2>3. ASSUME NEW x \in Chunks(p) PROVE x \in Chunks(q)
    <3>1. PICK k \in 1..n : l[k] = x
      BY <1>1, <2>3, ChunkIn
    <3>2. k + 1 \in 1..(n + 1)
      BY <1>1
    <3>3. m[k + 1] = x
      BY <1>2, <3>1
    <3>4. x # NoChunk
      BY <2>3, ChunkIn
    <3> QED BY <1>5, <3>2, <3>3, <3>4, ChunkIn, Zenon
  <2> QED BY <2>1, <2>2, <2>3
<1>9. AllUsed(p) => AllUsed(q)
  <2>1. ASSUME AllUsed(p), NEW k \in 1..(n + 1) PROVE m[k] # NoChunk
    <3>1. \A j \in 1..n : l[j] # NoChunk
      BY <1>1, <2>1 DEF AllUsed
    <3>2. c # NoChunk
      OBVIOUS
    <3>3. CASE k = 1
      BY <1>2, <3>2, <3>3, Zenon
    <3>4. CASE k # 1
      BY <1>2, <1>4, <2>1, <3>1, <3>4, Zenon
    <3> QED BY <3>3, <3>4
  <2> QED BY <1>5, <2>1, Zenon DEF AllUsed
<1> QED BY <1>7, <1>8, <1>9

\* One node gets another chunk, or loses the one it has
Exchanged(p, q, i, c) ==
    /\ DOMAIN q.large = DOMAIN p.large
    /\ q.large = [k \in DOMAIN p.large |-> q.large[k]]
    /\ \A k \in DOMAIN p.large : q.large[k] = IF k = i THEN c ELSE p.large[k]

LEMMA NodeListed ==
  ASSUME NEW p, Listed(p), NEW q, NEW i \in DOMAIN p.large,
         NEW c \in Nat, c \notin Chunks(p), Exchanged(p, q, i, c)
  PROVE  /\ Listed(q)
         /\ Chunks(q) = (Chunks(p) \ {p.large[i]}) \cup ({c} \ {NoChunk})
         /\ AllUsed(p) /\ c # NoChunk => AllUsed(q)
<1> DEFINE l == p.large
           m == q.large
           D == DOMAIN l
<1>1. l \in Seq(Nat) /\ \A k \in D : l[k] \in Nat
  BY ListFacts DEF Listed
<1>2. \A j, k \in D : j # k /\ l[j] = l[k] => l[j] = NoChunk
  BY DEF Listed
<1>3. \A k \in D : l[k] # NoChunk => l[k] \in Chunks(p)
  BY ChunkIn
<1>4. m \in Seq(Nat)
  BY <1>1, ListMade DEF Exchanged
<1>5. DOMAIN m = D /\ m[i] = c /\ \A k \in D : k # i => m[k] = l[k]
  BY DEF Exchanged
<1> HIDE DEF l, m, D
<1>6. \A j, k \in D : j # k /\ m[j] = m[k] => m[j] = NoChunk
  BY <1>2, <1>3, <1>5
<1>7. Listed(q)
  BY <1>4, <1>5, <1>6 DEF Listed, m
<1>8. \A x : x \in Chunks(q) <=> x # NoChunk /\ \E k \in D : m[k] = x
  BY <1>5, ChunkIn DEF m
<1>9. \A x : x \in Chunks(p) <=> x # NoChunk /\ \E k \in D : l[k] = x
  BY ChunkIn DEF l, D
<1>10. i \in D /\ l[i] = p.large[i]
  BY DEF D, l
<1>11. \A x : x \in Chunks(q) <=> x \in (Chunks(p) \ {l[i]}) \cup ({c} \ {NoChunk})
  <2>1. ASSUME NEW x \in Chunks(q) PROVE x \in (Chunks(p) \ {l[i]}) \cup ({c} \ {NoChunk})
    <3>1. PICK k \in D : m[k] = x
      BY <1>8, <2>1
    <3>2. x # NoChunk
      BY <1>8, <2>1
    <3>3. CASE k = i
      BY <1>5, <3>1, <3>2, <3>3
    <3>4. CASE k # i
      <4>1. l[k] = x /\ x \in Chunks(p)
        BY <1>5, <1>9, <3>1, <3>2, <3>4
      <4>2. x # l[i]
        BY <1>2, <1>10, <3>2, <3>4, <4>1
      <4> QED BY <4>1, <4>2
    <3> QED BY <3>3, <3>4
  <2>2. ASSUME NEW x \in Chunks(p), x # l[i] PROVE x \in Chunks(q)
    BY <1>5, <1>8, <1>9, <2>2
  <2>3. c # NoChunk => c \in Chunks(q)
    BY <1>5, <1>8, <1>10
  <2> QED BY <2>1, <2>2, <2>3
<1>12. AllUsed(p) /\ c # NoChunk => AllUsed(q)
  BY <1>5 DEF AllUsed, l, m, D
<1> QED BY <1>7, <1>10, <1>11, <1>12, Zenon

\* From p to q an allocation: one region more, or none if a node waited for it
More(p, q) ==
    \/ \E r : r \notin p.used /\ q.used = p.used \cup {r}
    \/ q.used = p.used /\ ~ AllUsed(p)

\* c is the chunk malloc gave, or there is none
Gave(p, q, c) ==
    /\ Listed(q) /\ Chunks(q) = Chunks(p) \cup c
    /\ AllUsed(p) => AllUsed(q)

LEMMA SameChunks ==
  ASSUME NEW p, Listed(p), NEW q, q.large = p.large
  PROVE  Gave(p, q, {})
  BY DEF Gave, Listed, Chunks, AllUsed

LEMMA SmallGave ==
  ASSUME NEW p, PoolOK(p), Listed(p), NEW bytes \in Nat, 0 < bytes, bytes <= MaxSmall
  PROVE  LET g == PallocSmall(p, bytes)
         IN  Gave(p, g.pool, {}) /\ More(p, g.pool) /\ g.at.block # 0
<1> DEFINE g == PallocSmall(p, bytes)
<1>1. OneMore(p, g)
  BY PallocSmallMore
<1> HIDE DEF g
<1>2. Gave(p, g.pool, {})
  BY <1>1, SameChunks DEF OneMore
<1> QED BY <1>1, <1>2 DEF OneMore, More, g

LEMMA LargeGave ==
  ASSUME NEW p, PoolOK(p), Listed(p), NEW c \in Nat \ {NoChunk}, c \notin Chunks(p)
  PROVE  LET g == PallocLarge(p, c)
         IN  Gave(p, g.pool, {c}) /\ More(p, g.pool) /\ g.at.block = 0
<1> DEFINE free == {k \in DOMAIN p.large : k <= 5 /\ p.large[k] = NoChunk}
           s == PallocSmall(p, LargeSize)
           q == PallocLarge(p, c).pool
<1>1. PallocLarge(p, c).at.block = 0
  BY DEF PallocLarge, Got
<1>2. p = [blocks |-> p.blocks, current |-> p.current, large |-> p.large, used |-> p.used]
  BY DEF PoolOK, Shape
<1>3. CASE free # {}
  <2> DEFINE i == CHOOSE k \in free : \A j \in free : k <= j
  <2>1. \A k \in free : k \in 1..5
    <3>1. \A k \in DOMAIN p.large : k \in Nat /\ 1 <= k
      BY ListFacts DEF Listed
    <3> QED BY <3>1
  <2>2. \E k \in free : \A j \in free : k <= j
    <3> HIDE DEF free
    <3>1. CASE 1 \in free
      BY <2>1, <3>1
    <3>2. CASE 1 \notin free /\ 2 \in free
      BY <2>1, <3>2
    <3>3. CASE 1 \notin free /\ 2 \notin free /\ 3 \in free
      BY <2>1, <3>3
    <3>4. CASE 1 \notin free /\ 2 \notin free /\ 3 \notin free /\ 4 \in free
      BY <2>1, <3>4
    <3>5. CASE 1 \notin free /\ 2 \notin free /\ 3 \notin free /\ 4 \notin free
      BY <1>3, <2>1, <3>5
    <3> QED BY <3>1, <3>2, <3>3, <3>4, <3>5
  <2>3. i \in free
    BY <2>2
  <2>4. q = [p EXCEPT !.large = [@ EXCEPT ![i] = c]]
    BY <1>3 DEF PallocLarge, Got
  <2>5. i \in DOMAIN p.large /\ p.large[i] = NoChunk
    BY <2>3
  <2> HIDE DEF i, q
  <2>6. q.large = [p.large EXCEPT ![i] = c] /\ q.used = p.used
    BY <1>2, <2>4
  <2>7. Exchanged(p, q, i, c)
    BY <2>5, <2>6 DEF Exchanged
  <2>8. /\ Listed(q) /\ Chunks(q) = (Chunks(p) \ {p.large[i]}) \cup ({c} \ {NoChunk})
        /\ AllUsed(p) => AllUsed(q)
    BY <2>5, <2>7, NodeListed
  <2>9. NoChunk \notin Chunks(p)
    BY DEF Chunks
  <2>10. Chunks(q) = Chunks(p) \cup {c}
    BY <2>5, <2>8, <2>9
  <2>11. ~ AllUsed(p)
    BY <2>5 DEF AllUsed
  <2> QED BY <1>1, <2>6, <2>8, <2>10, <2>11 DEF Gave, More, q
<1>4. CASE free = {}
  <2>1. 0 < LargeSize /\ LargeSize <= MaxSmall /\ LargeSize \in Nat
    BY Sizes DEF LargeSize, ConnSize
  <2>2. PoolOK(s.pool) /\ OneMore(p, s)
    BY <2>1, PallocSmallOK, PallocSmallMore DEF Served
  <2>3. q = [s.pool EXCEPT !.large = <<c>> \o @]
    BY <1>4 DEF PallocLarge, Got
  <2> HIDE DEF s, q
  <2>4. s.pool = [blocks |-> s.pool.blocks, current |-> s.pool.current,
                  large |-> s.pool.large, used |-> s.pool.used]
    BY <2>2 DEF PoolOK, Shape
  <2>5. q.large = <<c>> \o p.large /\ q.used = s.pool.used
    BY <2>2, <2>3, <2>4 DEF OneMore
  <2>6. Gave(p, q, {c})
    BY <2>5, PutListed DEF Gave
  <2>7. More(p, q)
    BY <2>2, <2>5 DEF OneMore, More
  <2> QED BY <1>1, <2>6, <2>7 DEF q
<1> QED BY <1>3, <1>4

LEMMA PallocGave ==
  ASSUME NEW p, PoolOK(p), Listed(p), NEW bytes \in Nat, 0 < bytes,
         NEW c \in Nat \ {NoChunk}, c \notin Chunks(p)
  PROVE  LET g == Palloc(p, bytes, c)
         IN  /\ Gave(p, g.pool, AskedFor(bytes, c)) /\ More(p, g.pool)
             /\ AskedFor(bytes, c) = IF g.at.block = 0 THEN {c} ELSE {}
<1>1. CASE bytes <= MaxSmall
  BY <1>1, SmallGave DEF Palloc, AskedFor
<1>2. CASE ~ (bytes <= MaxSmall)
  BY <1>2, LargeGave DEF Palloc, AskedFor
<1> QED BY <1>1, <1>2

LEMMA StackInitGave ==
  ASSUME NEW p, PoolOK(p), Listed(p) PROVE Gave(p, StackInit(p).pool, {})
<1>1. 1 <= MaxSmall
  BY Sizes DEF ConnSize
<1>2. Gave(p, PallocSmall(p, 1).pool, {})
  BY <1>1, SmallGave
<1> QED BY <1>2 DEF StackInit

LEMMA StackGrowGave ==
  ASSUME NEW p, PoolOK(p), Listed(p), NEW s, Held(p, s),
         NEW c \in Nat \ {NoChunk}, c \notin Chunks(p)
  PROVE  LET g == StackGrow(p, s, c)
         IN  Gave(p, g.pool, IF g.at.block = 0 THEN {c} ELSE {})
<1> DEFINE g == StackGrow(p, s, c)
<1>1. CASE InPlace(p, s)
  <2>1. g.pool.large = p.large
    BY <1>1 DEF StackGrow
  <2>2. g.at = [s.at EXCEPT !.to = @ + 1] /\ s.at.block = 1
    BY <1>1 DEF StackGrow, InPlace
  <2>3. s.at \in Regions
    BY <2>2 DEF Held, Holds, PoolOK, Shape
  <2>4. g.at.block = 1
    BY <2>2, <2>3 DEF Regions
  <2> HIDE DEF g
  <2>5. Gave(p, g.pool, {})
    BY <2>1, SameChunks
  <2> QED BY <2>4, <2>5 DEF g
<1>2. CASE ~ InPlace(p, s)
  <2> DEFINE h == Palloc(p, 2 * s.nalloc, c)
  <2>1. 2 * s.nalloc \in Nat /\ 0 < 2 * s.nalloc
    BY DEF Held, Holds
  <2>2. Gave(p, h.pool, IF h.at.block = 0 THEN {c} ELSE {})
    BY <2>1, PallocGave
  <2>3. g = [pool |-> h.pool, at |-> h.at, nalloc |-> 2 * s.nalloc]
    BY <1>2 DEF StackGrow
  <2>4. g.pool = h.pool /\ g.at = h.at
    BY <2>3
  <2> HIDE DEF g, h
  <2> QED BY <2>2, <2>4 DEF g
<1> QED BY <1>1, <1>2

\* realloc gives another chunk, or none
LEMMA PreallocGave ==
  ASSUME NEW p, PoolOK(p), Listed(p), NEW raw, raw # NoChunk, Has(p, raw),
         NEW c \in Nat, c \notin Chunks(p)
  PROVE  LET q == PreallocLarge(p, raw, c)
         IN  /\ Listed(q) /\ q.used = p.used /\ raw \in Chunks(p)
             /\ Chunks(q) = (Chunks(p) \ {raw}) \cup ({c} \ {NoChunk})
             /\ AllUsed(p) /\ c # NoChunk => AllUsed(q)
<1> DEFINE q == PreallocLarge(p, raw, c)
<1>1. PICK i \in DOMAIN p.large : p.large[i] = raw
  BY DEF Has
<1>2. p = [blocks |-> p.blocks, current |-> p.current, large |-> p.large, used |-> p.used]
  BY DEF PoolOK, Shape
<1>3. q.used = p.used
  BY <1>2 DEF PreallocLarge
<1>4. q.large = [k \in DOMAIN p.large |-> IF p.large[k] = raw THEN c ELSE p.large[k]]
  BY <1>2 DEF PreallocLarge
<1> HIDE DEF q
<1>5. \A k \in DOMAIN p.large : p.large[k] = raw <=> k = i
  BY <1>1 DEF Listed
<1>6. Exchanged(p, q, i, c)
  BY <1>4, <1>5 DEF Exchanged
<1>7. /\ Listed(q) /\ Chunks(q) = (Chunks(p) \ {p.large[i]}) \cup ({c} \ {NoChunk})
      /\ AllUsed(p) /\ c # NoChunk => AllUsed(q)
  BY <1>1, <1>6, NodeListed
<1>8. raw \in Chunks(p)
  BY <1>1, ChunkIn
<1> QED BY <1>1, <1>3, <1>7, <1>8 DEF q

\* A chunk is allocated for a pool, exchanged, lost, or freed with its pool
LEMMA PartedFresh ==
  ASSUME NEW a, NEW b, NEW l, NEW h, Parted(a, b, l, h)
  PROVE  /\ Fresh(h) \in Nat \ {NoChunk} /\ Fresh(h) \notin h
         /\ Fresh(h) \notin a /\ Fresh(h) \notin b
  BY FreshFacts DEF Parted

LEMMA PartedAdd ==
  ASSUME NEW a, NEW b, NEW l, NEW h, Parted(a, b, l, h),
         NEW x \in Nat \ {NoChunk}, x \notin h
  PROVE  Parted(a \cup {x}, b, l, h \cup {x}) /\ Parted(a, b \cup {x}, l, h \cup {x})
<1>1. IsFiniteSet(h \cup {x})
  BY FS_AddElement DEF Parted
<1> QED BY <1>1 DEF Parted

LEMMA PartedGive ==
  ASSUME NEW a, NEW b, NEW l, NEW h, Parted(a, b, l, h),
         NEW x \in Nat \ {NoChunk}, x \notin h, NEW s, s = {} \/ s = {x}
  PROVE  Parted(a \cup s, b, l, h \cup s) /\ Parted(a, b \cup s, l, h \cup s)
<1>1. CASE s = {}
  <2>1. a \cup s = a /\ b \cup s = b /\ h \cup s = h
    BY <1>1
  <2> QED BY <2>1
<1>2. CASE s = {x}
  BY <1>2, PartedAdd
<1> QED BY <1>1, <1>2

LEMMA PartedSwap ==
  ASSUME NEW a, NEW b, NEW l, NEW h, Parted(a, b, l, h), NEW raw \in a,
         NEW x \in Nat \ {NoChunk}, x \notin h
  PROVE  Parted((a \ {raw}) \cup {x}, b, l, (h \ {raw}) \cup {x})
<1>1. IsFiniteSet((h \ {raw}) \cup {x})
  BY FS_AddElement, FS_RemoveElement DEF Parted
<1> QED BY <1>1 DEF Parted

LEMMA PartedLose ==
  ASSUME NEW a, NEW b, NEW l, NEW h, Parted(a, b, l, h), NEW k \in SUBSET a
  PROVE  Parted(a \ k, b, l \cup k, h)
  BY DEF Parted

LEMMA PartedFree ==
  ASSUME NEW a, NEW b, NEW l, NEW h, Parted(a, b, l, h)
  PROVE  Parted(a, {}, l, h \ b) /\ Parted({}, {}, l, h \ (a \cup b))
<1>1. IsFiniteSet(h \ b) /\ IsFiniteSet(h \ (a \cup b))
  BY FS_Subset DEF Parted
<1> QED BY <1>1 DEF Parted

LEMMA PartedCounts ==
  ASSUME NEW a, NEW b, NEW l, NEW h, Parted(a, b, l, h)
  PROVE  Cardinality(h) = Cardinality(a) + Cardinality(b) + Cardinality(l)
<1>1. IsFiniteSet(a) /\ IsFiniteSet(b) /\ IsFiniteSet(l)
  BY FS_Subset DEF Parted
<1>2. /\ Cardinality(a) \in Nat /\ Cardinality(b) \in Nat /\ Cardinality(l) \in Nat
      /\ Cardinality({}) = 0
  BY <1>1, FS_CardinalityType, FS_EmptySet
<1>3. /\ IsFiniteSet(a \cup b)
      /\ Cardinality(a \cup b) = Cardinality(a) + Cardinality(b) - Cardinality({})
  <2>1. a \cap b = {}
    BY DEF Parted
  <2> QED BY <1>1, <2>1, FS_Union
<1>4. Cardinality((a \cup b) \cup l) = Cardinality(a \cup b) + Cardinality(l) - Cardinality({})
  <2>1. (a \cup b) \cap l = {}
    BY DEF Parted
  <2> QED BY <1>1, <1>3, <2>1, FS_Union
<1>5. h = (a \cup b) \cup l
  BY DEF Parted
<1> QED BY <1>2, <1>3, <1>4, <1>5

LEMMA EmptyPools ==
    /\ Listed(NoPool) /\ Chunks(NoPool) = {}
    /\ Listed(CreatePool) /\ Chunks(CreatePool) = {} /\ AllUsed(CreatePool)
    /\ CreatePool.used = {}
  BY DEF NoPool, CreatePool, Listed, Chunks, AllUsed
-----------------------------------------------------------------------------
(* The steps of a connection and what it holds *)

LEMMA InitHoldInv == MemInit => HoldInv
<1> SUFFICES ASSUME MemInit PROVE HoldInv
  OBVIOUS
<1>1. MemInv
  BY InitMemInv
<1>2. Owned
  BY EmptyPools, FS_EmptySet DEF MemInit, Owned, Parted
<1>3. Descriptors /\ Regular
  BY DEF MemInit, Descriptors, Regular, NoPast
<1> QED BY <1>1, <1>2, <1>3 DEF HoldInv

\* The count of the regions, when one more is due
LEMMA OneMoreDue ==
  ASSUME NEW p, NEW q, More(p, q), NEW due \in Nat,
         IsFiniteSet(p.used), Cardinality(p.used) <= due,
         NEW none \in BOOLEAN,
         none => Cardinality(p.used) = due /\ AllUsed(p)
  PROVE  /\ IsFiniteSet(q.used) /\ Cardinality(q.used) <= due + 1
         /\ none => Cardinality(q.used) = due + 1
<1>1. Cardinality(p.used) \in Nat
  BY FS_CardinalityType
<1>2. CASE \E r : r \notin p.used /\ q.used = p.used \cup {r}
  <2>1. PICK r : r \notin p.used /\ q.used = p.used \cup {r}
    BY <1>2
  <2>2. IsFiniteSet(q.used) /\ Cardinality(q.used) = Cardinality(p.used) + 1
    BY <2>1, Counts
  <2> QED BY <1>1, <2>2
<1>3. CASE q.used = p.used /\ ~ AllUsed(p)
  BY <1>1, <1>3
<1> QED BY <1>2, <1>3 DEF More

LEMMA AcceptHolds ==
  ASSUME HoldInv, Accept PROVE Owned' /\ Descriptors' /\ Regular'
<1> DEFINE c == PallocSmall(CreatePool, ConnSize).pool
           d == PallocSmall(c, BufSize).pool
           b == PallocSmall(d, BufSize).pool
           in == Fresh(heap)
           buf_out == Fresh(heap \cup {in})
           e == PallocLarge(b, in).pool
           f == PallocLarge(e, buf_out).pool
<1>1. /\ ConnSize \in Nat /\ 0 < ConnSize /\ ConnSize <= MaxSmall
      /\ BufSize \in Nat /\ 0 < BufSize /\ BufSize <= MaxSmall
  BY Sizes DEF ConnSize, BufSize
<1>2. /\ at = "closed" /\ at' = "idle" /\ temp' = CreatePool /\ cmds' = cmds
      /\ past = NoPast /\ past' = past /\ lost' = lost
      /\ pool' = f /\ heap' = heap \cup {in, buf_out} /\ start' = [in |-> in, out |-> buf_out]
  BY DEF Accept
<1>3. Parted({}, {}, lost, heap)
  BY <1>2, EmptyPools DEF HoldInv, Owned, MemInv
<1>4. in \in Nat \ {NoChunk} /\ in \notin heap
  BY <1>3, PartedFresh
<1>5. Parted({in}, {}, lost, heap \cup {in})
  <2> HIDE DEF in
  <2>1. Parted({} \cup {in}, {}, lost, heap \cup {in})
    BY <1>3, <1>4, PartedAdd
  <2>2. {} \cup {in} = {in}
    OBVIOUS
  <2> QED BY <2>1, <2>2
<1>6. buf_out \in Nat \ {NoChunk} /\ buf_out \notin heap \cup {in} /\ buf_out # in
  <2> HIDE DEF in
  <2> QED BY <1>5, PartedFresh
<1>7. Parted({in, buf_out}, {}, lost, heap')
  <2> HIDE DEF in, buf_out
  <2>1. Parted({in} \cup {buf_out}, {}, lost, (heap \cup {in}) \cup {buf_out})
    BY <1>5, <1>6, PartedAdd
  <2>2. {in} \cup {buf_out} = {in, buf_out} /\ (heap \cup {in}) \cup {buf_out} = heap'
    BY <1>2
  <2> QED BY <2>1, <2>2
<1> HIDE DEF in, buf_out
<1>8. IsFiniteSet({}) /\ Cardinality({}) = 0
  BY FS_EmptySet
<1>9. /\ PoolOK(c) /\ Gave(CreatePool, c, {}) /\ More(CreatePool, c)
  BY <1>1, CreatePoolOK, EmptyPools, PallocSmallOK, SmallGave DEF Served
<1> HIDE DEF c
<1>10. PoolOK(d) /\ Gave(c, d, {}) /\ More(c, d)
  BY <1>1, <1>9, PallocSmallOK, SmallGave DEF Served, Gave
<1> HIDE DEF d
<1>11. PoolOK(b) /\ Gave(d, b, {}) /\ More(d, b)
  BY <1>1, <1>10, PallocSmallOK, SmallGave DEF Served, Gave
<1> HIDE DEF b
<1>12. Chunks(b) = {} /\ Listed(b) /\ AllUsed(c) /\ AllUsed(d) /\ AllUsed(b)
  BY <1>9, <1>10, <1>11, EmptyPools DEF Gave
<1>13. PoolOK(e) /\ Gave(b, e, {in}) /\ More(b, e)
  BY <1>4, <1>11, <1>12, PallocLargeOK, LargeGave
<1> HIDE DEF e
<1>14. Chunks(e) = {in} /\ Listed(e) /\ AllUsed(e)
  BY <1>12, <1>13 DEF Gave
<1>15. Gave(e, f, {buf_out}) /\ More(e, f)
  BY <1>6, <1>13, <1>14, LargeGave
<1> HIDE DEF f
<1>16. Chunks(f) = {in, buf_out} /\ Listed(f) /\ AllUsed(f)
  BY <1>14, <1>15 DEF Gave
<1>17. IsFiniteSet(c.used) /\ Cardinality(c.used) = 1
  BY <1>8, <1>9, EmptyPools, Counts DEF More
<1>18. IsFiniteSet(d.used) /\ Cardinality(d.used) = 2
  BY <1>10, <1>12, <1>17, Counts DEF More
<1>19. IsFiniteSet(b.used) /\ Cardinality(b.used) = 3
  BY <1>11, <1>12, <1>18, Counts DEF More
<1>20. IsFiniteSet(e.used) /\ Cardinality(e.used) = 4
  BY <1>12, <1>13, <1>19, Counts DEF More
<1>21. IsFiniteSet(f.used) /\ Cardinality(f.used) = 5
  BY <1>14, <1>15, <1>20, Counts DEF More
<1>22. Owned'
  BY <1>2, <1>7, <1>16, EmptyPools DEF Owned
<1>23. past.most = 0 /\ past.tops = 0
  BY <1>2 DEF NoPast
<1>24. Descriptors'
  <2>1. Descriptors
    BY DEF HoldInv
  <2>2. cmds.free + cmds.recv = past.most
    BY <1>2, <1>23, <2>1 DEF Descriptors
  <2>3. start'.in # NoChunk /\ start'.out # NoChunk
       /\ start' = [in |-> start'.in, out |-> start'.out]
    BY <1>2, <1>4, <1>6
  <2> QED BY <1>2, <2>1, <2>2, <2>3 DEF Descriptors
<1>25. Regular'
  <2>1. Due' = 5
    BY <1>2, <1>23 DEF Due
  <2>2. Cardinality(f.used) = 5 /\ Cardinality(f.used) <= 5
    BY <1>21
  <2> QED BY <1>2, <1>16, <1>21, <2>1, <2>2, Zenon DEF Regular
<1> QED BY <1>22, <1>24, <1>25

\* Where the pools, the heap and what is due stay as they are
LEMMA SameHolds ==
  ASSUME HoldInv, at # "closed", at' # "closed",
         pool' = pool, Listed(temp'), Chunks(temp') = Chunks(temp),
         UNCHANGED <<heap, lost, start>>, past'.most = past.most, past'.tops = past.tops
  PROVE  Owned' /\ Regular'
<1>1. Owned'
  BY DEF HoldInv, Owned
<1>2. Regular'
  BY DEF HoldInv, Regular, Due
<1> QED BY <1>1, <1>2

\* The descriptors of the next request are those of the last one
LEMMA RecycleHolds ==
  ASSUME HoldInv, at # "closed", at' # "closed", cmds' = Recycle \/ cmds' = cmds,
         start' = [in |-> start'.in, out |-> start'.out],
         start'.in # NoChunk, start'.out # NoChunk,
         past' = [past EXCEPT !.grows = past'.grows] \/ past' = past
         \/ past' = [past EXCEPT !.visits = past'.visits]
  PROVE  Descriptors' /\ past'.most = past.most /\ past'.tops = past.tops
<1>1. /\ cmds = [free |-> cmds.free, recv |-> cmds.recv]
      /\ cmds.free \in Nat /\ cmds.recv \in Nat /\ cmds.free + cmds.recv = past.most
      /\ past = [most |-> past.most, tops |-> past.tops, grows |-> past.grows,
                 visits |-> past.visits]
      /\ past.most \in Nat /\ past.tops \in Nat
  BY DEF HoldInv, Descriptors
<1>2. /\ past' = [most |-> past'.most, tops |-> past'.tops, grows |-> past'.grows,
                  visits |-> past'.visits]
      /\ past'.most = past.most /\ past'.tops = past.tops
  BY <1>1
<1>3. /\ cmds' = [free |-> cmds'.free, recv |-> cmds'.recv]
      /\ cmds'.free \in Nat /\ cmds'.recv \in Nat
      /\ cmds'.free + cmds'.recv = cmds.free + cmds.recv
  <2>1. CASE cmds' = Recycle
    BY <1>1, <2>1 DEF Recycle
  <2>2. CASE cmds' = cmds
    BY <1>1, <2>2
  <2> QED BY <2>1, <2>2
<1> QED BY <1>1, <1>2, <1>3 DEF Descriptors

\* A buffer gets a chunk from realloc
LEMMA GrownHolds ==
  ASSUME HoldInv, at # "closed", at' # "closed", NEW b \in {"in", "out"}, Grown(b),
         temp' = temp, cmds' = Recycle \/ cmds' = cmds
  PROVE  Owned' /\ Descriptors' /\ Regular'
<1> DEFINE raw == start[b]
           new == Fresh(heap)
           q == PreallocLarge(pool, raw, new)
<1>1. /\ PoolOK(pool) /\ Listed(pool) /\ Parted(Chunks(pool), Chunks(temp), lost, heap)
      /\ Listed(temp) /\ start = [in |-> start.in, out |-> start.out]
      /\ start.in # NoChunk /\ start.out # NoChunk
  BY DEF HoldInv, MemInv, Owned, Descriptors
<1>2. /\ Has(pool, raw) /\ pool' = q /\ heap' = (heap \ {raw}) \cup {new}
      /\ start' = [start EXCEPT ![b] = new] /\ lost' = lost
      /\ past' = [past EXCEPT !.grows = @ + 1]
  BY DEF Grown
<1>3. new \in Nat \ {NoChunk} /\ new \notin heap /\ new \notin Chunks(pool)
  BY <1>1, PartedFresh
<1>4. raw # NoChunk
  BY <1>1
<1> HIDE DEF new, raw
<1>5. /\ Listed(q) /\ q.used = pool.used /\ raw \in Chunks(pool)
      /\ Chunks(q) = (Chunks(pool) \ {raw}) \cup ({new} \ {NoChunk})
      /\ AllUsed(pool) /\ new # NoChunk => AllUsed(q)
  BY <1>1, <1>2, <1>3, <1>4, PreallocGave
<1> HIDE DEF q
<1>6. Parted(Chunks(q), Chunks(temp), lost, heap')
  <2>1. Parted((Chunks(pool) \ {raw}) \cup {new}, Chunks(temp), lost, (heap \ {raw}) \cup {new})
    BY <1>1, <1>3, <1>5, PartedSwap
  <2>2. {new} \ {NoChunk} = {new}
    BY <1>3
  <2> QED BY <1>2, <1>5, <2>1, <2>2
<1>7. Owned'
  BY <1>1, <1>2, <1>5, <1>6 DEF Owned
<1>8. Descriptors' /\ past'.most = past.most /\ past'.tops = past.tops
  <2>1. /\ start' = [in |-> start'.in, out |-> start'.out]
        /\ start'.in # NoChunk /\ start'.out # NoChunk
    BY <1>1, <1>2, <1>3
  <2>2. past' = [past EXCEPT !.grows = past'.grows]
    BY <1>2 DEF HoldInv, Descriptors
  <2> QED BY <2>1, <2>2, RecycleHolds
<1>9. Regular'
  BY <1>2, <1>3, <1>5, <1>8 DEF HoldInv, Regular, Due
<1> QED BY <1>7, <1>8, <1>9

\* Close frees both pools; a failed realloc has lost the chunk of buf_in before
LEMMA ClosedHolds ==
  ASSUME HoldInv, Close \/ ParseGrowFails PROVE Owned' /\ Descriptors' /\ Regular'
<1>1. /\ Listed(pool) /\ Parted(Chunks(pool), Chunks(temp), lost, heap)
      /\ Descriptors
  BY DEF HoldInv, Owned
<1>2. /\ at' = "closed" /\ pool' = NoPool /\ temp' = NoPool
      /\ cmds' = [free |-> 0, recv |-> 0] /\ start' = start
  BY DEF Close, ParseGrowFails, Closes
<1>3. Parted({}, {}, lost', heap')
  <2>1. CASE Close
    BY <1>1, <2>1, PartedFree DEF Close
  <2>2. CASE ParseGrowFails
    <3>1. start.in # NoChunk
      BY <1>1, <2>2 DEF Descriptors, ParseGrowFails
    <3>2. Lose("in") \in SUBSET Chunks(pool)
      BY <3>1, ChunkIn DEF Lose, Has
    <3>3. Parted(Chunks(pool) \ Lose("in"), Chunks(temp), lost \cup Lose("in"), heap)
      BY <1>1, <3>2, PartedLose
    <3> QED BY <2>2, <3>3, PartedFree DEF ParseGrowFails
  <2> QED BY <2>1, <2>2
<1>4. Owned'
  BY <1>2, <1>3, EmptyPools DEF Owned
<1>5. past' = past \/ past' = [past EXCEPT !.grows = @ + 1]
  BY DEF Close, ParseGrowFails
<1>6. Descriptors'
  BY <1>1, <1>2, <1>5 DEF Descriptors
<1>7. Regular'
  BY <1>2 DEF Regular
<1> QED BY <1>4, <1>6, <1>7

\* A record takes a descriptor of an earlier one, or there are more records
\* than ever before
LEMMA RecordHolds ==
  ASSUME HoldInv, ParseRecord PROVE Owned' /\ Descriptors' /\ Regular'
<1>1. /\ at = "parse" /\ at' = at /\ UNCHANGED <<temp, heap, lost, start>>
      /\ pool' = IF cmds.free = 0 THEN PallocSmall(pool, BytesSize).pool ELSE pool
      /\ cmds' = [free |-> IF cmds.free = 0 THEN 0 ELSE cmds.free - 1,
                  recv |-> cmds.recv + 1]
      /\ past' = [past EXCEPT !.most = IF @ < cmds.recv + 1 THEN cmds.recv + 1 ELSE @]
  BY DEF ParseRecord
<1>2. /\ PoolOK(pool) /\ Owned /\ Descriptors /\ Regular
  BY <1>1 DEF HoldInv, MemInv
<1>3. /\ cmds.free \in Nat /\ cmds.recv \in Nat /\ cmds.free + cmds.recv = past.most
      /\ past.most \in Nat /\ past.tops \in Nat
      /\ past = [most |-> past.most, tops |-> past.tops, grows |-> past.grows,
                 visits |-> past.visits]
      /\ start = [in |-> start.in, out |-> start.out]
      /\ start.in # NoChunk /\ start.out # NoChunk
  BY <1>1, <1>2 DEF Descriptors
<1> DEFINE most == IF past.most < cmds.recv + 1 THEN cmds.recv + 1 ELSE past.most
<1>4. most = IF cmds.free = 0 THEN past.most + 1 ELSE past.most
  BY <1>3
<1>5. past' = [most |-> most, tops |-> past.tops, grows |-> past.grows,
               visits |-> past.visits]
  BY <1>1, <1>3
<1>6. cmds'.free \in Nat /\ cmds'.recv \in Nat /\ cmds'.free + cmds'.recv = most
      /\ cmds' = [free |-> cmds'.free, recv |-> cmds'.recv] /\ most \in Nat
  BY <1>1, <1>3, <1>4
<1> HIDE DEF most
<1>7. past'.most = most /\ past'.tops = past.tops
  BY <1>5
<1>8. Descriptors'
  BY <1>1, <1>3, <1>5, <1>6, <1>7 DEF Descriptors
<1>9. CASE cmds.free = 0
  <2> DEFINE q == PallocSmall(pool, BytesSize).pool
  <2>1. BytesSize \in Nat /\ 0 < BytesSize /\ BytesSize <= MaxSmall
    BY Sizes DEF BytesSize, ConnSize
  <2>2. Gave(pool, q, {}) /\ More(pool, q)
    BY <1>2, <2>1, SmallGave DEF Owned
  <2> HIDE DEF q
  <2>3. pool' = q
    BY <1>1, <1>9 DEF q
  <2>4. Listed(q) /\ Chunks(q) = Chunks(pool) /\ (AllUsed(pool) => AllUsed(q))
    BY <2>2 DEF Gave
  <2>5. Owned'
    BY <1>1, <1>2, <2>3, <2>4 DEF Owned
  <2>6. Due \in Nat /\ Due' = Due + 1
    BY <1>3, <1>4, <1>7, <1>9 DEF Due
  <2>7. /\ IsFiniteSet(pool.used) /\ Cardinality(pool.used) <= Due
        /\ lost = {} => Cardinality(pool.used) = Due /\ AllUsed(pool)
    BY <1>1, <1>2 DEF Regular
  <2> DEFINE none == lost = {}
  <2>8. none \in BOOLEAN
    OBVIOUS
  <2> HIDE DEF none
  <2>9. /\ IsFiniteSet(q.used) /\ Cardinality(q.used) <= Due + 1
        /\ none => Cardinality(q.used) = Due + 1
    BY <2>2, <2>6, <2>7, <2>8, OneMoreDue DEF none
  <2>10. Regular'
    BY <1>1, <2>3, <2>4, <2>6, <2>7, <2>9, Zenon DEF Regular, none
  <2> QED BY <1>8, <2>5, <2>10
<1>10. CASE cmds.free # 0
  <2>1. pool' = pool /\ past'.most = past.most
    BY <1>1, <1>4, <1>7, <1>10
  <2> QED BY <1>1, <1>2, <1>7, <1>8, <2>1, SameHolds DEF Owned
<1> QED BY <1>9, <1>10

\* The pool of the request is made, a status is sent, the search begins, goes
\* back and ends, or the descriptors are put back
LEMMA QuietHolds ==
  ASSUME HoldInv,
         \/ RecvBegins \/ ParseIncomplete \/ ExecBegins \/ NoReply
         \/ SearchBegins \/ LeaveNode \/ SearchEnds
  PROVE  Owned' /\ Descriptors' /\ Regular'
<1>1. /\ at # "closed" /\ at' # "closed"
      /\ UNCHANGED <<pool, heap, lost, start>>
      /\ cmds' = Recycle \/ cmds' = cmds
  BY DEF RecvBegins, ParseIncomplete, ExecBegins, NoReply, SearchBegins, LeaveNode, SearchEnds
<1>2. past' = past \/ past' = [past EXCEPT !.visits = 0]
  BY DEF RecvBegins, ParseIncomplete, ExecBegins, NoReply, SearchBegins, LeaveNode, SearchEnds
<1>3. Listed(temp) /\ Descriptors
  BY DEF HoldInv, Owned
<1>4. Listed(temp') /\ Chunks(temp') = Chunks(temp)
  <2>1. CASE SearchBegins
    <3>1. PoolOK(temp)
      BY <2>1 DEF HoldInv, MemInv, SearchBegins
    <3>2. Gave(temp, StackInit(temp).pool, {}) /\ temp' = StackInit(temp).pool
      BY <1>3, <2>1, <3>1, StackInitGave DEF SearchBegins
    <3> QED BY <3>2 DEF Gave
  <2>2. CASE ExecBegins
    BY <1>3, <2>2, EmptyPools DEF ExecBegins
  <2>3. CASE ~ SearchBegins /\ ~ ExecBegins
    BY <1>3, <2>3 DEF RecvBegins, ParseIncomplete, NoReply, LeaveNode, SearchEnds
  <2> QED BY <2>1, <2>2, <2>3
<1>5. past' = past \/ past' = [past EXCEPT !.visits = past'.visits]
  BY <1>2, <1>3 DEF Descriptors
<1>6. /\ start' = [in |-> start'.in, out |-> start'.out]
      /\ start'.in # NoChunk /\ start'.out # NoChunk
  BY <1>1, <1>3 DEF Descriptors
<1>7. Descriptors' /\ past'.most = past.most /\ past'.tops = past.tops
  BY <1>1, <1>5, <1>6, RecycleHolds
<1> QED BY <1>1, <1>4, <1>7, SameHolds

\* A reply in the pool of the request
LEMMA TempHolds ==
  ASSUME HoldInv, NEW bytes \in Nat, 0 < bytes, FromTemp(bytes)
  PROVE  Owned' /\ Descriptors' /\ Regular'
<1> DEFINE c == Fresh(heap)
           q == Palloc(temp, bytes, c).pool
<1>1. /\ at = "exec" /\ at' = "send" /\ temp' = q
      /\ heap' = heap \cup AskedFor(bytes, c)
      /\ UNCHANGED <<pool, lost, start, cmds, stack, past>>
  BY DEF FromTemp
<1>2. /\ PoolOK(temp) /\ Listed(temp) /\ Listed(pool)
      /\ Parted(Chunks(pool), Chunks(temp), lost, heap) /\ Descriptors /\ Regular
  BY <1>1 DEF HoldInv, MemInv, Owned
<1>3. c \in Nat \ {NoChunk} /\ c \notin heap /\ c \notin Chunks(temp)
  BY <1>2, PartedFresh
<1> HIDE DEF c
<1>4. Gave(temp, q, AskedFor(bytes, c))
  BY <1>2, <1>3, PallocGave
<1> HIDE DEF q
<1>5. AskedFor(bytes, c) = {} \/ AskedFor(bytes, c) = {c}
  BY DEF AskedFor
<1>6. Parted(Chunks(pool), Chunks(q), lost, heap')
  <2> DEFINE s == AskedFor(bytes, c)
  <2> HIDE DEF s
  <2>1. Parted(Chunks(pool), Chunks(temp) \cup s, lost, heap \cup s)
    BY <1>2, <1>3, <1>5, PartedGive DEF s
  <2> QED BY <1>1, <1>4, <2>1 DEF Gave, s
<1>7. Owned'
  BY <1>1, <1>2, <1>4, <1>6 DEF Owned, Gave
<1>8. Descriptors' /\ Regular'
  BY <1>1, <1>2 DEF Descriptors, Regular, Due
<1> QED BY <1>7, <1>8

\* hget, ltop and rtop: the pool of the connection keeps one answer more
LEMMA TopHolds ==
  ASSUME HoldInv, NEW n \in ReplySizes, PoolReply(n)
  PROVE  Owned' /\ Descriptors' /\ Regular'
<1> DEFINE c == Fresh(heap)
           bytes == BytesSize + n
           q == Palloc(pool, bytes, c).pool
<1>1. /\ at = "exec" /\ at' = "send" /\ pool' = q
      /\ heap' = heap \cup AskedFor(bytes, c)
      /\ past' = [past EXCEPT !.tops = @ + 1]
      /\ UNCHANGED <<temp, lost, start, cmds>>
  BY DEF PoolReply
<1>2. bytes \in Nat /\ 0 < bytes
  BY MemoryAssumption DEF BytesSize
<1>3. /\ PoolOK(pool) /\ Listed(temp) /\ Listed(pool)
      /\ Parted(Chunks(pool), Chunks(temp), lost, heap) /\ Descriptors /\ Regular
  BY <1>1 DEF HoldInv, MemInv, Owned
<1>4. c \in Nat \ {NoChunk} /\ c \notin heap /\ c \notin Chunks(pool)
  BY <1>3, PartedFresh
<1> HIDE DEF c, bytes
<1>5. Gave(pool, q, AskedFor(bytes, c)) /\ More(pool, q)
  BY <1>2, <1>3, <1>4, PallocGave
<1> HIDE DEF q
<1>6. AskedFor(bytes, c) = {} \/ AskedFor(bytes, c) = {c}
  BY DEF AskedFor
<1>7. Parted(Chunks(q), Chunks(temp), lost, heap')
  <2> DEFINE s == AskedFor(bytes, c)
  <2> HIDE DEF s
  <2>1. Parted(Chunks(pool) \cup s, Chunks(temp), lost, heap \cup s)
    BY <1>3, <1>4, <1>6, PartedGive DEF s
  <2> QED BY <1>1, <1>5, <2>1 DEF Gave, s
<1>8. Owned'
  BY <1>1, <1>3, <1>5, <1>7 DEF Owned, Gave
<1>9. past'.most = past.most /\ past'.tops = past.tops + 1
      /\ past.most \in Nat /\ past.tops \in Nat
  BY <1>1, <1>3 DEF Descriptors
<1>10. Descriptors'
  <2>1. past' = [most |-> past'.most, tops |-> past'.tops, grows |-> past'.grows,
                 visits |-> past'.visits]
    BY <1>1, <1>3 DEF Descriptors
  <2>2. past'.tops \in Nat
    BY <1>9
  <2> QED BY <1>1, <1>3, <1>9, <2>1, <2>2 DEF Descriptors
<1>11. Regular'
  <2>1. Due \in Nat /\ Due' = Due + 1
    BY <1>9 DEF Due
  <2>2. /\ IsFiniteSet(pool.used) /\ Cardinality(pool.used) <= Due
        /\ lost = {} => Cardinality(pool.used) = Due /\ AllUsed(pool)
    BY <1>1, <1>3 DEF Regular
  <2> DEFINE none == lost = {}
  <2>3. none \in BOOLEAN
    OBVIOUS
  <2> HIDE DEF none
  <2>4. /\ IsFiniteSet(q.used) /\ Cardinality(q.used) <= Due + 1
        /\ none => Cardinality(q.used) = Due + 1
    BY <1>5, <2>1, <2>2, <2>3, OneMoreDue DEF none
  <2> QED BY <1>1, <1>5, <2>1, <2>2, <2>4, Zenon DEF Regular, none, Gave
<1> QED BY <1>8, <1>10, <1>11

\* A child is visited: the stack may grow, and a key is a result
LEMMA VisitHolds ==
  ASSUME HoldInv, NEW key \in BOOLEAN, Visit(key)
  PROVE  Owned' /\ Descriptors' /\ Regular'
<1> DEFINE full == stack.nelts = stack.nalloc
           c1 == Fresh(heap)
           g == IF full THEN StackGrow(temp, stack, c1)
                ELSE [pool |-> temp, at |-> stack.at, nalloc |-> stack.nalloc]
           s1 == IF full /\ g.at.block = 0 THEN {c1} ELSE {}
           h1 == IF full /\ g.at.block = 0 THEN heap \cup {c1} ELSE heap
           bytes == BytesSize + stack.nelts + 1 + 8
           c2 == Fresh(h1)
           q == Palloc(g.pool, bytes, c2).pool
           s2 == AskedFor(bytes, c2)
<1>1. /\ at = "search" /\ at' = at /\ past' = [past EXCEPT !.visits = @ + 1]
      /\ temp' = IF key THEN q ELSE g.pool
      /\ heap' = IF key THEN h1 \cup s2 ELSE h1
      /\ UNCHANGED <<pool, lost, start, cmds>>
  BY DEF Visit
<1>2. /\ PoolOK(temp) /\ Held(temp, stack) /\ Listed(temp) /\ Listed(pool)
      /\ Parted(Chunks(pool), Chunks(temp), lost, heap) /\ Descriptors /\ Regular
  BY <1>1 DEF HoldInv, MemInv, Owned
<1>3. c1 \in Nat \ {NoChunk} /\ c1 \notin heap /\ c1 \notin Chunks(temp)
  BY <1>2, PartedFresh
<1>4. bytes \in Nat /\ 0 < bytes
  BY <1>2 DEF Held, BytesSize
<1> HIDE DEF c1, bytes
<1>5. PoolOK(g.pool) /\ Gave(temp, g.pool, s1)
  <2>1. CASE full
    <3> DEFINE k == StackGrow(temp, stack, c1)
    <3>1. PoolOK(k.pool) /\ Gave(temp, k.pool, IF k.at.block = 0 THEN {c1} ELSE {})
      BY <1>2, <1>3, StackGrowOK, StackGrowGave
    <3> HIDE DEF k
    <3>2. g = k
      BY <2>1 DEF k
    <3> HIDE DEF g
    <3> QED BY <2>1, <3>1, <3>2
  <2>2. CASE ~ full
    <3>1. g.pool = temp /\ s1 = {}
      BY <2>2
    <3> HIDE DEF g, s1
    <3> QED BY <1>2, <3>1, SameChunks
  <2> QED BY <2>1, <2>2
<1>6. h1 = heap \cup s1 /\ (s1 = {} \/ s1 = {c1})
  OBVIOUS
<1> HIDE DEF g, s1, h1
<1>7. Listed(g.pool) /\ Parted(Chunks(pool), Chunks(g.pool), lost, h1)
  <2>1. Parted(Chunks(pool), Chunks(temp) \cup s1, lost, heap \cup s1)
    BY <1>2, <1>3, <1>6, PartedGive
  <2> QED BY <1>5, <1>6, <2>1 DEF Gave
<1>8. c2 \in Nat \ {NoChunk} /\ c2 \notin h1 /\ c2 \notin Chunks(g.pool)
  BY <1>7, PartedFresh
<1>9. s2 = {} \/ s2 = {c2}
  BY DEF AskedFor
<1> HIDE DEF c2
<1>10. Gave(g.pool, q, s2)
  BY <1>4, <1>5, <1>7, <1>8, PallocGave
<1> HIDE DEF q, s2
<1>11. Listed(q) /\ Parted(Chunks(pool), Chunks(q), lost, h1 \cup s2)
  <2>1. Parted(Chunks(pool), Chunks(g.pool) \cup s2, lost, h1 \cup s2)
    BY <1>7, <1>8, <1>9, PartedGive
  <2> QED BY <1>10, <2>1 DEF Gave
<1>12. Listed(temp') /\ Parted(Chunks(pool), Chunks(temp'), lost, heap')
  BY <1>1, <1>7, <1>11
<1>13. Owned'
  BY <1>1, <1>2, <1>12 DEF Owned
<1>14. Descriptors' /\ past'.most = past.most /\ past'.tops = past.tops
  <2>1. past' = [past EXCEPT !.visits = past'.visits]
    BY <1>1, <1>2 DEF Descriptors
  <2>2. /\ start' = [in |-> start'.in, out |-> start'.out]
        /\ start'.in # NoChunk /\ start'.out # NoChunk
    BY <1>1, <1>2 DEF Descriptors
  <2> QED BY <1>1, <2>1, <2>2, RecycleHolds
<1>15. Regular'
  BY <1>1, <1>2, <1>14 DEF Regular, Due
<1> QED BY <1>13, <1>14, <1>15

\* The chunk of buf_out is lost, and its node waits for another
LEMMA LostHolds ==
  ASSUME HoldInv, SendGrowFails PROVE Owned' /\ Descriptors' /\ Regular'
<1> DEFINE raw == start.out
           q == PreallocLarge(pool, raw, NoChunk)
<1>1. /\ at = "send" /\ at' = at /\ Has(pool, raw) /\ pool' = q
      /\ lost' = lost \cup {raw} /\ past' = [past EXCEPT !.grows = @ + 1]
      /\ UNCHANGED <<temp, heap, start, cmds>>
  BY DEF SendGrowFails
<1>2. /\ PoolOK(pool) /\ Listed(temp) /\ Listed(pool) /\ raw # NoChunk
      /\ Parted(Chunks(pool), Chunks(temp), lost, heap) /\ Descriptors /\ Regular
  BY <1>1 DEF HoldInv, MemInv, Owned, Descriptors
<1>3. NoChunk \in Nat /\ NoChunk \notin Chunks(pool)
  BY DEF NoChunk, Chunks
<1> HIDE DEF raw
<1>4. /\ Listed(q) /\ q.used = pool.used /\ raw \in Chunks(pool)
      /\ Chunks(q) = (Chunks(pool) \ {raw}) \cup ({NoChunk} \ {NoChunk})
  BY <1>1, <1>2, <1>3, PreallocGave
<1> HIDE DEF q
<1>5. Parted(Chunks(pool) \ {raw}, Chunks(temp), lost \cup {raw}, heap)
  BY <1>2, <1>4, PartedLose
<1>6. Chunks(q) = Chunks(pool) \ {raw}
  BY <1>4
<1>7. Owned'
  BY <1>1, <1>2, <1>4, <1>5, <1>6 DEF Owned
<1>8. Descriptors' /\ past'.most = past.most /\ past'.tops = past.tops
  <2>1. past' = [past EXCEPT !.grows = past'.grows]
    BY <1>1, <1>2 DEF Descriptors
  <2>2. /\ start' = [in |-> start'.in, out |-> start'.out]
        /\ start'.in # NoChunk /\ start'.out # NoChunk
    BY <1>1, <1>2 DEF Descriptors
  <2> QED BY <1>1, <2>1, <2>2, RecycleHolds
<1>9. Regular'
  BY <1>1, <1>2, <1>4, <1>8 DEF Regular, Due
<1> QED BY <1>7, <1>8, <1>9

\* The pool of the request is freed
LEMMA EndHolds ==
  ASSUME HoldInv, ExecEnds PROVE Owned' /\ Descriptors' /\ Regular'
<1>1. /\ at = "send" /\ at' = "idle" /\ temp' = NoPool /\ heap' = heap \ Chunks(temp)
      /\ UNCHANGED <<pool, lost, start, cmds, past>>
  BY DEF ExecEnds
<1>2. /\ Listed(pool) /\ Parted(Chunks(pool), Chunks(temp), lost, heap)
      /\ Descriptors /\ Regular
  BY DEF HoldInv, Owned
<1>3. Owned'
  <2>1. Parted(Chunks(pool), {}, lost, heap \ Chunks(temp))
    BY <1>2, PartedFree
  <2> QED BY <1>1, <1>2, <2>1, EmptyPools DEF Owned
<1> QED BY <1>1, <1>2, <1>3 DEF Descriptors, Regular, Due

LEMMA StepHoldInv == HoldInv /\ [MemNext]_memVars => HoldInv'
<1> SUFFICES ASSUME HoldInv, [MemNext]_memVars PROVE HoldInv'
  OBVIOUS
<1>1. MemInv'
  BY StepMemInv DEF HoldInv
<1>2. Owned' /\ Descriptors' /\ Regular'
  <2>1. CASE UNCHANGED memVars
    BY <2>1 DEF memVars, HoldInv, Owned, Descriptors, Regular, Due
  <2>2. CASE Accept
    BY <2>2, AcceptHolds
  <2>3. CASE Close \/ ParseGrowFails
    BY <2>3, ClosedHolds
  <2>4. CASE ParseRecord
    BY <2>4, RecordHolds
  <2>5. CASE \/ RecvBegins \/ ParseIncomplete \/ ExecBegins \/ NoReply
             \/ SearchBegins \/ LeaveNode \/ SearchEnds
    BY <2>5, QuietHolds
  <2>6. CASE ParseGrows \/ SendGrows
    <3>1. /\ at # "closed" /\ at' # "closed" /\ temp' = temp
          /\ cmds' = Recycle \/ cmds' = cmds
      BY <2>6 DEF ParseGrows, SendGrows
    <3>2. CASE ParseGrows
      BY <3>1, <3>2, GrownHolds DEF ParseGrows
    <3>3. CASE SendGrows
      BY <3>1, <3>3, GrownHolds DEF SendGrows
    <3> QED BY <2>6, <3>2, <3>3
  <2>7. ASSUME NEW n \in ReplySizes, TempReply(n) \/ UnknownReply(n) \/ PoolReply(n)
        PROVE  Owned' /\ Descriptors' /\ Regular'
    <3>1. /\ BytesSize + n \in Nat /\ 0 < BytesSize + n
          /\ 16 + n \in Nat /\ 0 < 16 + n
      BY MemoryAssumption DEF BytesSize
    <3>2. CASE TempReply(n)
      BY <3>1, <3>2, TempHolds DEF TempReply
    <3>3. CASE UnknownReply(n)
      BY <3>1, <3>3, TempHolds DEF UnknownReply
    <3>4. CASE PoolReply(n)
      BY <3>4, TopHolds
    <3> QED BY <2>7, <3>2, <3>3, <3>4
  <2>8. ASSUME NEW key \in BOOLEAN, Visit(key) PROVE Owned' /\ Descriptors' /\ Regular'
    BY <2>8, VisitHolds
  <2>9. CASE SendGrowFails
    BY <2>9, LostHolds
  <2>10. CASE ExecEnds
    BY <2>10, EndHolds
  <2> QED BY <2>1, <2>2, <2>3, <2>4, <2>5, <2>6, <2>7, <2>8, <2>9, <2>10 DEF MemNext
<1> QED BY <1>1, <1>2 DEF HoldInv

-----------------------------------------------------------------------------
\* Every chunk that malloc gave belongs to one pool of the connection or was
\* lost by a failed realloc, etdb_connect_close leaves nothing else behind, and
\* the pool of the connection grows by the records of its longest request and
\* the answers of hget, ltop and rtop only: for any sizes, and any order of
\* requests, growing buffers and failing reallocs.
THEOREM HoldingsHold == MemSpec => []Holdings
<1>1. ASSUME HoldInv PROVE Holdings
  <2>1. /\ Listed(pool) /\ Listed(temp)
        /\ Parted(Chunks(pool), Chunks(temp), lost, heap) /\ Regular
    BY <1>1 DEF HoldInv, Owned
  <2>2. heap = Chunks(pool) \cup Chunks(temp) \cup lost
    BY <2>1 DEF Parted
  <2>3. Cardinality(heap) = Cardinality(Chunks(pool)) + Cardinality(Chunks(temp)) + Cardinality(lost)
    BY <2>1, PartedCounts
  <2> QED BY <2>1, <2>2, <2>3 DEF Holdings, Listed, Regular, Due
<1>2. MemSpec => []HoldInv
  BY InitHoldInv, StepHoldInv, PTL DEF MemSpec
<1> QED BY <1>1, <1>2, PTL
=============================================================================
