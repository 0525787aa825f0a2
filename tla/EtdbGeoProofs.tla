--------------------------- MODULE EtdbGeoProofs ---------------------------
(***************************************************************************)
(* Proofs about EtdbGeo, for any size of the world, of a character and of  *)
(* a code, and any coordinates. The stored point remembers the run of the  *)
(* encoder that made its code; the cover's loop is compared with that run, *)
(* turn by turn.                                                           *)
(*                                                                         *)
(* Proofs about EtdbNeighbors, for codes of any length. A character has    *)
(* three bits of one side of the grid and two of the other, so a code is a *)
(* number with digits of base 8 and 4 on each side; the tables add one to  *)
(* a digit or take one away, and the recursion is the carry.               *)
(***************************************************************************)
EXTENDS EtdbGeo, EtdbNeighbors, WellFoundedInduction, TLAPS

\* The bit and the cell of one turn of the encoder for place q, from cell c
BitOf(q, c, a) == IF q[a] > Mid(c[a]) THEN 1 ELSE 0
Cut(c, a, b) == [c EXCEPT ![a] = Half(@, b)]

\* g and c are the bits and the cells of a run of the encoder for place q
Run(q, g, c) ==
    /\ c[1] = World
    /\ \A i \in 1..Len(g) : /\ g[i] = BitOf(q, c[i], Axis(i))
                            /\ c[i + 1] = Cut(c[i], Axis(i), g[i])

\* All cells contain the place
Holds(q, c) ==
    \A i \in 1..Len(c) : \A a \in Axes : c[i][a][1] < q[a] /\ q[a] <= c[i][a][2]

\* Every turn halves the width or the height of the cell
Widths(c) ==
    \A i \in 1..Len(c) : \A a \in Axes :
       c[i][a][2] - c[i][a][1] = Halved(2 * Max[a])[Cuts(a, i - 1)]

EncodeInv ==
    pc = "encode" =>
        /\ pt \in [Axes -> Coord]
        /\ Run(pt, hash, path) /\ Holds(pt, path) /\ Widths(path)

HeadInv ==
    head # NoHead =>
        /\ Run(head.pt, head.geo, head.path)
        /\ Holds(head.pt, head.path) /\ Widths(head.path)

\* A cover with a character has as many as precision says
CoverPrecision ==
    pc \in {"cover", "reply"} /\ Len(hash) >= Bits => precision * Bits <= Len(hash)

\* There is a code to decode, and the decoder goes through the cells of the
\* encoder
DecodeInv ==
    pc \in {"decode", "decoded"} =>
        /\ head # NoHead /\ cell = head.path[Len(hash) + 1]
        /\ Len(hash) <= precision * Bits
        /\ pc = "decoded" => Len(hash) = precision * Bits

\* The inductive invariant
Inv ==
    /\ TypeOK
    /\ EncodeInv
    /\ HeadInv
    /\ DecodeInv
    /\ CoverFollowsCode
    /\ CoverPrecision
    /\ CoverSound

----------------------------------------------------------------------------
(***************************************************************************)
(* Halving                                                                 *)
(***************************************************************************)
\* A set of natural numbers has a least one.
LEMMA LeastOf ==
    ASSUME NEW T, T \subseteq Nat, T # {}
    PROVE  \E m \in T : \A k \in T : m <= k
  <1> DEFINE R == {ss \in Nat \X Nat : ss[1] < ss[2]}
  <1>1. IsWellFoundedOn(R, Nat)
    BY NatLessThanWellFounded, Zenon DEF OpToRel
  <1> HIDE DEF R
  <1>2. PICK x \in T : \A y \in T : <<y, x>> \notin R
    BY <1>1, WFMin
  <1>3. \A y \in T : ~(y < x)
    BY <1>2 DEF R
  <1> QED
    BY <1>3

\* Induction, for a set.
LEMMA Induction ==
    ASSUME NEW S, 0 \in S, \A n \in Nat : n \in S => n + 1 \in S
    PROVE  Nat \subseteq S
  <1> SUFFICES ASSUME Nat \ S # {} PROVE FALSE
    OBVIOUS
  <1>1. PICK m \in Nat \ S : \A k \in Nat \ S : m <= k
    BY LeastOf
  <1>2. m # 0 /\ m - 1 \in Nat
    BY <1>1
  <1>3. m - 1 \in S
    BY <1>1, <1>2
  <1> QED
    BY <1>1, <1>2, <1>3

\* The first n halvings of w
Halvings(w, n, g) ==
    /\ DOMAIN g = 0..n
    /\ g[0] = w /\ \A k \in 1..n : g[k] = g[k - 1] \div 2

\* They can be made, in one way.
LEMMA HalvingsMade ==
    ASSUME NEW w, NEW n \in Nat
    PROVE  \E g : Halvings(w, n, g)
  <1> DEFINE S == {m \in Nat : \E g : Halvings(w, m, g)}
  <1>1. 0 \in S
    <2>1. Halvings(w, 0, [k \in 0..0 |-> w])
      BY DEF Halvings
    <2> QED
      BY <2>1
  <1>2. ASSUME NEW m \in Nat, m \in S PROVE m + 1 \in S
    <2>1. PICK g : Halvings(w, m, g)
      BY <1>2
    <2> DEFINE h == [k \in 0..(m + 1) |-> IF k = m + 1 THEN g[m] \div 2 ELSE g[k]]
    <2>2. DOMAIN h = 0..(m + 1) /\ h[0] = w
      BY <2>1 DEF Halvings
    <2>3. \A k \in 1..(m + 1) : h[k] = h[k - 1] \div 2
      <3>1. ASSUME NEW k \in 1..m PROVE h[k] = h[k - 1] \div 2
        <4>1. k \in 0..(m + 1) /\ k - 1 \in 0..(m + 1) /\ k # m + 1 /\ k - 1 # m + 1
          OBVIOUS
        <4>2. h[k] = g[k] /\ h[k - 1] = g[k - 1]
          BY <4>1
        <4> QED
          BY <2>1, <4>2, <3>1 DEF Halvings
      <3>2. h[m + 1] = g[m] \div 2 /\ h[m] = g[m] /\ (m + 1) - 1 = m
        OBVIOUS
      <3>3. \A k \in 1..(m + 1) : k \in 1..m \/ k = m + 1
        OBVIOUS
      <3> HIDE DEF h
      <3> QED
        BY <3>1, <3>2, <3>3
    <2> HIDE DEF h
    <2>4. Halvings(w, m + 1, h)
      BY <2>2, <2>3 DEF Halvings
    <2> QED
      BY <2>4
  <1> HIDE DEF S
  <1>3. Nat \subseteq S
    BY <1>1, <1>2, Induction
  <1> QED
    BY <1>3 DEF S

LEMMA HalvingsAgree ==
    ASSUME NEW w, NEW n \in Nat, NEW m \in Nat, n <= m, NEW g, NEW h,
           Halvings(w, n, g), Halvings(w, m, h)
    PROVE  \A k \in 0..n : g[k] = h[k]
  <1> DEFINE S == {k \in Nat : k <= n => g[k] = h[k]}
  <1>1. 0 \in S
    BY DEF Halvings
  <1>2. ASSUME NEW k \in Nat, k \in S PROVE k + 1 \in S
    <2>1. SUFFICES ASSUME k + 1 <= n PROVE g[k + 1] = h[k + 1]
      OBVIOUS
    <2>2. k + 1 \in 1..n /\ k + 1 \in 1..m /\ (k + 1) - 1 = k /\ k <= n
      BY <2>1
    <2>3. g[k] = h[k]
      BY <1>2, <2>2
    <2> QED
      BY <2>2, <2>3 DEF Halvings
  <1> HIDE DEF S
  <1>3. Nat \subseteq S
    BY <1>1, <1>2, Induction
  <1> QED
    BY <1>3 DEF S

\* Halved is what its equations say.
LEMMA HalvedFacts ==
    ASSUME NEW w
    PROVE  /\ Halved(w)[0] = w
           /\ \A k \in Nat : Halved(w)[k + 1] = Halved(w)[k] \div 2
  <1> DEFINE g(n) == CHOOSE g : Halvings(w, n, g)
             f == [n \in Nat |-> g(n)[n]]
             IsHalved(h) == h = [k \in Nat |-> IF k = 0 THEN w ELSE h[k - 1] \div 2]
  <1>1. \A n \in Nat : Halvings(w, n, g(n))
    BY HalvingsMade
  <1> HIDE DEF g
  <1>2. f[0] = w
    BY <1>1 DEF Halvings
  <1>3. ASSUME NEW k \in Nat \ {0} PROVE f[k] = f[k - 1] \div 2
    <2>1. k \in 1..k /\ k - 1 \in Nat /\ k - 1 \in 0..(k - 1) /\ k - 1 <= k
      OBVIOUS
    <2>2. f[k] = g(k)[k] /\ f[k - 1] = g(k - 1)[k - 1]
      BY <2>1
    <2>3. g(k)[k] = g(k)[k - 1] \div 2
      BY <1>1, <2>1 DEF Halvings
    <2>4. g(k - 1)[k - 1] = g(k)[k - 1]
      BY <1>1, <2>1, HalvingsAgree
    <2> QED
      BY <2>2, <2>3, <2>4
  <1>4. IsHalved(f)
    <2>1. \A k \in Nat : f[k] = IF k = 0 THEN w ELSE f[k - 1] \div 2
      BY <1>2, <1>3
    <2>2. f = [k \in Nat |-> f[k]]
      OBVIOUS
    <2> HIDE DEF f
    <2> QED
      BY <2>1, <2>2
  <1> HIDE DEF f
  <1>5. Halved(w) = CHOOSE h : IsHalved(h)
    BY DEF Halved
  <1> HIDE DEF IsHalved
  <1>6. IsHalved(Halved(w))
    BY <1>4, <1>5
  <1>7. \A k \in Nat : Halved(w)[k] = IF k = 0 THEN w ELSE Halved(w)[k - 1] \div 2
    <2> DEFINE h == Halved(w)
    <2>1. h = [k \in Nat |-> IF k = 0 THEN w ELSE h[k - 1] \div 2]
      BY <1>6 DEF IsHalved
    <2> HIDE DEF h
    <2>2. \A k \in Nat : h[k] = IF k = 0 THEN w ELSE h[k - 1] \div 2
      BY <2>1
    <2> QED
      BY <2>2 DEF h
  <1>8. \A k \in Nat : k + 1 \in Nat /\ k + 1 # 0 /\ (k + 1) - 1 = k
    OBVIOUS
  <1> QED
    BY <1>7, <1>8

----------------------------------------------------------------------------
(***************************************************************************)
(* Facts about the operators                                               *)
(***************************************************************************)
\* The world is a cell and every argument in range is in it.
LEMMA WorldFacts ==
    /\ Axes = {"lat", "lng"}
    /\ World \in Cells
    /\ Turns \in Nat /\ Turns >= Bits
    /\ Max \in [Axes -> Nat \ {0}]
    /\ \A a \in Axes : World[a][1] = -Max[a] /\ World[a][2] = Max[a]
  <1>1. Max \in [Axes -> Nat \ {0}]
    BY GeoAssumption DEF Max, Axes
  <1>2. World \in Cells /\ \A a \in Axes : World[a][1] = -Max[a] /\ World[a][2] = Max[a]
    BY <1>1 DEF World, Cells
  <1>3. Turns \in Nat /\ Turns >= Bits
    BY GeoAssumption DEF Turns
  <1> QED
    BY <1>1, <1>2, <1>3 DEF Axes

\* Every turn has an axis.
LEMMA AxisType ==
    ASSUME NEW i \in Int
    PROVE  Axis(i) \in Axes
  BY DEF Axis, Axes

\* Cutting a cell changes one axis, at an integer.
LEMMA CutFacts ==
    ASSUME NEW c \in Cells, NEW a \in Axes, NEW b \in {0, 1}
    PROVE  /\ Cut(c, a, b) \in Cells
           /\ Mid(c[a]) \in Int
           /\ \A d \in Axes \ {a} : Cut(c, a, b)[d] = c[d]
           /\ b = 1 => Cut(c, a, b)[a][1] = Mid(c[a]) /\ Cut(c, a, b)[a][2] = c[a][2]
           /\ b = 0 => Cut(c, a, b)[a][1] = c[a][1] /\ Cut(c, a, b)[a][2] = Mid(c[a])
  <1>1. c[a] \in Int \X Int
    BY DEF Cells
  <1>2. Mid(c[a]) \in Int
    BY <1>1 DEF Mid
  <1>3. Half(c[a], b) \in Int \X Int
    BY <1>1, <1>2 DEF Half
  <1>4. Cut(c, a, b) = [c EXCEPT ![a] = Half(c[a], b)]
    BY DEF Cut
  <1>5. Cut(c, a, b) \in Cells
    BY <1>3, <1>4 DEF Cells
  <1>6. Cut(c, a, b)[a] = Half(c[a], b) /\ \A d \in Axes \ {a} : Cut(c, a, b)[d] = c[d]
    BY <1>4 DEF Cells
  <1> QED
    BY <1>1, <1>2, <1>5, <1>6 DEF Half

\* A turn cuts its axis once more, and the other one not.
LEMMA CutsFacts ==
    ASSUME NEW t \in Nat \ {0}
    PROVE  /\ \A a \in Axes : Cuts(a, 0) = 0 /\ Cuts(a, t) \in Nat /\ Cuts(a, t - 1) \in Nat
           /\ Cuts(Axis(t), t) = Cuts(Axis(t), t - 1) + 1
           /\ \A a \in Axes : a # Axis(t) => Cuts(a, t) = Cuts(a, t - 1)
  BY DEF Cuts, Axis, Axes

\* An interval of an even width is cut into two of half the width.
LEMMA HalfWidth ==
    ASSUME NEW in \in Int \X Int, (in[2] - in[1]) % 2 = 0, NEW b \in {0, 1}
    PROVE  /\ Half(in, b)[2] - Half(in, b)[1] = (in[2] - in[1]) \div 2
           /\ Mid(in) = in[1] + (in[2] - in[1]) \div 2
           /\ Mid(in) = in[2] - (in[2] - in[1]) \div 2
  <1>1. in[1] \in Int /\ in[2] \in Int
    OBVIOUS
  <1>2. Half(in, b)[1] = IF b = 1 THEN Mid(in) ELSE in[1]
    BY DEF Half
  <1>3. Half(in, b)[2] = IF b = 1 THEN in[2] ELSE Mid(in)
    BY DEF Half
  <1>4. /\ Mid(in) = in[1] + (in[2] - in[1]) \div 2
        /\ Mid(in) = in[2] - (in[2] - in[1]) \div 2
        /\ in[2] - Mid(in) = (in[2] - in[1]) \div 2
        /\ Mid(in) - in[1] = (in[2] - in[1]) \div 2
    <2> DEFINE x == in[1]
               y == in[2]
               k == (y - x) \div 2
    <2>1. x \in Int /\ y \in Int /\ (y - x) % 2 = 0
      BY <1>1
    <2>2. Mid(in) = (x + y) \div 2
      BY DEF Mid
    <2> HIDE DEF x, y
    <2>3. k \in Int /\ y - x = 2 * k
      BY <2>1
    <2> HIDE DEF k
    <2>4. (x + y) \div 2 = x + k
      BY <2>1, <2>3
    <2>5. Mid(in) = x + k /\ Mid(in) = y - k /\ y - Mid(in) = k /\ Mid(in) - x = k
      BY <2>1, <2>2, <2>3, <2>4
    <2> QED
      BY <2>5 DEF x, y, k
  <1> QED
    BY <1>2, <1>3, <1>4

\* A turn halves the width of its axis.
LEMMA WidthsExtend ==
    ASSUME NEW c \in Seq(Cells), c # << >>, Len(c) <= Turns, Widths(c), NEW b \in {0, 1},
           NEW d, d = Cut(c[Len(c)], Axis(Len(c)), b)
    PROVE  Widths(Append(c, d))
  <1> DEFINE t == Len(c)
             u == c[t]
             e == Append(c, d)
  <1>1. t \in Nat \ {0} /\ t \in 1..t /\ t \in 1..Turns /\ (t + 1) - 1 = t
    BY WorldFacts
  <1>2. u \in Cells /\ Axis(t) \in Axes
    BY <1>1, AxisType
  <1>3. Len(e) = t + 1 /\ e[t + 1] = d /\ \A i \in 1..t : e[i] = c[i]
    OBVIOUS
  <1> HIDE DEF e, t
  <1>4. \A a \in Axes : u[a][2] - u[a][1] = Halved(2 * Max[a])[Cuts(a, t - 1)]
    BY <1>1 DEF Widths, t
  <1> HIDE DEF u
  <1>5. d = Cut(u, Axis(t), b)
    BY DEF t, u
  <1>6. ASSUME NEW a \in Axes
        PROVE  d[a][2] - d[a][1] = Halved(2 * Max[a])[Cuts(a, t)]
    <2>1. CASE a # Axis(t)
      <3>1. d[a] = u[a]
        <4>1. \A j \in Axes \ {Axis(t)} : Cut(u, Axis(t), b)[j] = u[j]
          BY <1>2, CutFacts
        <4> QED
          BY <1>5, <2>1, <4>1
      <3> QED
        BY <1>1, <1>4, <2>1, <3>1, CutsFacts
    <2>2. CASE a = Axis(t)
      <3> DEFINE w == Halved(2 * Max[a])
      <3>1. d[a] = Half(u[a], b) /\ u[a] \in Int \X Int
        BY <1>2, <1>5, <2>2 DEF Cut, Cells
      <3>2. w[Cuts(a, t - 1)] % 2 = 0
        BY <1>1, <2>2, UnitAssumption
      <3>3. u[a][2] - u[a][1] = w[Cuts(a, t - 1)]
        BY <1>4
      <3> HIDE DEF w
      <3>4. d[a][2] - d[a][1] = w[Cuts(a, t - 1)] \div 2
        <4>1. (u[a][2] - u[a][1]) % 2 = 0
          BY <3>2, <3>3
        <4>2. Half(u[a], b)[2] - Half(u[a], b)[1] = (u[a][2] - u[a][1]) \div 2
          BY <3>1, <4>1, HalfWidth
        <4> QED
          BY <3>1, <3>3, <4>2
      <3>5. Cuts(a, t - 1) \in Nat /\ Cuts(a, t) = Cuts(a, t - 1) + 1
        BY <1>1, <2>2, CutsFacts
      <3>6. w[Cuts(a, t - 1) + 1] = w[Cuts(a, t - 1)] \div 2
        BY <3>5, HalvedFacts DEF w
      <3> QED
        BY <3>4, <3>5, <3>6 DEF w
    <2> QED
      BY <2>1, <2>2
  <1>7. SUFFICES ASSUME NEW i \in 1..(t + 1), NEW a \in Axes
                 PROVE  e[i][a][2] - e[i][a][1] = Halved(2 * Max[a])[Cuts(a, i - 1)]
    BY <1>3 DEF Widths, e
  <1>8. i \in 1..t \/ i = t + 1
    BY <1>1
  <1>9. CASE i \in 1..t
    BY <1>3, <1>9 DEF Widths, t
  <1>10. CASE i = t + 1
    BY <1>1, <1>3, <1>6, <1>10
  <1> QED
    BY <1>8, <1>9, <1>10

\* The characters of a whole number of groups of bits.
LEMMA CharsFacts ==
    ASSUME NEW t \in Nat \ {0}, t <= Turns, t % Bits = 0
    PROVE  Chars(t) \in 1..PrecisionLen /\ Chars(t) * Bits = t
  <1> DEFINE q == (t - 1) \div Bits
             k == t \div Bits
  <1>1. q \in Nat /\ k \in Nat
    BY GeoAssumption
  <1>2. t = Bits * k
    BY GeoAssumption
  <1>3. Bits * q <= t - 1 /\ t - 1 < Bits * (q + 1)
    BY GeoAssumption
  <1>4. k = q + 1
    BY <1>1, <1>2, <1>3, GeoAssumption
  <1>5. k <= PrecisionLen
    BY <1>1, <1>2, GeoAssumption DEF Turns
  <1> QED
    BY <1>1, <1>2, <1>4, <1>5, GeoAssumption DEF Chars

\* A run of the encoder goes on with the next turn.
LEMMA RunExtends ==
    ASSUME NEW q, NEW g \in Seq({0, 1}), NEW c \in Seq(Cells), Len(c) = Len(g) + 1,
           NEW b \in {0, 1}, NEW d \in Cells, Run(q, g, c),
           b = BitOf(q, c[Len(c)], Axis(Len(c))), d = Cut(c[Len(c)], Axis(Len(c)), b)
    PROVE  Run(q, Append(g, b), Append(c, d))
  BY DEF Run

\* A cell that contains a place is cut into halves, one of which has the
\* place: the one the encoder goes to.
LEMMA CutHolds ==
    ASSUME NEW q \in [Axes -> Int], NEW c \in Cells, NEW a \in Axes,
           \A d \in Axes : c[d][1] < q[d] /\ q[d] <= c[d][2]
    PROVE  /\ BitOf(q, c, a) \in {0, 1}
           /\ Cut(c, a, BitOf(q, c, a)) \in Cells
           /\ \A d \in Axes : /\ Cut(c, a, BitOf(q, c, a))[d][1] < q[d]
                              /\ q[d] <= Cut(c, a, BitOf(q, c, a))[d][2]
  <1> DEFINE b == BitOf(q, c, a)
  <1>1. b \in {0, 1}
    BY DEF BitOf
  <1>2. b = 1 => Mid(c[a]) < q[a]
    BY DEF BitOf
  <1>3. b = 0 => q[a] <= Mid(c[a])
    BY CutFacts DEF BitOf
  <1>4. Cut(c, a, b)[a][1] < q[a] /\ q[a] <= Cut(c, a, b)[a][2]
    BY <1>1, <1>2, <1>3, CutFacts
  <1>5. Cut(c, a, b) \in Cells /\ \A d \in Axes \ {a} : Cut(c, a, b)[d] = c[d]
    BY <1>1, CutFacts
  <1> QED
    BY <1>1, <1>4, <1>5

----------------------------------------------------------------------------
(***************************************************************************)
(* The steps                                                               *)
(***************************************************************************)
\* A loop that starts keeps the invariant, if it does not change the head.
LEMMA StartKeeps ==
    ASSUME Inv, NEW loop \in {"idle", "encode", "cover", "decode"}, NEW n \in 1..PrecisionLen,
           StartLoop(loop, n), head' = head,
           pt' \in [Axes -> Nat], rect' \in [Axes -> Nat \X Nat], found' \in BOOLEAN,
           loop = "decode" => head # NoHead,
           loop = "encode" => pt' \in [Axes -> Coord] /\ \A a \in Axes : pt'[a] <= Max[a]
    PROVE  Inv'
  <1>1. /\ pc' = loop /\ cell' = World /\ path' = <<World>> /\ hash' = << >> /\ precision' = n
    BY DEF StartLoop
  <1>2. TypeOK'
    BY <1>1, WorldFacts, GeoAssumption DEF Inv, TypeOK
  <1>3. EncodeInv'
    <2> SUFFICES ASSUME loop = "encode"
                 PROVE  Run(pt', hash', path') /\ Holds(pt', path') /\ Widths(path')
      BY <1>1 DEF EncodeInv
    <2>1. Run(pt', hash', path')
      BY <1>1 DEF Run
    <2>2. \A a \in Axes : World[a][1] < pt'[a] /\ pt'[a] <= World[a][2]
      BY WorldFacts
    <2>3. Holds(pt', path')
      BY <1>1, <2>2 DEF Holds
    <2>4. Widths(path')
      <3>1. \A a \in Axes : World[a][2] - World[a][1] = 2 * Max[a]
        BY WorldFacts
      <3>2. \A a \in Axes : Halved(2 * Max[a])[Cuts(a, 0)] = 2 * Max[a]
        BY HalvedFacts, CutsFacts
      <3> QED
        BY <1>1, <3>1, <3>2 DEF Widths
    <2> QED
      BY <2>1, <2>3, <2>4
  <1>4. HeadInv' /\ DecodeInv'
    <2>1. 0 <= n * Bits
      BY GeoAssumption
    <2>2. head # NoHead => head.path[1] = World
      BY DEF Inv, HeadInv, Run
    <2> QED
      BY <1>1, <2>1, <2>2 DEF Inv, HeadInv, DecodeInv
  <1>5. CoverFollowsCode'
    <2>1. head # NoHead => head.path[1] = World
      BY DEF Inv, HeadInv, Run
    <2> QED
      BY <1>1, <2>1 DEF CoverFollowsCode
  <1>6. CoverPrecision' /\ CoverSound'
    BY <1>1, GeoAssumption DEF CoverPrecision, CoverSound
  <1> QED
    BY <1>2, <1>3, <1>4, <1>5, <1>6 DEF Inv

\* A turn of any loop keeps the types.
LEMMA AdvanceTypes ==
    ASSUME TypeOK, NEW a \in Axes, NEW b \in {0, 1}, Advance(a, b), MoreTurns
    PROVE  /\ cell' = Cut(path[Len(path)], a, b) /\ cell' \in Cells
           /\ path' = Append(path, cell') /\ hash' = Append(hash, b)
           /\ path' \in Seq(Cells) /\ Len(path') = Len(hash') + 1 /\ path'[Len(path')] = cell'
           /\ hash' \in Seq({0, 1}) /\ Len(hash') <= Turns
  <1>1. cell' = Cut(cell, a, b)
    BY DEF Advance, Cut
  <1>2. cell' \in Cells
    BY <1>1, CutFacts DEF TypeOK
  <1>3. path' = Append(path, cell') /\ hash' = Append(hash, b)
    BY DEF Advance
  <1>4. /\ path \in Seq(Cells) /\ hash \in Seq({0, 1}) /\ Len(path) = Len(hash) + 1
        /\ path[Len(path)] = cell /\ Len(hash) + 1 <= Turns
    BY DEF TypeOK, MoreTurns, Turn
  <1>5. path' \in Seq(Cells) /\ Len(path') = Len(path) + 1 /\ path'[Len(path')] = cell'
    BY <1>2, <1>3, <1>4
  <1>6. hash' \in Seq({0, 1}) /\ Len(hash') = Len(hash) + 1
    BY <1>3, <1>4
  <1> QED
    BY <1>1, <1>2, <1>3, <1>4, <1>5, <1>6, WorldFacts

\* A turn of the encoder extends its run, to a cell that contains the point.
LEMMA EncodeTurnKeeps ==
    ASSUME Inv, EncodeTurn
    PROVE  Inv'
  <1> DEFINE a == Axis(Turn)
             b == EncodeBit(a)
  <1>1. /\ pc = "encode" /\ MoreTurns /\ Advance(a, b)
        /\ UNCHANGED <<pc, pt, rect, head, precision, found>>
    BY DEF EncodeTurn
  <1>2. TypeOK
    BY DEF Inv
  <1>3. a \in Axes /\ b \in {0, 1} /\ Turn = Len(path) /\ Turn \in Nat \ {0}
    BY <1>2, AxisType DEF TypeOK, EncodeBit, Turn
  <1>4. /\ cell' = Cut(path[Len(path)], a, b) /\ cell' \in Cells
        /\ path' = Append(path, cell') /\ hash' = Append(hash, b)
        /\ path' \in Seq(Cells) /\ Len(path') = Len(hash') + 1 /\ path'[Len(path')] = cell'
        /\ hash' \in Seq({0, 1}) /\ Len(hash') <= Turns
    BY <1>1, <1>2, <1>3, AdvanceTypes
  <1>5. /\ pt \in [Axes -> Coord] /\ Run(pt, hash, path) /\ Holds(pt, path) /\ Widths(path)
    BY <1>1 DEF Inv, EncodeInv
  <1>6. b = BitOf(pt, path[Len(path)], Axis(Len(path)))
    BY <1>2, <1>3 DEF EncodeBit, BitOf, TypeOK
  <1>7. TypeOK'
    BY <1>1, <1>2, <1>4 DEF TypeOK
  <1>8. Run(pt, hash', path')
    BY <1>2, <1>3, <1>4, <1>5, <1>6, RunExtends DEF TypeOK
  <1>9. Holds(pt, path')
    <2>1. pt \in [Axes -> Int] /\ path[Len(path)] \in Cells
      BY <1>2, <1>5, GeoAssumption DEF TypeOK
    <2>2. \A d \in Axes : path[Len(path)][d][1] < pt[d] /\ pt[d] <= path[Len(path)][d][2]
      BY <1>2, <1>5, <1>3 DEF Holds
    <2>3. \A d \in Axes : cell'[d][1] < pt[d] /\ pt[d] <= cell'[d][2]
      BY ZenonT(40), <2>1, <2>2, <1>3, <1>4, <1>6, CutHolds
    <2> QED
      BY <2>3, <1>2, <1>4, <1>5 DEF Holds, TypeOK
  <1>10. Widths(path')
    <2>1. path \in Seq(Cells) /\ path # << >> /\ Len(path) <= Turns
      BY <1>1, <1>2, <1>3 DEF TypeOK, MoreTurns
    <2> QED
      BY <2>1, <1>3, <1>4, <1>5, WidthsExtend
  <1> QED
    BY <1>1, <1>5, <1>7, <1>8, <1>9, <1>10
    DEF Inv, EncodeInv, HeadInv, DecodeInv, CoverFollowsCode, CoverPrecision, CoverSound

\* The finished run is stored with the point.
LEMMA EncodedKeeps ==
    ASSUME Inv, Encoded
    PROVE  Inv'
  <1>1. /\ pc = "encode" /\ Turn > Turns /\ TypeOK
        /\ pt \in [Axes -> Coord] /\ Run(pt, hash, path) /\ Holds(pt, path) /\ Widths(path)
    BY WorldFacts DEF Encoded, Inv, EncodeInv, TypeOK, MoreTurns, Turn
  <1>2. Len(hash) = Turns /\ Len(path) = Turns + 1
    BY SMTT(30), <1>1, WorldFacts DEF TypeOK, Turn
  <1>3. head' = [pt |-> pt, geo |-> hash, path |-> path]
    BY DEF Encoded
  <1>4. head' \in Heads /\ Len(head'.geo) = Turns /\ Len(head'.path) = Turns + 1
    BY <1>1, <1>2, <1>3 DEF TypeOK, Heads
  <1>5. HeadInv'
    BY <1>1, <1>3 DEF HeadInv
  <1>6. /\ pc' = "idle" /\ cell' = World /\ path' = <<World>> /\ hash' = << >>
        /\ precision' = PrecisionLen /\ pt' = NoPoint /\ rect' = NoRect /\ found' = FALSE
    BY DEF Encoded, Return, StartLoop
  <1>7. TypeOK'
    <2>1. NoPoint \in [Axes -> Nat] /\ NoRect \in [Axes -> Nat \X Nat]
      BY DEF NoPoint, NoRect
    <2>2. /\ path' \in Seq(Cells) /\ Len(path') = Len(hash') + 1 /\ path'[Len(path')] = cell'
          /\ hash' \in Seq({0, 1}) /\ Len(hash') <= Turns
      BY <1>6, WorldFacts
    <2>3. precision' \in 1..PrecisionLen /\ cell' \in Cells
      BY <1>6, WorldFacts, GeoAssumption
    <2> QED
      BY <1>4, <1>6, <2>1, <2>2, <2>3 DEF TypeOK
  <1> QED
    BY <1>5, <1>6, <1>7 DEF Inv, EncodeInv, DecodeInv, CoverFollowsCode, CoverPrecision, CoverSound

\* A place inside a rectangle that is in one half of a cell is in that half.
LEMMA SameHalf ==
    ASSUME NEW q \in [Axes -> Nat], NEW a \in Axes, NEW c \in Cells,
           rect \in [Axes -> Nat \X Nat], Inside(q, rect), cell = c
    PROVE  /\ InUpper(a) => BitOf(q, c, a) = 1
           /\ InLower(a) => BitOf(q, c, a) = 0
  <1>1. rect[a][1] \in Nat /\ rect[a][2] \in Nat /\ q[a] \in Nat /\ Mid(c[a]) \in Int
    BY CutFacts
  <1>2. rect[a][1] <= q[a] /\ q[a] <= rect[a][2]
    BY DEF Inside
  <1>3. RangeLow(a) <= q[a] /\ q[a] <= RangeHigh(a) /\ RangeLow(a) \in Nat /\ RangeHigh(a) \in Nat
    BY <1>1, <1>2 DEF RangeLow, RangeHigh
  <1> QED
    BY <1>1, <1>3 DEF InUpper, InLower, BitOf

\* A turn of the cover finds the bit and the cell of the stored run.
LEMMA CoverTurnKeeps ==
    ASSUME Inv, CoverTurn
    PROVE  Inv'
  <1> DEFINE a == Axis(Turn)
  <1>1. PICK b \in {0, 1} : Advance(a, b) /\ (b = 1 => InUpper(a)) /\ (b = 0 => InLower(a))
    BY DEF CoverTurn
  <1>2. /\ pc = "cover" /\ MoreTurns /\ UNCHANGED <<pc, pt, rect, head, found>>
        /\ precision' = IF Turn % Bits = 0 THEN Chars(Turn) ELSE precision
    BY DEF CoverTurn
  <1>3. TypeOK
    BY DEF Inv
  <1>4. a \in Axes /\ Turn = Len(hash) + 1 /\ Turn = Len(path) /\ Turn \in Nat \ {0} /\ Turn <= Turns
    BY <1>2, <1>3, AxisType DEF TypeOK, Turn, MoreTurns
  <1>5. /\ cell' = Cut(path[Len(path)], a, b) /\ cell' \in Cells
        /\ path' = Append(path, cell') /\ hash' = Append(hash, b)
        /\ path' \in Seq(Cells) /\ Len(path') = Len(hash') + 1 /\ path'[Len(path')] = cell'
        /\ hash' \in Seq({0, 1}) /\ Len(hash') <= Turns
    BY <1>1, <1>2, <1>3, <1>4, AdvanceTypes
  <1>6. precision' \in 1..PrecisionLen
    BY <1>2, <1>3, <1>4, CharsFacts DEF TypeOK
  <1>7. TypeOK'
    BY <1>2, <1>3, <1>5, <1>6 DEF TypeOK
  <1>8. CoverFollowsCode'
    <2> SUFFICES ASSUME head # NoHead, Inside(head.pt, rect)
                 PROVE  /\ \A i \in 1..Len(hash') : hash'[i] = head.geo[i]
                        /\ cell' = head.path[Len(hash') + 1]
      BY <1>2 DEF CoverFollowsCode, Inside
    <2>1. /\ head.pt \in [Axes -> Coord] /\ head.geo \in Seq({0, 1})
          /\ Len(head.geo) = Turns /\ Run(head.pt, head.geo, head.path)
      BY <1>3 DEF Inv, TypeOK, Heads, HeadInv
    <2>2. /\ \A i \in 1..Len(hash) : hash[i] = head.geo[i]
          /\ cell = head.path[Turn] /\ cell = path[Len(path)]
      BY <1>2, <1>3, <1>4 DEF Inv, CoverFollowsCode, TypeOK
    <2>3. /\ head.geo[Turn] = BitOf(head.pt, cell, a)
          /\ head.path[Turn + 1] = Cut(cell, a, head.geo[Turn])
      <3>1. Turn \in 1..Len(head.geo)
        BY <2>1, <1>4, WorldFacts
      <3>2. /\ head.geo[Turn] = BitOf(head.pt, head.path[Turn], Axis(Turn))
            /\ head.path[Turn + 1] = Cut(head.path[Turn], Axis(Turn), head.geo[Turn])
        BY <3>1, <2>1 DEF Run
      <3> QED
        BY <3>2, <2>2
    <2>4. head.pt \in [Axes -> Nat] /\ cell \in Cells /\ rect \in [Axes -> Nat \X Nat]
      BY <2>1, <1>3, GeoAssumption DEF TypeOK
    <2>5. b = BitOf(head.pt, cell, a)
      BY <2>4, <1>1, <1>4, SameHalf
    <2>6. Len(hash') = Turn /\ hash'[Turn] = b /\ \A i \in 1..Len(hash) : hash'[i] = hash[i]
      <3>1. hash \in Seq({0, 1}) /\ Len(hash) \in Nat
        BY <1>3 DEF TypeOK
      <3> QED
        BY <3>1, <1>4, <1>5
    <2> QED
      BY <2>2, <2>3, <2>5, <2>6, <1>4, <1>5
  <1>9. CoverPrecision'
    <2> SUFFICES ASSUME Len(hash') >= Bits PROVE precision' * Bits <= Len(hash')
      BY DEF CoverPrecision
    <2>1. Len(hash') = Turn /\ Len(hash) \in Nat
      BY <1>3, <1>4, <1>5 DEF TypeOK
    <2>2. CASE Turn % Bits = 0
      BY <2>1, <2>2, <1>2, <1>4, CharsFacts
    <2>3. CASE Turn % Bits # 0
      <3>1. Bits % Bits = 0
        BY GeoAssumption
      <3>2. Len(hash) >= Bits
        BY <3>1, <2>1, <2>3, <1>4, GeoAssumption
      <3>3. precision * Bits <= Len(hash) /\ precision * Bits \in Nat
        BY <3>2, <1>2, <1>3, GeoAssumption DEF Inv, CoverPrecision, TypeOK
      <3> QED
        BY <3>3, <2>1, <2>3, <1>2, <1>4
    <2> QED
      BY <2>2, <2>3
  <1> QED
    BY <1>2, <1>7, <1>8, <1>9 DEF Inv, EncodeInv, HeadInv, DecodeInv, CoverSound

\* What follows the code is a prefix of it, and the search finds the point.
LEMMA SearchRectKeeps ==
    ASSUME Inv, SearchRect
    PROVE  Inv'
  <1>1. /\ pc = "cover" /\ pc' = "reply" /\ TypeOK
        /\ UNCHANGED <<pt, rect, head, cell, path, hash, precision>>
        /\ found' = (Matches /\ Inside(head.pt, rect))
    BY DEF SearchRect, Inv
  <1>2. TypeOK'
    <2>1. found' \in BOOLEAN
      BY <1>1
    <2> QED
      BY <1>1, <2>1 DEF TypeOK
  <1>3. CoverFollowsCode' /\ CoverPrecision'
    BY <1>1 DEF Inv, CoverFollowsCode, CoverPrecision, Inside
  <1>4. CoverSound'
    <2> SUFFICES ASSUME Len(hash) >= Bits, head # NoHead, Inside(head.pt, rect)
                 PROVE  Matches
      BY <1>1 DEF CoverSound, Inside
    <2>1. precision * Bits <= Len(hash) /\ precision * Bits \in Nat /\ Len(hash) \in Nat
      BY <1>1, GeoAssumption DEF Inv, CoverPrecision, TypeOK
    <2>2. \A i \in 1..Len(hash) : hash[i] = head.geo[i]
      BY <1>1 DEF Inv, CoverFollowsCode
    <2> QED
      BY <2>1, <2>2 DEF Matches
  <1> QED
    BY <1>1, <1>2, <1>3, <1>4 DEF Inv, EncodeInv, HeadInv, DecodeInv

\* A turn of the decoder goes to the cell the encoder went to.
LEMMA DecodeTurnKeeps ==
    ASSUME Inv, DecodeTurn
    PROVE  Inv'
  <1> DEFINE a == Axis(Turn)
             b == head.geo[Turn]
             delta == (cell[a][2] - cell[a][1]) \div 2
             half == IF b = 1 THEN <<cell[a][1] + delta, cell[a][2]>>
                     ELSE <<cell[a][1], cell[a][2] - delta>>
  <1>1. /\ pc = "decode" /\ Turn <= precision * Bits
        /\ UNCHANGED <<pc, pt, rect, head, precision, found>>
        /\ cell' = [cell EXCEPT ![a] = half]
        /\ path' = Append(path, cell') /\ hash' = Append(hash, b)
    BY DEF DecodeTurn
  <1>2. TypeOK /\ head # NoHead
    BY <1>1 DEF Inv, DecodeInv
  <1>3. Turn = Len(hash) + 1 /\ Len(hash) \in Nat /\ Turn <= Turns
    <2>1. precision * Bits <= PrecisionLen * Bits
      BY <1>2, GeoAssumption DEF TypeOK
    <2>2. precision * Bits \in Nat /\ PrecisionLen * Bits \in Nat /\ Turns = PrecisionLen * Bits
      BY <1>2, GeoAssumption DEF TypeOK, Turns
    <2> QED
      BY <1>1, <1>2, <2>1, <2>2 DEF TypeOK, Turn
  <1>4. a \in Axes /\ b \in {0, 1}
    <2>1. head.geo \in Seq({0, 1}) /\ Len(head.geo) = Turns
      BY <1>2 DEF TypeOK, Heads
    <2> QED
      BY <2>1, <1>3, AxisType, WorldFacts
  <1>5. cell' \in Cells
    <2>1. cell[a] \in Int \X Int
      BY <1>2, <1>4 DEF TypeOK, Cells
    <2>2. half \in Int \X Int
      BY <2>1
    <2> QED
      BY <2>2, <1>1, <1>2 DEF TypeOK, Cells
  <1>6. path' \in Seq(Cells) /\ Len(path') = Len(path) + 1 /\ path'[Len(path')] = cell'
    BY <1>1, <1>2, <1>5 DEF TypeOK
  <1>7. hash' \in Seq({0, 1}) /\ Len(hash') = Len(hash) + 1
    <2>1. hash \in Seq({0, 1})
      BY <1>2 DEF TypeOK
    <2> QED
      BY <2>1, <1>1, <1>4
  <1>8. TypeOK'
    BY <1>1, <1>2, <1>3, <1>5, <1>6, <1>7 DEF TypeOK
  <1>9. /\ cell = head.path[Turn] /\ Turn \in 1..Len(head.geo)
        /\ Run(head.pt, head.geo, head.path) /\ Widths(head.path)
        /\ Len(head.path) = Turns + 1
    <2>1. Run(head.pt, head.geo, head.path) /\ Widths(head.path)
      BY <1>2 DEF Inv, HeadInv
    <2>2. cell = head.path[Len(hash) + 1]
      BY <1>1 DEF Inv, DecodeInv
    <2>3. Len(head.geo) = Turns /\ Len(head.path) = Turns + 1
      BY <1>2 DEF TypeOK
    <2>4. cell = head.path[Turn]
      BY <2>2, <1>3
    <2>5. Turn \in 1..Turns
      BY <1>3, WorldFacts
    <2> QED
      BY <2>1, <2>3, <2>4, <2>5
  <1>10. head.path[Turn + 1] = Cut(cell, a, b)
    BY <1>9 DEF Run
  <1>11. half = Half(cell[a], b)
    <2>1. cell[a] \in Int \X Int
      BY <1>2, <1>4 DEF TypeOK, Cells
    <2>2. cell[a][2] - cell[a][1] = Halved(2 * Max[a])[Cuts(a, Turn - 1)]
      <3>1. Turn \in 1..Len(head.path)
        BY <1>3, <1>9, WorldFacts
      <3> QED
        BY <1>4, <1>9, <3>1 DEF Widths
    <2>3. (cell[a][2] - cell[a][1]) % 2 = 0
      <3>1. Turn \in 1..Turns
        BY <1>3, WorldFacts
      <3> QED
        BY <2>2, <3>1, UnitAssumption
    <2>4. Mid(cell[a]) = cell[a][1] + delta /\ Mid(cell[a]) = cell[a][2] - delta
      BY <1>4, <2>1, <2>3, HalfWidth
    <2> QED
      BY <2>4 DEF Half
  <1>12. cell' = head.path[Len(hash') + 1]
    <2>1. cell' = Cut(cell, a, b)
      BY <1>1, <1>11 DEF Cut
    <2>2. Len(hash') = Turn
      BY <1>2, <1>3, <1>7 DEF TypeOK
    <2> QED
      BY <1>10, <2>1, <2>2
  <1>13. DecodeInv'
    <2>1. Len(hash') = Turn
      BY <1>2, <1>3, <1>7 DEF TypeOK
    <2> QED
      BY <1>1, <1>2, <1>12, <2>1 DEF DecodeInv
  <1> QED
    BY <1>1, <1>8, <1>13
    DEF Inv, EncodeInv, HeadInv, CoverFollowsCode, CoverPrecision, CoverSound

----------------------------------------------------------------------------
\* The invariant holds initially.
LEMMA InvInit == Init => Inv
  <1> SUFFICES ASSUME Init PROVE Inv
    OBVIOUS
  <1>1. NoPoint \in [Axes -> Nat] /\ NoRect \in [Axes -> Nat \X Nat]
    BY DEF NoPoint, NoRect
  <1>2. /\ path \in Seq(Cells) /\ Len(path) = Len(hash) + 1 /\ path[Len(path)] = cell
        /\ hash \in Seq({0, 1}) /\ Len(hash) <= Turns
    BY WorldFacts DEF Init
  <1>3. precision \in 1..PrecisionLen /\ cell \in Cells
    BY WorldFacts, GeoAssumption DEF Init
  <1>4. TypeOK
    BY <1>1, <1>2, <1>3 DEF Init, TypeOK
  <1> QED
    BY <1>4 DEF Init, Inv, EncodeInv, HeadInv, DecodeInv, CoverFollowsCode, CoverPrecision, CoverSound

\* One step per action.
LEMMA InvNext == Inv /\ [Next]_vars => Inv'
  <1> SUFFICES ASSUME Inv, [Next]_vars PROVE Inv'
    OBVIOUS
  <1>0. PrecisionLen \in 1..PrecisionLen /\ TypeOK
    BY GeoAssumption DEF Inv
  <1>1. CASE \E p \in [Axes -> Coord] : SpSet(p)
    <2>1. PICK p \in [Axes -> Coord] : SpSet(p)
      BY <1>1
    <2>2. p \in [Axes -> Nat]
      BY GeoAssumption
    <2> QED
      BY <2>1, <2>2, <1>0, StartKeeps DEF SpSet, TypeOK
  <1>2. CASE EncodeTurn
    BY <1>2, EncodeTurnKeeps
  <1>3. CASE Encoded
    BY <1>3, EncodedKeeps
  <1>4. CASE \E r \in [Axes -> Coord \X Coord] : SpRect(r)
    <2>1. PICK r \in [Axes -> Coord \X Coord] : SpRect(r)
      BY <1>4
    <2>2. r \in [Axes -> Nat \X Nat]
      BY GeoAssumption
    <2> QED
      BY <2>1, <2>2, <1>0, StartKeeps DEF SpRect, TypeOK
  <1>5. CASE CoverTurn
    BY <1>5, CoverTurnKeeps
  <1>6. CASE SearchRect
    BY <1>6, SearchRectKeeps
  <1>7. CASE \E n \in 1..PrecisionLen : Decode(n)
    BY <1>7, <1>0, StartKeeps DEF Decode, TypeOK
  <1>8. CASE DecodeTurn
    BY <1>8, DecodeTurnKeeps
  <1>9. CASE Decoded
    <2>1. /\ pc' = "decoded" /\ pc = "decode"
          /\ UNCHANGED <<pt, rect, head, cell, path, hash, precision, found>>
      BY <1>9 DEF Decoded
    <2>2. TypeOK'
      BY <2>1, <1>0 DEF TypeOK
    <2>3. DecodeInv'
      <3>1. Len(hash) \in Nat /\ precision * Bits \in Nat /\ Len(hash) + 1 > precision * Bits
        BY <1>0, <1>9, GeoAssumption DEF Decoded, TypeOK, Turn
      <3>2. Len(hash) <= precision * Bits /\ head # NoHead /\ cell = head.path[Len(hash) + 1]
        BY <2>1 DEF Inv, DecodeInv
      <3> QED
        BY <2>1, <3>1, <3>2 DEF DecodeInv
    <2> QED
      BY <2>1, <2>2, <2>3
      DEF Inv, EncodeInv, HeadInv, CoverFollowsCode, CoverPrecision, CoverSound
  <1>10. CASE Replied
    <2>1. NoPoint \in [Axes -> Nat] /\ NoRect \in [Axes -> Nat \X Nat]
      BY DEF NoPoint, NoRect
    <2> QED
      BY <2>1, <1>10, <1>0, StartKeeps DEF Replied, Return
  <1>11. CASE UNCHANGED vars
    BY <1>11
    DEF vars, Inv, TypeOK, EncodeInv, HeadInv, DecodeInv, CoverFollowsCode, CoverPrecision,
        CoverSound, Inside
  <1> QED
    BY <1>1, <1>2, <1>3, <1>4, <1>5, <1>6, <1>7, <1>8, <1>9, <1>10, <1>11 DEF Next

\* The invariant holds in every state.
LEMMA Invariance == Spec => []Inv
  BY InvInit, InvNext, PTL DEF Spec

\* The variables keep their types, and a code has one bit for each turn.
THEOREM TypeCorrect == Spec => []TypeOK
  <1>1. Inv => TypeOK
    BY DEF Inv
  <1> QED
    BY <1>1, Invariance, PTL

\* The cells of the encoder contain the point at every turn.
THEOREM CellsHoldPoints == Spec => []CellHoldsPoint
  <1>1. Inv => CellHoldsPoint
    <2> SUFFICES ASSUME Inv PROVE CellHoldsPoint
      OBVIOUS
    <2>1. ASSUME pc = "encode"
          PROVE  \A a \in Axes : cell[a][1] < pt[a] /\ pt[a] <= cell[a][2]
      <3>1. Holds(pt, path) /\ Len(path) \in 1..Len(path) /\ path[Len(path)] = cell
        BY <2>1 DEF Inv, EncodeInv, TypeOK
      <3> QED
        BY <3>1 DEF Holds
    <2>2. ASSUME head # NoHead
          PROVE  \A i \in 1..(Turns + 1), a \in Axes :
                    head.path[i][a][1] < head.pt[a] /\ head.pt[a] <= head.path[i][a][2]
      BY <2>2 DEF Inv, HeadInv, TypeOK, Holds
    <2> QED
      BY <2>1, <2>2 DEF CellHoldsPoint
  <1> QED
    BY <1>1, Invariance, PTL

\* The cover of a rectangle follows the code of every point inside of it.
THEOREM CoversFollowCodes == Spec => []CoverFollowsCode
  <1>1. Inv => CoverFollowsCode
    BY DEF Inv
  <1> QED
    BY <1>1, Invariance, PTL

\* sprect finds the points inside of a rectangle whose cover has a character.
THEOREM CoversAreSound == Spec => []CoverSound
  <1>1. Inv => CoverSound
    BY DEF Inv
  <1> QED
    BY <1>1, Invariance, PTL

\* The dimensions of n characters are what the turns of both axes leave.
LEMMA DimensionsFacts ==
    ASSUME NEW n \in 1..PrecisionLen, NEW a \in Axes
    PROVE  Dimensions(n)[a] = Halved(2 * Max[a])[Cuts(a, n * Bits)]
  <1> DEFINE t == n * Bits
  <1>1. (t + 1) \div 2 = (t \div 2) + (n % 2)
    <2> DEFINE m == Bits \div 2
               k == n * m
    <2>1. m \in Nat /\ Bits = 2 * m + 1 /\ n \in Nat
      BY GeoAssumption, UnitAssumption
    <2> HIDE DEF m
    <2>2. k \in Nat
      BY <2>1
    <2>3. t = 2 * k + n
      BY <2>1
    <2> HIDE DEF k, t
    <2>4. n % 2 = 0 \/ n % 2 = 1
      BY <2>1
    <2>5. CASE n % 2 = 0
      <3>1. t \div 2 = (t + 1) \div 2
        BY <2>1, <2>2, <2>3, <2>5
      <3> QED
        BY <2>1, <2>2, <2>3, <2>5, <3>1
    <2>6. CASE n % 2 = 1
      <3>1. (t + 1) \div 2 = (t \div 2) + 1
        BY <2>1, <2>2, <2>3, <2>6
      <3> QED
        BY <2>6, <3>1
    <2> QED
      BY <2>4, <2>5, <2>6
  <1>2. Dimensions(n).lat = Halved(2 * MaxLat)[t \div 2]
        /\ Dimensions(n).lng = Halved(2 * MaxLong)[(t \div 2) + (n % 2)]
    BY Zenon DEF Dimensions
  <1>3. Max["lat"] = MaxLat /\ Max["lng"] = MaxLong
    BY DEF Max, Axes
  <1>4. CASE a = "lat"
    BY <1>2, <1>3, <1>4 DEF Cuts
  <1>5. CASE a = "lng"
    BY <1>1, <1>2, <1>3, <1>5 DEF Cuts
  <1> QED
    BY <1>4, <1>5 DEF Axes

\* The middle of an interval is at most half of its width away from a place.
LEMMA MiddleNear ==
    ASSUME NEW x \in Int, NEW y \in Int, NEW q \in Int, x < q, q <= y
    PROVE  LET middle == y - (y - x) \div 2
           IN  2 * (middle - q) <= y - x /\ 2 * (q - middle) <= y - x
  OBVIOUS

\* The box of the decoder contains the point, and its size and the distance of
\* its middle from the point are what geo_hash_info reports.
THEOREM DecodesNear == Spec => []DecodeNear
  <1>1. Inv => DecodeNear
    <2> SUFFICES ASSUME Inv, pc = "decoded", NEW a \in Axes
                 PROVE  /\ cell[a][1] < head.pt[a] /\ head.pt[a] <= cell[a][2]
                        /\ cell[a][2] - cell[a][1] = Dimensions(precision)[a]
                        /\ LET middle == cell[a][2] - (cell[a][2] - cell[a][1]) \div 2
                           IN  /\ 2 * (middle - head.pt[a]) <= Dimensions(precision)[a]
                               /\ 2 * (head.pt[a] - middle) <= Dimensions(precision)[a]
      BY DEF DecodeNear
    <2> DEFINE t == precision * Bits
    <2>1. /\ head # NoHead /\ cell = head.path[t + 1] /\ t = Len(hash) /\ TypeOK
          /\ Holds(head.pt, head.path) /\ Widths(head.path)
      BY DEF Inv, DecodeInv, HeadInv
    <2> HIDE DEF t
    <2>2. t + 1 \in 1..Len(head.path) /\ (t + 1) - 1 = t
      <3>1. t \in Nat /\ t <= Turns /\ Len(head.path) = Turns + 1
        BY <2>1 DEF TypeOK
      <3> QED
        BY <3>1, WorldFacts
    <2>3. precision \in 1..PrecisionLen /\ cell \in Cells
          /\ head.pt[a] \in Int
      <3>1. head.pt \in [Axes -> Coord]
        BY <2>1 DEF TypeOK, Heads
      <3>2. precision \in 1..PrecisionLen /\ cell \in Cells
        BY <2>1 DEF TypeOK
      <3>3. head.pt[a] \in Nat
        BY <3>1, GeoAssumption
      <3> QED
        BY <3>2, <3>3
    <2>4. cell[a][1] < head.pt[a] /\ head.pt[a] <= cell[a][2]
      BY <2>1, <2>2 DEF Holds
    <2>5. cell[a][2] - cell[a][1] = Dimensions(precision)[a]
      <3>1. cell[a][2] - cell[a][1] = Halved(2 * Max[a])[Cuts(a, t)]
        BY <2>1, <2>2 DEF Widths
      <3> QED
        BY <2>3, <3>1, DimensionsFacts DEF t
    <2>6. cell[a][1] \in Int /\ cell[a][2] \in Int
      BY <2>3 DEF Cells
    <2> QED
      BY <2>3, <2>4, <2>5, <2>6, MiddleNear
  <1> QED
    BY <1>1, Invariance, PTL

----------------------------------------------------------------------------
(***************************************************************************)
(* The neighbours                                                          *)
(***************************************************************************)
\* The bits of a character for the one side and for the other
Outer(c) == 4 * (c \div 16) + 2 * ((c \div 4) % 2) + (c % 2)
Inner(c) == 2 * ((c \div 8) % 2) + ((c \div 2) % 2)

\* The two as tables
outers == <<0, 1, 0, 1, 2, 3, 2, 3, 0, 1, 0, 1, 2, 3, 2, 3,
            4, 5, 4, 5, 6, 7, 6, 7, 4, 5, 4, 5, 6, 7, 6, 7>>
inners == <<0, 0, 1, 1, 0, 0, 1, 1, 2, 2, 3, 3, 2, 2, 3, 3,
            0, 0, 1, 1, 0, 0, 1, 1, 2, 2, 3, 3, 2, 2, 3, 3>>

LEMMA DigitTables ==
    ASSUME NEW c \in Char
    PROVE  Outer(c) = outers[c + 1] /\ Inner(c) = inners[c + 1]
  <1>1. Outer(c) = outers[c + 1]
    BY DEF Char, Outer, outers
  <1>2. Inner(c) = inners[c + 1]
    BY DEF Char, Inner, inners
  <1> QED
    BY <1>1, <1>2

LEMMA IndexIs ==
    ASSUME NEW table, DOMAIN table = 1..32, NEW c, NEW j \in DOMAIN table, table[j] = c
    PROVE  Index(c, table) \in Char /\ table[Index(c, table) + 1] = c
  <1> DEFINE Has(k) == k \in DOMAIN table /\ table[k] = c
             i == CHOOSE k : Has(k)
  <1>1. Has(j)
    OBVIOUS
  <1>2. Has(i)
    <2> HIDE DEF Has
    <2> QED
      BY <1>1
  <1>3. Index(c, table) = i - 1
    BY DEF Index
  <1>4. i \in 1..32 /\ table[i] = c
    BY <1>2
  <1> HIDE DEF i, Has
  <1>5. Index(c, table) \in Char /\ i = Index(c, table) + 1
    BY <1>3, <1>4 DEF Char
  <1> QED
    BY <1>4, <1>5

LEMMA Table1 ==
    ASSUME NEW c \in Char, NEW d, d = Index(c, even_neighbors[1])
    PROVE  /\ d \in Char
           /\ Inner(d) = Inner(c)
           /\ c \in even_borders[1] <=> Outer(c) = 7
           /\ Outer(d) = IF Outer(c) = 7 THEN 0 ELSE Outer(c) + 1
  <1> DEFINE table == even_neighbors[1]
  <1>1. DOMAIN table = 1..32
    BY DEF even_neighbors
  <1>2. even_neighbors[3][c + 1] + 1 \in DOMAIN table /\ table[even_neighbors[3][c + 1] + 1] = c
    <2>1. even_neighbors[3][c + 1] \in Char
      BY DEF Char, even_neighbors
    <2>2. even_neighbors[3][c + 1] + 1 \in 1..32
      BY <2>1 DEF Char
    <2>3. table[even_neighbors[3][c + 1] + 1] = c
      BY DEF Char, even_neighbors
    <2> QED
      BY <1>1, <2>2, <2>3
  <1>3. d \in Char /\ table[d + 1] = c
    <2> HIDE DEF table
    <2> QED
      BY <1>1, <1>2, IndexIs DEF table
  <1>4. inners[d + 1] = inners[table[d + 1] + 1]
    BY <1>3 DEF Char, even_neighbors, inners
  <1>5. outers[d + 1] = IF outers[table[d + 1] + 1] = 7 THEN 0 ELSE outers[table[d + 1] + 1] + 1
    BY <1>3 DEF Char, even_neighbors, outers
  <1>6. c \in even_borders[1] <=> outers[c + 1] = 7
    BY DEF Char, even_borders, outers
  <1> HIDE DEF table
  <1>7. /\ Outer(c) = outers[c + 1] /\ Outer(d) = outers[d + 1]
        /\ Inner(c) = inners[c + 1] /\ Inner(d) = inners[d + 1]
    BY <1>3, DigitTables
  <1> QED
    BY <1>3, <1>4, <1>5, <1>6, <1>7

LEMMA Table2 ==
    ASSUME NEW c \in Char, NEW d, d = Index(c, even_neighbors[2])
    PROVE  /\ d \in Char
           /\ Outer(d) = Outer(c)
           /\ c \in even_borders[2] <=> Inner(c) = 3
           /\ Inner(d) = IF Inner(c) = 3 THEN 0 ELSE Inner(c) + 1
  <1> DEFINE table == even_neighbors[2]
  <1>1. DOMAIN table = 1..32
    BY DEF even_neighbors
  <1>2. even_neighbors[4][c + 1] + 1 \in DOMAIN table /\ table[even_neighbors[4][c + 1] + 1] = c
    <2>1. even_neighbors[4][c + 1] \in Char
      BY DEF Char, even_neighbors
    <2>2. even_neighbors[4][c + 1] + 1 \in 1..32
      BY <2>1 DEF Char
    <2>3. table[even_neighbors[4][c + 1] + 1] = c
      BY DEF Char, even_neighbors
    <2> QED
      BY <1>1, <2>2, <2>3
  <1>3. d \in Char /\ table[d + 1] = c
    <2> HIDE DEF table
    <2> QED
      BY <1>1, <1>2, IndexIs DEF table
  <1>4. outers[d + 1] = outers[table[d + 1] + 1]
    BY <1>3 DEF Char, even_neighbors, outers
  <1>5. inners[d + 1] = IF inners[table[d + 1] + 1] = 3 THEN 0 ELSE inners[table[d + 1] + 1] + 1
    BY <1>3 DEF Char, even_neighbors, inners
  <1>6. c \in even_borders[2] <=> inners[c + 1] = 3
    BY DEF Char, even_borders, inners
  <1> HIDE DEF table
  <1>7. /\ Inner(c) = inners[c + 1] /\ Inner(d) = inners[d + 1]
        /\ Outer(c) = outers[c + 1] /\ Outer(d) = outers[d + 1]
    BY <1>3, DigitTables
  <1> QED
    BY <1>3, <1>4, <1>5, <1>6, <1>7

LEMMA Table3 ==
    ASSUME NEW c \in Char, NEW d, d = Index(c, even_neighbors[3])
    PROVE  /\ d \in Char
           /\ Inner(d) = Inner(c)
           /\ c \in even_borders[3] <=> Outer(c) = 0
           /\ Outer(d) = IF Outer(c) = 0 THEN 7 ELSE Outer(c) - 1
  <1> DEFINE table == even_neighbors[3]
  <1>1. DOMAIN table = 1..32
    BY DEF even_neighbors
  <1>2. even_neighbors[1][c + 1] + 1 \in DOMAIN table /\ table[even_neighbors[1][c + 1] + 1] = c
    <2>1. even_neighbors[1][c + 1] \in Char
      BY DEF Char, even_neighbors
    <2>2. even_neighbors[1][c + 1] + 1 \in 1..32
      BY <2>1 DEF Char
    <2>3. table[even_neighbors[1][c + 1] + 1] = c
      BY DEF Char, even_neighbors
    <2> QED
      BY <1>1, <2>2, <2>3
  <1>3. d \in Char /\ table[d + 1] = c
    <2> HIDE DEF table
    <2> QED
      BY <1>1, <1>2, IndexIs DEF table
  <1>4. inners[d + 1] = inners[table[d + 1] + 1]
    BY <1>3 DEF Char, even_neighbors, inners
  <1>5. outers[d + 1] = IF outers[table[d + 1] + 1] = 0 THEN 7 ELSE outers[table[d + 1] + 1] - 1
    BY <1>3 DEF Char, even_neighbors, outers
  <1>6. c \in even_borders[3] <=> outers[c + 1] = 0
    BY DEF Char, even_borders, outers
  <1> HIDE DEF table
  <1>7. /\ Outer(c) = outers[c + 1] /\ Outer(d) = outers[d + 1]
        /\ Inner(c) = inners[c + 1] /\ Inner(d) = inners[d + 1]
    BY <1>3, DigitTables
  <1> QED
    BY <1>3, <1>4, <1>5, <1>6, <1>7

LEMMA Table4 ==
    ASSUME NEW c \in Char, NEW d, d = Index(c, even_neighbors[4])
    PROVE  /\ d \in Char
           /\ Outer(d) = Outer(c)
           /\ c \in even_borders[4] <=> Inner(c) = 0
           /\ Inner(d) = IF Inner(c) = 0 THEN 3 ELSE Inner(c) - 1
  <1> DEFINE table == even_neighbors[4]
  <1>1. DOMAIN table = 1..32
    BY DEF even_neighbors
  <1>2. even_neighbors[2][c + 1] + 1 \in DOMAIN table /\ table[even_neighbors[2][c + 1] + 1] = c
    <2>1. even_neighbors[2][c + 1] \in Char
      BY DEF Char, even_neighbors
    <2>2. even_neighbors[2][c + 1] + 1 \in 1..32
      BY <2>1 DEF Char
    <2>3. table[even_neighbors[2][c + 1] + 1] = c
      BY DEF Char, even_neighbors
    <2> QED
      BY <1>1, <2>2, <2>3
  <1>3. d \in Char /\ table[d + 1] = c
    <2> HIDE DEF table
    <2> QED
      BY <1>1, <1>2, IndexIs DEF table
  <1>4. outers[d + 1] = outers[table[d + 1] + 1]
    BY <1>3 DEF Char, even_neighbors, outers
  <1>5. inners[d + 1] = IF inners[table[d + 1] + 1] = 0 THEN 3 ELSE inners[table[d + 1] + 1] - 1
    BY <1>3 DEF Char, even_neighbors, inners
  <1>6. c \in even_borders[4] <=> inners[c + 1] = 0
    BY DEF Char, even_borders, inners
  <1> HIDE DEF table
  <1>7. /\ Inner(c) = inners[c + 1] /\ Inner(d) = inners[d + 1]
        /\ Outer(c) = outers[c + 1] /\ Outer(d) = outers[d + 1]
    BY <1>3, DigitTables
  <1> QED
    BY <1>3, <1>4, <1>5, <1>6, <1>7
(***************************************************************************)
(* Functions that are made step by step                                    *)
(***************************************************************************)
Made(a, st, n, V, f) ==
    f \in [0..n -> V] /\ f[0] = a /\ \A k \in 1..n : f[k] = st[<<k, f[k - 1]>>]

LEMMA Iteration ==
    ASSUME NEW n \in Nat, NEW V, NEW a \in V, NEW st \in [(1..n) \X V -> V]
    PROVE  \E f : Made(a, st, n, V, f)
  <1> DEFINE S == {m \in Nat : m <= n => \E f : Made(a, st, m, V, f)}
  <1>1. 0 \in S
    <2> DEFINE f == [k \in 0..0 |-> a]
    <2>1. f \in [0..0 -> V] /\ f[0] = a /\ 1..0 = {}
      OBVIOUS
    <2> HIDE DEF f
    <2>2. Made(a, st, 0, V, f)
      BY <2>1 DEF Made
    <2> QED
      BY <2>2
  <1>2. ASSUME NEW m \in Nat, m \in S PROVE m + 1 \in S
    <2> SUFFICES ASSUME m + 1 <= n PROVE \E f : Made(a, st, m + 1, V, f)
      OBVIOUS
    <2>1. PICK f : Made(a, st, m, V, f)
      BY <1>2
    <2>2. f \in [0..m -> V] /\ f[m] \in V /\ f[0] = a
      BY <2>1 DEF Made
    <2> DEFINE e == st[<<m + 1, f[m]>>]
               g == [k \in 0..(m + 1) |-> IF k = m + 1 THEN e ELSE f[k]]
    <2>3. e \in V
      <3>1. <<m + 1, f[m]>> \in (1..n) \X V
        BY <2>2
      <3> QED
        BY <3>1
    <2>4. g \in [0..(m + 1) -> V]
      BY <2>2, <2>3
    <2>5. g[0] = a /\ g[m + 1] = e
      BY <2>2
    <2>6. \A k \in 0..m : g[k] = f[k]
      OBVIOUS
    <2> HIDE DEF g
    <2>7. ASSUME NEW k \in 1..(m + 1) PROVE g[k] = st[<<k, g[k - 1]>>]
      <3>1. CASE k = m + 1
        <4>1. g[k] = st[<<m + 1, f[m]>>] /\ g[m] = f[m] /\ k - 1 = m
          BY <2>5, <2>6, <3>1
        <4> QED
          BY <4>1, <3>1
      <3>2. CASE k # m + 1
        <4>1. k \in 1..m /\ k \in 0..m /\ k - 1 \in 0..m
          BY <3>2
        <4>2. f[k] = st[<<k, f[k - 1]>>]
          BY <2>1, <4>1 DEF Made
        <4> QED
          BY <4>1, <4>2, <2>6
      <3> QED
        BY <3>1, <3>2
    <2>8. Made(a, st, m + 1, V, g)
      BY <2>4, <2>5, <2>7 DEF Made
    <2> QED
      BY <2>8
  <1> HIDE DEF S
  <1>3. Nat \subseteq S
    BY <1>1, <1>2, Induction
  <1>4. n \in S
    BY <1>3
  <1> QED
    BY <1>4 DEF S
(***************************************************************************)
(* Bisection                                                               *)
(***************************************************************************)
\* p[i] is the place, or the size of the grid, after the turns 1..i
Bisected(z, b, n, p) ==
    /\ n \in Nat /\ b \in [1..n -> Nat]
    /\ p \in [0..n -> [Sides -> Nat]]
    /\ p[0] = [side \in Sides |-> z]
    /\ \A i \in 1..n : p[i] = Turned(p[i - 1], i, b[i])

LEMMA TurnedType ==
    ASSUME NEW v \in [Sides -> Nat], NEW i, NEW x \in Nat
    PROVE  /\ Turned(v, i, x) \in [Sides -> Nat]
           /\ \A side \in Sides :
                 Turned(v, i, x)[side] = IF side = Side(i) THEN 2 * v[side] + x ELSE v[side]
  <1>1. Side(i) \in Sides
    BY DEF Side, Sides
  <1>2. v[Side(i)] \in Nat
    BY <1>1
  <1>3. 2 * v[Side(i)] + x \in Nat
    BY <1>2
  <1> QED
    BY <1>1, <1>3 DEF Turned

LEMMA BisectedMade ==
    ASSUME NEW z \in Nat, NEW n \in Nat, NEW b \in [1..n -> Nat]
    PROVE  \E p : Bisected(z, b, n, p)
  <1> DEFINE V == [Sides -> Nat]
             a == [side \in Sides |-> z]
             st == [x \in (1..n) \X V |-> Turned(x[2], x[1], b[x[1]])]
  <1>1. a \in V
    OBVIOUS
  <1>2. \A i \in 1..n, v \in V : Turned(v, i, b[i]) \in V
    BY TurnedType
  <1>3. st \in [(1..n) \X V -> V]
    <2> SUFFICES ASSUME NEW x \in (1..n) \X V PROVE Turned(x[2], x[1], b[x[1]]) \in V
      OBVIOUS
    <2>1. x[1] \in 1..n /\ x[2] \in V
      OBVIOUS
    <2> QED
      BY <1>2, <2>1
  <1>4. \A i \in 1..n, v \in V : st[<<i, v>>] = Turned(v, i, b[i])
    OBVIOUS
  <1> HIDE DEF a, st, V
  <1>5. PICK p : Made(a, st, n, V, p)
    BY <1>1, <1>3, Iteration
  <1>6. p \in [0..n -> V] /\ p[0] = a /\ \A i \in 1..n : p[i] = st[<<i, p[i - 1]>>]
    BY <1>5 DEF Made
  <1>7. ASSUME NEW i \in 1..n PROVE p[i] = Turned(p[i - 1], i, b[i])
    <2>1. i - 1 \in 0..n
      OBVIOUS
    <2>2. p[i - 1] \in V
      BY <1>6, <2>1
    <2> QED
      BY <1>6, <1>4, <2>2
  <1>8. Bisected(z, b, n, p)
    BY <1>6, <1>7 DEF Bisected, V, a
  <1> QED
    BY <1>8

LEMMA BisectedAgree ==
    ASSUME NEW z, NEW n \in Nat, NEW m \in Nat, n <= m, NEW b, NEW c, NEW p, NEW q,
           Bisected(z, b, n, p), Bisected(z, c, m, q), \A i \in 1..n : b[i] = c[i]
    PROVE  p[n] = q[n]
  <1> DEFINE S == {k \in Nat : k <= n => p[k] = q[k]}
  <1>1. 0 \in S
    BY DEF Bisected
  <1>2. ASSUME NEW k \in Nat, k \in S PROVE k + 1 \in S
    <2>1. SUFFICES ASSUME k + 1 <= n PROVE p[k + 1] = q[k + 1]
      OBVIOUS
    <2>2. k + 1 \in 1..n /\ k + 1 \in 1..m /\ (k + 1) - 1 = k /\ k <= n
      BY <2>1
    <2>3. p[k] = q[k]
      BY <1>2, <2>2
    <2>4. p[k + 1] = Turned(p[k], k + 1, b[k + 1]) /\ q[k + 1] = Turned(q[k], k + 1, c[k + 1])
      BY <2>2 DEF Bisected
    <2> QED
      BY <2>2, <2>3, <2>4
  <1> HIDE DEF S
  <1>3. n \in S
    BY <1>1, <1>2, Induction
  <1> QED
    BY <1>3 DEF S

\* One side in one turn
Follows(i, j, n) == i \in 1..n /\ j = i - 1
Grown(i, side, x, y) == IF side = Side(i) THEN 2 * x + y ELSE x

LEMMA OneTurn ==
    ASSUME NEW z, NEW n, NEW b, NEW p, Bisected(z, b, n, p),
           NEW i, NEW j, Follows(i, j, n), NEW side \in Sides
    PROVE  /\ p[j] \in [Sides -> Nat]
           /\ p[i][side] = Grown(i, side, p[j][side], b[i])
  <1> DEFINE v == p[j]
  <1>1. j \in 0..n /\ i \in 1..n /\ j = i - 1
    BY DEF Follows, Bisected
  <1>2. v \in [Sides -> Nat] /\ p[i] = Turned(v, i, b[i])
    BY <1>1 DEF Bisected
  <1>3. b[i] \in Nat
    BY <1>1 DEF Bisected
  <1> HIDE DEF v
  <1>4. Turned(v, i, b[i])[side] = IF side = Side(i) THEN 2 * v[side] + b[i] ELSE v[side]
    BY <1>2, <1>3, TurnedType
  <1> QED
    BY <1>2, <1>4 DEF v, Grown

\* The five turns of a character
LEMMA FiveTurns ==
    ASSUME NEW z, NEW n, NEW b, NEW p, Bisected(z, b, n, p),
           NEW m \in Nat, 5 * m + 5 <= n, NEW side \in Sides
    PROVE  p[5 * m + 5][side] =
              IF side = Side(m + 1)
              THEN 8 * p[5 * m][side] + 4 * b[5 * m + 1] + 2 * b[5 * m + 3] + b[5 * m + 5]
              ELSE 4 * p[5 * m][side] + 2 * b[5 * m + 2] + b[5 * m + 4]
  <1> DEFINE t == 5 * m
             t1 == t + 1  t2 == t + 2  t3 == t + 3  t4 == t + 4  t5 == t + 5
             o == side = Side(m + 1)
  <1>1. /\ t1 \in 1..n /\ t2 \in 1..n /\ t3 \in 1..n /\ t4 \in 1..n /\ t5 \in 1..n
        /\ Follows(t1, t, n) /\ Follows(t2, t1, n) /\ Follows(t3, t2, n)
        /\ Follows(t4, t3, n) /\ Follows(t5, t4, n)
    BY DEF Follows, Bisected
  <1>2. /\ o <=> side = Side(t1)
        /\ o <=> side # Side(t2)
        /\ o <=> side = Side(t3)
        /\ o <=> side # Side(t4)
        /\ o <=> side = Side(t5)
    BY DEF Side, Sides
  <1> HIDE DEF t, t1, t2, t3, t4, t5, o
  <1>3. p[t] \in [Sides -> Nat]
    BY <1>1, OneTurn
  <1>4. p[t1][side] = Grown(t1, side, p[t][side], b[t1])
    BY <1>1, OneTurn
  <1>5. p[t2][side] = Grown(t2, side, p[t1][side], b[t2])
    BY <1>1, OneTurn
  <1>6. p[t3][side] = Grown(t3, side, p[t2][side], b[t3])
    BY <1>1, OneTurn
  <1>7. p[t4][side] = Grown(t4, side, p[t3][side], b[t4])
    BY <1>1, OneTurn
  <1>8. p[t5][side] = Grown(t5, side, p[t4][side], b[t5])
    BY <1>1, OneTurn
  <1>9. /\ p[t][side] \in Nat /\ b[t1] \in Nat /\ b[t2] \in Nat /\ b[t3] \in Nat
        /\ b[t4] \in Nat /\ b[t5] \in Nat
    BY <1>1, <1>3 DEF Bisected
  <1> DEFINE p0 == p[t][side]  b1 == b[t1]  b2 == b[t2]  b3 == b[t3]
             b4 == b[t4]  b5 == b[t5]
  <1>10. p[t5][side] = IF o THEN 8 * p0 + 4 * b1 + 2 * b3 + b5 ELSE 4 * p0 + 2 * b2 + b4
    <2>1. CASE o
      <3>1. p[t2][side] = 2 * p0 + b1
        BY <2>1, <1>2, <1>4, <1>5 DEF Grown
      <3>2. p[t4][side] = 2 * (2 * p0 + b1) + b3
        BY <2>1, <3>1, <1>2, <1>6, <1>7 DEF Grown
      <3>3. p[t5][side] = 2 * (2 * (2 * p0 + b1) + b3) + b5
        BY <2>1, <3>2, <1>2, <1>8 DEF Grown
      <3> HIDE DEF p0, b1, b2, b3, b4, b5
      <3>4. p0 \in Nat /\ b1 \in Nat /\ b3 \in Nat /\ b5 \in Nat
        BY <1>9 DEF p0, b1, b3, b5
      <3> QED
        BY <2>1, <3>3, <3>4
    <2>2. CASE ~ o
      <3>1. p[t3][side] = 2 * p0 + b2
        BY <2>2, <1>2, <1>4, <1>5, <1>6 DEF Grown
      <3>2. p[t5][side] = 2 * (2 * p0 + b2) + b4
        BY <2>2, <3>1, <1>2, <1>7, <1>8 DEF Grown
      <3> HIDE DEF p0, b1, b2, b3, b4, b5
      <3>3. p0 \in Nat /\ b2 \in Nat /\ b4 \in Nat
        BY <1>9 DEF p0, b2, b4
      <3> QED
        BY <2>2, <3>2, <3>3
    <2> QED
      BY <2>1, <2>2
  <1> QED
    BY <1>10 DEF t, t1, t2, t3, t4, t5, o
LEMMA BitsType ==
    ASSUME NEW h \in Seq(Char)
    PROVE  BitsOf(h) \in [1..(5 * Len(h)) -> Nat]
  <1> SUFFICES ASSUME NEW i \in 1..(5 * Len(h)) PROVE Bit(h, i) \in Nat
    BY DEF BitsOf
  <1> DEFINE q == ((i - 1) \div 5) + 1
             w == Weights[((i - 1) % 5) + 1]
  <1>1. q \in 1..Len(h)
    <2>1. Len(h) \in Nat
      OBVIOUS
    <2> QED
      BY <2>1
  <1>2. h[q] \in Nat
    <2> HIDE DEF q
    <2>1. h[q] \in Char
      BY <1>1
    <2>2. Char \subseteq Nat
      BY DEF Char
    <2> QED
      BY <2>1, <2>2
  <1>3. w \in Nat \ {0}
    <2>1. ((i - 1) % 5) + 1 \in 1..5
      OBVIOUS
    <2> HIDE DEF w
    <2>2. \A j \in 1..5 : Weights[j] \in Nat \ {0}
      BY DEF Weights
    <2> QED
      BY <2>1, <2>2 DEF w
  <1>4. Bit(h, i) = (h[q] \div w) % 2
    BY DEF Bit
  <1> HIDE DEF q, w
  <1>5. h[q] \div w \in Int
    BY <1>2, <1>3
  <1> QED
    BY <1>4, <1>5

\* A recursive function is what its equation says, if something is.
LEMMA BisectIs ==
    ASSUME NEW z \in Nat, NEW n \in Nat, NEW b \in [1..n -> Nat]
    PROVE  \E p : Bisected(z, b, n, p) /\ Bisect(z, b, n) = p[n]
  <1> DEFINE o == [side \in Sides |-> z]
             Is(f) == f = [i \in 0..n |-> IF i = 0 THEN o ELSE Turned(f[i - 1], i, b[i])]
             at == CHOOSE f : Is(f)
  <1>1. PICK p : Bisected(z, b, n, p)
    BY BisectedMade
  <1>2. /\ p \in [0..n -> [Sides -> Nat]] /\ p[0] = o
        /\ \A i \in 1..n : p[i] = Turned(p[i - 1], i, b[i])
    BY <1>1 DEF Bisected
  <1>3. Bisect(z, b, n) = at[n]
    BY DEF Bisect
  <1>4. \A f : Is(f) <=> /\ f = [i \in 0..n |-> f[i]]
                         /\ \A i \in 0..n : f[i] = IF i = 0 THEN o ELSE Turned(f[i - 1], i, b[i])
    OBVIOUS
  <1> HIDE DEF o
  <1>5. p = [i \in 0..n |-> p[i]]
    BY <1>2
  <1>6. Is(p)
    <2>1. \A i \in 0..n : i = 0 \/ i \in 1..n
      OBVIOUS
    <2>2. \A i \in 0..n : p[i] = IF i = 0 THEN o ELSE Turned(p[i - 1], i, b[i])
      BY <2>1, <1>2
    <2> HIDE DEF Is
    <2> QED
      BY <1>4, <1>5, <2>2
  <1> HIDE DEF Is
  <1>7. Is(at)
    BY <1>6
  <1> HIDE DEF at
  <1> DEFINE S == {k \in Nat : k <= n => p[k] = at[k]}
  <1>8. 0 \in S
    <2>1. 0 \in 0..n
      OBVIOUS
    <2>2. at[0] = o
      BY <1>4, <1>7, <2>1
    <2> QED
      BY <1>2, <2>2
  <1>9. ASSUME NEW k \in Nat, k \in S PROVE k + 1 \in S
    <2>1. SUFFICES ASSUME k + 1 <= n PROVE p[k + 1] = at[k + 1]
      OBVIOUS
    <2>2. k + 1 \in 1..n /\ k + 1 \in 0..n /\ (k + 1) - 1 = k /\ k + 1 # 0 /\ k <= n
      BY <2>1
    <2>3. p[k] = at[k]
      BY <1>9, <2>2
    <2> DEFINE j == k + 1
    <2>4. at[j] = Turned(at[k], j, b[j])
      BY <1>4, <1>7, <2>2
    <2>5. p[j] = Turned(p[k], j, b[j])
      BY <1>2, <2>2
    <2> HIDE DEF j
    <2>6. p[j] = at[j]
      BY <2>3, <2>4, <2>5
    <2> QED
      BY <2>6 DEF j
  <1> HIDE DEF S
  <1>10. p[n] = at[n]
    <2>1. n \in S
      BY <1>8, <1>9, Induction
    <2> QED
      BY <2>1 DEF S
  <1> QED
    BY <1>1, <1>3, <1>10
\* No character
LEMMA BisectFirst ==
    ASSUME NEW z \in Nat, NEW b, b \in [1..0 -> Nat], NEW side \in Sides
    PROVE  Bisect(z, b, 0)[side] = z
  <1>1. PICK p : Bisected(z, b, 0, p) /\ Bisect(z, b, 0) = p[0]
    BY BisectIs
  <1> QED
    BY <1>1 DEF Bisected

LEMMA GridFirst ==
    ASSUME NEW side \in Sides
    PROVE  Grid(0)[side] = 1
  <1> DEFINE b == [i \in 1..0 |-> 0]
  <1>1. b \in [1..0 -> Nat]
    OBVIOUS
  <1>2. Grid(0) = Bisect(1, b, 0)
    BY DEF Grid
  <1> HIDE DEF b
  <1> QED
    BY <1>1, <1>2, BisectFirst, ZenonT(40)

LEMMA PlaceFirst ==
    ASSUME NEW side \in Sides
    PROVE  Place(<< >>)[side] = 0
  <1> DEFINE b == BitsOf(<< >>)
  <1>1. Len(<< >>) = 0 /\ 5 * 0 = 0 /\ << >> \in Seq(Char)
    OBVIOUS
  <1>2. b \in [1..0 -> Nat]
    BY <1>1, BitsType
  <1>3. Place(<< >>) = Bisect(0, b, 0)
    BY <1>1 DEF Place
  <1> HIDE DEF b
  <1> QED
    BY <1>2, <1>3, BisectFirst

\* Character n has three bits of one side and two of the other
Base(n, side) == IF side = Side(n) THEN 8 ELSE 4
Digit(n, side, c) == IF side = Side(n) THEN Outer(c) ELSE Inner(c)

\* One more character
LEMMA GridMore ==
    ASSUME NEW n \in Nat, NEW side \in Sides
    PROVE  /\ Grid(n)[side] \in Nat
           /\ Grid(n + 1)[side] = Base(n + 1, side) * Grid(n)[side]
  <1> DEFINE k == 5 * n
             j == 5 * (n + 1)
             b == [i \in 1..k |-> 0]
             c == [i \in 1..j |-> 0]
  <1>1. k \in Nat /\ j \in Nat /\ j = k + 5 /\ k <= j /\ k \in 0..j
    OBVIOUS
  <1>2. PICK p : Bisected(1, b, k, p) /\ Grid(n) = p[k]
    <2>1. b \in [1..k -> Nat]
      OBVIOUS
    <2> HIDE DEF b, k
    <2> QED
      BY <1>1, <2>1, BisectIs DEF Grid, b, k
  <1>3. PICK q : Bisected(1, c, j, q) /\ Grid(n + 1) = q[j]
    <2>1. c \in [1..j -> Nat]
      OBVIOUS
    <2> HIDE DEF c, j
    <2> QED
      BY <1>1, <2>1, BisectIs DEF Grid, c, j
  <1>4. \A i \in 1..k : b[i] = c[i]
    BY <1>1
  <1>5. c[k + 1] = 0 /\ c[k + 2] = 0 /\ c[k + 3] = 0 /\ c[k + 4] = 0 /\ c[k + 5] = 0
    BY <1>1
  <1> HIDE DEF b, c
  <1>6. p[k] = q[k]
    <2> HIDE DEF k, j
    <2> QED
      BY <1>1, <1>2, <1>3, <1>4, BisectedAgree
  <1>7. p[k] \in [Sides -> Nat]
    <2> HIDE DEF k, j
    <2>1. k \in 0..k
      BY <1>1
    <2> QED
      BY <1>2, <2>1 DEF Bisected
  <1>8. q[k + 5][side] = IF side = Side(n + 1)
                         THEN 8 * q[k][side] + 4 * c[k + 1] + 2 * c[k + 3] + c[k + 5]
                         ELSE 4 * q[k][side] + 2 * c[k + 2] + c[k + 4]
    BY <1>1, <1>3, FiveTurns
  <1> HIDE DEF k, j
  <1>9. q[k][side] \in Nat
    BY <1>6, <1>7
  <1>10. q[j][side] = Base(n + 1, side) * q[k][side]
    <2> DEFINE x == q[k][side]
    <2>1. q[k + 5][side] = IF side = Side(n + 1) THEN 8 * x ELSE 4 * x
      <3>1. x \in Nat
        BY <1>9
      <3>2. q[k + 5][side] = IF side = Side(n + 1) THEN 8 * x + 4 * 0 + 2 * 0 + 0 ELSE 4 * x + 2 * 0 + 0
        BY <1>5, <1>8
      <3> HIDE DEF x
      <3> QED
        BY <3>1, <3>2
    <2> HIDE DEF x
    <2> QED
      BY <1>1, <2>1 DEF Base, x
  <1> QED
    BY <1>2, <1>3, <1>6, <1>9, <1>10

LEMMA PlaceMore ==
    ASSUME NEW h \in Seq(Char), NEW d \in Char, NEW side \in Sides
    PROVE  /\ Place(h)[side] \in Nat
           /\ Place(Append(h, d))[side] =
                 Base(Len(h) + 1, side) * Place(h)[side] + Digit(Len(h) + 1, side, d)
  <1> DEFINE n == Len(h)
             g == Append(h, d)
             k == 5 * n
             j == 5 * (n + 1)
             b == BitsOf(h)
             c == BitsOf(g)
  <1>1. n \in Nat /\ k \in Nat /\ j \in Nat /\ j = k + 5 /\ k <= j
    OBVIOUS
  <1>2. g \in Seq(Char) /\ Len(g) = n + 1 /\ g[n + 1] = d /\ \A i \in 1..n : g[i] = h[i]
    OBVIOUS
  <1> HIDE DEF g, n
  <1>3. Place(h) = Bisect(0, b, k) /\ Place(g) = Bisect(0, c, j)
    BY <1>2 DEF Place, n
  <1>4. b \in [1..k -> Nat] /\ c \in [1..j -> Nat]
    BY <1>2, BitsType DEF n
  <1>5. ASSUME NEW i \in 1..k PROVE b[i] = c[i]
    <2> DEFINE r == ((i - 1) \div 5) + 1
    <2>1. r \in 1..n /\ i \in 1..j
      BY <1>1
    <2>2. h[r] = g[r]
      <3> HIDE DEF r
      <3> QED
        BY <1>2, <2>1
    <2>3. Bit(h, i) = Bit(g, i)
      BY <2>2 DEF Bit
    <2>4. b[i] = Bit(h, i)
      BY DEF BitsOf, n
    <2>5. c[i] = Bit(g, i)
      BY <1>2, <2>1 DEF BitsOf
    <2> QED
      BY <2>3, <2>4, <2>5
  <1>6. /\ c[k + 1] = (d \div 16) % 2 /\ c[k + 2] = (d \div 8) % 2 /\ c[k + 3] = (d \div 4) % 2
        /\ c[k + 4] = (d \div 2) % 2 /\ c[k + 5] = (d \div 1) % 2
    <2>1. \A i \in 1..j : c[i] = Bit(g, i)
      BY <1>2 DEF BitsOf
    <2>2. ASSUME NEW a \in 1..5 PROVE c[k + a] = (d \div Weights[a]) % 2
      <3> DEFINE i == k + a
      <3>1. i \in 1..j /\ ((i - 1) \div 5) + 1 = n + 1 /\ ((i - 1) % 5) + 1 = a
        BY <1>1
      <3> HIDE DEF i, c
      <3>2. Bit(g, i) = (g[n + 1] \div Weights[a]) % 2
        BY <3>1 DEF Bit
      <3>3. c[i] = (d \div Weights[a]) % 2
        BY <3>1, <3>2, <2>1, <1>2
      <3> QED
        BY <3>3 DEF i
    <2> HIDE DEF c, k
    <2>3. Weights[1] = 16 /\ Weights[2] = 8 /\ Weights[3] = 4 /\ Weights[4] = 2 /\ Weights[5] = 1
      BY DEF Weights
    <2>4. 1 \in 1..5 /\ 2 \in 1..5 /\ 3 \in 1..5 /\ 4 \in 1..5 /\ 5 \in 1..5
      OBVIOUS
    <2> QED
      BY <2>2, <2>3, <2>4
  <1> HIDE DEF b, c
  <1>7. PICK p : Bisected(0, b, k, p) /\ Place(h) = p[k]
    <2>1. k \in Nat /\ b \in [1..k -> Nat] /\ Place(h) = Bisect(0, b, k)
      BY <1>1, <1>3, <1>4
    <2> HIDE DEF k, j
    <2> QED
      BY <2>1, BisectIs
  <1>8. PICK q : Bisected(0, c, j, q) /\ Place(g) = q[j]
    <2>1. j \in Nat /\ c \in [1..j -> Nat] /\ Place(g) = Bisect(0, c, j)
      BY <1>1, <1>3, <1>4
    <2> HIDE DEF k, j
    <2> QED
      BY <2>1, BisectIs
  <1>9. p[k] = q[k]
    <2> HIDE DEF k, j
    <2> QED
      BY <1>1, <1>5, <1>7, <1>8, BisectedAgree
  <1>10. p[k] \in [Sides -> Nat]
    <2> HIDE DEF k, j
    <2>1. k \in 0..k
      BY <1>1
    <2> QED
      BY <1>7, <2>1 DEF Bisected
  <1>11. q[k + 5][side] = IF side = Side(n + 1)
                          THEN 8 * q[k][side] + 4 * c[k + 1] + 2 * c[k + 3] + c[k + 5]
                          ELSE 4 * q[k][side] + 2 * c[k + 2] + c[k + 4]
    BY <1>1, <1>8, FiveTurns
  <1> HIDE DEF k, j
  <1>12. q[k][side] \in Nat
    BY <1>9, <1>10
  <1>13. q[j][side] = Base(n + 1, side) * q[k][side] + Digit(n + 1, side, d)
    <2> DEFINE x == q[k][side]
               b1 == (d \div 16) % 2  b2 == (d \div 8) % 2  b3 == (d \div 4) % 2
               b4 == (d \div 2) % 2  b5 == (d \div 1) % 2
    <2>1. q[k + 5][side] = IF side = Side(n + 1) THEN 8 * x + 4 * b1 + 2 * b3 + b5
                                                 ELSE 4 * x + 2 * b2 + b4
      BY <1>6, <1>11
    <2>2. Outer(d) = 4 * b1 + 2 * b3 + b5 /\ Inner(d) = 2 * b2 + b4
      BY DEF Char, Outer, Inner
    <2>3. b1 \in Nat /\ b2 \in Nat /\ b3 \in Nat /\ b4 \in Nat /\ b5 \in Nat /\ x \in Nat
      BY <1>12 DEF Char
    <2> HIDE DEF x, b1, b2, b3, b4, b5
    <2>4. q[j][side] = IF side = Side(n + 1) THEN 8 * x + 4 * b1 + 2 * b3 + b5
                                                 ELSE 4 * x + 2 * b2 + b4
      BY <1>1, <2>1
    <2>5. CASE side = Side(n + 1)
      <3>1. q[j][side] = 8 * x + Outer(d)
        BY <2>2, <2>3, <2>4, <2>5
      <3> QED
        BY <3>1, <2>5 DEF Base, Digit, x
    <2>6. CASE side # Side(n + 1)
      <3>1. q[j][side] = 4 * x + Inner(d)
        BY <2>2, <2>3, <2>4, <2>6
      <3> QED
        BY <3>1, <2>6 DEF Base, Digit, x
    <2> QED
      BY <2>5, <2>6
  <1> QED
    BY <1>7, <1>8, <1>9, <1>12, <1>13 DEF g, n
(***************************************************************************)
(* The neighbour on one side                                               *)
(***************************************************************************)
Directions == 1..4
Across(direction) == IF direction \in {NORTH, SOUTH} THEN 2 ELSE 1
Sign(direction) == IF direction \in {NORTH, EAST} THEN 1 ELSE -1

\* The last column or row in a direction, of w
Last(direction, w) == IF direction \in {NORTH, EAST} THEN w - 1 ELSE 0
First(direction, w) == IF direction \in {NORTH, EAST} THEN 0 ELSE w - 1

LEMMA DigitMoves ==
    ASSUME NEW n \in Nat, NEW direction \in Directions, NEW c \in Char, NEW d,
           d = Index(c, NeighborTable(n)[direction])
    PROVE  /\ d \in Char
           /\ \A side \in Sides :
                 side # Across(direction) => Digit(n, side, d) = Digit(n, side, c)
           /\ LET x == Digit(n, Across(direction), c)
                  w == Base(n, Across(direction))
              IN  /\ c \in Borders(n)[direction] <=> x = Last(direction, w)
                  /\ Digit(n, Across(direction), d) =
                        IF x = Last(direction, w) THEN First(direction, w)
                        ELSE x + Sign(direction)
  <1>1. direction = NORTH \/ direction = EAST \/ direction = SOUTH \/ direction = WEST
    BY DEF Directions, NORTH, EAST, SOUTH, WEST
  <1>2. Outer(c) \in Int /\ Inner(c) \in Int
    BY DEF Char, Outer, Inner
  <1>3. CASE n % 2 = 1
    <2>1. Side(n) = 1 /\ NeighborTable(n) = odd_neighbors /\ Borders(n) = odd_borders
      BY <1>3 DEF Side, NeighborTable, Borders
    <2>2. CASE direction = NORTH
      <3>1. NeighborTable(n)[direction] = even_neighbors[2] /\ Borders(n)[direction] = even_borders[2]
        BY <2>1, <2>2 DEF odd_neighbors, odd_borders, NORTH
      <3>2. Across(direction) = 2 /\ Sign(direction) = 1 /\ Last(direction, 4) = 3 /\ First(direction, 4) = 0
        BY <2>2 DEF Across, Sign, Last, First
      <3> QED
        BY <1>2, <2>1, <3>1, <3>2, Table2 DEF Digit, Base, Sides
    <2>3. CASE direction = EAST
      <3>1. NeighborTable(n)[direction] = even_neighbors[1] /\ Borders(n)[direction] = even_borders[1]
        BY <2>1, <2>3 DEF odd_neighbors, odd_borders, EAST
      <3>2. Across(direction) = 1 /\ Sign(direction) = 1 /\ Last(direction, 8) = 7 /\ First(direction, 8) = 0
        BY <2>3 DEF Across, Sign, Last, First, NORTH, EAST, SOUTH
      <3> QED
        BY <1>2, <2>1, <3>1, <3>2, Table1 DEF Digit, Base, Sides
    <2>4. CASE direction = SOUTH
      <3>1. NeighborTable(n)[direction] = even_neighbors[4] /\ Borders(n)[direction] = even_borders[4]
        BY <2>1, <2>4 DEF odd_neighbors, odd_borders, SOUTH
      <3>2. Across(direction) = 2 /\ Sign(direction) = -1 /\ Last(direction, 4) = 0 /\ First(direction, 4) = 3
        BY <2>4 DEF Across, Sign, Last, First, NORTH, EAST, SOUTH
      <3> QED
        BY <1>2, <2>1, <3>1, <3>2, Table4 DEF Digit, Base, Sides
    <2>5. CASE direction = WEST
      <3>1. NeighborTable(n)[direction] = even_neighbors[3] /\ Borders(n)[direction] = even_borders[3]
        BY <2>1, <2>5 DEF odd_neighbors, odd_borders, WEST
      <3>2. Across(direction) = 1 /\ Sign(direction) = -1 /\ Last(direction, 8) = 0 /\ First(direction, 8) = 7
        BY <2>5 DEF Across, Sign, Last, First, NORTH, EAST, SOUTH, WEST
      <3> QED
        BY <1>2, <2>1, <3>1, <3>2, Table3 DEF Digit, Base, Sides
    <2> QED
      BY <1>1, <2>2, <2>3, <2>4, <2>5
  <1>4. CASE n % 2 # 1
    <2>1. Side(n) = 2 /\ NeighborTable(n) = even_neighbors /\ Borders(n) = even_borders
      BY <1>4 DEF Side, NeighborTable, Borders
    <2>2. CASE direction = NORTH
      <3>1. Across(direction) = 2 /\ Sign(direction) = 1 /\ Last(direction, 8) = 7 /\ First(direction, 8) = 0
        BY <2>2 DEF Across, Sign, Last, First
      <3> QED
        BY <1>2, <2>1, <2>2, <3>1, Table1 DEF Digit, Base, Sides, NORTH
    <2>3. CASE direction = EAST
      <3>1. Across(direction) = 1 /\ Sign(direction) = 1 /\ Last(direction, 4) = 3 /\ First(direction, 4) = 0
        BY <2>3 DEF Across, Sign, Last, First, NORTH, EAST, SOUTH
      <3> QED
        BY <1>2, <2>1, <2>3, <3>1, Table2 DEF Digit, Base, Sides, EAST
    <2>4. CASE direction = SOUTH
      <3>1. Across(direction) = 2 /\ Sign(direction) = -1 /\ Last(direction, 8) = 0 /\ First(direction, 8) = 7
        BY <2>4 DEF Across, Sign, Last, First, NORTH, EAST, SOUTH
      <3> QED
        BY <1>2, <2>1, <2>4, <3>1, Table3 DEF Digit, Base, Sides, SOUTH
    <2>5. CASE direction = WEST
      <3>1. Across(direction) = 1 /\ Sign(direction) = -1 /\ Last(direction, 4) = 0 /\ First(direction, 4) = 3
        BY <2>5 DEF Across, Sign, Last, First, NORTH, EAST, SOUTH, WEST
      <3> QED
        BY <1>2, <2>1, <2>5, <3>1, Table4 DEF Digit, Base, Sides, WEST
    <2> QED
      BY <1>1, <2>2, <2>3, <2>4, <2>5
  <1> QED
    BY <1>3, <1>4
\* Base and digits are a number system
IsDigit(x, w) == w \in {4, 8} /\ x \in 0..(w - 1)

Carries(direction, w, x, p, g) ==
    /\ w * p + x = Last(direction, w * g) <=> x = Last(direction, w) /\ p = Last(direction, g)
    /\ x = Last(direction, w) =>
          w * (p + Sign(direction)) + First(direction, w) = (w * p + x) + Sign(direction)
    /\ x # Last(direction, w) =>
          w * p + (x + Sign(direction)) = (w * p + x) + Sign(direction)

LEMMA Carry ==
    ASSUME NEW direction, NEW w, NEW x, IsDigit(x, w), NEW p, p \in Nat, NEW g, g \in Nat
    PROVE  Carries(direction, w, x, p, g)
  <1> USE DEF IsDigit, Carries
  <1>1. CASE direction \in {NORTH, EAST}
    <2>1. /\ Last(direction, w * g) = w * g - 1 /\ Last(direction, w) = w - 1
          /\ Last(direction, g) = g - 1 /\ First(direction, w) = 0 /\ Sign(direction) = 1
      BY <1>1 DEF Last, First, Sign
    <2>2. CASE w = 4
      <3>1. 4 * p + x = 4 * g - 1 <=> x = 3 /\ p = g - 1
        BY <2>2
      <3> QED
        BY <2>1, <2>2, <3>1
    <2>3. CASE w = 8
      <3>1. 8 * p + x = 8 * g - 1 <=> x = 7 /\ p = g - 1
        BY <2>3
      <3> QED
        BY <2>1, <2>3, <3>1
    <2> QED
      BY <2>2, <2>3
  <1>2. CASE direction \notin {NORTH, EAST}
    <2>1. /\ Last(direction, w * g) = 0 /\ Last(direction, w) = 0
          /\ Last(direction, g) = 0 /\ First(direction, w) = w - 1 /\ Sign(direction) = -1
      BY <1>2 DEF Last, First, Sign
    <2>2. CASE w = 4
      BY <2>1, <2>2
    <2>3. CASE w = 8
      BY <2>1, <2>3
    <2> QED
      BY <2>2, <2>3
  <1> QED
    BY <1>1, <1>2

LEMMA DigitType ==
    ASSUME NEW n \in Nat, NEW side \in Sides, NEW c \in Char
    PROVE  IsDigit(Digit(n, side, c), Base(n, side))
  <1>1. Outer(c) \in 0..7 /\ Inner(c) \in 0..3
    BY DEF Char, Outer, Inner
  <1> QED
    BY <1>1 DEF Base, Digit, IsDigit

\* The cell next to that of h, or the end of the recursion
Moved(h, r, direction) ==
    IF Place(h)[Across(direction)] = Last(direction, Grid(Len(h))[Across(direction)])
    THEN r = Crash
    ELSE /\ r \in Seq(Char) /\ Len(r) = Len(h)
         /\ \A side \in Sides :
               Place(r)[side] =
                  IF side = Across(direction) THEN Place(h)[side] + Sign(direction)
                  ELSE Place(h)[side]

LEMMA CrashIsNoCode ==
    Crash \notin Seq(Char)
  <1>1. Crash[1] = -1 /\ Len(Crash) = 1
    BY DEF Crash
  <1>2. ASSUME Crash \in Seq(Char) PROVE Crash[1] \in Char
    BY <1>1, <1>2
  <1> QED
    BY <1>1, <1>2 DEF Char

LEMMA AcrossType ==
    ASSUME NEW direction
    PROVE  Across(direction) \in Sides
  BY DEF Across, Sides

LEMMA MovedMore ==
    ASSUME NEW h \in Seq(Char), NEW c \in Char, NEW direction \in Directions,
           NEW r, Moved(h, r, direction), NEW n \in Nat, n = Len(h) + 1,
           NEW front, front = IF c \in Borders(n)[direction] THEN r ELSE h,
           NEW d, d = Index(c, NeighborTable(n)[direction])
    PROVE  Moved(Append(h, c), IF front = Crash THEN Crash ELSE Append(front, d), direction)
  <1> DEFINE a == Across(direction)
             g == Append(h, c)
             w == Base(n, a)
             x == Digit(n, a, c)
             p == Place(h)[a]
             s == Grid(Len(h))[a]
             t == IF front = Crash THEN Crash ELSE Append(front, d)
  <1>1. a \in Sides
    BY AcrossType
  <1>2. g \in Seq(Char) /\ Len(g) = n /\ Len(h) \in Nat
    OBVIOUS
  <1>3. d \in Char /\ (c \in Borders(n)[direction] <=> x = Last(direction, w))
    BY DigitMoves, ZenonT(40)
  <1>4. Digit(n, a, d) = IF x = Last(direction, w) THEN First(direction, w) ELSE x + Sign(direction)
    BY DigitMoves, ZenonT(40)
  <1>5. \A side \in Sides : side # a => Digit(n, side, d) = Digit(n, side, c)
    BY DigitMoves
  <1>6. IsDigit(x, w)
    BY <1>1, DigitType
  <1>7. \A side \in Sides : Place(g)[side] = Base(n, side) * Place(h)[side] + Digit(n, side, c)
    BY PlaceMore
  <1>8. p \in Nat /\ s \in Nat /\ Grid(n)[a] = w * s
    BY <1>1, <1>2, PlaceMore, GridMore
  <1> HIDE DEF a, g, w, x, p, s
  <1>9. Carries(direction, w, x, p, s)
    BY <1>6, <1>8, Carry
  <1>10. Place(g)[a] = w * p + x
    BY <1>1, <1>7 DEF w, x, p
  <1>11. Place(g)[a] = Last(direction, Grid(n)[a]) <=> x = Last(direction, w) /\ p = Last(direction, s)
    <2>1. w * p + x = Last(direction, w * s) <=> x = Last(direction, w) /\ p = Last(direction, s)
      BY <1>9 DEF Carries
    <2> QED
      BY <1>8, <1>10, <2>1
  <1>12. CASE x = Last(direction, w) /\ p = Last(direction, s)
    <2>1. r = Crash
      BY <1>12 DEF Moved, a, p, s
    <2>2. t = Crash
      BY <1>3, <1>12, <2>1
    <2> HIDE DEF t
    <2>3. Moved(g, t, direction)
      BY <1>2, <1>11, <1>12, <2>2 DEF Moved, a
    <2> QED
      BY <2>3 DEF t, g
  <1>13. ASSUME ~ (x = Last(direction, w) /\ p = Last(direction, s)),
                front \in Seq(Char), Len(front) = Len(h),
                \A side \in Sides : side # a => Place(front)[side] = Place(h)[side],
                w * Place(front)[a] + Digit(n, a, d) = (w * p + x) + Sign(direction)
         PROVE  Moved(g, t, direction)
    <2>1. t = Append(front, d)
      BY <1>13, CrashIsNoCode
    <2>2. t \in Seq(Char) /\ Len(t) = Len(g)
      BY <1>2, <1>3, <1>13, <2>1
    <2>3. \A side \in Sides : Place(t)[side] = Base(n, side) * Place(front)[side] + Digit(n, side, d)
      <3>1. Len(front) + 1 = n
        BY <1>13
      <3>2. \A side \in Sides :
               Place(Append(front, d))[side] =
                  Base(Len(front) + 1, side) * Place(front)[side] + Digit(Len(front) + 1, side, d)
        BY <1>3, <1>13, PlaceMore
      <3> HIDE DEF t
      <3> QED
        BY <2>1, <3>1, <3>2
    <2> HIDE DEF t
    <2>4. ASSUME NEW side \in Sides
          PROVE  Place(t)[side] = IF side = a THEN Place(g)[side] + Sign(direction) ELSE Place(g)[side]
      <3>1. CASE side = a
        <4>1. Place(t)[side] = w * Place(front)[a] + Digit(n, a, d)
          BY <2>3, <3>1 DEF w
        <4> QED
          BY <4>1, <1>10, <1>13, <3>1
      <3>2. CASE side # a
        <4>1. Place(front)[side] = Place(h)[side] /\ Digit(n, side, d) = Digit(n, side, c)
          BY <1>5, <1>13, <3>2
        <4> QED
          BY <4>1, <2>3, <1>7, <3>2
      <3> QED
        BY <3>1, <3>2
    <2> QED
      BY <1>2, <1>11, <1>13, <2>2, <2>4 DEF Moved, a
  <1>14. CASE x = Last(direction, w) /\ p # Last(direction, s)
    <2>1. front = r
      BY <1>3, <1>14
    <2>2. /\ r \in Seq(Char) /\ Len(r) = Len(h)
          /\ \A side \in Sides : Place(r)[side] = IF side = a THEN Place(h)[side] + Sign(direction)
                                                  ELSE Place(h)[side]
      BY <1>14 DEF Moved, a, p, s
    <2>3. Place(front)[a] = p + Sign(direction)
      BY <1>1, <2>1, <2>2 DEF p
    <2>4. w * (p + Sign(direction)) + First(direction, w) = (w * p + x) + Sign(direction)
      BY <1>14, <1>9 DEF Carries
    <2>5. w * Place(front)[a] + Digit(n, a, d) = (w * p + x) + Sign(direction)
      BY <2>3, <2>4, <1>4, <1>14
    <2>6. \A side \in Sides : side # a => Place(front)[side] = Place(h)[side]
      BY <2>1, <2>2
    <2>7. front \in Seq(Char) /\ Len(front) = Len(h)
      BY <2>1, <2>2
    <2> HIDE DEF t
    <2>8. Moved(g, t, direction)
      BY <1>13, <1>14, <2>5, <2>6, <2>7
    <2> QED
      BY <2>8 DEF t, g
  <1>15. CASE x # Last(direction, w)
    <2>1. front = h
      BY <1>3, <1>15
    <2>2. w * p + (x + Sign(direction)) = (w * p + x) + Sign(direction)
      BY <1>15, <1>9 DEF Carries
    <2>3. w * Place(front)[a] + Digit(n, a, d) = (w * p + x) + Sign(direction)
      BY <2>1, <2>2, <1>4, <1>15 DEF p
    <2>4. \A side \in Sides : side # a => Place(front)[side] = Place(h)[side]
      BY <2>1
    <2>5. front \in Seq(Char) /\ Len(front) = Len(h)
      BY <2>1
    <2> HIDE DEF t
    <2>6. Moved(g, t, direction)
      BY <1>13, <1>15, <2>3, <2>4, <2>5
    <2> QED
      BY <2>6 DEF t, g
  <1> QED
    BY <1>12, <1>14, <1>15
\* One level of the recursion, with what the next level returned
Level(key, k, returned, direction) ==
    LET front == IF key[k] \in Borders(k)[direction] THEN returned ELSE SubSeq(key, 1, k - 1)
    IN  IF front = Crash THEN Crash
        ELSE Append(front, Index(key[k], NeighborTable(k)[direction]))

Levels(key, n, direction, f) ==
    f = [k \in 0..n |-> IF k = 0 THEN Crash ELSE Level(key, k, f[k - 1], direction)]

LEMMA LevelType ==
    ASSUME NEW key \in Seq(Char), NEW k \in 1..Len(key), NEW direction \in Directions,
           NEW returned \in Seq(Char) \cup {Crash}
    PROVE  Level(key, k, returned, direction) \in Seq(Char) \cup {Crash}
  <1> DEFINE front == IF key[k] \in Borders(k)[direction] THEN returned ELSE SubSeq(key, 1, k - 1)
             d == Index(key[k], NeighborTable(k)[direction])
  <1>1. SubSeq(key, 1, k - 1) \in Seq(Char)
    OBVIOUS
  <1>2. front \in Seq(Char) \cup {Crash}
    BY <1>1
  <1>3. d \in Char
    <2>1. key[k] \in Char /\ k \in Nat
      OBVIOUS
    <2> QED
      BY <2>1, DigitMoves
  <1>4. Level(key, k, returned, direction) = IF front = Crash THEN Crash ELSE Append(front, d)
    BY DEF Level
  <1> HIDE DEF front, d
  <1> QED
    BY <1>2, <1>3, <1>4

LEMMA LevelsMade ==
    ASSUME NEW key \in Seq(Char), NEW n \in 0..Len(key), NEW direction \in Directions
    PROVE  \E f : Levels(key, n, direction, f)
  <1> DEFINE V == Seq(Char) \cup {Crash}
             st == [x \in (1..n) \X V |-> Level(key, x[1], x[2], direction)]
  <1>1. \A k \in 1..n, v \in V : Level(key, k, v, direction) \in V
    <2>1. \A k \in 1..n : k \in 1..Len(key)
      OBVIOUS
    <2> QED
      BY <2>1, LevelType
  <1>2. st \in [(1..n) \X V -> V]
    <2> SUFFICES ASSUME NEW x \in (1..n) \X V PROVE Level(key, x[1], x[2], direction) \in V
      OBVIOUS
    <2>1. x[1] \in 1..n /\ x[2] \in V
      OBVIOUS
    <2> QED
      BY <1>1, <2>1
  <1>3. \A k \in 1..n, v \in V : st[<<k, v>>] = Level(key, k, v, direction)
    OBVIOUS
  <1>4. Crash \in V /\ n \in Nat
    OBVIOUS
  <1> HIDE DEF st, V
  <1>5. PICK f : Made(Crash, st, n, V, f)
    BY <1>2, <1>4, Iteration
  <1>6. f \in [0..n -> V] /\ f[0] = Crash /\ \A k \in 1..n : f[k] = st[<<k, f[k - 1]>>]
    BY <1>5 DEF Made
  <1>7. ASSUME NEW k \in 0..n
        PROVE  f[k] = IF k = 0 THEN Crash ELSE Level(key, k, f[k - 1], direction)
    <2>1. CASE k = 0
      BY <1>6, <2>1
    <2>2. CASE k # 0
      <3>1. k \in 1..n /\ k - 1 \in 0..n
        BY <2>2
      <3>2. f[k - 1] \in V
        BY <1>6, <3>1
      <3> QED
        BY <1>3, <1>6, <2>2, <3>1, <3>2
    <2> QED
      BY <2>1, <2>2
  <1>8. f = [k \in 0..n |-> f[k]]
    BY <1>6
  <1>9. Levels(key, n, direction, f)
    BY <1>7, <1>8 DEF Levels
  <1> QED
    BY <1>9

LEMMA LevelsMove ==
    ASSUME NEW key \in Seq(Char), NEW n \in 0..Len(key), NEW direction \in Directions,
           NEW f, Levels(key, n, direction, f)
    PROVE  Moved(SubSeq(key, 1, n), f[n], direction)
  <1> DEFINE Ahead(k) == SubSeq(key, 1, k)
             S == {k \in Nat : k <= n => Moved(Ahead(k), f[k], direction)}
  <1>1. \A k \in 0..n : f[k] = IF k = 0 THEN Crash ELSE Level(key, k, f[k - 1], direction)
    BY DEF Levels
  <1>2. 0 \in S
    <2>1. f[0] = Crash
      BY <1>1
    <2>2. Ahead(0) = << >> /\ Len(<< >>) = 0
      OBVIOUS
    <2>3. Place(<< >>)[Across(direction)] = 0 /\ Grid(0)[Across(direction)] = 1
      BY AcrossType, PlaceFirst, GridFirst
    <2>4. Last(direction, 1) = 0
      BY DEF Last
    <2>5. Moved(<< >>, Crash, direction)
      BY <2>2, <2>3, <2>4 DEF Moved
    <2> QED
      BY <2>1, <2>2, <2>5
  <1>3. ASSUME NEW m \in Nat, m \in S PROVE m + 1 \in S
    <2> SUFFICES ASSUME m + 1 <= n PROVE Moved(Ahead(m + 1), f[m + 1], direction)
      OBVIOUS
    <2> DEFINE k == m + 1
               h == Ahead(m)
               c == key[k]
               r == f[m]
               front == IF c \in Borders(k)[direction] THEN r ELSE h
               d == Index(c, NeighborTable(k)[direction])
    <2>1. k \in 0..n /\ k # 0 /\ k - 1 = m /\ k \in Nat
      OBVIOUS
    <2>2. h \in Seq(Char) /\ Len(h) = m /\ c \in Char
      OBVIOUS
    <2>3. Ahead(k) = Append(h, c)
      OBVIOUS
    <2>4. Moved(h, r, direction)
      BY <1>3
    <2>5. f[k] = IF front = Crash THEN Crash ELSE Append(front, d)
      <3>1. f[k] = Level(key, k, r, direction)
        BY <1>1, <2>1
      <3> QED
        BY <3>1, <2>1 DEF Level
    <2>6. k = Len(h) + 1
      BY <2>2
    <2> HIDE DEF Ahead, h, c, r, k, d
    <2>7. Moved(Append(h, c), IF front = Crash THEN Crash ELSE Append(front, d), direction)
      BY <2>1, <2>2, <2>4, <2>6, MovedMore DEF d
    <2>8. Moved(Ahead(k), f[k], direction)
      BY <2>3, <2>5, <2>7
    <2> QED
      BY <2>8 DEF k
  <1> HIDE DEF S
  <1>4. n \in S
    BY <1>2, <1>3, Induction
  <1> QED
    BY <1>4 DEF S

\* The neighbour on one side: the cell next to it, and the end of the recursion
\* in a cell on that edge.
LEMMA GetNeighborMoves ==
    ASSUME NEW key \in Seq(Char), NEW direction \in Directions
    PROVE  Moved(key, GetNeighbor(key, Len(key), direction), direction)
  <1> DEFINE n == Len(key)
             f == CHOOSE f : Levels(key, n, direction, f)
  <1>1. n \in 0..Len(key)
    OBVIOUS
  <1>2. Levels(key, n, direction, f)
    BY <1>1, LevelsMade
  <1>3. GetNeighbor(key, n, direction) = f[n]
    BY CrashIsNoCode DEF GetNeighbor, Levels, Level
  <1>4. SubSeq(key, 1, n) = key
    OBVIOUS
  <1> HIDE DEF n, f
  <1>5. Moved(SubSeq(key, 1, n), f[n], direction)
    BY <1>1, <1>2, LevelsMove
  <1> QED
    BY <1>3, <1>4, <1>5 DEF n
(***************************************************************************)
(* The eight                                                               *)
(***************************************************************************)
\* On the edge of the world the recursion ends the program, inside it the eight
\* are the cells around.
Around(h, eight) ==
    IF Edge(h) THEN \E k \in 1..8 : eight[k] = Crash
    ELSE \A k \in 1..8 :
            /\ Len(eight[k]) = Len(h)
            /\ \A side \in Sides : Place(eight[k])[side] = Place(h)[side] + Steps[k][side]

\* h is dx columns and dy rows away from g
Apart(g, h, dx, dy) ==
    /\ h \in Seq(Char) /\ Len(h) = Len(g)
    /\ Place(h)[1] = Place(g)[1] + dx /\ Place(h)[2] = Place(g)[2] + dy

LEMMA PlaceType ==
    ASSUME NEW h \in Seq(Char), NEW side \in Sides
    PROVE  Place(h)[side] \in Nat
  <1>1. 0 \in Char
    BY DEF Char
  <1> QED
    BY <1>1, PlaceMore

\* One step from a code, in each direction
LEMMA OneStep ==
    ASSUME NEW g \in Seq(Char), NEW h
    PROVE  /\ Moved(g, h, NORTH) => IF Place(g)[2] = Grid(Len(g))[2] - 1 THEN h = Crash
                                    ELSE Apart(g, h, 0, 1)
           /\ Moved(g, h, SOUTH) => IF Place(g)[2] = 0 THEN h = Crash ELSE Apart(g, h, 0, -1)
           /\ Moved(g, h, EAST) => IF Place(g)[1] = Grid(Len(g))[1] - 1 THEN h = Crash
                                   ELSE Apart(g, h, 1, 0)
           /\ Moved(g, h, WEST) => IF Place(g)[1] = 0 THEN h = Crash ELSE Apart(g, h, -1, 0)
  <1> DEFINE x == Place(g)[1]
             y == Place(g)[2]
  <1>1. 1 \in Sides /\ 2 \in Sides /\ 1 # 2
    BY DEF Sides
  <1>2. x \in Nat /\ y \in Nat
    BY <1>1, PlaceType
  <1>3. x + 0 = x /\ y + 0 = y
    BY <1>2
  <1> HIDE DEF x, y
  <1>4. Moved(g, h, NORTH) => IF y = Grid(Len(g))[2] - 1 THEN h = Crash ELSE Apart(g, h, 0, 1)
    <2>1. Across(NORTH) = 2 /\ Sign(NORTH) = 1 /\ \A k : Last(NORTH, k) = k - 1
      BY DEF Across, Sign, Last
    <2> QED
      BY <2>1, <1>1, <1>3 DEF Moved, Apart, x, y
  <1>5. Moved(g, h, SOUTH) => IF y = 0 THEN h = Crash ELSE Apart(g, h, 0, -1)
    <2>1. Across(SOUTH) = 2 /\ Sign(SOUTH) = -1 /\ \A k : Last(SOUTH, k) = 0
      BY DEF Across, Sign, Last, NORTH, EAST, SOUTH
    <2> QED
      BY <2>1, <1>1, <1>3 DEF Moved, Apart, x, y
  <1>6. Moved(g, h, EAST) => IF x = Grid(Len(g))[1] - 1 THEN h = Crash ELSE Apart(g, h, 1, 0)
    <2>1. Across(EAST) = 1 /\ Sign(EAST) = 1 /\ \A k : Last(EAST, k) = k - 1
      BY DEF Across, Sign, Last, NORTH, EAST, SOUTH
    <2> QED
      BY <2>1, <1>1, <1>3 DEF Moved, Apart, x, y
  <1>7. Moved(g, h, WEST) => IF x = 0 THEN h = Crash ELSE Apart(g, h, -1, 0)
    <2>1. Across(WEST) = 1 /\ Sign(WEST) = -1 /\ \A k : Last(WEST, k) = 0
      BY DEF Across, Sign, Last, NORTH, EAST, SOUTH, WEST
    <2> QED
      BY <2>1, <1>1, <1>3 DEF Moved, Apart, x, y
  <1> QED
    BY <1>4, <1>5, <1>6, <1>7 DEF x, y

LEMMA EightAround ==
    ASSUME NEW key \in Seq(Char)
    PROVE  Around(key, Neighbors(key, Len(key)))
  <1> DEFINE n == Len(key)
             north == GetNeighbor(key, n, NORTH)
             east == GetNeighbor(key, n, EAST)
             south == GetNeighbor(key, n, SOUTH)
             west == GetNeighbor(key, n, WEST)
             ne == GetNeighbor(north, n, EAST)
             se == GetNeighbor(east, n, SOUTH)
             sw == GetNeighbor(south, n, WEST)
             nw == GetNeighbor(west, n, NORTH)
             eight == Neighbors(key, n)
             x == Place(key)[1]
             y == Place(key)[2]
             w == Grid(n)[1]
             v == Grid(n)[2]
  <1>1. eight = <<north, ne, east, se, south, sw, west, nw>>
    BY DEF Neighbors
  <1>2. NORTH \in Directions /\ EAST \in Directions /\ SOUTH \in Directions /\ WEST \in Directions
    BY DEF Directions, NORTH, EAST, SOUTH, WEST
  <1>3. \A h \in Seq(Char), d \in Directions : Len(h) = n => Moved(h, GetNeighbor(h, n, d), d)
    BY GetNeighborMoves
  <1>4. 1 \in Sides /\ 2 \in Sides /\ \A side \in Sides : side = 1 \/ side = 2
    BY DEF Sides
  <1>5. x \in Int /\ y \in Int
    BY <1>4, PlaceType
  <1> HIDE DEF eight
  <1>6. /\ IF y = v - 1 THEN north = Crash ELSE Apart(key, north, 0, 1)
        /\ IF y = 0 THEN south = Crash ELSE Apart(key, south, 0, -1)
        /\ IF x = w - 1 THEN east = Crash ELSE Apart(key, east, 1, 0)
        /\ IF x = 0 THEN west = Crash ELSE Apart(key, west, -1, 0)
    BY <1>2, <1>3, OneStep
  <1>7. Edge(key) <=> x = 0 \/ x = w - 1 \/ y = 0 \/ y = v - 1
    BY <1>4 DEF Edge
  <1>8. CASE Edge(key)
    <2>1. north = Crash \/ south = Crash \/ east = Crash \/ west = Crash
      BY <1>6, <1>7, <1>8
    <2>2. \E k \in 1..8 : eight[k] = Crash
      <3> HIDE DEF north, south, east, west
      <3> QED
        BY <1>1, <2>1
    <2> QED
      BY <1>8, <2>2 DEF Around, eight
  <1>9. CASE ~ Edge(key)
    <2>1. /\ Apart(key, north, 0, 1) /\ Apart(key, south, 0, -1)
          /\ Apart(key, east, 1, 0) /\ Apart(key, west, -1, 0)
          /\ x # 0 /\ x # w - 1 /\ y # 0 /\ y # v - 1
      BY <1>6, <1>7, <1>9
    <2>2. Apart(key, ne, 1, 1)
      <3>1. north \in Seq(Char) /\ Len(north) = n /\ Place(north)[1] = x + 0 /\ Place(north)[2] = y + 1
        BY <2>1 DEF Apart
      <3>2. Place(north)[1] = x
        BY <3>1, <1>5
      <3>3. Moved(north, ne, EAST)
        BY <1>2, <1>3, <3>1
      <3>4. Apart(north, ne, 1, 0)
        BY <3>1, <3>2, <3>3, <2>1, OneStep
      <3>5. Place(ne)[2] = (y + 1) + 0 /\ (y + 1) + 0 = y + 1
        BY <3>1, <3>4, <1>5 DEF Apart
      <3> QED
        BY <3>1, <3>2, <3>4, <3>5 DEF Apart
    <2>3. Apart(key, se, 1, -1)
      <3>1. east \in Seq(Char) /\ Len(east) = n /\ Place(east)[1] = x + 1 /\ Place(east)[2] = y + 0
        BY <2>1 DEF Apart
      <3>2. Place(east)[2] = y
        BY <3>1, <1>5
      <3>3. Moved(east, se, SOUTH)
        BY <1>2, <1>3, <3>1
      <3>4. Apart(east, se, 0, -1)
        BY <3>1, <3>2, <3>3, <2>1, OneStep
      <3>5. Place(se)[1] = (x + 1) + 0 /\ (x + 1) + 0 = x + 1
        BY <3>1, <3>4, <1>5 DEF Apart
      <3> QED
        BY <3>1, <3>2, <3>4, <3>5 DEF Apart
    <2>4. Apart(key, sw, -1, -1)
      <3>1. south \in Seq(Char) /\ Len(south) = n /\ Place(south)[1] = x + 0 /\ Place(south)[2] = y + -1
        BY <2>1 DEF Apart
      <3>2. Place(south)[1] = x
        BY <3>1, <1>5
      <3>3. Moved(south, sw, WEST)
        BY <1>2, <1>3, <3>1
      <3>4. Apart(south, sw, -1, 0)
        BY <3>1, <3>2, <3>3, <2>1, OneStep
      <3>5. Place(sw)[2] = (y + -1) + 0 /\ (y + -1) + 0 = y + -1
        BY <3>1, <3>4, <1>5 DEF Apart
      <3> QED
        BY <3>1, <3>2, <3>4, <3>5 DEF Apart
    <2>5. Apart(key, nw, -1, 1)
      <3>1. west \in Seq(Char) /\ Len(west) = n /\ Place(west)[1] = x + -1 /\ Place(west)[2] = y + 0
        BY <2>1 DEF Apart
      <3>2. Place(west)[2] = y
        BY <3>1, <1>5
      <3>3. Moved(west, nw, NORTH)
        BY <1>2, <1>3, <3>1
      <3>4. Apart(west, nw, 0, 1)
        BY <3>1, <3>2, <3>3, <2>1, OneStep
      <3>5. Place(nw)[1] = (x + -1) + 0 /\ (x + -1) + 0 = x + -1
        BY <3>1, <3>4, <1>5 DEF Apart
      <3> QED
        BY <3>1, <3>2, <3>4, <3>5 DEF Apart
    <2> HIDE DEF north, south, east, west, ne, se, sw, nw, n
    <2>6. \A k \in 1..8 : Apart(key, eight[k], Steps[k][1], Steps[k][2])
      BY <1>1, <2>1, <2>2, <2>3, <2>4, <2>5 DEF Steps
    <2>7. ASSUME NEW k \in 1..8
          PROVE  /\ Len(eight[k]) = Len(key)
                 /\ \A side \in Sides : Place(eight[k])[side] = Place(key)[side] + Steps[k][side]
      BY <2>6, <1>4 DEF Apart
    <2> QED
      BY <1>9, <2>7 DEF Around, eight, n
  <1> QED
    BY <1>8, <1>9

\* The neighbours of a code and the code itself do not change
NeighborInv ==
    /\ code \in Seq(Char)
    /\ neighbors = << >> \/ neighbors = Neighbors(code, Len(code))

\* The eight codes that etdb_geo_hash_neighbors leaves are the cells around, for
\* codes of any length; the recursion of etdb_geo_hash_get_neighbor runs out of
\* characters (line 59) on the edge of the world and nowhere else.
THEOREM NeighborsHold ==
    NeighborSpec => []NeighborsAdjacent
  <1>1. NeighborInit => NeighborInv
    BY DEF NeighborInit, NeighborInv
  <1>2. NeighborInv /\ [NeighborNext]_neighborVars => NeighborInv'
    <2> SUFFICES ASSUME NeighborInv, [NeighborNext]_neighborVars PROVE NeighborInv'
      OBVIOUS
    <2>1. ASSUME Call PROVE NeighborInv'
      BY <2>1 DEF Call, NeighborInv
    <2>2. ASSUME NEW c \in Char, Extend(c) PROVE NeighborInv'
      BY <2>2 DEF Extend, NeighborInv
    <2>3. ASSUME UNCHANGED neighborVars PROVE NeighborInv'
      BY <2>3 DEF neighborVars, NeighborInv
    <2> QED
      BY <2>1, <2>2, <2>3 DEF NeighborNext
  <1>3. NeighborInv => NeighborsAdjacent
    BY EightAround DEF NeighborInv, NeighborsAdjacent, Around
  <1> QED
    BY <1>1, <1>2, <1>3, PTL DEF NeighborSpec
=============================================================================
