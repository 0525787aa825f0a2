------------------------------ MODULE EtdbGeo ------------------------------
(***************************************************************************)
(* The geohash code (etdb_geo_hash.c) and its use by spset and sprect.     *)
(* A point gets the code of the cell that repeated bisection finds for it; *)
(* a rectangle gets the code of a cell that contains it, and sprect looks  *)
(* only among the points whose codes begin with that one.                  *)
(*                                                                         *)
(* Every loop is a sequence of steps, one for each turn. One point is      *)
(* enough: sprect decides about each stored point by itself.               *)
(*                                                                         *)
(* Coordinates are integers, in a unit so small that every midpoint is     *)
(* one, as the midpoints of the code are exact doubles. Codes are          *)
(* sequences of bits: etdb_geo_hash_char_map gives each group of Bits bits *)
(* a character of its own, so codes agree in a number of characters        *)
(* exactly when they agree in their bits.                                  *)
(***************************************************************************)
EXTENDS Integers, Sequences

CONSTANTS
    MaxLat, MaxLong,  \* MAX_LAT and MAX_LONG; MIN_LAT and MIN_LONG are -MAX
    Bits,             \* bits of a character, 5 in the code
    PrecisionLen,     \* ETDB_GEO_HASH_PRECISION_LEN
    Coord,            \* what etdb_atof returns for the arguments of commands:
                      \* it refuses a sign, so never a negative number
    NoHead            \* no point is stored

Axes == {"lat", "lng"}
Max == [a \in Axes |-> IF a = "lat" THEN MaxLat ELSE MaxLong]
Turns == Bits * PrecisionLen

\* Sizes are positive and arguments not negative
ASSUME GeoAssumption ==
    /\ MaxLat \in Nat \ {0} /\ MaxLong \in Nat \ {0}
    /\ Bits \in Nat \ {0} /\ PrecisionLen \in Nat \ {0}
    /\ Coord \subseteq Nat

VARIABLES
    pc,         \* the loop that runs, "idle" between commands
    pt,         \* arguments of spset
    rect,       \* arguments of sprect: two bounds on each axis, as they came
    head,       \* the stored point: its place, its code and, for the
                \* properties only, the cells the encoder went through
    cell,       \* lat_interval and lng_interval: <<low, high>> on each axis
    path,       \* the cells before each turn and the present one (history)
    hash,       \* the bits found so far; those after the last multiple of
                \* Bits are still in hashChar
    precision,  \* *precision of the cover, char_amount of the decoder
    found       \* whether sprect replies with the point

vars == <<pc, pt, rect, head, cell, path, hash, precision, found>>

World == [a \in Axes |-> <<-Max[a], Max[a]>>]
Mid(in) == (in[1] + in[2]) \div 2
Half(in, b) == IF b = 1 THEN <<Mid(in), in[2]>> ELSE <<in[1], Mid(in)>>

\* The axis of turn i: is_even is 1 in the first
Axis(i) == IF i % 2 = 1 THEN "lng" ELSE "lat"
Turn == Len(hash) + 1

\* The condition of the loops over i
MoreTurns == Turn <= Turns

\* No loop runs: its variables are local, and have one value here
NoPoint == [a \in Axes |-> 0]
NoRect == [a \in Axes |-> <<0, 0>>]

Init ==
    /\ pc = "idle"
    /\ pt = NoPoint
    /\ rect = NoRect
    /\ head = NoHead
    /\ cell = World
    /\ path = <<World>>
    /\ hash = << >>
    /\ precision = PrecisionLen
    /\ found = FALSE

StartLoop(loop, n) ==
    /\ pc' = loop
    /\ cell' = World
    /\ path' = <<World>>
    /\ hash' = << >>
    /\ precision' = n

\* The locals are gone
Return ==
    /\ StartLoop("idle", PrecisionLen)
    /\ pt' = NoPoint
    /\ rect' = NoRect
    /\ found' = FALSE

\* One bisection
Advance(a, b) ==
    /\ cell' = [cell EXCEPT ![a] = Half(@, b)]
    /\ path' = Append(path, cell')
    /\ hash' = Append(hash, b)

(***************************************************************************)
(* spset: etdb_geo_hash_encode and the head of the point. Coordinates out  *)
(* of range are refused and change nothing.                                *)
(***************************************************************************)
SpSet(p) ==
    /\ pc = "idle"
    /\ \A a \in Axes : p[a] <= Max[a]
    /\ StartLoop("encode", PrecisionLen)
    /\ pt' = p
    /\ UNCHANGED <<rect, head, found>>

\* Variant of EncodeBit: a point on the border goes to the upper half
EncodeBitUp(a) == IF pt[a] >= Mid(cell[a]) THEN 1 ELSE 0

EncodeBit(a) == IF pt[a] > Mid(cell[a]) THEN 1 ELSE 0

EncodeTurn ==
    /\ pc = "encode" /\ MoreTurns
    /\ Advance(Axis(Turn), EncodeBit(Axis(Turn)))
    /\ UNCHANGED <<pc, pt, rect, head, precision, found>>

Encoded ==
    /\ pc = "encode" /\ ~ MoreTurns
    /\ head' = [pt |-> pt, geo |-> hash, path |-> path]
    /\ Return

(***************************************************************************)
(* sprect: etdb_geo_hash_get_max_cover, the search and the filter          *)
(***************************************************************************)
SpRect(r) ==
    /\ pc = "idle"
    /\ \A a \in Axes : r[a][1] <= Max[a] /\ r[a][2] <= Max[a]
    /\ StartLoop("cover", PrecisionLen)
    /\ rect' = r
    /\ UNCHANGED <<pt, head, found>>

\* Bounds in the wrong order are swapped, for the cover only
RangeLow(a) == IF rect[a][1] > rect[a][2] THEN rect[a][2] ELSE rect[a][1]
RangeHigh(a) == IF rect[a][1] > rect[a][2] THEN rect[a][1] ELSE rect[a][2]

\* Variant of InUpper: a bound on the border counts for the upper half
InUpperOrOn(a) == RangeLow(a) >= Mid(cell[a])

\* The rectangle is in the upper, in the lower half of the cell
InUpper(a) == RangeLow(a) > Mid(cell[a])
InLower(a) == ~ InUpper(a) /\ RangeHigh(a) < Mid(cell[a])

\* Variant of Chars: one more than there are
CharsOneMore(i) == i \div Bits + 1

\* The characters that are complete after turn i, the last of one
Chars(i) == (i - 1) \div Bits + 1

CoverTurn ==
    /\ pc = "cover" /\ MoreTurns
    /\ LET a == Axis(Turn)
       IN  \/ InUpper(a) /\ Advance(a, 1)
           \/ InLower(a) /\ Advance(a, 0)
    /\ precision' = IF Turn % Bits = 0 THEN Chars(Turn) ELSE precision
    /\ UNCHANGED <<pc, pt, rect, head, found>>

\* The loop is over, or the rectangle has points in both halves
CoverEnds == MoreTurns => ~ InUpper(Axis(Turn)) /\ ~ InLower(Axis(Turn))

\* The trie search for the first precision characters. Characters that the
\* loop did not write are 0 bytes, which no code has.
Matches ==
    /\ head # NoHead
    /\ precision * Bits <= Len(hash)
    /\ \A i \in 1..(precision * Bits) : head.geo[i] = hash[i]

Inside(p, r) == \A a \in Axes : r[a][1] <= p[a] /\ p[a] <= r[a][2]

SearchRect ==
    /\ pc = "cover" /\ CoverEnds
    /\ found' = (Matches /\ Inside(head.pt, rect))
    /\ pc' = "reply"
    /\ UNCHANGED <<pt, rect, head, cell, path, hash, precision>>

Replied ==
    /\ pc \in {"reply", "decoded"}
    /\ Return
    /\ UNCHANGED head

(***************************************************************************)
(* etdb_geo_hash_decode of the first n characters of the stored code       *)
(***************************************************************************)
Decode(n) ==
    /\ pc = "idle" /\ head # NoHead
    /\ StartLoop("decode", n)
    /\ UNCHANGED <<pt, rect, head, found>>

DecodeTurn ==
    /\ pc = "decode" /\ Turn <= precision * Bits
    /\ LET a == Axis(Turn)
           b == head.geo[Turn]
           delta == (cell[a][2] - cell[a][1]) \div 2
       IN  /\ cell' = [cell EXCEPT ![a] = IF b = 1 THEN <<@[1] + delta, @[2]>>
                                          ELSE <<@[1], @[2] - delta>>]
           /\ path' = Append(path, cell')
           /\ hash' = Append(hash, b)
    /\ UNCHANGED <<pc, pt, rect, head, precision, found>>

\* The caller gets cell as north, east, south and west, and its middle
Decoded ==
    /\ pc = "decode" /\ Turn > precision * Bits
    /\ pc' = "decoded"
    /\ UNCHANGED <<pt, rect, head, cell, path, hash, precision, found>>

\* width or height after k turns of /= 2.0
Halved(w) ==
    LET halved[k \in Nat] == IF k = 0 THEN w ELSE halved[k - 1] \div 2
    IN  halved

\* Variant of Dimensions: both axes are cut equally often
DimensionsEven(n) ==
    [lat |-> Halved(2 * MaxLat)[(n * Bits) \div 2],
     lng |-> Halved(2 * MaxLong)[(n * Bits) \div 2]]

\* etdb_geo_hash_dimensions_for_precision, which geo_hash_info reports
Dimensions(n) ==
    [lat |-> Halved(2 * MaxLat)[(n * Bits) \div 2],
     lng |-> Halved(2 * MaxLong)[(n * Bits) \div 2 + (n % 2)]]

\* How often t turns cut an axis
Cuts(a, t) == IF a = "lat" THEN t \div 2 ELSE (t + 1) \div 2

\* A unit so small that no turn cuts an odd number of them.  With an odd number
\* of bits, a code of an odd length has cut the longitude once more.
ASSUME UnitAssumption ==
    /\ Bits % 2 = 1
    /\ \A t \in 1..Turns : Halved(2 * Max[Axis(t)])[Cuts(Axis(t), t - 1)] % 2 = 0

Next ==
    \/ \E p \in [Axes -> Coord] : SpSet(p)
    \/ EncodeTurn
    \/ Encoded
    \/ \E r \in [Axes -> Coord \X Coord] : SpRect(r)
    \/ CoverTurn
    \/ SearchRect
    \/ \E n \in 1..PrecisionLen : Decode(n)
    \/ DecodeTurn
    \/ Decoded
    \/ Replied

Spec == Init /\ [][Next]_vars

----------------------------------------------------------------------------
(***************************************************************************)
(* Properties                                                              *)
(***************************************************************************)
Cells == [Axes -> Int \X Int]
Heads == [pt : [Axes -> Coord], geo : Seq({0, 1}), path : Seq(Cells)]

\* Every variable has its type; a code has one bit for each turn and its
\* path one cell more.
TypeOK ==
    /\ pc \in {"idle", "encode", "cover", "reply", "decode", "decoded"}
    /\ pt \in [Axes -> Nat]
    /\ rect \in [Axes -> Nat \X Nat]
    /\ head \in Heads \cup {NoHead}
    /\ head # NoHead => Len(head.geo) = Turns /\ Len(head.path) = Turns + 1
    /\ cell \in Cells
    /\ path \in Seq(Cells) /\ Len(path) = Len(hash) + 1 /\ path[Len(path)] = cell
    /\ hash \in Seq({0, 1}) /\ Len(hash) <= Turns
    /\ precision \in 1..PrecisionLen
    /\ found \in BOOLEAN

\* The cell of every turn of the encoder contains the point (in 100-102 a
\* point on the border of two cells goes to the lower one).
CellHoldsPoint ==
    /\ pc = "encode" => \A a \in Axes : cell[a][1] < pt[a] /\ pt[a] <= cell[a][2]
    /\ head # NoHead =>
          \A i \in 1..(Turns + 1), a \in Axes :
             head.path[i][a][1] < head.pt[a] /\ head.pt[a] <= head.path[i][a][2]

\* As long as the point is in the rectangle, the cover's cells and bits are
\* the point's: the comparisons with the two bounds (232, 235) and the one
\* with the coordinate (99) never part.
CoverFollowsCode ==
    pc \in {"cover", "reply"} /\ head # NoHead /\ Inside(head.pt, rect) =>
       /\ \A i \in 1..Len(hash) : hash[i] = head.geo[i]
       /\ cell = head.path[Len(hash) + 1]

\* sprect finds a point inside its rectangle, if the cover has a character:
\* the key it searches for is a prefix of the point's key in the trie.
CoverSound ==
    pc = "reply" /\ Len(hash) >= Bits /\ head # NoHead /\ Inside(head.pt, rect) => found

\* sprect finds a point inside its rectangle.
RectFinds ==
    pc = "reply" /\ head # NoHead /\ Inside(head.pt, rect) => found

\* The decoder's box for n characters of a point's code contains the point,
\* has the size that geo_hash_info reports for n characters, and its middle is
\* at most half of that away from the point.
DecodeNear ==
    pc = "decoded" =>
       \A a \in Axes :
          /\ cell[a][1] < head.pt[a] /\ head.pt[a] <= cell[a][2]
          /\ cell[a][2] - cell[a][1] = Dimensions(precision)[a]
          /\ LET middle == cell[a][2] - (cell[a][2] - cell[a][1]) \div 2
             IN  /\ 2 * (middle - head.pt[a]) <= Dimensions(precision)[a]
                 /\ 2 * (head.pt[a] - middle) <= Dimensions(precision)[a]
=============================================================================
