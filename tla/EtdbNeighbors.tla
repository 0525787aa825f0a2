--------------------------- MODULE EtdbNeighbors ---------------------------
(***************************************************************************)
(* The neighbours of a cell by its code alone: the tables of               *)
(* etdb_geo_hash.c and the functions that read them, against the grid that *)
(* the codes stand for.                                                    *)
(*                                                                         *)
(* A character is its index in etdb_geo_hash_char_map, which is the number *)
(* of its five bits; a table is the sequence of its characters.            *)
(***************************************************************************)
EXTENDS Integers, Sequences

CONSTANT
    MaxLen    \* length of the longest code

Char == 0..31
NORTH == 1
EAST == 2
SOUTH == 3
WEST == 4

\* etdb_geo_hash_even_neighbors; the odd ones are the same tables with the
\* axes exchanged
even_neighbors ==
    <<<<21, 0, 23, 2, 1, 4, 3, 6, 29, 8, 31, 10, 9, 12, 11, 14,
        5, 16, 7, 18, 17, 20, 19, 22, 13, 24, 15, 26, 25, 28, 27, 30>>,
      <<10, 11, 0, 1, 14, 15, 4, 5, 2, 3, 8, 9, 6, 7, 12, 13,
        26, 27, 16, 17, 30, 31, 20, 21, 18, 19, 24, 25, 22, 23, 28, 29>>,
      <<1, 4, 3, 6, 5, 16, 7, 18, 9, 12, 11, 14, 13, 24, 15, 26,
        17, 20, 19, 22, 21, 0, 23, 2, 25, 28, 27, 30, 29, 8, 31, 10>>,
      <<2, 3, 8, 9, 6, 7, 12, 13, 10, 11, 0, 1, 14, 15, 4, 5,
        18, 19, 24, 25, 22, 23, 28, 29, 26, 27, 16, 17, 30, 31, 20, 21>>>>
odd_neighbors ==
    <<even_neighbors[2], even_neighbors[1], even_neighbors[4], even_neighbors[3]>>

even_borders ==
    <<{21, 23, 29, 31}, {10, 11, 14, 15, 26, 27, 30, 31}, {0, 2, 8, 10}, {0, 1, 4, 5, 16, 17, 20, 21}>>
odd_borders == <<even_borders[2], even_borders[1], even_borders[4], even_borders[3]>>

Borders(n) == IF n % 2 = 1 THEN odd_borders ELSE even_borders
NeighborTable(n) == IF n % 2 = 1 THEN odd_neighbors ELSE even_neighbors

\* etdb_geo_hash_index_for_char in a table that has the character
Index(c, table) == (CHOOSE i \in DOMAIN table : table[i] = c) - 1

\* hash[-1] was read, and the memcpy of -1 bytes ends the process
Crash == <<-1>>

\* etdb_geo_hash_get_neighbor
GetNeighbor(hash, n, direction) ==
    LET neighbor[k \in 0..n] ==
            IF k = 0 THEN Crash
            ELSE LET front == IF hash[k] \in Borders(k)[direction] THEN neighbor[k - 1]
                              ELSE SubSeq(hash, 1, k - 1)
                 IN  IF front = Crash THEN Crash
                     ELSE Append(front, Index(hash[k], NeighborTable(k)[direction]))
    IN  IF hash = Crash THEN Crash ELSE neighbor[n]

\* Variant of Neighbors: the last one turns the wrong way
NeighborsTurned(hash, n) ==
    LET north == GetNeighbor(hash, n, NORTH)
        east == GetNeighbor(hash, n, EAST)
        south == GetNeighbor(hash, n, SOUTH)
        west == GetNeighbor(hash, n, WEST)
    IN  <<north, GetNeighbor(north, n, EAST), east, GetNeighbor(east, n, SOUTH),
          south, GetNeighbor(south, n, WEST), west, GetNeighbor(west, n, SOUTH)>>

\* etdb_geo_hash_neighbors
Neighbors(hash, n) ==
    LET north == GetNeighbor(hash, n, NORTH)
        east == GetNeighbor(hash, n, EAST)
        south == GetNeighbor(hash, n, SOUTH)
        west == GetNeighbor(hash, n, WEST)
    IN  <<north, GetNeighbor(north, n, EAST), east, GetNeighbor(east, n, SOUTH),
          south, GetNeighbor(south, n, WEST), west, GetNeighbor(west, n, NORTH)>>

----------------------------------------------------------------------------
VARIABLES
    code,      \* the code of a cell
    neighbors  \* what the last call left for it, << >> before

neighborVars == <<code, neighbors>>

NeighborInit == code = << >> /\ neighbors = << >>

\* The caller makes the code longer
Extend(c) ==
    /\ Len(code) < MaxLen /\ neighbors = << >>
    /\ code' = Append(code, c)
    /\ UNCHANGED neighbors

Call ==
    /\ code # << >> /\ neighbors = << >>
    /\ neighbors' = Neighbors(code, Len(code))
    /\ UNCHANGED code

NeighborNext == Call \/ \E c \in Char : Extend(c)

NeighborSpec == NeighborInit /\ [][NeighborNext]_neighborVars

----------------------------------------------------------------------------
\* The grid: every bit of a code cuts its cell, the first into two columns, the
\* second into two rows and so on
Sides == 1..2
Side(i) == IF i % 2 = 1 THEN 1 ELSE 2
Turned(v, i, x) == [v EXCEPT ![Side(i)] = 2 * @ + x]

\* Column and row after n turns, if they are z before the first
Bisect(z, b, n) ==
    LET at[i \in 0..n] ==
            IF i = 0 THEN [side \in Sides |-> z] ELSE Turned(at[i - 1], i, b[i])
    IN  at[n]

Weights == <<16, 8, 4, 2, 1>>
Bit(h, i) == (h[((i - 1) \div 5) + 1] \div Weights[((i - 1) % 5) + 1]) % 2
BitsOf(h) == [i \in 1..(5 * Len(h)) |-> Bit(h, i)]

\* Column and row of the cell, and how many there are for codes of n characters
Place(h) == Bisect(0, BitsOf(h), 5 * Len(h))
Grid(n) == Bisect(1, [i \in 1..(5 * n) |-> 0], 5 * n)

Edge(h) ==
    \E side \in Sides : Place(h)[side] \in {0, Grid(Len(h))[side] - 1}

\* N, NE, E, SE, S, SW, W, NW
Steps == <<<<0, 1>>, <<1, 1>>, <<1, 0>>, <<1, -1>>, <<0, -1>>, <<-1, -1>>, <<-1, 0>>, <<-1, 1>>>>

\* The eight codes are those of the eight cells around, in the order that
\* etdb_geo_hash.h:58-59 gives: every entry of the tables, and the recursion
\* over the characters when a border is crossed, agree with the bisection.  The
\* recursion runs out of characters (line 59) for no cell but those on the
\* edge of the world, and for those it always does.
NeighborsAdjacent ==
    neighbors # << >> =>
       IF Edge(code) THEN \E k \in 1..8 : neighbors[k] = Crash
       ELSE \A k \in 1..8 :
               /\ Len(neighbors[k]) = Len(code)
               /\ \A side \in Sides :
                     Place(neighbors[k])[side] = Place(code)[side] + Steps[k][side]
=============================================================================
