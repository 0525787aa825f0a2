---------------------------- MODULE MCEtdbDatabase ----------------------------
(* Small instances of EtdbDatabase for TLC. *)
EXTENDS EtdbDatabase, TLC

CONSTANTS k1, k2, n1, n2, n3, p1, p2, p3, g1, g2, r1

\* One or two keys on a command; where two differ, k1 is the first
MCKeys == {<<k>> : k \in Key} \cup {<<k1, k>> : k \in Key}

\* k1 is a prefix of k2
MCKeyLen == [k \in Key |-> IF k = k1 THEN 1 ELSE 3]
MCPrefixes == [k \in Key |-> {k1, k} \cap Key]

\* Names of different lengths, one of which does not fit a byte; names of
\* one length
MCNameLen == [n \in Name |-> CASE n = n1 -> 2 [] n = n2 -> 5 [] n = n3 -> 261]
SameNameLen == [n \in Name |-> 2]

\* p1 and p2 share a geohash; r1 lies in their cell and holds p1 only
MCGeo == [p \in Point |-> IF p = p3 THEN g2 ELSE g1]
MCInside == [r \in Rect |-> {p1}]
MCCover == [r \in Rect |-> {g1}]

\* Keys and ids differ in the bytes they hold
Symmetry == Permutations(Addr) \cup Permutations(Value)

\* No command looks at the last reply
NoReply == <<slot, trie, heap>>
=============================================================================
