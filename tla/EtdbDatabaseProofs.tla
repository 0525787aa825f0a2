--------------------------------- MODULE EtdbDatabaseProofs ---------------------------------
(***************************************************************************)
(* Proofs that the tries and the heap of EtdbDatabase stay consistent, for *)
(* any number of slots, keys, names, lists, points and addresses.          *)
(*                                                                         *)
(* The invariant is the conjunction of the invariants TLC checks.  None of *)
(* them is inductive alone: that a new head is not shared needs that no    *)
(* key leads to a free address (LiveHeads), that a del leaves no dangling  *)
(* pointer needs OneOwner, and for a point that its two keys are the only  *)
(* ones needs SpIndex.                                                     *)
(*                                                                         *)
(* Proof that EtdbDatabase implements EtdbKeyspace for any keys, names,    *)
(* lists, points, rectangles and addresses, if no two names have lengths   *)
(* with the same last byte and the cover of a rectangle has the geohashes  *)
(* of its points.                                                          *)
(*                                                                         *)
(* A command changes what one key leads to (Rewrites) or the members of    *)
(* one set.  What the keys of the other types and the other keys of its    *)
(* type lead to stays, because no two keys share a head (OneOwner) and     *)
(* keys are equal only if what they encode is.                             *)
(***************************************************************************)
EXTENDS EtdbDatabase, SequenceTheorems, WellFoundedInduction, TLAPS

-----------------------------------------------------------------------------
(* The tries and the heap *)

\* A head carries what its type says
HeadContents ==
    \A a \in Addr :
        /\ heap[a].type \in {"kv", "hash"} => heap[a].val \in Value
        /\ heap[a].type = "sp" => heap[a].pt \in Point /\ heap[a].geo \in Hash

Inv == HeadContents /\ TypeOK /\ LiveHeads /\ OneOwner /\ SpIndex /\ ListsNotEmpty /\ NoLostHead

-----------------------------------------------------------------------------
(* Trie keys *)

LEMMA KeyTypes ==
    /\ \A k \in Key : KvKey(k) \in TrieKey /\ KvKey(k)[1] = "0"
    /\ \A n \in Name, k \in Key : HashKey(n, k) \in TrieKey /\ HashKey(n, k)[1] = "1"
    /\ \A n \in Name, k \in Key : SetKey(n, k) \in TrieKey /\ SetKey(n, k)[1] = "2"
    /\ \A l \in ListName : ListKey(l) \in TrieKey /\ ListKey(l)[1] = "3"
    /\ \A i \in Id : SpKey(i) \in TrieKey /\ SpKey(i)[1] = "a" /\ SpKey(i)[3] = i
    /\ \A g \in Hash, i \in Id : /\ IdxKey(g, i) \in TrieKey
                                 /\ IdxKey(g, i)[1] = "b"
                                 /\ IdxKey(g, i)[2] = g /\ IdxKey(g, i)[3] = i
  BY DEF KvKey, HashKey, SetKey, ListKey, SpKey, IdxKey, TrieKey, NameBytes

LEMMA KeyForms ==
    ASSUME NEW k \in TrieKey
    PROVE  /\ k[1] \in {"0", "1", "2", "3", "a", "b"}
           /\ k[1] = "a" => k[3] \in Id /\ k = SpKey(k[3])
           /\ k[1] = "b" => k[2] \in Hash /\ k[3] \in Id /\ k = IdxKey(k[2], k[3])
  BY DEF TrieKey, SpKey, IdxKey

LEMMA HeadTypes ==
    /\ HeadType["0"] = "kv" /\ HeadType["1"] = "hash" /\ HeadType["3"] = "list"
    /\ HeadType["a"] = "sp" /\ HeadType["b"] = "sp"
  BY DEF HeadType

LEMMA HeadForms ==
    /\ Free \in Heads /\ Free.type = "free"
    /\ \A t \in {"kv", "hash"}, v \in Value :
          /\ ValueHead(t, v) \in Heads /\ ValueHead(t, v).type = t
          /\ ValueHead(t, v).val = v
    /\ \A s \in Seq(Value) :
          /\ ListHead(s) \in Heads /\ ListHead(s).type = "list"
          /\ ListHead(s).list = s
    /\ \A p \in Point : /\ PointHead(p) \in Heads /\ PointHead(p).type = "sp"
                        /\ PointHead(p).pt = p /\ PointHead(p).geo = Geo[p]
                        /\ Geo[p] \in Hash
  BY PointAssumption DEF Free, ValueHead, ListHead, PointHead, Heads

-----------------------------------------------------------------------------
(* The ways a command changes tries and heap *)

\* The head of a point, as its id key reaches it
LEMMA PointHeads ==
    ASSUME Inv, NEW s \in Slot, NEW i \in Id, trie[s][SpKey(i)] # NoValue
    PROVE  /\ trie[s][SpKey(i)] \in Addr
           /\ heap[trie[s][SpKey(i)]].type = "sp"
           /\ heap[trie[s][SpKey(i)]].pt \in Point
           /\ heap[trie[s][SpKey(i)]].geo \in Hash
  BY KeyTypes, HeadTypes DEF Inv, LiveHeads, HeadContents

\* A step that leaves the points of all slots and their heads alone
LEMMA SpIndexKept ==
    ASSUME Inv,
           \A t \in Slot, i \in Id :
              /\ trie'[t][SpKey(i)] = trie[t][SpKey(i)]
              /\ \A g \in Hash : trie'[t][IdxKey(g, i)] = trie[t][IdxKey(g, i)]
              /\ trie[t][SpKey(i)] # NoValue =>
                    heap'[trie[t][SpKey(i)]] = heap[trie[t][SpKey(i)]]
    PROVE  SpIndex'
<1> SUFFICES ASSUME NEW t \in Slot, NEW i \in Id
    PROVE  /\ \A g \in Hash : trie'[t][IdxKey(g, i)] # NoValue =>
              /\ trie'[t][IdxKey(g, i)] = trie'[t][SpKey(i)]
              /\ heap'[trie'[t][SpKey(i)]].geo = g
           /\ trie'[t][SpKey(i)] # NoValue =>
              /\ trie'[t][IdxKey(heap'[trie'[t][SpKey(i)]].geo, i)] # NoValue
              /\ heap'[trie'[t][SpKey(i)]].geo = Geo[heap'[trie'[t][SpKey(i)]].pt]
  BY DEF SpIndex
<1>1. trie'[t][SpKey(i)] = trie[t][SpKey(i)]
  OBVIOUS
<1>2. SpIndex
  BY DEF Inv
<1>3. ASSUME NEW g \in Hash, trie'[t][IdxKey(g, i)] # NoValue
      PROVE  /\ trie'[t][IdxKey(g, i)] = trie'[t][SpKey(i)]
             /\ heap'[trie'[t][SpKey(i)]].geo = g
  BY <1>1, <1>2, <1>3 DEF SpIndex
<1>4. ASSUME trie[t][SpKey(i)] # NoValue
      PROVE  /\ trie'[t][IdxKey(heap'[trie'[t][SpKey(i)]].geo, i)] # NoValue
             /\ heap'[trie'[t][SpKey(i)]].geo = Geo[heap'[trie'[t][SpKey(i)]].pt]
  BY <1>1, <1>2, <1>4, PointHeads DEF SpIndex
<1> QED BY <1>1, <1>3, <1>4

\* A new head for a value, a hash field or a new list
LEMMA AllocStep ==
    ASSUME Inv, slot' \in [Conn -> Slot],
           NEW s \in Slot, NEW k \in TrieKey, k[1] \in {"0", "1", "3"},
           k[1] = "3" => trie[s][k] = NoValue,
           NEW a \in FreeAddrs, NEW h \in Heads, h.type = HeadType[k[1]],
           IF k[1] = "3" THEN h.list # << >> ELSE h.val \in Value,
           heap' = [heap EXCEPT ![a] = h],
           trie' = [trie EXCEPT ![s][k] = a]
    PROVE  Inv'
<1> USE DEF Inv
<1>1. a \in Addr /\ heap[a].type = "free"
  BY HeadForms DEF FreeAddrs
<1>2. TypeOK'
  BY <1>1 DEF TypeOK
<1>3. /\ \A b \in Addr : heap'[b] = IF b = a THEN h ELSE heap[b]
      /\ \A t \in Slot, x \in TrieKey :
            trie'[t][x] = IF t = s /\ x = k THEN a ELSE trie[t][x]
  BY <1>1 DEF TypeOK
<1>4. \A t \in Slot, x \in TrieKey : trie[t][x] # a
  BY <1>1, KeyForms, HeadTypes, PtrAssumption DEF LiveHeads
<1>5. LiveHeads'
  BY <1>1, <1>3, <1>4, PtrAssumption DEF LiveHeads
<1>6. OneOwner'
  BY <1>1, <1>3, <1>4 DEF OneOwner
<1>7. SpIndex'
  <2>1. \A t \in Slot, i \in Id :
          /\ trie'[t][SpKey(i)] = trie[t][SpKey(i)]
          /\ \A g \in Hash : trie'[t][IdxKey(g, i)] = trie[t][IdxKey(g, i)]
    BY <1>3, KeyTypes
  <2>2. ASSUME NEW t \in Slot, NEW i \in Id, trie[t][SpKey(i)] # NoValue
        PROVE  heap'[trie[t][SpKey(i)]] = heap[trie[t][SpKey(i)]]
    BY <2>2, <1>3, <1>4, KeyTypes DEF LiveHeads
  <2> QED BY <2>1, <2>2, SpIndexKept
<1>8. ListsNotEmpty'
  BY <1>1, <1>3, <1>4, KeyTypes DEF ListsNotEmpty, LiveHeads
<1>9. NoLostHead'
  <2> SUFFICES ASSUME NEW b \in Addr, heap'[b].type \in {"list", "sp"}
               PROVE  \E t \in Slot : \E x \in TrieKey : trie'[t][x] = b
    BY DEF NoLostHead
  <2>1. CASE b = a
    BY <2>1, <1>3
  <2>2. CASE b # a
    <3>1. PICK t \in Slot, x \in TrieKey : trie[t][x] = b
      BY <2>2, <1>3 DEF NoLostHead
    <3>2. trie[s][k] # NoValue => trie[s][k] \in Addr /\ heap[trie[s][k]].type \in {"kv", "hash"}
      BY HeadTypes DEF LiveHeads
    <3>3. ~(t = s /\ x = k)
      BY <2>2, <3>1, <3>2, <1>3, PtrAssumption
    <3> QED BY <3>1, <3>3, <1>3
  <2> QED BY <2>1, <2>2
<1>10. HeadContents'
  BY <1>3, HeadTypes DEF HeadContents
<1> QED BY <1>2, <1>5, <1>6, <1>7, <1>8, <1>9, <1>10

\* The key of a value, a hash field or a list goes, and its head with it
LEMMA FreeStep ==
    ASSUME Inv, slot' \in [Conn -> Slot],
           NEW s \in Slot, NEW k \in TrieKey, k[1] \in {"0", "1", "3"},
           trie[s][k] # NoValue,
           heap' = [heap EXCEPT ![trie[s][k]] = Free],
           trie' = [trie EXCEPT ![s][k] = NoValue]
    PROVE  Inv'
<1> USE DEF Inv
<1>1. trie[s][k] \in Addr /\ heap[trie[s][k]].type = HeadType[k[1]]
  BY DEF LiveHeads
<1>2. TypeOK'
  BY <1>1, HeadForms DEF TypeOK
<1>3. /\ \A b \in Addr : heap'[b] = IF b = trie[s][k] THEN Free ELSE heap[b]
      /\ \A t \in Slot, x \in TrieKey :
            trie'[t][x] = IF t = s /\ x = k THEN NoValue ELSE trie[t][x]
  BY <1>1 DEF TypeOK
<1>4. \A t \in Slot, x \in TrieKey : trie[t][x] = trie[s][k] => t = s /\ x = k
  BY <1>1, KeyForms, KeyTypes DEF OneOwner, Owner
<1>5. LiveHeads'
  BY <1>1, <1>3, <1>4, PtrAssumption DEF LiveHeads
<1>6. OneOwner'
  BY <1>1, <1>3, <1>4, PtrAssumption DEF OneOwner
<1>7. SpIndex'
  <2>1. \A t \in Slot, i \in Id :
          /\ trie'[t][SpKey(i)] = trie[t][SpKey(i)]
          /\ \A g \in Hash : trie'[t][IdxKey(g, i)] = trie[t][IdxKey(g, i)]
    BY <1>3, KeyTypes
  <2>2. ASSUME NEW t \in Slot, NEW i \in Id, trie[t][SpKey(i)] # NoValue
        PROVE  heap'[trie[t][SpKey(i)]] = heap[trie[t][SpKey(i)]]
    BY <2>2, <1>3, <1>4, KeyTypes DEF LiveHeads
  <2> QED BY <2>1, <2>2, SpIndexKept
<1>8. ListsNotEmpty'
  BY <1>1, <1>3, <1>4, KeyTypes DEF ListsNotEmpty, LiveHeads
<1>9. NoLostHead'
  BY <1>1, <1>3, <1>4, HeadForms DEF NoLostHead
<1>10. HeadContents'
  BY <1>3, HeadForms DEF HeadContents
<1> QED BY <1>2, <1>5, <1>6, <1>7, <1>8, <1>9, <1>10

\* The content of a list changes
LEMMA ListStep ==
    ASSUME Inv, slot' \in [Conn -> Slot], trie' = trie,
           NEW s \in Slot, NEW l \in ListName, trie[s][ListKey(l)] # NoValue,
           NEW q \in Seq(Value), q # << >>,
           heap' = [heap EXCEPT ![trie[s][ListKey(l)]] = ListHead(q)]
    PROVE  Inv'
<1> USE DEF Inv
<1>1. /\ trie[s][ListKey(l)] \in Addr
      /\ heap[trie[s][ListKey(l)]].type = "list"
  BY KeyTypes, HeadTypes DEF LiveHeads
<1>2. TypeOK'
  BY <1>1, HeadForms DEF TypeOK
<1>3. \A b \in Addr : heap'[b] = IF b = trie[s][ListKey(l)] THEN ListHead(q) ELSE heap[b]
  BY <1>1 DEF TypeOK
<1>4. \A b \in Addr : heap'[b].type = heap[b].type
  BY <1>1, <1>3, HeadForms
<1>5. LiveHeads'
  BY <1>4 DEF LiveHeads
<1>6. OneOwner'
  BY DEF OneOwner
<1>7. SpIndex'
  <2>1. ASSUME NEW t \in Slot, NEW i \in Id, trie[t][SpKey(i)] # NoValue
        PROVE  heap'[trie[t][SpKey(i)]] = heap[trie[t][SpKey(i)]]
    BY <2>1, <1>1, <1>3, KeyTypes, HeadTypes DEF LiveHeads
  <2> QED BY <2>1, SpIndexKept
<1>8. ListsNotEmpty'
  BY <1>3, HeadForms, KeyTypes DEF ListsNotEmpty, LiveHeads
<1>9. NoLostHead'
  BY <1>4 DEF NoLostHead
<1>10. HeadContents'
  BY <1>3, HeadForms DEF HeadContents
<1> QED BY <1>2, <1>5, <1>6, <1>7, <1>8, <1>9, <1>10

\* Members of sets come and go
LEMMA SetStep ==
    ASSUME Inv, slot' \in [Conn -> Slot], heap' = heap,
           trie' \in [Slot -> [TrieKey -> Addr \cup {Member, NoValue}]],
           \A t \in Slot, x \in TrieKey :
              trie'[t][x] = trie[t][x]
              \/ (x[1] = "2" /\ trie'[t][x] \in {Member, NoValue})
    PROVE  Inv'
<1> USE DEF Inv
<1>1. TypeOK'
  BY DEF TypeOK
<1>2. LiveHeads'
  BY DEF LiveHeads
<1>3. \A t \in Slot, x \in TrieKey : trie'[t][x] \in Addr => trie'[t][x] = trie[t][x]
  BY PtrAssumption
<1>4. OneOwner'
  BY <1>3 DEF OneOwner
<1>5. SpIndex'
  <2>1. \A t \in Slot, i \in Id :
          /\ trie'[t][SpKey(i)] = trie[t][SpKey(i)]
          /\ \A g \in Hash : trie'[t][IdxKey(g, i)] = trie[t][IdxKey(g, i)]
    BY KeyTypes
  <2> QED BY <2>1, SpIndexKept
<1>6. ListsNotEmpty'
  BY KeyTypes DEF ListsNotEmpty
<1>7. NoLostHead'
  BY PtrAssumption DEF NoLostHead, LiveHeads
<1>8. HeadContents'
  BY DEF HeadContents
<1> QED BY <1>1, <1>2, <1>4, <1>5, <1>6, <1>7, <1>8

-----------------------------------------------------------------------------
(* Points *)

\* Index keys of different ids or geohashes differ, and differ from id keys
LEMMA PointKeys ==
    ASSUME NEW g \in Hash, NEW i \in Id
    PROVE  /\ \A j \in Id : SpKey(i) = SpKey(j) => i = j
           /\ \A h \in Hash, j \in Id : IdxKey(g, i) = IdxKey(h, j) => g = h /\ i = j
           /\ \A j \in Id : SpKey(j) # IdxKey(g, i)
  BY KeyTypes

\* A step changes the values of two keys of one trie
TwoKeys(s, x, y, a, b) ==
    /\ trie'[s][x] = a /\ trie'[s][y] = b
    /\ \A z \in TrieKey : z # x /\ z # y => trie'[s][z] = trie[s][z]
    /\ \A t \in Slot : t # s => trie'[t] = trie[t]

LEMMA TwoKeysStep ==
    ASSUME NEW s \in Slot, NEW x \in TrieKey, NEW y \in TrieKey, x # y,
           NEW V, NEW a \in V, NEW b \in V, trie \in [Slot -> [TrieKey -> V]],
           trie' = [trie EXCEPT ![s] = [@ EXCEPT ![x] = a, ![y] = b]]
    PROVE  trie' \in [Slot -> [TrieKey -> V]] /\ TwoKeys(s, x, y, a, b)
  BY DEF TwoKeys

\* The first spset of an id
LEMMA SpNewStep ==
    ASSUME Inv, slot' \in [Conn -> Slot],
           NEW s \in Slot, NEW i \in Id, NEW p \in Point, NEW a \in FreeAddrs,
           trie[s][SpKey(i)] = NoValue,
           heap' = [heap EXCEPT ![a] = PointHead(p)],
           NEW g \in Hash, g = Geo[p],
           trie' \in [Slot -> [TrieKey -> Addr \cup {Member, NoValue}]],
           TwoKeys(s, SpKey(i), IdxKey(g, i), a, a)
    PROVE  Inv'
<1> USE DEF Inv
<1>1. a \in Addr /\ heap[a].type = "free"
  BY HeadForms DEF FreeAddrs
<1>2. TypeOK'
  BY <1>1, HeadForms DEF TypeOK
<1>3. /\ \A b \in Addr : heap'[b] = IF b = a THEN PointHead(p) ELSE heap[b]
      /\ trie'[s][SpKey(i)] = a /\ trie'[s][IdxKey(g, i)] = a
      /\ \A x \in TrieKey : x # SpKey(i) /\ x # IdxKey(g, i) => trie'[s][x] = trie[s][x]
      /\ \A t \in Slot : t # s => trie'[t] = trie[t]
      /\ SpKey(i) \in TrieKey /\ IdxKey(g, i) \in TrieKey
  BY <1>1, KeyTypes DEF TypeOK, TwoKeys
<1>4. \A t \in Slot, x \in TrieKey : trie[t][x] # a
  BY SMTT(30), <1>1, KeyForms, HeadTypes, PtrAssumption DEF LiveHeads
<1>5. \A h \in Hash : trie[s][IdxKey(h, i)] = NoValue
  BY PtrAssumption DEF SpIndex
<1>6. LiveHeads'
  BY <1>1, <1>3, <1>4, KeyTypes, HeadTypes, HeadForms, PtrAssumption DEF LiveHeads
<1>7. OneOwner'
  <2>1. Owner(SpKey(i)) = Owner(IdxKey(g, i))
    BY KeyTypes DEF Owner
  <2>2. \A t \in Slot, x \in TrieKey : trie'[t][x] = a =>
          t = s /\ (x = SpKey(i) \/ x = IdxKey(g, i))
    BY <1>3, <1>4
  <2>3. \A t \in Slot, x \in TrieKey : trie'[t][x] # a => trie'[t][x] = trie[t][x]
    BY <1>3
  <2> QED BY <1>4, <2>1, <2>2, <2>3 DEF OneOwner
<1>8. SpIndex'
  <2> SUFFICES ASSUME NEW t \in Slot, NEW j \in Id
      PROVE  /\ \A h \in Hash : trie'[t][IdxKey(h, j)] # NoValue =>
                /\ trie'[t][IdxKey(h, j)] = trie'[t][SpKey(j)]
                /\ heap'[trie'[t][SpKey(j)]].geo = h
             /\ trie'[t][SpKey(j)] # NoValue =>
                /\ trie'[t][IdxKey(heap'[trie'[t][SpKey(j)]].geo, j)] # NoValue
                /\ heap'[trie'[t][SpKey(j)]].geo = Geo[heap'[trie'[t][SpKey(j)]].pt]
    BY DEF SpIndex
  <2>1. CASE t = s /\ j = i
    <3>1. trie'[t][SpKey(j)] = a /\ heap'[a] = PointHead(p)
      BY <2>1, <1>1, <1>3, KeyTypes
    <3>2. \A h \in Hash : trie'[t][IdxKey(h, j)] = IF h = g THEN a ELSE NoValue
      BY <2>1, <1>1, <1>3, <1>5, KeyTypes, PointKeys
    <3> QED BY <3>1, <3>2, <1>1, HeadForms, PtrAssumption
  <2>2. CASE ~(t = s /\ j = i)
    <3>1. /\ trie'[t][SpKey(j)] = trie[t][SpKey(j)]
          /\ \A h \in Hash : trie'[t][IdxKey(h, j)] = trie[t][IdxKey(h, j)]
      BY <2>2, <1>1, <1>3, KeyTypes, PointKeys
    <3>2. trie[t][SpKey(j)] # NoValue =>
            heap'[trie[t][SpKey(j)]] = heap[trie[t][SpKey(j)]]
      BY <1>3, <1>4, KeyTypes, PointHeads
    <3> QED BY <3>1, <3>2, PointHeads DEF SpIndex
  <2> QED BY <2>1, <2>2
<1>9. ListsNotEmpty'
  BY <1>1, <1>3, <1>4, KeyTypes DEF ListsNotEmpty, LiveHeads
<1>10. NoLostHead'
  <2> SUFFICES ASSUME NEW b \in Addr, heap'[b].type \in {"list", "sp"}
               PROVE  \E t \in Slot : \E x \in TrieKey : trie'[t][x] = b
    BY DEF NoLostHead
  <2>1. CASE b = a
    BY <2>1, <1>3, KeyTypes
  <2>2. CASE b # a
    <3>1. PICK t \in Slot, x \in TrieKey : trie[t][x] = b
      BY <2>2, <1>3 DEF NoLostHead
    <3>2. trie'[t][x] = trie[t][x]
      BY <3>1, <1>1, <1>3, <1>5, PtrAssumption
    <3> QED BY <3>1, <3>2
  <2> QED BY <2>1, <2>2
<1>11. HeadContents'
  BY <1>3, <1>1, HeadForms DEF HeadContents
<1> QED BY <1>2, <1>6, <1>7, <1>8, <1>9, <1>10, <1>11

\* The two keys of a point are the only ones that lead to its head
LEMMA PointOwners ==
    ASSUME Inv, NEW s \in Slot, NEW i \in Id, trie[s][SpKey(i)] # NoValue,
           NEW t \in Slot, NEW x \in TrieKey, trie[t][x] = trie[s][SpKey(i)]
    PROVE  /\ t = s
           /\ x = SpKey(i) \/ x = IdxKey(heap[trie[s][SpKey(i)]].geo, i)
<1>1. trie[s][SpKey(i)] \in Addr /\ SpKey(i) \in TrieKey
  BY PointHeads, KeyTypes
<1>2. t = s /\ Owner(x) = Owner(SpKey(i))
  BY <1>1 DEF Inv, OneOwner
<1>3. x[1] \in {"a", "b"} /\ x[3] = i
  BY <1>2, KeyTypes, KeyForms DEF Owner
<1>4. CASE x[1] = "a"
  BY <1>2, <1>3, <1>4, KeyForms
<1>5. CASE x[1] = "b"
  <2>1. x[2] \in Hash /\ x = IdxKey(x[2], i)
    BY <1>3, <1>5, KeyForms
  <2>2. heap[trie[s][SpKey(i)]].geo = x[2]
    BY <2>1, <1>1, <1>2, PtrAssumption DEF Inv, SpIndex
  <2> QED BY <1>2, <2>1, <2>2
<1> QED BY <1>3, <1>4, <1>5

\* An spset that keeps the geohash of its point
LEMMA SpUpdateStep ==
    ASSUME Inv, slot' \in [Conn -> Slot], trie' = trie,
           NEW s \in Slot, NEW i \in Id, NEW p \in Point,
           NEW a, a = trie[s][SpKey(i)], a # NoValue, Geo[p] = heap[a].geo,
           heap' = [heap EXCEPT ![a] = PointHead(p)]
    PROVE  Inv'
<1> USE DEF Inv
<1>1. a \in Addr /\ heap[a].type = "sp" /\ PointHead(p).geo = heap[a].geo
  BY PointHeads, HeadForms
<1>2. TypeOK'
  BY <1>1, HeadForms DEF TypeOK
<1>3. \A b \in Addr : heap'[b] = IF b = a THEN PointHead(p) ELSE heap[b]
  BY <1>1 DEF TypeOK
<1>4. \A b \in Addr : heap'[b].type = heap[b].type /\ heap'[b].geo = heap[b].geo
  BY <1>1, <1>3, HeadForms
<1>5. LiveHeads'
  BY <1>4 DEF LiveHeads
<1>6. OneOwner'
  BY DEF OneOwner
<1>7. SpIndex'
  <2> SUFFICES ASSUME NEW t \in Slot, NEW j \in Id, trie[t][SpKey(j)] # NoValue
      PROVE  /\ heap'[trie[t][SpKey(j)]].geo = heap[trie[t][SpKey(j)]].geo
             /\ heap'[trie[t][SpKey(j)]].geo = Geo[heap'[trie[t][SpKey(j)]].pt]
    BY PtrAssumption DEF SpIndex
  <2>1. trie[t][SpKey(j)] \in Addr
    BY PointHeads
  <2>2. heap[trie[t][SpKey(j)]].geo = Geo[heap[trie[t][SpKey(j)]].pt]
    BY DEF SpIndex
  <2> QED BY <1>3, <1>4, <2>1, <2>2, HeadForms
<1>8. ListsNotEmpty'
  BY <1>1, <1>3, KeyTypes, HeadTypes DEF ListsNotEmpty, LiveHeads
<1>9. NoLostHead'
  BY <1>4 DEF NoLostHead
<1>10. HeadContents'
  BY <1>3, HeadForms DEF HeadContents
<1> QED BY <1>2, <1>5, <1>6, <1>7, <1>8, <1>9, <1>10

\* An spset that moves its point to another geohash
LEMMA SpMoveStep ==
    ASSUME Inv, slot' \in [Conn -> Slot],
           NEW s \in Slot, NEW i \in Id, NEW p \in Point,
           NEW a, a = trie[s][SpKey(i)], a # NoValue,
           NEW g \in Hash, g = Geo[p], NEW o \in Hash, o = heap[a].geo, g # o,
           heap' = [heap EXCEPT ![a] = PointHead(p)],
           trie' \in [Slot -> [TrieKey -> Addr \cup {Member, NoValue}]],
           TwoKeys(s, IdxKey(g, i), IdxKey(o, i), a, NoValue)
    PROVE  Inv'
<1> USE DEF Inv
<1>1. /\ a \in Addr /\ heap[a].type = "sp"
      /\ PointHead(p).geo = g /\ PointHead(p).type = "sp"
  BY PointHeads, HeadForms
<1>2. TypeOK'
  BY <1>1, HeadForms DEF TypeOK
<1>3. /\ \A b \in Addr : heap'[b] = IF b = a THEN PointHead(p) ELSE heap[b]
      /\ trie'[s][IdxKey(g, i)] = a /\ trie'[s][IdxKey(o, i)] = NoValue
      /\ \A x \in TrieKey : x # IdxKey(g, i) /\ x # IdxKey(o, i) => trie'[s][x] = trie[s][x]
      /\ \A t \in Slot : t # s => trie'[t] = trie[t]
      /\ SpKey(i) \in TrieKey /\ IdxKey(g, i) \in TrieKey /\ IdxKey(o, i) \in TrieKey
      /\ SpKey(i) # IdxKey(g, i) /\ SpKey(i) # IdxKey(o, i) /\ IdxKey(g, i) # IdxKey(o, i)
  BY <1>1, KeyTypes, PointKeys DEF TypeOK, TwoKeys
<1>4. \A b \in Addr : heap'[b].type = heap[b].type
  BY <1>1, <1>3
<1>5. \A t \in Slot, x \in TrieKey : trie'[t][x] # NoValue =>
        \/ trie'[t][x] = trie[t][x]
        \/ t = s /\ x = IdxKey(g, i) /\ trie'[t][x] = a
  BY <1>3
<1>6. LiveHeads'
  BY <1>1, <1>4, <1>5, KeyTypes, HeadTypes DEF LiveHeads
<1>7. OneOwner'
  <2>1. Owner(SpKey(i)) = Owner(IdxKey(g, i))
    BY KeyTypes DEF Owner
  <2>2. \A t \in Slot, x \in TrieKey : trie[t][x] = a => t = s /\ Owner(x) = Owner(SpKey(i))
    BY <1>1, <1>3 DEF OneOwner
  <2>3. \A t \in Slot, x \in TrieKey : trie'[t][x] = a =>
          t = s /\ Owner(x) = Owner(SpKey(i))
    BY <1>1, <1>5, <2>1, <2>2, PtrAssumption
  <2>4. \A t \in Slot, x \in TrieKey : trie'[t][x] \in Addr /\ trie'[t][x] # a =>
          trie'[t][x] = trie[t][x]
    BY <1>5, PtrAssumption
  <2> QED BY <2>3, <2>4 DEF OneOwner
<1>8. SpIndex'
  <2> SUFFICES ASSUME NEW t \in Slot, NEW j \in Id
      PROVE  /\ \A h \in Hash : trie'[t][IdxKey(h, j)] # NoValue =>
                /\ trie'[t][IdxKey(h, j)] = trie'[t][SpKey(j)]
                /\ heap'[trie'[t][SpKey(j)]].geo = h
             /\ trie'[t][SpKey(j)] # NoValue =>
                /\ trie'[t][IdxKey(heap'[trie'[t][SpKey(j)]].geo, j)] # NoValue
                /\ heap'[trie'[t][SpKey(j)]].geo = Geo[heap'[trie'[t][SpKey(j)]].pt]
    BY DEF SpIndex
  <2>1. CASE t = s /\ j = i
    <3>1. trie'[t][SpKey(j)] = a /\ heap'[a] = PointHead(p)
      BY <2>1, <1>1, <1>3
    <3>2. \A h \in Hash : h # o => trie[s][IdxKey(h, i)] = NoValue
      BY <1>1 DEF SpIndex
    <3>3. \A h \in Hash : trie'[t][IdxKey(h, j)] = IF h = g THEN a ELSE NoValue
      BY <2>1, <1>1, <1>3, <3>2, KeyTypes, PointKeys
    <3> QED BY <3>1, <3>3, <1>1, HeadForms, PtrAssumption
  <2>2. CASE ~(t = s /\ j = i)
    <3>1. /\ trie'[t][SpKey(j)] = trie[t][SpKey(j)]
          /\ \A h \in Hash : trie'[t][IdxKey(h, j)] = trie[t][IdxKey(h, j)]
      BY <2>2, <1>1, <1>3, KeyTypes, PointKeys
    <3>2. trie[t][SpKey(j)] # a
      <4>1. SUFFICES ASSUME trie[t][SpKey(j)] = a PROVE FALSE
        OBVIOUS
      <4>2. SpKey(j) \in TrieKey /\ SpKey(i) \in TrieKey
        BY KeyTypes
      <4>3. t = s /\ Owner(SpKey(j)) = Owner(SpKey(i))
        BY <4>1, <4>2, <1>1 DEF OneOwner
      <4> QED BY <4>3, <2>2, KeyTypes, PointKeys DEF Owner
    <3>3. trie[t][SpKey(j)] # NoValue =>
            heap'[trie[t][SpKey(j)]] = heap[trie[t][SpKey(j)]]
      BY <1>3, <3>2, PointHeads
    <3> QED BY SMTT(30), <3>1, <3>3, PointHeads DEF SpIndex
  <2> QED BY <2>1, <2>2
<1>9. ListsNotEmpty'
  <2>1. \A t \in Slot, l \in ListName : trie'[t][ListKey(l)] = trie[t][ListKey(l)]
    BY <1>3, KeyTypes
  <2>2. \A t \in Slot, l \in ListName : trie[t][ListKey(l)] # NoValue =>
          trie[t][ListKey(l)] \in Addr /\ heap[trie[t][ListKey(l)]].type = "list"
    BY KeyTypes, HeadTypes DEF LiveHeads
  <2> QED BY <1>1, <1>3, <2>1, <2>2 DEF ListsNotEmpty
<1>10. NoLostHead'
  <2> SUFFICES ASSUME NEW b \in Addr, heap'[b].type \in {"list", "sp"}
               PROVE  \E t \in Slot : \E x \in TrieKey : trie'[t][x] = b
    BY DEF NoLostHead
  <2>1. CASE b = a
    BY <2>1, <1>3
  <2>2. CASE b # a
    <3>1. PICK t \in Slot, x \in TrieKey : trie[t][x] = b
      BY <1>4 DEF NoLostHead
    <3>2. \A h \in Hash : trie[s][IdxKey(h, i)] # NoValue => trie[s][IdxKey(h, i)] = a
      BY DEF SpIndex
    <3>3. trie'[t][x] = trie[t][x]
      BY <3>1, <3>2, <2>2, <1>3, PtrAssumption
    <3> QED BY <3>1, <3>3
  <2> QED BY <2>1, <2>2
<1>11. HeadContents'
  BY <1>3, <1>1, HeadForms DEF HeadContents
<1> QED BY <1>2, <1>6, <1>7, <1>8, <1>9, <1>10, <1>11

\* A point goes, with both its keys
LEMMA SpDelStep ==
    ASSUME Inv, slot' \in [Conn -> Slot], NEW s \in Slot, NEW i \in Id,
           NEW a, a = trie[s][SpKey(i)], a # NoValue, NEW o \in Hash, o = heap[a].geo,
           heap' = [heap EXCEPT ![a] = Free],
           trie' \in [Slot -> [TrieKey -> Addr \cup {Member, NoValue}]],
           TwoKeys(s, SpKey(i), IdxKey(o, i), NoValue, NoValue)
    PROVE  Inv'
<1> USE DEF Inv
<1>1. a \in Addr /\ heap[a].type = "sp" /\ Free.type = "free"
  BY PointHeads, HeadForms
<1>2. TypeOK'
  BY <1>1, HeadForms DEF TypeOK
<1>3. /\ \A b \in Addr : heap'[b] = IF b = a THEN Free ELSE heap[b]
      /\ trie'[s][SpKey(i)] = NoValue /\ trie'[s][IdxKey(o, i)] = NoValue
      /\ \A x \in TrieKey : x # SpKey(i) /\ x # IdxKey(o, i) => trie'[s][x] = trie[s][x]
      /\ \A t \in Slot : t # s => trie'[t] = trie[t]
  BY <1>1 DEF TypeOK, TwoKeys
<1>4. \A t \in Slot, x \in TrieKey : trie[t][x] = a =>
        t = s /\ (x = SpKey(i) \/ x = IdxKey(o, i))
  BY PointOwners
<1>5. \A t \in Slot, x \in TrieKey : trie'[t][x] # NoValue =>
        trie'[t][x] = trie[t][x] /\ trie[t][x] # a
  BY <1>3, <1>4
<1>6. LiveHeads'
  BY <1>3, <1>5 DEF LiveHeads
<1>7. OneOwner'
  BY <1>5, PtrAssumption DEF OneOwner
<1>8. SpIndex'
  <2> SUFFICES ASSUME NEW t \in Slot, NEW j \in Id
      PROVE  /\ \A h \in Hash : trie'[t][IdxKey(h, j)] # NoValue =>
                /\ trie'[t][IdxKey(h, j)] = trie'[t][SpKey(j)]
                /\ heap'[trie'[t][SpKey(j)]].geo = h
             /\ trie'[t][SpKey(j)] # NoValue =>
                /\ trie'[t][IdxKey(heap'[trie'[t][SpKey(j)]].geo, j)] # NoValue
                /\ heap'[trie'[t][SpKey(j)]].geo = Geo[heap'[trie'[t][SpKey(j)]].pt]
    BY DEF SpIndex
  <2>1. CASE t = s /\ j = i
    <3>1. \A h \in Hash : h # o => trie[s][IdxKey(h, i)] = NoValue
      BY <1>1 DEF SpIndex
    <3>2. \A h \in Hash : trie'[s][IdxKey(h, i)] = NoValue
      BY <1>3, <3>1, KeyTypes, PointKeys
    <3> QED BY <2>1, <3>2, <1>3
  <2>2. CASE ~(t = s /\ j = i)
    <3>1. /\ trie'[t][SpKey(j)] = trie[t][SpKey(j)]
          /\ \A h \in Hash : trie'[t][IdxKey(h, j)] = trie[t][IdxKey(h, j)]
      BY <2>2, <1>3, KeyTypes, PointKeys
    <3>2. trie[t][SpKey(j)] # NoValue =>
            heap'[trie[t][SpKey(j)]] = heap[trie[t][SpKey(j)]]
      BY <1>3, <1>5, <3>1, KeyTypes, PointHeads
    <3> QED BY SMTT(30), <3>1, <3>2, PointHeads DEF SpIndex
  <2> QED BY <2>1, <2>2
<1>9. ListsNotEmpty'
  <2>1. \A t \in Slot, l \in ListName : trie'[t][ListKey(l)] = trie[t][ListKey(l)]
    BY SMTT(30), <1>3, KeyTypes
  <2>2. \A t \in Slot, l \in ListName : trie[t][ListKey(l)] # NoValue =>
          trie[t][ListKey(l)] \in Addr /\ heap[trie[t][ListKey(l)]].type = "list"
    BY KeyTypes, HeadTypes DEF LiveHeads
  <2> QED BY <1>1, <1>3, <2>1, <2>2 DEF ListsNotEmpty
<1>10. NoLostHead'
  <2> SUFFICES ASSUME NEW b \in Addr, heap'[b].type \in {"list", "sp"}
               PROVE  \E t \in Slot : \E x \in TrieKey : trie'[t][x] = b
    BY DEF NoLostHead
  <2>1. b # a /\ heap'[b] = heap[b]
    BY <1>1, <1>3
  <2>2. PICK t \in Slot, x \in TrieKey : trie[t][x] = b
    BY <2>1 DEF NoLostHead
  <2>3. \A h \in Hash : trie[s][IdxKey(h, i)] # NoValue => trie[s][IdxKey(h, i)] = a
    BY DEF SpIndex
  <2>4. trie'[t][x] = trie[t][x]
    BY <2>1, <2>2, <2>3, <1>3, PtrAssumption
  <2> QED BY <2>2, <2>4
<1>11. HeadContents'
  BY <1>3, HeadForms DEF HeadContents
<1> QED BY <1>2, <1>6, <1>7, <1>8, <1>9, <1>10, <1>11

-----------------------------------------------------------------------------
(* The commands *)

LEMMA InitInv == Init => Inv
<1> SUFFICES ASSUME Init PROVE Inv
  OBVIOUS
<1> USE DEF Init
<1>1. 0 \in Slot
  BY SlotAssumption DEF Slot
<1>2. TypeOK
  BY <1>1, HeadForms DEF TypeOK
<1>3. \A s \in Slot, k \in TrieKey : trie[s][k] = NoValue
  OBVIOUS
<1>4. \A a \in Addr : heap[a].type = "free"
  BY HeadForms
<1>5. LiveHeads /\ OneOwner /\ ListsNotEmpty
  BY <1>3, KeyTypes, PtrAssumption DEF LiveHeads, OneOwner, ListsNotEmpty
<1>6. SpIndex
  BY <1>3, KeyTypes DEF SpIndex
<1>7. NoLostHead /\ HeadContents
  BY <1>4 DEF NoLostHead, HeadContents
<1> QED BY <1>2, <1>5, <1>6, <1>7 DEF Inv

\* What no command but use, and no reading one, changes
LEMMA SlotStep ==
    ASSUME Inv, slot' \in [Conn -> Slot], UNCHANGED <<trie, heap>>
    PROVE  Inv'
  BY DEF Inv, HeadContents, TypeOK, LiveHeads, OneOwner, SpIndex, ListsNotEmpty, NoLostHead

LEMMA ReadStep ==
    ASSUME Inv, UNCHANGED <<slot, trie, heap>>
    PROVE  Inv'
<1>1. slot' \in [Conn -> Slot]
  BY DEF Inv, TypeOK
<1> QED BY <1>1, SlotStep

LEMMA UseStep ==
    ASSUME Inv, NEW c \in Conn, NEW n \in 0..(MaxSlot + 1), Use(c, n)
    PROVE  Inv'
<1>1. CASE n \notin 1..MaxSlot
  BY <1>1, ReadStep DEF Use, Read
<1>2. CASE n \in 1..MaxSlot
  <2>1. n - 1 \in Slot
    BY <1>2, SlotAssumption DEF Slot
  <2>2. slot' = [slot EXCEPT ![c] = n - 1] /\ UNCHANGED <<trie, heap>>
    BY <1>2 DEF Use
  <2>3. slot' \in [Conn -> Slot]
    BY <2>1, <2>2 DEF Inv, TypeOK
  <2> QED BY <2>2, <2>3, SlotStep
<1> QED BY <1>1, <1>2

LEMMA PutStep ==
    ASSUME Inv, NEW c \in Conn, NEW cmd, NEW k \in TrieKey, k[1] \in {"0", "1"},
           NEW v \in Value, NEW t \in {"kv", "hash"}, t = HeadType[k[1]],
           Put(cmd, c, k, t, v)
    PROVE  Inv'
<1>1. slot[c] \in Slot /\ slot' \in [Conn -> Slot]
  BY DEF Inv, TypeOK, Put
<1>2. PICK a \in FreeAddrs : /\ heap' = [heap EXCEPT ![a] = ValueHead(t, v)]
                             /\ trie' = [trie EXCEPT ![slot[c]][k] = a]
  BY DEF Put, Update
<1>3. /\ ValueHead(t, v) \in Heads /\ ValueHead(t, v).type = HeadType[k[1]]
      /\ ValueHead(t, v).val \in Value
  BY HeadForms
<1> QED BY <1>1, <1>2, <1>3, AllocStep

LEMMA DelStep ==
    ASSUME Inv, NEW c \in Conn, NEW cmd, NEW k \in TrieKey, k[1] \in {"0", "1"},
           Del(cmd, c, k)
    PROVE  Inv'
<1>1. slot[c] \in Slot
  BY DEF Inv, TypeOK
<1>2. CASE Search(c, k) = NoValue
  BY <1>2, ReadStep DEF Del, Read
<1>3. CASE Search(c, k) # NoValue
  <2>1. /\ trie[slot[c]][k] # NoValue /\ slot' = slot
        /\ heap' = [heap EXCEPT ![trie[slot[c]][k]] = Free]
        /\ trie' = [trie EXCEPT ![slot[c]][k] = NoValue]
    BY <1>3 DEF Del, Search, Update
  <2>2. slot' \in [Conn -> Slot]
    BY <2>1 DEF Inv, TypeOK
  <2> QED BY <1>1, <2>1, <2>2, FreeStep
<1> QED BY <1>2, <1>3

LEMMA GetStep ==
    ASSUME Inv, NEW c, NEW cmd, NEW k, Get(cmd, c, k)
    PROVE  Inv'
  BY ReadStep DEF Get, Read

LEMMA HashStep ==
    ASSUME Inv, NEW c \in Conn, NEW n \in Name, NEW k \in Key,
           (\E v \in Value : HashSet(c, n, k, v)) \/ HashGet(c, n, k) \/ HashDel(c, n, k)
    PROVE  Inv'
<1>1. HashKey(n, k) \in TrieKey /\ HashKey(n, k)[1] = "1" /\ HeadType["1"] = "hash"
  BY KeyTypes, HeadTypes
<1>2. ASSUME NEW v \in Value, HashSet(c, n, k, v) PROVE Inv'
  BY <1>1, <1>2, ReadStep, PutStep DEF HashSet, TooLong, Read
<1>3. CASE HashGet(c, n, k)
  BY <1>3, ReadStep, GetStep DEF HashGet, TooLong, Read
<1>4. CASE HashDel(c, n, k)
  BY <1>1, <1>4, ReadStep, DelStep DEF HashDel, TooLong, Read
<1> QED BY <1>2, <1>3, <1>4

LEMMA KvStep ==
    ASSUME Inv, NEW c \in Conn, NEW k \in Key,
           (\E v \in Value : KvSet(c, k, v)) \/ KvGet(c, k) \/ KvDel(c, k)
           \/ KvMatchLongest(c, k)
    PROVE  Inv'
<1>1. KvKey(k) \in TrieKey /\ KvKey(k)[1] = "0" /\ HeadType["0"] = "kv"
  BY KeyTypes, HeadTypes
<1>2. ASSUME NEW v \in Value, KvSet(c, k, v) PROVE Inv'
  BY <1>1, <1>2, PutStep DEF KvSet
<1>3. CASE KvGet(c, k)
  BY <1>3, GetStep DEF KvGet
<1>4. CASE KvDel(c, k)
  BY <1>1, <1>4, DelStep DEF KvDel
<1>5. CASE KvMatchLongest(c, k)
  BY <1>5, ReadStep DEF KvMatchLongest, Read
<1> QED BY <1>2, <1>3, <1>4, <1>5

LEMMA MembersStep ==
    ASSUME Inv, NEW c \in Conn, NEW n \in Name, NEW ks \in Keys,
           SetAdd(c, n, ks) \/ SetDel(c, n, ks)
    PROVE  Inv'
<1>1. CASE TooLong(<<"sadd", n, ks>>, c, n) \/ TooLong(<<"sdel", n, ks>>, c, n)
  BY <1>1, ReadStep DEF TooLong, Read
<1>2. ASSUME NEW K, NEW w \in {Member, NoValue}, slot' = slot, heap' = heap,
             K \subseteq {SetKey(n, k) : k \in Key},
             trie' = [trie EXCEPT ![slot[c]] = [x \in TrieKey |->
                         IF x \in K THEN w ELSE @[x]]]
      PROVE  Inv'
  <2>1. slot[c] \in Slot /\ slot' \in [Conn -> Slot]
    BY <1>2 DEF Inv, TypeOK
  <2>2. trie' \in [Slot -> [TrieKey -> Addr \cup {Member, NoValue}]]
    BY <1>2, <2>1 DEF Inv, TypeOK
  <2>3. \A x \in K : x[1] = "2"
    BY <1>2, KeyTypes
  <2>4. \A t \in Slot, x \in TrieKey :
           trie'[t][x] = trie[t][x]
           \/ (x[1] = "2" /\ trie'[t][x] \in {Member, NoValue})
    <3>1. \A t \in Slot : t # slot[c] => trie'[t] = trie[t]
      BY <1>2, <2>1 DEF Inv, TypeOK
    <3>2. trie'[slot[c]] = [x \in TrieKey |-> IF x \in K THEN w ELSE trie[slot[c]][x]]
      BY <1>2, <2>1 DEF Inv, TypeOK
    <3>3. \A x \in TrieKey : trie'[slot[c]][x] = IF x \in K THEN w ELSE trie[slot[c]][x]
      BY <3>2
    <3> SUFFICES ASSUME NEW t \in Slot, NEW x \in TrieKey
        PROVE  trie'[t][x] = trie[t][x]
               \/ (x[1] = "2" /\ trie'[t][x] \in {Member, NoValue})
      OBVIOUS
    <3>4. CASE t # slot[c]
      BY <3>1, <3>4
    <3>5. CASE t = slot[c] /\ x \in K
      BY <2>3, <3>3, <3>5
    <3>6. CASE t = slot[c] /\ x \notin K
      BY <3>3, <3>6
    <3> QED BY <3>4, <3>5, <3>6
  <2> QED BY <1>2, <2>1, <2>2, <2>4, SetStep
<1>3. \A j \in DOMAIN ks : ks[j] \in Key
  BY KeyAssumption
<1>4. CASE SetAdd(c, n, ks) /\ ~TooLong(<<"sadd", n, ks>>, c, n)
  <2> DEFINE K == {SetKey(n, ks[j]) : j \in DOMAIN ks}
  <2>1. K \subseteq {SetKey(n, k) : k \in Key}
    BY <1>3
  <2>2. /\ slot' = slot /\ heap' = heap
        /\ trie' = [trie EXCEPT ![slot[c]] = [x \in TrieKey |->
                       IF x \in K THEN Member ELSE @[x]]]
    BY <1>4 DEF SetAdd
  <2> QED BY <2>1, <2>2, <1>2
<1>5. CASE SetDel(c, n, ks) /\ ~TooLong(<<"sdel", n, ks>>, c, n)
  <2> DEFINE K == {SetKey(n, ks[j]) : j \in {j \in DOMAIN ks : Erases(c, n, ks, j)}}
  <2>1. K \subseteq {SetKey(n, k) : k \in Key}
    BY <1>3
  <2>2. /\ slot' = slot /\ heap' = heap
        /\ trie' = [trie EXCEPT ![slot[c]] = [x \in TrieKey |->
                       IF x \in K THEN NoValue ELSE @[x]]]
    BY <1>5 DEF SetDel
  <2> QED BY <2>1, <2>2, <1>2
<1> QED BY <1>1, <1>4, <1>5 DEF SetAdd, SetDel

\* The list a name leads to
LEMMA ListHeads ==
    ASSUME Inv, NEW c \in Conn, NEW l \in ListName, Search(c, ListKey(l)) # NoValue
    PROVE  /\ heap[Search(c, ListKey(l))].list \in Seq(Value)
           /\ heap[Search(c, ListKey(l))].list # << >>
<1>1. slot[c] \in Slot
  BY DEF Inv, TypeOK
<1>2. Search(c, ListKey(l)) \in Addr
  BY <1>1, KeyTypes DEF Search, Inv, LiveHeads
<1>3. heap[Search(c, ListKey(l))] \in Heads
  BY <1>2 DEF Inv, TypeOK
<1> QED BY <1>1, <1>3 DEF Search, Inv, ListsNotEmpty, Heads

LEMMA PushStep ==
    ASSUME Inv, NEW c \in Conn, NEW l \in ListName, NEW v \in Value,
           ListLpush(c, l, v) \/ ListRpush(c, l, v)
    PROVE  Inv'
<1>1. slot[c] \in Slot /\ ListKey(l) \in TrieKey /\ ListKey(l)[1] = "3"
  BY KeyTypes DEF Inv, TypeOK
<1>2. ASSUME NEW cmd, NewList(cmd, c, l, v), Search(c, ListKey(l)) = NoValue PROVE Inv'
  <2>1. PICK a \in FreeAddrs : /\ heap' = [heap EXCEPT ![a] = ListHead(<<v>>)]
                               /\ trie' = [trie EXCEPT ![slot[c]][ListKey(l)] = a]
    BY <1>2 DEF NewList, Update
  <2>2. slot' \in [Conn -> Slot]
    BY <1>2 DEF NewList, Inv, TypeOK
  <2>3. <<v>> \in Seq(Value) /\ <<v>> # << >>
    OBVIOUS
  <2>4. /\ ListHead(<<v>>) \in Heads /\ ListHead(<<v>>).type = HeadType[ListKey(l)[1]]
        /\ ListHead(<<v>>).list # << >>
    BY <1>1, <2>3, HeadForms, HeadTypes
  <2>5. trie[slot[c]][ListKey(l)] = NoValue
    BY <1>2 DEF Search
  <2> QED BY <1>1, <2>1, <2>2, <2>4, <2>5, AllocStep
<1>3. ASSUME NEW cmd, NEW q \in Seq(Value), q # << >>, Push(cmd, c, l, q),
             Search(c, ListKey(l)) # NoValue
      PROVE  Inv'
  <2>1. /\ slot' \in [Conn -> Slot] /\ trie' = trie
        /\ heap' = [heap EXCEPT ![trie[slot[c]][ListKey(l)]] = ListHead(q)]
        /\ trie[slot[c]][ListKey(l)] # NoValue
    BY <1>3 DEF Push, Search, Inv, TypeOK
  <2> QED BY <1>1, <1>3, <2>1, ListStep
<1>4. CASE Search(c, ListKey(l)) = NoValue
  BY <1>2, <1>4 DEF ListLpush, ListRpush
<1>5. CASE Search(c, ListKey(l)) # NoValue
  <2>1. PICK s \in Seq(Value) : s = heap[Search(c, ListKey(l))].list
    BY <1>5, ListHeads
  <2>2. /\ <<v>> \o s \in Seq(Value) /\ <<v>> \o s # << >>
        /\ Append(s, v) \in Seq(Value) /\ Append(s, v) # << >>
    <3>1. <<v>> \in Seq(Value) /\ Len(<<v>>) = 1 /\ Len(s) \in Nat
      OBVIOUS
    <3>2. <<v>> \o s \in Seq(Value) /\ Len(<<v>> \o s) = Len(<<v>>) + Len(s)
      BY <3>1, ConcatProperties
    <3>3. Append(s, v) \in Seq(Value) /\ Append(s, v) # << >>
      BY AppendProperties
    <3>4. <<v>> \o s # << >>
      BY <3>1, <3>2, EmptySeq
    <3> QED BY <3>2, <3>3, <3>4
  <2>3. Push(<<"lpush", l, v>>, c, l, <<v>> \o s) \/ Push(<<"rpush", l, v>>, c, l, Append(s, v))
    BY <1>5, <2>1 DEF ListLpush, ListRpush
  <2> QED BY <1>3, <1>5, <2>2, <2>3
<1> QED BY <1>4, <1>5

LEMMA PopStep ==
    ASSUME Inv, NEW c \in Conn, NEW l \in ListName,
           ListLpop(c, l) \/ ListRpop(c, l)
    PROVE  Inv'
<1>1. slot[c] \in Slot /\ ListKey(l) \in TrieKey /\ ListKey(l)[1] = "3"
  BY KeyTypes DEF Inv, TypeOK
<1>2. ASSUME NEW cmd, NEW q \in Seq(Value), Pop(cmd, c, l, q),
             Search(c, ListKey(l)) # NoValue
      PROVE  Inv'
  <2>1. slot' \in [Conn -> Slot] /\ trie[slot[c]][ListKey(l)] # NoValue
    BY <1>2 DEF Pop, Search, Inv, TypeOK
  <2>2. CASE q # << >>
    <3>1. /\ trie' = trie
          /\ heap' = [heap EXCEPT ![trie[slot[c]][ListKey(l)]] = ListHead(q)]
      BY <1>2, <2>2 DEF Pop, Search
    <3> QED BY <1>1, <2>1, <2>2, <3>1, ListStep
  <2>3. CASE q = << >>
    <3>1. /\ trie' = [trie EXCEPT ![slot[c]][ListKey(l)] = NoValue]
          /\ heap' = [heap EXCEPT ![trie[slot[c]][ListKey(l)]] = Free]
      BY <1>2, <2>3 DEF Pop, Search, Update
    <3> QED BY <1>1, <2>1, <3>1, FreeStep
  <2> QED BY <2>2, <2>3
<1>3. CASE NoList(c, l)
  BY <1>3, ReadStep DEF ListLpop, ListRpop, Read
<1>4. CASE ~NoList(c, l)
  <2>1. Search(c, ListKey(l)) # NoValue
    BY <1>4 DEF NoList
  <2>2. PICK s \in Seq(Value) : s = heap[Search(c, ListKey(l))].list /\ s # << >>
    BY <2>1, ListHeads
  <2>3. Tail(s) \in Seq(Value) /\ SubSeq(s, 1, Len(s) - 1) \in Seq(Value)
    BY <2>2
  <2>4. Pop(<<"lpop", l>>, c, l, Tail(s)) \/ Pop(<<"rpop", l>>, c, l, SubSeq(s, 1, Len(s) - 1))
    BY <1>4, <2>2 DEF ListLpop, ListRpop
  <2> QED BY <1>2, <2>1, <2>3, <2>4
<1> QED BY <1>3, <1>4

LEMMA TopStep ==
    ASSUME Inv, NEW c \in Conn, NEW l \in ListName,
           ListLtop(c, l) \/ ListRtop(c, l)
    PROVE  Inv'
  BY ReadStep DEF ListLtop, ListRtop, Read

LEMMA SpSetStep ==
    ASSUME Inv, NEW c \in Conn, NEW i \in Id, NEW p \in Point \cup {BadPoint},
           SpSet(c, i, p)
    PROVE  Inv'
<1>1. slot[c] \in Slot /\ SpKey(i) \in TrieKey
  BY KeyTypes DEF Inv, TypeOK
<1>2. CASE p = BadPoint
  BY <1>2, ReadStep DEF SpSet, Read
<1>3. CASE p # BadPoint
  <2>1. p \in Point /\ Geo[p] \in Hash /\ IdxKey(Geo[p], i) \in TrieKey
    BY <1>3, HeadForms, KeyTypes
  <2>2. trie \in [Slot -> [TrieKey -> Addr \cup {Member, NoValue}]]
    BY DEF Inv, TypeOK
  <2>3. CASE Search(c, SpKey(i)) = NoValue
    <3>1. SpNew(c, i, p)
      BY <1>3, <2>3 DEF SpSet
    <3>2. PICK a \in FreeAddrs :
            /\ heap' = [heap EXCEPT ![a] = PointHead(p)]
            /\ trie' = [trie EXCEPT ![slot[c]] =
                          [@ EXCEPT ![SpKey(i)] = a, ![IdxKey(Geo[p], i)] = a]]
      BY <3>1 DEF SpNew
    <3>3. a \in Addr \cup {Member, NoValue} /\ SpKey(i) # IdxKey(Geo[p], i)
      BY <2>1, PointKeys DEF FreeAddrs
    <3>4. /\ trie' \in [Slot -> [TrieKey -> Addr \cup {Member, NoValue}]]
          /\ TwoKeys(slot[c], SpKey(i), IdxKey(Geo[p], i), a, a)
      BY <1>1, <2>1, <2>2, <3>2, <3>3, TwoKeysStep
    <3>5. slot' \in [Conn -> Slot] /\ trie[slot[c]][SpKey(i)] = NoValue
      BY <3>1, <2>3 DEF SpNew, Search, Inv, TypeOK
    <3> QED BY <1>1, <2>1, <3>2, <3>4, <3>5, SpNewStep
  <2>4. CASE Search(c, SpKey(i)) # NoValue
    <3>1. SpMove(c, i, p)
      BY <1>3, <2>4 DEF SpSet
    <3>2. PICK a : a = trie[slot[c]][SpKey(i)]
      OBVIOUS
    <3>3. a # NoValue /\ a \in Addr /\ heap[a].geo \in Hash
      BY <2>4, <3>2, <1>1, PointHeads DEF Search
    <3>4. slot' \in [Conn -> Slot] /\ heap' = [heap EXCEPT ![a] = PointHead(p)]
      BY <3>1, <3>2 DEF SpMove, Search, Inv, TypeOK
    <3>5. CASE Geo[p] = heap[a].geo
      <4>1. trie' = trie
        BY <3>1, <3>2, <3>5 DEF SpMove, Search
      <4> QED BY <4>1, <1>1, <2>1, <3>2, <3>3, <3>4, <3>5, SpUpdateStep
    <3>6. CASE Geo[p] # heap[a].geo
      <4>1. trie' = [trie EXCEPT ![slot[c]] =
              [@ EXCEPT ![IdxKey(Geo[p], i)] = a, ![IdxKey(heap[a].geo, i)] = NoValue]]
        BY <3>1, <3>2, <3>6 DEF SpMove, Search, Reindex
      <4>2. /\ IdxKey(Geo[p], i) # IdxKey(heap[a].geo, i)
            /\ IdxKey(heap[a].geo, i) \in TrieKey
        BY <2>1, <3>3, <3>6, PointKeys, KeyTypes
      <4>3. /\ trie' \in [Slot -> [TrieKey -> Addr \cup {Member, NoValue}]]
            /\ TwoKeys(slot[c], IdxKey(Geo[p], i), IdxKey(heap[a].geo, i), a, NoValue)
        <5>1. a \in Addr \cup {Member, NoValue} /\ NoValue \in Addr \cup {Member, NoValue}
          BY <3>3
        <5> QED BY <1>1, <2>1, <2>2, <4>1, <4>2, <5>1, TwoKeysStep
      <4> QED BY <1>1, <2>1, <3>2, <3>3, <3>4, <3>6, <4>3, SpMoveStep
    <3> QED BY <3>5, <3>6
  <2> QED BY <2>3, <2>4
<1> QED BY <1>2, <1>3

LEMMA SpEraseStep ==
    ASSUME Inv, NEW c \in Conn, NEW i \in Id, SpDel(c, i)
    PROVE  Inv'
<1>1. slot[c] \in Slot /\ SpKey(i) \in TrieKey
  BY KeyTypes DEF Inv, TypeOK
<1>2. CASE Search(c, SpKey(i)) = NoValue
  BY <1>2, ReadStep DEF SpDel, Read
<1>3. CASE Search(c, SpKey(i)) # NoValue
  <2>1. PICK a : a = trie[slot[c]][SpKey(i)]
    OBVIOUS
  <2>2. a # NoValue /\ a \in Addr /\ heap[a].geo \in Hash
    BY <1>3, <2>1, <1>1, PointHeads DEF Search
  <2>3. /\ slot' \in [Conn -> Slot] /\ heap' = [heap EXCEPT ![a] = Free]
        /\ trie' = [trie EXCEPT ![slot[c]] =
              [@ EXCEPT ![SpKey(i)] = NoValue, ![IdxKey(heap[a].geo, i)] = NoValue]]
    BY <1>3, <2>1 DEF SpDel, Search, Inv, TypeOK
  <2>4. SpKey(i) # IdxKey(heap[a].geo, i) /\ IdxKey(heap[a].geo, i) \in TrieKey
    BY <2>2, PointKeys, KeyTypes
  <2>5. trie \in [Slot -> [TrieKey -> Addr \cup {Member, NoValue}]]
    BY DEF Inv, TypeOK
  <2>6. /\ trie' \in [Slot -> [TrieKey -> Addr \cup {Member, NoValue}]]
        /\ TwoKeys(slot[c], SpKey(i), IdxKey(heap[a].geo, i), NoValue, NoValue)
    <3>1. NoValue \in Addr \cup {Member, NoValue}
      OBVIOUS
    <3> QED BY <1>1, <2>3, <2>4, <2>5, <3>1, TwoKeysStep
  <2> QED BY <1>1, <2>1, <2>2, <2>3, <2>6, SpDelStep
<1> QED BY <1>2, <1>3

-----------------------------------------------------------------------------
(* The invariant, and what follows from it *)

\* Every command keeps the invariant.
LEMMA StepInv == Inv /\ [Next]_vars => Inv'
<1> SUFFICES ASSUME Inv, [Next]_vars PROVE Inv'
  OBVIOUS
<1>1. CASE UNCHANGED vars
  BY <1>1, ReadStep DEF vars
<1>2. CASE Next
  <2>1. PICK c \in Conn :
    \/ \E n \in 0..(MaxSlot + 1) : Use(c, n)
    \/ Where(c)
    \/ \E k \in Key, v \in Value : KvSet(c, k, v)
    \/ \E k \in Key : KvGet(c, k) \/ KvDel(c, k) \/ KvMatchLongest(c, k)
    \/ \E n \in Name, k \in Key, v \in Value : HashSet(c, n, k, v)
    \/ \E n \in Name, k \in Key : HashGet(c, n, k) \/ HashDel(c, n, k)
    \/ \E n \in Name, ks \in Keys : SetAdd(c, n, ks) \/ SetDel(c, n, ks)
    \/ \E n \in Name, k \in Key : SetIsMember(c, n, k)
    \/ \E n \in Name : SetMembers(c, n)
    \/ \E l \in ListName, v \in Value : ListLpush(c, l, v) \/ ListRpush(c, l, v)
    \/ \E l \in ListName : ListLpop(c, l) \/ ListRpop(c, l)
                           \/ ListLtop(c, l) \/ ListRtop(c, l)
    \/ \E i \in Id, p \in Point \cup {BadPoint} : SpSet(c, i, p)
    \/ \E i \in Id : SpGet(c, i) \/ SpDel(c, i)
    \/ \E r \in Rect \cup {BadRect} : SpRect(c, r)
    BY <1>2
    DEF Next, SysCommands, KvCommands, HashCommands, SetCommands, ListCommands, SpCommands
  <2>2. ASSUME NEW n \in 0..(MaxSlot + 1), Use(c, n) PROVE Inv'
    BY <2>2, UseStep
  <2>3. CASE Where(c)
    BY <2>3, ReadStep DEF Where, Read
  <2>4. ASSUME NEW k \in Key, NEW v \in Value, KvSet(c, k, v) PROVE Inv'
    BY <2>4, KvStep
  <2>5. ASSUME NEW k \in Key, KvGet(c, k) \/ KvDel(c, k) \/ KvMatchLongest(c, k)
        PROVE  Inv'
    BY <2>5, KvStep
  <2>6. ASSUME NEW n \in Name, NEW k \in Key, NEW v \in Value, HashSet(c, n, k, v)
        PROVE  Inv'
    BY <2>6, HashStep
  <2>7. ASSUME NEW n \in Name, NEW k \in Key, HashGet(c, n, k) \/ HashDel(c, n, k)
        PROVE  Inv'
    BY <2>7, HashStep
  <2>8. ASSUME NEW n \in Name, NEW ks \in Keys, SetAdd(c, n, ks) \/ SetDel(c, n, ks)
        PROVE  Inv'
    BY <2>8, MembersStep
  <2>9. ASSUME NEW n \in Name, SetMembers(c, n) \/ \E k \in Key : SetIsMember(c, n, k)
        PROVE  Inv'
    BY <2>9, ReadStep DEF SetMembers, SetIsMember, Read
  <2>10. ASSUME NEW l \in ListName, NEW v \in Value,
                ListLpush(c, l, v) \/ ListRpush(c, l, v)
         PROVE  Inv'
    BY <2>10, PushStep
  <2>11. ASSUME NEW l \in ListName, ListLpop(c, l) \/ ListRpop(c, l)
                                    \/ ListLtop(c, l) \/ ListRtop(c, l)
         PROVE  Inv'
    BY <2>11, PopStep, TopStep
  <2>12. ASSUME NEW i \in Id, NEW p \in Point \cup {BadPoint}, SpSet(c, i, p)
         PROVE  Inv'
    BY <2>12, SpSetStep
  <2>13. ASSUME NEW i \in Id, SpGet(c, i) \/ SpDel(c, i) PROVE Inv'
    <3>1. CASE SpGet(c, i)
      BY <3>1, ReadStep DEF SpGet, Read
    <3>2. CASE SpDel(c, i)
      BY <3>2, SpEraseStep
    <3> QED BY <2>13, <3>1, <3>2
  <2>14. ASSUME NEW r \in Rect \cup {BadRect}, SpRect(c, r) PROVE Inv'
    BY <2>14, ReadStep DEF SpRect, Read
  <2> QED BY <2>1, <2>2, <2>3, <2>4, <2>5, <2>6, <2>7, <2>8, <2>9, <2>10, <2>11,
             <2>12, <2>13, <2>14
<1> QED BY <1>1, <1>2

\* The tries and the heap are consistent after every command.
THEOREM Invariance == Spec => []Inv
  BY InitInv, StepInv, PTL DEF Spec

\* Every variable keeps its type.
THEOREM TypeCorrect == Spec => []TypeOK
<1>1. Inv => TypeOK
  BY DEF Inv
<1> QED BY <1>1, Invariance, PTL

\* Every head a command dereferences is live and of the type it expects.
THEOREM LiveHeadsHold == Spec => []LiveHeads
<1>1. Inv => LiveHeads
  BY DEF Inv
<1> QED BY <1>1, Invariance, PTL

\* A head has one owner: freeing it takes nothing from another key or slot.
THEOREM OneOwnerHolds == Spec => []OneOwner
<1>1. Inv => OneOwner
  BY DEF Inv
<1> QED BY <1>1, Invariance, PTL

\* A point and its index key agree, after any sequence of spset and spdel.
THEOREM SpIndexHolds == Spec => []SpIndex
<1>1. Inv => SpIndex
  BY DEF Inv
<1> QED BY <1>1, Invariance, PTL

\* A pop leaves no empty list behind and no head of a list or a point is lost.
THEOREM HeadsKeptHold == Spec => []HeadsKept
<1>1. Inv => HeadsKept
  BY DEF Inv, HeadsKept
<1> QED BY <1>1, Invariance, PTL

-----------------------------------------------------------------------------
(* The keyspace *)

\* The length of a name, as far as it is in a key, tells names apart
DistinctNames ==
    \A m, n \in Name : Byte(NameLen[m]) = Byte(NameLen[n]) => m = n

\* The points in a rectangle have geohashes with the prefix that is searched for
CoversReach == \A r \in Rect : \A p \in Inside[r] : Geo[p] \in Cover[r]

-----------------------------------------------------------------------------
(* What a step does to the five kinds of data *)

\* The key k of slot s leads to the head h, all others to what they did
Rewrites(s, k, h) ==
    \A t \in Slot, x \in TrieKey : x[1] \in {"0", "1", "3", "a"} =>
        HeadAt(t, x)' = IF t = s /\ x = k THEN h ELSE HeadAt(t, x)

\* The sets have the members they had
KeepsSets ==
    \A t \in Slot, x \in TrieKey : x[1] = "2" =>
        (trie'[t][x] # NoValue <=> trie[t][x] # NoValue)

\* Two encoded keys are equal only if what they encode is
LEMMA KeysDiffer ==
    /\ \A j, k \in Key : KvKey(j) = KvKey(k) => j = k
    /\ \A j, k \in ListName : ListKey(j) = ListKey(k) => j = k
    /\ \A j, k \in Id : SpKey(j) = SpKey(k) => j = k
    /\ DistinctNames => \A m, n \in Name : \A j, k \in Key :
          /\ HashKey(m, j) = HashKey(n, k) => m = n /\ j = k
          /\ SetKey(m, j) = SetKey(n, k) => m = n /\ j = k
  BY DEF KvKey, ListKey, SpKey, HashKey, SetKey, DistinctNames

\* The four kinds of data whose keys lead to a head stay as they are
LEMMA KvsKept ==
    ASSUME \A t \in Slot, k \in Key : HeadAt(t, KvKey(k))' = HeadAt(t, KvKey(k))
    PROVE  Kvs' = Kvs
  BY DEF Kvs

LEMMA HashesKept ==
    ASSUME \A t \in Slot, n \in Name, k \in Key : HeadAt(t, HashKey(n, k))' = HeadAt(t, HashKey(n, k))
    PROVE  Hashes' = Hashes
  BY DEF Hashes

LEMMA ListsKept ==
    ASSUME \A t \in Slot, l \in ListName : HeadAt(t, ListKey(l))' = HeadAt(t, ListKey(l))
    PROVE  Lists' = Lists
  BY DEF Lists

LEMMA PointsKept ==
    ASSUME \A t \in Slot, i \in Id : HeadAt(t, SpKey(i))' = HeadAt(t, SpKey(i))
    PROVE  Points' = Points
  BY DEF Points

LEMMA SetsKept ==
    ASSUME KeepsSets
    PROVE  Sets' = Sets
<1>1. \A t \in Slot, n \in Name, k \in Key :
         trie'[t][SetKey(n, k)] # NoValue <=> trie[t][SetKey(n, k)] # NoValue
  BY KeyTypes DEF KeepsSets
<1> QED BY <1>1 DEF Sets

\* The key of a value is rewritten
LEMMA KvRewritten ==
    ASSUME NEW s \in Slot, NEW k \in Key, NEW h, Rewrites(s, KvKey(k), h), KeepsSets
    PROVE  /\ Kvs' = [Kvs EXCEPT ![s][k] = h.val]
           /\ UNCHANGED <<Hashes, Sets, Lists, Points>>
<1>1. \A t \in Slot, j \in Key :
         HeadAt(t, KvKey(j))' = IF t = s /\ j = k THEN h ELSE HeadAt(t, KvKey(j))
  BY KeyTypes, KeysDiffer DEF Rewrites
<1>2. Kvs' = [Kvs EXCEPT ![s][k] = h.val]
  BY <1>1 DEF Kvs
<1>3. Hashes' = Hashes
  <2>1. \A t \in Slot, n \in Name, j \in Key :
           HeadAt(t, HashKey(n, j))' = HeadAt(t, HashKey(n, j))
    BY KeyTypes DEF Rewrites
  <2> QED BY <2>1, HashesKept
<1>4. Lists' = Lists
  <2>1. \A t \in Slot, l \in ListName : HeadAt(t, ListKey(l))' = HeadAt(t, ListKey(l))
    BY KeyTypes DEF Rewrites
  <2> QED BY <2>1, ListsKept
<1>5. Points' = Points
  <2>1. \A t \in Slot, i \in Id : HeadAt(t, SpKey(i))' = HeadAt(t, SpKey(i))
    BY KeyTypes DEF Rewrites
  <2> QED BY <2>1, PointsKept
<1> QED BY <1>2, <1>3, <1>4, <1>5, SetsKept

\* The key of a field of a hash is rewritten
LEMMA HashRewritten ==
    ASSUME DistinctNames, NEW s \in Slot, NEW n \in Name, NEW k \in Key, NEW h,
           Rewrites(s, HashKey(n, k), h), KeepsSets
    PROVE  /\ Hashes' = [Hashes EXCEPT ![s][n][k] = h.val]
           /\ UNCHANGED <<Kvs, Sets, Lists, Points>>
<1>1. \A t \in Slot, m \in Name, j \in Key :
         HeadAt(t, HashKey(m, j))' =
            IF t = s /\ m = n /\ j = k THEN h ELSE HeadAt(t, HashKey(m, j))
  BY KeyTypes, KeysDiffer DEF Rewrites
<1>2. Hashes' = [Hashes EXCEPT ![s][n][k] = h.val]
  <2> DEFINE field(t, m, j) == HeadAt(t, HashKey(m, j)).val
             changed(t, m, j) == IF t = s /\ m = n /\ j = k THEN h.val ELSE field(t, m, j)
  <2>1. Hashes = [t \in Slot |-> [m \in Name |-> [j \in Key |-> field(t, m, j)]]]
    BY DEF Hashes
  <2>2. Hashes' = [t \in Slot |-> [m \in Name |-> [j \in Key |-> changed(t, m, j)]]]
    BY <1>1 DEF Hashes
  <2> HIDE DEF field
  <2> QED BY <2>1, <2>2
<1>3. Kvs' = Kvs
  <2>1. \A t \in Slot, j \in Key : HeadAt(t, KvKey(j))' = HeadAt(t, KvKey(j))
    BY KeyTypes DEF Rewrites
  <2> QED BY <2>1, KvsKept
<1>4. Lists' = Lists
  <2>1. \A t \in Slot, l \in ListName : HeadAt(t, ListKey(l))' = HeadAt(t, ListKey(l))
    BY KeyTypes DEF Rewrites
  <2> QED BY <2>1, ListsKept
<1>5. Points' = Points
  <2>1. \A t \in Slot, i \in Id : HeadAt(t, SpKey(i))' = HeadAt(t, SpKey(i))
    BY KeyTypes DEF Rewrites
  <2> QED BY <2>1, PointsKept
<1> QED BY <1>2, <1>3, <1>4, <1>5, SetsKept

\* The key of a list is rewritten
LEMMA ListRewritten ==
    ASSUME NEW s \in Slot, NEW l \in ListName, NEW h, Rewrites(s, ListKey(l), h), KeepsSets
    PROVE  /\ Lists' = [Lists EXCEPT ![s][l] = h.list]
           /\ UNCHANGED <<Kvs, Hashes, Sets, Points>>
<1>1. \A t \in Slot, j \in ListName :
         HeadAt(t, ListKey(j))' = IF t = s /\ j = l THEN h ELSE HeadAt(t, ListKey(j))
  BY KeyTypes, KeysDiffer DEF Rewrites
<1>2. Lists' = [Lists EXCEPT ![s][l] = h.list]
  BY <1>1 DEF Lists
<1>3. Kvs' = Kvs
  <2>1. \A t \in Slot, j \in Key : HeadAt(t, KvKey(j))' = HeadAt(t, KvKey(j))
    BY KeyTypes DEF Rewrites
  <2> QED BY <2>1, KvsKept
<1>4. Hashes' = Hashes
  <2>1. \A t \in Slot, n \in Name, j \in Key :
           HeadAt(t, HashKey(n, j))' = HeadAt(t, HashKey(n, j))
    BY KeyTypes DEF Rewrites
  <2> QED BY <2>1, HashesKept
<1>5. Points' = Points
  <2>1. \A t \in Slot, i \in Id : HeadAt(t, SpKey(i))' = HeadAt(t, SpKey(i))
    BY KeyTypes DEF Rewrites
  <2> QED BY <2>1, PointsKept
<1> QED BY <1>2, <1>3, <1>4, <1>5, SetsKept

\* The id key of a point is rewritten
LEMMA PointRewritten ==
    ASSUME NEW s \in Slot, NEW i \in Id, NEW h, Rewrites(s, SpKey(i), h), KeepsSets
    PROVE  /\ Points' = [Points EXCEPT ![s][i] = h.pt]
           /\ UNCHANGED <<Kvs, Hashes, Sets, Lists>>
<1>1. \A t \in Slot, j \in Id :
         HeadAt(t, SpKey(j))' = IF t = s /\ j = i THEN h ELSE HeadAt(t, SpKey(j))
  BY KeyTypes, KeysDiffer DEF Rewrites
<1>2. Points' = [Points EXCEPT ![s][i] = h.pt]
  BY <1>1 DEF Points
<1>3. Kvs' = Kvs
  <2>1. \A t \in Slot, j \in Key : HeadAt(t, KvKey(j))' = HeadAt(t, KvKey(j))
    BY KeyTypes DEF Rewrites
  <2> QED BY <2>1, KvsKept
<1>4. Hashes' = Hashes
  <2>1. \A t \in Slot, n \in Name, j \in Key :
           HeadAt(t, HashKey(n, j))' = HeadAt(t, HashKey(n, j))
    BY KeyTypes DEF Rewrites
  <2> QED BY <2>1, HashesKept
<1>5. Lists' = Lists
  <2>1. \A t \in Slot, l \in ListName : HeadAt(t, ListKey(l))' = HeadAt(t, ListKey(l))
    BY KeyTypes DEF Rewrites
  <2> QED BY <2>1, ListsKept
<1> QED BY <1>2, <1>3, <1>4, <1>5, SetsKept

\* No trie changes and no head: nothing does
LEMMA AllKept ==
    ASSUME UNCHANGED <<trie, heap>>
    PROVE  UNCHANGED <<Kvs, Hashes, Sets, Lists, Points>>
<1>1. \A t \in Slot, x \in TrieKey : HeadAt(t, x)' = HeadAt(t, x)
  BY DEF HeadAt
<1>2. Kvs' = Kvs
  BY <1>1, KeyTypes, KvsKept
<1>3. Hashes' = Hashes
  BY <1>1, KeyTypes, HashesKept
<1>4. Lists' = Lists
  BY <1>1, KeyTypes, ListsKept
<1>5. Points' = Points
  BY <1>1, KeyTypes, PointsKept
<1>6. Sets' = Sets
  BY SetsKept DEF KeepsSets
<1> QED BY <1>2, <1>3, <1>4, <1>5, <1>6

-----------------------------------------------------------------------------
(* The ways a command changes tries and heap, as rewritten keys *)

\* A key leads to a new head
LEMMA AllocRewrites ==
    ASSUME Inv, NEW s \in Slot, NEW k \in TrieKey, k[1] \in {"0", "1", "3"},
           NEW a \in FreeAddrs, NEW h,
           heap' = [heap EXCEPT ![a] = h],
           trie' = [trie EXCEPT ![s][k] = a]
    PROVE  Rewrites(s, k, h) /\ KeepsSets
<1>1. a \in Addr /\ heap[a].type = "free"
  BY HeadForms DEF FreeAddrs
<1>2. /\ \A b \in Addr : heap'[b] = IF b = a THEN h ELSE heap[b]
      /\ \A t \in Slot, x \in TrieKey :
            trie'[t][x] = IF t = s /\ x = k THEN a ELSE trie[t][x]
  BY <1>1 DEF Inv, TypeOK
<1>3. \A t \in Slot, x \in TrieKey : trie[t][x] # a
  BY <1>1, KeyForms, HeadTypes, PtrAssumption DEF Inv, LiveHeads
<1>4. KeepsSets
  BY <1>2 DEF KeepsSets
<1>5. Rewrites(s, k, h)
  BY <1>1, <1>2, <1>3 DEF Rewrites, HeadAt
<1> QED BY <1>4, <1>5

\* A key goes and its head is freed
LEMMA FreeRewrites ==
    ASSUME Inv, NEW s \in Slot, NEW k \in TrieKey, k[1] \in {"0", "1", "3"},
           trie[s][k] # NoValue,
           heap' = [heap EXCEPT ![trie[s][k]] = Free],
           trie' = [trie EXCEPT ![s][k] = NoValue]
    PROVE  Rewrites(s, k, Free) /\ KeepsSets
<1>1. trie[s][k] \in Addr
  BY DEF Inv, LiveHeads
<1>2. /\ \A b \in Addr : heap'[b] = IF b = trie[s][k] THEN Free ELSE heap[b]
      /\ \A t \in Slot, x \in TrieKey :
            trie'[t][x] = IF t = s /\ x = k THEN NoValue ELSE trie[t][x]
  BY <1>1 DEF Inv, TypeOK
<1>3. \A t \in Slot, x \in TrieKey : trie[t][x] = trie[s][k] => t = s /\ x = k
  BY <1>1, KeyForms, KeyTypes DEF Inv, OneOwner, Owner
<1>4. KeepsSets
  BY <1>2 DEF KeepsSets
<1>5. Rewrites(s, k, Free)
  BY <1>1, <1>2, <1>3, PtrAssumption DEF Rewrites, HeadAt
<1> QED BY <1>4, <1>5

\* A list has other elements
LEMMA ListRewrites ==
    ASSUME Inv, trie' = trie, NEW s \in Slot, NEW l \in ListName, NEW h,
           trie[s][ListKey(l)] # NoValue,
           heap' = [heap EXCEPT ![trie[s][ListKey(l)]] = h]
    PROVE  Rewrites(s, ListKey(l), h) /\ KeepsSets
<1> DEFINE k == ListKey(l)
<1>1. k \in TrieKey /\ k[1] = "3" /\ trie[s][k] \in Addr
  BY KeyTypes DEF Inv, LiveHeads
<1>2. \A b \in Addr : heap'[b] = IF b = trie[s][k] THEN h ELSE heap[b]
  BY <1>1 DEF Inv, TypeOK
<1>3. \A t \in Slot, x \in TrieKey : trie[t][x] = trie[s][k] => t = s /\ x = k
  BY <1>1, KeyForms, KeyTypes DEF Inv, OneOwner, Owner
<1>4. KeepsSets
  BY DEF KeepsSets
<1>5. Rewrites(s, k, h)
  BY <1>1, <1>2, <1>3 DEF Rewrites, HeadAt
<1> QED BY <1>4, <1>5

\* A new point
LEMMA SpNewRewrites ==
    ASSUME Inv, NEW s \in Slot, NEW i \in Id, NEW g \in Hash,
           NEW a \in FreeAddrs, NEW h,
           heap' = [heap EXCEPT ![a] = h],
           TwoKeys(s, SpKey(i), IdxKey(g, i), a, a)
    PROVE  Rewrites(s, SpKey(i), h) /\ KeepsSets
<1>1. a \in Addr /\ heap[a].type = "free"
  BY HeadForms DEF FreeAddrs
<1>2. /\ \A b \in Addr : heap'[b] = IF b = a THEN h ELSE heap[b]
      /\ SpKey(i) \in TrieKey /\ SpKey(i)[1] = "a" /\ IdxKey(g, i)[1] = "b"
  BY <1>1, KeyTypes DEF Inv, TypeOK
<1>3. \A t \in Slot, x \in TrieKey : trie[t][x] # a
  BY <1>1, KeyForms, HeadTypes, PtrAssumption DEF Inv, LiveHeads
<1>4. \A t \in Slot, x \in TrieKey : x[1] # "b" =>
         trie'[t][x] = IF t = s /\ x = SpKey(i) THEN a ELSE trie[t][x]
  BY <1>2 DEF TwoKeys
<1>5. KeepsSets
  BY <1>2, <1>4 DEF KeepsSets
<1>6. Rewrites(s, SpKey(i), h)
  BY <1>1, <1>2, <1>3, <1>4 DEF Rewrites, HeadAt
<1> QED BY <1>5, <1>6

\* A point is somewhere else; its id key leads to the same head
LEMMA SpMoveRewrites ==
    ASSUME Inv, NEW s \in Slot, NEW i \in Id, NEW a, a = trie[s][SpKey(i)], a # NoValue,
           NEW h, heap' = [heap EXCEPT ![a] = h],
           \A t \in Slot, x \in TrieKey : x[1] # "b" => trie'[t][x] = trie[t][x]
    PROVE  Rewrites(s, SpKey(i), h) /\ KeepsSets
<1>1. a \in Addr /\ heap[a].geo \in Hash
  BY PointHeads
<1>2. /\ \A b \in Addr : heap'[b] = IF b = a THEN h ELSE heap[b]
      /\ SpKey(i) \in TrieKey /\ SpKey(i)[1] = "a" /\ IdxKey(heap[a].geo, i)[1] = "b"
  BY <1>1, KeyTypes DEF Inv, TypeOK
<1>3. \A t \in Slot, x \in TrieKey : x[1] # "b" /\ trie[t][x] = a => t = s /\ x = SpKey(i)
  BY <1>2, PointOwners
<1>4. KeepsSets
  BY DEF KeepsSets
<1>5. Rewrites(s, SpKey(i), h)
  BY <1>1, <1>2, <1>3 DEF Rewrites, HeadAt
<1> QED BY <1>4, <1>5

\* A point goes
LEMMA SpDelRewrites ==
    ASSUME Inv, NEW s \in Slot, NEW i \in Id, NEW a, a = trie[s][SpKey(i)], a # NoValue,
           heap' = [heap EXCEPT ![a] = Free], NEW o \in Hash,
           TwoKeys(s, SpKey(i), IdxKey(o, i), NoValue, NoValue)
    PROVE  Rewrites(s, SpKey(i), Free) /\ KeepsSets
<1>1. a \in Addr /\ heap[a].geo \in Hash
  BY PointHeads
<1>2. /\ \A b \in Addr : heap'[b] = IF b = a THEN Free ELSE heap[b]
      /\ SpKey(i) \in TrieKey /\ SpKey(i)[1] = "a"
      /\ IdxKey(heap[a].geo, i)[1] = "b" /\ IdxKey(o, i)[1] = "b"
  BY <1>1, KeyTypes DEF Inv, TypeOK
<1>3. \A t \in Slot, x \in TrieKey : x[1] # "b" /\ trie[t][x] = a => t = s /\ x = SpKey(i)
  BY <1>2, PointOwners
<1>4. \A t \in Slot, x \in TrieKey : x[1] # "b" =>
         trie'[t][x] = IF t = s /\ x = SpKey(i) THEN NoValue ELSE trie[t][x]
  BY <1>2 DEF TwoKeys
<1>5. KeepsSets
  BY <1>2, <1>4 DEF KeepsSets
<1>6. Rewrites(s, SpKey(i), Free)
  BY <1>1, <1>2, <1>3, <1>4, PtrAssumption DEF Rewrites, HeadAt
<1> QED BY <1>5, <1>6

-----------------------------------------------------------------------------
(* What a command reads *)

\* Kvs, Hashes and Points say whether there is a value, and which
LEMMA ValuesShown ==
    ASSUME Inv, NEW s \in Slot
    PROVE  /\ \A k \in Key :
                 /\ trie[s][KvKey(k)] = NoValue <=> Kvs[s][k] = Null
                 /\ trie[s][KvKey(k)] # NoValue => Kvs[s][k] = heap[trie[s][KvKey(k)]].val
           /\ \A n \in Name, k \in Key :
                 /\ trie[s][HashKey(n, k)] = NoValue <=> Hashes[s][n][k] = Null
                 /\ trie[s][HashKey(n, k)] # NoValue =>
                       Hashes[s][n][k] = heap[trie[s][HashKey(n, k)]].val
<1>1. Free.val = Null
  BY DEF Free
<1>2. ASSUME NEW x \in TrieKey, x[1] \in {"0", "1"}
      PROVE  /\ trie[s][x] = NoValue <=> HeadAt(s, x).val = Null
             /\ trie[s][x] # NoValue => HeadAt(s, x).val = heap[trie[s][x]].val
  <2>1. CASE trie[s][x] = NoValue
    BY <1>1, <2>1, PtrAssumption DEF HeadAt
  <2>2. CASE trie[s][x] # NoValue
    <3>1. trie[s][x] \in Addr /\ heap[trie[s][x]].type \in {"kv", "hash"}
      BY <1>2, <2>2, HeadTypes DEF Inv, LiveHeads
    <3>2. heap[trie[s][x]].val \in Value
      BY <3>1 DEF Inv, HeadContents
    <3> QED BY <2>2, <3>1, <3>2, NullAssumption DEF HeadAt
  <2> QED BY <2>1, <2>2
<1>3. /\ \A k \in Key : Kvs[s][k] = HeadAt(s, KvKey(k)).val
      /\ \A n \in Name, k \in Key : Hashes[s][n][k] = HeadAt(s, HashKey(n, k)).val
  BY DEF Kvs, Hashes
<1> QED BY <1>2, <1>3, KeyTypes

LEMMA PointsShown ==
    ASSUME Inv, NEW s \in Slot, NEW i \in Id
    PROVE  /\ trie[s][SpKey(i)] = NoValue <=> Points[s][i] = Null
           /\ trie[s][SpKey(i)] # NoValue => /\ Points[s][i] = heap[trie[s][SpKey(i)]].pt
                                             /\ Points[s][i] \in Point
<1>1. Free.pt = Null /\ Points[s][i] = HeadAt(s, SpKey(i)).pt
  BY DEF Free, Points
<1>2. CASE trie[s][SpKey(i)] = NoValue
  BY <1>1, <1>2, PtrAssumption DEF HeadAt
<1>3. CASE trie[s][SpKey(i)] # NoValue
  <2>1. trie[s][SpKey(i)] \in Addr /\ heap[trie[s][SpKey(i)]].pt \in Point
    BY <1>3, PointHeads
  <2> QED BY <1>1, <1>3, <2>1, NullAssumption DEF HeadAt
<1> QED BY <1>2, <1>3

LEMMA ListsShown ==
    ASSUME Inv, NEW s \in Slot, NEW l \in ListName
    PROVE  /\ trie[s][ListKey(l)] = NoValue <=> Lists[s][l] = << >>
           /\ trie[s][ListKey(l)] # NoValue => Lists[s][l] = heap[trie[s][ListKey(l)]].list
           /\ Lists[s][l] \in Seq(Value)
<1>1. Free.list = << >> /\ Lists[s][l] = HeadAt(s, ListKey(l)).list
  BY DEF Free, Lists
<1>2. CASE trie[s][ListKey(l)] = NoValue
  BY <1>1, <1>2, PtrAssumption, EmptySeq DEF HeadAt
<1>3. CASE trie[s][ListKey(l)] # NoValue
  <2>1. trie[s][ListKey(l)] \in Addr
    BY <1>3, KeyTypes DEF Inv, LiveHeads
  <2>2. heap[trie[s][ListKey(l)]].list \in Seq(Value)
    BY <2>1 DEF Inv, TypeOK, Heads
  <2>3. heap[trie[s][ListKey(l)]].list # << >>
    BY <1>3 DEF Inv, ListsNotEmpty
  <2> QED BY <1>1, <1>3, <2>1, <2>2, <2>3 DEF HeadAt
<1> QED BY <1>2, <1>3

-----------------------------------------------------------------------------
(* Every command is the one of EtdbKeyspace *)

LEMMA ReadShown ==
    ASSUME NEW cmd, NEW c, NEW status, NEW d, Read(cmd, c, status, d)
    PROVE  Keyspace!Read(cmd, c, status, d)
<1>1. /\ UNCHANGED <<slot, Kvs, Hashes, Sets, Lists, Points>>
      /\ reply' = <<cmd, c, status, d>>
  BY AllKept DEF Read, Replies
<1> QED BY <1>1 DEF Keyspace!Read, Keyspace!Replies, Keyspace!data

LEMMA RepliesShown ==
    ASSUME NEW cmd, NEW c, NEW status, NEW d, Replies(cmd, c, status, d)
    PROVE  Keyspace!Replies(cmd, c, status, d)
  BY DEF Replies, Keyspace!Replies

LEMMA UseShown ==
    ASSUME Inv, NEW c \in Conn, NEW n \in 0..(MaxSlot + 1), Use(c, n)
    PROVE  Keyspace!Use(c, n)
<1>1. trie' = trie /\ heap' = heap
  BY DEF Use, Read
<1>2. UNCHANGED <<Kvs, Hashes, Sets, Lists, Points>>
  BY <1>1, AllKept
<1>3. CASE n \in 1..MaxSlot
  BY <1>2, <1>3 DEF Use, Replies, Keyspace!Use, Keyspace!Replies, Keyspace!Status, Keyspace!data
<1>4. CASE n \notin 1..MaxSlot
  <2>1. slot' = slot /\ reply' = <<<<"use", n>>, c, "FAIL", {}>>
    BY <1>4 DEF Use, Read, Replies
  <2>2. slot \in [Conn -> Slot]
    BY DEF Inv, TypeOK
  <2>3. slot' = [slot EXCEPT ![c] = IF n \in 1..MaxSlot THEN n - 1 ELSE @]
    BY <1>4, <2>1, <2>2
  <2> QED BY <1>2, <1>4, <2>1, <2>3
    DEF Keyspace!Use, Keyspace!Replies, Keyspace!Status, Keyspace!data
<1> QED BY <1>3, <1>4

LEMMA WhereShown ==
    ASSUME NEW c, Where(c)
    PROVE  Keyspace!Where(c)
  BY ReadShown DEF Where, Keyspace!Where

\* set, get and del
LEMMA KvSetShown ==
    ASSUME Inv, NEW c \in Conn, NEW k \in Key, NEW v \in Value, KvSet(c, k, v)
    PROVE  Keyspace!KvSet(c, k, v)
<1>1. slot[c] \in Slot /\ KvKey(k) \in TrieKey /\ KvKey(k)[1] = "0"
  BY KeyTypes DEF Inv, TypeOK
<1>2. PICK a \in FreeAddrs : /\ heap' = [heap EXCEPT ![a] = ValueHead("kv", v)]
                             /\ trie' = [trie EXCEPT ![slot[c]][KvKey(k)] = a]
  BY DEF KvSet, Put, Update
<1>3. Rewrites(slot[c], KvKey(k), ValueHead("kv", v)) /\ KeepsSets
  BY <1>1, <1>2, AllocRewrites
<1>4. ValueHead("kv", v).val = v
  BY HeadForms
<1>5. Kvs' = [Kvs EXCEPT ![slot[c]][k] = v] /\ UNCHANGED <<Hashes, Sets, Lists, Points>>
  BY <1>1, <1>3, <1>4, KvRewritten
<1>6. slot' = slot /\ Replies(<<"set", k, v>>, c, "OK", {})
  BY DEF KvSet, Put
<1> QED BY <1>5, <1>6, RepliesShown DEF Keyspace!KvSet

LEMMA KvGetShown ==
    ASSUME Inv, NEW c \in Conn, NEW k \in Key, KvGet(c, k)
    PROVE  Keyspace!KvGet(c, k)
<1>1. slot[c] \in Slot
  BY DEF Inv, TypeOK
<1>2. CASE Search(c, KvKey(k)) = NoValue
  <2>1. Kvs[slot[c]][k] = Null
    BY <1>1, <1>2, ValuesShown DEF Search
  <2>2. Keyspace!Read(<<"get", k>>, c, "FAIL", {})
    BY <1>2, ReadShown DEF KvGet, Get
  <2> QED BY <2>1, <2>2 DEF Keyspace!KvGet, Keyspace!Status, Keyspace!Found
<1>3. CASE Search(c, KvKey(k)) # NoValue
  <2>1. /\ Kvs[slot[c]][k] # Null
        /\ Kvs[slot[c]][k] = heap[Search(c, KvKey(k))].val
    BY <1>1, <1>3, ValuesShown DEF Search
  <2>2. Keyspace!Read(<<"get", k>>, c, "OK", {Kvs[slot[c]][k]})
    BY <1>3, <2>1, ReadShown DEF KvGet, Get
  <2> QED BY <2>1, <2>2 DEF Keyspace!KvGet, Keyspace!Status, Keyspace!Found
<1> QED BY <1>2, <1>3

\* Writing what is there changes nothing
LEMMA SameEntries ==
    ASSUME NEW s \in Slot
    PROVE  /\ \A k \in Key : Kvs = [Kvs EXCEPT ![s][k] = Kvs[s][k]]
           /\ \A n \in Name, k \in Key : Hashes = [Hashes EXCEPT ![s][n][k] = Hashes[s][n][k]]
           /\ \A i \in Id : Points = [Points EXCEPT ![s][i] = Points[s][i]]
<1>1. \A k \in Key : Kvs = [Kvs EXCEPT ![s][k] = Kvs[s][k]]
  BY DEF Kvs
<1>2. ASSUME NEW n \in Name, NEW k \in Key
      PROVE  Hashes = [Hashes EXCEPT ![s][n][k] = Hashes[s][n][k]]
  <2> DEFINE field(t, m, j) == HeadAt(t, HashKey(m, j)).val
  <2>1. Hashes = [t \in Slot |-> [m \in Name |-> [j \in Key |-> field(t, m, j)]]]
    BY DEF Hashes
  <2> HIDE DEF field
  <2> QED BY <2>1
<1>3. \A i \in Id : Points = [Points EXCEPT ![s][i] = Points[s][i]]
  BY DEF Points
<1> QED BY <1>1, <1>2, <1>3

\* A del of a key that is there
LEMMA DelRewrites ==
    ASSUME Inv, NEW c \in Conn, NEW cmd, NEW k \in TrieKey, k[1] \in {"0", "1"},
           Del(cmd, c, k), Search(c, k) # NoValue
    PROVE  Rewrites(slot[c], k, Free) /\ KeepsSets
<1>1. slot[c] \in Slot /\ trie[slot[c]][k] # NoValue
  BY DEF Inv, TypeOK, Search
<1>2. /\ heap' = [heap EXCEPT ![trie[slot[c]][k]] = Free]
      /\ trie' = [trie EXCEPT ![slot[c]][k] = NoValue]
  BY DEF Del, Search, Update
<1> QED BY <1>1, <1>2, FreeRewrites

LEMMA KvDelShown ==
    ASSUME Inv, NEW c \in Conn, NEW k \in Key, KvDel(c, k)
    PROVE  Keyspace!KvDel(c, k)
<1>1. slot[c] \in Slot /\ KvKey(k) \in TrieKey /\ KvKey(k)[1] = "0"
  BY KeyTypes DEF Inv, TypeOK
<1>2. CASE Search(c, KvKey(k)) = NoValue
  <2>1. Kvs[slot[c]][k] = Null
    BY <1>1, <1>2, ValuesShown DEF Search
  <2>2. Keyspace!Read(<<"del", k>>, c, "FAIL", {})
    BY <1>2, ReadShown DEF KvDel, Del
  <2>3. Kvs = [Kvs EXCEPT ![slot[c]][k] = Null]
    BY <1>1, <2>1, SameEntries
  <2> QED BY <2>1, <2>2, <2>3
    DEF Keyspace!KvDel, Keyspace!Status, Keyspace!Read, Keyspace!data
<1>3. CASE Search(c, KvKey(k)) # NoValue
  <2>1. Kvs[slot[c]][k] # Null /\ Free.val = Null
    BY <1>1, <1>3, ValuesShown DEF Search, Free
  <2>2. Rewrites(slot[c], KvKey(k), Free) /\ KeepsSets
    BY <1>1, <1>3, DelRewrites DEF KvDel
  <2>3. Kvs' = [Kvs EXCEPT ![slot[c]][k] = Null] /\ UNCHANGED <<Hashes, Sets, Lists, Points>>
    BY <1>1, <2>1, <2>2, KvRewritten
  <2>4. slot' = slot /\ Keyspace!Replies(<<"del", k>>, c, "OK", {})
    BY <1>3, RepliesShown DEF KvDel, Del
  <2> QED BY <2>1, <2>3, <2>4 DEF Keyspace!KvDel, Keyspace!Status
<1> QED BY <1>2, <1>3

LEMMA KvMatchLongestShown ==
    ASSUME Inv, NEW c \in Conn, NEW k \in Key, KvMatchLongest(c, k)
    PROVE  Keyspace!KvMatchLongest(c, k)
<1> DEFINE at == {q \in Prefixes[k] : Search(c, KvKey(q)) # NoValue}
           shown == {q \in Prefixes[k] : Kvs[slot[c]][q] # Null}
<1>1. slot[c] \in Slot /\ Prefixes[k] \subseteq Key
  BY KeyAssumption DEF Inv, TypeOK
<1>2. at = shown /\ \A q \in at : heap[Search(c, KvKey(q))].val = Kvs[slot[c]][q]
  BY <1>1, ValuesShown DEF Search
<1>3. CASE at = {} /\ Read(<<"matchlongest", k>>, c, "FAIL", {})
  BY <1>2, <1>3, ReadShown DEF Keyspace!KvMatchLongest
<1>4. ASSUME NEW q \in at, \A r \in at : KeyLen[r] <= KeyLen[q],
             Read(<<"matchlongest", k>>, c, "OK", {<<heap[Search(c, KvKey(q))].val, KeyLen[q]>>})
      PROVE  Keyspace!KvMatchLongest(c, k)
  <2>1. Keyspace!Read(<<"matchlongest", k>>, c, "OK", {<<Kvs[slot[c]][q], KeyLen[q]>>})
    BY <1>2, <1>4, ReadShown
  <2>2. q \in shown /\ \A r \in shown : KeyLen[r] <= KeyLen[q]
    BY <1>2, <1>4
  <2> QED BY <2>1, <2>2 DEF Keyspace!KvMatchLongest
<1> QED BY <1>3, <1>4 DEF KvMatchLongest

\* hset, hget and hdel; a long name is refused
LEMMA TooLongShown ==
    ASSUME NEW cmd, NEW c, NEW n \in Name, TooLong(cmd, c, n)
    PROVE  Keyspace!Refuse(cmd, c, n)
  BY ReadShown DEF TooLong, Keyspace!Refuse, Keyspace!LongName

LEMMA HashSetShown ==
    ASSUME Inv, DistinctNames, NEW c \in Conn, NEW n \in Name, NEW k \in Key, NEW v \in Value,
           HashSet(c, n, k, v)
    PROVE  Keyspace!HashSet(c, n, k, v) \/ Keyspace!Refuse(<<"hset", n, k, v>>, c, n)
<1>1. CASE TooLong(<<"hset", n, k, v>>, c, n)
  BY <1>1, TooLongShown
<1>2. CASE NameLen[n] <= 255 /\ Put(<<"hset", n, k, v>>, c, HashKey(n, k), "hash", v)
  <2>1. slot[c] \in Slot /\ HashKey(n, k) \in TrieKey /\ HashKey(n, k)[1] = "1"
    BY KeyTypes DEF Inv, TypeOK
  <2>2. PICK a \in FreeAddrs : /\ heap' = [heap EXCEPT ![a] = ValueHead("hash", v)]
                               /\ trie' = [trie EXCEPT ![slot[c]][HashKey(n, k)] = a]
    BY <1>2 DEF Put, Update
  <2>3. Rewrites(slot[c], HashKey(n, k), ValueHead("hash", v)) /\ KeepsSets
    BY <2>1, <2>2, AllocRewrites
  <2>4. ValueHead("hash", v).val = v
    BY HeadForms
  <2>5. Hashes' = [Hashes EXCEPT ![slot[c]][n][k] = v] /\ UNCHANGED <<Kvs, Sets, Lists, Points>>
    BY <2>1, <2>3, <2>4, HashRewritten
  <2>6. slot' = slot /\ Keyspace!Replies(<<"hset", n, k, v>>, c, "OK", {})
    BY <1>2, RepliesShown DEF Put
  <2>7. n \notin Keyspace!LongName
    BY <1>2, KeyAssumption DEF Keyspace!LongName
  <2> QED BY <2>5, <2>6, <2>7 DEF Keyspace!HashSet
<1> QED BY <1>1, <1>2 DEF HashSet

LEMMA HashGetShown ==
    ASSUME Inv, NEW c \in Conn, NEW n \in Name, NEW k \in Key, HashGet(c, n, k)
    PROVE  Keyspace!HashGet(c, n, k) \/ Keyspace!Refuse(<<"hget", n, k>>, c, n)
<1>1. CASE TooLong(<<"hget", n, k>>, c, n)
  BY <1>1, TooLongShown
<1>2. CASE NameLen[n] <= 255 /\ Get(<<"hget", n, k>>, c, HashKey(n, k))
  <2>1. slot[c] \in Slot
    BY DEF Inv, TypeOK
  <2>2. n \notin Keyspace!LongName
    BY <1>2, KeyAssumption DEF Keyspace!LongName
  <2>3. CASE Search(c, HashKey(n, k)) = NoValue
    <3>1. Hashes[slot[c]][n][k] = Null
      BY <2>1, <2>3, ValuesShown DEF Search
    <3>2. Keyspace!Read(<<"hget", n, k>>, c, "FAIL", {})
      BY <1>2, <2>3, ReadShown DEF Get
    <3> QED BY <2>2, <3>1, <3>2 DEF Keyspace!HashGet, Keyspace!Status, Keyspace!Found
  <2>4. CASE Search(c, HashKey(n, k)) # NoValue
    <3>1. /\ Hashes[slot[c]][n][k] # Null
          /\ Hashes[slot[c]][n][k] = heap[Search(c, HashKey(n, k))].val
      BY <2>1, <2>4, ValuesShown DEF Search
    <3>2. Keyspace!Read(<<"hget", n, k>>, c, "OK", {Hashes[slot[c]][n][k]})
      BY <1>2, <2>4, <3>1, ReadShown DEF Get
    <3> QED BY <2>2, <3>1, <3>2 DEF Keyspace!HashGet, Keyspace!Status, Keyspace!Found
  <2> QED BY <2>3, <2>4
<1> QED BY <1>1, <1>2 DEF HashGet

LEMMA HashDelShown ==
    ASSUME Inv, DistinctNames, NEW c \in Conn, NEW n \in Name, NEW k \in Key, HashDel(c, n, k)
    PROVE  Keyspace!HashDel(c, n, k) \/ Keyspace!Refuse(<<"hdel", n, k>>, c, n)
<1>1. CASE TooLong(<<"hdel", n, k>>, c, n)
  BY <1>1, TooLongShown
<1>2. CASE NameLen[n] <= 255 /\ Del(<<"hdel", n, k>>, c, HashKey(n, k))
  <2>1. slot[c] \in Slot /\ HashKey(n, k) \in TrieKey /\ HashKey(n, k)[1] = "1"
    BY KeyTypes DEF Inv, TypeOK
  <2>2. n \notin Keyspace!LongName
    BY <1>2, KeyAssumption DEF Keyspace!LongName
  <2>3. CASE Search(c, HashKey(n, k)) = NoValue
    <3>1. Hashes[slot[c]][n][k] = Null
      BY <2>1, <2>3, ValuesShown DEF Search
    <3>2. Keyspace!Read(<<"hdel", n, k>>, c, "FAIL", {})
      BY <1>2, <2>3, ReadShown DEF Del
    <3>3. Hashes = [Hashes EXCEPT ![slot[c]][n][k] = Null]
      BY <2>1, <3>1, SameEntries
    <3> QED BY <2>2, <3>1, <3>2, <3>3
      DEF Keyspace!HashDel, Keyspace!Status, Keyspace!Read, Keyspace!data
  <2>4. CASE Search(c, HashKey(n, k)) # NoValue
    <3>1. Hashes[slot[c]][n][k] # Null /\ Free.val = Null
      BY <2>1, <2>4, ValuesShown DEF Search, Free
    <3>2. Rewrites(slot[c], HashKey(n, k), Free) /\ KeepsSets
      BY <1>2, <2>1, <2>4, DelRewrites
    <3>3. Hashes' = [Hashes EXCEPT ![slot[c]][n][k] = Null] /\ UNCHANGED <<Kvs, Sets, Lists, Points>>
      BY <2>1, <3>1, <3>2, HashRewritten
    <3>4. slot' = slot /\ Keyspace!Replies(<<"hdel", n, k>>, c, "OK", {})
      BY <1>2, <2>4, RepliesShown DEF Del
    <3> QED BY <2>2, <3>1, <3>3, <3>4 DEF Keyspace!HashDel, Keyspace!Status
  <2> QED BY <2>3, <2>4
<1> QED BY <1>1, <1>2 DEF HashDel

-----------------------------------------------------------------------------
(* Sets *)

\* The entries of the keys K of the set n become w
Marks(s, n, K, w) ==
    \A t \in Slot, x \in TrieKey :
       trie'[t][x] = IF t = s /\ \E k \in K : x = SetKey(n, k) THEN w ELSE trie[t][x]

\* The keys K of the set n become members, or stop being members
LEMMA SetRewritten ==
    ASSUME DistinctNames, NEW s \in Slot, NEW n \in Name, NEW K, K \subseteq Key,
           NEW w \in {Member, NoValue}, heap' = heap, Marks(s, n, K, w)
    PROVE  /\ Sets' = [Sets EXCEPT ![s][n] = IF w = Member THEN @ \cup K ELSE @ \ K]
           /\ UNCHANGED <<Kvs, Hashes, Lists, Points>>
<1> DEFINE in(x) == \E k \in K : x = SetKey(n, k)
<1>2. \A m \in Name, k \in Key : in(SetKey(m, k)) <=> m = n /\ k \in K
  BY KeysDiffer
<1>3. \A x \in TrieKey : in(x) => x[1] = "2"
  BY KeyTypes
<1>4. \A t \in Slot, x \in TrieKey :
         trie'[t][x] = IF t = s /\ in(x) THEN w ELSE trie[t][x]
  BY DEF Marks
<1> HIDE DEF in
<1>5. \A t \in Slot, x \in TrieKey : x[1] # "2" => HeadAt(t, x)' = HeadAt(t, x)
  BY <1>3, <1>4 DEF HeadAt
<1>6. UNCHANGED <<Kvs, Hashes, Lists, Points>>
  <2>1. Kvs' = Kvs
    BY <1>5, KeyTypes, KvsKept
  <2>2. Hashes' = Hashes
    BY <1>5, KeyTypes, HashesKept
  <2>3. Lists' = Lists
    BY <1>5, KeyTypes, ListsKept
  <2>4. Points' = Points
    BY <1>5, KeyTypes, PointsKept
  <2> QED BY <2>1, <2>2, <2>3, <2>4
<1>7. \A t \in Slot, m \in Name :
         Sets[t][m] = {k \in Key : trie[t][SetKey(m, k)] # NoValue}
  BY DEF Sets
<1>8. \A t \in Slot, m \in Name :
         {k \in Key : trie'[t][SetKey(m, k)] # NoValue} =
            IF t = s /\ m = n THEN IF w = Member THEN Sets[t][m] \cup K ELSE Sets[t][m] \ K
            ELSE Sets[t][m]
  <2> SUFFICES ASSUME NEW t \in Slot, NEW m \in Name
               PROVE  {k \in Key : trie'[t][SetKey(m, k)] # NoValue} =
                         IF t = s /\ m = n
                         THEN IF w = Member THEN Sets[t][m] \cup K ELSE Sets[t][m] \ K
                         ELSE Sets[t][m]
    OBVIOUS
  <2>1. \A k \in Key : trie'[t][SetKey(m, k)] =
           IF t = s /\ m = n /\ k \in K THEN w ELSE trie[t][SetKey(m, k)]
    BY <1>2, <1>4, KeyTypes
  <2>2. CASE t = s /\ m = n /\ w = Member
    BY <1>7, <2>1, <2>2, PtrAssumption
  <2>3. CASE t = s /\ m = n /\ w = NoValue
    BY <1>7, <2>1, <2>3, PtrAssumption
  <2>4. CASE ~ (t = s /\ m = n)
    BY <1>7, <2>1, <2>4
  <2> QED BY <2>2, <2>3, <2>4
<1>9. Sets' = [t \in Slot |-> [m \in Name |->
                 IF t = s /\ m = n THEN IF w = Member THEN Sets[t][m] \cup K ELSE Sets[t][m] \ K
                 ELSE Sets[t][m]]]
  <2>1. Sets' = [t \in Slot |-> [m \in Name |-> {k \in Key : trie'[t][SetKey(m, k)] # NoValue}]]
    BY DEF Sets
  <2> QED BY <1>8, <2>1
<1>10. Sets' = [Sets EXCEPT ![s][n] = IF w = Member THEN @ \cup K ELSE @ \ K]
  <2>1. /\ DOMAIN Sets = Slot /\ \A t \in Slot : DOMAIN Sets[t] = Name
        /\ Sets = [t \in Slot |-> Sets[t]]
        /\ \A t \in Slot : Sets[t] = [m \in Name |-> Sets[t][m]]
    BY DEF Sets
  <2> QED BY ZenonT(40), <1>9, <2>1
<1> QED BY <1>6, <1>10

LEMMA SetAddShown ==
    ASSUME Inv, DistinctNames, NEW c \in Conn, NEW n \in Name, NEW ks \in Keys, SetAdd(c, n, ks)
    PROVE  Keyspace!SetAdd(c, n, ks) \/ Keyspace!Refuse(<<"sadd", n, ks>>, c, n)
<1>1. CASE TooLong(<<"sadd", n, ks>>, c, n)
  BY <1>1, TooLongShown
<1>2. CASE ~TooLong(<<"sadd", n, ks>>, c, n)
  <2> DEFINE K == {ks[i] : i \in DOMAIN ks}
  <2>1. /\ NameLen[n] <= 255 /\ slot' = slot /\ heap' = heap
        /\ Replies(<<"sadd", n, ks>>, c, "OK", {})
        /\ trie' = [trie EXCEPT ![slot[c]] = [x \in TrieKey |->
                       IF \E i \in DOMAIN ks : x = SetKey(n, ks[i]) THEN Member ELSE @[x]]]
    BY <1>2 DEF SetAdd
  <2>2. slot[c] \in Slot /\ K \subseteq Key
    BY KeyAssumption DEF Inv, TypeOK
  <2>3. Marks(slot[c], n, K, Member)
    <3>1. \A t \in Slot : t # slot[c] => trie'[t] = trie[t]
      BY <2>1, <2>2 DEF Inv, TypeOK
    <3>2. trie'[slot[c]] = [x \in TrieKey |->
             IF \E i \in DOMAIN ks : x = SetKey(n, ks[i]) THEN Member ELSE trie[slot[c]][x]]
      BY <2>1, <2>2 DEF Inv, TypeOK
    <3>3. \A x \in TrieKey : trie'[slot[c]][x] =
             IF \E k \in K : x = SetKey(n, k) THEN Member ELSE trie[slot[c]][x]
      BY <3>2
    <3> QED BY <3>1, <3>3 DEF Marks
  <2> HIDE DEF K
  <2>4. /\ Sets' = [Sets EXCEPT ![slot[c]][n] = @ \cup K]
        /\ UNCHANGED <<Kvs, Hashes, Lists, Points>>
    <3>1. /\ Sets' = [Sets EXCEPT ![slot[c]][n] = IF Member = Member THEN @ \cup K ELSE @ \ K]
          /\ UNCHANGED <<Kvs, Hashes, Lists, Points>>
      BY <2>1, <2>2, <2>3, SetRewritten
    <3> QED BY <3>1
  <2>5. n \notin Keyspace!LongName /\ Keyspace!Replies(<<"sadd", n, ks>>, c, "OK", {})
    BY <2>1, KeyAssumption, RepliesShown DEF Keyspace!LongName
  <2> QED BY <2>1, <2>4, <2>5 DEF Keyspace!SetAdd, Keyspace!Range, K
<1> QED BY <1>1, <1>2

\* The loop of sdel runs to a last turn
LEMMA LastErased ==
    ASSUME NEW c, NEW n, NEW ks, Len(ks) \in Nat
    PROVE  \E m \in 0..Len(ks) :
              /\ \A i \in 1..m : Erases(c, n, ks, i)
              /\ m < Len(ks) => ~ Erases(c, n, ks, m + 1)
<1> DEFINE T == {m \in Nat : m <= Len(ks) /\ (m < Len(ks) => ~ Erases(c, n, ks, m + 1))}
<1>1. PICK m \in T : \A i \in T : ~ i < m
  <2>1. Len(ks) \in T
    OBVIOUS
  <2>2. IsWellFoundedOn(OpToRel(<, Nat), Nat)
    BY NatLessThanWellFounded
  <2>3. \E m \in T : \A i \in T : ~ (<<i, m>> \in OpToRel(<, Nat))
    BY <2>1, <2>2, WFMin
  <2> QED BY <2>3 DEF OpToRel
<1>2. \A i \in 1..m : Erases(c, n, ks, i)
  <2> SUFFICES ASSUME NEW i \in 1..m PROVE Erases(c, n, ks, i)
    OBVIOUS
  <2>1. i - 1 \in Nat /\ i - 1 < m /\ i - 1 < Len(ks)
    BY <1>1
  <2>2. i - 1 \notin T
    BY <1>1, <2>1
  <2>3. Erases(c, n, ks, (i - 1) + 1)
    BY <2>1, <2>2
  <2>4. (i - 1) + 1 = i
    BY <1>1
  <2> QED BY <2>3, <2>4
<1> QED BY <1>1, <1>2

LEMMA SetDelShown ==
    ASSUME Inv, DistinctNames, NEW c \in Conn, NEW n \in Name, NEW ks \in Keys, SetDel(c, n, ks)
    PROVE  Keyspace!SetDel(c, n, ks) \/ Keyspace!Refuse(<<"sdel", n, ks>>, c, n)
<1>1. CASE TooLong(<<"sdel", n, ks>>, c, n)
  BY <1>1, TooLongShown
<1>2. CASE ~TooLong(<<"sdel", n, ks>>, c, n)
  <2>1. /\ NameLen[n] <= 255 /\ slot' = slot /\ heap' = heap
        /\ Replies(<<"sdel", n, ks>>, c,
                   IF Erases(c, n, ks, Len(ks)) THEN "OK" ELSE "FAIL", {})
        /\ trie' = [trie EXCEPT ![slot[c]] = [x \in TrieKey |->
                       IF \E j \in DOMAIN ks : Erases(c, n, ks, j) /\ x = SetKey(n, ks[j])
                       THEN NoValue ELSE @[x]]]
    BY <1>2 DEF SetDel
  <2>2. /\ slot[c] \in Slot /\ Len(ks) \in Nat /\ DOMAIN ks = 1..Len(ks)
        /\ \A j \in 1..Len(ks) : ks[j] \in Key
    BY KeyAssumption DEF Inv, TypeOK
  <2>3. PICK m \in 0..Len(ks) : /\ \A i \in 1..m : Erases(c, n, ks, i)
                                /\ m < Len(ks) => ~ Erases(c, n, ks, m + 1)
    BY <2>2, LastErased
  <2>4. \A i \in 1..Len(ks) : Erases(c, n, ks, i) <=> i <= m
    <3>1. \A i, j \in 1..Len(ks) : j <= i /\ Erases(c, n, ks, i) => Erases(c, n, ks, j)
      BY <2>2 DEF Erases
    <3> SUFFICES ASSUME NEW i \in 1..Len(ks), Erases(c, n, ks, i), i > m PROVE FALSE
      BY <2>2, <2>3
    <3>2. m + 1 \in 1..Len(ks) /\ m + 1 <= i /\ m < Len(ks)
      BY <2>2
    <3> QED BY <2>3, <3>1, <3>2
  <2> DEFINE K == {ks[i] : i \in 1..m}
  <2>5. K \subseteq Key
    BY <2>2
  <2>6. \A x : (\E j \in DOMAIN ks : Erases(c, n, ks, j) /\ x = SetKey(n, ks[j]))
               <=> \E k \in K : x = SetKey(n, k)
    BY <2>2, <2>3, <2>4
  <2> HIDE DEF K
  <2>7. Marks(slot[c], n, K, NoValue)
    <3>1. \A t \in Slot : t # slot[c] => trie'[t] = trie[t]
      BY <2>1, <2>2 DEF Inv, TypeOK
    <3>2. trie'[slot[c]] = [x \in TrieKey |->
             IF \E j \in DOMAIN ks : Erases(c, n, ks, j) /\ x = SetKey(n, ks[j])
             THEN NoValue ELSE trie[slot[c]][x]]
      BY <2>1, <2>2 DEF Inv, TypeOK
    <3>3. \A x \in TrieKey : trie'[slot[c]][x] =
             IF \E k \in K : x = SetKey(n, k) THEN NoValue ELSE trie[slot[c]][x]
      BY SMTT(30), <2>6, <3>2
    <3> QED BY <3>1, <3>3 DEF Marks
  <2>8. /\ Sets' = [Sets EXCEPT ![slot[c]][n] = IF NoValue = Member THEN @ \cup K ELSE @ \ K]
        /\ UNCHANGED <<Kvs, Hashes, Lists, Points>>
    BY <2>1, <2>2, <2>5, <2>7, SetRewritten
  <2>9. Sets' = [Sets EXCEPT ![slot[c]][n] = @ \ {ks[i] : i \in 1..m}]
    BY <2>8, PtrAssumption DEF K
  <2>10. \A i \in 0..Len(ks) : Keyspace!Members(Sets[slot[c]][n], ks, i)
                               <=> i = 0 \/ Erases(c, n, ks, i)
    <3>1. \A k \in Key : k \in Sets[slot[c]][n] <=> Search(c, SetKey(n, k)) # NoValue
      BY <2>2 DEF Sets, Search
    <3> QED BY <2>2, <3>1 DEF Keyspace!Members, Erases
  <2>11. /\ Keyspace!Members(Sets[slot[c]][n], ks, m)
         /\ m < Len(ks) => ~Keyspace!Members(Sets[slot[c]][n], ks, m + 1)
    BY <2>2, <2>3, <2>4, <2>10
  <2>12. Keyspace!Replies(<<"sdel", n, ks>>, c, Keyspace!Status(m = Len(ks)), {})
    <3>1. Erases(c, n, ks, Len(ks)) <=> m = Len(ks)
      <4>1. CASE Len(ks) = 0
        BY <2>3, <4>1 DEF Erases
      <4>2. CASE Len(ks) # 0
        <5>1. Len(ks) \in 1..Len(ks)
          BY <2>2, <4>2
        <5>2. Erases(c, n, ks, Len(ks)) <=> Len(ks) <= m
          BY <2>4, <5>1
        <5>3. Len(ks) \in Nat /\ m \in 0..Len(ks)
          BY <2>2, <2>3
        <5>4. Len(ks) <= m <=> m = Len(ks)
          BY <5>3
        <5> QED BY <5>2, <5>4
      <4> QED BY <4>1, <4>2
    <3> QED BY <2>1, <3>1, RepliesShown DEF Keyspace!Status
  <2>13. n \notin Keyspace!LongName
    BY <2>1, KeyAssumption DEF Keyspace!LongName
  <2> QED BY <2>1, <2>8, <2>9, <2>11, <2>12, <2>13 DEF Keyspace!SetDel
<1> QED BY <1>1, <1>2

LEMMA SetReadShown ==
    ASSUME Inv, NEW c \in Conn, NEW n \in Name
    PROVE  /\ SetMembers(c, n) => Keyspace!SetMembers(c, n)
           /\ \A k \in Key : SetIsMember(c, n, k) => Keyspace!SetIsMember(c, n, k)
<1>1. slot[c] \in Slot
  BY DEF Inv, TypeOK
<1>2. Sets[slot[c]][n] = {k \in Key : Search(c, SetKey(n, k)) # NoValue}
  BY <1>1 DEF Sets, Search
<1>3. SetMembers(c, n) => Keyspace!SetMembers(c, n)
  <2>1. {k \in Key \ Unlisted : Search(c, SetKey(n, k)) # NoValue}
           = Sets[slot[c]][n] \ Unlisted
    BY <1>2
  <2> QED BY <2>1, ReadShown DEF SetMembers, Keyspace!SetMembers
<1>4. ASSUME NEW k \in Key, SetIsMember(c, n, k)
      PROVE  Keyspace!SetIsMember(c, n, k)
  <2>1. (IF Search(c, SetKey(n, k)) = NoValue THEN 0 ELSE 1)
           = IF k \in Sets[slot[c]][n] THEN 1 ELSE 0
    BY <1>2
  <2>2. Keyspace!Read(<<"sismember", n, k>>, c, "OK",
                      {IF Search(c, SetKey(n, k)) = NoValue THEN 0 ELSE 1})
    BY <1>4, ReadShown DEF SetIsMember
  <2> QED BY <2>1, <2>2 DEF Keyspace!SetIsMember
<1> QED BY <1>3, <1>4

-----------------------------------------------------------------------------
(* Lists *)

\* A push: to a new list, whose head is allocated, or to the one there is
LEMMA ListChanged ==
    ASSUME Inv, NEW c \in Conn, NEW l \in ListName, NEW q,
           \/ /\ q = << >> /\ Search(c, ListKey(l)) # NoValue
              /\ heap' = [heap EXCEPT ![Search(c, ListKey(l))] = Free]
              /\ Update(c, ListKey(l), NoValue)
           \/ /\ Search(c, ListKey(l)) # NoValue /\ trie' = trie
              /\ heap' = [heap EXCEPT ![Search(c, ListKey(l))] = ListHead(q)]
           \/ \E a \in FreeAddrs : /\ heap' = [heap EXCEPT ![a] = ListHead(q)]
                                   /\ Update(c, ListKey(l), a),
           slot' = slot
    PROVE  Keyspace!ListChange(c, l, q)
<1>1. /\ slot[c] \in Slot /\ ListKey(l) \in TrieKey /\ ListKey(l)[1] = "3"
      /\ Free.list = << >> /\ ListHead(q).list = q
  BY KeyTypes DEF Inv, TypeOK, Free, ListHead
<1>2. ASSUME NEW h, h.list = q, Rewrites(slot[c], ListKey(l), h), KeepsSets
      PROVE  Keyspace!ListChange(c, l, q)
  <2>1. Lists' = [Lists EXCEPT ![slot[c]][l] = q] /\ UNCHANGED <<Kvs, Hashes, Sets, Points>>
    BY <1>1, <1>2, ListRewritten
  <2> QED BY <2>1 DEF Keyspace!ListChange
<1>3. CASE /\ q = << >> /\ Search(c, ListKey(l)) # NoValue
           /\ heap' = [heap EXCEPT ![Search(c, ListKey(l))] = Free]
           /\ Update(c, ListKey(l), NoValue)
  <2>1. Rewrites(slot[c], ListKey(l), Free) /\ KeepsSets
    BY <1>1, <1>3, FreeRewrites DEF Search, Update
  <2> QED BY <1>1, <1>2, <1>3, <2>1
<1>4. CASE /\ Search(c, ListKey(l)) # NoValue /\ trie' = trie
           /\ heap' = [heap EXCEPT ![Search(c, ListKey(l))] = ListHead(q)]
  <2>1. Rewrites(slot[c], ListKey(l), ListHead(q)) /\ KeepsSets
    BY <1>1, <1>4, ListRewrites DEF Search
  <2> QED BY <1>1, <1>2, <2>1
<1>5. ASSUME NEW a \in FreeAddrs, heap' = [heap EXCEPT ![a] = ListHead(q)],
             Update(c, ListKey(l), a)
      PROVE  Keyspace!ListChange(c, l, q)
  <2>1. Rewrites(slot[c], ListKey(l), ListHead(q)) /\ KeepsSets
    BY <1>1, <1>5, AllocRewrites DEF Update
  <2> QED BY <1>1, <1>2, <2>1
<1> QED BY <1>3, <1>4, <1>5

LEMMA PushShown ==
    ASSUME Inv, NEW c \in Conn, NEW l \in ListName, NEW v \in Value
    PROVE  /\ ListLpush(c, l, v) => Keyspace!ListLpush(c, l, v)
           /\ ListRpush(c, l, v) => Keyspace!ListRpush(c, l, v)
<1>1. slot[c] \in Slot
  BY DEF Inv, TypeOK
<1>2. CASE Search(c, ListKey(l)) = NoValue
  <2>1. Lists[slot[c]][l] = << >>
    BY <1>1, <1>2, ListsShown DEF Search
  <2>2. <<v>> \o Lists[slot[c]][l] = <<v>> /\ Append(Lists[slot[c]][l], v) = <<v>>
    BY <2>1
  <2>3. ASSUME NEW cmd, NewList(cmd, c, l, v)
        PROVE  Keyspace!Replies(cmd, c, "OK", {}) /\ Keyspace!ListChange(c, l, <<v>>)
    <3>1. Keyspace!ListChange(c, l, <<v>>)
      BY <2>3, ListChanged DEF NewList
    <3> QED BY <2>3, <3>1, RepliesShown DEF NewList
  <2> QED BY <1>2, <2>2, <2>3 DEF ListLpush, ListRpush, Keyspace!ListLpush, Keyspace!ListRpush
<1>3. CASE Search(c, ListKey(l)) # NoValue
  <2>1. Lists[slot[c]][l] = heap[Search(c, ListKey(l))].list
    BY <1>1, <1>3, ListsShown DEF Search
  <2>2. ASSUME NEW cmd, NEW q, Push(cmd, c, l, q)
        PROVE  Keyspace!Replies(cmd, c, "OK", {}) /\ Keyspace!ListChange(c, l, q)
    <3>1. Keyspace!ListChange(c, l, q)
      BY <1>3, <2>2, ListChanged DEF Push
    <3> QED BY <2>2, <3>1, RepliesShown DEF Push
  <2> QED BY <1>3, <2>1, <2>2 DEF ListLpush, ListRpush, Keyspace!ListLpush, Keyspace!ListRpush
<1> QED BY <1>2, <1>3

LEMMA PopShown ==
    ASSUME Inv, NEW c \in Conn, NEW l \in ListName
    PROVE  /\ ListLpop(c, l) => Keyspace!ListLpop(c, l)
           /\ ListRpop(c, l) => Keyspace!ListRpop(c, l)
<1>1. slot[c] \in Slot
  BY DEF Inv, TypeOK
<1>2. CASE NoList(c, l)
  <2>1. Lists[slot[c]][l] = << >>
    BY <1>1, <1>2, ListsShown, ListHeads DEF Search, NoList
  <2> QED BY <1>2, <2>1, ReadShown
    DEF ListLpop, ListRpop, Keyspace!ListLpop, Keyspace!ListRpop
<1>3. CASE ~ NoList(c, l)
  <2>1. /\ Search(c, ListKey(l)) # NoValue
        /\ Lists[slot[c]][l] = heap[Search(c, ListKey(l))].list
        /\ Lists[slot[c]][l] # << >>
    BY <1>1, <1>3, ListsShown DEF Search, NoList
  <2>2. ASSUME NEW cmd, NEW q, Pop(cmd, c, l, q)
        PROVE  Keyspace!Replies(cmd, c, "OK", {}) /\ Keyspace!ListChange(c, l, q)
    <3>1. Keyspace!ListChange(c, l, q)
      BY <2>1, <2>2, ListChanged DEF Pop
    <3> QED BY <2>2, <3>1, RepliesShown DEF Pop
  <2> QED BY <1>3, <2>1, <2>2 DEF ListLpop, ListRpop, Keyspace!ListLpop, Keyspace!ListRpop
<1> QED BY <1>2, <1>3

LEMMA TopShown ==
    ASSUME Inv, NEW c \in Conn, NEW l \in ListName
    PROVE  /\ ListLtop(c, l) => Keyspace!ListLtop(c, l)
           /\ ListRtop(c, l) => Keyspace!ListRtop(c, l)
<1>1. slot[c] \in Slot
  BY DEF Inv, TypeOK
<1>2. CASE NoList(c, l)
  <2>1. Lists[slot[c]][l] = << >>
    BY <1>1, <1>2, ListsShown, ListHeads DEF Search, NoList
  <2> QED BY <1>2, <2>1, ReadShown
    DEF ListLtop, ListRtop, Keyspace!ListLtop, Keyspace!ListRtop, Keyspace!Status
<1>3. CASE ~ NoList(c, l)
  <2>1. /\ Lists[slot[c]][l] = heap[Search(c, ListKey(l))].list
        /\ Lists[slot[c]][l] # << >>
    BY <1>1, <1>3, ListsShown DEF Search, NoList
  <2> QED BY <1>3, <2>1, ReadShown
    DEF ListLtop, ListRtop, Keyspace!ListLtop, Keyspace!ListRtop, Keyspace!Status
<1> QED BY <1>2, <1>3

-----------------------------------------------------------------------------
(* Points *)

LEMMA SpSetShown ==
    ASSUME Inv, NEW c \in Conn, NEW i \in Id, NEW p \in Point \cup {BadPoint}, SpSet(c, i, p)
    PROVE  Keyspace!SpSet(c, i, p)
<1>1. slot[c] \in Slot /\ SpKey(i) \in TrieKey
  BY KeyTypes DEF Inv, TypeOK
<1>2. CASE p = BadPoint
  <2>1. Read(<<"spset", i, p>>, c, "FAIL", {})
    BY <1>2 DEF SpSet, SpNew, SpMove
  <2> QED BY <1>2, <2>1, ReadShown DEF Keyspace!SpSet
<1>3. CASE p # BadPoint
  <2>1. /\ p \in Point /\ Geo[p] \in Hash /\ IdxKey(Geo[p], i) \in TrieKey
        /\ PointHead(p).pt = p
    BY <1>3, HeadForms, KeyTypes
  <2>2. trie \in [Slot -> [TrieKey -> Addr \cup {Member, NoValue}]]
    BY DEF Inv, TypeOK
  <2>3. SpNew(c, i, p) \/ SpMove(c, i, p)
    BY <1>3 DEF SpSet
  <2>4. slot' = slot /\ Keyspace!Replies(<<"spset", i, p>>, c, "OK", {})
    BY <2>3, RepliesShown DEF SpNew, SpMove
  <2>5. Rewrites(slot[c], SpKey(i), PointHead(p)) /\ KeepsSets
    <3>1. CASE Search(c, SpKey(i)) = NoValue
      <4>1. SpNew(c, i, p)
        BY <1>3, <3>1 DEF SpSet
      <4>2. PICK a \in FreeAddrs :
              /\ heap' = [heap EXCEPT ![a] = PointHead(p)]
              /\ trie' = [trie EXCEPT ![slot[c]] =
                            [@ EXCEPT ![SpKey(i)] = a, ![IdxKey(Geo[p], i)] = a]]
        BY <4>1 DEF SpNew
      <4>3. a \in Addr \cup {Member, NoValue} /\ SpKey(i) # IdxKey(Geo[p], i)
        BY <2>1, PointKeys DEF FreeAddrs
      <4>4. TwoKeys(slot[c], SpKey(i), IdxKey(Geo[p], i), a, a)
        BY <1>1, <2>1, <2>2, <4>2, <4>3, TwoKeysStep
      <4> QED BY <1>1, <2>1, <4>2, <4>4, SpNewRewrites
    <3>2. CASE Search(c, SpKey(i)) # NoValue
      <4>1. SpMove(c, i, p)
        BY <1>3, <3>2 DEF SpSet
      <4>2. PICK a : a = trie[slot[c]][SpKey(i)]
        OBVIOUS
      <4>3. a # NoValue /\ a \in Addr /\ heap[a].geo \in Hash
        BY <1>1, <3>2, <4>2, PointHeads DEF Search
      <4>4. heap' = [heap EXCEPT ![a] = PointHead(p)]
        BY <4>1, <4>2 DEF SpMove, Search
      <4>5. \A t \in Slot, x \in TrieKey : x[1] # "b" => trie'[t][x] = trie[t][x]
        <5>1. CASE Geo[p] = heap[a].geo
          BY <4>1, <4>2, <5>1 DEF SpMove, Search
        <5>2. CASE Geo[p] # heap[a].geo
          <6>1. trie' = [trie EXCEPT ![slot[c]] =
                  [@ EXCEPT ![IdxKey(Geo[p], i)] = a, ![IdxKey(heap[a].geo, i)] = NoValue]]
            BY <4>1, <4>2, <5>2 DEF SpMove, Search, Reindex
          <6>2. /\ IdxKey(Geo[p], i) # IdxKey(heap[a].geo, i)
                /\ IdxKey(heap[a].geo, i) \in TrieKey
                /\ IdxKey(heap[a].geo, i)[1] = "b" /\ IdxKey(Geo[p], i)[1] = "b"
            BY <2>1, <4>3, <5>2, PointKeys, KeyTypes
          <6>3. TwoKeys(slot[c], IdxKey(Geo[p], i), IdxKey(heap[a].geo, i), a, NoValue)
            <7>1. a \in Addr \cup {Member, NoValue} /\ NoValue \in Addr \cup {Member, NoValue}
              BY <4>3
            <7> QED BY <1>1, <2>1, <2>2, <6>1, <6>2, <7>1, TwoKeysStep
          <6> QED BY <6>2, <6>3 DEF TwoKeys
        <5> QED BY <5>1, <5>2
      <4> QED BY <1>1, <4>2, <4>3, <4>4, <4>5, SpMoveRewrites
    <3> QED BY <3>1, <3>2
  <2>6. Points' = [Points EXCEPT ![slot[c]][i] = p] /\ UNCHANGED <<Kvs, Hashes, Sets, Lists>>
    BY <1>1, <2>1, <2>5, PointRewritten
  <2> QED BY <1>3, <2>4, <2>6 DEF Keyspace!SpSet
<1> QED BY <1>2, <1>3

LEMMA SpGetShown ==
    ASSUME Inv, NEW c \in Conn, NEW i \in Id, SpGet(c, i)
    PROVE  Keyspace!SpGet(c, i)
<1>1. slot[c] \in Slot
  BY DEF Inv, TypeOK
<1>2. CASE Search(c, SpKey(i)) = NoValue
  <2>1. Points[slot[c]][i] = Null
    BY <1>1, <1>2, PointsShown DEF Search
  <2>2. Keyspace!Read(<<"spget", i>>, c, "FAIL", {})
    BY <1>2, ReadShown DEF SpGet
  <2> QED BY <2>1, <2>2 DEF Keyspace!SpGet, Keyspace!Status, Keyspace!Found
<1>3. CASE Search(c, SpKey(i)) # NoValue
  <2>1. Points[slot[c]][i] # Null /\ Points[slot[c]][i] = heap[Search(c, SpKey(i))].pt
    BY <1>1, <1>3, PointsShown DEF Search
  <2>2. Keyspace!Read(<<"spget", i>>, c, "OK", {Points[slot[c]][i]})
    BY <1>3, <2>1, ReadShown DEF SpGet
  <2> QED BY <2>1, <2>2 DEF Keyspace!SpGet, Keyspace!Status, Keyspace!Found
<1> QED BY <1>2, <1>3

LEMMA SpDelShown ==
    ASSUME Inv, NEW c \in Conn, NEW i \in Id, SpDel(c, i)
    PROVE  Keyspace!SpDel(c, i)
<1>1. slot[c] \in Slot /\ SpKey(i) \in TrieKey
  BY KeyTypes DEF Inv, TypeOK
<1>2. CASE Search(c, SpKey(i)) = NoValue
  <2>1. Points[slot[c]][i] = Null
    BY <1>1, <1>2, PointsShown DEF Search
  <2>2. Keyspace!Read(<<"spdel", i>>, c, "FAIL", {})
    BY <1>2, ReadShown DEF SpDel
  <2>3. Points = [Points EXCEPT ![slot[c]][i] = Null]
    BY <1>1, <2>1, SameEntries
  <2> QED BY <2>1, <2>2, <2>3
    DEF Keyspace!SpDel, Keyspace!Status, Keyspace!Read, Keyspace!data
<1>3. CASE Search(c, SpKey(i)) # NoValue
  <2>1. PICK a : a = trie[slot[c]][SpKey(i)]
    OBVIOUS
  <2>2. a # NoValue /\ a \in Addr /\ heap[a].geo \in Hash
    BY <1>3, <2>1, <1>1, PointHeads DEF Search
  <2>3. /\ slot' = slot /\ heap' = [heap EXCEPT ![a] = Free]
        /\ trie' = [trie EXCEPT ![slot[c]] =
              [@ EXCEPT ![SpKey(i)] = NoValue, ![IdxKey(heap[a].geo, i)] = NoValue]]
        /\ Keyspace!Replies(<<"spdel", i>>, c, "OK", {})
    BY <1>3, <2>1, RepliesShown DEF SpDel, Search
  <2>4. SpKey(i) # IdxKey(heap[a].geo, i) /\ IdxKey(heap[a].geo, i) \in TrieKey
    BY <2>2, PointKeys, KeyTypes
  <2>5. trie \in [Slot -> [TrieKey -> Addr \cup {Member, NoValue}]]
    BY DEF Inv, TypeOK
  <2>6. TwoKeys(slot[c], SpKey(i), IdxKey(heap[a].geo, i), NoValue, NoValue)
    <3>1. NoValue \in Addr \cup {Member, NoValue}
      OBVIOUS
    <3> QED BY <1>1, <2>3, <2>4, <2>5, <3>1, TwoKeysStep
  <2>7. Rewrites(slot[c], SpKey(i), Free) /\ KeepsSets
    BY <1>1, <2>1, <2>2, <2>3, <2>6, SpDelRewrites
  <2>8. Free.pt = Null /\ Points[slot[c]][i] # Null
    BY <1>1, <1>3, PointsShown DEF Free, Search
  <2>9. Points' = [Points EXCEPT ![slot[c]][i] = Null] /\ UNCHANGED <<Kvs, Hashes, Sets, Lists>>
    BY <1>1, <2>7, <2>8, PointRewritten
  <2> QED BY <2>3, <2>8, <2>9 DEF Keyspace!SpDel, Keyspace!Status
<1> QED BY <1>2, <1>3

\* The index leads to the points in the rectangle, all of them
LEMMA SpRectShown ==
    ASSUME Inv, CoversReach, NEW c \in Conn, NEW r \in Rect \cup {BadRect}, SpRect(c, r)
    PROVE  Keyspace!SpRect(c, r)
<1>1. slot[c] \in Slot
  BY DEF Inv, TypeOK
<1>2. CASE r = BadRect
  <2>1. Read(<<"sprect", r>>, c, "FAIL", {})
    BY <1>2 DEF SpRect
  <2> QED BY <1>2, <2>1, ReadShown DEF Keyspace!SpRect
<1>3. CASE r # BadRect
  <2> DEFINE S == slot[c]
             hit(i) == \E g \in Cover[r] :
                          /\ Search(c, IdxKey(g, i)) # NoValue
                          /\ heap[Search(c, IdxKey(g, i))].pt \in Inside[r]
  <2>1. r \in Rect /\ Inside[r] \subseteq Point /\ Cover[r] \subseteq Hash
    BY <1>3, PointAssumption
  <2>2. ASSUME NEW i \in Id
        PROVE  hit(i) <=> Points[S][i] \in Inside[r]
    <3>1. ASSUME hit(i) PROVE Points[S][i] \in Inside[r]
      <4>1. PICK g \in Cover[r] : /\ trie[S][IdxKey(g, i)] # NoValue
                                  /\ heap[trie[S][IdxKey(g, i)]].pt \in Inside[r]
        BY <3>1 DEF Search
      <4>2. trie[S][IdxKey(g, i)] = trie[S][SpKey(i)]
        BY <1>1, <2>1, <4>1 DEF Inv, SpIndex
      <4>3. Points[S][i] = heap[trie[S][SpKey(i)]].pt
        BY <1>1, <4>1, <4>2, PointsShown
      <4> QED BY <4>1, <4>2, <4>3
    <3>2. ASSUME Points[S][i] \in Inside[r] PROVE hit(i)
      <4>1. trie[S][SpKey(i)] # NoValue
        BY <1>1, <2>1, <3>2, PointsShown, NullAssumption
      <4>2. Points[S][i] = heap[trie[S][SpKey(i)]].pt
        BY <1>1, <4>1, PointsShown
      <4>3. PICK g : g = heap[trie[S][SpKey(i)]].geo
        OBVIOUS
      <4>4. trie[S][IdxKey(g, i)] # NoValue /\ g = Geo[Points[S][i]]
        BY <1>1, <4>1, <4>2, <4>3 DEF Inv, SpIndex
      <4>5. g \in Cover[r]
        BY <2>1, <3>2, <4>4 DEF CoversReach
      <4>6. trie[S][IdxKey(g, i)] = trie[S][SpKey(i)]
        BY <1>1, <2>1, <4>4, <4>5 DEF Inv, SpIndex
      <4> QED BY <3>2, <4>2, <4>4, <4>5, <4>6 DEF Search
    <3> QED BY <3>1, <3>2
  <2>3. Read(<<"sprect", r>>, c, "OK", {i \in Id \ Unlisted : hit(i)})
    BY <1>3 DEF SpRect
  <2>4. {i \in Id \ Unlisted : hit(i)} = {i \in Id \ Unlisted : Points[S][i] \in Inside[r]}
    BY <2>2
  <2> HIDE DEF hit
  <2>5. Keyspace!Read(<<"sprect", r>>, c, "OK", {i \in Id \ Unlisted : Points[S][i] \in Inside[r]})
    BY <2>3, <2>4, ReadShown
  <2> QED BY <1>3, <2>5 DEF Keyspace!SpRect
<1> QED BY <1>2, <1>3

-----------------------------------------------------------------------------
\* Nothing but empty data is shown at first
LEMMA InitShown == Init => Keyspace!Init
<1> SUFFICES ASSUME Init PROVE Keyspace!Init
  OBVIOUS
<1>1. \A s \in Slot, x \in TrieKey : trie[s][x] = NoValue /\ HeadAt(s, x) = Free
  BY PtrAssumption DEF Init, HeadAt
<1>2. Kvs = [s \in Slot |-> [k \in Key |-> Null]]
  <2>1. \A s \in Slot, k \in Key : HeadAt(s, KvKey(k)).val = Null
    BY <1>1, KeyTypes DEF Free
  <2> QED BY <2>1 DEF Kvs
<1>3. Hashes = [s \in Slot |-> [n \in Name |-> [k \in Key |-> Null]]]
  <2>1. \A s \in Slot, n \in Name, k \in Key : HeadAt(s, HashKey(n, k)).val = Null
    BY <1>1, KeyTypes DEF Free
  <2> QED BY <2>1 DEF Hashes
<1>4. Sets = [s \in Slot |-> [n \in Name |-> {}]]
  <2>1. \A s \in Slot, n \in Name : {k \in Key : trie[s][SetKey(n, k)] # NoValue} = {}
    BY <1>1, KeyTypes
  <2> QED BY <2>1 DEF Sets
<1>5. Lists = [s \in Slot |-> [l \in ListName |-> << >>]]
  <2>1. \A s \in Slot, l \in ListName : HeadAt(s, ListKey(l)).list = << >>
    BY <1>1, KeyTypes DEF Free
  <2> QED BY <2>1 DEF Lists
<1>6. Points = [s \in Slot |-> [i \in Id |-> Null]]
  <2>1. \A s \in Slot, i \in Id : HeadAt(s, SpKey(i)).pt = Null
    BY <1>1, KeyTypes DEF Free
  <2> QED BY <2>1 DEF Points
<1>7. slot = [c \in Conn |-> 0] /\ reply = << >>
  BY DEF Init
<1> QED BY <1>2, <1>3, <1>4, <1>5, <1>6, <1>7 DEF Keyspace!Init, Keyspace!Slot, Slot

\* A command of EtdbDatabase is the command of EtdbKeyspace
LEMMA CommandShown ==
    ASSUME Inv, DistinctNames, CoversReach, Next
    PROVE  Keyspace!Next
<1>1. PICK c \in Conn :
        \/ SysCommands(c) \/ KvCommands(c) \/ HashCommands(c)
        \/ SetCommands(c) \/ ListCommands(c) \/ SpCommands(c)
  BY DEF Next
<1>2. CASE SysCommands(c)
  <2>1. Keyspace!Where(c) \/ \E n \in 0..(MaxSlot + 1) : Keyspace!Use(c, n)
    BY <1>2, UseShown, WhereShown DEF SysCommands
  <2> QED BY <2>1 DEF Keyspace!Next
<1>3. CASE KvCommands(c)
  <2>1. \/ \E k \in Key, v \in Value : Keyspace!KvSet(c, k, v)
        \/ \E k \in Key : \/ Keyspace!KvGet(c, k) \/ Keyspace!KvDel(c, k)
                          \/ Keyspace!KvMatchLongest(c, k)
    BY <1>3, KvSetShown, KvGetShown, KvDelShown, KvMatchLongestShown DEF KvCommands
  <2> QED BY <2>1 DEF Keyspace!Next
<1>4. CASE HashCommands(c)
  <2>1. \/ \E n \in Name, k \in Key, v \in Value :
              Keyspace!HashSet(c, n, k, v) \/ Keyspace!Refuse(<<"hset", n, k, v>>, c, n)
        \/ \E n \in Name, k \in Key :
              \/ Keyspace!HashGet(c, n, k) \/ Keyspace!HashDel(c, n, k)
              \/ Keyspace!Refuse(<<"hget", n, k>>, c, n)
              \/ Keyspace!Refuse(<<"hdel", n, k>>, c, n)
    BY <1>4, HashSetShown, HashGetShown, HashDelShown DEF HashCommands
  <2> QED BY <2>1 DEF Keyspace!Next
<1>5. CASE SetCommands(c)
  <2>1. \/ \E n \in Name, ks \in Keys :
              \/ Keyspace!SetAdd(c, n, ks) \/ Keyspace!SetDel(c, n, ks)
              \/ Keyspace!Refuse(<<"sadd", n, ks>>, c, n)
              \/ Keyspace!Refuse(<<"sdel", n, ks>>, c, n)
        \/ \E n \in Name, k \in Key : Keyspace!SetIsMember(c, n, k)
        \/ \E n \in Name : Keyspace!SetMembers(c, n)
    BY <1>5, SetAddShown, SetDelShown, SetReadShown DEF SetCommands
  <2> QED BY <2>1 DEF Keyspace!Next
<1>6. CASE ListCommands(c)
  <2>1. \/ \E l \in ListName, v \in Value :
              Keyspace!ListLpush(c, l, v) \/ Keyspace!ListRpush(c, l, v)
        \/ \E l \in ListName : \/ Keyspace!ListLpop(c, l) \/ Keyspace!ListRpop(c, l)
                               \/ Keyspace!ListLtop(c, l) \/ Keyspace!ListRtop(c, l)
    BY <1>6, PushShown, PopShown, TopShown DEF ListCommands
  <2> QED BY <2>1 DEF Keyspace!Next
<1>7. CASE SpCommands(c)
  <2>1. \/ \E i \in Id, p \in Point \cup {BadPoint} : Keyspace!SpSet(c, i, p)
        \/ \E i \in Id : Keyspace!SpGet(c, i) \/ Keyspace!SpDel(c, i)
        \/ \E r \in Rect \cup {BadRect} : Keyspace!SpRect(c, r)
    BY <1>7, SpSetShown, SpGetShown, SpDelShown, SpRectShown DEF SpCommands
  <2> QED BY <2>1 DEF Keyspace!Next
<1> QED BY <1>1, <1>2, <1>3, <1>4, <1>5, <1>6, <1>7

\* Every command has the effect and the reply that it has on a plain key space
\* whose listings leave out Unlisted, in the slot of its connection and nowhere
\* else, whatever the tries and the heap went through, as long as names differ
\* in the byte that the keys keep of their length and covers reach the points
\* of their rectangles.
THEOREM KeyspaceImplemented ==
    ASSUME DistinctNames, CoversReach
    PROVE  Spec => Refinement
<1>1. Init => Keyspace!Init
  BY InitShown
<1>2. Inv /\ [Next]_vars => [Keyspace!Next]_(Keyspace!vars)
  <2> SUFFICES ASSUME Inv, [Next]_vars
               PROVE  Keyspace!Next \/ UNCHANGED Keyspace!vars
    OBVIOUS
  <2>1. CASE Next
    BY <2>1, CommandShown
  <2>2. CASE UNCHANGED vars
    <3>1. UNCHANGED <<slot, Kvs, Hashes, Sets, Lists, Points, reply>>
      BY <2>2, AllKept DEF vars
    <3> QED BY <3>1 DEF Keyspace!vars
  <2> QED BY <2>1, <2>2
<1> QED BY <1>1, <1>2, Invariance, PTL DEF Spec, Refinement, Keyspace!Spec
=============================================================================
