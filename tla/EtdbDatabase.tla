----------------------------- MODULE EtdbDatabase -----------------------------
(***************************************************************************)
(* The data commands (src/src/modules/) and the database they work on      *)
(* (src/src/etdb_database.c): one trie per slot, whose values are pointers *)
(* to heads on the heap.  A head is reached from one trie key, a point's   *)
(* from two: its id, and its geohash followed by its id.                   *)
(*                                                                         *)
(* A command runs to its end before the next one begins: the event loop    *)
(* is a single thread.  A trie key is <<type byte, what follows it, the    *)
(* rest>>; the middle part has a fixed length for each type (nothing, one  *)
(* byte, a geohash), so keys are equal exactly when their parts are.       *)
(***************************************************************************)
EXTENDS Integers, Sequences

CONSTANTS
    Conn,      \* the connections
    MaxSlot,   \* ETDB_DATABASE_MAX_SLOT
    Key,       \* keys of values, hash fields and set members
    Keys,      \* the sequences of keys one sadd or sdel may name
    KeyLen,    \* KeyLen[k]: the length of k
    Prefixes,  \* Prefixes[k]: the keys that are prefixes of k
    Name,      \* names of hashes and sets
    NameLen,   \* NameLen[n]: the length of n
    Value,
    ListName,
    MaxList,   \* the bound on the length of a list
    Id,        \* ids of points
    Unlisted,  \* what the traversal of a trie passes over: keys and ids
               \* that hold a byte 0, and the empty key
    Point,     \* coordinates that etdb_atof reads and that are in range
    Hash,      \* geohashes of full precision
    Geo,       \* Geo[p]: the geohash of p
    Rect,      \* rectangles
    Inside,    \* Inside[r]: the points in r
    Cover,     \* Cover[r]: the geohashes with the prefix
               \* etdb_geo_hash_get_max_cover finds for r, {} if it finds none
    BadPoint, BadRect,  \* coordinates that are refused
    Addr,      \* heap addresses
    Null, NoValue, Member

ASSUME PtrAssumption ==
    /\ NoValue \notin Addr /\ Member \notin Addr /\ Member # NoValue
ASSUME SlotAssumption == MaxSlot \in Nat \ {0}
ASSUME KeyAssumption ==
    /\ Keys \subseteq Seq(Key) /\ KeyLen \in [Key -> Nat]
    /\ Prefixes \in [Key -> SUBSET Key] /\ NameLen \in [Name -> Nat]
ASSUME PointAssumption ==
    /\ Geo \in [Point -> Hash] /\ BadPoint \notin Point
    /\ Inside \in [Rect -> SUBSET Point] /\ Cover \in [Rect -> SUBSET Hash]
    /\ BadRect \notin Rect
ASSUME NullAssumption == Null \notin Value /\ Null \notin Point /\ Null \notin Hash

VARIABLES
    slot,   \* slot[c]: etdb_connection_t.slot
    trie,   \* trie[s][k]: the value of the key, NoValue when it is absent
    heap,   \* heap[a]: the head allocated at a
    reply   \* the last response: <<command and arguments, connection,
            \* status, data>>

vars == <<slot, trie, heap, reply>>

Slot == 0..(MaxSlot - 1)
Byte(n) == n % 256

-----------------------------------------------------------------------------
(* Trie keys: etdb_database_encode_*_head *)

KvKey(k) == <<"0", Null, k>>

\* Variant of HashKey: the fields of a hash are stored as plain values
HashKeyNoHead(n, k) == <<"0", Null, k>>

\* The loop that would copy the name never runs: pos starts at 0
HashKey(n, k) == <<"1", Byte(NameLen[n]), k>>
SetKey(n, k) == <<"2", Byte(NameLen[n]), k>>
ListKey(l) == <<"3", Null, l>>
SpKey(i) == <<"a", Null, i>>
IdxKey(g, i) == <<"b", g, i>>

NameBytes == {Byte(NameLen[n]) : n \in Name}
TrieKey == ({"0"} \X {Null} \X Key) \cup ({"1", "2"} \X NameBytes \X Key)
           \cup ({"3"} \X {Null} \X ListName) \cup ({"a"} \X {Null} \X Id)
           \cup ({"b"} \X Hash \X Id)

-----------------------------------------------------------------------------
(* Heads: etdb_value_head_t, etdb_list_t and etdb_value_sp_head_t *)

Free == [type |-> "free", val |-> Null, list |-> << >>, pt |-> Null, geo |-> Null]
ValueHead(t, v) == [type |-> t, val |-> v, list |-> << >>, pt |-> Null, geo |-> Null]
ListHead(s) == [type |-> "list", val |-> Null, list |-> s, pt |-> Null, geo |-> Null]
PointHead(p) == [type |-> "sp", val |-> Null, list |-> << >>, pt |-> p, geo |-> Geo[p]]

FreeAddrs == {a \in Addr : heap[a] = Free}

Init ==
    /\ slot = [c \in Conn |-> 0]
    /\ trie = [s \in Slot |-> [k \in TrieKey |-> NoValue]]
    /\ heap = [a \in Addr |-> Free]
    /\ reply = << >>

Replies(cmd, c, status, d) == reply' = <<cmd, c, status, d>>

\* etdb_trie_exact_match_search, etdb_trie_update and etdb_trie_erase in the
\* trie of c.  etdb_trie_update returns the old value, which is never
\* negative: the callers' failure paths are not reachable.
Search(c, k) == trie[slot[c]][k]
Update(c, k, p) == trie' = [trie EXCEPT ![slot[c]][k] = p]

\* A command that answers and changes nothing
Read(cmd, c, status, d) ==
    Replies(cmd, c, status, d) /\ UNCHANGED <<slot, trie, heap>>

-----------------------------------------------------------------------------
(* sys: use and where *)

Use(c, n) ==
    \/ /\ n \notin 1..MaxSlot
       /\ Read(<<"use", n>>, c, "FAIL", {})
    \/ /\ n \in 1..MaxSlot
       /\ slot' = [slot EXCEPT ![c] = n - 1]
       /\ Replies(<<"use", n>>, c, "OK", {})
       /\ UNCHANGED <<trie, heap>>

\* The handler has no return statement: the status is whatever is there
Where(c) == \E status \in {"OK", "FAIL"} : Read(<<"where">>, c, status, {slot[c] + 1})

-----------------------------------------------------------------------------
(* Plain values and hash fields: a head of their own *)

\* The head of an overwritten key is not freed
Put(cmd, c, k, t, v) ==
    \E a \in FreeAddrs :
        /\ heap' = [heap EXCEPT ![a] = ValueHead(t, v)]
        /\ Update(c, k, a)
        /\ Replies(cmd, c, "OK", {})
        /\ UNCHANGED slot

Get(cmd, c, k) ==
    IF Search(c, k) = NoValue THEN Read(cmd, c, "FAIL", {})
    ELSE Read(cmd, c, "OK", {heap[Search(c, k)].val})

\* Variant of Del: the head is freed and the key stays
DelKeepsKey(cmd, c, k) ==
    \/ Search(c, k) = NoValue /\ Read(cmd, c, "FAIL", {})
    \/ /\ Search(c, k) # NoValue
       /\ heap' = [heap EXCEPT ![Search(c, k)] = Free]
       /\ Replies(cmd, c, "OK", {})
       /\ UNCHANGED <<slot, trie>>

Del(cmd, c, k) ==
    \/ Search(c, k) = NoValue /\ Read(cmd, c, "FAIL", {})
    \/ /\ Search(c, k) # NoValue
       /\ heap' = [heap EXCEPT ![Search(c, k)] = Free]
       /\ Update(c, k, NoValue)
       /\ Replies(cmd, c, "OK", {})
       /\ UNCHANGED slot

KvSet(c, k, v) == Put(<<"set", k, v>>, c, KvKey(k), "kv", v)
KvGet(c, k) == Get(<<"get", k>>, c, KvKey(k))
KvDel(c, k) == Del(<<"del", k>>, c, KvKey(k))

\* etdb_trie_match_longest_search passes the keys from the shortest on
KvMatchLongest(c, k) ==
    LET at == {q \in Prefixes[k] : Search(c, KvKey(q)) # NoValue}
    IN  \/ at = {} /\ Read(<<"matchlongest", k>>, c, "FAIL", {})
        \/ \E q \in at :
             /\ \A r \in at : KeyLen[r] <= KeyLen[q]
             /\ Read(<<"matchlongest", k>>, c, "OK",
                     {<<heap[Search(c, KvKey(q))].val, KeyLen[q]>>})

\* The handlers refuse a name whose length does not fit a byte
TooLong(cmd, c, n) == NameLen[n] > 255 /\ Read(cmd, c, "FAIL", {})

HashSet(c, n, k, v) ==
    \/ TooLong(<<"hset", n, k, v>>, c, n)
    \/ NameLen[n] <= 255 /\ Put(<<"hset", n, k, v>>, c, HashKey(n, k), "hash", v)
HashGet(c, n, k) ==
    \/ TooLong(<<"hget", n, k>>, c, n)
    \/ NameLen[n] <= 255 /\ Get(<<"hget", n, k>>, c, HashKey(n, k))
HashDel(c, n, k) ==
    \/ TooLong(<<"hdel", n, k>>, c, n)
    \/ NameLen[n] <= 255 /\ Del(<<"hdel", n, k>>, c, HashKey(n, k))

-----------------------------------------------------------------------------
(* Sets: the value of a member is the number 1 *)

SetAdd(c, n, ks) ==
    \/ TooLong(<<"sadd", n, ks>>, c, n)
    \/ /\ NameLen[n] <= 255
       /\ trie' = [trie EXCEPT ![slot[c]] = [k \in TrieKey |->
                     IF \E i \in DOMAIN ks : k = SetKey(n, ks[i]) THEN Member ELSE @[k]]]
       /\ Replies(<<"sadd", n, ks>>, c, "OK", {})
       /\ UNCHANGED <<slot, heap>>

\* Variant of Erases: the loop goes on after a missing member
ErasesAll(c, n, ks, j) == Search(c, SetKey(n, ks[j])) # NoValue

\* The loop of etdb_set_del_handler erases ks[j] when it has met no key that
\* is missing, or that it has erased itself, up to j
Erases(c, n, ks, j) ==
    \A i \in 1..j : /\ Search(c, SetKey(n, ks[i])) # NoValue
                    /\ \A h \in 1..(i - 1) : ks[h] # ks[i]

SetDel(c, n, ks) ==
    \/ TooLong(<<"sdel", n, ks>>, c, n)
    \/ /\ NameLen[n] <= 255
       /\ trie' = [trie EXCEPT ![slot[c]] = [k \in TrieKey |->
                     IF \E j \in DOMAIN ks : Erases(c, n, ks, j) /\ k = SetKey(n, ks[j])
                     THEN NoValue ELSE @[k]]]
       /\ Replies(<<"sdel", n, ks>>, c,
                  IF Erases(c, n, ks, Len(ks)) THEN "OK" ELSE "FAIL", {})
       /\ UNCHANGED <<slot, heap>>

\* etdb_trie_common_prefix_path_search meets what follows the prefix in a
\* longer key, if it holds no byte 0 (Searches of module EtdbTrie)
SetMembers(c, n) ==
    Read(<<"smembers", n>>, c, "OK",
         {k \in Key \ Unlisted : Search(c, SetKey(n, k)) # NoValue})

SetIsMember(c, n, k) ==
    Read(<<"sismember", n, k>>, c, "OK",
         {IF Search(c, SetKey(n, k)) = NoValue THEN 0 ELSE 1})

-----------------------------------------------------------------------------
(* Lists.  A push command stores the first of its values only. *)

NewList(cmd, c, l, v) ==
    \E a \in FreeAddrs :
        /\ heap' = [heap EXCEPT ![a] = ListHead(<<v>>)]
        /\ Update(c, ListKey(l), a)
        /\ Replies(cmd, c, "OK", {})
        /\ UNCHANGED slot

Push(cmd, c, l, s) ==
    /\ Len(s) <= MaxList
    /\ heap' = [heap EXCEPT ![Search(c, ListKey(l))] = ListHead(s)]
    /\ Replies(cmd, c, "OK", {})
    /\ UNCHANGED <<slot, trie>>

ListLpush(c, l, v) ==
    IF Search(c, ListKey(l)) = NoValue THEN NewList(<<"lpush", l, v>>, c, l, v)
    ELSE Push(<<"lpush", l, v>>, c, l, <<v>> \o heap[Search(c, ListKey(l))].list)

ListRpush(c, l, v) ==
    IF Search(c, ListKey(l)) = NoValue THEN NewList(<<"rpush", l, v>>, c, l, v)
    ELSE Push(<<"rpush", l, v>>, c, l, Append(heap[Search(c, ListKey(l))].list, v))

\* Variant of Pop: an emptied list is erased but its head stays
PopKeepsHead(cmd, c, l, s) ==
    /\ heap' = [heap EXCEPT ![Search(c, ListKey(l))] = ListHead(s)]
    /\ IF s # << >> THEN UNCHANGED trie ELSE Update(c, ListKey(l), NoValue)
    /\ Replies(cmd, c, "OK", {})
    /\ UNCHANGED slot

\* The list becomes s; an emptied list is erased and its head freed
Pop(cmd, c, l, s) ==
    /\ \/ /\ s # << >>
          /\ heap' = [heap EXCEPT ![Search(c, ListKey(l))] = ListHead(s)]
          /\ UNCHANGED trie
       \/ /\ s = << >>
          /\ heap' = [heap EXCEPT ![Search(c, ListKey(l))] = Free]
          /\ Update(c, ListKey(l), NoValue)
    /\ Replies(cmd, c, "OK", {})
    /\ UNCHANGED slot

NoList(c, l) ==
    \/ Search(c, ListKey(l)) = NoValue
    \/ heap[Search(c, ListKey(l))].list = << >>

ListLpop(c, l) ==
    IF NoList(c, l) THEN Read(<<"lpop", l>>, c, "FAIL", {})
    ELSE Pop(<<"lpop", l>>, c, l, Tail(heap[Search(c, ListKey(l))].list))

ListRpop(c, l) ==
    LET s == heap[Search(c, ListKey(l))].list
    IN  IF NoList(c, l) THEN Read(<<"rpop", l>>, c, "FAIL", {})
        ELSE Pop(<<"rpop", l>>, c, l, SubSeq(s, 1, Len(s) - 1))

ListLtop(c, l) ==
    IF NoList(c, l) THEN Read(<<"ltop", l>>, c, "FAIL", {})
    ELSE Read(<<"ltop", l>>, c, "OK", {heap[Search(c, ListKey(l))].list[1]})

ListRtop(c, l) ==
    LET s == heap[Search(c, ListKey(l))].list
    IN  IF NoList(c, l) THEN Read(<<"rtop", l>>, c, "FAIL", {})
        ELSE Read(<<"rtop", l>>, c, "OK", {s[Len(s)]})

-----------------------------------------------------------------------------
(* Spatial points: two trie keys, one head *)

SpNew(c, i, p) ==
    \E a \in FreeAddrs :
        /\ heap' = [heap EXCEPT ![a] = PointHead(p)]
        /\ trie' = [trie EXCEPT ![slot[c]] =
                      [@ EXCEPT ![SpKey(i)] = a, ![IdxKey(Geo[p], i)] = a]]
        /\ Replies(<<"spset", i, p>>, c, "OK", {})
        /\ UNCHANGED slot

\* Variant of Reindex: the old index key is not erased
ReindexKeepsOld(t, i, old, new, a) == [t EXCEPT ![IdxKey(new, i)] = a]

\* The index key of the new geohash comes before the old one goes
Reindex(t, i, old, new, a) ==
    [t EXCEPT ![IdxKey(new, i)] = a, ![IdxKey(old, i)] = NoValue]

SpMove(c, i, p) ==
    LET a == Search(c, SpKey(i))
    IN  /\ trie' = IF Geo[p] = heap[a].geo THEN trie
                   ELSE [trie EXCEPT ![slot[c]] = Reindex(@, i, heap[a].geo, Geo[p], a)]
        /\ heap' = [heap EXCEPT ![a] = PointHead(p)]
        /\ Replies(<<"spset", i, p>>, c, "OK", {})
        /\ UNCHANGED slot

SpSet(c, i, p) ==
    \/ p = BadPoint /\ Read(<<"spset", i, p>>, c, "FAIL", {})
    \/ p # BadPoint /\ Search(c, SpKey(i)) = NoValue /\ SpNew(c, i, p)
    \/ p # BadPoint /\ Search(c, SpKey(i)) # NoValue /\ SpMove(c, i, p)

SpGet(c, i) ==
    IF Search(c, SpKey(i)) = NoValue THEN Read(<<"spget", i>>, c, "FAIL", {})
    ELSE Read(<<"spget", i>>, c, "OK", {heap[Search(c, SpKey(i))].pt})

SpDel(c, i) ==
    LET a == Search(c, SpKey(i))
    IN  \/ a = NoValue /\ Read(<<"spdel", i>>, c, "FAIL", {})
        \/ /\ a # NoValue
           /\ trie' = [trie EXCEPT ![slot[c]] =
                         [@ EXCEPT ![SpKey(i)] = NoValue,
                                   ![IdxKey(heap[a].geo, i)] = NoValue]]
           /\ heap' = [heap EXCEPT ![a] = Free]
           /\ Replies(<<"spdel", i>>, c, "OK", {})
           /\ UNCHANGED slot

\* The index keys that the traversal meets under the prefix, less those whose
\* head is outside
SpRect(c, r) ==
    \/ r = BadRect /\ Read(<<"sprect", r>>, c, "FAIL", {})
    \/ /\ r # BadRect
       /\ Read(<<"sprect", r>>, c, "OK",
               {i \in Id \ Unlisted : \E g \in Cover[r] :
                   /\ Search(c, IdxKey(g, i)) # NoValue
                   /\ heap[Search(c, IdxKey(g, i))].pt \in Inside[r]})

-----------------------------------------------------------------------------
(* The commands of each module *)

SysCommands(c) == Where(c) \/ \E n \in 0..(MaxSlot + 1) : Use(c, n)

KvCommands(c) ==
    \/ \E k \in Key, v \in Value : KvSet(c, k, v)
    \/ \E k \in Key : KvGet(c, k) \/ KvDel(c, k) \/ KvMatchLongest(c, k)

HashCommands(c) ==
    \/ \E n \in Name, k \in Key, v \in Value : HashSet(c, n, k, v)
    \/ \E n \in Name, k \in Key : HashGet(c, n, k) \/ HashDel(c, n, k)

SetCommands(c) ==
    \/ \E n \in Name, ks \in Keys : SetAdd(c, n, ks) \/ SetDel(c, n, ks)
    \/ \E n \in Name, k \in Key : SetIsMember(c, n, k)
    \/ \E n \in Name : SetMembers(c, n)

ListCommands(c) ==
    \/ \E l \in ListName, v \in Value : ListLpush(c, l, v) \/ ListRpush(c, l, v)
    \/ \E l \in ListName : ListLpop(c, l) \/ ListRpop(c, l)
    \/ \E l \in ListName : ListLtop(c, l) \/ ListRtop(c, l)

SpCommands(c) ==
    \/ \E i \in Id, p \in Point \cup {BadPoint} : SpSet(c, i, p)
    \/ \E i \in Id : SpGet(c, i) \/ SpDel(c, i)
    \/ \E r \in Rect \cup {BadRect} : SpRect(c, r)

Next == \E c \in Conn :
    \/ SysCommands(c)
    \/ KvCommands(c)
    \/ HashCommands(c)
    \/ SetCommands(c)
    \/ ListCommands(c)
    \/ SpCommands(c)

Spec == Init /\ [][Next]_vars

-----------------------------------------------------------------------------
(* Properties *)

Heads == [type : {"free", "kv", "hash", "list", "sp"}, val : Value \cup {Null},
         list : Seq(Value), pt : Point \cup {Null}, geo : Hash \cup {Null}]

\* The values the variables take (etdb_database.c, etdb_connection.h).
TypeOK ==
    /\ slot \in [Conn -> Slot]
    /\ trie \in [Slot -> [TrieKey -> Addr \cup {Member, NoValue}]]
    /\ heap \in [Addr -> Heads]

\* The type of the head a trie key leads to
HeadType == [t \in {"0", "1", "3", "a", "b"} |->
                CASE t = "0" -> "kv" [] t = "1" -> "hash" [] t = "3" -> "list"
                  [] t = "a" -> "sp" [] t = "b" -> "sp"]

\* A trie value is never a pointer to a freed head, nor to a head of another
\* type, nor a number where a pointer is expected: every head a command
\* dereferences is live and is what the command takes it for.
LiveHeads ==
    \A s \in Slot : \A k \in TrieKey : trie[s][k] # NoValue =>
        IF k[1] = "2" THEN trie[s][k] = Member
        ELSE trie[s][k] \in Addr /\ heap[trie[s][k]].type = HeadType[k[1]]

\* What a head belongs to: a point for its id and its index key, else the key
Owner(k) == IF k[1] \in {"a", "b"} THEN SpKey(k[3]) ELSE k

\* No two trie keys share a head, in any slots, but the id and the index key
\* of one point: a del frees nothing that another key still reaches.
OneOwner ==
    \A s, t \in Slot : \A j, k \in TrieKey :
        trie[s][j] \in Addr /\ trie[s][j] = trie[t][k]
            => s = t /\ Owner(j) = Owner(k)

\* A point's id and its index key come and go together: an index key leads
\* to the head of its id, the head carries the geohash of the index key and
\* of its own coordinates, and every point is in the index.
SpIndex ==
    \A s \in Slot : \A i \in Id :
        /\ \A g \in Hash : trie[s][IdxKey(g, i)] # NoValue =>
              /\ trie[s][IdxKey(g, i)] = trie[s][SpKey(i)]
              /\ heap[trie[s][SpKey(i)]].geo = g
        /\ trie[s][SpKey(i)] # NoValue =>
              /\ trie[s][IdxKey(heap[trie[s][SpKey(i)]].geo, i)] # NoValue
              /\ heap[trie[s][SpKey(i)]].geo = Geo[heap[trie[s][SpKey(i)]].pt]

\* A list that is in the trie has an element
ListsNotEmpty ==
    \A s \in Slot : \A l \in ListName : trie[s][ListKey(l)] # NoValue =>
        heap[trie[s][ListKey(l)]].list # << >>

\* Heads of lists and of points are never lost: only the head of a value
\* that was overwritten by set or hset becomes unreachable.
NoLostHead ==
    \A a \in Addr : heap[a].type \in {"list", "sp"} =>
        \E s \in Slot : \E k \in TrieKey : trie[s][k] = a

\* The pop that takes the last element takes the key out of the trie and frees
\* the head, both or neither, and so does spdel with the two keys of a point.
HeadsKept == ListsNotEmpty /\ NoLostHead

\* The commands on a plain key space (module EtdbKeyspace).  What a key of the
\* trie leads to, a free head if it is absent:
HeadAt(s, k) == IF trie[s][k] \in Addr THEN heap[trie[s][k]] ELSE Free

Kvs == [s \in Slot |-> [k \in Key |-> HeadAt(s, KvKey(k)).val]]
Hashes == [s \in Slot |-> [n \in Name |-> [k \in Key |-> HeadAt(s, HashKey(n, k)).val]]]
Sets == [s \in Slot |-> [n \in Name |-> {k \in Key : trie[s][SetKey(n, k)] # NoValue}]]
Lists == [s \in Slot |-> [l \in ListName |-> HeadAt(s, ListKey(l)).list]]
Points == [s \in Slot |-> [i \in Id |-> HeadAt(s, SpKey(i)).pt]]

Keyspace == INSTANCE EtdbKeyspace WITH
    kv <- Kvs, hash <- Hashes, set <- Sets, list <- Lists, point <- Points

\* Every command has the effect and the reply that it has on a plain key space,
\* in the slot of its connection and nowhere else. smembers and sprect leave out
\* what is in Unlisted, and nothing else; sismember and spget find it.
Refinement == Keyspace!Spec
=============================================================================
