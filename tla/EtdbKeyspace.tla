----------------------------- MODULE EtdbKeyspace -----------------------------
(***************************************************************************)
(* What the data commands of etdb do, for their callers (src/ChangeLog     *)
(* shows each of them once): slots that hold plain values, hashes and sets *)
(* by name, lists and points, with no trie, no heap and no index.          *)
(* EtdbDatabase implements it when no two names have lengths with the same *)
(* last byte and the covers of rectangles have their points.               *)
(*                                                                         *)
(* A listing does not show all there is: smembers and sprect leave out the *)
(* keys and ids in Unlisted.  And del of a stored key answers OK, although *)
(* ChangeLog shows FAIL for it.                                            *)
(***************************************************************************)
EXTENDS Integers, Sequences

CONSTANTS Conn, MaxSlot, Key, Keys, KeyLen, Prefixes, Name, NameLen, Value,
          ListName, Id, Point, Rect, Inside, BadPoint, BadRect, Null,
          Unlisted  \* the keys and ids that no listing shows

VARIABLES
    slot,   \* slot[c]: the slot connection c works in
    kv,     \* kv[s][k]: a value or Null
    hash,   \* hash[s][n][k]: a value or Null
    set,    \* set[s][n]: a set of keys
    list,   \* list[s][l]: a sequence of values
    point,  \* point[s][i]: a point or Null
    reply   \* the last reply: <<command and arguments, connection,
            \* status, data>>

data == <<kv, hash, set, list, point>>
vars == <<slot, kv, hash, set, list, point, reply>>

Slot == 0..(MaxSlot - 1)

Init ==
    /\ slot = [c \in Conn |-> 0]
    /\ kv = [s \in Slot |-> [k \in Key |-> Null]]
    /\ hash = [s \in Slot |-> [n \in Name |-> [k \in Key |-> Null]]]
    /\ set = [s \in Slot |-> [n \in Name |-> {}]]
    /\ list = [s \in Slot |-> [l \in ListName |-> << >>]]
    /\ point = [s \in Slot |-> [i \in Id |-> Null]]
    /\ reply = << >>

\* The command is compared first: TLC then passes over the others quickly
Replies(cmd, c, status, d) == reply'[1] = cmd /\ reply' = <<cmd, c, status, d>>
Status(b) == IF b THEN "OK" ELSE "FAIL"
Found(v) == IF v = Null THEN {} ELSE {v}

\* A command that changes nothing but the reply
Read(cmd, c, status, d) == Replies(cmd, c, status, d) /\ UNCHANGED <<slot, data>>

Use(c, n) ==
    /\ Replies(<<"use", n>>, c, Status(n \in 1..MaxSlot), {})
    /\ slot' = [slot EXCEPT ![c] = IF n \in 1..MaxSlot THEN n - 1 ELSE @]
    /\ UNCHANGED data

Where(c) == \E status \in {"OK", "FAIL"} : Read(<<"where">>, c, status, {slot[c] + 1})

-----------------------------------------------------------------------------
KvSet(c, k, v) ==
    /\ Replies(<<"set", k, v>>, c, "OK", {})
    /\ kv' = [kv EXCEPT ![slot[c]][k] = v]
    /\ UNCHANGED <<slot, hash, set, list, point>>

KvGet(c, k) ==
    Read(<<"get", k>>, c, Status(kv[slot[c]][k] # Null), Found(kv[slot[c]][k]))

KvDel(c, k) ==
    /\ Replies(<<"del", k>>, c, Status(kv[slot[c]][k] # Null), {})
    /\ kv' = [kv EXCEPT ![slot[c]][k] = Null]
    /\ UNCHANGED <<slot, hash, set, list, point>>

\* The longest key that is a prefix of k
KvMatchLongest(c, k) ==
    LET at == {q \in Prefixes[k] : kv[slot[c]][q] # Null}
    IN  \/ /\ Read(<<"matchlongest", k>>, c, "FAIL", {})
           /\ at = {}
        \/ \E q \in at :
             /\ \A r \in at : KeyLen[r] <= KeyLen[q]
             /\ Read(<<"matchlongest", k>>, c, "OK", {<<kv[slot[c]][q], KeyLen[q]>>})

\* A name of more than a byte's worth of characters is refused
LongName == {n \in Name : NameLen[n] > 255}
Refuse(cmd, c, n) == Read(cmd, c, "FAIL", {}) /\ n \in LongName

HashSet(c, n, k, v) ==
    /\ Replies(<<"hset", n, k, v>>, c, "OK", {})
    /\ n \notin LongName
    /\ hash' = [hash EXCEPT ![slot[c]][n][k] = v]
    /\ UNCHANGED <<slot, kv, set, list, point>>

HashGet(c, n, k) ==
    LET v == hash[slot[c]][n][k]
    IN  Read(<<"hget", n, k>>, c, Status(v # Null), Found(v)) /\ n \notin LongName

HashDel(c, n, k) ==
    /\ Replies(<<"hdel", n, k>>, c, Status(hash[slot[c]][n][k] # Null), {})
    /\ n \notin LongName
    /\ hash' = [hash EXCEPT ![slot[c]][n][k] = Null]
    /\ UNCHANGED <<slot, kv, set, list, point>>

-----------------------------------------------------------------------------
Range(q) == {q[i] : i \in DOMAIN q}

SetAdd(c, n, ks) ==
    /\ Replies(<<"sadd", n, ks>>, c, "OK", {})
    /\ n \notin LongName
    /\ set' = [set EXCEPT ![slot[c]][n] = @ \cup Range(ks)]
    /\ UNCHANGED <<slot, kv, hash, list, point>>

\* m: the keys at the head of ks that are members, each named once
Members(s, ks, m) ==
    \A i \in 1..m : ks[i] \in s /\ \A j \in 1..(i - 1) : ks[j] # ks[i]

\* Members are taken out up to the first that is missing
SetDel(c, n, ks) ==
    \E m \in 0..Len(ks) :
        /\ Replies(<<"sdel", n, ks>>, c, Status(m = Len(ks)), {})
        /\ n \notin LongName
        /\ Members(set[slot[c]][n], ks, m)
        /\ m < Len(ks) => ~Members(set[slot[c]][n], ks, m + 1)
        /\ set' = [set EXCEPT ![slot[c]][n] = @ \ {ks[i] : i \in 1..m}]
        /\ UNCHANGED <<slot, kv, hash, list, point>>

SetMembers(c, n) == Read(<<"smembers", n>>, c, "OK", set[slot[c]][n] \ Unlisted)

SetIsMember(c, n, k) ==
    Read(<<"sismember", n, k>>, c, "OK", {IF k \in set[slot[c]][n] THEN 1 ELSE 0})

-----------------------------------------------------------------------------
ListChange(c, l, s) ==
    /\ list' = [list EXCEPT ![slot[c]][l] = s]
    /\ UNCHANGED <<slot, kv, hash, set, point>>

ListLpush(c, l, v) == /\ Replies(<<"lpush", l, v>>, c, "OK", {})
                      /\ ListChange(c, l, <<v>> \o list[slot[c]][l])
ListRpush(c, l, v) == /\ Replies(<<"rpush", l, v>>, c, "OK", {})
                      /\ ListChange(c, l, Append(list[slot[c]][l], v))

ListLpop(c, l) ==
    LET s == list[slot[c]][l]
    IN  \/ Read(<<"lpop", l>>, c, "FAIL", {}) /\ s = << >>
        \/ Replies(<<"lpop", l>>, c, "OK", {}) /\ s # << >> /\ ListChange(c, l, Tail(s))

ListRpop(c, l) ==
    LET s == list[slot[c]][l]
    IN  \/ Read(<<"rpop", l>>, c, "FAIL", {}) /\ s = << >>
        \/ /\ Replies(<<"rpop", l>>, c, "OK", {}) /\ s # << >>
           /\ ListChange(c, l, SubSeq(s, 1, Len(s) - 1))

ListLtop(c, l) ==
    LET s == list[slot[c]][l]
    IN  Read(<<"ltop", l>>, c, Status(s # << >>), IF s = << >> THEN {} ELSE {s[1]})

ListRtop(c, l) ==
    LET s == list[slot[c]][l]
    IN  Read(<<"rtop", l>>, c, Status(s # << >>), IF s = << >> THEN {} ELSE {s[Len(s)]})

-----------------------------------------------------------------------------
SpSet(c, i, p) ==
    \/ p = BadPoint /\ Read(<<"spset", i, p>>, c, "FAIL", {})
    \/ /\ p # BadPoint
       /\ Replies(<<"spset", i, p>>, c, "OK", {})
       /\ point' = [point EXCEPT ![slot[c]][i] = p]
       /\ UNCHANGED <<slot, kv, hash, set, list>>

SpGet(c, i) ==
    Read(<<"spget", i>>, c, Status(point[slot[c]][i] # Null), Found(point[slot[c]][i]))

SpDel(c, i) ==
    /\ Replies(<<"spdel", i>>, c, Status(point[slot[c]][i] # Null), {})
    /\ point' = [point EXCEPT ![slot[c]][i] = Null]
    /\ UNCHANGED <<slot, kv, hash, set, list>>

SpRect(c, r) ==
    \/ r = BadRect /\ Read(<<"sprect", r>>, c, "FAIL", {})
    \/ /\ r # BadRect
       /\ Read(<<"sprect", r>>, c, "OK", {i \in Id \ Unlisted : point[slot[c]][i] \in Inside[r]})

-----------------------------------------------------------------------------
Next == \E c \in Conn :
    \/ \E n \in 0..(MaxSlot + 1) : Use(c, n)
    \/ Where(c)
    \/ \E k \in Key, v \in Value : KvSet(c, k, v)
    \/ \E k \in Key : KvGet(c, k) \/ KvDel(c, k) \/ KvMatchLongest(c, k)
    \/ \E n \in Name, k \in Key, v \in Value :
          HashSet(c, n, k, v) \/ Refuse(<<"hset", n, k, v>>, c, n)
    \/ \E n \in Name, k \in Key :
          \/ HashGet(c, n, k) \/ HashDel(c, n, k)
          \/ \E op \in {"hget", "hdel"} : Refuse(<<op, n, k>>, c, n)
    \/ \E n \in Name, ks \in Keys :
          \/ SetAdd(c, n, ks) \/ SetDel(c, n, ks)
          \/ \E op \in {"sadd", "sdel"} : Refuse(<<op, n, ks>>, c, n)
    \/ \E n \in Name, k \in Key : SetIsMember(c, n, k)
    \/ \E n \in Name : SetMembers(c, n)
    \/ \E l \in ListName, v \in Value : ListLpush(c, l, v) \/ ListRpush(c, l, v)
    \/ \E l \in ListName : ListLpop(c, l) \/ ListRpop(c, l)
                           \/ ListLtop(c, l) \/ ListRtop(c, l)
    \/ \E i \in Id, p \in Point \cup {BadPoint} : SpSet(c, i, p)
    \/ \E i \in Id : SpGet(c, i) \/ SpDel(c, i)
    \/ \E r \in Rect \cup {BadRect} : SpRect(c, r)

Spec == Init /\ [][Next]_vars
=============================================================================
