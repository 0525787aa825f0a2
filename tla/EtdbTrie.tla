------------------------------- MODULE EtdbTrie -------------------------------
(***************************************************************************)
(* The double-array trie (src/src/store/etdb_trie.c).  A node is an index  *)
(* of the array; the child of node n under label l is base[n] ^ l, and its *)
(* check is n.  Free nodes form a ring per block of the array, linked by   *)
(* negated indices in base and check; blocks are on three lists: open,     *)
(* close (one free node, or tried in vain) and full.  A key ends in a node *)
(* under label 0, which holds the value in the place of its base.          *)
(*                                                                         *)
(* A block has B nodes and there are B labels, 256 of each in the code.    *)
(* In a key the byte 0 is stored as % 0 and the byte % as % %.             *)
(***************************************************************************)
EXTENDS Integers, Sequences, FiniteSets, SequencesExt

CONSTANTS
    B,         \* nodes of a block, a power of two
    XorOf,     \* XorOf[x][y]: the exclusive or of two labels
    Pct, Zero, \* the labels of the characters % and 0
    Keys,      \* keys, sequences of bytes
    Value,     \* Value[k]: the values stored under k, the address of a head or 1
    MaxOps     \* the bound on ops

ASSUME LabelAssumption ==
    /\ B \in Nat /\ {Pct, Zero} \subseteq 1..(B - 1) /\ Pct # Zero
    /\ Keys \subseteq Seq(0..(B - 1)) /\ << >> \notin Keys
    /\ Value \in [Keys -> SUBSET Nat]

Label == 0..(B - 1)

\* What the searches need of the exclusive or: it is a group on the bytes, zero
\* changes nothing and a byte cancels itself.
ASSUME XorAssumption ==
    /\ XorOf \in [Label -> [Label -> Label]]
    /\ \A x \in Label : XorOf[x][0] = x /\ XorOf[x][x] = 0
    /\ \A x, y \in Label : XorOf[x][y] = XorOf[y][x]
    /\ \A x, y, z \in Label : XorOf[XorOf[x][y]][z] = XorOf[x][XorOf[y][z]]

VARIABLES
    trie,  \* etdb_trie_t
    op,    \* the last update or erase
    ret,   \* what it returned
    ops    \* the operations that changed the trie

vars == <<trie, op, ret, ops>>

NoPath == -1       \* ETDB_TRIE_NO_PATH
NoValue == -2      \* ETDB_TRIE_NO_VALUE
MaxTrial == 1      \* ETDB_TRIE_MAX_TRIAL

\* base ^ label, and the label that leads from a base to an index of its block
To(i, l) == B * (i \div B) + XorOf[i % B][l]
LabelTo(base, i) == XorOf[base % B][i % B]

\* etdb_trie_update_entry: the labels of a byte; the labels of a key
Encode(w) == CASE w = 0 -> <<Pct, Zero>> [] w = Pct -> <<Pct, Pct>> [] OTHER -> <<w>>
Labels(key) == FlattenSeq([i \in DOMAIN key |-> Encode(key[i])])

\* Some label begins no key: the database's keys begin with one of six bytes.
\* (With all of them the ring of block 0 runs empty while num says 1, and the
\* next node freed there is linked to a node in use.)
ASSUME RootAssumption ==
    \E l \in 1..(B - 1) : \A k \in Keys : Labels(k)[1] # l

NewNode == [base |-> 0, check |-> 0]
NewNinfo == [sibling |-> 0, child |-> 0]
NewBlock == [prev |-> 0, next |-> 0, num |-> B, reject |-> B + 1, trial |-> 0, ehead |-> 0]

\* A ring of the free nodes first..last
Ring(first, last) ==
    [i \in first..last |->
        [base  |-> IF i = first THEN -last ELSE -(i - 1),
         check |-> IF i = last THEN -first ELSE -(i + 1)]]

\* etdb_trie_init; the root is node 0
EmptyTrie ==
    [node |-> [i \in 0..(B - 1) |-> IF i = 0 THEN [base |-> 0, check |-> -1]
                                    ELSE Ring(1, B - 1)[i]],
     ninfo |-> [i \in 0..(B - 1) |-> NewNinfo],
     block |-> [i \in {0} |-> [NewBlock EXCEPT !.ehead = 1]],
     head |-> [l \in {"open", "close", "full"} |-> 0],
     capacity |-> B, size |-> B,
     reject |-> [i \in 0..B |-> i + 1]]

-----------------------------------------------------------------------------
(* Block lists *)

\* Variant of PopBlock: the head of the list stays
PopBlockKeepsHead(t, bi, l) ==
    LET b == t.block[bi]
    IN  IF b.next = bi THEN [t EXCEPT !.head[l] = 0]
        ELSE [t EXCEPT !.block[b.prev].next = b.next, !.block[b.next].prev = b.prev]

PopBlock(t, bi, l) ==
    LET b == t.block[bi]
    IN  IF b.next = bi THEN [t EXCEPT !.head[l] = 0]
        ELSE [t EXCEPT !.block[b.prev].next = b.next, !.block[b.next].prev = b.prev,
                       !.head[l] = IF bi = @ THEN b.next ELSE @]

PushBlock(t, bi, l, empty) ==
    IF empty THEN [t EXCEPT !.head[l] = bi, !.block[bi].prev = bi, !.block[bi].next = bi]
    ELSE LET h == t.head[l]
             tail == t.block[h].prev
         IN  [t EXCEPT !.block[bi].prev = tail, !.block[bi].next = h,
                       !.block[tail].next = bi, !.block[h].prev = bi, !.head[l] = bi]

\* A block with no free node goes to an empty list through block 0
TransferBlock(t, bi, in, out) ==
    LET u == PopBlock(t, bi, in)
    IN  PushBlock(u, bi, out, u.head[out] = 0 /\ u.block[bi].num # 0)

Extend(f, n, d) == [i \in 0..(n - 1) |-> IF i \in DOMAIN f THEN f[i] ELSE d]

\* The array with one block more, block t.size \div B, which is on no list yet
Grown(t) ==
    LET cap == IF t.size = t.capacity THEN 2 * t.capacity ELSE t.capacity
        ring == Ring(t.size, t.size + B - 1)
    IN  [t EXCEPT !.capacity = cap, !.size = @ + B,
           !.node = [i \in 0..(cap - 1) |->
                       IF i \in DOMAIN ring THEN ring[i] ELSE Extend(@, cap, NewNode)[i]],
           !.ninfo = Extend(@, cap, NewNinfo),
           !.block = [Extend(@, cap \div B, NewBlock) EXCEPT ![t.size \div B].ehead = t.size]]

AddBlock(t) == PushBlock(Grown(t), t.size \div B, "open", t.head.open = 0)

-----------------------------------------------------------------------------
(* Free nodes.  An operator that also returns a node gives [t, to]. *)

FindPlace(t) ==
    CASE t.head.close # 0 -> [t |-> t, to |-> t.block[t.head.close].ehead]
      [] t.head.close = 0 /\ t.head.open # 0 -> [t |-> t, to |-> t.block[t.head.open].ehead]
      [] OTHER -> [t |-> AddBlock(t), to |-> t.size]

\* All labels have a free node, if the first has node e
Suits(t, e, labels) ==
    \A i \in 2..Len(labels) : t.node[To(To(e, labels[1]), labels[i])].check < 0

\* The first free node of the ring from ehead on that suits all labels, or -1
Fit(t, ehead, labels) ==
    LET ring[k \in 0..(B - 1)] == IF k = 0 THEN ehead ELSE -t.node[ring[k - 1]].check
        fits == {k \in 0..(B - 1) : Suits(t, ring[k], labels)}
    IN  IF fits = {} THEN -1 ELSE ring[CHOOSE k \in fits : \A j \in fits : k <= j]

\* Where the labels fit into a block, or -1
PlaceIn(t, bi, labels) ==
    LET b == t.block[bi]
        nc == Len(labels)
    IN  IF b.num >= nc /\ nc <= b.reject THEN Fit(t, b.ehead, labels) ELSE -1

\* The labels do not fit into the block, which notes how many they were,
Refused(t, bi, nc) ==
    LET b == t.block[bi]
        rejects == [t.reject EXCEPT ![b.num] = IF nc < @ THEN nc ELSE @]
    IN  [t EXCEPT !.block[bi] = [b EXCEPT !.reject = nc, !.trial = b.trial + 1], !.reject = rejects]

\* and after MaxTrial times is on the list of closed ones
Rejected(t, bi, nc) ==
    LET u == Refused(t, bi, nc)
    IN  IF u.block[bi].trial = MaxTrial THEN TransferBlock(u, bi, "open", "close") ELSE u

\* The next block, read before the one that was tried leaves the list
NextTry(s, nc) == [t |-> Rejected(s.t, s.bi, nc), bi |-> s.t.block[s.bi].next]

\* One open block after the other, until the labels fit or all were tried
ScanBlocks(t, bz, labels) ==
    LET scan[k \in 0..(t.size \div B)] ==
            IF k = 0 THEN [t |-> t, bi |-> t.head.open] ELSE NextTry(scan[k - 1], Len(labels))
        Ends(s) == PlaceIn(s.t, s.bi, labels) # -1 \/ s.bi = bz
        end == scan[CHOOSE k \in DOMAIN scan : Ends(scan[k]) /\ \A j \in 0..(k - 1) : ~ Ends(scan[j])]
        e == PlaceIn(end.t, end.bi, labels)
        v == Rejected(end.t, end.bi, Len(labels))
    IN  IF e # -1 THEN [t |-> [end.t EXCEPT !.block[end.bi].ehead = e], to |-> e]
        ELSE [t |-> AddBlock(v), to |-> v.size]

FindPlaceInterval(t, labels) ==
    IF t.head.open = 0 THEN [t |-> AddBlock(t), to |-> t.size]
    ELSE ScanBlocks(t, t.block[t.head.open].prev, labels)

\* A node under label 0 holds a value, first 0; another has no base yet
FreshNode(label, from) == [base |-> IF label = 0 THEN 0 ELSE -1, check |-> from]

\* Variant of Unlink: the head of the ring stays
UnlinkKeepsHead(t, e) ==
    LET n == t.node[e]
    IN  [t EXCEPT !.node[-n.base].check = n.check, !.node[-n.check].base = n.base]

\* Node e leaves the ring of its block
Unlink(t, e) ==
    LET n == t.node[e]
    IN  [t EXCEPT !.node[-n.base].check = n.check, !.node[-n.check].base = n.base,
                  !.block[e \div B].ehead = IF e = @ THEN -n.check ELSE @]

\* Node e becomes a child of from, and its block goes to the list it belongs on
TakeNode(t, e, label, from) ==
    LET bi == e \div B
        b == t.block[bi]
        u == [t EXCEPT !.block[bi].num = @ - 1]
        v == CASE b.num = 1 /\ bi # 0 -> TransferBlock(u, bi, "close", "full")
               [] b.num = 2 /\ bi # 0 /\ b.trial # MaxTrial ->
                    TransferBlock(Unlink(u, e), bi, "open", "close")
               [] OTHER -> Unlink(u, e)
    IN  [v EXCEPT !.node[e] = FreshNode(label, from)]

PopEmptyNode(t, base, label, from) ==
    LET place == FindPlace(t)
        e == place.to
    IN  IF base < 0
        THEN [t |-> [TakeNode(place.t, e, label, from) EXCEPT !.node[from].base = To(e, label)],
              to |-> e]
        ELSE [t |-> TakeNode(t, To(base, label), label, from), to |-> To(base, label)]

\* Node e becomes the one free node of its block
FirstFree(t, bi, e) ==
    [t EXCEPT !.block[bi].num = 1, !.block[bi].ehead = e,
              !.node[e] = [base |-> -e, check |-> -e]]

\* Node e joins the ring of its block, behind the head
LinkedFree(t, bi, e) ==
    LET b == t.block[bi]
        next == -t.node[b.ehead].check
    IN  [t EXCEPT !.block[bi].num = @ + 1,
                  !.node[e] = [base |-> -b.ehead, check |-> -next],
                  !.node[b.ehead].check = -e, !.node[next].base = -e]

\* Node e is free again, and its block goes to the list it belongs on
Relisted(t, e) ==
    LET bi == e \div B
        b == t.block[bi]
    IN  CASE b.num = 0 /\ bi # 0 -> TransferBlock(FirstFree(t, bi, e), bi, "full", "close")
          [] b.num = 0 /\ bi = 0 -> FirstFree(t, bi, e)
          [] b.num # 0 /\ bi # 0 /\ (b.num = 1 \/ b.trial = MaxTrial) ->
               TransferBlock(LinkedFree(t, bi, e), bi, "close", "open")
          [] OTHER -> LinkedFree(t, bi, e)

\* Its block had n free nodes before, and may be tried again
FinishFree(u, bi, e, n, r) ==
    [u EXCEPT !.block[bi].trial = IF n = 0 THEN @ ELSE 0,
              !.block[bi].reject = IF @ < r THEN r ELSE @,
              !.ninfo[e] = NewNinfo]

PushEmptyNode(t, e) ==
    LET bi == e \div B
        n == t.block[bi].num
    IN  FinishFree(Relisted(t, e), bi, e, n, t.reject[n + 1])

-----------------------------------------------------------------------------
(* Children: child is the first label, sibling the next; 0 ends the list   *)
(* and is also the label of the value, which comes first                   *)

\* The lists that can be: every label at most once
Lists == {s \in UNION {[1..n -> Label] : n \in 1..B} : IsInjective(s)}

\* The labels that the siblings go through from c on
Children(t, base, c) ==
    CHOOSE s \in Lists :
        /\ s[1] = c
        /\ \A i \in 2..Len(s) : s[i] # 0 /\ s[i] = t.ninfo[To(base, s[i - 1])].sibling
        /\ t.ninfo[To(base, s[Len(s)])].sibling = 0

\* The label goes to the head of the list, or behind the label 0 there
PushSibling(t, from, base, label, behind) ==
    LET second == behind /\ t.ninfo[from].child = 0
        c == IF second THEN t.ninfo[base].sibling ELSE t.ninfo[from].child
        u == [t EXCEPT !.ninfo[To(base, label)].sibling = c]
    IN  IF second THEN [u EXCEPT !.ninfo[base].sibling = label]
        ELSE [u EXCEPT !.ninfo[from].child = label]

\* Variant of PopSibling: only the head of the list is taken off it
PopFirstSibling(t, from, base, label) ==
    IF t.ninfo[from].child # label THEN t
    ELSE [t EXCEPT !.ninfo[from].child = t.ninfo[To(base, label)].sibling]

PopSibling(t, from, base, label) ==
    LET next == t.ninfo[To(base, label)].sibling
        kids == Children(t, base, t.ninfo[from].child)
        before == kids[CHOOSE i \in 1..(Len(kids) - 1) : kids[i + 1] = label]
    IN  IF t.ninfo[from].child = label THEN [t EXCEPT !.ninfo[from].child = next]
        ELSE [t EXCEPT !.ninfo[To(base, before)].sibling = next]

\* etdb_trie_consult: node p has more children than node n
Consult(t, base_n, base_p, c_n, c_p) ==
    Len(Children(t, base_p, c_p)) > Len(Children(t, base_n, c_n))

\* etdb_trie_set_child: the labels of all children, and one more
SetChild(t, base, c, label) ==
    IF c = 0 THEN <<0, label>> \o Tail(Children(t, base, c))
    ELSE <<label>> \o Children(t, base, c)

-----------------------------------------------------------------------------
(* Conflicts: the place of a new child is taken by a child of another node *)

\* The children of the moved node to_ now have the parent to
Adopt(t, to, to_) ==
    LET base == t.node[to].base
        kids == {To(base, c) : c \in ToSet(Children(t, base, t.ninfo[to_].child))}
    IN  [t EXCEPT !.ninfo[to].child = t.ninfo[to_].child,
                  !.node = [i \in DOMAIN @ |-> IF i \in kids THEN [@[i] EXCEPT !.check = to]
                                               ELSE @[i]]]

\* Variant of Moved: the node that waits for its child moves unnoticed
MovedUnnoticed(from_n, to_, to) == from_n

\* from_n, when the child at to_ moves to to
Moved(from_n, to_, to) == IF to_ = from_n THEN to ELSE from_n

\* A move m takes the children of m.parent under m.labels from m.old to m.base.
\* It makes room for the child under m.label of a node with base m.base_n: of
\* m.parent itself, if m.mine, and the labels contain m.label then.

\* What was at to_ under the label l moves to the node just taken, to
Inherit(t, to, to_, l) ==
    LET copied == [t EXCEPT !.node[to].base = t.node[to_].base]
    IN  IF t.node[to_].base > 0 /\ l # 0 THEN Adopt(copied, to, to_) ELSE copied

\* Node to_ is taken for the child of from
Replaced(t, from, base, label, to_) ==
    LET pushed == PushSibling(t, from, base, label, TRUE)
        emptied == [pushed EXCEPT !.ninfo[to_].child = 0]
    IN  [emptied EXCEPT !.node[to_] = FreshNode(label, from)]

\* One turn of the loop of etdb_trie_resolve; s.from is the node that waits for
\* its child.  The place to_pn, where that child belongs, is not freed.
MoveChild(m, s, i) ==
    LET l == m.labels[i]
        taken == PopEmptyNode(s.t, m.base, l, m.parent)
        to == taken.to
        to_ == To(m.old, l)
        to_pn == To(m.base_n, m.label)
        a == [taken.t EXCEPT !.ninfo[to].sibling =
                IF i = Len(m.labels) THEN 0 ELSE m.labels[i + 1]]
        b == Inherit(a, to, to_, l)
        n == IF m.mine THEN s.from ELSE Moved(s.from, to_, to)
    IN  CASE m.mine /\ to_ = to_pn -> [t |-> a, from |-> s.from]
          [] ~m.mine /\ to_ = to_pn -> [t |-> Replaced(b, n, m.base_n, m.label, to_), from |-> n]
          [] OTHER -> [t |-> PushEmptyNode(b, to_), from |-> n]

\* Before the first turn
StartMove(t, m) ==
    LET based == [t EXCEPT !.node[m.parent].base = m.base]
    IN  [based EXCEPT !.ninfo[m.parent].child =
           IF m.mine /\ m.labels[1] = m.label THEN m.label ELSE @]

MoveChildren(t, m, from) ==
    LET moving[i \in 0..Len(m.labels)] ==
            IF i = 0 THEN [t |-> StartMove(t, m), from |-> from]
            ELSE MoveChild(m, moving[i - 1], i)
    IN  moving[Len(m.labels)].t

\* The place whose base suits all labels
PlaceFor(t, labels) ==
    IF Len(labels) = 1 THEN FindPlace(t) ELSE FindPlaceInterval(t, labels)

\* etdb_trie_resolve: the children of the node with fewer of them, from
\* with the new label or the other one, move to another base
Resolve(t, from, base_n, label) ==
    LET to_pn == To(base_n, label)
        from_p == t.node[to_pn].check
        base_p == t.node[from_p].base
        mine == Consult(t, base_n, base_p, t.ninfo[from].child, t.ninfo[from_p].child)
        labels == IF mine THEN SetChild(t, base_n, t.ninfo[from].child, label)
                  ELSE Children(t, base_p, t.ninfo[from_p].child)
        place == PlaceFor(t, labels)
        m == [mine |-> mine, base_n |-> base_n, label |-> label, labels |-> labels,
              parent |-> IF mine THEN from ELSE from_p, old |-> IF mine THEN base_n ELSE base_p,
              base |-> To(place.to, labels[1])]
    IN  [t |-> MoveChildren(place.t, m, from), to |-> IF mine THEN To(m.base, label) ELSE to_pn]

\* etdb_trie_follow: the child under the label, made if there is none
Follow(t, from, label) ==
    LET base == t.node[from].base
        check == t.node[To(base, label)].check
        new == PopEmptyNode(t, base, label, from)
    IN  CASE base < 0 \/ check < 0 ->
               [t |-> PushSibling(new.t, from, To(new.to, label), label, base >= 0),
                to |-> new.to]
          [] base >= 0 /\ check >= 0 /\ check # from -> Resolve(t, from, base, label)
          [] OTHER -> [t |-> t, to |-> To(base, label)]

\* The node at the end of the labels, and the nodes on the way
FollowAll(t, labels) ==
    LET at[i \in 0..Len(labels)] ==
            IF i = 0 THEN [t |-> t, to |-> 0]
            ELSE LET last == at[i - 1] IN Follow(last.t, last.to, labels[i])
    IN  at[Len(labels)]

\* etdb_trie_update: the new trie and the old value, 0 for a new key
UpdateKey(t, key, v) ==
    LET Store(end) == [t |-> [end.t EXCEPT !.node[end.to].base = v],
                       old |-> end.t.node[end.to].base]
    IN  Store(FollowAll(t, Append(Labels(key), 0)))

-----------------------------------------------------------------------------
(* Searches *)

\* The child of a node under a label, or NoPath
Child(t, n, l) ==
    LET to == To(t.node[n].base, l)
    IN  IF n = NoPath THEN NoPath ELSE IF t.node[to].check # n THEN NoPath ELSE to

\* etdb_trie_find: the node the labels lead to from a node, or NoPath
Walk(t, from, labels) ==
    LET child == [n \in DOMAIN t.node \cup {NoPath} |-> [l \in Label |-> Child(t, n, l)]]
        at[i \in 0..Len(labels)] == IF i = 0 THEN from ELSE child[at[i - 1]][labels[i]]
    IN  at[Len(labels)]

\* The value at a node
ValueAt(t, n) ==
    LET v == t.node[n].base
    IN  IF t.node[v].check = n THEN t.node[v].base ELSE NoValue

\* etdb_trie_exact_match_search
Exact(t, key) ==
    LET n == Walk(t, 0, Labels(key)) IN IF n = NoPath THEN NoValue ELSE ValueAt(t, n)

\* Variant of MatchLongest: the first match ends the search
MatchFirst(t, key) ==
    LET len(m) == Walk(t, 0, Labels(SubSeq(key, 1, m)))
        found == {m \in 1..Len(key) : len(m) # NoPath /\ ValueAt(t, len(m)) # NoValue}
        m == CHOOSE m \in found : \A k \in found : m <= k
    IN  IF found = {} THEN <<0, NoPath>> ELSE <<m, ValueAt(t, len(m))>>

\* etdb_trie_match_longest_search: the bytes matched and the value
MatchLongest(t, key) ==
    LET len(m) == Walk(t, 0, Labels(SubSeq(key, 1, m)))
        found == {m \in 1..Len(key) : len(m) # NoPath /\ ValueAt(t, len(m)) # NoValue}
        m == CHOOSE m \in found : \A k \in found : k <= m
    IN  IF found = {} THEN <<0, NoPath>> ELSE <<m, ValueAt(t, len(m))>>

\* etdb_trie_common_prefix_path_search_dfs: the paths below a node that end
\* in a value.  A child's label is encoded once more before it is followed.
Below(t, node) ==
    LET below[d \in 0..t.size, n \in 0..(t.size - 1)] ==
            LET labels == ToSet(Children(t, t.node[n].base, t.ninfo[n].child)) \ {0}
                Next(c) == Walk(t, n, Encode(c))
            IN  UNION {{<<c>> \o p : p \in below[d - 1, Next(c)]
                           \cup (IF ValueAt(t, Next(c)) = NoValue THEN {} ELSE {<< >>})}
                        : c \in {c \in labels : Next(c) # NoPath}}
    IN  below[t.size, node]

\* etdb_trie_common_prefix_path_search: what follows the prefix
PrefixSearch(t, key) ==
    LET n == Walk(t, 0, Labels(key)) IN IF n = NoPath THEN {} ELSE Below(t, n)

\* The node of u.from has another child than u.e
More(u) == u.t.ninfo[To(u.t.node[u.from].base, u.t.ninfo[u.from].child)].sibling # 0

\* It has none, and goes next
GoUp(u) == [t |-> PushEmptyNode(u.t, u.e), from |-> u.t.node[u.from].check, e |-> u.from]

\* Node u.e leaves the list of the children, and goes
EraseChild(u) ==
    LET base == u.t.node[u.from].base
    IN  PushEmptyNode(PopSibling(u.t, u.from, base, LabelTo(base, u.e)), u.e)

\* etdb_trie_erase_impl: the value's node goes, then its parents as long as
\* they have no other child
EraseFrom(t, from, e) ==
    LET up[k \in 0..t.size] == IF k = 0 THEN [t |-> t, from |-> from, e |-> e] ELSE GoUp(up[k - 1])
    IN  EraseChild(up[CHOOSE k \in DOMAIN up : More(up[k]) /\ \A j \in 0..(k - 1) : ~ More(up[j])])

\* etdb_trie_num_keys
NumKeys(t) ==
    Cardinality({i \in 0..(t.size - 1) :
                   t.node[i].check >= 0 /\ t.node[t.node[i].check].base = i})

-----------------------------------------------------------------------------
Init == trie = EmptyTrie /\ op = << >> /\ ret = 0 /\ ops = 0

Becomes(t) ==
    /\ trie' = t
    /\ ops' = IF t = trie THEN ops ELSE ops + 1
    /\ ops' <= MaxOps

Update(k, v) ==
    LET u == UpdateKey(trie, k, v)
    IN  /\ Becomes(u.t)
        /\ ret' = u.old
        /\ op' = <<"update", k, v>>

Erase(k) ==
    /\ \/ /\ Exact(trie, k) = NoValue
          /\ ret' = -1 /\ UNCHANGED <<trie, ops>>
       \/ LET n == Walk(trie, 0, Labels(k))
          IN  /\ Exact(trie, k) # NoValue
              /\ Becomes(EraseFrom(trie, n, trie.node[n].base))
              /\ ret' = Exact(trie, k)
    /\ op' = <<"erase", k>>

Next == \E k \in Keys : Erase(k) \/ \E v \in Value[k] : Update(k, v)

Spec == Init /\ [][Next]_vars

-----------------------------------------------------------------------------
(* Properties *)

\* The trie is a map: an operation changes the value of its own key and
\* returns what was there, however the nodes of other keys were moved.
Map == INSTANCE EtdbMap WITH dict <- [k \in Keys |-> Exact(trie, k)]
Refinement == Map!Spec

Blocks == 0..(trie.size \div B - 1)
BlockNodes(bi) == (B * bi)..(B * bi + B - 1)
FreeNodes(bi) == {i \in BlockNodes(bi) \ {0} : trie.node[i].check < 0}
Used == {i \in 0..(trie.size - 1) : i = 0 \/ trie.node[i].check >= 0}

\* S is one ring: next leads through all of it, and prev back
IsRing(S, next, prev) ==
    /\ \A x \in S : next[x] \in S /\ prev[x] \in S /\ prev[next[x]] = x /\ next[prev[x]] = x
    /\ \A T \in SUBSET S : T # {} /\ (\A x \in T : next[x] \in T) => T = S

\* The free nodes of a block are one ring, linked both ways, and num counts
\* them (and the root): a node is never handed out twice, and none is lost.
FreeRings ==
    \A bi \in Blocks :
        LET free == FreeNodes(bi)
        IN  /\ trie.block[bi].num = Cardinality(free) + (IF bi = 0 THEN 1 ELSE 0)
            /\ free # {} => trie.block[bi].ehead \in free
            /\ IsRing(free, [e \in free |-> -trie.node[e].check], [e \in free |-> -trie.node[e].base])

\* The list a block belongs on
ListOf(bi) == LET b == trie.block[bi]
              IN  CASE b.num = 0 -> "full"
                    [] b.num = 1 \/ (b.num > 1 /\ b.trial = MaxTrial) -> "close"
                    [] OTHER -> "open"

\* Every block but the first is on the list its free nodes put it on, and the
\* lists are rings: the searches for a free place see every block that has one,
\* and no other. Block 0 is where the ring of the full blocks begins.
BlockLists ==
    \A l \in {"open", "close", "full"} :
        LET on == {bi \in Blocks \ {0} : ListOf(bi) = l}
            ring == IF l = "full" THEN on \cup {0} ELSE on
        IN  /\ trie.head[l] = 0 <=> on = {}
            /\ on # {} => trie.head[l] \in on
            /\ IsRing(ring, [bi \in ring |-> trie.block[bi].next],
                            [bi \in ring |-> trie.block[bi].prev])

\* The list of a node's children names exactly the nodes whose check it is:
\* a conflict moves all of them, and a traversal meets all of them once.
ChildLists ==
    \A n \in Used : (n = 0 \/ LabelTo(trie.node[trie.node[n].check].base, n) # 0) =>
        LET base == trie.node[n].base
            kids == Children(trie, base, trie.ninfo[n].child)
        IN  /\ {To(base, kids[i]) : i \in DOMAIN kids} \ {0}
                 = {i \in Used \ {0} : trie.node[i].check = n}
            /\ \A i, j \in DOMAIN kids : kids[i] = kids[j] => i = j

Stored == {k \in Keys : Exact(trie, k) # NoValue}

\* The searches agree with a map: matchlongest finds the longest stored
\* prefix, num_keys counts the keys, and a prefix search finds what follows
\* the prefix in every stored key, if no byte that follows it is 0.
Searches ==
    /\ NumKeys(trie) = Cardinality(Stored)
    /\ \A k \in Keys :
         LET at == {j \in Stored : IsPrefix(j, k)}
             rest == {SubSeq(j, Len(k) + 1, Len(j)) : j \in {x \in Stored : IsStrictPrefix(k, x)}}
         IN  /\ MatchLongest(trie, k) =
                  IF at = {} THEN <<0, NoPath>>
                  ELSE LET j == CHOOSE j \in at : \A x \in at : Len(x) <= Len(j)
                       IN  <<Len(j), Exact(trie, j)>>
             /\ PrefixSearch(trie, k) = {r \in rest : 0 \notin ToSet(r)}
=============================================================================
