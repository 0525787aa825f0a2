------------------------------ MODULE EtdbMemory ------------------------------
(***************************************************************************)
(* The memory of one connection of the server: its two pools, the chunks   *)
(* of its buffers, the descriptors of the records it received and what the *)
(* handlers allocate (src/src/etdb_connection.c, etdb_resp.c, etdb_buf.c,  *)
(* etdb_serv.c, store/etdb_stack.c, modules/).  What is in the memory is   *)
(* the subject of the other modules.                                       *)
(***************************************************************************)
EXTENDS EtdbPool, FiniteSets

CONSTANTS
    ReplySizes,  \* bytes of the text of a reply
    MaxRecords,  \* the bound on the records of a request
    MaxDepth,    \* the bound on the depth of the tree below a prefix
    MaxWork      \* the bound on the answers kept, the times a buffer grew or
                 \* failed to, and the nodes visited, together

ASSUME MemoryAssumption ==
    /\ ReplySizes \subseteq Nat
    /\ MaxRecords \in Nat /\ MaxDepth \in Nat /\ MaxWork \in Nat

VARIABLES
    at,      \* where the server is with the connection; "closed" without one
    pool,    \* conn->pool
    temp,    \* conn->pool_temp
    heap,    \* the chunks malloc has given out and that were not freed
    lost,    \* those of them that no pool will free
    start,   \* start of buf_in and of buf_out
    cmds,    \* descriptors in free_cmd and in recv_cmd
    stack,   \* the stack of the traversal
    past     \* most: the most records at once; tops: answers of hget, ltop and
             \* rtop; grows, visits: for the bounds

memVars == <<at, pool, temp, heap, lost, start, cmds, stack, past>>

NoStack == [at |-> Region(0, 0, 0), nalloc |-> 0, nelts |-> 0]
NoPast == [most |-> 0, tops |-> 0, grows |-> 0, visits |-> 0]

MemInit ==
    /\ at = "closed" /\ pool = NoPool /\ temp = NoPool /\ heap = {} /\ lost = {}
    /\ start = [in |-> NoChunk, out |-> NoChunk]
    /\ cmds = [free |-> 0, recv |-> 0] /\ stack = NoStack
    /\ past = NoPast

MoreWork == past.tops + past.grows + past.visits < MaxWork

\* malloc: a chunk that is not in use; one that was freed may come back
Fresh(h) == CHOOSE n \in 1..(Cardinality(h) + 1) : n \notin h

-----------------------------------------------------------------------------
\* etdb_connect_accept, etdb_connect_init_buf.  Bound: no connection after one
\* that was used.
Accept ==
    LET c == PallocSmall(CreatePool, ConnSize).pool
        b == PallocSmall(PallocSmall(c, BufSize).pool, BufSize).pool
        in == Fresh(heap)
        out == Fresh(heap \cup {in})
    IN  /\ at = "closed" /\ past = NoPast
        /\ at' = "idle"
        /\ pool' = PallocLarge(PallocLarge(b, in).pool, out).pool
        /\ temp' = CreatePool
        /\ heap' = heap \cup {in, out}
        /\ start' = [in |-> in, out |-> out]
        /\ UNCHANGED <<lost, cmds, stack, past>>

Closes ==
    /\ at' = "closed" /\ pool' = NoPool /\ temp' = NoPool
    /\ cmds' = [free |-> 0, recv |-> 0]

\* etdb_connect_close
Close ==
    /\ at = "idle"
    /\ Closes
    /\ heap' = heap \ (Chunks(pool) \cup Chunks(temp))
    /\ UNCHANGED <<lost, start, stack, past>>

-----------------------------------------------------------------------------
(* etdb_connect_recv *)

\* Variant of Recycle: the descriptors of the last request are dropped
RecycleNone == [free |-> cmds.free, recv |-> 0]

\* etdb_queue_add(free_cmd, recv_cmd)
Recycle == [free |-> cmds.free + cmds.recv, recv |-> 0]

RecvBegins ==
    /\ at = "idle"
    /\ at' = "parse"
    /\ cmds' = Recycle
    /\ UNCHANGED <<pool, temp, heap, lost, start, stack, past>>

\* etdb_connect_alloc_bytes
ParseRecord ==
    /\ at = "parse" /\ cmds.recv < MaxRecords
    /\ pool' = IF cmds.free = 0 THEN PallocSmall(pool, BytesSize).pool ELSE pool
    /\ cmds' = [free |-> IF cmds.free = 0 THEN 0 ELSE cmds.free - 1, recv |-> cmds.recv + 1]
    /\ past' = [past EXCEPT !.most = IF @ < cmds.recv + 1 THEN cmds.recv + 1 ELSE @]
    /\ UNCHANGED <<at, temp, heap, lost, start, stack>>

\* The request is not complete: the descriptors are put back
ParseIncomplete ==
    /\ at = "parse"
    /\ at' = "idle" /\ cmds' = Recycle
    /\ UNCHANGED <<pool, temp, heap, lost, start, stack, past>>

\* etdb_buf_grow of buffer b: etdb_realloc gives another chunk (in place, all
\* that is looked at here stays)
Grown(b) ==
    /\ MoreWork /\ Has(pool, start[b])
    /\ LET new == Fresh(heap)
       IN  /\ pool' = PreallocLarge(pool, start[b], new)
           /\ heap' = (heap \ {start[b]}) \cup {new}
           /\ start' = [start EXCEPT ![b] = new]
    /\ past' = [past EXCEPT !.grows = @ + 1]
    /\ UNCHANGED lost

ParseGrows ==
    /\ at = "parse"
    /\ Grown("in")
    /\ at' = "idle" /\ cmds' = Recycle
    /\ UNCHANGED <<temp, stack>>

\* realloc fails.  The node forgets the chunk, which is still allocated, and
\* buf->start still leads to it; the next time it is not found.
Lose(b) == IF Has(pool, start[b]) THEN {start[b]} ELSE {}

\* The buffer of the requests: the connection is closed
ParseGrowFails ==
    /\ at = "parse" /\ MoreWork
    /\ Closes
    /\ lost' = lost \cup Lose("in")
    /\ heap' = heap \ ((Chunks(pool) \ Lose("in")) \cup Chunks(temp))
    /\ past' = [past EXCEPT !.grows = @ + 1]
    /\ UNCHANGED <<start, stack>>

-----------------------------------------------------------------------------
(* etdb_serv_exec_proc *)

ExecBegins ==
    /\ at = "parse" /\ cmds.recv > 0
    /\ at' = "exec"
    /\ temp' = IF temp = NoPool THEN CreatePool ELSE temp
    /\ UNCHANGED <<pool, heap, lost, start, cmds, stack, past>>

\* A command that allocates nothing: its status is all it answers
NoReply ==
    /\ at = "exec"
    /\ at' = "send"
    /\ UNCHANGED <<pool, temp, heap, lost, start, cmds, stack, past>>

FromTemp(size) ==
    /\ at = "exec"
    /\ at' = "send"
    /\ temp' = Palloc(temp, size, Fresh(heap)).pool
    /\ heap' = heap \cup AskedFor(size, Fresh(heap))
    /\ UNCHANGED <<pool, lost, start, cmds, stack, past>>

\* get, matchlongest, sismember, spget, where, ...
TempReply(n) == FromTemp(BytesSize + n)

\* The answer to an unknown command repeats the request behind 16 characters;
\* its etdb_bytes_t is a local variable
UnknownReply(n) == FromTemp(16 + n)

\* hget, ltop and rtop take it from the pool of the connection; hget only the
\* etdb_bytes_t
PoolReply(n) ==
    /\ at = "exec" /\ MoreWork
    /\ at' = "send"
    /\ pool' = Palloc(pool, BytesSize + n, Fresh(heap)).pool
    /\ heap' = heap \cup AskedFor(BytesSize + n, Fresh(heap))
    /\ past' = [past EXCEPT !.tops = @ + 1]
    /\ UNCHANGED <<temp, lost, start, cmds, stack>>

\* smembers and sprect: the keys below a prefix, in
\* etdb_trie_common_prefix_path_search
SearchBegins ==
    LET s == StackInit(temp)
    IN  /\ at = "exec"
        /\ at' = "search"
        /\ temp' = s.pool
        /\ stack' = [at |-> s.at, nalloc |-> s.nalloc, nelts |-> s.nelts]
        /\ UNCHANGED <<pool, heap, lost, start, cmds, past>>

\* A child is visited: its label is pushed and, if it ends a key, the result
\* takes a copy of the stack and eight bytes more
Visit(key) ==
    LET full == stack.nelts = stack.nalloc
        c1 == Fresh(heap)
        g == IF full THEN StackGrow(temp, stack, c1)
             ELSE [pool |-> temp, at |-> stack.at, nalloc |-> stack.nalloc]
        h1 == IF full /\ g.at.block = 0 THEN heap \cup {c1} ELSE heap
        size == BytesSize + stack.nelts + 1 + 8
        c2 == Fresh(h1)
    IN  /\ at = "search" /\ stack.nelts < MaxDepth /\ MoreWork
        /\ past' = [past EXCEPT !.visits = @ + 1]
        /\ temp' = IF key THEN Palloc(g.pool, size, c2).pool ELSE g.pool
        /\ heap' = IF key THEN h1 \cup AskedFor(size, c2) ELSE h1
        /\ stack' = [at |-> g.at, nalloc |-> g.nalloc, nelts |-> stack.nelts + 1]
        /\ UNCHANGED <<at, pool, lost, start, cmds>>

LeaveNode ==
    /\ at = "search" /\ stack.nelts > 0
    /\ stack' = [stack EXCEPT !.nelts = @ - 1]
    /\ UNCHANGED <<at, pool, temp, heap, lost, start, cmds, past>>

SearchEnds ==
    /\ at = "search" /\ stack.nelts = 0
    /\ at' = "send" /\ stack' = NoStack
    /\ past' = [past EXCEPT !.visits = 0]
    /\ UNCHANGED <<pool, temp, heap, lost, start, cmds>>

\* etdb_connect_send_to_buf
SendGrows ==
    /\ at = "send"
    /\ Grown("out")
    /\ UNCHANGED <<at, temp, cmds, stack>>

\* Nobody looks at the result: the rest of the response is left out
SendGrowFails ==
    /\ at = "send" /\ MoreWork /\ Has(pool, start.out)
    /\ pool' = PreallocLarge(pool, start.out, NoChunk)
    /\ lost' = lost \cup {start.out}
    /\ past' = [past EXCEPT !.grows = @ + 1]
    /\ UNCHANGED <<at, temp, heap, start, cmds, stack>>

\* etdb_destroy_pool(conn->pool_temp)
ExecEnds ==
    /\ at = "send"
    /\ at' = "idle" /\ temp' = NoPool
    /\ heap' = heap \ Chunks(temp)
    /\ UNCHANGED <<pool, lost, start, cmds, stack, past>>

MemNext ==
    \/ Accept \/ Close
    \/ RecvBegins \/ ParseRecord \/ ParseIncomplete \/ ParseGrows \/ ParseGrowFails
    \/ ExecBegins \/ NoReply \/ SearchBegins \/ LeaveNode \/ SearchEnds
    \/ \E n \in ReplySizes : TempReply(n) \/ UnknownReply(n) \/ PoolReply(n)
    \/ \E key \in BOOLEAN : Visit(key)
    \/ SendGrows \/ SendGrowFails \/ ExecEnds

MemSpec == MemInit /\ [][MemNext]_memVars

-----------------------------------------------------------------------------
(* Properties *)

HeadSize(i) == IF i = 1 THEN PoolHead ELSE BlockHead
Inside(p) ==
    /\ \A i \in DOMAIN p.blocks : p.blocks[i].last <= PoolSize
    /\ \A r \in p.used : /\ r.block \in DOMAIN p.blocks
                         /\ HeadSize(r.block) <= r.from /\ r.from < r.to
                         /\ r.to <= p.blocks[r.block].last
Apart(p) ==
    \A r, s \in p.used : r # s /\ r.block = s.block => r.to <= s.from \/ s.to <= r.from
StackHeld ==
    /\ stack.nelts <= stack.nalloc
    /\ stack.at.block # 0 => stack.at \in temp.used /\ stack.at.to - stack.at.from = stack.nalloc

\* No two allocations of a pool share a byte, none reaches into the head of its
\* block or past its end, however the stack of a traversal grows between the
\* results it interleaves with; what is pushed lands in the stack's own region.
Disjoint ==
    /\ \A p \in {pool, temp} : Inside(p) /\ Apart(p)
    /\ StackHeld

\* current keeps up with the blocks: however long a connection lives,
\* etdb_palloc looks at no more than seven of them.
SearchBound == \A p \in {pool, temp} : Len(p.blocks) - p.current <= 6

\* Everything malloc gave has one owner, and a connection that is closed leaves
\* nothing behind, but for the chunks of failed reallocs.  While it is open,
\* its pool holds five allocations, a descriptor for each record of its longest
\* request, and one more for every answer of hget, ltop and rtop, which is
\* never given back: requests of all other kinds may go on for ever.
Holdings ==
    /\ heap = Chunks(pool) \cup Chunks(temp) \cup lost
    /\ Cardinality(heap) = Cardinality(Chunks(pool)) + Cardinality(Chunks(temp)) + Cardinality(lost)
    /\ \A p \in {pool, temp} : \A j, k \in DOMAIN p.large :
         j # k /\ p.large[j] = p.large[k] => p.large[j] = NoChunk
    /\ at # "closed" =>
         LET due == 5 + past.most + past.tops
         IN  Cardinality(pool.used) <= due /\ (lost = {} => Cardinality(pool.used) = due)
=============================================================================
