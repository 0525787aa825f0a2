------------------------------- MODULE EtdbPool -------------------------------
(***************************************************************************)
(* The memory pools of src/src/store/etdb_palloc.c: operators on a pool,   *)
(* EtdbMemory has the state.  Sizes and offsets are bytes of a 64-bit      *)
(* build; an offset counts from the start of its block.                    *)
(***************************************************************************)
EXTENDS Integers, Sequences

CONSTANTS
    PoolSize,     \* the size of every block, ETDB_CONNECTION_DEFAULT_POOL_SIZE
    MaxFromPool   \* ETDB_MAX_ALLOC_FROM_POOL

PoolHead == 56    \* sizeof(etdb_pool_t), at the start of the first block
BlockHead == 32   \* sizeof(etdb_pool_data_t), at the start of the others
LargeSize == 16   \* sizeof(etdb_pool_large_t)
ConnSize == 152   \* sizeof(etdb_connection_t)
BufSize == 40     \* sizeof(etdb_buf_t)
BytesSize == 32   \* sizeof(etdb_bytes_t)

\* A multiple of ETDB_ALIGNMENT: aligning d.last never goes past d.end
ASSUME PoolAssumption ==
    /\ PoolSize \in Nat /\ PoolSize % 8 = 0 /\ PoolSize >= PoolHead + ConnSize
    /\ MaxFromPool \in Nat /\ MaxFromPool >= ConnSize

\* pool->max
MaxSmall == IF PoolSize - PoolHead < MaxFromPool THEN PoolSize - PoolHead ELSE MaxFromPool

\* A pool: its blocks (d.last and d.failed of each, in the order of d.next),
\* current, the chunks of the list large, newest first, and, for the
\* properties, the regions that were given out
NoChunk == 0
NoPool == [blocks |-> << >>, current |-> 0, large |-> << >>, used |-> {}]
CreatePool == [blocks |-> <<[last |-> PoolHead, failed |-> 0]>>, current |-> 1,
               large |-> << >>, used |-> {}]

\* etdb_align_ptr
Align(n) == ((n + 7) \div 8) * 8

Region(i, from, size) == [block |-> i, from |-> from, to |-> from + size]

\* Every operation gives back the pool and where the memory is: a region, or
\* for a chunk of its own the block 0
Got(p, r) == [pool |-> p, at |-> r]

-----------------------------------------------------------------------------
\* Variant of Passed: no block is ever left behind
PassedNever(b) == FALSE

\* A block that failed this often is no longer looked at
Passed(b) == b.failed > 4

\* pool->current after a new block: behind the last block that was passed
NewCurrent(p) ==
    CHOOSE c \in p.current..Len(p.blocks) :
      /\ \A i \in c..(Len(p.blocks) - 1) : ~Passed(p.blocks[i])
      /\ c = p.current \/ Passed(p.blocks[c - 1])

\* etdb_palloc_block.  The last block had no room either, but is not counted.
PallocBlock(p, size) ==
    LET n == Len(p.blocks)
        r == Region(n + 1, BlockHead, size)
        failed(i) == IF i \in p.current..(n - 1) THEN p.blocks[i].failed + 1
                     ELSE p.blocks[i].failed
    IN  Got([blocks |-> [i \in 1..(n + 1) |->
                           IF i = n + 1 THEN [last |-> r.to, failed |-> 0]
                           ELSE [last |-> p.blocks[i].last, failed |-> failed(i)]],
             current |-> NewCurrent(p), large |-> p.large, used |-> p.used \cup {r}], r)

\* Variant of Fits: what alignment takes is forgotten
FitsUnaligned(b, size) == PoolSize - b.last >= size

\* The room is a size_t: it would wrap, and look like plenty
Fits(b, size) == Align(b.last) > PoolSize \/ PoolSize - Align(b.last) >= size

\* The loop of etdb_palloc over the blocks
Fitting(p, size) == {i \in p.current..Len(p.blocks) : Fits(p.blocks[i], size)}
FirstFit(p, size) ==
    CHOOSE i \in Fitting(p, size) : \A j \in Fitting(p, size) : i <= j

\* etdb_palloc of at most pool->max
PallocSmall(p, size) ==
    IF Fitting(p, size) = {} THEN PallocBlock(p, size)
    ELSE LET i == FirstFit(p, size)
             r == Region(i, Align(p.blocks[i].last), size)
         IN  Got([blocks |-> [p.blocks EXCEPT ![i] = [last |-> r.to, failed |-> @.failed]],
                  current |-> p.current, large |-> p.large, used |-> p.used \cup {r}], r)

\* etdb_palloc_large: a node without a chunk among the first five, or a new one
PallocLarge(p, chunk) ==
    LET free == {k \in DOMAIN p.large : k <= 5 /\ p.large[k] = NoChunk}
        at == [block |-> 0, from |-> chunk, to |-> chunk]
    IN  IF free # {}
        THEN LET k == CHOOSE k \in free : \A j \in free : k <= j
             IN  Got([p EXCEPT !.large = [@ EXCEPT ![k] = chunk]], at)
        ELSE Got([PallocSmall(p, LargeSize).pool EXCEPT !.large = <<chunk>> \o @], at)

\* etdb_palloc; chunk is what malloc gives if it is asked
Palloc(p, size, chunk) ==
    IF size <= MaxSmall THEN PallocSmall(p, size) ELSE PallocLarge(p, chunk)
AskedFor(size, chunk) == IF size <= MaxSmall THEN {} ELSE {chunk}

\* etdb_prealloc_large: the node of the chunk raw holds what realloc gave
Has(p, raw) == \E k \in DOMAIN p.large : p.large[k] = raw
PreallocLarge(p, raw, new) ==
    [p EXCEPT !.large = [k \in DOMAIN @ |-> IF @[k] = raw THEN new ELSE @[k]]]

\* What etdb_destroy_pool frees besides the blocks
Chunks(p) == {p.large[k] : k \in DOMAIN p.large} \ {NoChunk}

-----------------------------------------------------------------------------
(* etdb_stack_t, for elements of one byte *)

\* at is where elts is; a chunk of its own is as long as it has to be
StackInit(p) ==
    LET g == PallocSmall(p, 1)
    IN  [pool |-> g.pool, at |-> g.at, nalloc |-> 1, nelts |-> 0]

\* Variant of InPlace: it is not asked whether the stack is the last region
InPlaceAlways(p, s) == s.at.block = 1 /\ s.at.to < PoolSize

\* elts ends at d.last of the first block, and there is a byte left
InPlace(p, s) ==
    s.at.block = 1 /\ s.at.to = p.blocks[1].last /\ p.blocks[1].last + 1 <= PoolSize

\* etdb_stack_push, with nelts = nalloc: one byte more in place, or a region of
\* twice the size
StackGrow(p, s, chunk) ==
    IF InPlace(p, s)
    THEN LET r == [s.at EXCEPT !.to = @ + 1]
         IN  [pool |-> [blocks |-> [p.blocks EXCEPT ![1] = [last |-> r.to, failed |-> @.failed]],
                        current |-> p.current, large |-> p.large,
                        used |-> (p.used \ {s.at}) \cup {r}],
              at |-> r, nalloc |-> s.nalloc + 1]
    ELSE LET g == Palloc(p, 2 * s.nalloc, chunk)
         IN  [pool |-> g.pool, at |-> g.at, nalloc |-> 2 * s.nalloc]
=============================================================================
