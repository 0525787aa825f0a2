# etdb: models, model checking and proofs

etdb is an in-memory key-value server. One process and one thread accept
connections, read requests, run commands on a double-array trie and write the
responses back. This directory holds TLA+ models of that code, TLC
configurations that check them on small instances, and TLAPS proofs of the
central properties for every size. Paths below are relative to the repository,
whose C code is in `src/`. `PROJECT.json` maps every definition that models
code to its lines.

## 1. Inventory

| component | code | state | operations |
|---|---|---|---|
| event loop | `etdb_server.c` | `conn_ready_list_1`, `etdb_conn_cnt`, `etdb_quit` | one cycle: wait, handle each event, post-process the ready list |
| event manager | `etdb_epoll.c`, `etdb_event.c` | a table of `etdb_event_t` by descriptor; the kernel's interest set | set, ctr, del, isset, wait |
| connections | `etdb_connection.c` | descriptor, `buf_in`, `buf_out`, two pools, used and spare record descriptors, slot | listen, accept, request, read_to_buf, recv, send_to_buf, send_cmd, write, flush, close |
| buffers | `etdb_buf.c` | start, data, size, capacity | nice (move to the start), grow, incr, decr, append_record |
| protocol | `etdb_resp.c` | none | parse one request, make room when there is none |
| dispatch | `etdb_serv.c`, `etdb_config.c` | a trie of command names, call statistics | find the command, check the number of arguments, run it, append one response |
| data commands | `modules/etdb_{kv,hash,set,list,spatial_point}.c` | none | 24 commands |
| database | `etdb_database.c`, `store/etdb_list.h` | a trie for each of 16 slots; heads on the heap | set, get, del for each type of data; rectangles |
| trie | `store/etdb_trie.c` | node, ninfo and block arrays, three lists of blocks | update, erase, exact, longest and prefix search, count |
| geohash | `etdb_geo_hash.c` | none; locals of its loops | encode, decode, neighbours, cover of a rectangle |
| system commands | `modules/etdb_sys.c`, `etdb_daemon.h` | `etdb_bgsave_pid`, the slot of a connection | use, where, info, perf, help, bgsave, ping, sync |
| strings | `store/etdb_string.c`, `store/etdb_bytes.c` | none | split a line, lower case, parse numbers |
| pools, stack | `store/etdb_palloc.c`, `store/etdb_stack.c` | blocks with `last` and `failed`, `current`, a list of large chunks; a stack inside a pool | create, palloc, palloc_large, prealloc_large, destroy; push, pop |
| page store, LRU | `store/etdb_store.c`, `store/etdb_lru.c` | pages, a cache | not called by the server |
| client library | `hietdb.c` | a link with its buffers | connect, one blocking request per call, 20 functions |
| command line client, benchmark | `etdb_client.c` | one or P connections, their events, a ready list, `etdb_quit`; `num_sent` | prompt, send a line, print the answer; five parts of R requests each |

How they interact. The loop owns everything. An IN event reads into `buf_in`
and puts the connection on the ready list; the post-processing parses at most
one request of each ready connection, runs it, appends the response to
`buf_out` and asks for OUT; an OUT event writes, and when `buf_out` is empty it
clears OUT and puts the connection back on the ready list if input is left.
A command reaches the trie of its connection's slot through a key that it
builds in the input buffer, in front of the argument. The trie holds pointers
to heads, which the database allocates and frees. What an answer needs is
allocated from one of the connection's two pools: `pool_temp` is destroyed
after each request, `pool` with the connection. The clients use the same
connection code over blocking sockets; library calls block, the command line
client and the benchmark have an event loop of their own.

What is hard. There are no threads, but clients, the kernel and signals act
between any two steps of the loop: descriptors are reused within a batch,
requests come ahead of the responses, reads and writes are partial, and
results of `epoll_ctl` are ignored. The state of one connection is spread over
the event table, the kernel, two buffers and the ready list, and each handler
updates some of them. In the database a point has two trie keys and one head.
In the trie, an update may move nodes of other keys, among them the one it is
working on. In a pool, a stack grows in place between results that are
allocated behind it. For the clients, replies carry no number: everything
depends on staying in step with the server. `PROJECT.json` lists each hazard at
its line.

What makes each part correct:

* loop and connections: no event names a closed connection; a complete request
  always has something that will bring it to the parser; one response per
  request, in order, nothing lost; nobody is closed without a cause;
* protocol: a request is parsed when it is complete, as it was sent;
* database: every pointer in a trie is to a live head of the right type, with
  one owner; both entries of a point agree; every command does what it does on
  plain maps;
* trie: a map, whatever moved; rings, block lists and child lists are exact;
* geohash: the cover of a rectangle is a prefix of the code of every point in
  it; tables and loops describe one grid;
* bgsave: one child at a time, which saves and ends; its end is noticed;
* memory: allocations are disjoint and inside their blocks, the search for room
  is short, everything is freed once, and what a connection holds does not grow
  with its requests;
* clients: a call, a line and a part of the benchmark get the answers that
  belong to them, give up only for a cause and do not wait for ever.

## 2. Modules

| module | what it is |
|---|---|
| `EtdbServer` | the event loop with connections, buffers, event table, clients and kernel |
| `EtdbService` | what a client is promised; `EtdbServer` implements it |
| `EtdbServerProofs` | the proofs about `EtdbServer` |
| `EtdbResp` | the protocol on the bytes of one input buffer |
| `EtdbDatabase` | the commands, tries as maps from keys to pointers, and the heap |
| `EtdbKeyspace` | what the commands do, on plain maps; `EtdbDatabase` implements it for names of different lengths |
| `EtdbDatabaseProofs` | the proofs of the invariants of `EtdbDatabase`, and that it implements `EtdbKeyspace` |
| `EtdbTrie` | the double array: nodes, rings, blocks, conflicts |
| `EtdbMap` | a map; `EtdbTrie` implements it |
| `EtdbTrieAllocProofs` | the proofs about its nodes and blocks: rings, lists, the search for a place |
| `EtdbTrieProofs` | the proofs that updates, conflicts and erasures keep one tree |
| `EtdbGeo` | the geohash loops of `spset` and `sprect`, turn by turn, and the decoder |
| `EtdbGeoProofs` | the proofs about `EtdbGeo` and `EtdbNeighbors` |
| `EtdbNeighbors` | the neighbour tables and functions against the grid of cells |
| `EtdbBgsave` | `bgsave`: the server, its children, `fork` and SIGCHLD |
| `EtdbBgsaveProofs` | the proofs about `EtdbBgsave` |
| `EtdbPool` | the operators of a memory pool and of the stack in it |
| `EtdbMemory` | the memory of one connection of the server, request after request |
| `EtdbConnectionProofs` | the proofs about `EtdbResp` and about `EtdbMemory` |
| `EtdbDispatch` | from the text of a line to its answer: split, command table, arguments, system commands |
| `EtdbClient` | the library, the command line client and the benchmark against a server |
| `EtdbClientProofs` | the proofs about `EtdbClient` and `EtdbDispatch` |
| `MCEtdbConnection` | `EtdbResp` and `EtdbMemory` in one run: two views of one connection that share no state |
| `MCEtdbGeohash` | `EtdbGeo` and `EtdbNeighbors` in one run, in the same way |
| other `MC*` | constants, symmetry and views for TLC |

The parts are layered as in the code, and each layer uses the promise of the
one below. `EtdbServer` treats a request as units to be parsed and a response
as units to be written, which `EtdbResp` refines to bytes; `EtdbDatabase`
treats a trie as a map, which `EtdbTrie` implements (`EtdbMap`); the loop runs
one command to its end before the next, so `EtdbDatabase` has one action per
command. `EtdbClient` composes the clients with `EtdbDispatch` and with a server
that does what `EtdbService` promises: it answers the requests of a connection
in their order, once, and may close it.

### EtdbServer

Each variable is a field or a global of the code, by its name where there is
one: `buf_in[c]` is `[off, size, cap]` with `off = data - start`, `ev[f]` is
the `etdb_event_t` of descriptor `f` with, in `epoll`, what the kernel holds
for it. `phase` says where the thread is: in `epoll_wait`, in the loop over
events, in the post-processing. Each event is one step and each ready
connection is one step, so clients act between them: they connect, send one
unit, receive, close or reset.

Units, not bytes: a request is `ReqLen` units, the last of which is the final
newline of its terminator, which the parser leaves in the buffer for the next
parse to skip (`Lead`). The parser looks at that newline without asking
whether it has come, so with it missing the outcome is open: `MayParse` and
`MustParse` differ by that unit. Reads that end inside a record are
`EtdbResp`'s subject.

The client's side, `Readable` and `Writable` are the kernel's and are marked
external in the map. `close()` discards what was not delivered, because the
code sets `SO_LINGER` to `{1, 0}`. A timeout or a signal in `epoll_wait`
returns an empty batch and is a stutter; other failures of `epoll_wait` end the
loop and are not modelled, nor is exhaustion of memory.

### EtdbResp

One connection, with the bytes of its buffer: digits, newline and one other
character. `etdb_buf_nice` leaves the old bytes behind the moved ones and
`etdb_buf_grow` leaves new memory as it is (`Beyond`), so a parser that goes
past the data meets what the code meets. The size is unsigned and wraps at
`SizeMod`, which no client's bytes reach (`Send`); a length is an int, so that
digits may write a negative one (`AsInt`), which is refused. The two limits of
the parser (15 bytes of a head, the largest packet) are there, the second scaled
down. `Decimal` has the digits that `snprintf` writes for a length, which read
back as that length: a client's lengths fit an int.

The loop of `etdb_resp_parse_req` is one step for each turn, with its locals
`head`, `left` and `recs`: `Recv` is `etdb_connect_recv` up to the loop,
`RecordParsed` a turn that goes on, and `RequestParsed`, `RequestRefused` and
`DataMissing` are the ways out with what `etdb_resp_recv_req` and
`etdb_connect_recv` do then. Between two turns only the client can send.
`Written` is the end of the write of the response.

`etdb_resp_recv_req` ends without a return statement where it has a request
(`etdb_resp.c:98`), and its caller uses the value. `NoReturn` are the values it
may have: the run and the proofs take those that are not negative, as do
`EtdbServer` and `EtdbClient`. With a negative one the connection is closed
instead of the request being executed.

`AnyCut` chooses the reads: FALSE lets a read end with a record or with the
buffer full, TRUE anywhere. It separates the case the code handles from the
one it does not (section 4).

### EtdbDatabase

`trie[s]` is a function from all trie keys to pointers, `heap` from addresses
to heads. `HashKey` and `SetKey` are what the encoding macros build: the type
byte, the length of the name in a byte and the key. The bytes of the name are
not in it, because the loop that would copy them runs zero times. `Put` leaves
the old head allocated, as the code does. `SetDel` is the loop with its early
exit, `Reindex` the two updates of a point that moves. A handler without a
return statement (`where`) answers with either status.

Abstracted: values, keys and names are opaque; `Geo` and `Cover` stand for the
geohash code, and `BadPoint` and `BadRect` for coordinates it refuses.
`Unlisted` are the keys and ids that the traversal of a trie passes over, which
`smembers` and `sprect` leave out although they are stored: `etdb_trie.c:630`
encodes again the labels it meets, so that it finds no key with a byte 0
(`Searches` of `EtdbTrie` says so of the arrays), and it lists what follows the
prefix in longer keys only, so not the empty member of a set. Exact searches
(`sismember`, `spget`, the dels) find them all. Ids are not empty here.

`EtdbKeyspace` has the same commands on plain maps. It is the reference for
what one command may do to the data of another, and takes over what the handlers
answer: it refuses the names of more than 255 bytes that they refuse, and its
listings leave out `Unlisted`.

### EtdbTrie

The arrays of the code with blocks of `B` nodes and `B` labels (256 in the
code). Operators take a trie and return the changed one, one operator per C
function, `Resolve` with its loop included. A loop is a recursive function of
the number of its turns, and the end of the loop the first turn that meets its
condition; the list of siblings is the sequence of labels that the links go
through. The exclusive or of an index and a label stays within a block, as in
the code, and is that of two labels there (`XorOf`). Of it only
`XorAssumption` is used: zero changes nothing, a label cancels itself, and order
and grouping do not matter. `op` and `ret` record the last operation for the
refinement.

### EtdbGeo and EtdbNeighbors

`EtdbGeo` has one step for each turn of the three bisection loops. The locals
of a loop are variables that `Return` resets; `precision` is the code's in-out
argument, which the cover's early return leaves at its full length. `hash` is
the bits found so far: a character is a group of `Bits` bits, and the ones
after the last complete group never reach the code's `hash`, which is what
`Matches` says. `path` is a history variable, the cells gone through; the
properties compare the cover with the run of the encoder that it records. One
stored point is enough, because `sprect` decides about each by itself.
Coordinates are integers in a unit that makes the midpoints integers
(`UnitAssumption`: no turn cuts an odd number of units, as the doubles of the
code are cut without rounding); the ones the server gets are never negative,
because `etdb_atof` refuses a sign. `Halved` is the loop of
`etdb_geo_hash_get_dimensions`, as a recursive function of the number of turns.

`EtdbNeighbors` has the tables of the code, with a character as its index; the
recursion of the code is a recursive function of the number of characters. The
grid is computed from the bits and is the reference: `Place` is the column and
row of a cell, `Grid` how many there are. On the edge of the world the recursion
reaches zero characters, where the code reads in front of its argument and
copies -1 bytes (`Crash`). The server calls none of
these functions.

### EtdbBgsave

Every process has the server's whole state, so each action takes the process
that makes it. `Fork` and `ForkReturns` are two steps, because the child runs
and SIGCHLD may be handled between them. A pid of 0 and of -1 are the same to
the code (`Nobody`); a fork that fails changes nothing else. `WildRead` is the
read through the pointer without a value: the child goes on or dies. `Exit`
and `Waited` are the kernel's. The contents of the file are left out: nothing
reads them.

### EtdbPool and EtdbMemory

A pool is the sequence of its blocks, in the order of `d.next`, with `d.last`
as an offset and `d.failed`; `current`; the chunks of the list `large`; and,
for the properties, the set `used` of the regions given out. Sizes are those of
a 64-bit build. `Fits` has the subtraction of the code, which would wrap if an
aligned `d.last` could pass the end of its block. `NewCurrent` is what the loop
of `etdb_palloc_block` leaves in `current`: `failed` is compared before it is
incremented, and the last block is not counted.

`EtdbMemory` follows one connection: accepted, then any sequence of requests
(`RecvBegins`, a `ParseRecord` for each record, then incomplete, grown, or
executed), then closed. A command allocates nothing, one reply from either pool,
or what a traversal needs: `Visit` pushes a label and, at the end of a key,
copies the stack into a result. The depth of a trie and its keys are open, as
any shape is possible. `realloc` moves a buffer to another chunk or fails;
`malloc` of small things does not fail here, as the code looks at no result of
it. `Closes` of a request that could not be given room frees everything but the
chunk the pool forgot (`lost`). `past` counts for the properties and bounds the
work.

### EtdbDispatch and EtdbClient

A line is the sequence of its pieces between blanks, empty ones included, since
`etdb_str_split` counts them. The command table is that of the modules, with
its flags as sets; `ParseArgs` is the switch of `etdb_serv_parse_args`, whose
last case asks for a flag no command has. `Atoi` is the number that the digits
of a word write (`Decimal`), wrapped to an int; a sign is refused, as in the
code. `Lower` is the lower-casing of the words that have capitals. What a data
command answers
depends on `EtdbDatabase`'s state and is open here; `where`, `perf` and `use`
are exact.

In `EtdbClient` one program runs. `conn[c]` has what the client holds (requests
put into `buf_out`, units not yet written, units read, replies taken, its
event), `peer[c]` the server's end. `HandleUserCmd` is one write of any length,
0 for an interrupted one. On a link that was reset a write fails or SIGPIPE
ends the process: the clients do not ignore it. Closing frees a connection, so
using one that is closed is `wild`. `trouble` records that a call of the kernel
failed while the link stayed up, which is when the library loses step. The
capacity of the client's buffers is the subject of `EtdbServer` and `EtdbResp`,
whose code it shares.

## 3. Runs

| run | instance | checks |
|---|---|---|
| `server_mixed` | 2 clients (one sends two requests, one a malformed one), 2 descriptors, with fairness | `EventTable`, `NoDanglingEvent`, `OutArmed`, `NoStrandedRequest`, `Served` |
| `server_pipeline` | 4 requests of 3 units through a buffer of 4, responses of 2 through a socket of 1; 1 descriptor for 2 clients | `Accounting`, `BufferBound`, `ConnCount`, `NoSpuriousClose`, `Refinement` |
| `connection` | bytes: 4 requests of 7, 11 or 17 bytes (a length of two digits, newlines in a body) or a line that is none, through a buffer of 8; memory: blocks of 208 bytes, replies of 0, 3, 120 and 300 bytes, 2 records, depth 5, 6 pieces of lasting work | `DataNotReady`, `BytesKept`, `NothingForgotten`, `Disjoint`, `SearchBound`, `Holdings` |
| `resp_cut` | the bytes, reads end anywhere | `DataNotReady`, violated |
| `database_keyspace` | all types of data in 2 slots: 2 keys and 2 points, of which one each is not listed, 2 names (lengths 2 and 261), a list, 3 places with 2 geohashes, 2 addresses | `LiveHeads`, `OneOwner`, `SpIndex`, `HeadsKept`, `Refinement` |
| `database_samelen` | 2 names of one length | `Refinement`, violated |
| `trie` | 5 keys over 4 labels with both escaped bytes, 6 operations | `FreeRings`, `BlockLists`, `ChildLists`, `Searches`, `Refinement` |
| `geohash` | a world of 16 by 32, 2 characters of 3 bits, coordinates on, beside and beyond borders; the real neighbour tables, all 33824 codes of up to 3 characters | `CellHoldsPoint`, `CoverFollowsCode`, `CoverSound`, `DecodeNear`, `NeighborsAdjacent` |
| `geo_borders` | the same world | `RectFinds`, violated |
| `bgsave` | 4 processes, with fairness | `OneChild`, `ZombiesReaped`, `RefusalEnds` |
| `bgsave_child` | 2 processes | `ChildOnlySaves`, violated |
| `client` | a library program of 3 calls of 4 functions; a user of 2 lines out of 16; a benchmark of 2 parts, 1 or 2 connections, 1 or 3 requests; with fairness | `InStep`, `ShownAnswers`, `BenchLag`, `WildUse`, `QuitCause`, `ClientProgress` |

The type invariants are part of the inductive invariants and proved (section 5);
they have no run of their own.

Why the bounds are enough. In the server runs the descriptors are reused
within a batch, one client is closed while the other has an event in the same
batch, the buffer is moved, filled and grown, and writes are cut. In
`connection` the buffer wraps around old bytes of every alignment and grows.
In the database two keys of every kind exist, a prefix of the other among
them, and heads are freed and allocated again; the number of addresses bounds
the heap, and a list has at most `MaxList` elements. One connection issues the
commands, since the loop handles them one after the other and a command reads
no connection but its own; the proofs have any number of them. In the trie, blocks of
four nodes fill up after two or three keys, so that six operations reach every
branch of the functions: a block in each list and each move between them, both
sides of a conflict, the node that waits for its child among the moved ones.
In the geohash the characters have an odd number of bits, as in the code, so
codes of one and of two characters differ in the axis they end with; rectangles
have every order of bounds and every position to the borders. Three characters
cross borders of both parities, through one and through two characters. Four
processes are a server, a child that goes on as a server, a child of that one
and one to reuse a pid.

In the memory of `connection`, a block of 208 bytes holds the connection and
nothing else, so that every further allocation makes or fills a block, six
answers take `failed` past its limit and `current` moves; 120 bytes fit a
block, 300 make a chunk of their own, 0 and 3 leave `last` unaligned or not. A
stack of up to five labels is grown in place, moved to another block and left
behind by results. In `client`, the limit of pieces is 6 and an int has 16
values, so that lines on both sides of each limit are short; lines differ in
case, blanks, number of arguments, sign and size of a number, and two of them
show that a `use` or a count is remembered. Two parts are enough for a reply of
one part to be taken by the next, for an OUT event that is left over, and for a
connection that was freed to be used again; one request on two connections
reads behind the table.

Deadlock is not checked: a server that was told to stop stops, and bounded
inputs run out. `VIEW` drops the last reply or operation, which no action
reads; the refinements compare it in every step all the same. Symmetry is over
addresses and stored values, which the database never looks into; the runs with
a liveness property have none.

Fairness. In `server_mixed`: the loop's thread is always scheduled and blocks
only in `epoll_wait`, which returns when something is reported: weak fairness of
the server's step as a whole, with no choice among events assumed beyond it,
because a batch is handled to its end. A client that is up eventually receives
what was delivered: weak fairness of `Receive`. Clients need not send or
connect. In `bgsave`: every process is scheduled and pending signals are
delivered, weak fairness of `Runs`; nobody has to ask for a save, to stop,
or to die of the wild read. In `client`: the program runs (weak fairness of its
loop, and of a call of the library without its failures, which end a call only
on a link that was reset), and a server that is up answers what it has got,
which is `Served` of `EtdbServer`. Nobody has to type, to call or to close, and
the kernel need not fail.

## 4. Findings

* `database_samelen`: two hashes (or sets) whose names have one length are the
  same one. `etdb_database.c:92` starts the copying loop at zero.
* `resp_cut`: a valid request that a read cuts inside a record can be parsed
  into old bytes of the buffer; what is executed or refused then is not what the
  client sent. `etdb_resp.c:43` tests an unsigned size for being negative.
* `geo_borders`: a rectangle across a border of the cells of one character is
  answered without any point. `etdb_geo_hash.c:237` returns with the precision
  at its full length and no character written.
* `bgsave_child`: a child that cannot open its file goes on as a second server.
  `etdb_database.c:537` returns where line 589 exits.

Two places where `src/ChangeLog` shows something else than the code, on the
side of the code as it seems, since other documents and tests agree with it:

* Lines 7-8 show `+FAIL` for the `del` of a key that has been set. The code
  answers `+OK` (`modules/etdb_kv.c`, `etdb_database.c:58-69`), as line 16 shows
  for `hdel` and `TestKVDel` of `test/etdb_test_client.c` asserts for `del`.
  `EtdbKeyspace` has the answer of the code.
* Lines 47-48 show `spknn` with an answer; its handler does not search and
  answers a fixed text.

## 5. Proofs

The proof modules prove `Spec => []Inv` for an inductive invariant `Inv` and
draw the listed properties from it, for any values of the constants that
satisfy the named assumptions: sets of connections and descriptors of any size
(`Conn` finite, for the count), any scripts, `ReqLen >= 2` and positive sizes;
any keys, names, points and addresses, `MaxSlot >= 1` and special values that
are not addresses; any world, codes of any length, characters of any odd number
of bits, any coordinates that are not negative and a unit in which the cuts are
exact; any number of processes and slots; blocks of any size that is a multiple
of eight and holds a connection, replies of any length; any lines and words, any
number of connections and requests of a benchmark, any limit of pieces, an int
of any even width with more than twice as many values as there are slots, and a
lower case that maps no word that is a command already; any requests whose
lengths can be written and read back, any first size of a buffer and any widths
of a size and of an int; tries of any number of labels, and any keys and values of which some
byte begins no key.

**EtdbServer.** `Inv` adds to the checked invariants what a handler may rely
on. `Batch`: an event of the batch is still true of its connection when its
turn comes (the connection is open, owns the descriptor and is not on the ready
list; the socket is still writable or readable). Without it nothing says that
a write after an OUT event takes at least one unit, which is what keeps the
loop from closing healthy connections. `ReadyList`: ready connections are open,
and none is left when the cycle ends. `ConnInv`: buffers within their capacity,
the accounts of units, and the remembered work (`Pending`) of each connection.
A frame lemma shows that a step that touches one connection and one descriptor
keeps the conjuncts of the others; one lemma per action shows its own.
`NoSpuriousClose` follows from the invariant and the reasons for which a read
or a write can fail. `ServiceImplemented` shows that every step is one of
`EtdbService` or leaves its variables alone.

**EtdbDatabase.** The conjunction of the invariants, with `HeadContents`. None
is inductive alone: that a new head is not shared needs that no key leads to a
free address (`LiveHeads`); that a del leaves nothing dangling needs
`OneOwner`; that the two keys of a point are the only ones to its head needs
`SpIndex`. The steps are grouped by what they do to the heap: allocate, free,
replace a list, change the two keys of a point.

`KeyspaceImplemented` is the refinement, under two hypotheses: names have
different lengths as far as a key holds them (`DistinctNames`), and the cover of
a rectangle has the geohashes of its points (`CoversReach`). `database_samelen`
and `geo_borders` show what happens without them, and the instance of
`database_keyspace` satisfies both. The third difference between the program and
a plain key space is not a hypothesis: that listings leave out the keys and ids
with a byte 0 is written into `EtdbKeyspace`, and the theorem holds for any set
of them. A command changes what one key leads to
(`Rewrites`) or the members of one set. That the other keys lead to what they
did needs `OneOwner`, because commands change heads in place; that the other
*data* stay needs that no two of them have one key (`KeysDiffer`, from
`DistinctNames`). `sdel` stops at the first missing member, which is found as
the least one; `sprect` goes through the index entries, which `SpIndex` turns
into the points.

**EtdbGeo.** `CoverSound` is about two loops that never run together. The
invariant keeps, with the stored point, the run of the encoder that made its
code (`HeadInv`: each bit is the comparison with the midpoint of the cell, each
cell a half of the one before), and says that the cover so far is a beginning
of that run if the point is inside (`CoverFollowsCode`). A turn of the cover
then has the cell of the encoder, and a rectangle strictly on one side of the
midpoint has the point on the encoder's side (`SameHalf`). With
`CoverPrecision`, that precision counts complete characters only, the key that
is searched for is a prefix of the point's. For this nothing but that midpoints
are integers is needed of the halving.

`DecodeNear` compares three loops: the encoder, the decoder and the dimensions.
The invariant adds that the cells of the encoder have the widths of the
dimensions' loop (`Widths`), which the exact cuts of `UnitAssumption` keep, and that
the decoder repeats the run up to its turn. The dimensions have their own order
of turns: they cut the longitude once more where a code of odd length does, and
that is where the odd number of bits is needed. `Halved` is recursive; facts
about it are proved by a least counterexample (`LeastOf`, from the well-foundedness of the
naturals), which needs no induction over an operator.

**EtdbNeighbors.** A character has three bits of one side of the grid and two of
the other, in turns, so a code is a number on each side, with digits of base 8
and 4 (`PlaceMore`, `GridMore`). What the tables say is checked entry by entry
(`Table1` to `Table4`): the entry of a character moves its digit on one side by
one and keeps the other, and the border characters are those whose digit is the
last, which the table turns into the first (`DigitMoves`). The recursion is the
carry (`Carry`, `MovedMore`), and it runs out of characters where every digit is
the last, which is the edge of the world. `GetNeighbor` and `Bisect` are
recursive functions: that a function with their equation exists is proved once,
by `Iteration`, and the rest is induction over a set (`Induction`). The eight
neighbours are one step or two from the cell, and the second step is never on an
edge that the first was not on.

**EtdbTrie.** The invariant has two halves, for the nodes that are free and for
those in use. `Alloc` is about the allocator: the free nodes of a block are one
ring with the head on it, the block counts them, it is on the list that its
count and its trial say, and nodes that are free have no children. Block 0 never
runs out of free nodes, because only children of the root live in it, and some
byte begins no key (`RootAssumption`; the comment there says what the code does
otherwise). `Tree` is about the rest: the nodes in use are those of one tree,
every one is on the list of the node that its `check` names, and no two places
of a list are the same node. Neither half is inductive alone: a node that is
taken has to be one that nothing leads to, and a node that is freed one whose
children are gone.

`EtdbTrieAllocProofs` shows that taking and freeing a node, moving a block
between lists, adding a block and the search for a place keep `Alloc`, and that
the places found are free for all labels asked for, with room left in block 0.
Rings are treated as such, apart from tries: a permutation that is one cycle
stays one when an element is put behind another or taken out (`IsRing`), which
is the argument for the nodes of a block and for the three lists of blocks.

`EtdbTrieProofs` goes through `etdb_trie_resolve`. While children move, the tree
is broken: some of them are reached from the new base and some from the old, the
parent's list is half written, and the conflicting place belongs to neither.
`Moving(m, i, k, ...)` says what holds after i children were taken and k given
back; each turn has its own cases, for the new child, the child whose place it
gets, and the others, and the node that waits may itself be one that moves
(`Waits`, `Moved`). The new base has room for every label because the
search found one place for all of them at once (`RoomFor`). `Follow` then adds one node, and the
climb of `etdb_trie_erase` frees one per turn, so that it ends below the root
(`ClimbStep`).  From `TrieWellFormed` follow `FreeRings`, `BlockLists` and
`ChildLists`.

**EtdbBgsave.** `OneChild` needs to know that the pid is reset only when the
child is gone: the invariant says that a child that runs is remembered by its
parent, in `etdb_bgsave_pid` or in the fork that has not returned
(`Remembered`), that SIGCHLD is pending exactly while the child is a zombie
(`Signalled`), that a signal has a cause (`Caused`) and that every zombie has
another process to wait for it (`Awaited`). Only together do they survive a SIGCHLD before
`fork` returns, when the pid is reset too early and then set for ever: the
process never forks again, so it still has one child.

**EtdbMemory.** `Disjoint` follows from `Inside` and `Apart`, which an
allocation keeps because a region starts at the aligned `last` and `last` bounds
all regions before it; the stack in place needs that its region ends exactly at
`last` of the first block, so that nothing is behind it. That alignment cannot
pass the end is where the multiple of eight is used. `SearchBound` rests on a
count that no line of the code states (`Counted`): from `current` on, the block
at place i of n has failed n - 1 - i times. Each new block fails all but the
last of them once, and six failures move `current`, so that it is never more
than six blocks behind the last one.

`Holdings` is about counts, and its invariant (`HoldInv`) about who holds what.
Every chunk has one owner, the list of one of the pools or `lost` (`Parted`). Used
and spare descriptors together are as many as the longest request had records
(`Descriptors`): no request takes a new one while a spare one is left. And the
number of regions of the connection's pool is exactly what is due while no
`realloc` failed, and no more after one did (`Regular`); a reallocated chunk
keeps its node in the list, a failed one leaves it empty.

**EtdbClient.** `Links /\ LibInv /\ CliInv /\ BenchInv`. `Links` holds for all
three programs: both ends count alike (`Flow`: what was taken and what is
waiting is what was served, answer i belongs to request i, no unit is on the way
that was not served), an event of the batch is still true of its connection
(`Batch`), OUT is set for nothing only in a later part of a benchmark (`OutSet`),
and a closed connection ends the loop (`Quits`). `LibInv` says that the library has
at most one request out and, while no call gave up, is in step or stuck on a
reply too long for it. `CliInv` says that the server's slot and counts are what the
text of the served lines says (`TextOf`), which is a statement about all lines
so far and is kept line by line. `BenchInv` counts the replies a part leaves
behind: one for each connection but one, the cardinality of a set
(`Asked`). From them follow `LibraryInStep`, `AnswersShown`, `BenchmarkLag` and
`NoWildUse`, and, as an action property, `CausedQuit`: whoever gives up has a
cause in the state before.

**EtdbResp.** What was sent is one sequence of bytes (`Data`: the buffer and the
stream are its end), cut into pieces: the records of the requests, the empty
record behind them, and the lines that are no request. The parser is always at
the beginning of a piece (`ParseInv`, `Place`), and sees its bytes as far as they
have come (`Window`). What lets it tell a piece that is complete from one that is
not is `CutSafe`: a record ends with the data, or no newline lies behind it. In
the first case the piece at hand has come or nothing of it has (`Boundary`: no
record ends within a piece); in the second the newline that the parser looks for
is not there, however far the wrapped size lets it look (`RecordTurn`).
`CutSafe` has to survive the moves of the buffer, and does for a reason that is
not local: `etdb_buf_nice` leaves old bytes, newlines among them, behind the
data. It only moves what lies in the second half of the buffer, though; a read
moves first and reads afterwards, and a parser that makes room while a response
is still to be written comes from such a read. One that has no response to
write leaves a connection on which only the next read counts.

The theorems assume what `Handled` says: reads end with a record or with the
buffer full, which is the run `connection`, and `resp_cut` shows that it is
needed; the byte behind the buffer is no newline (new memory is not cleared, and
with the wrapped size the parser looks at it); `NoReturn` has no negative
values.

Only model-checked:

* `Served`, `RefusalEnds` and `ClientProgress`: liveness under fairness;
* `Searches` and the refinement of `EtdbMap` by `EtdbTrie`. The proofs say that
  a tree is kept, not yet that the path of every key through it is: for that,
  each turn of a move needs the keys below the children that moved.

## 6. Not modelled

* the rounding of `etdb_atof` (the midpoints are exact in doubles), and the file
  that `bgsave` writes, with the loader, which reads nothing;
* job control signals, which also send SIGCHLD;
* the contents of freed memory: `etdb_connect_close` reads a field of the
  connection it has just freed, and the loop over the ready list its next
  pointer. Nothing is allocated in between, and the models take the old value;
* what `info` and `help` say and the times of `perf`;
* the page store and the LRU cache under it: unfinished, and never entered
  (`etdb_store_resolve` is commented out, `etdb_init_store` has no caller), so
  there are no reachable states to model. `etdb_pnalloc` and
  `etdb_pfree` have no caller either;
* configuration, log and daemon, which come before the first state of the loop
  or write lines only; `linenoise` and `jemalloc`, which are third-party code.

Remarks on code that a model leaves out or takes as it is:

* `etdb_atof` and `etdb_atoi` look at a sign and then refuse it as a character
  that is no digit: `spset` with a negative coordinate always fails.
* The handler of `where` has no return statement; both statuses are modelled.
  For the missing one of `etdb_resp_recv_req` see `NoReturn` (section 2).
* A typed line is printed from an array of 1024 bytes, and the lengths of values
  in the database have 24 bits; values are opaque in the models.

## 7. Plan

1. `EtdbServer`, `EtdbService`, proofs: done.
2. `EtdbDatabase`, `EtdbKeyspace`, proofs of the invariants and of the
   refinement: done.
3. `EtdbTrie`, `EtdbMap`, proofs of the rings and lists of blocks and of the
   tree: done. Next, that a move keeps the paths of all keys, for the
   refinement of `EtdbMap`.
4. `EtdbResp` with its proofs: done. Next, that its steps are those `EtdbServer`
   has for a request, by a refinement to units.
5. `EtdbGeo`, `EtdbNeighbors`, proofs of the covers, of the decoder and of the
   neighbours: done.
6. `EtdbBgsave` with its proofs: done.
7. `EtdbPool`, `EtdbMemory` with their proofs: done.
8. `EtdbDispatch`, `EtdbClient` with their proofs: done.
