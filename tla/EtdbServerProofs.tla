--------------------------- MODULE EtdbServerProofs ---------------------------
(***************************************************************************)
(* Proofs about EtdbServer, for any number of connections and descriptors, *)
(* any scripts and any sizes.                                              *)
(***************************************************************************)
EXTENDS EtdbServer, FiniteSetTheorems, TLAPS

Buf == [off : Nat, size : Nat, cap : Nat]
Event == [s_flags : SUBSET Flags, epoll : SUBSET Flags,
          ptr : Conn \cup {NoConn}, events : SUBSET Flags]

\* What an event of the batch says still holds when it is handled
Valid(f) ==
    ev[f].events # {} =>
        /\ phase = "events"
        /\ ev[f].ptr \in Conn /\ sock[ev[f].ptr] = "open"
        /\ fd[ev[f].ptr] = f /\ ev[f].ptr \notin ready
        /\ "OUT" \in ev[f].events =>
              "OUT" \in ev[f].s_flags /\ Writable(ev[f].ptr)
        /\ "IN" \in ev[f].events => Readable(ev[f].ptr)
        /\ "ERR" \in ev[f].events => client[ev[f].ptr] = "reset"

Batch == \A f \in Fd : Valid(f)

\* The ready list holds open connections and is empty outside of a cycle
ReadyList ==
    /\ ready \subseteq Open
    /\ phase \in {"wait", "stopped"} => ready = {}

\* A connection that was never accepted has no server state
Fresh(c) ==
    /\ client[c] = "off" => sock[c] = "none"
    /\ sock[c] \in {"none", "pending"} =>
          recvd[c] = 0 /\ done[c] = 0 /\ wire[c] = 0 /\ got[c] = 0

\* The buffers of a connection
Buffers(c) ==
    /\ wire[c] <= SndCap
    /\ buf_in[c].cap >= BufCap
    /\ buf_in[c].cap <= BufCap \/ buf_in[c].cap <= 4 * ReqLen
    /\ buf_in[c].off + buf_in[c].size <= buf_in[c].cap

\* The accounts of an open connection
Accounts(c) ==
    sock[c] = "open" =>
        /\ recvd[c] <= sent[c]
        /\ buf_in[c].size + Consumed(c) = recvd[c]
        /\ buf_out[c] + wire[c] + got[c] = RespLen * done[c]

\* What is still to be done for an open connection is remembered
Pending(c) ==
    sock[c] = "open" =>
        /\ "OUT" \in ev[fd[c]].s_flags <=> buf_out[c] > 0
        /\ (MustParse(c) \/ Malformed(c)) => c \in ready \/ buf_out[c] > 0

ConnInv(c) == Fresh(c) /\ Buffers(c) /\ Accounts(c) /\ Pending(c)

\* The inductive invariant
Inv ==
    /\ TypeOK /\ EventTable /\ Batch /\ ReadyList
    /\ \A c \in Conn : ConnInv(c)
    /\ ConnCount

-----------------------------------------------------------------------------
(* The operators *)

\* etdb_event_mgr_set on an entry that agrees with the kernel
LEMMA SetIn ==
    ASSUME NEW e \in Event, NEW c \in Conn, e.epoll = e.s_flags
    PROVE  /\ EventSet(e, {"IN"}, c) \in Event
           /\ EventSet(e, {"IN"}, c).s_flags = e.s_flags \cup {"IN"}
           /\ EventSet(e, {"IN"}, c).ptr = c
           /\ EventSet(e, {"IN"}, c).events = e.events
           /\ EventSet(e, {"IN"}, c).epoll = EventSet(e, {"IN"}, c).s_flags
BY DEF EventSet, Event, Flags

\* The same for the OUT event
LEMMA SetOut ==
    ASSUME NEW e \in Event, NEW c \in Conn, e.epoll = e.s_flags
    PROVE  /\ EventSet(e, {"OUT"}, c) \in Event
           /\ EventSet(e, {"OUT"}, c).s_flags = e.s_flags \cup {"OUT"}
           /\ EventSet(e, {"OUT"}, c).ptr = c
           /\ EventSet(e, {"OUT"}, c).events = e.events
           /\ EventSet(e, {"OUT"}, c).epoll = EventSet(e, {"OUT"}, c).s_flags
BY DEF EventSet, Event, Flags

\* etdb_event_mgr_ctr on an entry that agrees with the kernel
LEMMA ClearOut ==
    ASSUME NEW e \in Event, e.epoll = e.s_flags
    PROVE  /\ EventClear(e, {"OUT"}) \in Event
           /\ EventClear(e, {"OUT"}).s_flags = e.s_flags \ {"OUT"}
           /\ EventClear(e, {"OUT"}).ptr = e.ptr
           /\ EventClear(e, {"OUT"}).events = e.events
           /\ EventClear(e, {"OUT"}).epoll = EventClear(e, {"OUT"}).s_flags
BY DEF EventClear, Event, Flags

\* etdb_event_mgr_del
LEMMA DelOp ==
    ASSUME NEW e \in Event
    PROVE  /\ EventDel(e) \in Event
           /\ EventDel(e).events = e.events
           /\ EventDel(e).epoll = {}
           /\ e.epoll = e.s_flags => EventDel(e).s_flags = {}
BY DEF EventDel, Event

\* The end of an event's turn
LEMMA HandledOp ==
    ASSUME NEW e \in Event
    PROVE  /\ Handled(e) \in Event
           /\ Handled(e).s_flags = e.s_flags
           /\ Handled(e).epoll = e.epoll
           /\ Handled(e).ptr = e.ptr
           /\ Handled(e).events = {}
BY DEF Handled, Event

\* Compaction keeps the data and never loses space
LEMMA NiceBuf ==
    ASSUME NEW b \in Buf, b.off + b.size <= b.cap
    PROVE  /\ Nice(b) \in Buf
           /\ Nice(b).size = b.size /\ Nice(b).cap = b.cap
           /\ Nice(b).off + b.size <= b.cap
           /\ Nice(b).off <= b.cap \div 2
           /\ Space(Nice(b)) = b.cap - Nice(b).off - b.size
BY DEF Nice, Buf, Space

\* What the parser consumes leaves the buffer
LEMMA DecrBuf ==
    ASSUME NEW b \in Buf, NEW n \in Nat, b.size >= n
    PROVE  /\ Decr(b, n) \in Buf
           /\ Decr(b, n).size = b.size - n /\ Decr(b, n).off = b.off + n
           /\ Decr(b, n).cap = b.cap
BY DEF Decr, Buf

\* An incomplete request in a full buffer makes the buffer grow only when it
\* is long, so the capacity stays within four requests
LEMMA RoomBuf ==
    ASSUME NEW b \in Buf, b.off + b.size <= b.cap, b.size <= ReqLen,
           b.cap >= BufCap, b.cap <= BufCap \/ b.cap <= 4 * ReqLen
    PROVE  /\ MakeRoom(b) \in Buf
           /\ MakeRoom(b).size = b.size
           /\ MakeRoom(b).cap >= BufCap
           /\ MakeRoom(b).cap <= BufCap \/ MakeRoom(b).cap <= 4 * ReqLen
           /\ MakeRoom(b).off + MakeRoom(b).size <= MakeRoom(b).cap
<1> DEFINE n == Nice(b)
<1>1. /\ n \in Buf /\ n.size = b.size /\ n.cap = b.cap
      /\ n.off + b.size <= b.cap /\ n.off <= b.cap \div 2
      /\ Space(n) = b.cap - n.off - b.size
  BY NiceBuf
<1>2. CASE Space(b) # 0
  BY <1>2 DEF MakeRoom
<1>3. CASE Space(b) = 0 /\ Space(n) # 0
  BY <1>1, <1>3 DEF MakeRoom
<1>4. CASE Space(b) = 0 /\ Space(n) = 0
  <2>1. MakeRoom(b) = [n EXCEPT !.cap = 2 * @]
    BY <1>4 DEF MakeRoom
  <2> HIDE DEF n
  <2>2. /\ MakeRoom(b) \in Buf /\ MakeRoom(b).cap = 2 * b.cap
        /\ MakeRoom(b).size = b.size /\ MakeRoom(b).off = n.off
    BY <1>1, <2>1 DEF Buf
  <2>3. b.cap <= 2 * ReqLen
    BY <1>1, <1>4, SizeAssumption DEF Buf
  <2> QED BY <1>1, <2>2, <2>3, SizeAssumption DEF Buf
<1> QED BY <1>2, <1>3, <1>4

-----------------------------------------------------------------------------
(* The steps *)

LEMMA InitInv == Init => Inv
<1> SUFFICES ASSUME Init PROVE Inv
  OBVIOUS
<1> USE DEF Init
<1>1. TypeOK
  BY SizeAssumption DEF TypeOK, EmptyBuf, NewEvent, Flags
<1>2. Open = {}
  BY DEF Open
<1>3. EventTable /\ Batch /\ ReadyList
  BY <1>2 DEF EventTable, Batch, Valid, ReadyList, FreeFds, NewEvent, Open
<1>4. \A c \in Conn : ConnInv(c)
  BY SizeAssumption DEF ConnInv, Fresh, Buffers, Accounts, Pending, EmptyBuf
<1>5. ConnCount
  BY <1>2, FS_EmptySet DEF ConnCount
<1> QED BY <1>1, <1>3, <1>4, <1>5 DEF Inv

\* A step that leaves a connection alone keeps its part of the invariant,
\* whatever its client sends or however it leaves
LEMMA ConnFrame ==
    ASSUME NEW d \in Conn, ConnInv(d), TypeOK, TypeOK',
           client'[d] = "off" => client[d] = "off", sock'[d] = sock[d],
           sent'[d] >= sent[d], recvd'[d] = recvd[d], done'[d] = done[d],
           wire'[d] = wire[d], got'[d] = got[d], buf_in'[d] = buf_in[d],
           buf_out'[d] = buf_out[d], fd'[d] = fd[d],
           sock[d] = "open" => ev'[fd[d]].s_flags = ev[fd[d]].s_flags,
           d \in ready => d \in ready'
    PROVE  ConnInv(d)'
<1>1. Fresh(d)' /\ Buffers(d)' /\ Accounts(d)'
  BY DEF ConnInv, Fresh, Buffers, Accounts, Consumed, TypeOK
<1>2. Malformed(d)' <=> Malformed(d)
  BY DEF Malformed, Lead
<1>3. MustParse(d)' <=> MustParse(d)
  BY <1>2 DEF MustParse, Lead
<1>4. Pending(d)'
  BY <1>2, <1>3 DEF ConnInv, Pending
<1> QED BY <1>1, <1>4 DEF ConnInv

\* An event of the batch stays valid while its own connection is left alone,
\* whatever its client does
LEMMA EventFrame ==
    ASSUME NEW g \in Fd, Valid(g), TypeOK, TypeOK',
           ev'[g] = ev[g], ev[g].events # {} => phase' = phase,
           NEW p, p = ev[g].ptr,
           p \in Conn /\ sock[p] = "open" /\ fd[p] = g =>
              /\ sock'[p] = sock[p] /\ fd'[p] = fd[p]
              /\ p \notin ready => p \notin ready'
              /\ sent'[p] >= sent[p] /\ recvd'[p] = recvd[p]
              /\ wire'[p] <= wire[p]
              /\ client[p] = "eof" => client'[p] \in {"eof", "reset"}
              /\ client[p] = "reset" => client'[p] = "reset"
    PROVE  Valid(g)'
<1> SUFFICES ASSUME ev[g].events # {} PROVE Valid(g)'
  BY DEF Valid
<1>1. p \in Conn /\ sock[p] = "open" /\ fd[p] = g
  BY DEF Valid
<1>2. /\ sent[p] \in Nat /\ recvd[p] \in Nat /\ sent'[p] \in Nat
      /\ wire[p] \in Nat /\ wire'[p] \in Nat
  BY <1>1 DEF TypeOK
<1>3. Readable(p) => Readable(p)'
  BY <1>1, <1>2 DEF Readable
<1>4. Writable(p) => Writable(p)'
  BY <1>1, <1>2, SizeAssumption DEF Writable
<1> QED BY <1>1, <1>3, <1>4 DEF Valid

LEMMA OpenFinite == IsFiniteSet(Open)
BY FdAssumption, FS_Subset DEF Open

\* The owner of a descriptor is unique
LEMMA Owner ==
    ASSUME Inv, NEW c \in Open, NEW d \in Conn, d # c
    PROVE  fd[d] # fd[c] /\ fd[c] \in Fd
<1>1. c \in Conn /\ fd[c] \in Fd /\ ev[fd[c]].ptr = c
  BY DEF Inv, EventTable, Open
<1>2. CASE d \in Open
  BY <1>1, <1>2 DEF Inv, EventTable
<1>3. CASE d \notin Open
  BY <1>1, <1>3, FdAssumption DEF Inv, EventTable
<1> QED BY <1>1, <1>2, <1>3

\* Closing an open connection, whose event is the one being handled or which
\* is being taken off the ready list
LEMMA CloseInv ==
    ASSUME Inv, NEW c \in Open, NEW f \in Fd, fd[c] = f, Close(c, f),
           ready' = ready \ {c}
    PROVE  Inv'
<1> DEFINE h == Handled(ev[f])
           e == EventDel(h)
<1>1. TypeOK /\ ev[f] \in Event /\ c \in Conn /\ sock[c] = "open"
  BY DEF Inv, TypeOK, Event, Open
<1>2. h \in Event /\ h.events = {} /\ h.epoll = h.s_flags
  BY <1>1, HandledOp DEF Inv, EventTable
<1>3. ev' = [ev EXCEPT ![f] = e]
  BY DEF Close
<1> HIDE DEF h
<1>4. /\ e \in Event /\ e.events = {} /\ e.epoll = {} /\ e.s_flags = {}
  BY <1>2, DelOp
<1> HIDE DEF e
<1>5. Open' = Open \ {c}
  BY <1>1 DEF Open, Close, TypeOK
<1>6. TypeOK'
  BY <1>1, <1>3, <1>4, SizeAssumption DEF Close, TypeOK, EmptyBuf, clientVars, Event
<1>7. EventTable'
  <2>1. ASSUME NEW d \in Open' PROVE /\ fd'[d] \in Fd /\ ev'[fd'[d]].ptr = d
                                     /\ "IN" \in ev'[fd'[d]].s_flags
    <3>1. d \in Open /\ d # c /\ d \in Conn
      BY <1>5, <2>1 DEF Open
    <3>2. fd'[d] = fd[d] /\ fd[d] # f
      BY <3>1, <1>1, Owner DEF Close, TypeOK
    <3> QED BY <3>1, <3>2, <1>1, <1>3 DEF Inv, EventTable, TypeOK
  <2>2. \A d \in Conn \ Open' : fd'[d] = NoFd
    BY <1>1, <1>5 DEF Inv, EventTable, Close, TypeOK
  <2>3. \A g \in Fd : ev'[g].epoll = ev'[g].s_flags
    <3> TAKE g \in Fd
    <3>1. CASE g = f
      BY <3>1, <1>1, <1>3, <1>4 DEF TypeOK
    <3>2. CASE g # f
      BY <3>2, <1>1, <1>3 DEF Inv, EventTable, TypeOK
    <3> QED BY <3>1, <3>2
  <2>4. ASSUME NEW g \in FreeFds' PROVE ev'[g].s_flags = {}
    <3>1. CASE g = f
      BY <3>1, <1>1, <1>3, <1>4 DEF TypeOK
    <3>2. CASE g # f
      <4>1. g \in FreeFds
        BY <2>4, <3>2, <1>1 DEF FreeFds, Close, TypeOK
      <4> QED BY <4>1, <3>2, <1>1, <1>3 DEF Inv, EventTable, TypeOK, FreeFds
    <3> QED BY <3>1, <3>2
  <2> QED BY <2>1, <2>2, <2>3, <2>4 DEF EventTable
<1>8. Batch'
  <2> SUFFICES ASSUME NEW g \in Fd PROVE Valid(g)'
    BY DEF Batch
  <2>1. CASE g = f
    BY <2>1, <1>1, <1>3, <1>4 DEF Valid, TypeOK
  <2>2. CASE g # f
    <3>1. ev'[g] = ev[g] /\ Valid(g) /\ phase' = phase
      BY <2>2, <1>1, <1>3 DEF Inv, Batch, TypeOK, Close
    <3>2. \A p \in Conn : fd[p] = g =>
              /\ sock'[p] = sock[p] /\ fd'[p] = fd[p]
              /\ sent'[p] >= sent[p] /\ recvd'[p] = recvd[p]
              /\ wire'[p] <= wire[p] /\ client'[p] = client[p]
      BY <2>2, <1>1 DEF Close, TypeOK, clientVars
    <3> QED BY <3>1, <3>2, <1>1, <1>6, EventFrame
  <2> QED BY <2>1, <2>2
<1>9. ReadyList'
  BY <1>1, <1>5 DEF Inv, ReadyList, Close
<1>10. ASSUME NEW d \in Conn PROVE ConnInv(d)'
  <2>1. CASE d = c
    <3>1. sock'[c] = "closed" /\ wire'[c] = 0 /\ buf_in'[c] = EmptyBuf
          /\ client'[c] = client[c]
      BY <1>1 DEF Close, TypeOK, clientVars
    <3> QED BY <2>1, <3>1, <1>1, SizeAssumption
            DEF Inv, ConnInv, Fresh, Buffers, Accounts, Pending, EmptyBuf
  <2>2. CASE d # c
    <3>1. /\ client'[d] = client[d] /\ sock'[d] = sock[d]
          /\ sent'[d] >= sent[d] /\ recvd'[d] = recvd[d] /\ done'[d] = done[d]
          /\ wire'[d] = wire[d] /\ got'[d] = got[d] /\ buf_in'[d] = buf_in[d]
          /\ buf_out'[d] = buf_out[d] /\ fd'[d] = fd[d]
          /\ d \in ready => d \in ready'
      BY <2>2, <1>1 DEF Close, TypeOK, clientVars
    <3>2. sock[d] = "open" => ev'[fd[d]].s_flags = ev[fd[d]].s_flags
      <4>1. fd[d] # f
        BY <2>2, Owner
      <4>2. sock[d] = "open" => fd[d] \in Fd
        BY DEF Inv, EventTable, Open
      <4> QED BY <4>1, <4>2, <1>1, <1>3 DEF TypeOK
    <3>3. ConnInv(d)
      BY DEF Inv
    <3> QED BY <3>1, <3>2, <3>3, <1>1, <1>6, ConnFrame
  <2> QED BY <2>1, <2>2
<1>11. ConnCount'
  <2>1. Cardinality(Open \ {c}) = Cardinality(Open) - 1
    BY OpenFinite, FS_RemoveElement
  <2> QED BY <2>1, <1>5 DEF Inv, ConnCount, Close
<1> QED BY <1>6, <1>7, <1>8, <1>9, <1>10, <1>11 DEF Inv

\* A step for one open connection c, which stays open: its event entry
\* becomes e, the other connections and their entries are left alone
LEMMA ServeInv ==
    ASSUME Inv, TypeOK', NEW c \in Open, NEW f \in Fd, fd[c] = f,
           NEW e \in Event, ev' = [ev EXCEPT ![f] = e],
           e.ptr = c, e.epoll = e.s_flags, "IN" \in e.s_flags, e.events = {},
           UNCHANGED <<clientVars, sock, fd, phase, etdb_conn_cnt>>,
           phase \in {"events", "ready"},
           \A d \in Conn \ {c} :
              /\ recvd'[d] = recvd[d] /\ wire'[d] = wire[d]
              /\ done'[d] = done[d] /\ buf_in'[d] = buf_in[d]
              /\ buf_out'[d] = buf_out[d] /\ (d \in ready' <=> d \in ready),
           ConnInv(c)'
    PROVE  Inv'
<1>1. /\ TypeOK /\ c \in Conn /\ sock[c] = "open" /\ Open' = Open
      /\ ev'[f] = e /\ \A g \in Fd \ {f} : ev'[g] = ev[g]
  BY DEF Inv, TypeOK, Open
<1>2. EventTable'
  <2>1. ASSUME NEW d \in Open' PROVE /\ fd'[d] \in Fd /\ ev'[fd'[d]].ptr = d
                                     /\ "IN" \in ev'[fd'[d]].s_flags
    <3>1. CASE d = c
      BY <3>1, <1>1
    <3>2. CASE d # c
      <4>1. d \in Open /\ d \in Conn /\ fd'[d] = fd[d] /\ fd[d] # f
        BY <3>2, <2>1, <1>1, Owner DEF Open
      <4> QED BY <4>1, <1>1 DEF Inv, EventTable
    <3> QED BY <3>1, <3>2
  <2>2. \A d \in Conn \ Open' : fd'[d] = NoFd
    BY <1>1 DEF Inv, EventTable
  <2>3. ASSUME NEW g \in Fd PROVE ev'[g].epoll = ev'[g].s_flags
    <3>1. CASE g = f
      BY <3>1, <1>1
    <3>2. CASE g # f
      BY <3>2, <1>1 DEF Inv, EventTable
    <3> QED BY <3>1, <3>2
  <2>4. ASSUME NEW g \in FreeFds' PROVE ev'[g].s_flags = {}
    <3>1. g \in FreeFds /\ g \in Fd /\ g # f
      BY <2>4, <1>1 DEF FreeFds
    <3> QED BY <3>1, <1>1 DEF Inv, EventTable
  <2> QED BY <2>1, <2>2, <2>3, <2>4 DEF EventTable
<1>3. Batch'
  <2> SUFFICES ASSUME NEW g \in Fd PROVE Valid(g)'
    BY DEF Batch
  <2>1. CASE g = f
    BY <2>1, <1>1 DEF Valid
  <2>2. CASE g # f
    <3>1. ev'[g] = ev[g] /\ Valid(g) /\ phase' = phase
      BY <2>2, <1>1 DEF Inv, Batch
    <3>2. \A p \in Conn : fd[p] = g =>
              /\ sock'[p] = sock[p] /\ fd'[p] = fd[p]
              /\ p \notin ready => p \notin ready'
              /\ sent'[p] >= sent[p] /\ recvd'[p] = recvd[p]
              /\ wire'[p] <= wire[p] /\ client'[p] = client[p]
      BY <2>2, <1>1 DEF TypeOK, clientVars
    <3> QED BY <3>1, <3>2, <1>1, EventFrame
  <2> QED BY <2>1, <2>2
<1>4. ReadyList'
  BY <1>1 DEF Inv, ReadyList, TypeOK
<1>5. ASSUME NEW d \in Conn PROVE ConnInv(d)'
  <2>1. CASE d = c
    BY <2>1
  <2>2. CASE d # c
    <3>1. /\ client'[d] = client[d] /\ sock'[d] = sock[d]
          /\ sent'[d] >= sent[d] /\ recvd'[d] = recvd[d] /\ done'[d] = done[d]
          /\ wire'[d] = wire[d] /\ got'[d] = got[d] /\ buf_in'[d] = buf_in[d]
          /\ buf_out'[d] = buf_out[d] /\ fd'[d] = fd[d]
          /\ d \in ready => d \in ready'
      BY <2>2, <1>1 DEF TypeOK, clientVars
    <3>2. sock[d] = "open" => ev'[fd[d]].s_flags = ev[fd[d]].s_flags
      <4>1. fd[d] # f
        BY <2>2, Owner
      <4>2. sock[d] = "open" => fd[d] \in Fd
        BY DEF Inv, EventTable, Open
      <4> QED BY <4>1, <4>2, <1>1
    <3>3. ConnInv(d)
      BY DEF Inv
    <3> QED BY <3>1, <3>2, <3>3, <1>1, ConnFrame
  <2> QED BY <2>1, <2>2
<1>6. ConnCount'
  BY <1>1 DEF Inv, ConnCount
<1> QED BY <1>2, <1>3, <1>4, <1>5, <1>6 DEF Inv

\* A step of a client, or of the kernel on its behalf: the server's state is
\* left alone
LEMMA ClientInv ==
    ASSUME Inv, ClientStep \/ Signal
    PROVE  Inv'
<1>1. TypeOK
  BY DEF Inv
<1>2. /\ TypeOK' /\ Open' = Open
      /\ UNCHANGED <<fd, recvd, buf_in, buf_out, done, ev, listen_events, ready,
                     phase, etdb_conn_cnt>>
      /\ \A d \in Conn :
            /\ client'[d] = "off" => client[d] = "off" /\ sock'[d] = sock[d]
            /\ client[d] = "eof" => client'[d] \in {"eof", "reset"}
            /\ client[d] = "reset" => client'[d] = "reset"
            /\ sent'[d] >= sent[d] /\ wire'[d] <= wire[d]
            /\ sock[d] = "open" => wire'[d] + got'[d] = wire[d] + got[d]
            /\ sock[d] # "open" => wire'[d] = wire[d] /\ got'[d] = got[d]
            /\ sock[d] # "none" => sock'[d] = sock[d]
            /\ sock[d] = "none" => sock'[d] \in {"none", "pending"}
  <2>1. ASSUME NEW c \in Conn, Connect(c) PROVE <1>2!:
    <3>1. sock[c] = "none"
      BY <2>1 DEF Inv, ConnInv, Fresh, Connect
    <3> QED BY <2>1, <3>1, <1>1 DEF Connect, TypeOK, Open, loopVars
  <2>2. ASSUME NEW c \in Conn, Send(c) PROVE <1>2!:
    BY <2>2, <1>1 DEF Send, TypeOK, Open, loopVars, connVars
  <2>3. ASSUME NEW c \in Conn, Receive(c) PROVE <1>2!:
    BY <2>3, <1>1 DEF Receive, TypeOK, Open, loopVars
  <2>4. ASSUME NEW c \in Conn, HangUp(c) PROVE <1>2!:
    BY <2>4, <1>1 DEF HangUp, TypeOK, Open, loopVars, connVars
  <2>5. ASSUME NEW c \in Conn, Reset(c) PROVE <1>2!:
    BY <2>5, <1>1 DEF Reset, TypeOK, Open, loopVars, connVars
  <2>6. ASSUME Signal PROVE <1>2!:
    BY <2>6, <1>1 DEF Signal, TypeOK, Open, loopVars, connVars, clientVars
  <2> QED BY <2>1, <2>2, <2>3, <2>4, <2>5, <2>6 DEF ClientStep
<1>3. EventTable' /\ ReadyList' /\ ConnCount'
  BY <1>2 DEF Inv, EventTable, ReadyList, ConnCount, FreeFds
<1>4. ASSUME NEW g \in Fd PROVE Valid(g)'
  <2>1. Valid(g) /\ ev'[g] = ev[g] /\ phase' = phase /\ ready' = ready
    BY <1>2 DEF Inv, Batch
  <2> QED BY <2>1, <1>1, <1>2, EventFrame
<1>5. ASSUME NEW d \in Conn PROVE ConnInv(d)'
  <2>1. ConnInv(d)
    BY DEF Inv
  <2>2. /\ Fresh(d) /\ Buffers(d) /\ Accounts(d)
        /\ sent[d] \in Nat /\ sent'[d] \in Nat /\ recvd[d] \in Nat
        /\ wire[d] \in Nat /\ wire'[d] \in Nat /\ got[d] \in Nat
        /\ got'[d] \in Nat /\ buf_out[d] \in Nat
    BY <2>1, <1>1, <1>2 DEF ConnInv, TypeOK
  <2>5. Fresh(d)'
    BY <2>2, <1>2 DEF Fresh
  <2>6. Buffers(d)'
    BY <2>2, <1>2, SizeAssumption DEF Buffers
  <2>7. Accounts(d)'
    <3> SUFFICES ASSUME sock'[d] = "open" PROVE Accounts(d)'
      BY DEF Accounts
    <3>1. sock[d] = "open" /\ Consumed(d)' = Consumed(d)
      BY <1>2 DEF Consumed
    <3>2. buf_out'[d] + wire'[d] + got'[d] = buf_out[d] + wire[d] + got[d]
      BY <2>2, <3>1, <1>2
    <3>3. recvd'[d] <= sent'[d]
      BY <2>2, <3>1, <1>2 DEF Accounts
    <3> QED BY <2>2, <3>1, <3>2, <3>3, <1>2 DEF Accounts
  <2>3. (Malformed(d)' <=> Malformed(d)) /\ (MustParse(d)' <=> MustParse(d))
    BY <1>2 DEF Malformed, MustParse, Lead
  <2>4. Pending(d)'
    BY <2>1, <2>3, <1>2 DEF ConnInv, Pending
  <2> QED BY <2>5, <2>6, <2>7, <2>4 DEF ConnInv
<1> QED BY <1>2, <1>3, <1>4, <1>5 DEF Inv, Batch

\* What the handler of an event may rely on
LEMMA HandlerFacts ==
    ASSUME Inv, NEW f \in Fd, NEW c, c = ev[f].ptr, ev[f].events # {}
    PROVE  /\ c \in Open /\ c \in Conn /\ sock[c] = "open" /\ fd[c] = f
           /\ c \notin ready /\ ready \ {c} = ready
           /\ phase = "events" /\ Valid(f) /\ ev[f] \in Event
           /\ TypeOK /\ ConnInv(c) /\ "IN" \in ev[f].s_flags
           /\ ev[f].epoll = ev[f].s_flags
<1>1. Valid(f) /\ TypeOK
  BY DEF Inv, Batch
<1>2. c \in Open /\ c \in Conn /\ sock[c] = "open" /\ fd[c] = f /\ c \notin ready
      /\ phase = "events"
  BY <1>1 DEF Valid, Open
<1>3. ready \ {c} = ready
  BY <1>2
<1>4. ev[f] \in Event
  BY <1>1 DEF TypeOK, Event
<1> QED BY <1>1, <1>2, <1>3, <1>4 DEF Inv, EventTable

\* The loop's own steps: a batch is taken, a phase ends
LEMMA LoopInv ==
    ASSUME Inv, Wait \/ AcceptFails \/ EventsHandled \/ CycleEnds \/ Stop
    PROVE  Inv'
<1>1. /\ TypeOK /\ UNCHANGED <<clientVars, connVars, ready, etdb_conn_cnt>>
      /\ Open' = Open
  BY DEF Inv, Wait, AcceptFails, EventsHandled, CycleEnds, Stop, connVars, Open
<1> USE <1>1 DEF connVars, clientVars
<1>2. ASSUME NEW g \in Fd
      PROVE  ev'[g].s_flags = ev[g].s_flags /\ ev'[g].epoll = ev[g].epoll
             /\ ev'[g].ptr = ev[g].ptr
  BY DEF Wait, AcceptFails, EventsHandled, CycleEnds, Stop, TypeOK
<1>3. TypeOK'
  <2>1. CASE Wait
    <3>1. \A f \in Fd : Reported(f) \in SUBSET Flags
      BY DEF Reported
    <3>2. ASSUME NEW e \in Event, NEW r \in SUBSET Flags
          PROVE  [e EXCEPT !.events = r] \in Event
      BY DEF Event
    <3>4. \A f \in Fd : ev[f] \in Event
      BY DEF TypeOK, Event
    <3>3. ev' \in [Fd -> Event]
      BY <2>1, <3>1, <3>2, <3>4 DEF Wait
    <3> QED BY <2>1, <3>3 DEF Wait, TypeOK, Event
  <2>2. CASE ~Wait
    BY <2>2 DEF AcceptFails, EventsHandled, CycleEnds, Stop, TypeOK
  <2> QED BY <2>1, <2>2
<1>4. EventTable'
  BY <1>2 DEF Inv, EventTable, FreeFds, Open, TypeOK
<1>5. Batch'
  <2> SUFFICES ASSUME NEW g \in Fd, ev'[g].events # {} PROVE Valid(g)'
    BY DEF Batch, Valid
  <2>1. CASE Wait
    <3>1. ev'[g].events = Reported(g) /\ phase' = "events" /\ ready = {}
      BY <2>1 DEF Wait, TypeOK, Inv, ReadyList
    <3>2. PICK p \in Conn : fd[p] = g
      BY <3>1 DEF Reported
    <3>3. p \in Open /\ ev[g].ptr = p /\ sock[p] = "open"
      BY <3>2, FdAssumption DEF Inv, EventTable, Open
    <3>4. \A d \in Conn : fd[d] = g => d = p
      BY <3>2, <3>3, Owner
    <3>5. ev[g].epoll = ev[g].s_flags
      BY DEF Inv, EventTable
    <3>6. /\ "IN" \in ev'[g].events => Readable(p)
          /\ "OUT" \in ev'[g].events => "OUT" \in ev[g].s_flags /\ Writable(p)
          /\ "ERR" \in ev'[g].events => client[p] = "reset"
      BY <3>1, <3>4, <3>5 DEF Reported
    <3>7. ev'[g].ptr = p /\ ev'[g].s_flags = ev[g].s_flags
      BY <1>2, <3>3
    <3>8. Readable(p)' = Readable(p) /\ Writable(p)' = Writable(p)
      BY DEF Readable, Writable
    <3> QED BY <3>1, <3>2, <3>3, <3>6, <3>7, <3>8 DEF Valid
  <2>2. CASE ~Wait
    <3>1. ev' = ev /\ (EventsHandled \/ CycleEnds \/ Stop => ev[g].events = {})
          /\ (AcceptFails => phase' = phase)
      BY <2>2 DEF Inv, Batch, Valid, AcceptFails, EventsHandled, CycleEnds, Stop
    <3>2. AcceptFails /\ Valid(g)
      BY <2>2, <3>1 DEF Inv, Batch
    <3> QED BY <3>1, <3>2 DEF Valid, Readable, Writable
  <2> QED BY <2>1, <2>2
<1>6. ReadyList'
  BY DEF Inv, ReadyList, Wait, AcceptFails, EventsHandled, CycleEnds, Stop
<1>7. ASSUME NEW d \in Conn PROVE ConnInv(d)'
  <2>1. ConnInv(d) /\ (sock[d] = "open" => fd[d] \in Fd)
    BY DEF Inv, EventTable, Open
  <2>2. sock[d] = "open" => ev'[fd[d]].s_flags = ev[fd[d]].s_flags
    BY <2>1, <1>2
  <2>3. sent'[d] >= sent[d]
    BY DEF TypeOK
  <2> QED BY <2>1, <2>2, <2>3, <1>3, ConnFrame
<1>8. ConnCount'
  BY DEF Inv, ConnCount
<1> QED BY <1>3, <1>4, <1>5, <1>6, <1>7, <1>8 DEF Inv

\* A handler that closes its connection
LEMMA FailInv ==
    ASSUME Inv, NEW f \in Fd, OnError(f) \/ OnReadFails(f) \/ OnWriteFails(f)
    PROVE  Inv'
<1>1. ev[f].events # {} /\ Close(ev[f].ptr, f) /\ ready' = ready
  BY DEF OnError, OnReadFails, OnWriteFails, WriteEvent
<1> QED BY <1>1, HandlerFacts, CloseInv

\* A malformed request closes its connection
LEMMA RecvFailsInv ==
    ASSUME Inv, NEW c \in Conn, RecvFails(c)
    PROVE  Inv'
<1>1. c \in Open /\ fd[c] \in Fd
  BY DEF Inv, ReadyList, EventTable, RecvFails
<1> QED BY <1>1, CloseInv DEF RecvFails

\* A new connection
LEMMA AcceptInv ==
    ASSUME Inv, NEW c \in Conn, NEW f \in Fd, Accept(c, f)
    PROVE  Inv'
<1> DEFINE e == EventSet(ev[f], {"IN"}, c)
<1>1. /\ TypeOK /\ sock[c] = "pending" /\ c \notin Open /\ fd[c] = NoFd
      /\ ConnInv(c) /\ f \in FreeFds /\ phase = "events" /\ ev[f] \in Event
      /\ ev[f].s_flags = {} /\ ev[f].epoll = {} /\ c \notin ready
  BY DEF Inv, TypeOK, EventTable, Accept, Backlog, FreeFds, Open, Event, ReadyList
<1>2. ev[f].events = {}
  BY <1>1 DEF Inv, Batch, Valid, FreeFds
<1>3. /\ e \in Event /\ e.s_flags = {"IN"} /\ e.epoll = {"IN"} /\ e.ptr = c
      /\ e.events = {}
  <2>1. /\ e \in Event /\ e.s_flags = ev[f].s_flags \cup {"IN"} /\ e.ptr = c
        /\ e.events = ev[f].events /\ e.epoll = e.s_flags
    BY <1>1, SetIn
  <2> HIDE DEF e
  <2> QED BY <1>1, <1>2, <2>1
<1>4. ev' = [ev EXCEPT ![f] = e]
  BY DEF Accept
<1> HIDE DEF e
<1>5. /\ ev'[f] = e /\ \A g \in Fd \ {f} : ev'[g] = ev[g]
      /\ Open' = Open \cup {c}
  <2>1. ev'[f] = e /\ \A g \in Fd \ {f} : ev'[g] = ev[g]
    BY <1>1, <1>4 DEF TypeOK
  <2>2. \A d \in Conn : sock'[d] = "open" <=> d = c \/ sock[d] = "open"
    BY <1>1 DEF Accept, TypeOK
  <2>3. Open' = Open \cup {c}
    BY <2>2 DEF Open
  <2> QED BY <2>1, <2>3
<1>6. TypeOK'
  BY <1>1, <1>3, <1>4, SizeAssumption DEF Accept, TypeOK, EmptyBuf, clientVars, Event
<1>7. \A d \in Conn \ {c} : /\ fd'[d] = fd[d] /\ fd[d] # f /\ sock'[d] = sock[d]
                            /\ buf_in'[d] = buf_in[d] /\ buf_out'[d] = buf_out[d]
  BY <1>1 DEF Accept, TypeOK, FreeFds
<1>8. /\ fd'[c] = f /\ sock'[c] = "open" /\ buf_in'[c] = EmptyBuf /\ buf_out'[c] = 0
      /\ UNCHANGED <<clientVars, wire, recvd, done, ready, phase>>
  BY <1>1 DEF Accept, TypeOK
<1>9. EventTable'
  <2>1. ASSUME NEW d \in Open' PROVE /\ fd'[d] \in Fd /\ ev'[fd'[d]].ptr = d
                                     /\ "IN" \in ev'[fd'[d]].s_flags
    <3>1. CASE d = c
      BY <3>1, <1>3, <1>5, <1>8
    <3>2. CASE d # c
      <4>1. d \in Open /\ d \in Conn
        BY <3>2, <2>1, <1>5 DEF Open
      <4> QED BY <3>2, <4>1, <1>5, <1>7 DEF Inv, EventTable
    <3> QED BY <3>1, <3>2
  <2>2. \A d \in Conn \ Open' : fd'[d] = NoFd
    BY <1>5, <1>7 DEF Inv, EventTable
  <2>3. ASSUME NEW g \in Fd PROVE ev'[g].epoll = ev'[g].s_flags
    <3>1. CASE g = f
      BY <3>1, <1>3, <1>5
    <3>2. CASE g # f
      BY <3>2, <1>5 DEF Inv, EventTable
    <3> QED BY <3>1, <3>2
  <2>4. ASSUME NEW g \in FreeFds' PROVE ev'[g].s_flags = {}
    <3>1. g \in Fd /\ g # f
      BY <2>4, <1>8 DEF FreeFds
    <3>2. g \in FreeFds
      BY <2>4, <3>1, <1>1, <1>7, FdAssumption DEF FreeFds
    <3> QED BY <3>1, <3>2, <1>5 DEF Inv, EventTable
  <2> QED BY <2>1, <2>2, <2>3, <2>4 DEF EventTable
<1>10. Batch'
  <2> SUFFICES ASSUME NEW g \in Fd PROVE Valid(g)'
    BY DEF Batch
  <2>1. CASE g = f
    BY <2>1, <1>3, <1>5 DEF Valid
  <2>2. CASE g # f
    <3>1. ev'[g] = ev[g] /\ Valid(g) /\ phase' = phase /\ ready' = ready
      BY <2>2, <1>5, <1>8 DEF Inv, Batch
    <3>2. \A p \in Conn : sock[p] = "open" =>
              /\ sock'[p] = sock[p] /\ fd'[p] = fd[p]
              /\ sent'[p] >= sent[p] /\ recvd'[p] = recvd[p]
              /\ wire'[p] <= wire[p] /\ client'[p] = client[p]
      BY <1>1, <1>7, <1>8 DEF TypeOK, clientVars
    <3> QED BY <3>1, <3>2, <1>1, <1>6, EventFrame
  <2> QED BY <2>1, <2>2
<1>11. ReadyList'
  BY <1>5, <1>8 DEF Inv, ReadyList
<1>12. ASSUME NEW d \in Conn PROVE ConnInv(d)'
  <2>1. CASE d = c
    <3>1. /\ recvd[c] = 0 /\ done[c] = 0 /\ wire[c] = 0 /\ got[c] = 0
          /\ client[c] # "off" /\ sent[c] \in Nat
      BY <1>1 DEF ConnInv, Fresh, TypeOK
    <3>2. UNCHANGED <<client, sent, got, wire, recvd, done>>
      BY <1>8 DEF clientVars
    <3>3. ~MustParse(c)' /\ ~Malformed(c)'
      BY <3>1, <3>2, <1>8, SizeAssumption DEF MustParse, Malformed, Lead, EmptyBuf
    <3>4. Fresh(c)' /\ Buffers(c)'
      BY <3>1, <3>2, <1>8, SizeAssumption DEF Fresh, Buffers, EmptyBuf
    <3>5. Accounts(c)'
      BY <3>1, <3>2, <1>8, SizeAssumption DEF Accounts, EmptyBuf, Consumed
    <3>6. Pending(c)'
      BY <3>3, <1>3, <1>5, <1>8 DEF Pending
    <3> QED BY <2>1, <3>4, <3>5, <3>6 DEF ConnInv
  <2>2. CASE d # c
    <3>1. ConnInv(d) /\ (sock[d] = "open" => fd[d] \in Fd)
      BY DEF Inv, EventTable, Open
    <3>2. sock[d] = "open" => ev'[fd[d]].s_flags = ev[fd[d]].s_flags
      BY <2>2, <3>1, <1>5, <1>7
    <3>3. sent'[d] >= sent[d]
      BY <1>1, <1>8 DEF TypeOK, clientVars
    <3> QED BY <2>2, <3>1, <3>2, <3>3, <1>1, <1>6, <1>7, <1>8, ConnFrame
            DEF clientVars
  <2> QED BY <2>1, <2>2
<1>13. ConnCount'
  <2>1. Cardinality(Open \cup {c}) = Cardinality(Open) + 1
    BY <1>1, OpenFinite, FS_AddElement
  <2> QED BY <2>1, <1>5 DEF Inv, ConnCount, Accept
<1> QED BY <1>6, <1>9, <1>10, <1>11, <1>12, <1>13 DEF Inv

\* Input is read into the buffer
LEMMA ReadInv ==
    ASSUME Inv, NEW f \in Fd, NEW c, c = ev[f].ptr, OnReadOk(f)
    PROVE  Inv'
<1> DEFINE b == Nice(buf_in[c])
           n == ReadTakes(c)
           e == Handled(ev[f])
<1>1. ev[f].events # {}
  BY DEF OnReadOk
<1>2. /\ c \in Open /\ c \in Conn /\ sock[c] = "open" /\ fd[c] = f
      /\ c \notin ready /\ phase = "events" /\ ev[f] \in Event
      /\ TypeOK /\ ConnInv(c) /\ "IN" \in ev[f].s_flags
      /\ ev[f].epoll = ev[f].s_flags
  BY <1>1, HandlerFacts
<1>3. /\ e \in Event /\ e.s_flags = ev[f].s_flags /\ e.epoll = ev[f].epoll
      /\ e.ptr = c /\ e.events = {} /\ e.epoll = e.s_flags /\ "IN" \in e.s_flags
  BY <1>2, HandledOp
<1>4. /\ buf_in' = [buf_in EXCEPT ![c] = Incr(b, n)]
      /\ recvd' = [recvd EXCEPT ![c] = @ + n]
      /\ ready' = ready \cup {c}
      /\ ev' = [ev EXCEPT ![f] = e]
      /\ UNCHANGED <<clientVars, wire, sock, fd, buf_out, done,
                     listen_events, phase, etdb_conn_cnt, etdb_quit>>
      /\ ~ReadFails(c)
  BY DEF OnReadOk
<1>5. /\ buf_in[c] \in Buf /\ buf_in[c].off + buf_in[c].size <= buf_in[c].cap
      /\ sent[c] \in Nat /\ recvd[c] \in Nat /\ recvd[c] <= sent[c]
  BY <1>2 DEF TypeOK, Buf, ConnInv, Buffers, Accounts
<1>6. /\ b \in Buf /\ b.size = buf_in[c].size /\ b.cap = buf_in[c].cap
      /\ b.off + b.size <= b.cap /\ Space(b) = b.cap - b.off - b.size
  BY <1>5, NiceBuf
<1>7. n \in Nat /\ n <= Space(b) /\ n <= sent[c] - recvd[c]
  BY <1>5, <1>6 DEF ReadTakes, Least, Buf
<1> HIDE DEF n, b, e
<1>8. /\ Incr(b, n) \in Buf /\ Incr(b, n).size = b.size + n
      /\ Incr(b, n).off = b.off /\ Incr(b, n).cap = b.cap
  BY <1>6, <1>7 DEF Incr, Buf
<1>9. TypeOK'
  BY <1>2, <1>3, <1>4, <1>5, <1>7, <1>8 DEF TypeOK, Buf, Event, clientVars
<1>10. /\ buf_in'[c] = Incr(b, n) /\ recvd'[c] = recvd[c] + n /\ c \in ready'
       /\ ev'[f] = e /\ fd'[c] = f
  BY <1>2, <1>4 DEF TypeOK
<1>11. ConnInv(c)'
  <2>1. Fresh(c)' /\ Pending(c)'
    BY <1>2, <1>3, <1>4, <1>10 DEF ConnInv, Fresh, Pending, clientVars
  <2>2. Buffers(c)'
    BY <1>2, <1>4, <1>5, <1>6, <1>7, <1>8, <1>10 DEF ConnInv, Buffers, Buf
  <2>3. Consumed(c)' = Consumed(c) /\ Consumed(c) \in Int
    BY <1>2, <1>4, SizeAssumption DEF Consumed, TypeOK
  <2>4. Accounts(c)'
    BY <2>3, <1>2, <1>4, <1>5, <1>6, <1>7, <1>8, <1>10
       DEF ConnInv, Accounts, Buf, clientVars
  <2> QED BY <2>1, <2>2, <2>4 DEF ConnInv
<1>12. \A d \in Conn \ {c} :
          /\ recvd'[d] = recvd[d] /\ wire'[d] = wire[d]
          /\ done'[d] = done[d] /\ buf_in'[d] = buf_in[d]
          /\ buf_out'[d] = buf_out[d] /\ (d \in ready' <=> d \in ready)
  BY <1>2, <1>4 DEF TypeOK
<1> QED BY <1>2, <1>3, <1>4, <1>9, <1>11, <1>12, ServeInv

\* Output is written
LEMMA WriteInv ==
    ASSUME Inv, NEW f \in Fd, NEW c, c = ev[f].ptr, OnWriteOk(f)
    PROVE  Inv'
<1> DEFINE n == WriteTakes(c)
           h == Handled(ev[f])
           e == AfterWrite(c, h)
<1>1. ev[f].events # {}
  BY DEF OnWriteOk, WriteEvent
<1>2. /\ c \in Open /\ c \in Conn /\ sock[c] = "open" /\ fd[c] = f
      /\ c \notin ready /\ phase = "events" /\ ev[f] \in Event
      /\ TypeOK /\ ConnInv(c) /\ "IN" \in ev[f].s_flags
      /\ ev[f].epoll = ev[f].s_flags
  BY <1>1, HandlerFacts
<1>3. /\ h \in Event /\ h.s_flags = ev[f].s_flags /\ h.epoll = ev[f].epoll
      /\ h.ptr = c /\ h.events = {}
  BY <1>2, HandledOp
<1>4. /\ buf_out' = [buf_out EXCEPT ![c] = @ - n]
      /\ wire' = [wire EXCEPT ![c] = @ + n]
      /\ ready' = ready \cup NextRequest(c)
      /\ ev' = [ev EXCEPT ![f] = e]
      /\ UNCHANGED <<clientVars, sock, fd, recvd, buf_in, done,
                     listen_events, phase, etdb_conn_cnt, etdb_quit>>
      /\ ~WriteFails(c)
  BY DEF OnWriteOk
<1>5. /\ buf_out[c] \in Nat /\ wire[c] \in Nat /\ wire[c] <= SndCap
      /\ buf_in[c] \in Buf /\ got[c] \in Nat
  BY <1>2 DEF TypeOK, ConnInv, Buffers, Buf
<1>6. n \in Nat /\ n <= buf_out[c] /\ wire[c] + n <= SndCap
  BY <1>5, SizeAssumption DEF WriteTakes, Least
<1>7. /\ e \in Event /\ e.ptr = c /\ e.events = {} /\ e.epoll = e.s_flags
      /\ "IN" \in e.s_flags
      /\ n < buf_out[c] => e.s_flags = ev[f].s_flags
      /\ n = buf_out[c] => "OUT" \notin e.s_flags
  <2>1. CASE n < buf_out[c]
    <3>1. e = h
      BY <2>1 DEF AfterWrite
    <3> HIDE DEF h, e
    <3> QED BY <2>1, <3>1, <1>2, <1>3, <1>5, <1>6
  <2>2. CASE n = buf_out[c] /\ buf_in[c].size # 0
    <3>1. e = EventClear(h, {"OUT"})
      BY <2>2, <1>5, <1>6 DEF AfterWrite
    <3> HIDE DEF h, e
    <3>2. /\ e \in Event /\ e.s_flags = h.s_flags \ {"OUT"} /\ e.ptr = h.ptr
          /\ e.events = h.events /\ e.epoll = e.s_flags
      BY <3>1, <1>2, <1>3, ClearOut
    <3> QED BY <2>2, <3>2, <1>2, <1>3, <1>5, <1>6
  <2>3. CASE n = buf_out[c] /\ buf_in[c].size = 0
    <3> DEFINE k == EventClear(h, {"OUT"})
    <3>1. e = EventSet(k, {"IN"}, c)
      BY <2>3, <1>5, <1>6 DEF AfterWrite
    <3> HIDE DEF h
    <3>2. /\ k \in Event /\ k.s_flags = h.s_flags \ {"OUT"} /\ k.events = {}
          /\ k.epoll = k.s_flags
      BY <1>2, <1>3, ClearOut
    <3> HIDE DEF k, e
    <3>3. /\ e \in Event /\ e.s_flags = k.s_flags \cup {"IN"} /\ e.ptr = c
          /\ e.events = k.events /\ e.epoll = e.s_flags
      BY <3>1, <3>2, <1>2, SetIn
    <3> QED BY <2>3, <3>2, <3>3, <1>2, <1>3, <1>5, <1>6
  <2> QED BY <2>1, <2>2, <2>3, <1>5, <1>6
<1> HIDE DEF n, h, e
<1>8. /\ NextRequest(c) \subseteq {c}
      /\ n = buf_out[c] /\ buf_in[c].size # 0 => NextRequest(c) = {c}
  BY DEF NextRequest, n
<1>9. TypeOK'
  BY <1>2, <1>4, <1>5, <1>6, <1>7, <1>8 DEF TypeOK, Event, clientVars
<1>10. /\ buf_out'[c] = buf_out[c] - n /\ wire'[c] = wire[c] + n
       /\ ev'[f] = e /\ fd'[c] = f
  BY <1>2, <1>4 DEF TypeOK
<1>11. ConnInv(c)'
  <2>1. Fresh(c)' /\ Buffers(c)'
    BY <1>2, <1>4, <1>5, <1>6, <1>10, SizeAssumption
       DEF ConnInv, Fresh, Buffers, clientVars
  <2>2. Accounts(c)'
    <3>1. buf_out'[c] + wire'[c] + got'[c] = buf_out[c] + wire[c] + got[c]
      BY <1>4, <1>5, <1>6, <1>10 DEF clientVars
    <3> QED BY <3>1, <1>2, <1>4 DEF ConnInv, Accounts, Consumed, clientVars
  <2>3. (Malformed(c)' <=> Malformed(c)) /\ (MustParse(c)' <=> MustParse(c))
    BY <1>4 DEF Malformed, MustParse, Lead
  <2>4. MustParse(c) \/ Malformed(c) => buf_in[c].size # 0
    BY <1>5, SizeAssumption DEF MustParse, Malformed, Lead, Buf
  <2>5. Pending(c)'
    <3>1. CASE n = buf_out[c]
      BY <3>1, <2>3, <2>4, <1>2, <1>4, <1>5, <1>7, <1>8, <1>10 DEF Pending
    <3>2. CASE n < buf_out[c]
      BY <3>2, <1>2, <1>4, <1>5, <1>6, <1>7, <1>10 DEF ConnInv, Pending
    <3> QED BY <3>1, <3>2, <1>5, <1>6
  <2> QED BY <2>1, <2>2, <2>5 DEF ConnInv
<1>12. \A d \in Conn \ {c} :
          /\ recvd'[d] = recvd[d] /\ wire'[d] = wire[d]
          /\ done'[d] = done[d] /\ buf_in'[d] = buf_in[d]
          /\ buf_out'[d] = buf_out[d] /\ (d \in ready' <=> d \in ready)
  BY <1>2, <1>4, <1>8 DEF TypeOK
<1> QED BY <1>2, <1>4, <1>7, <1>9, <1>11, <1>12, ServeInv

\* What the post-processing of a connection may rely on
LEMMA ReadyFacts ==
    ASSUME Inv, NEW c \in Conn, phase = "ready", c \in ready
    PROVE  /\ c \in Open /\ sock[c] = "open" /\ fd[c] \in Fd
           /\ TypeOK /\ ConnInv(c) /\ ev[fd[c]] \in Event
           /\ ev[fd[c]].ptr = c /\ "IN" \in ev[fd[c]].s_flags
           /\ ev[fd[c]].epoll = ev[fd[c]].s_flags /\ ev[fd[c]].events = {}
           /\ buf_in[c] \in Buf /\ done[c] \in Nat /\ buf_out[c] \in Nat
           /\ wire[c] \in Nat /\ got[c] \in Nat /\ Lead(c) \in {0, 1}
<1>1. c \in Open /\ TypeOK /\ ConnInv(c)
  BY DEF Inv, ReadyList
<1>2. /\ sock[c] = "open" /\ fd[c] \in Fd /\ ev[fd[c]].ptr = c
      /\ "IN" \in ev[fd[c]].s_flags /\ ev[fd[c]].epoll = ev[fd[c]].s_flags
  BY <1>1 DEF Inv, EventTable, Open
<1>3. ev[fd[c]].events = {}
  BY <1>2 DEF Inv, Batch, Valid
<1> QED BY <1>1, <1>2, <1>3 DEF TypeOK, Event, Buf, Lead

\* A request that is not complete
LEMMA IncompleteInv ==
    ASSUME Inv, NEW c \in Conn, RecvIncomplete(c)
    PROVE  Inv'
<1> DEFINE f == fd[c]
           b == IF buf_in[c].size = 0 THEN buf_in[c] ELSE MakeRoom(buf_in[c])
<1>1. /\ c \in Open /\ sock[c] = "open" /\ f \in Fd
      /\ TypeOK /\ ConnInv(c) /\ ev[f] \in Event
      /\ ev[f].ptr = c /\ "IN" \in ev[f].s_flags
      /\ ev[f].epoll = ev[f].s_flags /\ ev[f].events = {}
      /\ buf_in[c] \in Buf /\ Lead(c) \in {0, 1}
  BY ReadyFacts DEF RecvIncomplete
<1>2. /\ buf_in' = [buf_in EXCEPT ![c] = b]
      /\ ev' = [ev EXCEPT ![f] = ev[f]]
      /\ ready' = ready \ {c} /\ phase = "ready"
      /\ UNCHANGED <<clientVars, wire, sock, fd, recvd, buf_out, done,
                     listen_events, phase, etdb_conn_cnt, etdb_quit>>
      /\ ~Malformed(c) /\ ~MustParse(c)
  BY <1>1 DEF RecvIncomplete
<1>3. buf_in[c].size <= ReqLen
  BY <1>1, <1>2, SizeAssumption DEF MustParse, Buf
<1>4. /\ b \in Buf /\ b.size = buf_in[c].size /\ b.cap >= BufCap
      /\ b.cap <= BufCap \/ b.cap <= 4 * ReqLen
      /\ b.off + b.size <= b.cap
  BY <1>1, <1>3, RoomBuf DEF ConnInv, Buffers
<1> HIDE DEF b
<1>5. TypeOK'
  BY <1>1, <1>2, <1>4 DEF TypeOK, Buf, Event, clientVars
<1>6. buf_in'[c] = b /\ ev'[f] = ev[f]
  BY <1>1, <1>2 DEF TypeOK
<1>7. ConnInv(c)'
  <2>1. Fresh(c)' /\ Buffers(c)' /\ Accounts(c)'
    BY <1>1, <1>2, <1>4, <1>6
       DEF ConnInv, Fresh, Buffers, Accounts, Consumed, clientVars
  <2>2. ~Malformed(c)' /\ ~MustParse(c)'
    BY <1>2, <1>4, <1>6 DEF Malformed, MustParse, Lead
  <2>3. Pending(c)'
    BY <2>2, <1>1, <1>2, <1>6 DEF ConnInv, Pending
  <2> QED BY <2>1, <2>3 DEF ConnInv
<1>8. \A d \in Conn \ {c} :
          /\ recvd'[d] = recvd[d] /\ wire'[d] = wire[d]
          /\ done'[d] = done[d] /\ buf_in'[d] = buf_in[d]
          /\ buf_out'[d] = buf_out[d] /\ (d \in ready' <=> d \in ready)
  BY <1>1, <1>2 DEF TypeOK
<1> QED BY ZenonT(40), <1>1, <1>2, <1>5, <1>7, <1>8, ServeInv

\* A request is executed
LEMMA ExecInv ==
    ASSUME Inv, NEW c \in Conn, NEW f, f = fd[c], Exec(c)
    PROVE  Inv'
<1> DEFINE n == Lead(c) + ReqLen - 1
           b == Decr(buf_in[c], n)
           e == EventSet(ev[f], {"OUT"}, c)
<1>1. /\ c \in Open /\ sock[c] = "open" /\ f \in Fd
      /\ TypeOK /\ ConnInv(c) /\ ev[f] \in Event
      /\ ev[f].ptr = c /\ "IN" \in ev[f].s_flags
      /\ ev[f].epoll = ev[f].s_flags /\ ev[f].events = {}
      /\ buf_in[c] \in Buf /\ done[c] \in Nat /\ buf_out[c] \in Nat
      /\ wire[c] \in Nat /\ got[c] \in Nat /\ Lead(c) \in {0, 1}
  BY ReadyFacts DEF Exec
<1>2. /\ buf_in' = [buf_in EXCEPT ![c] = b]
      /\ done' = [done EXCEPT ![c] = @ + 1]
      /\ buf_out' = [buf_out EXCEPT ![c] = @ + RespLen]
      /\ ev' = [ev EXCEPT ![f] = e]
      /\ ready' = ready \ {c} /\ phase = "ready"
      /\ UNCHANGED <<clientVars, wire, sock, fd, recvd,
                     listen_events, phase, etdb_conn_cnt, etdb_quit>>
      /\ buf_in[c].size >= n
  BY DEF Exec, MayParse
<1>3. /\ e \in Event /\ e.s_flags = ev[f].s_flags \cup {"OUT"} /\ e.ptr = c
      /\ e.events = ev[f].events /\ e.epoll = e.s_flags
  BY <1>1, SetOut
<1> HIDE DEF e
<1>4. /\ e \in Event /\ e.ptr = c /\ e.epoll = e.s_flags /\ e.events = {}
      /\ "IN" \in e.s_flags /\ "OUT" \in e.s_flags
  BY <1>1, <1>3
<1>5. n \in Nat
  BY <1>1, SizeAssumption
<1> HIDE DEF n
<1>6. /\ b \in Buf /\ b.size = buf_in[c].size - n /\ b.cap = buf_in[c].cap
      /\ b.off = buf_in[c].off + n
  BY <1>1, <1>2, <1>5, DecrBuf
<1> HIDE DEF b
<1>7. TypeOK'
  BY <1>1, <1>2, <1>3, <1>6, SizeAssumption DEF TypeOK, Buf, Event, clientVars
<1>8. /\ buf_in'[c] = b /\ ev'[f] = e /\ done'[c] = done[c] + 1
      /\ buf_out'[c] = buf_out[c] + RespLen
  BY <1>1, <1>2 DEF TypeOK
<1>9. ConnInv(c)'
  <2>1. Fresh(c)' /\ Buffers(c)'
    BY <1>1, <1>2, <1>5, <1>6, <1>8, SizeAssumption
       DEF ConnInv, Fresh, Buffers, Buf, clientVars
  <2>2. Accounts(c)'
    <3>1. RespLen * (done[c] + 1) = RespLen * done[c] + RespLen
      BY <1>1, SizeAssumption
    <3>2. ReqLen * (done[c] + 1) = ReqLen * done[c] + ReqLen
      BY <1>1, SizeAssumption
    <3>3. ReqLen * done[c] \in Nat /\ RespLen * done[c] \in Nat
      BY <1>1, SizeAssumption
    <3>4. Consumed(c)' = Consumed(c) + n
      <4>1. Consumed(c)' = ReqLen * (done[c] + 1) - 1
        BY <1>1, <1>8 DEF Consumed
      <4>2. CASE done[c] = 0
        BY <4>1, <4>2, SizeAssumption DEF Consumed, Lead, n
      <4>3. CASE done[c] # 0
        BY <4>1, <4>3, <3>2, <3>3, SizeAssumption DEF Consumed, Lead, n
      <4> QED BY <4>2, <4>3
    <3>5. Consumed(c) \in Int /\ recvd[c] \in Nat
      BY <3>3, <1>1 DEF Consumed, TypeOK
    <3>6. buf_in'[c].size + Consumed(c)' = recvd'[c]
      BY <3>4, <3>5, <1>1, <1>2, <1>5, <1>6, <1>8 DEF ConnInv, Accounts, Buf
    <3>7. buf_out'[c] + wire'[c] + got'[c] = RespLen * done'[c]
      BY <3>1, <3>3, <1>1, <1>2, <1>8, SizeAssumption
         DEF ConnInv, Accounts, clientVars
    <3> QED BY <3>6, <3>7, <1>1, <1>2 DEF ConnInv, Accounts, clientVars
  <2>3. buf_out'[c] > 0
    BY <1>1, <1>8, SizeAssumption
  <2>4. Pending(c)'
    BY <2>3, <1>2, <1>4, <1>8 DEF Pending
  <2> QED BY <2>1, <2>2, <2>4 DEF ConnInv
<1>10. \A d \in Conn \ {c} :
          /\ recvd'[d] = recvd[d] /\ wire'[d] = wire[d]
          /\ done'[d] = done[d] /\ buf_in'[d] = buf_in[d]
          /\ buf_out'[d] = buf_out[d] /\ (d \in ready' <=> d \in ready)
  BY <1>1, <1>2 DEF TypeOK
<1>11. /\ ev' = [ev EXCEPT ![f] = e] /\ phase \in {"events", "ready"}
       /\ UNCHANGED <<clientVars, sock, fd, phase, etdb_conn_cnt>>
  BY <1>2
<1> QED BY <1>1, <1>4, <1>7, <1>9, <1>10, <1>11, ServeInv

LEMMA StutterInv ==
    ASSUME Inv, UNCHANGED vars
    PROVE  Inv'
<1>1. TypeOK' /\ EventTable' /\ ReadyList' /\ ConnCount' /\ Batch'
  BY DEF Inv, vars, TypeOK, EventTable, ReadyList, ConnCount, Batch, Valid,
         Readable, Writable, FreeFds, Open
<1>2. ASSUME NEW d \in Conn PROVE ConnInv(d)'
  BY DEF Inv, vars, ConnInv, Fresh, Buffers, Accounts, Pending, Consumed,
         MustParse, Malformed, Lead
<1> QED BY <1>1, <1>2 DEF Inv

\* Every step keeps the invariant
LEMMA NextInv == Inv /\ [Next]_vars => Inv'
<1> SUFFICES ASSUME Inv, [Next]_vars PROVE Inv'
  OBVIOUS
<1>1. CASE ClientStep \/ Signal
  BY <1>1, ClientInv
<1>2. CASE Wait \/ Stop
  BY <1>2, LoopInv
<1>3. CASE EventStep
  BY <1>3, LoopInv, AcceptInv, FailInv, ReadInv, WriteInv DEF EventStep
<1>4. CASE ReadyStep
  BY <1>4, LoopInv, RecvFailsInv, IncompleteInv, ExecInv DEF ReadyStep
<1>5. CASE UNCHANGED vars
  BY <1>5, StutterInv
<1> QED BY <1>1, <1>2, <1>3, <1>4, <1>5 DEF Next, ServerStep

\* The inductive invariant holds in every reachable state of the event loop.
THEOREM Invariance == Spec => []Inv
<1>1. Init => Inv
  BY InitInv
<1>2. Inv /\ [Next]_vars => Inv'
  BY NextInv
<1> QED BY <1>1, <1>2, PTL DEF Spec

\* The variables have their types: counters never go below zero, whatever
\* the clients do.
THEOREM TypeCorrect == Spec => []TypeOK
<1>1. Inv => TypeOK
  BY DEF Inv
<1> QED BY <1>1, Invariance, PTL

\* The event table of the event manager always describes the open
\* connections and agrees with the kernel's epoll set.
THEOREM EventTableHolds == Spec => []EventTable
<1>1. Inv => EventTable
  BY DEF Inv
<1> QED BY <1>1, Invariance, PTL

\* No event of a batch of etdb_event_mgr_wait names a closed connection, nor
\* one that is on the ready list already.
THEOREM NoDanglingEventHolds == Spec => []NoDanglingEvent
<1>1. Inv => NoDanglingEvent
  BY DEF Inv, Batch, Valid, NoDanglingEvent, Open
<1> QED BY <1>1, Invariance, PTL

\* OUT is asked for exactly while buf_out holds data.
THEOREM OutArmedHolds == Spec => []OutArmed
<1>1. Inv => OutArmed
  BY DEF Inv, ConnInv, Pending, OutArmed, Open
<1> QED BY <1>1, Invariance, PTL

\* No complete request is left in buf_in without the ready list or an OUT
\* event to come back to it.
THEOREM NoStrandedRequestHolds == Spec => []NoStrandedRequest
<1>1. Inv => NoStrandedRequest
  BY DEF Inv, ConnInv, Pending, NoStrandedRequest, Open
<1> QED BY <1>1, Invariance, PTL

\* Input and output of a connection are accounted for, unit by unit.
THEOREM AccountingHolds == Spec => []Accounting
<1>1. Inv => Accounting
  BY DEF Inv, ConnInv, Buffers, Accounts, Accounting, Open
<1> QED BY <1>1, Invariance, PTL

\* buf_in grows with the length of a request only.
THEOREM BufferBoundHolds == Spec => []BufferBound
<1>1. Inv => BufferBound
  BY DEF Inv, ConnInv, Buffers, BufferBound
<1> QED BY <1>1, Invariance, PTL

\* etdb_conn_cnt is the number of open connections.
THEOREM ConnCountHolds == Spec => []ConnCount
<1>1. Inv => ConnCount
  BY DEF Inv
<1> QED BY <1>1, Invariance, PTL

-----------------------------------------------------------------------------
(* Why a connection is closed *)

\* The reasons the server has to close connection c
Reason(c) ==
    \/ client[c] \in {"eof", "reset"}
    \/ done[c] < Len(Script[c]) /\ Script[c][done[c] + 1] = "bad"
    \/ sent[c] - Consumed(c) >= BufCap - BufCap \div 2

\* A read that fails: the buffer was full, or the stream is at its end
LEMMA ReadFailsReason ==
    ASSUME Inv, NEW f \in Fd, NEW c, c = ev[f].ptr, OnReadFails(f)
    PROVE  Reason(c)
<1> DEFINE b == Nice(buf_in[c])
<1>1. ev[f].events # {} /\ "IN" \in ev[f].events /\ ReadFails(c)
  BY DEF OnReadFails
<1>2. c \in Conn /\ sock[c] = "open" /\ Valid(f) /\ TypeOK /\ ConnInv(c)
  BY <1>1, HandlerFacts
<1>3. Readable(c)
  BY <1>1, <1>2 DEF Valid
<1>4. /\ buf_in[c] \in Buf /\ buf_in[c].off + buf_in[c].size <= buf_in[c].cap
      /\ sent[c] \in Nat /\ recvd[c] \in Nat /\ recvd[c] <= sent[c]
      /\ buf_in[c].size + Consumed(c) = recvd[c] /\ buf_in[c].cap >= BufCap
  BY <1>2 DEF TypeOK, Buf, ConnInv, Buffers, Accounts
<1>5. /\ b \in Buf /\ b.size = buf_in[c].size /\ b.cap = buf_in[c].cap
      /\ b.off <= b.cap \div 2 /\ Space(b) = b.cap - b.off - b.size
      /\ b.off + b.size <= b.cap
  BY <1>4, NiceBuf
<1>6. Consumed(c) \in Int
  BY <1>2, SizeAssumption DEF Consumed, TypeOK
<1>7. CASE Space(b) = 0
  <2> HIDE DEF b
  <2>1. b.size >= BufCap - BufCap \div 2
    BY <1>4, <1>5, <1>7, SizeAssumption DEF Buf
  <2>2. sent[c] - Consumed(c) >= b.size
    BY <1>4, <1>5, <1>6 DEF Buf
  <2>3. /\ b.size \in Int /\ BufCap - BufCap \div 2 \in Int
        /\ sent[c] - Consumed(c) \in Int
    BY <1>4, <1>5, <1>6, SizeAssumption DEF Buf
  <2>4. sent[c] - Consumed(c) >= BufCap - BufCap \div 2
    BY <2>1, <2>2, <2>3
  <2> QED BY <2>4 DEF Reason
<1>8. CASE Space(b) # 0
  <2>1. client[c] \in {"eof", "reset"} \/ ReadTakes(c) = 0
    BY <1>1, <1>8 DEF ReadFails
  <2>2. ReadTakes(c) = Least(Space(b), sent[c] - recvd[c])
    BY DEF ReadTakes
  <2> HIDE DEF b
  <2>3. ReadTakes(c) = 0 => sent[c] = recvd[c]
    BY <2>2, <1>4, <1>5, <1>8 DEF Least, Buf
  <2> QED BY <2>1, <2>3, <1>3, <1>4 DEF Reason, Readable
<1> QED BY <1>7, <1>8

\* A write is never tried without data and space: it fails on a reset only
LEMMA WriteFailsReason ==
    ASSUME Inv, NEW f \in Fd, NEW c, c = ev[f].ptr, OnWriteFails(f)
    PROVE  Reason(c)
<1>1. ev[f].events # {} /\ "OUT" \in ev[f].events /\ WriteFails(c)
  BY DEF OnWriteFails, WriteEvent
<1>2. /\ c \in Conn /\ sock[c] = "open" /\ Valid(f) /\ TypeOK /\ ConnInv(c)
      /\ fd[c] = f
  BY <1>1, HandlerFacts
<1>3. Writable(c) /\ buf_out[c] > 0
  BY <1>1, <1>2 DEF Valid, ConnInv, Pending
<1>4. buf_out[c] \in Nat /\ wire[c] \in Nat
  BY <1>2 DEF TypeOK
<1>5. client[c] = "reset"
  BY <1>1, <1>3, <1>4, SizeAssumption DEF WriteFails, WriteTakes, Least, Writable
<1> QED BY <1>5 DEF Reason

\* Who a step may close, and why
LEMMA CloseReason ==
    ASSUME Inv, Next, NEW d \in Conn, sock[d] = "open", sock'[d] = "closed"
    PROVE  Reason(d)
<1>1. TypeOK
  BY DEF Inv
<1>2. ASSUME ClientStep \/ Signal PROVE FALSE
  BY <1>1, <1>2 DEF ClientStep, Signal, Connect, Send, Receive, HangUp, Reset,
                    connVars, TypeOK
<1>3. ASSUME Wait \/ Stop \/ AcceptFails \/ EventsHandled \/ CycleEnds PROVE FALSE
  BY <1>3 DEF Wait, Stop, AcceptFails, EventsHandled, CycleEnds, connVars
<1>4. ASSUME NEW c \in Conn, NEW f \in Fd, Accept(c, f) PROVE FALSE
  BY <1>1, <1>4 DEF Accept, TypeOK
<1>5. ASSUME NEW f \in Fd, OnReadOk(f) \/ OnWriteOk(f) PROVE FALSE
  BY <1>5 DEF OnReadOk, OnWriteOk
<1>6. ASSUME NEW c \in Conn, RecvIncomplete(c) \/ Exec(c) PROVE FALSE
  BY <1>6 DEF RecvIncomplete, Exec
<1>7. ASSUME NEW c \in Conn, NEW f, Close(c, f) PROVE d = c
  BY <1>1, <1>7 DEF Close, TypeOK
<1>8. ASSUME NEW f \in Fd, OnError(f) PROVE Reason(d)
  <2>1. ev[f].events # {} /\ "ERR" \in ev[f].events /\ Close(ev[f].ptr, f)
    BY <1>8 DEF OnError
  <2>2. ev[f].ptr \in Conn /\ Valid(f)
    BY <2>1, HandlerFacts
  <2>3. d = ev[f].ptr
    BY <2>1, <2>2, <1>7
  <2> QED BY <2>1, <2>2, <2>3 DEF Valid, Reason
<1>9. ASSUME NEW f \in Fd, OnReadFails(f) PROVE Reason(d)
  <2>1. ev[f].events # {} /\ Close(ev[f].ptr, f)
    BY <1>9 DEF OnReadFails
  <2>2. ev[f].ptr \in Conn
    BY <2>1, HandlerFacts
  <2> QED BY <2>1, <2>2, <1>7, <1>9, ReadFailsReason
<1>10. ASSUME NEW f \in Fd, OnWriteFails(f) PROVE Reason(d)
  <2>1. ev[f].events # {} /\ Close(ev[f].ptr, f)
    BY <1>10 DEF OnWriteFails, WriteEvent
  <2>2. ev[f].ptr \in Conn
    BY <2>1, HandlerFacts
  <2> QED BY <2>1, <2>2, <1>7, <1>10, WriteFailsReason
<1>11. ASSUME NEW c \in Conn, RecvFails(c) PROVE Reason(d)
  BY <1>7, <1>11 DEF RecvFails, Malformed, Reason
<1> QED BY <1>2, <1>3, <1>4, <1>5, <1>6, <1>8, <1>9, <1>10, <1>11
        DEF Next, ServerStep, EventStep, ReadyStep

\* etdb_master_cycle never closes the connection of a client that stays,
\* sends well-formed requests and keeps less than half a buffer ahead.
THEOREM NoSpuriousCloseHolds == Spec => NoSpuriousClose
<1>1. Inv /\ [Next]_vars =>
        [\A c \in Conn : sock[c] = "open" /\ sock'[c] = "closed" =>
            \/ client[c] \in {"eof", "reset"}
            \/ done[c] < Len(Script[c]) /\ Script[c][done[c] + 1] = "bad"
            \/ sent[c] - Consumed(c) >= BufCap - BufCap \div 2]_vars
  BY CloseReason DEF Reason
<1> QED BY <1>1, Invariance, PTL DEF Spec, NoSpuriousClose
-----------------------------------------------------------------------------
(* The event loop implements EtdbService *)

LEMMA CloseSimulates ==
    ASSUME TypeOK, NEW c \in Conn, NEW f, sock[c] = "open", Close(c, f)
    PROVE  Service!Next
<1>1. /\ sock' = [sock EXCEPT ![c] = "closed"]
      /\ sent' = sent /\ done' = done /\ got' = got
  BY DEF Close, clientVars
<1>2. sock \in [Conn -> {"none", "pending", "open", "closed"}]
  BY DEF TypeOK
<1>3. Service!Close(c)
  BY <1>1, <1>2 DEF Service!Close
<1> QED BY <1>3 DEF Service!Next

LEMMA ExecSimulates ==
    ASSUME Inv, NEW c \in Conn, Exec(c)
    PROVE  Service!Next
<1>1. sock[c] = "open" /\ ConnInv(c) /\ TypeOK
  BY DEF Inv, Exec, ReadyList, Open
<1>2. /\ done' = [done EXCEPT ![c] = @ + 1]
      /\ sent' = sent /\ sock' = sock /\ got' = got
      /\ buf_in[c].size >= Lead(c) + ReqLen - 1
  BY DEF Exec, clientVars, MayParse
<1>3. /\ buf_in[c].size \in Nat /\ sent[c] \in Nat /\ recvd[c] \in Nat
      /\ done[c] \in Nat
      /\ recvd[c] <= sent[c] /\ buf_in[c].size + Consumed(c) = recvd[c]
  BY <1>1 DEF TypeOK, ConnInv, Buffers, Accounts
<1>4. Lead(c) + Consumed(c) = ReqLen * done[c]
  BY <1>3, SizeAssumption DEF Lead, Consumed
<1>5. ReqLen * (done[c] + 1) = ReqLen * done[c] + ReqLen /\ ReqLen * done[c] \in Nat
  BY <1>3, SizeAssumption
<1>6. ReqLen * (done[c] + 1) - 1 <= sent[c]
  <2>1. Lead(c) \in Int /\ Consumed(c) \in Int /\ ReqLen \in Int
    BY <1>3, <1>5, SizeAssumption DEF Lead, Consumed
  <2>2. ReqLen * done[c] + ReqLen - 1 <= sent[c]
    BY <1>2, <1>3, <1>4, <2>1
  <2> QED BY <1>3, <1>5, <2>1, <2>2
<1>7. Service!Serve(c)
  BY <1>1, <1>2, <1>6 DEF Service!Serve
<1> QED BY <1>7 DEF Service!Next

LEMMA ReceiveSimulates ==
    ASSUME Inv, NEW c \in Conn, Receive(c)
    PROVE  Service!Next
<1>1. sock[c] = "open" /\ ConnInv(c) /\ TypeOK /\ wire[c] > 0
  BY DEF Inv, Receive
<1>2. /\ got' = [got EXCEPT ![c] = @ + wire[c]]
      /\ sent' = sent /\ sock' = sock /\ done' = done
  BY DEF Receive
<1>3. /\ buf_out[c] \in Nat /\ wire[c] \in Nat /\ got[c] \in Nat
      /\ done[c] \in Nat
      /\ buf_out[c] + wire[c] + got[c] = RespLen * done[c]
  BY <1>1 DEF TypeOK, ConnInv, Buffers, Accounts
<1>4. wire[c] \in 1..(RespLen * done[c] - got[c])
  BY <1>1, <1>3, SizeAssumption
<1>5. Service!Answer(c)
  BY <1>1, <1>2, <1>4 DEF Service!Answer
<1> QED BY <1>5 DEF Service!Next

LEMMA AcceptSimulates ==
    ASSUME TypeOK, NEW c \in Conn, NEW f \in Fd, Accept(c, f)
    PROVE  Service!Next
<1>1. /\ sock' = [sock EXCEPT ![c] = "open"] /\ sock[c] = "pending"
      /\ sent' = sent /\ done' = done /\ got' = got
  BY DEF Accept, Backlog, clientVars
<1>2. sock \in [Conn -> {"none", "pending", "open", "closed"}]
  BY DEF TypeOK
<1>3. Service!Open(c)
  BY <1>1, <1>2 DEF Service!Open
<1> QED BY <1>3 DEF Service!Next

\* The steps a client of the service does not see
LEMMA Stutters ==
    ASSUME Inv,
           \/ \E c \in Conn : Connect(c) \/ HangUp(c) \/ Reset(c) \/ RecvIncomplete(c)
           \/ \E f \in Fd : OnReadOk(f) \/ OnWriteOk(f)
           \/ Signal \/ Wait \/ Stop \/ AcceptFails \/ EventsHandled \/ CycleEnds
           \/ UNCHANGED vars
    PROVE  UNCHANGED Service!vars
<1>1. /\ sent' = sent /\ done' = done /\ got' = got
      /\ \/ sock' = sock
         \/ \E c \in Conn : /\ client[c] = "off"
                            /\ sock' = [sock EXCEPT ![c] = "pending"]
  BY DEF Connect, HangUp, Reset, RecvIncomplete, OnReadOk, OnWriteOk, Signal,
         Wait, Stop, AcceptFails, EventsHandled, CycleEnds, vars, clientVars,
         connVars
<1>2. /\ sock \in [Conn -> {"none", "pending", "open", "closed"}]
      /\ \A c \in Conn : client[c] = "off" => sock[c] = "none"
  BY DEF Inv, TypeOK, ConnInv, Fresh
<1> QED BY <1>1, <1>2 DEF Service!vars

\* etdb_master_cycle implements EtdbService, for any number of connections,
\* requests and descriptors and any buffer size.
THEOREM ServiceImplemented == Spec => Refinement
<1>1. Init => Service!Init
  BY DEF Init, Service!Init
<1>2. Inv /\ [Next]_vars => [Service!Next]_(Service!vars)
  <2> SUFFICES ASSUME Inv, [Next]_vars
               PROVE  Service!Next \/ UNCHANGED Service!vars
    OBVIOUS
  <2>0. TypeOK
    BY DEF Inv
  <2>1. ASSUME NEW c \in Conn, Send(c) PROVE Service!Next
    <3>1. Service!Ask(c)
      BY <2>1 DEF Send, Service!Ask, connVars
    <3> QED BY <3>1 DEF Service!Next
  <2>2. ASSUME NEW f \in Fd, OnError(f) \/ OnReadFails(f) \/ OnWriteFails(f)
        PROVE Service!Next
    <3>1. ev[f].events # {} /\ Close(ev[f].ptr, f)
      BY <2>2 DEF OnError, OnReadFails, OnWriteFails, WriteEvent
    <3>2. ev[f].ptr \in Conn /\ sock[ev[f].ptr] = "open"
      BY <3>1, HandlerFacts
    <3> QED BY <2>0, <3>1, <3>2, CloseSimulates
  <2>3. ASSUME NEW c \in Conn, RecvFails(c) PROVE Service!Next
    <3>1. sock[c] = "open" /\ Close(c, fd[c])
      BY <2>3 DEF RecvFails, Inv, ReadyList, Open
    <3> QED BY <2>0, <3>1, CloseSimulates
  <2> QED BY <2>0, <2>1, <2>2, <2>3, Stutters, ExecSimulates, ReceiveSimulates,
             AcceptSimulates
          DEF Next, ClientStep, ServerStep, EventStep, ReadyStep
<1> QED BY <1>1, <1>2, Invariance, PTL DEF Spec, Refinement, Service!Spec
=============================================================================
