------------------------------ MODULE EtdbServer ------------------------------
(***************************************************************************)
(* The event loop of etdb_server (src/src/etdb_server.c) with the          *)
(* connections, the buffers and the epoll event manager it drives.         *)
(*                                                                         *)
(* One thread runs etdb_master_cycle: it waits for a batch of epoll        *)
(* events, handles each event of the batch, and then post-processes the    *)
(* connections it put on conn_ready_list_1, executing at most one request  *)
(* of each.  Clients act between any two of these steps.                   *)
(*                                                                         *)
(* Bytes are counted in units.  A request is ReqLen units, the last of     *)
(* which is the final newline of its terminator "0\n\n", which             *)
(* etdb_resp_parse_req leaves in the buffer for the next parse to skip; a  *)
(* response is RespLen units.  Streams are FIFO, so the number of units    *)
(* that passed a point says which units they are.  A unit is a run of      *)
(* bytes that ends where a record ends: a read that cuts a record in two,  *)
(* and what the parser then makes of old bytes of the buffer, is the       *)
(* subject of EtdbResp.                                                    *)
(***************************************************************************)
EXTENDS Integers, FiniteSets, Sequences

CONSTANTS
    Conn,     \* the connections clients may open, each at most once
    Fd,       \* the descriptors accept() can return; an fd is reused
    NoConn,   \* a NULL data.ptr
    NoFd,     \* the fd of a connection the server does not hold
    Script,   \* Script[c]: the requests client c sends, "ok" or "bad" (its
              \* first record has no digit at its head)
    ReqLen,   \* units of a request
    RespLen,  \* units of a response
    BufCap,   \* ETDB_CONNECTION_BUF_SIZE, in units
    SndCap    \* units the kernel's socket send buffer takes

ASSUME ConnAssumption == NoConn \notin Conn
ASSUME FdAssumption == NoFd \notin Fd /\ IsFiniteSet(Conn)
ASSUME ScriptAssumption == Script \in [Conn -> Seq({"ok", "bad"})]
ASSUME SizeAssumption ==
    /\ ReqLen \in Nat /\ ReqLen >= 2
    /\ RespLen \in Nat \ {0} /\ BufCap \in Nat \ {0} /\ SndCap \in Nat \ {0}

VARIABLES
    client,   \* client[c]: "off", "up", "eof" (closed its side) or "reset"
    sent,     \* sent[c]: units the client has sent
    wire,     \* wire[c]: response units in the kernel's send buffer
    got,      \* got[c]: response units the client has received
    sock,     \* sock[c]: "none", "pending" (not accepted), "open", "closed"
    fd,       \* fd[c]: etdb_connection_t.sock
    recvd,    \* recvd[c]: units read() has returned
    buf_in,   \* buf_in[c]: etdb_buf_t as [off, size, cap], off = data - start
    buf_out,  \* buf_out[c]: buf_out->size
    done,     \* done[c]: requests parsed and executed
    ev,       \* ev[f]: etdb_event_t of descriptor f, and the interest set
              \* the kernel holds for f ({}: not registered)
    listen_events, \* the listening socket's event in the batch: {"IN"} or {}
    ready,    \* conn_ready_list_1
    phase,    \* "wait", "events", "ready" or "stopped"
    etdb_conn_cnt,
    etdb_quit

clientVars == <<client, sent, got>>
connVars == <<sock, fd, recvd, buf_in, buf_out, done, wire>>
loopVars == <<ev, listen_events, ready, phase, etdb_conn_cnt>>
vars == <<client, sent, wire, got, sock, fd, recvd, buf_in, buf_out, done,
          ev, listen_events, ready, phase, etdb_conn_cnt, etdb_quit>>

Flags == {"IN", "OUT", "ERR"}
Total(c) == ReqLen * Len(Script[c])
Least(a, b) == IF a <= b THEN a ELSE b

-----------------------------------------------------------------------------
(* etdb_buf_t *)

EmptyBuf == [off |-> 0, size |-> 0, cap |-> BufCap]

\* etdb_buf_space
Space(b) == b.cap - b.off - b.size

\* etdb_buf_nice: move the data to the start once it lies in the upper half
Nice(b) == IF b.off > b.cap \div 2 THEN [b EXCEPT !.off = 0] ELSE b

\* etdb_buf_incr and etdb_buf_decr
Incr(b, n) == [b EXCEPT !.size = @ + n]
Decr(b, n) == [off |-> b.off + n, size |-> b.size - n, cap |-> b.cap]

\* Variant of MakeRoom: grow on every incomplete request
AlwaysGrow(b) == [b EXCEPT !.cap = 2 * @]

\* etdb_buf_grow doubles the capacity (etdb_resp_recv_req tries Nice first)
MakeRoom(b) ==
    IF Space(b) # 0 THEN b
    ELSE IF Space(Nice(b)) # 0 THEN Nice(b)
    ELSE [Nice(b) EXCEPT !.cap = 2 * @]

-----------------------------------------------------------------------------
(* The event manager: functions of one etdb_event_t.  epoll_ctl fails, and  *)
(* changes nothing, when ADD meets a registered fd or MOD an unregistered   *)
(* one; the callers ignore the result.                                      *)

NewEvent == [s_flags |-> {}, epoll |-> {}, ptr |-> NoConn, events |-> {}]

\* Variant of EventSet: EPOLL_CTL_ADD whatever the flags
EventAdd(e, flags, c) ==
    [e EXCEPT !.s_flags = @ \cup flags,
              !.ptr = c,
              !.epoll = IF @ = {} THEN e.s_flags \cup flags ELSE @]

\* etdb_event_mgr_set
EventSet(e, flags, c) ==
    [e EXCEPT !.s_flags = @ \cup flags,
              !.ptr = c,
              !.epoll = IF (e.s_flags = {}) <=> (@ = {})
                        THEN e.s_flags \cup flags ELSE @]

\* etdb_event_mgr_ctr: MOD while flags are left, DEL (the empty set) after
EventClear(e, flags) ==
    [e EXCEPT !.s_flags = @ \ flags,
              !.epoll = IF @ = {} THEN @ ELSE e.s_flags \ flags]

\* Variant of EventDel: s_flags is not reset
EventDelKeepsFlags(e) == [e EXCEPT !.epoll = {}]

\* etdb_event_mgr_del, and the close() that always follows it and takes the
\* descriptor out of the kernel's set; s_flags is kept when DEL fails
EventDel(e) ==
    [e EXCEPT !.s_flags = IF e.epoll = {} THEN @ ELSE {}, !.epoll = {}]

\* Variant of Handled: after IN, the OUT event of the same descriptor is
\* handled in the same pass (if in place of else if)
HandledIn(e) == [e EXCEPT !.events = @ \ {"IN"}]

\* The event leaves the batch's list
Handled(e) == [e EXCEPT !.events = {}]

-----------------------------------------------------------------------------
Init ==
    /\ client = [c \in Conn |-> "off"]
    /\ sent = [c \in Conn |-> 0]
    /\ wire = [c \in Conn |-> 0]
    /\ got = [c \in Conn |-> 0]
    /\ sock = [c \in Conn |-> "none"]
    /\ fd = [c \in Conn |-> NoFd]
    /\ recvd = [c \in Conn |-> 0]
    /\ buf_in = [c \in Conn |-> EmptyBuf]
    /\ buf_out = [c \in Conn |-> 0]
    /\ done = [c \in Conn |-> 0]
    /\ ev = [f \in Fd |-> NewEvent]
    /\ listen_events = {}
    /\ ready = {}
    /\ phase = "wait"
    /\ etdb_conn_cnt = 0
    /\ etdb_quit = 0

-----------------------------------------------------------------------------
(* The clients and the kernel's sockets *)

Connect(c) ==
    /\ client[c] = "off"
    /\ client' = [client EXCEPT ![c] = "up"]
    /\ sock' = [sock EXCEPT ![c] = "pending"]
    /\ UNCHANGED <<sent, wire, got, fd, recvd, buf_in, buf_out, done,
                   loopVars, etdb_quit>>

Send(c) ==
    /\ client[c] = "up" /\ sent[c] < Total(c)
    /\ sent' = [sent EXCEPT ![c] = @ + 1]
    /\ UNCHANGED <<client, got, connVars, loopVars, etdb_quit>>

Receive(c) ==
    /\ client[c] \in {"up", "eof"} /\ sock[c] = "open" /\ wire[c] > 0
    /\ got' = [got EXCEPT ![c] = @ + wire[c]]
    /\ wire' = [wire EXCEPT ![c] = 0]
    /\ UNCHANGED <<client, sent, sock, fd, recvd, buf_in, buf_out, done,
                   loopVars, etdb_quit>>

HangUp(c) ==
    /\ client[c] = "up"
    /\ client' = [client EXCEPT ![c] = "eof"]
    /\ UNCHANGED <<sent, got, connVars, loopVars, etdb_quit>>

Reset(c) ==
    /\ client[c] \in {"up", "eof"}
    /\ client' = [client EXCEPT ![c] = "reset"]
    /\ UNCHANGED <<sent, got, connVars, loopVars, etdb_quit>>

\* SIGINT or SIGTERM
Signal ==
    /\ etdb_quit = 0
    /\ etdb_quit' = 1
    /\ UNCHANGED <<clientVars, connVars, loopVars>>

-----------------------------------------------------------------------------
(* The event loop *)

Readable(c) == sent[c] > recvd[c] \/ client[c] \in {"eof", "reset"}
Writable(c) == wire[c] < SndCap \/ client[c] = "reset"

\* What the kernel reports for descriptor f.  The owner of f is the open
\* connection whose sock it is; errors are reported whatever the interest.
Reported(f) ==
    IF ev[f].epoll = {} THEN {}
    ELSE {x \in Flags : \E c \in Conn :
            /\ fd[c] = f
            /\ \/ x = "IN" /\ "IN" \in ev[f].epoll /\ Readable(c)
               \/ x = "OUT" /\ "OUT" \in ev[f].epoll /\ Writable(c)
               \/ x = "ERR" /\ client[c] = "reset"}

Backlog == {c \in Conn : sock[c] = "pending"}

\* etdb_event_mgr_wait.  A timeout returns an empty batch: nothing happens.
Wait ==
    /\ phase = "wait" /\ etdb_quit = 0
    /\ Backlog # {} \/ \E f \in Fd : Reported(f) # {}
    /\ phase' = "events"
    /\ listen_events' = IF Backlog # {} THEN {"IN"} ELSE {}
    /\ ev' = [f \in Fd |-> [ev[f] EXCEPT !.events = Reported(f)]]
    /\ UNCHANGED <<clientVars, connVars, ready, etdb_conn_cnt, etdb_quit>>

FreeFds == {f \in Fd : \A c \in Conn : fd[c] # f}

\* etdb_connect_accept and the registration of the new connection
Accept(c, f) ==
    /\ phase = "events" /\ listen_events # {}
    /\ c \in Backlog /\ f \in FreeFds
    /\ listen_events' = {}
    /\ sock' = [sock EXCEPT ![c] = "open"]
    /\ fd' = [fd EXCEPT ![c] = f]
    /\ buf_in' = [buf_in EXCEPT ![c] = EmptyBuf]
    /\ buf_out' = [buf_out EXCEPT ![c] = 0]
    /\ ev' = [ev EXCEPT ![f] = EventSet(@, {"IN"}, c)]
    /\ etdb_conn_cnt' = etdb_conn_cnt + 1
    /\ UNCHANGED <<clientVars, wire, recvd, done, ready, phase, etdb_quit>>

\* Variant of AcceptFails: the failed accept is counted
AcceptFailsCounted ==
    /\ phase = "events" /\ listen_events # {} /\ FreeFds = {}
    /\ listen_events' = {}
    /\ etdb_conn_cnt' = etdb_conn_cnt + 1
    /\ UNCHANGED <<clientVars, connVars, ev, ready, phase, etdb_quit>>

\* accept() fails: the descriptors are used up
AcceptFails ==
    /\ phase = "events" /\ listen_events # {} /\ FreeFds = {}
    /\ listen_events' = {}
    /\ UNCHANGED <<clientVars, connVars, ev, ready, phase, etdb_conn_cnt,
                   etdb_quit>>

\* The three statements every failure of a connection runs: the counter, the
\* event and etdb_connect_close.  SO_LINGER is {1, 0}: what the kernel has
\* not delivered is thrown away.
Close(c, f) ==
    /\ etdb_conn_cnt' = etdb_conn_cnt - 1
    /\ ev' = [ev EXCEPT ![f] = EventDel(Handled(@))]
    /\ sock' = [sock EXCEPT ![c] = "closed"]
    /\ fd' = [fd EXCEPT ![c] = NoFd]
    /\ wire' = [wire EXCEPT ![c] = 0]
    /\ buf_in' = [buf_in EXCEPT ![c] = EmptyBuf]
    /\ buf_out' = [buf_out EXCEPT ![c] = 0]
    /\ UNCHANGED <<clientVars, recvd, done, listen_events, phase, etdb_quit>>

\* An error event
OnError(f) ==
    /\ phase = "events" /\ "ERR" \in ev[f].events
    /\ Close(ev[f].ptr, f)
    /\ UNCHANGED ready

\* Variant of ReadTakes: the space left is not looked at
ReadTakesAll(c) == sent[c] - recvd[c]

\* etdb_connect_read_to_buf: read until the buffer is full or the socket is
\* drained.  ReadTakes units come; ReadFails when the result is 0 or -1: no
\* space to begin with, the end of the stream met, a reset, nothing there.
ReadTakes(c) == Least(Space(Nice(buf_in[c])), sent[c] - recvd[c])
ReadFails(c) ==
    LET space == Space(Nice(buf_in[c]))
    IN  \/ space = 0
        \/ client[c] = "reset"
        \/ client[c] = "eof" /\ ReadTakes(c) < space
        \/ ReadTakes(c) = 0

OnReadOk(f) ==
    LET c == ev[f].ptr
    IN  /\ phase = "events"
        /\ "IN" \in ev[f].events /\ "ERR" \notin ev[f].events
        /\ ~ReadFails(c)
        /\ buf_in' = [buf_in EXCEPT ![c] = Incr(Nice(@), ReadTakes(c))]
        /\ recvd' = [recvd EXCEPT ![c] = @ + ReadTakes(c)]
        /\ ready' = ready \cup {c}
        /\ ev' = [ev EXCEPT ![f] = Handled(@)]
        /\ UNCHANGED <<clientVars, wire, sock, fd, buf_out, done,
                       listen_events, phase, etdb_conn_cnt, etdb_quit>>

OnReadFails(f) ==
    /\ phase = "events"
    /\ "IN" \in ev[f].events /\ "ERR" \notin ev[f].events
    /\ ReadFails(ev[f].ptr)
    /\ Close(ev[f].ptr, f)
    /\ UNCHANGED ready

\* etdb_connect_write: write until buf_out is empty or the socket is full
WriteTakes(c) == Least(buf_out[c], SndCap - wire[c])
WriteFails(c) == client[c] = "reset" \/ WriteTakes(c) = 0

WriteEvent(f) ==
    /\ phase = "events"
    /\ ev[f].events = {"OUT"}

OnWriteFails(f) ==
    /\ WriteEvent(f) /\ WriteFails(ev[f].ptr)
    /\ Close(ev[f].ptr, f)
    /\ UNCHANGED ready

\* Variant of AfterWrite: OUT stays set
AfterWriteKeepsOut(c, e) == e

\* The event after a write: OUT is cleared once buf_out is empty, and IN is
\* set when no input waits in buf_in
AfterWrite(c, e) ==
    IF WriteTakes(c) < buf_out[c] THEN e
    ELSE IF buf_in[c].size # 0 THEN EventClear(e, {"OUT"})
    ELSE EventSet(EventClear(e, {"OUT"}), {"IN"}, c)

\* Variant of NextRequest: requests sent ahead wait for the next read event
NextRequestOnRead(c) == {}

\* The connection goes to the ready list when buf_out is empty and input is
\* left in buf_in
NextRequest(c) ==
    IF WriteTakes(c) = buf_out[c] /\ buf_in[c].size # 0 THEN {c} ELSE {}

OnWriteOk(f) ==
    LET c == ev[f].ptr
    IN  /\ WriteEvent(f) /\ ~WriteFails(c)
        /\ buf_out' = [buf_out EXCEPT ![c] = @ - WriteTakes(c)]
        /\ wire' = [wire EXCEPT ![c] = @ + WriteTakes(c)]
        /\ ev' = [ev EXCEPT ![f] = AfterWrite(c, Handled(@))]
        /\ ready' = ready \cup NextRequest(c)
        /\ UNCHANGED <<clientVars, sock, fd, recvd, buf_in, done,
                       listen_events, phase, etdb_conn_cnt, etdb_quit>>

EventsHandled ==
    /\ phase = "events" /\ listen_events = {}
    /\ \A f \in Fd : ev[f].events = {}
    /\ phase' = "ready"
    /\ UNCHANGED <<clientVars, connVars, ev, listen_events, ready,
                   etdb_conn_cnt, etdb_quit>>

-----------------------------------------------------------------------------
(* Post-processing: etdb_connect_recv and etdb_serv_exec_proc *)

\* The newline the previous request left at the head of the buffer
Lead(c) == IF done[c] = 0 THEN 0 ELSE 1

\* etdb_resp_parse_req returns -1: a record whose head is not a digit
Malformed(c) ==
    /\ buf_in[c].size > Lead(c)
    /\ done[c] < Len(Script[c])
    /\ Script[c][done[c] + 1] = "bad"

\* Variant of MayParse: off by one
MayParseEarly(c) == ~Malformed(c) /\ buf_in[c].size >= Lead(c) + ReqLen - 2

\* The parser takes a request when its records are there and the byte after
\* them is a newline.  It looks at that byte without asking whether it has
\* arrived: when it has not, an old byte of the buffer decides.
MayParse(c) == ~Malformed(c) /\ buf_in[c].size >= Lead(c) + ReqLen - 1
MustParse(c) == ~Malformed(c) /\ buf_in[c].size >= Lead(c) + ReqLen

RecvFails(c) ==
    /\ phase = "ready" /\ c \in ready
    /\ Malformed(c)
    /\ Close(c, fd[c])
    /\ ready' = ready \ {c}

\* "data not ready": the buffer is compacted or grown if it is full
RecvIncomplete(c) ==
    /\ phase = "ready" /\ c \in ready
    /\ ~Malformed(c) /\ ~MustParse(c)
    /\ buf_in' = [buf_in EXCEPT ![c] = IF @.size = 0 THEN @ ELSE MakeRoom(@)]
    /\ ev' = [ev EXCEPT ![fd[c]] = IF "IN" \in @.s_flags THEN @
                                   ELSE EventSet(@, {"IN"}, c)]
    /\ ready' = ready \ {c}
    /\ UNCHANGED <<clientVars, wire, sock, fd, recvd, buf_out, done,
                   listen_events, phase, etdb_conn_cnt, etdb_quit>>

\* One request is executed; every path of etdb_serv_exec_proc appends one
\* response to buf_out and asks for the OUT event
Exec(c) ==
    /\ phase = "ready" /\ c \in ready
    /\ MayParse(c)
    /\ buf_in' = [buf_in EXCEPT ![c] = Decr(@, Lead(c) + ReqLen - 1)]
    /\ done' = [done EXCEPT ![c] = @ + 1]
    /\ buf_out' = [buf_out EXCEPT ![c] = @ + RespLen]
    /\ ev' = [ev EXCEPT ![fd[c]] = EventSet(@, {"OUT"}, c)]
    /\ ready' = ready \ {c}
    /\ UNCHANGED <<clientVars, wire, sock, fd, recvd, listen_events, phase,
                   etdb_conn_cnt, etdb_quit>>

CycleEnds ==
    /\ phase = "ready" /\ ready = {}
    /\ phase' = "wait"
    /\ UNCHANGED <<clientVars, connVars, ev, listen_events, ready,
                   etdb_conn_cnt, etdb_quit>>

\* while(!etdb_quit)
Stop ==
    /\ phase = "wait" /\ etdb_quit = 1
    /\ phase' = "stopped"
    /\ UNCHANGED <<clientVars, connVars, ev, listen_events, ready,
                   etdb_conn_cnt, etdb_quit>>

-----------------------------------------------------------------------------
ClientStep == \E c \in Conn :
    Connect(c) \/ Send(c) \/ Receive(c) \/ HangUp(c) \/ Reset(c)

EventStep ==
    \/ \E c \in Conn, f \in Fd : Accept(c, f)
    \/ AcceptFails
    \/ \E f \in Fd : OnError(f) \/ OnReadOk(f) \/ OnReadFails(f)
                     \/ OnWriteOk(f) \/ OnWriteFails(f)
    \/ EventsHandled

ReadyStep ==
    \/ \E c \in Conn : RecvFails(c) \/ RecvIncomplete(c) \/ Exec(c)
    \/ CycleEnds

ServerStep == Wait \/ EventStep \/ ReadyStep \/ Stop

Next == ClientStep \/ Signal \/ ServerStep

Spec == Init /\ [][Next]_vars

\* The loop never blocks but in epoll_wait, and a client that is up reads
\* what is delivered to it.  Clients need not send, nor ever connect.
Fairness == /\ WF_vars(ServerStep)
            /\ \A c \in Conn : WF_vars(Receive(c))
FairSpec == Spec /\ Fairness
-----------------------------------------------------------------------------
(* Properties *)

\* The values the variables take (etdb_server.c, etdb_connection.h,
\* etdb_event.h).
TypeOK ==
    /\ client \in [Conn -> {"off", "up", "eof", "reset"}]
    /\ sent \in [Conn -> Nat] /\ wire \in [Conn -> Nat]
    /\ got \in [Conn -> Nat] /\ recvd \in [Conn -> Nat]
    /\ sock \in [Conn -> {"none", "pending", "open", "closed"}]
    /\ fd \in [Conn -> Fd \cup {NoFd}]
    /\ buf_in \in [Conn -> [off : Nat, size : Nat, cap : Nat]]
    /\ buf_out \in [Conn -> Nat] /\ done \in [Conn -> Nat]
    /\ ev \in [Fd -> [s_flags : SUBSET Flags, epoll : SUBSET Flags,
                      ptr : Conn \cup {NoConn}, events : SUBSET Flags]]
    /\ listen_events \in SUBSET {"IN"} /\ ready \in SUBSET Conn
    /\ phase \in {"wait", "events", "ready", "stopped"}
    /\ etdb_conn_cnt \in Int /\ etdb_quit \in {0, 1}

Open == {c \in Conn : sock[c] = "open"}

\* Units of input the parser has taken: all of the executed requests but the
\* newline of the last one
Consumed(c) == IF done[c] = 0 THEN 0 ELSE ReqLen * done[c] - 1

\* The event table describes the open connections: an open connection owns
\* one descriptor, its entry points back to it, asks for IN, and agrees with
\* the kernel; a descriptor nobody owns is unregistered with no flags, so
\* that the next accept() that returns it runs EPOLL_CTL_ADD.
EventTable ==
    /\ \A c \in Open : /\ fd[c] \in Fd /\ ev[fd[c]].ptr = c
                        /\ "IN" \in ev[fd[c]].s_flags
    /\ \A c \in Conn \ Open : fd[c] = NoFd
    /\ \A f \in Fd : ev[f].epoll = ev[f].s_flags
    /\ \A f \in FreeFds : ev[f].s_flags = {}

\* No event of the batch names a connection that was closed since epoll_wait,
\* although descriptors are closed and handed out again within a batch, and
\* no connection can be linked into the ready list a second time.
NoDanglingEvent ==
    \A f \in Fd : ev[f].events # {} =>
        /\ ev[f].ptr \in Open /\ fd[ev[f].ptr] = f
        /\ ev[f].ptr \notin ready

\* The OUT event is asked for exactly while buf_out holds data: an OUT event
\* with nothing to write makes etdb_connect_write return 0, which the loop
\* takes for a failure, and data without the event is never written.
OutArmed == \A c \in Open : "OUT" \in ev[fd[c]].s_flags <=> buf_out[c] > 0

\* A complete request in buf_in is never left alone: the connection is on
\* the ready list, or a response is on its way whose completion puts it
\* there.  No event would come for it: the kernel holds no unread data.
NoStrandedRequest ==
    \A c \in Open : (MustParse(c) \/ Malformed(c)) => c \in ready \/ buf_out[c] > 0

\* etdb_conn_cnt is the number of open connections.
ConnCount == etdb_conn_cnt = Cardinality(Open)

\* Every unit is accounted for on an open connection: what was read is
\* parsed or in buf_in, within its capacity, and what was executed was
\* answered by exactly one response, in buf_out, on the wire or received.
Accounting ==
    \A c \in Open :
        /\ recvd[c] <= sent[c]
        /\ buf_in[c].size + Consumed(c) = recvd[c]
        /\ buf_in[c].off + buf_in[c].size <= buf_in[c].cap
        /\ buf_out[c] + wire[c] + got[c] = RespLen * done[c]

\* The input buffer grows with the length of a request, never with the
\* number of requests a client sends ahead.
BufferBound == \A c \in Conn :
    buf_in[c].cap <= BufCap \/ buf_in[c].cap <= 4 * ReqLen

\* The server closes a connection only when its client has hung up or sent a
\* malformed request, or has sent ahead at least half a buffer of requests
\* (then read_to_buf may find no space and return 0).
NoSpuriousClose ==
    [][\A c \in Conn : sock[c] = "open" /\ sock'[c] = "closed" =>
            \/ client[c] \in {"eof", "reset"}
            \/ done[c] < Len(Script[c]) /\ Script[c][done[c] + 1] = "bad"
            \/ sent[c] - Consumed(c) >= BufCap - BufCap \div 2]_vars

\* A request that was sent on an open connection is answered, unless the
\* client leaves, the server closes the connection or is told to stop.
Served ==
    \A c \in Conn : \A k \in 1..Len(Script[c]) :
        sock[c] = "open" /\ sent[c] >= ReqLen * k
            ~> \/ got[c] >= RespLen * k
               \/ client[c] # "up" \/ sock[c] = "closed" \/ etdb_quit = 1

\* The service a client sees (module EtdbService)
Service == INSTANCE EtdbService WITH
    link <- [c \in Conn |-> IF sock[c] \in {"none", "pending"} THEN "idle"
                            ELSE sock[c]],
    input <- sent, served <- done, answered <- got

\* The event loop implements the service: requests of a connection are
\* executed one at a time and only after their input was sent, and nothing
\* is received that no executed request produced.
Refinement == Service!Spec
=============================================================================
