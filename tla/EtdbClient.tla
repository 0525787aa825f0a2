------------------------------ MODULE EtdbClient ------------------------------
(***************************************************************************)
(* The programs on the other end of a connection: the C library            *)
(* (src/src/hietdb.c), the command line client and the benchmark           *)
(* (src/src/etdb_client.c), over blocking sockets (etdb_connection.c).     *)
(* Requests and responses are counted in units, as in EtdbServer.  The     *)
(* server answers the requests of a connection in their order, which       *)
(* EtdbServer and EtdbService show of it, and may close it at any time.    *)
(*                                                                         *)
(* One program runs, chosen in the initial state: "lib", "cli" or "bench". *)
(* The first two use connection 1, the benchmark uses 1..bench.P.          *)
(***************************************************************************)
EXTENDS EtdbDispatch, FiniteSets

CONSTANTS
    MaxConn,        \* the largest etdb_parallel_conn
    RequestNums,    \* the values of etdb_request_num
    Phases,         \* the benchmarks that are run, 5 in the code
    Lines,          \* the lines a user may type
    MaxLines,       \* the bound on their number
    LibFunctions,   \* the functions a program calls
    MaxCalls,       \* the bound on the calls
    ReqLen,         \* units of a request
    RespLen,        \* units of a response; the last is its last newline
    MaxRecs         \* records in a response that fits ETDB_MAX_PACKET_SIZE

Conn == 1..MaxConn

\* etdb_exec_benchmark: the requests of its five parts
BenchRequests == << <<"set", "k", "1">>, <<"get", "k">>, <<"del", "k">>,
                    <<"ping">>, <<"spset", "k", "1", "1">> >>

\* The functions of hietdb.c: the command, the number of arguments and what is
\* given back next to the status
Fn(cmd, args, gives) == [cmd |-> cmd, args |-> args, gives |-> gives]
KvCalls ==
  [etdb_kv_set |-> Fn("set", 2, "status"), etdb_kv_get |-> Fn("get", 1, "value"),
   etdb_kv_del |-> Fn("del", 1, "status"),
   etdb_kv_matchlongest |-> Fn("matchlongest", 1, "list")]
HashCalls ==
  [etdb_hash_set |-> Fn("hset", 3, "status"), etdb_hash_get |-> Fn("hget", 2, "value"),
   etdb_hash_del |-> Fn("hdel", 2, "status")]
SetCalls ==
  [etdb_set_add |-> Fn("sadd", 2, "status"), etdb_set_del |-> Fn("sdel", 2, "status"),
   etdb_set_members |-> Fn("smembers", 1, "list"),
   etdb_set_ismember |-> Fn("sismember", 2, "status")]
ListCalls ==
  [etdb_lst_lpush |-> Fn("lpush", 2, "status"), etdb_lst_rpush |-> Fn("rpush", 2, "status"),
   etdb_lst_ltop |-> Fn("ltop", 1, "value"), etdb_lst_rtop |-> Fn("rtop", 1, "value"),
   etdb_lst_lpop |-> Fn("lpop", 1, "status"), etdb_lst_rpop |-> Fn("rpop", 1, "status")]
SpatialCalls ==
  [etdb_spatial_point_set |-> Fn("spset", 3, "status"),
   etdb_spatial_point_get |-> Fn("spget", 1, "value"),
   etdb_spatial_point_rect_query |-> Fn("sprect", 4, "list")]
LibCalls == Tables(<<KvCalls, HashCalls, SetCalls, ListCalls, SpatialCalls>>)
LibRequest(f) == <<LibCalls[f].cmd>> \o [i \in 1..LibCalls[f].args |-> "x"]

ASSUME ClientAssumption ==
    /\ MaxConn \in Nat \ {0} /\ RequestNums \subseteq Nat \ {0}
    /\ Phases \in 1..Len(BenchRequests)
    /\ ReqLen \in Nat \ {0} /\ RespLen \in Nat /\ RespLen >= 2
    /\ LibFunctions \subseteq DOMAIN LibCalls
    /\ Lines \subseteq Seq(STRING)

VARIABLES
    main,      \* the program
    pc,        \* where it is
    etdb_quit,
    conn,      \* etdb_connection_t and its event: sock, asked (requests put
               \* into buf_out), out (buf_out->size), recvd (units read), taken
               \* (replies parsed), armed (OUT in s_flags), events
    ready,     \* conn_ready_list
    peer,      \* the server's end: todo (requests without an answer), served,
               \* answers (not taken yet), wire (units on the way), slot
    calls,     \* cmd->calls
    typed,     \* the lines typed, blank ones left out
    responsed,
    shown,     \* what the command line client printed since the last line
    bench,     \* P and R of the command line, phase, num_sent
    ret,       \* what the last call of the library returned
    trouble,   \* a call of the kernel failed and the link stayed up
    wild       \* memory used that is not the program's

cliVars == <<typed, responsed, shown>>
libVars == <<ret, trouble>>
vars == <<main, pc, etdb_quit, conn, ready, peer, calls, cliVars, bench,
          libVars, wild>>

Nothing == [none |-> TRUE]

Init ==
    /\ main \in {"lib", "cli", "bench"}
    /\ pc = CASE main = "lib" -> "idle" [] main = "cli" -> "prompt" [] main = "bench" -> "start"
    /\ etdb_quit = 0 /\ ready = {} /\ wild = {}
    /\ conn = [c \in Conn |-> [sock |-> "up", asked |-> 0, out |-> 0, recvd |-> 0,
                               taken |-> 0, armed |-> FALSE, events |-> {}]]
    /\ peer = [c \in Conn |-> [todo |-> << >>, served |-> 0, answers |-> << >>,
                               wire |-> 0, slot |-> 0]]
    /\ calls = [name \in DOMAIN Commands |-> 0]
    /\ typed = << >> /\ responsed = 1 /\ shown = Nothing
    /\ \E p \in Conn, r \in RequestNums :
         bench = [P |-> IF main = "bench" THEN p ELSE 1,
                  R |-> IF main = "bench" THEN r ELSE 1, phase |-> 1, num_sent |-> 0]
    /\ ret = Nothing /\ trouble = FALSE

Used == 1..bench.P

-----------------------------------------------------------------------------
(* The server and the network, while the program runs *)

\* Units of requests that left buf_out
Sent(c) == ReqLen * conn[c].asked - conn[c].out

ServerAnswers(c) ==
    LET p == peer[c]
        r == Head(p.todo)
    IN  /\ conn[c].sock = "up" /\ p.todo # << >>
        /\ Sent(c) >= ReqLen * (p.served + 1) /\ pc # "end"
        /\ calls' = CallsAfter(r, calls)
        /\ \E a \in Answers(r, p.slot, CallsAfter(r, calls)) :
             peer' = [peer EXCEPT ![c] =
               [todo |-> Tail(p.todo), served |-> p.served + 1, wire |-> p.wire + RespLen,
                answers |-> Append(p.answers, [to |-> p.served + 1, answer |-> a]),
                slot |-> SlotAfter(r, p.slot)]]
        /\ UNCHANGED <<main, pc, etdb_quit, conn, ready, cliVars, bench, libVars, wild>>

\* The server sets SO_LINGER to {1, 0}: what was not read is gone
ServerCloses(c) ==
    /\ c \in Used /\ conn[c].sock = "up" /\ pc # "end"
    /\ conn' = [conn EXCEPT ![c].sock = "reset"]
    /\ peer' = [peer EXCEPT ![c].wire = 0]
    /\ UNCHANGED <<main, pc, etdb_quit, ready, calls, cliVars, bench, libVars, wild>>

-----------------------------------------------------------------------------
(* etdb_connect_recv, as in EtdbServer *)

\* Units the parser has taken with n responses: all but the last newline
Consumed(n) == IF n = 0 THEN 0 ELSE RespLen * n - 1

\* buf_in->size
Held(c) == conn[c].recvd - Consumed(conn[c].taken)

\* The parser looks at the last newline without asking whether it is there
MayParse(c) == Held(c) >= Consumed(conn[c].taken + 1) - Consumed(conn[c].taken)
MustParse(c) == conn[c].recvd >= RespLen * (conn[c].taken + 1)

Reply(c) == Head(peer[c].answers)
TooLong(c) == Len(Reply(c).answer.recs) > MaxRecs
Take(c) == [peer EXCEPT ![c].answers = Tail(@)]

-----------------------------------------------------------------------------
(* The command line client and the benchmark *)

\* Variant of Unwritten: a short write goes unnoticed
UnwrittenNever(n, size) == FALSE

\* etdb_connect_write(cur_conn) != size: OUT has to be set
Unwritten(n, size) == n # size

\* etdb_cli_handle_user_cmd, after took replies were taken from c.  One write
\* takes n units.  On a link that was reset it fails, or the process dies of
\* SIGPIPE, which the client does not ignore.  On a connection that was closed
\* the memory is not the program's.
HandleUserCmd(c, request, took, next) ==
    LET all == conn[c].out + ReqLen
        p == IF took = 1 THEN Take(c)[c] ELSE peer[c]
        Written(n) ==
          /\ conn' = [conn EXCEPT ![c].asked = @ + 1, ![c].taken = @ + took, ![c].out = all - n,
                                  ![c].armed = @ \/ Unwritten(n, all)]
          /\ peer' = [peer EXCEPT ![c] = [p EXCEPT !.todo = Append(@, request)]]
          /\ pc' = next /\ wild' = wild
        NotWritten == UNCHANGED <<conn, peer>>
    IN  \/ conn[c].sock = "up" /\ \E n \in 0..all : Written(n)
        \/ conn[c].sock = "reset" /\ Written(0)
        \/ conn[c].sock = "reset" /\ NotWritten /\ pc' = "end" /\ wild' = wild
        \/ /\ conn[c].sock = "closed" /\ NotWritten
           /\ pc' \in {next, "end"} /\ wild' = wild \cup {"freed"}

\* linenoise returns a line
TypeLine(line) ==
    /\ main = "cli" /\ pc = "prompt" /\ Len(typed) < MaxLines
    /\ shown' = Nothing
    /\ IF Words(line) = << >>
       THEN UNCHANGED <<pc, conn, peer, wild, typed, responsed>>
       ELSE /\ HandleUserCmd(1, Words(line), 0, "wait")
            /\ typed' = Append(typed, line) /\ responsed' = 0
    /\ UNCHANGED <<main, etdb_quit, ready, calls, bench, libVars>>

\* "quit", or the end of the input
Leave ==
    /\ main = "cli" /\ pc = "prompt"
    /\ pc' = "end"
    /\ UNCHANGED <<main, etdb_quit, conn, ready, peer, calls, cliVars, bench, libVars, wild>>

\* The first loop of etdb_exec_benchmark_cycle: one request on each connection
BenchSend ==
    /\ main = "bench" /\ pc = "start"
    /\ bench.num_sent < bench.P /\ bench.num_sent < bench.R
    /\ HandleUserCmd(bench.num_sent + 1, BenchRequests[bench.phase], 0, "start")
    /\ bench' = [bench EXCEPT !.num_sent = @ + 1]
    /\ UNCHANGED <<main, etdb_quit, ready, calls, cliVars, libVars>>

\* More connections than requests: requests_data is read behind its end
BenchPastEnd ==
    /\ main = "bench" /\ pc = "start"
    /\ bench.num_sent < bench.P /\ bench.num_sent >= bench.R
    /\ wild' = wild \cup {"bounds"} /\ pc' = "end"
    /\ UNCHANGED <<main, etdb_quit, conn, ready, peer, calls, cliVars, bench, libVars>>

\* Variant of BenchSent: the index stays behind the last request
BenchSentNoStep ==
    /\ main = "bench" /\ pc = "start" /\ bench.num_sent = bench.P
    /\ pc' = "wait"
    /\ UNCHANGED <<main, etdb_quit, conn, ready, peer, calls, cliVars, bench, libVars, wild>>

BenchSent ==
    /\ main = "bench" /\ pc = "start" /\ bench.num_sent = bench.P
    /\ bench' = [bench EXCEPT !.num_sent = @ - 1]
    /\ pc' = "wait"
    /\ UNCHANGED <<main, etdb_quit, conn, ready, peer, calls, cliVars, libVars, wild>>

\* etdb_exec_benchmark_cycle returns
NextPhase ==
    IF bench.phase < Phases
    THEN bench' = [bench EXCEPT !.phase = @ + 1, !.num_sent = 0] /\ pc' = "start"
    ELSE bench' = bench /\ pc' = "end"

\* while(!etdb_quit)
Quit ==
    /\ pc = "wait" /\ etdb_quit = 1
    /\ IF main = "cli" THEN pc' = "end" /\ bench' = bench ELSE NextPhase
    /\ UNCHANGED <<main, etdb_quit, conn, ready, peer, calls, cliVars, libVars, wild>>

Reported(c) ==
    CASE conn[c].sock = "closed" -> {}
      [] conn[c].sock = "reset" -> {"ERR"}
      [] conn[c].sock = "up" -> (IF peer[c].wire > 0 THEN {"IN"} ELSE {})
                                \cup (IF conn[c].armed THEN {"OUT"} ELSE {})

\* etdb_event_mgr_wait; a timeout is a batch of no events
Wait ==
    /\ pc = "wait" /\ etdb_quit = 0
    /\ \E c \in Used : Reported(c) # {}
    /\ conn' = [c \in Conn |-> [conn[c] EXCEPT !.events = IF c \in Used THEN Reported(c) ELSE {}]]
    /\ pc' = "events"
    /\ UNCHANGED <<main, etdb_quit, ready, peer, calls, cliVars, bench, libVars, wild>>

\* Variant of CloseConn: the loop goes on
CloseConnGoesOn(c) ==
    /\ conn' = [conn EXCEPT ![c].sock = "closed", ![c].armed = FALSE, ![c].events = {}]
    /\ UNCHANGED <<etdb_quit, main, peer, calls, cliVars, bench, libVars, wild>>

\* etdb_event_mgr_del, etdb_connect_close, etdb_quit = 1
CloseConn(c) ==
    /\ conn' = [conn EXCEPT ![c].sock = "closed", ![c].armed = FALSE, ![c].events = {}]
    /\ etdb_quit' = 1
    /\ UNCHANGED <<main, peer, calls, cliVars, bench, libVars, wild>>

OnError(c) ==
    /\ pc = "events" /\ "ERR" \in conn[c].events
    /\ CloseConn(c)
    /\ UNCHANGED <<pc, ready>>

\* One read(2): what is there, or part of it
OnRead(c) ==
    /\ pc = "events" /\ "IN" \in conn[c].events /\ conn[c].sock = "up"
    /\ \E n \in 1..peer[c].wire :
         /\ conn' = [conn EXCEPT ![c].recvd = @ + n, ![c].events = {}]
         /\ peer' = [peer EXCEPT ![c].wire = @ - n]
    /\ ready' = ready \cup {c}
    /\ UNCHANGED <<main, pc, etdb_quit, calls, cliVars, bench, libVars, wild>>

OnReadFails(c) ==
    /\ pc = "events" /\ "IN" \in conn[c].events /\ conn[c].sock = "reset"
    /\ CloseConn(c)
    /\ UNCHANGED <<pc, ready>>

\* Variant of OnWrite: OUT stays set
OnWriteKeepsOut(c) ==
    /\ pc = "events" /\ conn[c].events = {"OUT"}
    /\ conn[c].sock = "up" /\ conn[c].out > 0
    /\ \E n \in 1..conn[c].out :
         /\ conn' = [conn EXCEPT ![c].out = @ - n, ![c].events = {}]
         /\ ready' = IF n = conn[c].out /\ Held(c) # 0 THEN ready \cup {c} ELSE ready
    /\ UNCHANGED <<main, pc, etdb_quit, peer, calls, cliVars, bench, libVars, wild>>

\* The rest of a request.  With all of it gone OUT is cleared, and what waits
\* in buf_in is looked at.
OnWrite(c) ==
    /\ pc = "events" /\ conn[c].events = {"OUT"}
    /\ conn[c].sock = "up" /\ conn[c].out > 0
    /\ \E n \in 1..conn[c].out :
         /\ conn' = [conn EXCEPT ![c].out = @ - n, ![c].events = {},
                                 ![c].armed = n # conn[c].out]
         /\ ready' = IF n = conn[c].out /\ Held(c) # 0 THEN ready \cup {c} ELSE ready
    /\ UNCHANGED <<main, pc, etdb_quit, peer, calls, cliVars, bench, libVars, wild>>

\* The result is -1, or 0 when there is nothing to write; SIGPIPE as above
OnWriteFails(c) ==
    /\ pc = "events" /\ conn[c].events = {"OUT"}
    /\ conn[c].sock = "reset" \/ conn[c].out = 0
    /\ CloseConn(c)
    /\ pc' \in IF conn[c].sock = "reset" THEN {pc, "end"} ELSE {pc}
    /\ UNCHANGED ready

EventsHandled ==
    /\ pc = "events" /\ \A c \in Used : conn[c].events = {}
    /\ pc' = "ready"
    /\ UNCHANGED <<main, etdb_quit, conn, ready, peer, calls, cliVars, bench, libVars, wild>>

\* A response that is longer than the largest packet: recv returns NULL
RecvFails(c) ==
    /\ pc = "ready" /\ c \in ready
    /\ MayParse(c) /\ TooLong(c)
    /\ CloseConn(c)
    /\ ready' = ready \ {c}
    /\ UNCHANGED pc

\* "data not ready"
RecvIncomplete(c) ==
    /\ pc = "ready" /\ c \in ready
    /\ ~MustParse(c)
    /\ ready' = ready \ {c}
    /\ UNCHANGED <<main, pc, etdb_quit, conn, peer, calls, cliVars, bench, libVars, wild>>

\* The records that are printed: all, or all but the status
Display(a) == [recs |-> IF Len(a.recs) > 1 THEN Tail(a.recs) ELSE a.recs, num |-> a.num]

CliRecv(c) ==
    /\ main = "cli" /\ pc = "ready" /\ c \in ready
    /\ MayParse(c) /\ ~TooLong(c)
    /\ shown' = Display(Reply(c).answer) /\ responsed' = 1
    /\ conn' = [conn EXCEPT ![c].taken = @ + 1]
    /\ peer' = Take(c)
    /\ ready' = ready \ {c}
    /\ UNCHANGED <<main, pc, etdb_quit, calls, typed, bench, libVars, wild>>

\* A response makes room for the next request, on the same connection
BenchRecv(c) ==
    /\ main = "bench" /\ pc = "ready" /\ c \in ready
    /\ MayParse(c) /\ ~TooLong(c)
    /\ bench.num_sent + 1 < bench.R
    /\ HandleUserCmd(c, BenchRequests[bench.phase], 1, "ready")
    /\ bench' = [bench EXCEPT !.num_sent = @ + 1]
    /\ ready' = ready \ {c}
    /\ UNCHANGED <<main, etdb_quit, calls, cliVars, libVars>>

\* After the last request the time is printed and the function returns,
\* whatever is left in the ready list
BenchDone(c) ==
    /\ main = "bench" /\ pc = "ready" /\ c \in ready
    /\ MayParse(c) /\ ~TooLong(c)
    /\ bench.num_sent + 1 >= bench.R
    /\ conn' = [conn EXCEPT ![c].taken = @ + 1]
    /\ peer' = Take(c)
    /\ ready' = {}
    /\ NextPhase
    /\ UNCHANGED <<main, etdb_quit, calls, cliVars, libVars, wild>>

CycleEnds ==
    /\ pc = "ready" /\ ready = {}
    /\ pc' = IF main = "cli" /\ responsed = 1 /\ etdb_quit = 0 THEN "prompt" ELSE "wait"
    /\ UNCHANGED <<main, etdb_quit, conn, ready, peer, calls, cliVars, bench, libVars, wild>>

-----------------------------------------------------------------------------
(* The library: etdb_client_request *)

libOnly == <<main, etdb_quit, ready, calls, cliVars, bench, wild>>

Call(f) ==
    /\ main = "lib" /\ pc = "idle" /\ conn[1].asked < MaxCalls
    /\ conn' = [conn EXCEPT ![1].asked = @ + 1, ![1].out = @ + ReqLen]
    /\ peer' = [peer EXCEPT ![1].todo = Append(@, LibRequest(f))]
    /\ ret' = [fn |-> f]
    /\ pc' = "flush"
    /\ UNCHANGED <<libOnly, trouble>>

\* "+ERROR": the link stays as it is, the request in buf_out too
CallFails ==
    /\ pc' = "idle" /\ ret' = Nothing
    /\ UNCHANGED <<libOnly, conn, peer>>

\* etdb_connect_flush
Flush ==
    /\ pc = "flush" /\ conn[1].sock = "up"
    /\ \E n \in 1..conn[1].out :
         /\ conn' = [conn EXCEPT ![1].out = @ - n]
         /\ pc' = IF n = conn[1].out THEN "recv" ELSE "flush"
    /\ UNCHANGED <<libOnly, libVars, peer>>

\* A write fails: the link was reset, or the kernel has no memory for it
FlushFails ==
    /\ pc = "flush"
    /\ CallFails
    /\ trouble' = (trouble \/ conn[1].sock = "up")

\* SIGPIPE in the write
Killed ==
    /\ pc = "flush" /\ conn[1].sock = "reset"
    /\ pc' = "end"
    /\ UNCHANGED <<libOnly, libVars, conn, peer>>

\* The reply is a complete response: its status, and the second record for the
\* functions that give a value back
LibReturns ==
    /\ pc = "recv" /\ MayParse(1) /\ ~TooLong(1)
    /\ conn' = [conn EXCEPT ![1].taken = @ + 1]
    /\ peer' = Take(1)
    /\ LET recs == Reply(1).answer.recs
       IN  ret' = [fn |-> ret.fn, to |-> Reply(1).to, status |-> recs[1],
                   value |-> IF LibCalls[ret.fn].gives = "value" /\ Len(recs) > 1
                             THEN recs[2] ELSE "as before"]
    /\ pc' = "idle"
    /\ UNCHANGED <<libOnly, trouble>>

LibRefuses ==
    /\ pc = "recv" /\ MayParse(1) /\ TooLong(1)
    /\ CallFails /\ UNCHANGED trouble

\* Variant of LibReads: the call gives up when one read does not complete
\* the response
LibReadsOnce ==
    /\ pc = "recv" /\ ~MustParse(1) /\ conn[1].sock = "up"
    /\ \E n \in 1..peer[1].wire :
         /\ conn' = [conn EXCEPT ![1].recvd = @ + n]
         /\ peer' = [peer EXCEPT ![1].wire = @ - n]
         /\ LET full == conn[1].recvd + n >= RespLen * (conn[1].taken + 1)
            IN  /\ pc' = IF full THEN pc ELSE "idle"
                /\ ret' = IF full THEN ret ELSE Nothing
    /\ UNCHANGED <<libOnly, trouble>>

\* The response is not complete: read more of it
LibReads ==
    /\ pc = "recv" /\ ~MustParse(1) /\ conn[1].sock = "up"
    /\ \E n \in 1..peer[1].wire :
         /\ conn' = [conn EXCEPT ![1].recvd = @ + n]
         /\ peer' = [peer EXCEPT ![1].wire = @ - n]
    /\ UNCHANGED <<libOnly, libVars, pc>>

\* A read fails: the link was reset, or the kernel has no memory for it
LibReadFails ==
    /\ pc = "recv" /\ ~MustParse(1)
    /\ CallFails
    /\ trouble' = (trouble \/ conn[1].sock = "up")

-----------------------------------------------------------------------------
EventStep ==
    \/ \E c \in Used : OnError(c) \/ OnRead(c) \/ OnReadFails(c) \/ OnWrite(c) \/ OnWriteFails(c)
    \/ EventsHandled

ReadyStep ==
    \/ \E c \in Used : RecvFails(c) \/ RecvIncomplete(c)
                       \/ CliRecv(c) \/ BenchRecv(c) \/ BenchDone(c)
    \/ CycleEnds

LoopStep == BenchSend \/ BenchPastEnd \/ BenchSent \/ Quit \/ Wait \/ EventStep \/ ReadyStep
LibStep == Flush \/ FlushFails \/ Killed \/ LibReturns \/ LibRefuses \/ LibReads \/ LibReadFails
UserStep == Leave \/ (\E line \in Lines : TypeLine(line)) \/ (\E f \in LibFunctions : Call(f))
ServerStep == \E c \in Conn : ServerAnswers(c) \/ ServerCloses(c)

Next == LoopStep \/ LibStep \/ UserStep \/ ServerStep

Spec == Init /\ [][Next]_vars

\* The program runs, and the server answers what it got (Served of EtdbServer);
\* nobody has to type, to call or to close.  A call of the library ends without
\* the help of a failing kernel.
Fairness ==
    /\ WF_vars(LoopStep)
    /\ WF_vars(Flush \/ LibReturns \/ LibRefuses \/ LibReads)
    /\ WF_vars(conn[1].sock = "reset" /\ (FlushFails \/ Killed \/ LibReadFails))
    /\ \A c \in Conn : WF_vars(ServerAnswers(c))
FairSpec == Spec /\ Fairness
-----------------------------------------------------------------------------
(* Properties *)

\* The library.  Replies carry no number, so that a call can only count on
\* being in step with the server: what etdb_client_request gives back is the
\* answer to the request of this very call, however the response is cut into
\* reads, unless an earlier call gave up with the link still up.  No function
\* is ever refused for its name or its number of arguments.
InStep ==
    (main = "lib" /\ "to" \in DOMAIN ret) =>
      /\ ~trouble => ret.to = conn[1].asked
      /\ ret.status # Head(Unknown.recs)

\* What a user may expect of a line, from the text of the line and of the lines
\* before it alone: its words, the numbers of arguments of the command table,
\* plain decimal numbers
TextWords(line) == ToLower(SelectSeq(line, LAMBDA p : p # Empty))
TextKnown(words) ==
    /\ words[1] \in DOMAIN Commands
    /\ LET f == Commands[words[1]]
       IN  Len(words) - 1 \in f.args \/ \E k \in f.more : k <= Len(words) - 1
TextUse(words) ==
    words[1] = "use" /\ TextKnown(words) /\ IsNumber(words[2])
    /\ Decimal[words[2]] \in 1..MaxSlot
TextSlot(lines) ==
    LET uses == {i \in DOMAIN lines : TextUse(TextWords(lines[i]))}
        last == CHOOSE i \in uses : \A j \in uses : j <= i
    IN  IF uses = {} THEN 1 ELSE Decimal[TextWords(lines[last])[2]]
TextCount(lines, name) ==
    Cardinality({i \in DOMAIN lines : LET words == TextWords(lines[i])
                                      IN  TextKnown(words) /\ words[1] = name})

\* The limits of the code: 256 pieces, 4 arguments, the width of an int
WithinLimits(line) ==
    LET words == TextWords(line)
    IN  /\ Len(line) <= MaxSplits /\ Len(words) \in 1..5
        /\ \A i \in 1..Len(words) : IsNumber(words[i]) => Decimal[words[i]] < IntMod \div 2

\* What is shown under the last of the lines: a refusal exactly for a name or a
\* number of arguments that is not in the table, the slot of the last use that
\* named one for where, all the calls so far, its own included, for perf
Fits(display, lines) ==
    LET words == TextWords(lines[Len(lines)])
    IN  /\ display = Display(Unknown) <=> ~TextKnown(words)
        /\ TextKnown(words) /\ words[1] = "where" => display.num = TextSlot(lines)
        /\ TextKnown(words) /\ words[1] = "perf" /\ words[2] \in DOMAIN Commands =>
             display.num = TextCount(lines, words[2])

\* The command line client.  Within the limits, what is printed under a line
\* belongs to that line and to what its text and the lines before it ask for.
ShownAnswers ==
    (main = "cli" /\ shown # Nothing /\ \A i \in DOMAIN typed : WithinLimits(typed[i])) =>
      Fits(shown, typed)

\* The requests put into buf_out, and those of them without a reply
Asked == UNION {{c} \X (1..conn[c].asked) : c \in Used}
Waiting == {r \in Asked : r[2] > conn[r[1]].taken}

\* A part of the benchmark sends R requests and returns with the replies of
\* P - 1 of them still to come; the next part starts on the same connections.
\* Each part leaves that many more behind: the time of a part is measured with
\* the replies of the one before.
BenchLag ==
    LET sent == bench.num_sent + (IF pc = "start" THEN 0 ELSE 1)
        lag == IF pc = "start" THEN bench.num_sent ELSE bench.P
    IN  (main = "bench" /\ etdb_quit = 0 /\ wild = {} /\ pc # "end") =>
          /\ Cardinality(Asked) = (bench.phase - 1) * bench.R + sent
          /\ Cardinality(Waiting) = (bench.phase - 1) * (bench.P - 1) + lag

\* A connection is freed when it is closed.  The loops touch no freed one: a
\* batch of events and the ready list never name it.  Only the next part of a
\* benchmark does, after the loop ended early, and the table of the requests is
\* read behind its end only with more connections than requests.
WildUse ==
    /\ \A c \in Used : conn[c].sock = "closed" => conn[c].events = {} /\ c \notin ready
    /\ "freed" \in wild => main = "bench" /\ bench.phase >= 2 /\ etdb_quit = 1
    /\ "bounds" \in wild => bench.P > bench.R

\* The client gives up only for a cause: a link that was reset, a response
\* longer than the largest packet, or, from the second part of a benchmark on,
\* OUT still set for a request that went out whole with the one behind it.
QuitCause ==
    [][etdb_quit = 0 /\ etdb_quit' = 1 =>
         \/ \E c \in Used : conn[c].sock = "reset"
         \/ \E c \in ready : peer[c].answers # << >> /\ TooLong(c)
         \/ main = "bench" /\ bench.phase >= 2
            /\ \E c \in Used : conn[c].armed /\ conn[c].out = 0 /\ conn[c].asked > 1]_vars

\* Nothing waits for ever: a call returns, a typed line comes back to the
\* prompt, a part of the benchmark gives way to the next, or the program ends.
ClientProgress ==
    /\ (pc \in {"flush", "recv"}) ~> (pc \in {"idle", "end"})
    /\ (main = "cli" /\ pc # "prompt") ~> (pc \in {"prompt", "end"})
    /\ \A k \in 1..Phases : (main = "bench" /\ bench.phase = k) ~> (bench.phase # k \/ pc = "end")
=============================================================================
