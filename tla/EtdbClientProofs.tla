--------------------------- MODULE EtdbClientProofs ---------------------------
(***************************************************************************)
(* Proofs about EtdbClient, for any number of connections, requests,       *)
(* phases, lines and calls, and any lengths of requests and responses.     *)
(***************************************************************************)
EXTENDS EtdbClient, FiniteSetTheorems, WellFoundedInduction, TLAPS

(* The inductive invariant *)

\* What may be asked and answered
Asks == {LibRequest(f) : f \in LibFunctions} \cup {Words(line) : line \in Lines}
        \cup {BenchRequests[k] : k \in 1..Phases}
Texts == {"+OK", "+FAIL", "Unkown Command", "number", "data", "as before"}
AnswerType == [recs : Seq(Texts), num : Nat]
Replies == [to : Nat, answer : AnswerType]
Connections ==
    [sock : {"up", "reset", "closed"}, asked : Nat, out : Nat, recvd : Nat, taken : Nat,
     armed : BOOLEAN, events : SUBSET {"IN", "OUT", "ERR"}]
Peers == [todo : Seq(Asks), served : Nat, answers : Seq(Replies), wire : Nat, slot : Nat]

\* Every variable has its type, and a program is at a place of its own
TypeOK ==
    /\ main \in {"lib", "cli", "bench"}
    /\ pc \in CASE main = "lib" -> {"idle", "flush", "recv", "end"}
                [] main = "cli" -> {"prompt", "wait", "events", "ready", "end"}
                [] main = "bench" -> {"start", "wait", "events", "ready", "end"}
    /\ etdb_quit \in {0, 1}
    /\ conn \in [Conn -> Connections] /\ peer \in [Conn -> Peers]
    /\ ready \in SUBSET Used
    /\ calls \in [DOMAIN Commands -> Nat]
    /\ typed \in Seq(Lines) /\ responsed \in {0, 1}
    /\ bench \in [P : Conn, R : RequestNums \cup {1}, phase : 1..Phases, num_sent : Nat]
    /\ trouble \in BOOLEAN
    /\ wild \in SUBSET {"freed", "bounds"}

\* Requests and replies are counted alike at both ends: a reply that is read
\* whole, but for its last newline, is there to be taken
ReqUnits(n) == ReqLen * n
RespUnits(n) == RespLen * n
Counted(k, p) == p.served = k.taken + Len(p.answers) /\ k.asked = p.served + Len(p.todo)
Numbered(k, p) == \A i \in 1..Len(p.answers) : p.answers[i].to = k.taken + i
Arrived(k, p) == k.recvd + p.wire <= RespUnits(p.served) /\ Consumed(k.taken) <= k.recvd
Unsent(k, p) == k.out <= ReqUnits(Len(p.todo))
FlowOf(k, p) == Counted(k, p) /\ Numbered(k, p) /\ Arrived(k, p) /\ Unsent(k, p)
Flow(c) == FlowOf(conn[c], peer[c])

\* An event of the batch is about an open connection that is not ready yet, and
\* what it says still holds
Batch(c) ==
    /\ conn[c].events # {} =>
         /\ main # "lib" /\ pc \in {"events", "end"}
         /\ c \in Used /\ c \notin ready /\ conn[c].sock # "closed"
         /\ "OUT" \in conn[c].events => conn[c].armed
         /\ "ERR" \in conn[c].events => conn[c].sock = "reset"
    /\ c \in ready => conn[c].sock # "closed" /\ pc \in {"events", "ready", "end"}

\* In the first part of a benchmark, and for a user, one request at a time is
\* without a reply
FirstPart == main = "cli" \/ (main = "bench" /\ bench.phase = 1)
OneEach(c) ==
    /\ FirstPart => conn[c].asked <= conn[c].taken + 1
    /\ main = "bench" /\ bench.phase = 1 /\ pc = "start" /\ c > bench.num_sent =>
         conn[c].asked = 0

\* OUT is set for nothing only behind a request that went out with another, and
\* never by the library
OutSet(c) ==
    /\ conn[c].armed /\ conn[c].out = 0 => main = "bench" /\ bench.phase >= 2 /\ conn[c].asked > 1
    /\ conn[c].armed => main # "lib"

\* A closed connection ends the loop
Quits ==
    /\ \A c \in Conn : conn[c].sock = "closed" => etdb_quit = 1
    /\ etdb_quit = 1 => main # "lib" /\ pc # "prompt"
    /\ etdb_quit = 1 /\ pc = "start" => bench.phase >= 2
    /\ "freed" \in wild => main = "bench" /\ bench.phase >= 2 /\ etdb_quit = 1
    /\ "bounds" \in wild => bench.P > bench.R

\* The library is in step with the server, or a reply is too long for it and
\* blocks those behind it; a link that was reset leads nowhere
Stuck == peer[1].answers # << >> /\ TooLong(1) /\ MayParse(1)
Statuses == {"+OK", "+FAIL"}
Returns ==
    {Nothing} \cup [fn : LibFunctions]
    \cup [fn : LibFunctions, to : Nat, status : Statuses, value : Texts]
Talk ==
    /\ \A i \in 1..Len(peer[1].todo) : peer[1].todo[i] \in {LibRequest(f) : f \in LibFunctions}
    /\ \A i \in 1..Len(peer[1].answers) : peer[1].answers[i].answer.recs[1] \in Statuses
Given ==
    /\ ret \in Returns
    /\ pc \in {"flush", "recv"} => ret \in [fn : LibFunctions]
InTime ==
    /\ "to" \in DOMAIN ret => ret.to = conn[1].asked
    /\ pc = "idle" /\ conn[1].sock = "up" => conn[1].asked = conn[1].taken \/ Stuck
    /\ pc = "flush" /\ conn[1].sock = "up" => conn[1].asked = conn[1].taken + 1 \/ Stuck
    /\ pc = "recv" => conn[1].asked = conn[1].taken + 1 \/ Stuck
LibInv == main = "lib" => Talk /\ Given /\ (~trouble => InTime)

\* What the server has served of the lines is what their text asks for
Good(lines) == \A i \in DOMAIN lines : WithinLimits(lines[i])
TextOf(lines, slot, counts) ==
    /\ slot + 1 = TextSlot(lines)
    /\ \A name \in DOMAIN Commands : counts[name] = TextCount(lines, name)
CliInv ==
    main = "cli" =>
        /\ bench.P = 1 /\ \A c \in Conn : c # 1 => conn[c].asked = 0
        /\ pc # "end" =>
             /\ conn[1].asked = Len(typed) /\ conn[1].taken + 1 = Len(typed) + responsed
             /\ pc = "prompt" => responsed = 1
             /\ \A i \in 1..Len(peer[1].todo) : peer[1].todo[i] = Words(typed[peer[1].served + i])
             /\ Good(typed) =>
                  /\ TextOf(SubSeq(typed, 1, peer[1].served), peer[1].slot, calls)
                  /\ peer[1].answers # << >> => Fits(Display(peer[1].answers[1].answer), typed)
        /\ shown # Nothing /\ Good(typed) => Fits(shown, typed)

\* The requests of the connections in U, which k describes
AskedIn(U, k) == UNION {{c} \X (1..k[c].asked) : c \in U}
WaitingIn(U, k) == {r \in AskedIn(U, k) : r[2] > k[r[1]].taken}

\* The index of the last request sent
Running == main = "bench" /\ etdb_quit = 0 /\ wild = {} /\ pc # "end"
Index ==
    /\ pc = "start" => bench.num_sent <= bench.P /\ bench.num_sent <= bench.R
    /\ pc \in {"wait", "events", "ready"} => bench.num_sent + 1 <= bench.R
BenchInv ==
    /\ main = "bench" => Index
    /\ Running => IsFiniteSet(Asked)
    /\ BenchLag

\* What holds of the connections, whatever the program
Links ==
    /\ TypeOK
    /\ \A c \in Conn : Flow(c)
    /\ \A c \in Conn : Batch(c) /\ OneEach(c) /\ OutSet(c)
    /\ Quits

Inv == Links /\ LibInv /\ CliInv /\ BenchInv

-----------------------------------------------------------------------------
(* The table of the commands *)

\* A table in which no other has the name
LEMMA InTable ==
    ASSUME NEW ts, NEW i \in DOMAIN ts, NEW n \in DOMAIN ts[i],
           \A j \in DOMAIN ts : n \in DOMAIN ts[j] => j = i
    PROVE  n \in DOMAIN Tables(ts) /\ Tables(ts)[n] = ts[i][n]
BY DEF Tables

LEMMA SysTable ==
    /\ {"use", "where", "perf"} \subseteq DOMAIN Commands
    /\ {"use", "where", "perf"} \subseteq DOMAIN SysCommands
    /\ Commands["use"] = Takes({1}) /\ Commands["where"] = Takes({0})
    /\ Commands["perf"] = Takes({1})
<1> DEFINE ts == <<KvCommands, HashCommands, SetCommands, ListCommands, SpatialCommands,
                   SysCommands>>
<1>1. DOMAIN ts = 1..6 /\ ts[6] = SysCommands
  OBVIOUS
<1>2. \A n \in {"use", "where", "perf"} :
        n \in DOMAIN SysCommands /\ \A j \in 1..6 : n \in DOMAIN ts[j] => j = 6
  BY DEF KvCommands, HashCommands, SetCommands, ListCommands, SpatialCommands, SysCommands
<1> HIDE DEF ts
<1>3. \A n \in {"use", "where", "perf"} : n \in DOMAIN Tables(ts) /\ Tables(ts)[n] = SysCommands[n]
  BY SMTT(30), <1>1, <1>2, InTable
<1>4. Commands = Tables(ts)
  BY DEF Commands, ts
<1> QED BY <1>2, <1>3, <1>4 DEF SysCommands

\* The lines of the tables, by module
LEMMA DataTable ==
    /\ \A n \in DOMAIN KvCommands : n \in DOMAIN Commands /\ Commands[n] = KvCommands[n]
    /\ \A n \in DOMAIN HashCommands : n \in DOMAIN Commands /\ Commands[n] = HashCommands[n]
    /\ \A n \in DOMAIN SetCommands : n \in DOMAIN Commands /\ Commands[n] = SetCommands[n]
    /\ \A n \in DOMAIN ListCommands : n \in DOMAIN Commands /\ Commands[n] = ListCommands[n]
    /\ \A n \in DOMAIN SpatialCommands : n \in DOMAIN Commands /\ Commands[n] = SpatialCommands[n]
<1> DEFINE ts == <<KvCommands, HashCommands, SetCommands, ListCommands, SpatialCommands,
                   SysCommands>>
<1>1. /\ DOMAIN ts = 1..6
      /\ ts[1] = KvCommands /\ ts[2] = HashCommands /\ ts[3] = SetCommands
      /\ ts[4] = ListCommands /\ ts[5] = SpatialCommands
  OBVIOUS
<1>2. \A i, j \in 1..6 : \A n \in DOMAIN ts[i] : n \in DOMAIN ts[j] => j = i
  BY DEF KvCommands, HashCommands, SetCommands, ListCommands, SpatialCommands, SysCommands
<1>3. Commands = Tables(ts)
  BY DEF Commands
<1> HIDE DEF ts
<1>4. \A i \in 1..6 : \A n \in DOMAIN ts[i] : n \in DOMAIN Commands /\ Commands[n] = ts[i][n]
  BY <1>1, <1>2, <1>3, InTable
<1> QED BY <1>1, <1>4

LEMMA CallTable ==
    /\ DOMAIN LibCalls = DOMAIN KvCalls \cup DOMAIN HashCalls \cup DOMAIN SetCalls
                         \cup DOMAIN ListCalls \cup DOMAIN SpatialCalls
    /\ \A n \in DOMAIN KvCalls : LibCalls[n] = KvCalls[n]
    /\ \A n \in DOMAIN HashCalls : LibCalls[n] = HashCalls[n]
    /\ \A n \in DOMAIN SetCalls : LibCalls[n] = SetCalls[n]
    /\ \A n \in DOMAIN ListCalls : LibCalls[n] = ListCalls[n]
    /\ \A n \in DOMAIN SpatialCalls : LibCalls[n] = SpatialCalls[n]
<1> DEFINE ts == <<KvCalls, HashCalls, SetCalls, ListCalls, SpatialCalls>>
<1>1. /\ DOMAIN ts = 1..5
      /\ ts[1] = KvCalls /\ ts[2] = HashCalls /\ ts[3] = SetCalls
      /\ ts[4] = ListCalls /\ ts[5] = SpatialCalls
  OBVIOUS
<1>2. \A i, j \in 1..5 : \A n \in DOMAIN ts[i] : n \in DOMAIN ts[j] => j = i
  BY DEF KvCalls, HashCalls, SetCalls, ListCalls, SpatialCalls
<1>3. LibCalls = Tables(ts)
  BY DEF LibCalls
<1> HIDE DEF ts
<1>4. \A i \in 1..5 : \A n \in DOMAIN ts[i] : LibCalls[n] = ts[i][n]
  BY <1>1, <1>2, <1>3, InTable
<1>5. DOMAIN LibCalls = UNION {DOMAIN ts[i] : i \in 1..5}
  BY <1>1, <1>3 DEF Tables
<1> QED BY <1>1, <1>4, <1>5

\* Every function of the library sends a command of the table that is no
\* system command, with a number of arguments the table allows
LEMMA LibCommands ==
    ASSUME NEW f \in DOMAIN LibCalls
    PROVE  LET c == LibCalls[f]
           IN  /\ c.cmd \in DOMAIN Commands \ DOMAIN SysCommands
               /\ c.args \in 1..4 /\ ParseArgs(Commands[c.cmd], c.args)
<1>1. CASE f \in DOMAIN KvCalls
  <2>1. LibCalls[f] = KvCalls[f]
    BY <1>1, CallTable
  <2>2. LET c == KvCalls[f]
        IN  /\ c.cmd \in DOMAIN KvCommands /\ c.cmd \notin DOMAIN SysCommands
            /\ c.args \in 1..4 /\ ParseArgs(KvCommands[c.cmd], c.args)
    BY <1>1 DEF KvCalls, KvCommands, SysCommands, Fn, Takes, TakesMore, ParseArgs
  <2> QED BY <2>1, <2>2, DataTable
<1>2. CASE f \in DOMAIN HashCalls
  <2>1. LibCalls[f] = HashCalls[f]
    BY <1>2, CallTable
  <2>2. LET c == HashCalls[f]
        IN  /\ c.cmd \in DOMAIN HashCommands /\ c.cmd \notin DOMAIN SysCommands
            /\ c.args \in 1..4 /\ ParseArgs(HashCommands[c.cmd], c.args)
    BY <1>2 DEF HashCalls, HashCommands, SysCommands, Fn, Takes, TakesMore, ParseArgs
  <2> QED BY <2>1, <2>2, DataTable
<1>3. CASE f \in DOMAIN SetCalls
  <2>1. LibCalls[f] = SetCalls[f]
    BY <1>3, CallTable
  <2>2. LET c == SetCalls[f]
        IN  /\ c.cmd \in DOMAIN SetCommands /\ c.cmd \notin DOMAIN SysCommands
            /\ c.args \in 1..4 /\ ParseArgs(SetCommands[c.cmd], c.args)
    BY <1>3 DEF SetCalls, SetCommands, SysCommands, Fn, Takes, TakesMore, ParseArgs
  <2> QED BY <2>1, <2>2, DataTable
<1>4. CASE f \in DOMAIN ListCalls
  <2>1. LibCalls[f] = ListCalls[f]
    BY <1>4, CallTable
  <2>2. LET c == ListCalls[f]
        IN  /\ c.cmd \in DOMAIN ListCommands /\ c.cmd \notin DOMAIN SysCommands
            /\ c.args \in 1..4 /\ ParseArgs(ListCommands[c.cmd], c.args)
    BY <1>4 DEF ListCalls, ListCommands, SysCommands, Fn, Takes, TakesMore, ParseArgs
  <2> QED BY <2>1, <2>2, DataTable
<1>5. CASE f \in DOMAIN SpatialCalls
  <2>1. LibCalls[f] = SpatialCalls[f]
    BY <1>5, CallTable
  <2>2. LET c == SpatialCalls[f]
        IN  /\ c.cmd \in DOMAIN SpatialCommands /\ c.cmd \notin DOMAIN SysCommands
            /\ c.args \in 1..4 /\ ParseArgs(SpatialCommands[c.cmd], c.args)
    BY <1>5 DEF SpatialCalls, SpatialCommands, SysCommands, Fn, Takes, TakesMore, ParseArgs
  <2> QED BY <2>1, <2>2, DataTable
<1> QED BY <1>1, <1>2, <1>3, <1>4, <1>5, CallTable

\* A function on 1..n is a sequence
LEMMA SeqMade ==
    ASSUME NEW S, NEW n \in Nat, NEW d \in [1..n -> S]
    PROVE  d \in Seq(S) /\ Len(d) = n
OBVIOUS

\* The answers that are not about the system, by their records
LEMMA DataIs ==
    ASSUME NEW n \in Nat
    PROVE  /\ Data(n).recs \in Seq(Texts) /\ Data(n).num = 0
           /\ Len(Data(n).recs) = n + 1 /\ Data(n).recs[1] = "+OK"
           /\ n > 0 => Data(n).recs[2] = "data"
<1> DEFINE d == [i \in 1..n |-> "data"]
<1>1. d \in [1..n -> Texts] /\ (n > 0 => d[1] = "data")
  BY DEF Texts
<1>2. Data(n) = [recs |-> <<"+OK">> \o d, num |-> 0]
  BY DEF Data, Answer
<1> HIDE DEF d
<1>3. d \in Seq(Texts) /\ Len(d) = n
  BY <1>1, SeqMade
<1>4. "+OK" \in Texts
  BY DEF Texts
<1> HIDE DEF Texts
<1>5. <<"+OK">> \in Seq(Texts)
  BY <1>4
<1> QED BY <1>1, <1>2, <1>3, <1>5

\* Every answer of a data command is one of these
LEMMA DataAnswersAre ==
    ASSUME NEW name, NEW a \in DataAnswers(name)
    PROVE  a \in {OK, FAIL, Data(0), Data(1), Data(2)}
BY DEF DataAnswers

\* An answer of one or two texts
LEMMA AnswerOf ==
    ASSUME NEW s \in Texts, NEW t \in Texts, NEW n \in Nat
    PROVE  /\ Answer(<<s>>, n) \in AnswerType /\ Answer(<<s>>, n).recs[1] = s
           /\ Answer(<<s, t>>, n) \in AnswerType /\ Answer(<<s, t>>, n).recs[1] = s
<1> HIDE DEF Texts
<1>1. <<s>> \in Seq(Texts) /\ <<s, t>> \in Seq(Texts)
  OBVIOUS
<1> QED BY <1>1 DEF Answer, AnswerType

LEMMA PlainAnswers ==
    ASSUME NEW a \in {OK, FAIL, Data(0), Data(1), Data(2)}
    PROVE  a \in AnswerType /\ a.recs[1] \in Statuses
<1>1. {"+OK", "+FAIL"} \subseteq Texts
  BY DEF Texts
<1>2. CASE a = OK
  BY <1>1, <1>2, AnswerOf DEF OK, Statuses
<1>3. CASE a = FAIL
  BY <1>1, <1>3, AnswerOf DEF FAIL, Statuses
<1>4. ASSUME NEW n \in 0..2, a = Data(n) PROVE a \in AnswerType /\ a.recs[1] \in Statuses
  <2>1. /\ Data(n).recs \in Seq(Texts) /\ Data(n).recs[1] = "+OK"
    BY DataIs
  <2>2. Data(n) = [recs |-> Data(n).recs, num |-> 0]
    BY DEF Data, Answer
  <2>3. Data(n) \in AnswerType
    BY <2>1, <2>2 DEF AnswerType
  <2> QED BY <1>4, <2>1, <2>3 DEF Statuses
<1> QED BY <1>2, <1>3, <1>4

\* Every system command answers with a status
LEMMA SysAnswersAre ==
    ASSUME NEW words, words[1] \in DOMAIN SysCommands, NEW slot \in Nat,
           NEW counts \in [DOMAIN Commands -> Nat], NEW a \in SysAnswers(words, slot, counts)
    PROVE  a \in AnswerType /\ a.recs[1] \in Statuses
<1>1. CASE words[1] = "where"
  <2>1. PICK s \in Statuses : a = Answer(<<s, "number">>, slot + 1)
    BY <1>1 DEF SysAnswers, Statuses
  <2>2. s \in Texts /\ "number" \in Texts
    BY DEF Texts, Statuses
  <2>3. slot + 1 \in Nat
    OBVIOUS
  <2> QED BY <2>1, <2>2, <2>3, AnswerOf
<1>2. CASE words[1] = "perf" /\ Known(words[2])
  <2>1. a = Answer(<<"+OK", "number">>, counts[words[2]])
    BY <1>2 DEF SysAnswers
  <2>2. counts[words[2]] \in Nat
    BY <1>2 DEF Known
  <2> QED BY <2>1, <2>2 DEF Answer, AnswerType, Statuses, Texts
<1>3. CASE words[1] # "where" /\ ~(words[1] = "perf" /\ Known(words[2]))
  <2>1. a \in {OK, FAIL, Data(0), Data(1), Data(2)}
    BY <1>3 DEF SysAnswers, SysCommands
  <2> QED BY <2>1, PlainAnswers
<1> QED BY <1>1, <1>2, <1>3

LEMMA AnswersAre ==
    ASSUME NEW r, NEW slot \in Nat, NEW counts \in [DOMAIN Commands -> Nat],
           NEW a \in Answers(r, slot, counts)
    PROVE  /\ a \in AnswerType
           /\ Accepted(ToLower(r)) => a.recs[1] \in Statuses
           /\ ~Accepted(ToLower(r)) => a = Unknown
<1>1. CASE ~Accepted(ToLower(r))
  <2>1. a = Answer(<<"Unkown Command">>, 0) /\ "Unkown Command" \in Texts
    BY <1>1 DEF Answers, Unknown, Texts
  <2> QED BY <1>1, <2>1, AnswerOf DEF Unknown
<1>2. CASE Accepted(ToLower(r))
  BY <1>2, SysAnswersAre, DataAnswersAre, PlainAnswers DEF Answers
<1> QED BY <1>1, <1>2

\* etdb_atoi
LEMMA AtoiIs ==
    ASSUME NEW w, IsNumber(w)
    PROVE  /\ Decimal[w] \in Nat /\ Atoi(w) \in Int
           /\ Decimal[w] < IntMod \div 2 => Atoi(w) = Decimal[w]
<1>1. Decimal[w] \in Nat /\ IntMod \in Nat /\ IntMod > 0 /\ IntMod % 2 = 0
  BY DispatchAssumption DEF IsNumber
<1> DEFINE h == IntMod \div 2
<1>2. h \in Nat /\ IntMod = 2 * h
  BY <1>1
<1>3. \A x \in Nat : x % IntMod \in Int
  BY <1>1
<1>4. \A x \in Nat : x < IntMod => x % IntMod = x
  BY <1>1
<1>5. Atoi(w) = ((Decimal[w] + h) % IntMod) - h
  BY DEF Atoi, Wrap
<1> HIDE DEF h
<1>6. Decimal[w] + h \in Nat /\ (Decimal[w] < h => Decimal[w] + h < IntMod)
  BY <1>1, <1>2
<1>7. (Decimal[w] + h) % IntMod \in Int
  BY <1>3, <1>6
<1>8. Atoi(w) \in Int
  BY <1>2, <1>5, <1>7
<1>9. Decimal[w] < h => Atoi(w) = Decimal[w]
  BY <1>1, <1>2, <1>4, <1>5, <1>6
<1> QED BY <1>1, <1>8, <1>9 DEF h

LEMMA ServedTypes ==
    ASSUME NEW r, NEW slot \in Nat, NEW counts \in [DOMAIN Commands -> Nat]
    PROVE  SlotAfter(r, slot) \in Nat /\ CallsAfter(r, counts) \in [DOMAIN Commands -> Nat]
<1>1. SlotAfter(r, slot) \in Nat
  BY AtoiIs DEF SlotAfter, UseOk
<1>2. CallsAfter(r, counts) \in [DOMAIN Commands -> Nat]
  BY DEF CallsAfter, Accepted, Known
<1> QED BY <1>1, <1>2

\* A request of the library is never refused
LEMMA LibAccepted ==
    ASSUME NEW f \in LibFunctions
    PROVE  Accepted(ToLower(LibRequest(f)))
<1> DEFINE c == LibCalls[f]
           x == [i \in 1..c.args |-> "x"]
<1>1. f \in DOMAIN LibCalls
  BY ClientAssumption
<1>2. c.cmd \in DOMAIN Commands /\ c.args \in 1..4 /\ ParseArgs(Commands[c.cmd], c.args)
  BY <1>1, LibCommands
<1> HIDE DEF c
<1> DEFINE S == DOMAIN Commands \cup {"x"}
<1>3. x \in Seq(S) /\ Len(x) = c.args /\ <<c.cmd>> \in Seq(S)
  BY <1>2, SeqMade
<1>4. LibRequest(f) = <<c.cmd>> \o x
  BY DEF LibRequest, c
<1> HIDE DEF x, S
<1>5. LibRequest(f)[1] = c.cmd /\ Len(LibRequest(f)) = c.args + 1
  BY <1>2, <1>3, <1>4
<1>6. ToLower(LibRequest(f)) = LibRequest(f)
  BY <1>2, <1>5, LowerAssumption DEF ToLower
<1>7. (c.args + 1) - 1 = c.args
  BY <1>2
<1> QED BY <1>2, <1>5, <1>6, <1>7 DEF Accepted, Known

-----------------------------------------------------------------------------
(* Requests and replies of one connection, counted in units *)

\* Multiplication by a length
LEMMA Product ==
    ASSUME NEW k \in Nat, NEW a \in Nat, NEW b \in Nat
    PROVE  /\ k * a \in Nat /\ k * (a + 1) = k * a + k
           /\ a <= b => k * a <= k * b
<1>1. k * a \in Nat /\ k * (a + 1) = k * a + k
  OBVIOUS
<1>2. ASSUME a <= b PROVE k * a <= k * b
  <2>1. PICK d \in Nat : b = a + d
    BY <1>2
  <2>2. k * b = k * a + k * d /\ k * d \in Nat
    BY <2>1
  <2> QED BY <1>1, <2>2
<1> QED BY <1>1, <1>2

LEMMA Lengths ==
    /\ ReqLen \in Nat /\ ReqLen > 0 /\ RespLen \in Nat /\ RespLen >= 2
    /\ \A n \in Nat : /\ RespUnits(n) \in Nat /\ RespUnits(n + 1) = RespUnits(n) + RespLen
                      /\ ReqUnits(n) \in Nat /\ ReqUnits(n + 1) = ReqUnits(n) + ReqLen
                      /\ Consumed(n) \in Nat /\ Consumed(n) <= RespUnits(n)
                      /\ Consumed(n + 1) = RespUnits(n + 1) - 1
    /\ \A m, n \in Nat : m <= n => RespUnits(m) <= RespUnits(n) /\ ReqUnits(m) <= ReqUnits(n)
    /\ \A m, n \in Nat : ReqUnits(m + n) = ReqUnits(m) + ReqUnits(n)
<1>1. ReqLen \in Nat /\ ReqLen > 0 /\ RespLen \in Nat /\ RespLen >= 2
  BY ClientAssumption
<1>2. \A n \in Nat : /\ RespUnits(n) \in Nat /\ RespUnits(n + 1) = RespUnits(n) + RespLen
                     /\ ReqUnits(n) \in Nat /\ ReqUnits(n + 1) = ReqUnits(n) + ReqLen
  BY <1>1, Product DEF RespUnits, ReqUnits
<1>3. \A m, n \in Nat : m <= n => RespUnits(m) <= RespUnits(n) /\ ReqUnits(m) <= ReqUnits(n)
  BY <1>1, Product DEF RespUnits, ReqUnits
<1>4. ASSUME NEW n \in Nat
      PROVE  /\ Consumed(n) \in Nat /\ Consumed(n) <= RespUnits(n)
             /\ Consumed(n + 1) = RespUnits(n + 1) - 1
  <2>1. Consumed(n + 1) = RespUnits(n + 1) - 1
    BY DEF Consumed, RespUnits
  <2>2. CASE n = 0
    BY <1>1, <1>2, <2>2, <2>1 DEF Consumed
  <2>3. CASE n # 0
    <3>1. n - 1 \in Nat /\ (n - 1) + 1 = n
      BY <2>3
    <3>2. RespUnits(n) = RespUnits(n - 1) + RespLen /\ RespUnits(n - 1) \in Nat
      BY <1>2, <3>1
    <3>3. Consumed(n) = RespUnits(n) - 1
      BY <2>3 DEF Consumed, RespUnits
    <3> QED BY <1>1, <2>1, <3>2, <3>3
  <2> QED BY <2>2, <2>3
<1>5. \A m, n \in Nat : ReqUnits(m + n) = ReqUnits(m) + ReqUnits(n)
  BY <1>1 DEF ReqUnits
<1> QED BY <1>1, <1>2, <1>3, <1>4, <1>5

\* What the lemmas below need of the types
Typed(k, p) ==
    /\ k.asked \in Nat /\ k.out \in Nat /\ k.recvd \in Nat /\ k.taken \in Nat
    /\ p.todo \in Seq(Asks) /\ Len(p.todo) \in Nat
    /\ p.answers \in Seq(Replies) /\ Len(p.answers) \in Nat
    /\ p.served \in Nat /\ p.wire \in Nat

LEMMA Fields ==
    ASSUME NEW k \in Connections, NEW p \in Peers
    PROVE  Typed(k, p)
<1>1. /\ k.asked \in Nat /\ k.out \in Nat /\ k.recvd \in Nat /\ k.taken \in Nat
      /\ p.todo \in Seq(Asks) /\ p.answers \in Seq(Replies)
      /\ p.served \in Nat /\ p.wire \in Nat
  BY DEF Connections, Peers
<1>2. Len(p.todo) \in Nat /\ Len(p.answers) \in Nat
  BY <1>1
<1> QED BY <1>1, <1>2 DEF Typed

\* A request is put behind the others
LEMMA FlowAsk ==
    ASSUME NEW k \in Connections, NEW k2 \in Connections, NEW p \in Peers, NEW p2 \in Peers,
           FlowOf(k, p), NEW r,
           k2.asked = k.asked + 1 /\ k2.out <= k.out + ReqLen
             /\ k2.recvd = k.recvd /\ k2.taken = k.taken,
           p2.todo = Append(p.todo, r) /\ p2.served = p.served
             /\ p2.answers = p.answers /\ p2.wire = p.wire
    PROVE  FlowOf(k2, p2)
<1>1. Typed(k, p) /\ Typed(k2, p2)
  BY Fields
<1>2. Len(p2.todo) = Len(p.todo) + 1
  BY <1>1 DEF Typed
<1>3. Counted(k2, p2)
  BY <1>1, <1>2 DEF FlowOf, Counted, Typed
<1>4. Numbered(k2, p2) /\ Arrived(k2, p2)
  BY DEF FlowOf, Numbered, Arrived
<1>5. Unsent(k2, p2)
  <2> DEFINE n == Len(p.todo)
  <2>1. k.out \in Nat /\ k2.out \in Nat /\ n \in Nat
    BY <1>1 DEF Typed
  <2>2. k.out <= ReqUnits(n)
    BY DEF FlowOf, Unsent
  <2>3. ReqUnits(n + 1) = ReqUnits(n) + ReqLen /\ ReqLen \in Nat /\ ReqUnits(n) \in Nat
    BY <2>1, Lengths
  <2> HIDE DEF n
  <2>4. k2.out <= ReqUnits(n + 1)
    BY <2>1, <2>2, <2>3
  <2> QED BY <1>2, <2>4 DEF Unsent, n
<1> QED BY <1>3, <1>4, <1>5 DEF FlowOf

\* A reply that is read whole, but for its last newline, is there
LEMMA Parsed ==
    ASSUME NEW k \in Connections, NEW p \in Peers, FlowOf(k, p),
           k.recvd >= Consumed(k.taken + 1)
    PROVE  /\ Len(p.answers) > 0 /\ p.answers # << >>
           /\ Head(p.answers) = p.answers[1] /\ p.answers[1].to = k.taken + 1
           /\ k.taken < p.served /\ k.taken < k.asked
<1>1. Typed(k, p)
  BY Fields
<1>2. k.taken \in Nat /\ p.served \in Nat /\ k.recvd \in Nat /\ p.wire \in Nat
  BY <1>1 DEF Typed
<1>3. p.served > k.taken
  <2> DEFINE t == k.taken
             s == p.served
  <2>1. /\ Consumed(t + 1) = RespUnits(t + 1) - 1
        /\ RespUnits(t + 1) = RespUnits(t) + RespLen
        /\ RespLen \in Nat /\ RespLen >= 2 /\ RespUnits(t) \in Nat /\ RespUnits(s) \in Nat
        /\ s <= t => RespUnits(s) <= RespUnits(t)
    BY <1>2, Lengths
  <2>2. k.recvd + p.wire <= RespUnits(s)
    BY DEF FlowOf, Arrived
  <2>3. k.recvd >= Consumed(t + 1) /\ t \in Nat /\ s \in Nat
    BY <1>2
  <2> HIDE DEF t, s
  <2>4. ~(s <= t)
    BY <1>2, <2>1, <2>2, <2>3
  <2>5. s > t
    BY <2>3, <2>4
  <2> QED BY <2>5 DEF s, t
<1>4. Len(p.answers) > 0 /\ k.taken < k.asked
  BY SMTT(30), <1>1, <1>3 DEF FlowOf, Counted, Typed
<1>5. p.answers[1].to = k.taken + 1
  BY <1>1, <1>4 DEF FlowOf, Numbered, Typed
<1>6. p.answers # << >> /\ Head(p.answers) = p.answers[1]
  BY <1>1, <1>4 DEF Typed
<1> QED BY <1>3, <1>4, <1>5, <1>6

\* A reply is taken
LEMMA FlowTake ==
    ASSUME NEW k \in Connections, NEW k2 \in Connections, NEW p \in Peers, NEW p2 \in Peers,
           FlowOf(k, p), k.recvd >= Consumed(k.taken + 1),
           k2.asked = k.asked /\ k2.out = k.out /\ k2.recvd = k.recvd /\ k2.taken = k.taken + 1,
           p2.todo = p.todo /\ p2.served = p.served /\ p2.answers = Tail(p.answers)
             /\ p2.wire = p.wire
    PROVE  FlowOf(k2, p2)
<1>1. Typed(k, p) /\ Typed(k2, p2) /\ Len(p.answers) > 0
  BY Fields, Parsed
<1>2. Len(p2.answers) = Len(p.answers) - 1
      /\ \A i \in 1..Len(p2.answers) : p2.answers[i] = p.answers[i + 1] /\ i + 1 \in 1..Len(p.answers)
  BY <1>1 DEF Typed
<1>3. Counted(k2, p2)
  BY <1>1, <1>2 DEF FlowOf, Counted, Typed
<1>4. Numbered(k2, p2)
  <2> SUFFICES ASSUME NEW i \in 1..Len(p2.answers) PROVE p2.answers[i].to = k2.taken + i
    BY DEF Numbered
  <2>1. p2.answers[i] = p.answers[i + 1] /\ i + 1 \in 1..Len(p.answers) /\ i \in Nat
    BY <1>1, <1>2 DEF Typed
  <2>2. p.answers[i + 1].to = k.taken + (i + 1)
    BY <2>1 DEF FlowOf, Numbered
  <2>3. k.taken \in Nat /\ i \in Nat
    BY <1>1, <1>2 DEF Typed
  <2>4. (k.taken + 1) + i = k.taken + (i + 1)
    BY <2>3
  <2> QED BY <2>1, <2>2, <2>4
<1>5. Arrived(k2, p2) /\ Unsent(k2, p2)
  BY DEF FlowOf, Arrived, Unsent
<1> QED BY <1>3, <1>4, <1>5 DEF FlowOf

\* A request that went out whole is answered
LEMMA FlowServe ==
    ASSUME NEW k \in Connections, NEW p \in Peers, NEW p2 \in Peers, FlowOf(k, p),
           NEW a, Len(p.todo) > 0, k.out <= ReqUnits(Len(p.todo) - 1),
           p2.todo = Tail(p.todo) /\ p2.served = p.served + 1
             /\ p2.answers = Append(p.answers, [to |-> p.served + 1, answer |-> a])
             /\ p2.wire = p.wire + RespLen
    PROVE  FlowOf(k, p2)
<1>1. Typed(k, p) /\ Typed(k, p2)
  BY Fields
<1>2. Len(p2.todo) = Len(p.todo) - 1 /\ Len(p2.answers) = Len(p.answers) + 1
  BY <1>1 DEF Typed
<1>3. Counted(k, p2)
  <2> DEFINE m == Len(p.todo)
             n == Len(p.answers)
             s == p.served
  <2>1. m \in Nat /\ n \in Nat /\ s \in Nat /\ k.taken \in Nat
    BY <1>1 DEF Typed
  <2>2. s = k.taken + n /\ k.asked = s + m
    BY DEF FlowOf, Counted
  <2> HIDE DEF m, n, s
  <2>3. s + 1 = k.taken + (n + 1) /\ k.asked = (s + 1) + (m - 1)
    BY <2>1, <2>2
  <2> QED BY <1>2, <2>3 DEF Counted, m, n, s
<1>4. Unsent(k, p2)
  BY <1>2 DEF Unsent
<1>5. Numbered(k, p2)
  <2> SUFFICES ASSUME NEW i \in 1..Len(p2.answers) PROVE p2.answers[i].to = k.taken + i
    BY DEF Numbered
  <2>1. CASE i = Len(p.answers) + 1
    <3>1. p2.answers[i] = [to |-> p.served + 1, answer |-> a]
      BY <1>1, <2>1 DEF Typed
    <3>2. p2.answers[i].to = p.served + 1
      BY <3>1
    <3>3. p.served = k.taken + Len(p.answers)
      BY DEF FlowOf, Counted
    <3>4. k.taken \in Nat /\ Len(p.answers) \in Nat
      BY <1>1 DEF Typed
    <3>5. (k.taken + Len(p.answers)) + 1 = k.taken + (Len(p.answers) + 1)
      BY <3>4
    <3> QED BY <2>1, <3>2, <3>3, <3>5
  <2>2. CASE i \in 1..Len(p.answers)
    <3>1. p2.answers[i] = p.answers[i]
      BY <1>1, <2>2 DEF Typed
    <3> QED BY <2>2, <3>1 DEF FlowOf, Numbered
  <2>3. i \in 1..(Len(p.answers) + 1) /\ Len(p.answers) \in Nat
    BY <1>1, <1>2 DEF Typed
  <2> QED BY <2>1, <2>2, <2>3
<1>6. Arrived(k, p2)
  <2> DEFINE s == p.served
  <2>1. k.recvd \in Nat /\ p.wire \in Nat /\ s \in Nat
    BY <1>1 DEF Typed
  <2>2. RespUnits(s + 1) = RespUnits(s) + RespLen /\ RespLen \in Nat /\ RespUnits(s) \in Nat
    BY <2>1, Lengths
  <2>3. k.recvd + p.wire <= RespUnits(s)
    BY DEF FlowOf, Arrived
  <2> HIDE DEF s
  <2>4. k.recvd + (p.wire + RespLen) <= RespUnits(s + 1)
    BY <2>1, <2>2, <2>3
  <2> QED BY <2>4 DEF FlowOf, Arrived, s
<1> QED BY <1>3, <1>4, <1>5, <1>6 DEF FlowOf

\* Units that move on, or are lost
LEMMA FlowMove ==
    ASSUME NEW k \in Connections, NEW k2 \in Connections, NEW p \in Peers, NEW p2 \in Peers,
           FlowOf(k, p), k2.asked = k.asked /\ k2.taken = k.taken /\ k2.out <= k.out,
           k2.recvd >= k.recvd /\ k2.recvd + p2.wire <= k.recvd + p.wire,
           p2.todo = p.todo /\ p2.served = p.served /\ p2.answers = p.answers
    PROVE  FlowOf(k2, p2)
<1>1. Typed(k, p) /\ Typed(k2, p2)
  BY Fields
<1>2. Counted(k2, p2) /\ Numbered(k2, p2)
  BY DEF FlowOf, Counted, Numbered
<1>3. Unsent(k2, p2)
  <2>1. ReqUnits(Len(p.todo)) \in Nat /\ k.out \in Nat /\ k2.out \in Nat
    BY <1>1, Lengths DEF Typed
  <2>2. k.out <= ReqUnits(Len(p.todo))
    BY DEF FlowOf, Unsent
  <2> QED BY <2>1, <2>2 DEF Unsent
<1>4. Arrived(k2, p2)
  <2> DEFINE u == RespUnits(p.served)
             n == Consumed(k.taken)
             a == k2.recvd + p2.wire
             b == k.recvd + p.wire
  <2>1. /\ k.recvd \in Nat /\ k2.recvd \in Nat /\ p.wire \in Nat /\ p2.wire \in Nat
        /\ p.served \in Nat /\ k.taken \in Nat
    BY <1>1 DEF Typed
  <2>a. a \in Nat /\ b \in Nat /\ u \in Nat /\ n \in Nat
    <3>1. a \in Nat /\ b \in Nat
      BY <2>1
    <3>2. \A x \in Nat : RespUnits(x) \in Nat /\ Consumed(x) \in Nat
      BY Lengths
    <3> QED BY <2>1, <3>1, <3>2
  <2>2. b <= u /\ n <= k.recvd
    BY DEF FlowOf, Arrived
  <2>3. a <= b
    OBVIOUS
  <2> HIDE DEF a, b, u, n
  <2>4. a <= u
    BY <2>a, <2>2, <2>3
  <2>5. n <= k2.recvd
    BY <2>1, <2>a, <2>2
  <2> QED BY <2>4, <2>5 DEF Arrived, a, u, n
<1> QED BY <1>2, <1>3, <1>4 DEF FlowOf

-----------------------------------------------------------------------------
(* The steps: connections *)

LEMMA UsedConn ==
    ASSUME TypeOK
    PROVE  Used \subseteq Conn /\ Conn \subseteq Nat /\ 1 \in Conn /\ 1 \in Used
BY ClientAssumption DEF TypeOK, Used, Conn

LEMMA PhasesNat == Phases \in Nat /\ Phases > 0
BY ClientAssumption DEF BenchRequests

LEMMA NextPhaseIs ==
    ASSUME TypeOK, NextPhase
    PROVE  /\ bench' \in [P : Conn, R : RequestNums \cup {1}, phase : 1..Phases, num_sent : Nat]
           /\ bench'.P = bench.P /\ bench'.R = bench.R /\ bench.phase \in Nat /\ bench.phase > 0
           /\ \/ bench' = bench /\ pc' = "end"
              \/ bench'.phase = bench.phase + 1 /\ bench'.num_sent = 0 /\ pc' = "start"
<1>1. bench \in [P : Conn, R : RequestNums \cup {1}, phase : 1..Phases, num_sent : Nat]
  BY DEF TypeOK
<1>2. bench.phase \in 1..Phases /\ Phases \in Nat
  BY <1>1, PhasesNat
<1>3. CASE bench.phase < Phases
  <2>1. bench.phase + 1 \in 1..Phases /\ bench.phase \in Nat /\ bench.phase > 0
    BY <1>2, <1>3
  <2>2. bench' = [bench EXCEPT !.phase = bench.phase + 1, !.num_sent = 0] /\ pc' = "start"
    BY <1>3 DEF NextPhase
  <2> HIDE <1>2, <1>3
  <2> QED BY <1>1, <2>1, <2>2
<1>4. CASE ~(bench.phase < Phases)
  BY <1>1, <1>2, <1>4 DEF NextPhase
<1> QED BY <1>3, <1>4

\* One connection and its other end change
LEMMA Changed ==
    ASSUME Links, NEW c \in Conn, NEW k \in Connections, NEW p \in Peers, FlowOf(k, p),
           conn' = [conn EXCEPT ![c] = k], peer' = [peer EXCEPT ![c] = p]
    PROVE  /\ conn' \in [Conn -> Connections] /\ peer' \in [Conn -> Peers]
           /\ conn'[c] = k /\ peer'[c] = p
           /\ \A x \in Conn \ {c} : conn'[x] = conn[x] /\ peer'[x] = peer[x]
           /\ \A x \in Conn : Flow(x)'
<1>1. conn \in [Conn -> Connections] /\ peer \in [Conn -> Peers] /\ \A x \in Conn : Flow(x)
  BY DEF Links, TypeOK
<1>2. /\ conn' \in [Conn -> Connections] /\ peer' \in [Conn -> Peers]
      /\ conn'[c] = k /\ peer'[c] = p
      /\ \A x \in Conn \ {c} : conn'[x] = conn[x] /\ peer'[x] = peer[x]
  BY <1>1
<1>3. \A x \in Conn : Flow(x)'
  BY <1>1, <1>2 DEF Flow
<1> QED BY <1>2, <1>3

\* A connection is closed
LEMMA ClosedLinks ==
    ASSUME Inv, NEW c \in Used, CloseConn(c), pc \in {"events", "ready"},
           pc' \in {pc, "end"}, ready' = ready \ {c}
    PROVE  Links'
<1> DEFINE k == [conn[c] EXCEPT !.sock = "closed", !.armed = FALSE, !.events = {}]
           p == peer[c]
<1>1. /\ c \in Conn /\ conn[c] \in Connections /\ p \in Peers /\ FlowOf(conn[c], p)
      /\ main # "lib" /\ Links
  BY UsedConn DEF Inv, Links, TypeOK, Flow
<1>2. /\ k \in Connections
      /\ k.asked = conn[c].asked /\ k.taken = conn[c].taken /\ k.out = conn[c].out
      /\ k.recvd = conn[c].recvd /\ k.sock = "closed" /\ k.armed = FALSE /\ k.events = {}
  BY <1>1 DEF Connections
<1>3. FlowOf(k, p)
  <2>a. conn[c].out \in Nat /\ conn[c].recvd \in Nat /\ p.wire \in Nat
    BY <1>1 DEF Connections, Peers
  <2>1. k.out <= conn[c].out /\ k.recvd >= conn[c].recvd
        /\ k.recvd + p.wire <= conn[c].recvd + p.wire
    BY <1>2, <2>a
  <2> QED BY <1>1, <1>2, <2>1, FlowMove
<1>4. conn' = [conn EXCEPT ![c] = k] /\ peer' = [peer EXCEPT ![c] = p]
  BY <1>1 DEF CloseConn, Links, TypeOK
<1> HIDE DEF k, p
<1>5. /\ conn' \in [Conn -> Connections] /\ peer' \in [Conn -> Peers]
      /\ conn'[c] = k /\ peer'[c] = p
      /\ \A x \in Conn \ {c} : conn'[x] = conn[x] /\ peer'[x] = peer[x]
      /\ \A x \in Conn : Flow(x)'
  BY <1>1, <1>2, <1>3, <1>4, Changed
<1>6. TypeOK'
  BY <1>1, <1>5 DEF CloseConn, Links, TypeOK, cliVars, libVars, Used
<1>7. \A x \in Conn : Batch(x)' /\ OneEach(x)' /\ OutSet(x)'
  BY <1>1, <1>2, <1>5 DEF CloseConn, Links, Batch, OneEach, OutSet, FirstPart, Used, TypeOK
<1>8. Quits'
  BY <1>1, <1>2, <1>5 DEF CloseConn, Links, Quits, TypeOK
<1> QED BY <1>5, <1>6, <1>7, <1>8 DEF Links

LEMMA OnErrorLinks ==
    ASSUME Inv, NEW c \in Used, OnError(c) \/ OnReadFails(c) \/ OnWriteFails(c)
    PROVE  Links' /\ CloseConn(c) /\ pc = "events" /\ pc' \in {pc, "end"} /\ ready' = ready
<1>1. /\ CloseConn(c) /\ pc = "events" /\ pc' \in {pc, "end"} /\ ready' = ready
      /\ conn[c].events # {}
  BY DEF OnError, OnReadFails, OnWriteFails
<1>2. c \notin ready
  BY <1>1, UsedConn DEF Inv, Links, Batch
<1> QED BY <1>1, <1>2, ClosedLinks

LEMMA RecvFailsLinks ==
    ASSUME Inv, NEW c \in Used, RecvFails(c)
    PROVE  Links'
BY ClosedLinks DEF RecvFails

LEMMA OnReadLinks ==
    ASSUME Inv, NEW c \in Used, OnRead(c)
    PROVE  Links'
<1>1. PICK n \in 1..peer[c].wire :
        /\ conn' = [conn EXCEPT ![c].recvd = @ + n, ![c].events = {}]
        /\ peer' = [peer EXCEPT ![c].wire = @ - n]
  BY DEF OnRead
<1> DEFINE k == [conn[c] EXCEPT !.recvd = @ + n, !.events = {}]
           p == [peer[c] EXCEPT !.wire = @ - n]
<1>2. /\ c \in Conn /\ conn[c] \in Connections /\ peer[c] \in Peers /\ FlowOf(conn[c], peer[c])
      /\ main # "lib" /\ pc = "events" /\ Links
  BY UsedConn DEF Inv, Links, TypeOK, Flow, OnRead
<1>a. conn[c].recvd \in Nat /\ peer[c].wire \in Nat /\ conn[c].out \in Nat /\ conn[c].sock = "up"
  BY <1>2 DEF Connections, Peers, OnRead
<1>b. n \in Nat /\ conn[c].recvd + n \in Nat /\ peer[c].wire - n \in Nat
  BY <1>a
<1>3. /\ k \in Connections /\ p \in Peers
      /\ k.asked = conn[c].asked /\ k.taken = conn[c].taken /\ k.out = conn[c].out
      /\ k.recvd = conn[c].recvd + n /\ k.sock = "up" /\ k.armed = conn[c].armed
      /\ k.events = {} /\ p.wire = peer[c].wire - n
      /\ p.todo = peer[c].todo /\ p.served = peer[c].served /\ p.answers = peer[c].answers
  BY <1>2, <1>a, <1>b DEF Connections, Peers
<1>4. conn' = [conn EXCEPT ![c] = k] /\ peer' = [peer EXCEPT ![c] = p]
  BY <1>1
<1> HIDE DEF k, p
<1>5. FlowOf(k, p)
  <2>1. conn[c].out <= conn[c].out /\ conn[c].recvd + n >= conn[c].recvd
        /\ (conn[c].recvd + n) + (peer[c].wire - n) <= conn[c].recvd + peer[c].wire
    BY <1>a, <1>b
  <2> QED BY <1>2, <1>3, <2>1, FlowMove
<1>6. /\ conn' \in [Conn -> Connections] /\ peer' \in [Conn -> Peers]
      /\ conn'[c] = k /\ peer'[c] = p
      /\ \A x \in Conn \ {c} : conn'[x] = conn[x] /\ peer'[x] = peer[x]
      /\ \A x \in Conn : Flow(x)'
  BY <1>2, <1>3, <1>4, <1>5, Changed
<1>7. TypeOK'
  BY <1>2, <1>6 DEF OnRead, Links, TypeOK, cliVars, libVars, Used
<1>8. \A x \in Conn : Batch(x)' /\ OneEach(x)' /\ OutSet(x)'
  BY <1>2, <1>3, <1>6 DEF OnRead, Links, Batch, OneEach, OutSet, FirstPart, Used, TypeOK
<1>9. Quits'
  BY <1>2, <1>3, <1>6 DEF OnRead, Links, Quits
<1> QED BY <1>6, <1>7, <1>8, <1>9 DEF Links

LEMMA OnWriteLinks ==
    ASSUME Inv, NEW c \in Used, OnWrite(c)
    PROVE  Links'
<1>1. PICK n \in 1..conn[c].out :
        /\ conn' = [conn EXCEPT ![c].out = @ - n, ![c].events = {},
                                 ![c].armed = n # conn[c].out]
        /\ ready' = IF n = conn[c].out /\ Held(c) # 0 THEN ready \cup {c} ELSE ready
  BY DEF OnWrite
<1> DEFINE k == [conn[c] EXCEPT !.out = @ - n, !.events = {}, !.armed = n # conn[c].out]
           p == peer[c]
<1>2. /\ c \in Conn /\ conn[c] \in Connections /\ p \in Peers /\ FlowOf(conn[c], p)
      /\ main # "lib" /\ pc = "events" /\ Links
  BY UsedConn DEF Inv, Links, TypeOK, Flow, OnWrite
<1>a. conn[c].recvd \in Nat /\ p.wire \in Nat /\ conn[c].out \in Nat /\ conn[c].sock = "up"
  BY <1>2 DEF Connections, Peers, OnWrite
<1>b. conn[c].out - n \in Nat /\ (n # conn[c].out => conn[c].out - n # 0)
      /\ conn[c].out - n <= conn[c].out
  BY <1>a
<1>3. /\ k \in Connections
      /\ k.asked = conn[c].asked /\ k.taken = conn[c].taken /\ k.out = conn[c].out - n
      /\ k.recvd = conn[c].recvd /\ k.sock = "up" /\ (k.armed => k.out # 0)
      /\ k.events = {}
  BY <1>2, <1>a, <1>b DEF Connections
<1>4. conn' = [conn EXCEPT ![c] = k] /\ peer' = [peer EXCEPT ![c] = p]
  <2>1. conn' = [conn EXCEPT ![c] = k]
    BY <1>1
  <2>2. peer' = [peer EXCEPT ![c] = p]
    BY <1>2 DEF Links, TypeOK, OnWrite
  <2> QED BY <2>1, <2>2
<1> HIDE DEF k, p
<1>5. FlowOf(k, p)
  <2>1. conn[c].recvd >= conn[c].recvd /\ conn[c].recvd + p.wire <= conn[c].recvd + p.wire
    BY <1>a
  <2> QED BY <1>2, <1>b, <1>3, <2>1, FlowMove
<1>6. /\ conn' \in [Conn -> Connections] /\ peer' \in [Conn -> Peers]
      /\ conn'[c] = k /\ peer'[c] = p
      /\ \A x \in Conn \ {c} : conn'[x] = conn[x] /\ peer'[x] = peer[x]
      /\ \A x \in Conn : Flow(x)'
  BY <1>2, <1>3, <1>4, <1>5, Changed
<1>7. TypeOK'
  BY <1>1, <1>2, <1>6 DEF OnWrite, Links, TypeOK, cliVars, libVars, Used
<1>8. \A x \in Conn : Batch(x)' /\ OneEach(x)' /\ OutSet(x)'
  <2>1. /\ ready' \in {ready, ready \cup {c}} /\ pc' = "events"
        /\ UNCHANGED <<main, bench, etdb_quit>>
    BY <1>1, <1>2 DEF OnWrite
  <2>2. \A x \in Conn : Batch(x)'
    <3>1. Batch(c)'
      BY <1>3, <1>6, <2>1 DEF Batch
    <3>2. ASSUME NEW x \in Conn \ {c} PROVE Batch(x)'
      <4>1. Batch(x) /\ conn'[x] = conn[x] /\ (x \in ready' <=> x \in ready)
        BY <1>2, <1>6, <2>1 DEF Links
      <4>2. pc = "events"
        BY <1>2 DEF OnWrite
      <4> QED BY <2>1, <4>1, <4>2 DEF Batch, Used
    <3> QED BY <3>1, <3>2
  <2>3. \A x \in Conn : OneEach(x)'
    BY <1>2, <1>3, <1>6, <2>1 DEF Links, OneEach, FirstPart
  <2>4. \A x \in Conn : OutSet(x)'
    BY <1>2, <1>3, <1>6, <2>1 DEF Links, OutSet
  <2> QED BY <2>2, <2>3, <2>4
<1>9. Quits'
  BY <1>2, <1>3, <1>6 DEF OnWrite, Links, Quits
<1> QED BY <1>6, <1>7, <1>8, <1>9 DEF Links

\* What the server does
LEMMA ServedFlow ==
    ASSUME Links, NEW c \in Conn, ServerAnswers(c)
    PROVE  /\ Len(peer[c].todo) > 0 /\ peer[c].todo \in Seq(Asks)
           /\ Head(peer[c].todo) = peer[c].todo[1] /\ Head(peer[c].todo) \in Asks
           /\ conn[c].out <= ReqUnits(Len(peer[c].todo) - 1)
<1> DEFINE k == conn[c]
           p == peer[c]
           m == Len(p.todo)
<1>1. k \in Connections /\ p \in Peers /\ FlowOf(k, p) /\ Typed(k, p)
  BY Fields DEF Links, TypeOK, Flow
<1>2. p.todo \in Seq(Asks) /\ p.todo # << >>
  BY <1>1 DEF Typed, ServerAnswers
<1>3. /\ m > 0 /\ m \in Nat /\ Head(p.todo) = p.todo[1] /\ Head(p.todo) \in Asks
  BY <1>2
<1>4. k.out <= ReqUnits(m - 1)
  <2> DEFINE s == p.served
  <2>1. s \in Nat /\ k.out \in Nat /\ m - 1 \in Nat /\ s + 1 \in Nat
    BY <1>1, <1>3 DEF Typed
  <2>2. k.asked = s + m
    BY <1>1 DEF FlowOf, Counted
  <2>3. ReqUnits(k.asked) - k.out >= ReqUnits(s + 1)
    BY DEF ServerAnswers, Sent, ReqUnits
  <2>4. k.asked = (s + 1) + (m - 1)
    BY SMTT(30), <1>3, <2>1, <2>2
  <2> DEFINE a == s + 1
             b == m - 1
  <2> HIDE DEF a, b
  <2>b. \A x, y \in Nat : ReqUnits(x + y) = ReqUnits(x) + ReqUnits(y)
    BY Lengths
  <2>c. a \in Nat /\ b \in Nat /\ k.asked = a + b
    BY <2>1, <2>4 DEF a, b
  <2>d. ReqUnits(k.asked) = ReqUnits(a) + ReqUnits(b)
    BY <2>b, <2>c
  <2>5. ReqUnits(k.asked) = ReqUnits(s + 1) + ReqUnits(m - 1)
    BY <2>d DEF a, b
  <2>6. ReqUnits(s + 1) \in Nat /\ ReqUnits(m - 1) \in Nat
    BY <2>1, Lengths
  <2> HIDE DEF k, m, s
  <2> QED BY <2>1, <2>3, <2>5, <2>6
<1> QED BY <1>2, <1>3, <1>4

\* What the server makes of the next request
Served(c, a) ==
    LET p == peer[c]
        r == Head(p.todo)
    IN  [todo |-> Tail(p.todo), served |-> p.served + 1, wire |-> p.wire + RespLen,
         answers |-> Append(p.answers, [to |-> p.served + 1, answer |-> a]),
         slot |-> SlotAfter(r, p.slot)]

LEMMA ServerAnswersIs ==
    ASSUME Links, NEW c \in Conn, ServerAnswers(c)
    PROVE  \E a \in AnswerType :
             /\ a \in Answers(Head(peer[c].todo), peer[c].slot, CallsAfter(Head(peer[c].todo), calls))
             /\ calls' = CallsAfter(Head(peer[c].todo), calls)
             /\ calls' \in [DOMAIN Commands -> Nat]
             /\ Served(c, a) \in Peers /\ FlowOf(conn[c], Served(c, a))
             /\ conn' = [conn EXCEPT ![c] = conn[c]]
             /\ peer' = [peer EXCEPT ![c] = Served(c, a)]
<1> DEFINE r == Head(peer[c].todo)
           counts == CallsAfter(r, calls)
<1>1. /\ conn[c] \in Connections /\ peer[c] \in Peers /\ FlowOf(conn[c], peer[c])
      /\ calls \in [DOMAIN Commands -> Nat] /\ conn \in [Conn -> Connections]
  BY DEF Links, TypeOK, Flow
<1>2. /\ peer[c].slot \in Nat /\ peer[c].served \in Nat /\ peer[c].wire \in Nat
      /\ peer[c].todo \in Seq(Asks) /\ peer[c].answers \in Seq(Replies)
  BY <1>1 DEF Peers
<1>3. counts \in [DOMAIN Commands -> Nat] /\ SlotAfter(r, peer[c].slot) \in Nat
  BY <1>1, <1>2, ServedTypes
<1>4. PICK a \in Answers(r, peer[c].slot, counts) : peer' = [peer EXCEPT ![c] = Served(c, a)]
  BY DEF ServerAnswers, Served
<1>5. a \in AnswerType
  BY <1>2, <1>3, AnswersAre
<1>6. Served(c, a) \in Peers
  <2>1. [to |-> peer[c].served + 1, answer |-> a] \in Replies
    BY <1>2, <1>5 DEF Replies
  <2>2. Append(peer[c].answers, [to |-> peer[c].served + 1, answer |-> a]) \in Seq(Replies)
    BY <1>2, <2>1
  <2>3. Tail(peer[c].todo) \in Seq(Asks)
    BY <1>2, ServedFlow
  <2>4. peer[c].served + 1 \in Nat /\ peer[c].wire + RespLen \in Nat
    BY SMTT(30), <1>2, ClientAssumption
  <2> QED BY <1>3, <2>2, <2>3, <2>4 DEF Served, Peers
<1>7. FlowOf(conn[c], Served(c, a))
  <2>1. Len(peer[c].todo) > 0 /\ conn[c].out <= ReqUnits(Len(peer[c].todo) - 1)
    BY ServedFlow
  <2>2. /\ Served(c, a).todo = Tail(peer[c].todo) /\ Served(c, a).served = peer[c].served + 1
        /\ Served(c, a).answers = Append(peer[c].answers, [to |-> peer[c].served + 1, answer |-> a])
        /\ Served(c, a).wire = peer[c].wire + RespLen
    BY DEF Served
  <2> QED BY <1>1, <1>6, <2>1, <2>2, FlowServe
<1>8. conn' = [conn EXCEPT ![c] = conn[c]] /\ calls' = counts
  BY <1>1 DEF ServerAnswers
<1> QED BY <1>3, <1>4, <1>5, <1>6, <1>7, <1>8

LEMMA ServerAnswersLinks ==
    ASSUME Inv, NEW c \in Conn, ServerAnswers(c)
    PROVE  Links'
<1>1. Links /\ conn[c] \in Connections
  BY DEF Inv, Links, TypeOK
<1>2. PICK a \in AnswerType :
             /\ calls' \in [DOMAIN Commands -> Nat]
             /\ Served(c, a) \in Peers /\ FlowOf(conn[c], Served(c, a))
             /\ conn' = [conn EXCEPT ![c] = conn[c]]
             /\ peer' = [peer EXCEPT ![c] = Served(c, a)]
  BY <1>1, ServerAnswersIs
<1>3. /\ conn' \in [Conn -> Connections] /\ peer' \in [Conn -> Peers]
      /\ \A x \in Conn : Flow(x)'
  BY <1>1, <1>2, Changed
<1>4. TypeOK'
  BY <1>1, <1>2, <1>3 DEF ServerAnswers, Links, TypeOK, cliVars, libVars, Used
<1>5. \A x \in Conn : Batch(x)' /\ OneEach(x)' /\ OutSet(x)'
  BY <1>1 DEF ServerAnswers, Links, Batch, OneEach, OutSet, FirstPart, Used
<1>6. Quits'
  BY <1>1 DEF ServerAnswers, Links, Quits
<1> QED BY <1>3, <1>4, <1>5, <1>6 DEF Links

LEMMA ServerClosesLinks ==
    ASSUME Inv, NEW c \in Conn, ServerCloses(c)
    PROVE  Links'
<1> DEFINE k == [conn[c] EXCEPT !.sock = "reset"]
           p == [peer[c] EXCEPT !.wire = 0]
<1>1. conn[c] \in Connections /\ peer[c] \in Peers /\ FlowOf(conn[c], peer[c]) /\ Links
  BY DEF Inv, Links, TypeOK, Flow
<1>2. /\ k \in Connections /\ p \in Peers
      /\ k.asked = conn[c].asked /\ k.taken = conn[c].taken /\ k.out = conn[c].out
      /\ k.recvd = conn[c].recvd /\ k.sock = "reset" /\ k.armed = conn[c].armed
      /\ k.events = conn[c].events /\ p.wire = 0
      /\ p.todo = peer[c].todo /\ p.served = peer[c].served /\ p.answers = peer[c].answers
      /\ conn[c].recvd \in Nat /\ peer[c].wire \in Nat /\ conn[c].out \in Nat
  BY <1>1 DEF Connections, Peers
<1>3. conn' = [conn EXCEPT ![c] = k] /\ peer' = [peer EXCEPT ![c] = p] /\ conn[c].sock = "up"
  BY <1>1 DEF ServerCloses, Links, TypeOK
<1> HIDE DEF k, p
<1>4. FlowOf(k, p)
  BY <1>1, <1>2, FlowMove
<1>5. /\ conn' \in [Conn -> Connections] /\ peer' \in [Conn -> Peers]
      /\ conn'[c] = k /\ peer'[c] = p
      /\ \A x \in Conn \ {c} : conn'[x] = conn[x] /\ peer'[x] = peer[x]
      /\ \A x \in Conn : Flow(x)'
  BY <1>1, <1>2, <1>3, <1>4, Changed
<1>6. TypeOK'
  BY <1>1, <1>5 DEF ServerCloses, Links, TypeOK, cliVars, libVars, Used
<1>7. \A x \in Conn : Batch(x)' /\ OneEach(x)' /\ OutSet(x)'
  BY <1>1, <1>2, <1>3, <1>5 DEF ServerCloses, Links, Batch, OneEach, OutSet, FirstPart, Used, TypeOK
<1>8. Quits'
  BY <1>1, <1>2, <1>3, <1>5 DEF ServerCloses, Links, Quits
<1> QED BY <1>5, <1>6, <1>7, <1>8 DEF Links

\* Steps that leave the connections alone
LEMMA FlowKept ==
    ASSUME Links, UNCHANGED <<conn, peer>>
    PROVE  \A x \in Conn : Flow(x)'
BY DEF Links, Flow

LEMMA LoopLinks ==
    ASSUME Inv, \/ EventsHandled \/ CycleEnds \/ Leave \/ BenchPastEnd \/ BenchSent \/ Quit
                \/ (\E c \in Used : RecvIncomplete(c))
    PROVE  Links'
<1>1. Links /\ UNCHANGED <<conn, peer>> /\ \A x \in Conn : Flow(x)'
  <2>1. Links /\ UNCHANGED <<conn, peer>>
    BY DEF Inv, EventsHandled, CycleEnds, Leave, BenchPastEnd, BenchSent, Quit, RecvIncomplete
  <2> QED BY <2>1, FlowKept
<1>2. CASE EventsHandled
  <2>1. TypeOK'
    BY <1>1, <1>2 DEF EventsHandled, Links, TypeOK, cliVars, libVars, Used
  <2>2. \A x \in Conn : Batch(x)' /\ OneEach(x)' /\ OutSet(x)'
    BY <1>1, <1>2 DEF EventsHandled, Links, Batch, OneEach, OutSet, FirstPart, Used, TypeOK
  <2>3. Quits'
    BY <1>1, <1>2 DEF EventsHandled, Links, Quits
  <2> QED BY <1>1, <2>1, <2>2, <2>3 DEF Links
<1>3. CASE CycleEnds
  <2>1. TypeOK'
    BY <1>1, <1>3 DEF CycleEnds, Links, TypeOK, cliVars, libVars, Used
  <2>2. \A x \in Conn : Batch(x)' /\ OneEach(x)' /\ OutSet(x)'
    BY <1>1, <1>3 DEF CycleEnds, Links, Batch, OneEach, OutSet, FirstPart, Used
  <2>3. Quits'
    BY <1>1, <1>3 DEF CycleEnds, Links, Quits, TypeOK
  <2> QED BY <1>1, <2>1, <2>2, <2>3 DEF Links
<1>4. CASE Leave
  <2>1. TypeOK'
    BY <1>1, <1>4 DEF Leave, Links, TypeOK, cliVars, libVars, Used
  <2>2. \A x \in Conn : Batch(x)' /\ OneEach(x)' /\ OutSet(x)'
    BY <1>1, <1>4 DEF Leave, Links, Batch, OneEach, OutSet, FirstPart, Used
  <2>3. Quits'
    BY <1>1, <1>4 DEF Leave, Links, Quits
  <2> QED BY <1>1, <2>1, <2>2, <2>3 DEF Links
<1>5. CASE BenchPastEnd
  <2>1. TypeOK'
    BY <1>1, <1>5 DEF BenchPastEnd, Links, TypeOK, cliVars, libVars, Used
  <2>2. \A x \in Conn : Batch(x)' /\ OneEach(x)' /\ OutSet(x)'
    BY <1>1, <1>5 DEF BenchPastEnd, Links, Batch, OneEach, OutSet, FirstPart, Used
  <2>3. Quits'
    <3>1. bench.P \in Nat /\ bench.R \in Nat /\ bench.num_sent \in Nat
      BY <1>1, ClientAssumption DEF Links, TypeOK, Conn
    <3> QED BY <1>1, <1>5, <3>1 DEF BenchPastEnd, Links, Quits
  <2> QED BY <1>1, <2>1, <2>2, <2>3 DEF Links
<1>6. CASE BenchSent
  <2>1. TypeOK'
    <3>1. bench.num_sent - 1 \in Nat
      BY <1>1, <1>6 DEF BenchSent, Links, TypeOK, Conn
    <3> QED BY <1>1, <1>6, <3>1 DEF BenchSent, Links, TypeOK, cliVars, libVars, Used
  <2>2. \A x \in Conn : Batch(x)' /\ OneEach(x)' /\ OutSet(x)'
    BY <1>1, <1>6 DEF BenchSent, Links, Batch, OneEach, OutSet, FirstPart, Used, TypeOK
  <2>3. Quits'
    BY <1>1, <1>6 DEF BenchSent, Links, Quits, TypeOK
  <2> QED BY <1>1, <2>1, <2>2, <2>3 DEF Links
<1>7. CASE Quit
  <2>1. /\ bench' \in [P : Conn, R : RequestNums \cup {1}, phase : 1..Phases, num_sent : Nat]
        /\ bench'.P = bench.P /\ bench'.R = bench.R
        /\ \/ bench' = bench /\ pc' = "end"
           \/ /\ main = "bench" /\ bench.phase \in Nat /\ bench.phase > 0
              /\ bench'.phase = bench.phase + 1 /\ pc' = "start"
    <3>1. CASE main = "cli"
      BY <1>1, <1>7, <3>1 DEF Quit, Links, TypeOK
    <3>2. CASE main # "cli"
      <4>1. NextPhase /\ main = "bench"
        BY <1>1, <1>7, <3>2 DEF Quit, Links, TypeOK
      <4> QED BY <1>1, <4>1, NextPhaseIs DEF Links
    <3> QED BY <3>1, <3>2
  <2>2. /\ pc = "wait" /\ etdb_quit = 1
        /\ UNCHANGED <<main, etdb_quit, conn, ready, peer, calls, cliVars, libVars, wild>>
    BY <1>7 DEF Quit
  <2>3. TypeOK'
    BY <1>1, <2>1, <2>2 DEF Links, TypeOK, cliVars, libVars, Used
  <2>4. \A x \in Conn : Batch(x)' /\ OneEach(x)' /\ OutSet(x)'
    BY <1>1, <2>1, <2>2 DEF Links, Batch, OneEach, OutSet, FirstPart, Used
  <2>5. Quits'
    BY <1>1, <2>1, <2>2 DEF Links, Quits
  <2> QED BY <1>1, <2>3, <2>4, <2>5 DEF Links
<1>8. CASE \E c \in Used : RecvIncomplete(c)
  <2>1. TypeOK'
    BY <1>1, <1>8 DEF RecvIncomplete, Links, TypeOK, cliVars, libVars, Used
  <2>2. \A x \in Conn : Batch(x)' /\ OneEach(x)' /\ OutSet(x)'
    BY <1>1, <1>8 DEF RecvIncomplete, Links, Batch, OneEach, OutSet, FirstPart, Used
  <2>3. Quits'
    BY <1>1, <1>8 DEF RecvIncomplete, Links, Quits
  <2> QED BY <1>1, <2>1, <2>2, <2>3 DEF Links
<1> QED BY <1>2, <1>3, <1>4, <1>5, <1>6, <1>7, <1>8

LEMMA WaitLinks ==
    ASSUME Inv, Wait
    PROVE  Links'
<1>1. Links /\ Used \subseteq Conn /\ conn \in [Conn -> Connections]
  BY UsedConn DEF Inv, Links, TypeOK
<1>2. /\ conn' \in [Conn -> Connections]
      /\ \A x \in Conn :
           /\ conn'[x].asked = conn[x].asked /\ conn'[x].taken = conn[x].taken
           /\ conn'[x].out = conn[x].out /\ conn'[x].recvd = conn[x].recvd
           /\ conn'[x].sock = conn[x].sock /\ conn'[x].armed = conn[x].armed
           /\ x \notin Used => conn'[x].events = {}
           /\ conn'[x].events # {} => conn[x].sock # "closed"
           /\ "OUT" \in conn'[x].events => conn[x].armed
           /\ "ERR" \in conn'[x].events => conn[x].sock = "reset"
  BY <1>1 DEF Wait, Reported, Connections
<1>3. /\ peer' = peer /\ pc' = "events" /\ pc = "wait"
      /\ UNCHANGED <<main, etdb_quit, ready, calls, cliVars, bench, libVars, wild>>
  BY DEF Wait
<1>4. \A x \in Conn : Flow(x)'
  <2> SUFFICES ASSUME NEW x \in Conn PROVE FlowOf(conn'[x], peer[x])
    BY <1>3 DEF Flow
  <2>1. FlowOf(conn[x], peer[x])
    BY <1>1 DEF Links, Flow
  <2>2. /\ conn'[x].asked = conn[x].asked /\ conn'[x].taken = conn[x].taken
        /\ conn'[x].out = conn[x].out /\ conn'[x].recvd = conn[x].recvd
    BY <1>2
  <2> QED BY <2>1, <2>2 DEF FlowOf, Counted, Numbered, Arrived, Unsent
<1>5. ready = {} /\ main # "lib"
  <2>1. ready \subseteq Conn /\ main # "lib"
    BY <1>1, <1>3 DEF Links, TypeOK
  <2> QED BY <1>1, <1>3, <2>1 DEF Links, Batch
<1>6. TypeOK'
  BY <1>1, <1>2, <1>3, <1>5 DEF Links, TypeOK, cliVars, libVars, Used
<1>7. \A x \in Conn : Batch(x)'
  <2>1. Used' = Used /\ ready' = {} /\ main' = main /\ main # "lib"
    BY <1>3, <1>5 DEF Used
  <2> HIDE DEF Used
  <2> SUFFICES ASSUME NEW x \in Conn PROVE Batch(x)'
    OBVIOUS
  <2>2. /\ conn'[x].sock = conn[x].sock /\ conn'[x].armed = conn[x].armed
        /\ x \notin Used => conn'[x].events = {}
        /\ conn'[x].events # {} => conn[x].sock # "closed"
        /\ "OUT" \in conn'[x].events => conn[x].armed
        /\ "ERR" \in conn'[x].events => conn[x].sock = "reset"
    BY <1>2
  <2> QED BY <1>3, <2>1, <2>2 DEF Batch
<1>8. \A x \in Conn : OneEach(x)' /\ OutSet(x)'
  <2> SUFFICES ASSUME NEW x \in Conn PROVE OneEach(x)' /\ OutSet(x)'
    OBVIOUS
  <2>1. OneEach(x) /\ OutSet(x)
    BY <1>1 DEF Links
  <2>2. /\ conn'[x].asked = conn[x].asked /\ conn'[x].taken = conn[x].taken
        /\ conn'[x].out = conn[x].out /\ conn'[x].armed = conn[x].armed
    BY <1>2
  <2> QED BY <1>3, <2>1, <2>2 DEF OneEach, OutSet, FirstPart
<1>9. Quits'
  <2>1. \A x \in Conn : conn'[x].sock = conn[x].sock
    BY <1>2
  <2> QED BY <1>1, <1>3, <2>1 DEF Links, Quits
<1> QED BY <1>4, <1>6, <1>7, <1>8, <1>9 DEF Links

\* A reply is taken from the parser
LEMMA TakeFlow ==
    ASSUME Links, NEW c \in Conn, MayParse(c)
    PROVE  /\ peer[c].answers # << >> /\ Len(peer[c].answers) > 0
           /\ Reply(c) = peer[c].answers[1] /\ Reply(c) \in Replies
           /\ Reply(c).to = conn[c].taken + 1
           /\ conn[c].taken < conn[c].asked /\ conn[c].taken < peer[c].served
           /\ [conn[c] EXCEPT !.taken = @ + 1] \in Connections
           /\ [peer[c] EXCEPT !.answers = Tail(@)] \in Peers
           /\ FlowOf([conn[c] EXCEPT !.taken = @ + 1], [peer[c] EXCEPT !.answers = Tail(@)])
           /\ [conn EXCEPT ![c].taken = @ + 1] = [conn EXCEPT ![c] = [conn[c] EXCEPT !.taken = @ + 1]]
           /\ Take(c) = [peer EXCEPT ![c] = [peer[c] EXCEPT !.answers = Tail(@)]]
<1> DEFINE k == conn[c]
           p == peer[c]
           k2 == [k EXCEPT !.taken = @ + 1]
           p2 == [p EXCEPT !.answers = Tail(@)]
<1>1. k \in Connections /\ p \in Peers /\ FlowOf(k, p) /\ Typed(k, p)
  BY Fields DEF Links, TypeOK, Flow
<1>2. k.recvd >= Consumed(k.taken + 1)
  <2>1. k.recvd - Consumed(k.taken) >= Consumed(k.taken + 1) - Consumed(k.taken)
    BY DEF MayParse, Held
  <2>2. k.recvd \in Nat /\ k.taken \in Nat /\ k.taken + 1 \in Nat
    BY <1>1 DEF Typed
  <2>3. Consumed(k.taken) \in Nat /\ Consumed(k.taken + 1) \in Nat
    BY <2>2, Lengths
  <2> QED BY <2>1, <2>2, <2>3
<1>3. /\ Len(p.answers) > 0 /\ p.answers # << >>
      /\ Head(p.answers) = p.answers[1] /\ p.answers[1].to = k.taken + 1
      /\ k.taken < p.served /\ k.taken < k.asked
  BY <1>1, <1>2, Parsed
<1>4. p.answers \in Seq(Replies) /\ p.answers[1] \in Replies /\ Tail(p.answers) \in Seq(Replies)
  BY <1>1, <1>3 DEF Typed
<1>5. /\ k2 \in Connections /\ k2.taken = k.taken + 1
      /\ k2.asked = k.asked /\ k2.out = k.out /\ k2.recvd = k.recvd
  BY <1>1 DEF Connections
<1>6. /\ p2 \in Peers /\ p2.answers = Tail(p.answers)
      /\ p2.todo = p.todo /\ p2.served = p.served /\ p2.wire = p.wire
  BY <1>1, <1>4 DEF Peers
<1>7. FlowOf(k2, p2)
  BY ZenonT(40), <1>1, <1>2, <1>5, <1>6, FlowTake
<1> QED BY <1>3, <1>4, <1>5, <1>6, <1>7 DEF Reply, Take

LEMMA CliRecvLinks ==
    ASSUME Inv, NEW c \in Used, CliRecv(c)
    PROVE  Links'
<1> DEFINE k == [conn[c] EXCEPT !.taken = @ + 1]
           p == [peer[c] EXCEPT !.answers = Tail(@)]
<1>1. Links /\ c \in Conn /\ conn[c] \in Connections /\ MayParse(c)
  BY UsedConn DEF Inv, Links, TypeOK, CliRecv
<1>2. /\ k \in Connections /\ p \in Peers /\ FlowOf(k, p)
      /\ conn' = [conn EXCEPT ![c] = k] /\ peer' = [peer EXCEPT ![c] = p]
      /\ conn[c].taken < conn[c].asked
  BY <1>1, TakeFlow DEF CliRecv
<1>3. /\ k.asked = conn[c].asked /\ k.taken = conn[c].taken + 1 /\ k.out = conn[c].out
      /\ k.recvd = conn[c].recvd /\ k.sock = conn[c].sock /\ k.armed = conn[c].armed
      /\ k.events = conn[c].events /\ conn[c].taken \in Nat /\ conn[c].asked \in Nat
  BY <1>1 DEF Connections
<1> HIDE DEF k, p
<1>4. /\ conn' \in [Conn -> Connections] /\ peer' \in [Conn -> Peers]
      /\ conn'[c] = k /\ peer'[c] = p
      /\ \A x \in Conn \ {c} : conn'[x] = conn[x] /\ peer'[x] = peer[x]
      /\ \A x \in Conn : Flow(x)'
  BY <1>1, <1>2, Changed
<1>5. TypeOK'
  BY <1>1, <1>4 DEF CliRecv, Links, TypeOK, libVars, Used
<1>6. \A x \in Conn : Batch(x)' /\ OneEach(x)' /\ OutSet(x)'
  BY <1>1, <1>3, <1>4 DEF CliRecv, Links, Batch, OneEach, OutSet, FirstPart, Used
<1>7. Quits'
  BY <1>1, <1>3, <1>4 DEF CliRecv, Links, Quits
<1> QED BY <1>4, <1>5, <1>6, <1>7 DEF Links

LEMMA BenchDoneLinks ==
    ASSUME Inv, NEW c \in Used, BenchDone(c)
    PROVE  Links'
<1> DEFINE k == [conn[c] EXCEPT !.taken = @ + 1]
           p == [peer[c] EXCEPT !.answers = Tail(@)]
<1>1. Links /\ c \in Conn /\ conn[c] \in Connections /\ MayParse(c)
  BY UsedConn DEF Inv, Links, TypeOK, BenchDone
<1>2. /\ k \in Connections /\ p \in Peers /\ FlowOf(k, p)
      /\ conn' = [conn EXCEPT ![c] = k] /\ peer' = [peer EXCEPT ![c] = p]
      /\ conn[c].taken < conn[c].asked
  BY <1>1, TakeFlow DEF BenchDone
<1>3. /\ k.asked = conn[c].asked /\ k.taken = conn[c].taken + 1 /\ k.out = conn[c].out
      /\ k.recvd = conn[c].recvd /\ k.sock = conn[c].sock /\ k.armed = conn[c].armed
      /\ k.events = conn[c].events /\ conn[c].taken \in Nat /\ conn[c].asked \in Nat
  BY <1>1 DEF Connections
<1> HIDE DEF k, p
<1>4. /\ conn' \in [Conn -> Connections] /\ peer' \in [Conn -> Peers]
      /\ conn'[c] = k /\ peer'[c] = p
      /\ \A x \in Conn \ {c} : conn'[x] = conn[x] /\ peer'[x] = peer[x]
      /\ \A x \in Conn : Flow(x)'
  BY <1>1, <1>2, Changed
<1>5. /\ bench' \in [P : Conn, R : RequestNums \cup {1}, phase : 1..Phases, num_sent : Nat]
      /\ bench'.P = bench.P /\ bench'.R = bench.R /\ bench.phase \in Nat /\ bench.phase > 0
      /\ \/ bench' = bench /\ pc' = "end"
         \/ bench'.phase = bench.phase + 1 /\ bench'.num_sent = 0 /\ pc' = "start"
  BY <1>1, NextPhaseIs DEF BenchDone, Links
<1>6. TypeOK'
  BY <1>1, <1>4, <1>5 DEF BenchDone, Links, TypeOK, cliVars, libVars, Used
<1>7. \A x \in Conn : Batch(x)' /\ OneEach(x)' /\ OutSet(x)'
  BY <1>1, <1>3, <1>4, <1>5 DEF BenchDone, Links, Batch, OneEach, OutSet, FirstPart, Used, TypeOK
<1>8. Quits'
  BY <1>1, <1>3, <1>4, <1>5 DEF BenchDone, Links, Quits, TypeOK
<1> QED BY <1>4, <1>6, <1>7, <1>8 DEF Links

\* A request that is written, in whole or in part
Writes(c, r, took, k, p) ==
    /\ conn[c].sock \in {"up", "reset"}
    /\ k \in Connections /\ p \in Peers /\ FlowOf(k, p)
    /\ conn' = [conn EXCEPT ![c] = k] /\ peer' = [peer EXCEPT ![c] = p]
    /\ k.asked = conn[c].asked + 1 /\ k.taken = conn[c].taken + took
    /\ k.recvd = conn[c].recvd /\ k.sock = conn[c].sock /\ k.events = conn[c].events
    /\ (conn[c].armed => k.armed) /\ (k.armed /\ k.out = 0 => conn[c].armed)
    /\ p.todo = Append(peer[c].todo, r)
    /\ p.answers = IF took = 1 THEN Tail(peer[c].answers) ELSE peer[c].answers
    /\ p.served = peer[c].served /\ p.slot = peer[c].slot

LEMMA WrittenIs ==
    ASSUME Links, NEW c \in Conn, NEW r \in Asks, NEW took \in {0, 1},
           took = 1 => MayParse(c), conn[c].sock \in {"up", "reset"},
           NEW n \in 0..(conn[c].out + ReqLen),
           conn' = [conn EXCEPT ![c].asked = @ + 1, ![c].taken = @ + took,
                                ![c].out = (conn[c].out + ReqLen) - n,
                                ![c].armed = @ \/ Unwritten(n, conn[c].out + ReqLen)],
           peer' = [peer EXCEPT ![c] = [IF took = 1 THEN Take(c)[c] ELSE peer[c]
                                          EXCEPT !.todo = Append(@, r)]]
    PROVE  \E k \in Connections, p \in Peers : Writes(c, r, took, k, p)
<1> DEFINE all == conn[c].out + ReqLen
           k1 == IF took = 1 THEN [conn[c] EXCEPT !.taken = @ + 1] ELSE conn[c]
           p1 == IF took = 1 THEN [peer[c] EXCEPT !.answers = Tail(@)] ELSE peer[c]
           k2 == [conn[c] EXCEPT !.asked = @ + 1, !.taken = @ + took, !.out = all - n,
                                 !.armed = @ \/ Unwritten(n, all)]
           p2 == [p1 EXCEPT !.todo = Append(@, r)]
<1>1. /\ conn[c] \in Connections /\ peer[c] \in Peers /\ FlowOf(conn[c], peer[c])
      /\ conn \in [Conn -> Connections] /\ peer \in [Conn -> Peers]
      /\ ReqLen \in Nat /\ ReqLen > 0
  BY Lengths DEF Links, TypeOK, Flow
<1>2. k1 \in Connections /\ p1 \in Peers /\ FlowOf(k1, p1)
  BY <1>1, TakeFlow
<1>3. /\ k1.asked = conn[c].asked /\ k1.taken = conn[c].taken + took /\ k1.out = conn[c].out
      /\ k1.recvd = conn[c].recvd
  BY <1>1 DEF Connections
<1>4. /\ p1.todo = peer[c].todo /\ p1.served = peer[c].served /\ p1.wire = peer[c].wire
      /\ p1.slot = peer[c].slot /\ p1.todo \in Seq(Asks)
      /\ p1.answers = IF took = 1 THEN Tail(peer[c].answers) ELSE peer[c].answers
  BY <1>1 DEF Peers
<1>5. all \in Nat /\ all - n \in Nat /\ (all - n = 0 => n = all) /\ all - n <= all
      /\ conn[c].asked + 1 \in Nat /\ conn[c].taken + took \in Nat
  <2>1. conn[c].out \in Nat /\ conn[c].asked \in Nat /\ conn[c].taken \in Nat
    BY <1>1 DEF Connections
  <2>2. all \in Nat
    BY <1>1, <2>1
  <2> HIDE DEF all
  <2>3. all - n \in Nat /\ (all - n = 0 => n = all) /\ all - n <= all
    BY <2>2 DEF all
  <2> QED BY SMTT(30), <2>1, <2>2, <2>3
<1>6. conn' = [conn EXCEPT ![c] = k2]
  OBVIOUS
<1>7. peer' = [peer EXCEPT ![c] = p2]
  <2>1. took = 1 => Take(c)[c] = [peer[c] EXCEPT !.answers = Tail(@)]
    BY <1>1 DEF Take
  <2> QED BY <2>1
<1>8. /\ k2 \in Connections /\ k2.asked = conn[c].asked + 1 /\ k2.taken = conn[c].taken + took
      /\ k2.out = all - n /\ k2.recvd = conn[c].recvd /\ k2.sock = conn[c].sock
      /\ k2.events = conn[c].events /\ k2.armed = (conn[c].armed \/ n # all)
  <2> DEFINE u == all - n
             b == conn[c].armed \/ Unwritten(n, all)
             asked == conn[c].asked + 1
             taken == conn[c].taken + took
  <2>1. u \in Nat /\ asked \in Nat /\ taken \in Nat /\ b \in BOOLEAN
    BY <1>1, <1>5 DEF Connections, Unwritten
  <2>2. k2 = [conn[c] EXCEPT !.asked = asked, !.taken = taken, !.out = u, !.armed = b]
    OBVIOUS
  <2> HIDE DEF u, b, asked, taken, k2
  <2>3. /\ k2 \in Connections /\ k2.asked = asked /\ k2.taken = taken
        /\ k2.out = u /\ k2.recvd = conn[c].recvd /\ k2.sock = conn[c].sock
        /\ k2.events = conn[c].events /\ k2.armed = b
    BY <1>1, <2>1, <2>2 DEF Connections
  <2> QED BY <2>3 DEF u, b, asked, taken, Unwritten
<1>9. /\ p2 \in Peers /\ p2.todo = Append(p1.todo, r) /\ p2.served = p1.served
      /\ p2.wire = p1.wire /\ p2.slot = p1.slot /\ p2.answers = p1.answers
  <2>1. Append(p1.todo, r) \in Seq(Asks)
    BY <1>4
  <2> HIDE DEF p1
  <2> QED BY <1>2, <2>1 DEF Peers
<1> HIDE DEF k1, k2, p1, p2, all
<1>10. k2.out <= k1.out + ReqLen /\ (k2.out = 0 => n = all)
  <2>1. k1.out + ReqLen = all
    BY <1>3 DEF all
  <2> QED BY <1>5, <1>8, <2>1
<1>11. FlowOf(k2, p2)
  BY ZenonT(40), <1>2, <1>3, <1>8, <1>9, <1>10, FlowAsk
<1>12. /\ k2.asked = conn[c].asked + 1 /\ k2.taken = conn[c].taken + took
       /\ k2.recvd = conn[c].recvd /\ k2.sock = conn[c].sock /\ k2.events = conn[c].events
       /\ (conn[c].armed => k2.armed) /\ (k2.armed /\ k2.out = 0 => conn[c].armed)
  BY <1>8, <1>10
<1>13. /\ p2.todo = Append(peer[c].todo, r)
       /\ p2.answers = IF took = 1 THEN Tail(peer[c].answers) ELSE peer[c].answers
       /\ p2.served = peer[c].served /\ p2.slot = peer[c].slot
  BY <1>4, <1>9
<1> QED BY <1>6, <1>7, <1>8, <1>9, <1>11, <1>12, <1>13 DEF Writes

LEMMA Handled ==
    ASSUME Links, NEW c \in Conn, NEW r \in Asks, NEW took \in {0, 1},
           took = 1 => MayParse(c), NEW next, HandleUserCmd(c, r, took, next)
    PROVE  \/ /\ pc' = next /\ wild' = wild
              /\ \E k \in Connections, p \in Peers : Writes(c, r, took, k, p)
           \/ /\ UNCHANGED <<conn, peer>> /\ pc' = "end" /\ wild' = wild
              /\ conn[c].sock = "reset"
           \/ /\ UNCHANGED <<conn, peer>> /\ pc' \in {next, "end"}
              /\ wild' = wild \cup {"freed"} /\ conn[c].sock = "closed"
<1>1. ReqLen \in Nat /\ conn[c].out \in Nat
  BY Lengths DEF Links, TypeOK, Connections
<1> DEFINE all == conn[c].out + ReqLen
           W(n) == /\ conn' = [conn EXCEPT ![c].asked = @ + 1, ![c].taken = @ + took,
                                        ![c].out = all - n, ![c].armed = @ \/ Unwritten(n, all)]
                   /\ peer' = [peer EXCEPT ![c] = [IF took = 1 THEN Take(c)[c] ELSE peer[c]
                                                      EXCEPT !.todo = Append(@, r)]]
<1>2. ASSUME NEW n \in 0..all, conn[c].sock \in {"up", "reset"}, W(n)
      PROVE  \E k \in Connections, p \in Peers : Writes(c, r, took, k, p)
  BY <1>2, WrittenIs
<1>3. 0 \in 0..all
  BY <1>1
<1>4. \/ (\E n \in 0..all : conn[c].sock \in {"up", "reset"} /\ W(n)) /\ pc' = next /\ wild' = wild
      \/ /\ UNCHANGED <<conn, peer>> /\ pc' = "end" /\ wild' = wild
         /\ conn[c].sock = "reset"
      \/ /\ UNCHANGED <<conn, peer>> /\ pc' \in {next, "end"}
         /\ wild' = wild \cup {"freed"} /\ conn[c].sock = "closed"
  BY <1>3, Zenon DEF HandleUserCmd
<1> HIDE DEF W
<1> QED BY <1>2, <1>4

\* Counts of a connection
LEMMA Counts ==
    ASSUME Links, NEW c \in Conn
    PROVE  /\ conn[c].asked \in Nat /\ conn[c].taken \in Nat /\ peer[c].served \in Nat
           /\ conn[c].out \in Nat
           /\ conn[c].taken <= peer[c].served /\ peer[c].served <= conn[c].asked
           /\ conn[c].asked <= peer[c].served => conn[c].out = 0
           /\ conn[c].out # 0 => conn[c].asked > 0
<1> DEFINE m == Len(peer[c].todo)
           n == Len(peer[c].answers)
<1>1. Typed(conn[c], peer[c]) /\ FlowOf(conn[c], peer[c])
  BY Fields DEF Links, TypeOK, Flow
<1>2. /\ conn[c].asked \in Nat /\ conn[c].taken \in Nat /\ peer[c].served \in Nat
      /\ conn[c].out \in Nat /\ m \in Nat /\ n \in Nat
  BY <1>1 DEF Typed
<1>3. peer[c].served = conn[c].taken + n /\ conn[c].asked = peer[c].served + m
  BY <1>1 DEF FlowOf, Counted
<1>4. conn[c].out <= ReqUnits(m)
  BY <1>1 DEF FlowOf, Unsent
<1>5. ReqUnits(0) = 0
  BY ClientAssumption DEF ReqUnits
<1> HIDE DEF m, n
<1>6. conn[c].taken <= peer[c].served /\ peer[c].served <= conn[c].asked
  BY <1>2, <1>3
<1>7. conn[c].asked <= peer[c].served => m = 0
  BY <1>2, <1>3
<1>8. m = 0 => conn[c].out = 0
  BY <1>2, <1>4, <1>5
<1>9. conn[c].asked = 0 => m = 0
  BY <1>2, <1>3
<1> QED BY <1>2, <1>6, <1>7, <1>8, <1>9

LEMMA AsksAre ==
    /\ \A f \in LibFunctions : LibRequest(f) \in Asks
    /\ \A line \in Lines : Words(line) \in Asks
    /\ \A k \in 1..Phases : BenchRequests[k] \in Asks
BY DEF Asks

\* After a request was handled, in full, in part or not at all
LEMMA HandledLinks ==
    ASSUME Links, NEW c \in Used, NEW r \in Asks, NEW took \in {0, 1},
           took = 1 => MayParse(c), NEW next, HandleUserCmd(c, r, took, next),
           took = 0 /\ FirstPart => conn[c].asked <= conn[c].taken, main # "lib"
    PROVE  /\ conn' \in [Conn -> Connections] /\ peer' \in [Conn -> Peers]
           /\ \A x \in Conn : Flow(x)'
           /\ \A x \in Conn \ {c} : conn'[x] = conn[x] /\ peer'[x] = peer[x]
           /\ conn'[c].sock = conn[c].sock /\ conn'[c].events = conn[c].events
           /\ FirstPart => conn'[c].asked <= conn'[c].taken + 1
           /\ conn'[c].armed /\ conn'[c].out = 0 =>
                main = "bench" /\ bench.phase >= 2 /\ conn'[c].asked > 1
           /\ pc' \in {next, "end"}
           /\ wild' = wild \/ (wild' = wild \cup {"freed"} /\ conn[c].sock = "closed")
<1>1. /\ c \in Conn /\ conn[c] \in Connections /\ peer[c] \in Peers /\ OneEach(c) /\ OutSet(c)
      /\ conn \in [Conn -> Connections] /\ peer \in [Conn -> Peers]
  BY UsedConn DEF Links, TypeOK
<1>2. CASE pc' = next /\ wild' = wild
           /\ \E k \in Connections, p \in Peers : Writes(c, r, took, k, p)
  <2>1. PICK k \in Connections, p \in Peers : Writes(c, r, took, k, p)
    BY <1>2
  <2>2. FlowOf(k, p) /\ conn' = [conn EXCEPT ![c] = k] /\ peer' = [peer EXCEPT ![c] = p]
    BY <2>1 DEF Writes
  <2>3. /\ conn' \in [Conn -> Connections] /\ peer' \in [Conn -> Peers]
        /\ \A x \in Conn : Flow(x)'
        /\ \A x \in Conn \ {c} : conn'[x] = conn[x] /\ peer'[x] = peer[x]
        /\ conn'[c] = k
    BY <1>1, <2>2, Changed
  <2>4. /\ k.sock = conn[c].sock /\ k.events = conn[c].events
        /\ k.asked = conn[c].asked + 1 /\ k.taken = conn[c].taken + took
        /\ k.armed /\ k.out = 0 => conn[c].armed
    BY <2>1 DEF Writes
  <2>5. /\ conn[c].asked \in Nat /\ conn[c].taken \in Nat /\ peer[c].served \in Nat
        /\ conn[c].out \in Nat
        /\ conn[c].taken <= peer[c].served /\ peer[c].served <= conn[c].asked
        /\ conn[c].asked <= peer[c].served => conn[c].out = 0
        /\ conn[c].out # 0 => conn[c].asked > 0
    BY <1>1, Counts
  <2>6. FirstPart => conn[c].asked <= conn[c].taken + took
    <3>1. CASE took = 0
      BY <2>5, <3>1
    <3>2. CASE took = 1
      BY <1>1, <3>2 DEF OneEach
    <3> QED BY <3>1, <3>2
  <2>7. FirstPart => k.asked <= k.taken + 1
    BY <2>4, <2>5, <2>6
  <2>8. FirstPart => conn[c].out = 0
    <3>1. took = 1 => conn[c].taken < peer[c].served
      BY <1>1, TakeFlow
    <3> QED BY <2>5, <2>6, <3>1
  <2>9. k.armed /\ k.out = 0 => main = "bench" /\ bench.phase >= 2 /\ k.asked > 1
    <3>1. CASE conn[c].out = 0
      BY <1>1, <2>4, <2>5, <3>1 DEF OutSet
    <3>2. CASE conn[c].out # 0
      <4>1. ~FirstPart
        BY <2>8, <3>2
      <4>2. conn[c].armed => main = "bench" /\ bench.phase >= 2
        <5>1. main \in {"lib", "cli", "bench"} /\ bench.phase \in 1..Phases
          BY DEF Links, TypeOK
        <5>2. main # "lib"
          OBVIOUS
        <5> QED BY <4>1, <5>1, <5>2, PhasesNat DEF FirstPart
      <4> QED BY <2>4, <2>5, <3>2, <4>2
    <3> QED BY <3>1, <3>2
  <2> QED BY <1>2, <2>3, <2>4, <2>7, <2>9
<1>3. CASE /\ UNCHANGED <<conn, peer>> /\ pc' \in {next, "end"}
           /\ wild' = wild \/ (wild' = wild \cup {"freed"} /\ conn[c].sock = "closed")
  <2>1. \A x \in Conn : Flow(x)'
    BY <1>3, FlowKept
  <2>2. FirstPart => conn[c].asked <= conn[c].taken + 1
    BY <1>1 DEF OneEach
  <2> QED BY <1>1, <1>3, <2>1, <2>2 DEF OutSet
<1>4. \/ /\ pc' = next /\ wild' = wild
         /\ \E k \in Connections, p \in Peers : Writes(c, r, took, k, p)
      \/ /\ UNCHANGED <<conn, peer>> /\ pc' = "end" /\ wild' = wild
         /\ conn[c].sock = "reset"
      \/ /\ UNCHANGED <<conn, peer>> /\ pc' \in {next, "end"}
         /\ wild' = wild \cup {"freed"} /\ conn[c].sock = "closed"
  BY <1>1, Handled
<1> QED BY <1>2, <1>3, <1>4

LEMMA TypeLineLinks ==
    ASSUME Inv, NEW line \in Lines, TypeLine(line)
    PROVE  Links'
<1>1. /\ Links /\ main = "cli" /\ pc = "prompt" /\ 1 \in Conn /\ 1 \in Used
      /\ UNCHANGED <<main, etdb_quit, ready, calls, bench, libVars>>
      /\ conn[1].sock # "closed" /\ etdb_quit = 0
  BY UsedConn DEF Inv, Links, TypeLine, Quits, TypeOK
<1>2. CASE Words(line) = << >>
  <2>1. UNCHANGED <<pc, conn, peer, wild, typed, responsed>>
    BY <1>2 DEF TypeLine
  <2>2. \A x \in Conn : Flow(x)'
    BY <1>1, <2>1, FlowKept
  <2>3. TypeOK'
    BY <1>1, <2>1 DEF Links, TypeOK, libVars, Used
  <2>4. \A x \in Conn : Batch(x)' /\ OneEach(x)' /\ OutSet(x)'
    BY <1>1, <2>1 DEF Links, Batch, OneEach, OutSet, FirstPart, Used
  <2>5. Quits'
    BY <1>1, <2>1 DEF Links, Quits
  <2> QED BY <2>2, <2>3, <2>4, <2>5 DEF Links
<1>3. CASE Words(line) # << >>
  <2>1. /\ HandleUserCmd(1, Words(line), 0, "wait") /\ Words(line) \in Asks
        /\ typed' = Append(typed, line) /\ responsed' = 0
    BY <1>3, AsksAre DEF TypeLine
  <2>2. conn[1].asked <= conn[1].taken
    <3>1. conn[1].asked = Len(typed) /\ conn[1].taken + 1 = Len(typed) + 1
      BY <1>1 DEF Inv, CliInv
    <3>2. conn[1].asked \in Nat /\ conn[1].taken \in Nat
      BY <1>1, Counts
    <3> QED BY <3>1, <3>2
  <2>3. /\ conn' \in [Conn -> Connections] /\ peer' \in [Conn -> Peers]
        /\ \A x \in Conn : Flow(x)'
        /\ \A x \in Conn \ {1} : conn'[x] = conn[x] /\ peer'[x] = peer[x]
        /\ conn'[1].sock = conn[1].sock /\ conn'[1].events = conn[1].events
        /\ FirstPart => conn'[1].asked <= conn'[1].taken + 1
        /\ conn'[1].armed /\ conn'[1].out = 0 =>
             main = "bench" /\ bench.phase >= 2 /\ conn'[1].asked > 1
        /\ pc' \in {"wait", "end"} /\ wild' = wild
    BY <1>1, <2>1, <2>2, HandledLinks
  <2>4. TypeOK'
    <3>1. typed' \in Seq(Lines)
      BY <1>1, <2>1 DEF Links, TypeOK
    <3> QED BY <1>1, <2>1, <2>3, <3>1 DEF Links, TypeOK, libVars, Used
  <2>5. \A x \in Conn : Batch(x)' /\ OneEach(x)' /\ OutSet(x)'
    BY <1>1, <2>3 DEF Links, Batch, OneEach, OutSet, FirstPart
  <2>6. Quits'
    BY <1>1, <2>3 DEF Links, Quits
  <2> QED BY <2>3, <2>4, <2>5, <2>6 DEF Links
<1> QED BY <1>2, <1>3

LEMMA BenchMoved ==
    ASSUME TypeOK, bench' = [bench EXCEPT !.num_sent = @ + 1]
    PROVE  /\ bench' \in [P : Conn, R : RequestNums \cup {1}, phase : 1..Phases, num_sent : Nat]
           /\ bench'.P = bench.P /\ bench'.R = bench.R /\ bench'.phase = bench.phase
           /\ bench'.num_sent = bench.num_sent + 1
<1>1. bench \in [P : Conn, R : RequestNums \cup {1}, phase : 1..Phases, num_sent : Nat]
  BY DEF TypeOK
<1>2. bench.num_sent + 1 \in Nat
  BY <1>1
<1> DEFINE n == bench.num_sent + 1
<1>3. bench' = [bench EXCEPT !.num_sent = n]
  OBVIOUS
<1> HIDE DEF n
<1>4. /\ bench' \in [P : Conn, R : RequestNums \cup {1}, phase : 1..Phases, num_sent : Nat]
      /\ bench'.P = bench.P /\ bench'.R = bench.R /\ bench'.phase = bench.phase
      /\ bench'.num_sent = n
  BY <1>1, <1>2, <1>3 DEF n
<1> QED BY <1>4 DEF n

LEMMA BenchSendLinks ==
    ASSUME Inv, BenchSend
    PROVE  Links'
<1> DEFINE c == bench.num_sent + 1
<1>1. /\ Links /\ main = "bench" /\ pc = "start" /\ c \in Conn /\ c \in Used
      /\ bench.num_sent \in Nat /\ bench.phase \in 1..Phases
      /\ HandleUserCmd(c, BenchRequests[bench.phase], 0, "start")
      /\ bench' = [bench EXCEPT !.num_sent = @ + 1]
      /\ UNCHANGED <<main, etdb_quit, ready, calls, cliVars, libVars>>
  <2>1. Links /\ main = "bench" /\ bench.num_sent < bench.P
    BY DEF Inv, BenchSend
  <2>2. bench.num_sent \in Nat /\ bench.P \in 1..MaxConn /\ MaxConn \in Nat /\ bench.phase \in 1..Phases
    BY <2>1, ClientAssumption DEF Links, TypeOK, Conn
  <2>3. c \in Conn /\ c \in Used
    BY <2>1, <2>2 DEF Conn, Used
  <2> QED BY <2>1, <2>2, <2>3 DEF BenchSend
<1>2. /\ bench' \in [P : Conn, R : RequestNums \cup {1}, phase : 1..Phases, num_sent : Nat]
      /\ bench'.P = bench.P /\ bench'.R = bench.R /\ bench'.phase = bench.phase
      /\ bench'.num_sent = bench.num_sent + 1
  BY <1>1, BenchMoved DEF Links
<1>3. FirstPart => conn[c].asked <= conn[c].taken
  <2>1. FirstPart => conn[c].asked = 0
    <3>1. c > bench.num_sent
      BY <1>1
    <3> QED BY <1>1, <3>1 DEF Links, OneEach, FirstPart
  <2>2. conn[c].taken \in Nat
    BY <1>1, Counts
  <2> QED BY <2>1, <2>2
<1>4. BenchRequests[bench.phase] \in Asks
  BY <1>1, AsksAre
<1> HIDE DEF c
<1>5. /\ conn' \in [Conn -> Connections] /\ peer' \in [Conn -> Peers]
      /\ \A x \in Conn : Flow(x)'
      /\ \A x \in Conn \ {c} : conn'[x] = conn[x] /\ peer'[x] = peer[x]
      /\ conn'[c].sock = conn[c].sock /\ conn'[c].events = conn[c].events
      /\ FirstPart => conn'[c].asked <= conn'[c].taken + 1
      /\ conn'[c].armed /\ conn'[c].out = 0 =>
           main = "bench" /\ bench.phase >= 2 /\ conn'[c].asked > 1
      /\ pc' \in {"start", "end"}
      /\ wild' = wild \/ (wild' = wild \cup {"freed"} /\ conn[c].sock = "closed")
  BY <1>1, <1>3, <1>4, HandledLinks
<1>6. TypeOK'
  BY <1>1, <1>2, <1>5 DEF Links, TypeOK, cliVars, libVars, Used
<1>7. \A x \in Conn : Batch(x)' /\ OneEach(x)' /\ OutSet(x)'
  <2>1. \A x \in Conn : x > bench'.num_sent => x # c /\ x > bench.num_sent
    BY <1>1, <1>2, UsedConn DEF c, Links
  <2> SUFFICES ASSUME NEW x \in Conn PROVE Batch(x)' /\ OneEach(x)' /\ OutSet(x)'
    OBVIOUS
  <2>2. /\ conn'[x].sock = conn[x].sock /\ conn'[x].events = conn[x].events
        /\ FirstPart => conn'[x].asked <= conn'[x].taken + 1
        /\ conn'[x].armed /\ conn'[x].out = 0 =>
           main = "bench" /\ bench.phase >= 2 /\ conn'[x].asked > 1
    BY <1>1, <1>5 DEF Links, OneEach, OutSet
  <2>3. FirstPart' = FirstPart
    BY <1>1, <1>2 DEF FirstPart
  <2>4. OneEach(x)'
    <3>1. bench.phase = 1 /\ x > bench'.num_sent => conn'[x].asked = 0
      BY <1>1, <1>5, <2>1 DEF Links, OneEach
    <3> QED BY <1>2, <2>2, <2>3, <3>1 DEF OneEach
  <2>5. OutSet(x)'
    BY <1>1, <1>2, <2>2 DEF OutSet
  <2>6. Batch(x)'
    BY <1>1, <1>2, <1>5, <2>2 DEF Links, Batch, Used
  <2> QED BY <2>4, <2>5, <2>6
<1>8. Quits'
  <2>1. \A x \in Conn : conn'[x].sock = conn[x].sock
    BY <1>5
  <2>2. conn[c].sock = "closed" => etdb_quit = 1 /\ bench.phase >= 2
    BY <1>1 DEF Links, Quits
  <2> QED BY <1>1, <1>2, <1>5, <2>1, <2>2 DEF Links, Quits
<1> QED BY <1>5, <1>6, <1>7, <1>8 DEF Links

LEMMA BenchRecvLinks ==
    ASSUME Inv, NEW c \in Used, BenchRecv(c)
    PROVE  Links'
<1>1. /\ Links /\ main = "bench" /\ pc = "ready" /\ c \in Conn /\ c \in ready /\ MayParse(c)
      /\ HandleUserCmd(c, BenchRequests[bench.phase], 1, "ready")
      /\ bench' = [bench EXCEPT !.num_sent = @ + 1] /\ ready' = ready \ {c}
      /\ UNCHANGED <<main, etdb_quit, calls, cliVars, libVars>>
  BY UsedConn DEF BenchRecv, Inv, Links
<1>2. /\ bench' \in [P : Conn, R : RequestNums \cup {1}, phase : 1..Phases, num_sent : Nat]
      /\ bench'.P = bench.P /\ bench'.R = bench.R /\ bench'.phase = bench.phase
      /\ BenchRequests[bench.phase] \in Asks /\ conn[c].sock # "closed"
  <2>1. bench.phase \in 1..Phases
    BY <1>1 DEF Links, TypeOK
  <2>2. conn[c].sock # "closed"
    BY <1>1 DEF Links, Batch
  <2> QED BY <1>1, <2>1, <2>2, AsksAre, BenchMoved DEF Links
<1>3. /\ conn' \in [Conn -> Connections] /\ peer' \in [Conn -> Peers]
      /\ \A x \in Conn : Flow(x)'
      /\ \A x \in Conn \ {c} : conn'[x] = conn[x] /\ peer'[x] = peer[x]
      /\ conn'[c].sock = conn[c].sock /\ conn'[c].events = conn[c].events
      /\ FirstPart => conn'[c].asked <= conn'[c].taken + 1
      /\ conn'[c].armed /\ conn'[c].out = 0 =>
           main = "bench" /\ bench.phase >= 2 /\ conn'[c].asked > 1
      /\ pc' \in {"ready", "end"} /\ wild' = wild
  BY <1>1, <1>2, HandledLinks
<1>4. TypeOK'
  BY <1>1, <1>2, <1>3 DEF Links, TypeOK, cliVars, libVars, Used
<1>5. \A x \in Conn : Batch(x)' /\ OneEach(x)' /\ OutSet(x)'
  <2>1. FirstPart' = FirstPart /\ Used' = Used
    BY <1>1, <1>2 DEF FirstPart, Used
  <2> QED BY <1>1, <1>2, <1>3, <2>1 DEF Links, Batch, OneEach, OutSet
<1>6. Quits'
  BY <1>1, <1>2, <1>3 DEF Links, Quits
<1> QED BY <1>3, <1>4, <1>5, <1>6 DEF Links

\* A step of the library
LibMoves ==
    /\ main = "lib" /\ pc \in {"idle", "flush", "recv"}
    /\ pc' \in {"idle", "flush", "recv", "end"} /\ trouble' \in BOOLEAN
    /\ UNCHANGED <<main, etdb_quit, ready, calls, cliVars, bench, wild>>

LEMMA LibLinks ==
    ASSUME Links, LibMoves, NEW k \in Connections, NEW p \in Peers, FlowOf(k, p),
           conn' = [conn EXCEPT ![1] = k], peer' = [peer EXCEPT ![1] = p],
           k.sock = conn[1].sock /\ k.events = conn[1].events /\ k.armed = conn[1].armed
    PROVE  /\ Links' /\ conn'[1] = k /\ peer'[1] = p
<1>1. 1 \in Conn /\ \A x \in Conn : conn[x] \in Connections
  BY UsedConn DEF Links, TypeOK
<1>2. /\ conn' \in [Conn -> Connections] /\ peer' \in [Conn -> Peers]
      /\ conn'[1] = k /\ peer'[1] = p
      /\ \A x \in Conn \ {1} : conn'[x] = conn[x] /\ peer'[x] = peer[x]
      /\ \A x \in Conn : Flow(x)'
  BY <1>1, Changed
<1>3. TypeOK'
  BY <1>1, <1>2 DEF LibMoves, Links, TypeOK, cliVars, Used
<1>4. \A x \in Conn : Batch(x)' /\ OneEach(x)' /\ OutSet(x)'
  BY <1>1, <1>2 DEF LibMoves, Links, Batch, OneEach, OutSet, FirstPart, Used
<1>5. Quits'
  BY <1>1, <1>2 DEF LibMoves, Links, Quits
<1> QED BY <1>2, <1>3, <1>4, <1>5 DEF Links

LEMMA LibHere ==
    ASSUME Links
    PROVE  /\ 1 \in Conn /\ conn[1] \in Connections /\ peer[1] \in Peers
           /\ FlowOf(conn[1], peer[1]) /\ Typed(conn[1], peer[1])
           /\ conn = [conn EXCEPT ![1] = conn[1]] /\ peer = [peer EXCEPT ![1] = peer[1]]
           /\ pc \in {"idle", "flush", "recv"} => main = "lib"
<1>1. 1 \in Conn /\ conn[1] \in Connections /\ peer[1] \in Peers /\ FlowOf(conn[1], peer[1])
  BY UsedConn DEF Links, TypeOK, Flow
<1>2. conn = [conn EXCEPT ![1] = conn[1]] /\ peer = [peer EXCEPT ![1] = peer[1]]
  BY <1>1 DEF Links, TypeOK
<1>3. pc \in {"idle", "flush", "recv"} => main = "lib"
  BY DEF Links, TypeOK
<1> QED BY <1>1, <1>2, <1>3, Fields

\* The connection of the library after a step
LEMMA CallLinks ==
    ASSUME Links, NEW f \in LibFunctions, Call(f)
    PROVE  /\ Links' /\ conn'[1].asked = conn[1].asked + 1 /\ conn'[1].taken = conn[1].taken
           /\ conn'[1].recvd = conn[1].recvd /\ conn'[1].sock = conn[1].sock
           /\ peer'[1].todo = Append(peer[1].todo, LibRequest(f))
           /\ peer'[1].answers = peer[1].answers
<1> DEFINE k == [conn[1] EXCEPT !.asked = @ + 1, !.out = @ + ReqLen]
           p == [peer[1] EXCEPT !.todo = Append(@, LibRequest(f))]
<1>1. /\ 1 \in Conn /\ conn[1] \in Connections /\ peer[1] \in Peers
      /\ FlowOf(conn[1], peer[1]) /\ Typed(conn[1], peer[1])
  BY LibHere
<1>2. /\ conn[1].asked + 1 \in Nat /\ conn[1].out + ReqLen \in Nat
      /\ Append(peer[1].todo, LibRequest(f)) \in Seq(Asks)
      /\ conn[1].out + ReqLen <= conn[1].out + ReqLen
  <2>1. conn[1].asked \in Nat /\ conn[1].out \in Nat /\ peer[1].todo \in Seq(Asks)
    BY <1>1 DEF Typed
  <2>2. ReqLen \in Nat /\ LibRequest(f) \in Asks
    BY ClientAssumption, AsksAre
  <2> QED BY <2>1, <2>2
<1>3. /\ k \in Connections /\ k.asked = conn[1].asked + 1 /\ k.out = conn[1].out + ReqLen
      /\ k.recvd = conn[1].recvd /\ k.taken = conn[1].taken
      /\ k.sock = conn[1].sock /\ k.events = conn[1].events /\ k.armed = conn[1].armed
  <2> DEFINE a == conn[1].asked + 1
             o == conn[1].out + ReqLen
  <2>1. k = [conn[1] EXCEPT !.asked = a, !.out = o] /\ a \in Nat /\ o \in Nat
    BY <1>2
  <2> HIDE DEF a, o, k
  <2>2. /\ k \in Connections /\ k.asked = a /\ k.out = o
        /\ k.recvd = conn[1].recvd /\ k.taken = conn[1].taken
        /\ k.sock = conn[1].sock /\ k.events = conn[1].events /\ k.armed = conn[1].armed
    BY <1>1, <2>1 DEF Connections
  <2> QED BY <2>2 DEF a, o
<1>4. /\ p \in Peers /\ p.todo = Append(peer[1].todo, LibRequest(f))
      /\ p.served = peer[1].served /\ p.answers = peer[1].answers /\ p.wire = peer[1].wire
  BY <1>1, <1>2 DEF Peers
<1>5. conn' = [conn EXCEPT ![1] = k] /\ peer' = [peer EXCEPT ![1] = p] /\ LibMoves
  <2>1. trouble' \in BOOLEAN
    BY DEF Links, TypeOK, Call
  <2> QED BY <2>1 DEF Call, libOnly, LibMoves
<1> HIDE DEF k, p
<1>6. FlowOf(k, p)
  BY ZenonT(40), <1>1, <1>2, <1>3, <1>4, FlowAsk
<1>7. Links' /\ conn'[1] = k /\ peer'[1] = p
  BY <1>3, <1>4, <1>5, <1>6, LibLinks
<1> QED BY <1>3, <1>4, <1>7

LEMMA FlushLinks ==
    ASSUME Links, Flush
    PROVE  /\ Links' /\ conn'[1].asked = conn[1].asked /\ conn'[1].taken = conn[1].taken
           /\ conn'[1].recvd = conn[1].recvd /\ conn'[1].sock = conn[1].sock
           /\ peer' = peer
<1>1. PICK n \in 1..conn[1].out :
        conn' = [conn EXCEPT ![1].out = @ - n] /\ pc' \in {"recv", "flush"}
  BY DEF Flush
<1> DEFINE k == [conn[1] EXCEPT !.out = conn[1].out - n]
<1>2. /\ 1 \in Conn /\ conn[1] \in Connections /\ peer[1] \in Peers
      /\ FlowOf(conn[1], peer[1]) /\ Typed(conn[1], peer[1]) /\ main = "lib"
      /\ peer = [peer EXCEPT ![1] = peer[1]]
  BY LibHere DEF Flush
<1>3. /\ conn[1].out - n \in Nat /\ conn[1].out - n <= conn[1].out
      /\ conn[1].recvd \in Nat /\ peer[1].wire \in Nat
  BY <1>2 DEF Typed
<1>4. conn' = [conn EXCEPT ![1] = k] /\ peer' = [peer EXCEPT ![1] = peer[1]] /\ LibMoves
  <2>1. trouble' \in BOOLEAN
    BY DEF Links, TypeOK, Flush, libVars
  <2>2. conn' = [conn EXCEPT ![1] = k]
    BY <1>1
  <2> HIDE DEF k
  <2> QED BY <1>1, <1>2, <2>1, <2>2 DEF Flush, libOnly, LibMoves
<1>5. /\ k \in Connections /\ k.asked = conn[1].asked /\ k.out = conn[1].out - n
      /\ k.recvd = conn[1].recvd /\ k.taken = conn[1].taken
      /\ k.sock = conn[1].sock /\ k.events = conn[1].events /\ k.armed = conn[1].armed
  BY <1>2, <1>3 DEF Connections
<1> HIDE DEF k
<1>6. FlowOf(k, peer[1])
  <2>1. conn[1].recvd >= conn[1].recvd
        /\ conn[1].recvd + peer[1].wire <= conn[1].recvd + peer[1].wire
    BY <1>3
  <2> QED BY <1>2, <1>3, <1>5, <2>1, FlowMove
<1>7. Links' /\ conn'[1] = k
  BY <1>2, <1>4, <1>5, <1>6, LibLinks
<1> QED BY <1>2, <1>4, <1>5, <1>7

LEMMA LibReadsLinks ==
    ASSUME Links, LibReads
    PROVE  /\ Links' /\ conn'[1].asked = conn[1].asked /\ conn'[1].taken = conn[1].taken
           /\ conn'[1].recvd \in Nat /\ conn[1].recvd \in Nat /\ conn'[1].recvd >= conn[1].recvd
           /\ conn'[1].sock = conn[1].sock
           /\ peer'[1].todo = peer[1].todo /\ peer'[1].answers = peer[1].answers
<1>1. PICK n \in 1..peer[1].wire : /\ conn' = [conn EXCEPT ![1].recvd = @ + n]
                                   /\ peer' = [peer EXCEPT ![1].wire = @ - n]
  BY DEF LibReads
<1> DEFINE k == [conn[1] EXCEPT !.recvd = conn[1].recvd + n]
           p == [peer[1] EXCEPT !.wire = peer[1].wire - n]
<1>2. /\ 1 \in Conn /\ conn[1] \in Connections /\ peer[1] \in Peers
      /\ FlowOf(conn[1], peer[1]) /\ Typed(conn[1], peer[1]) /\ main = "lib"
  BY LibHere DEF LibReads
<1>3. /\ conn[1].recvd \in Nat /\ peer[1].wire \in Nat /\ conn[1].out \in Nat
      /\ conn[1].recvd + n \in Nat /\ peer[1].wire - n \in Nat
  BY SMTT(30), <1>2 DEF Typed
<1>4. conn' = [conn EXCEPT ![1] = k] /\ peer' = [peer EXCEPT ![1] = p] /\ LibMoves
  <2>1. trouble' \in BOOLEAN
    BY DEF Links, TypeOK, LibReads, libVars
  <2>2. conn' = [conn EXCEPT ![1] = k] /\ peer' = [peer EXCEPT ![1] = p]
    BY <1>1
  <2> HIDE DEF k, p
  <2> QED BY <1>1, <1>2, <2>1, <2>2 DEF LibReads, libOnly, LibMoves
<1>5. /\ k \in Connections /\ k.asked = conn[1].asked /\ k.out = conn[1].out
      /\ k.recvd = conn[1].recvd + n /\ k.taken = conn[1].taken
      /\ k.sock = conn[1].sock /\ k.events = conn[1].events /\ k.armed = conn[1].armed
  BY <1>2, <1>3 DEF Connections
<1>6. /\ p \in Peers /\ p.wire = peer[1].wire - n /\ p.todo = peer[1].todo
      /\ p.served = peer[1].served /\ p.answers = peer[1].answers
  BY <1>2, <1>3 DEF Peers
<1> HIDE DEF k, p
<1>7. FlowOf(k, p) /\ conn[1].recvd + n >= conn[1].recvd
  <2>1. conn[1].out <= conn[1].out /\ conn[1].recvd + n >= conn[1].recvd
        /\ (conn[1].recvd + n) + (peer[1].wire - n) <= conn[1].recvd + peer[1].wire
    BY <1>3
  <2> QED BY <1>2, <1>5, <1>6, <2>1, FlowMove
<1>8. Links' /\ conn'[1] = k /\ peer'[1] = p
  BY <1>4, <1>5, <1>6, <1>7, LibLinks
<1> QED BY <1>3, <1>5, <1>6, <1>7, <1>8

LEMMA LibReturnsLinks ==
    ASSUME Links, LibReturns
    PROVE  /\ Links' /\ conn'[1].asked = conn[1].asked /\ conn'[1].taken = conn[1].taken + 1
           /\ conn'[1].sock = conn[1].sock /\ peer'[1].todo = peer[1].todo
           /\ peer'[1].answers = Tail(peer[1].answers)
<1> DEFINE k == [conn[1] EXCEPT !.taken = @ + 1]
           p == [peer[1] EXCEPT !.answers = Tail(@)]
<1>1. 1 \in Conn /\ conn[1] \in Connections /\ peer[1] \in Peers /\ main = "lib" /\ MayParse(1)
  BY LibHere DEF LibReturns
<1>2. /\ k \in Connections /\ p \in Peers /\ FlowOf(k, p)
      /\ conn' = [conn EXCEPT ![1] = k] /\ peer' = [peer EXCEPT ![1] = p]
  BY <1>1, TakeFlow DEF LibReturns
<1>3. /\ k.asked = conn[1].asked /\ k.taken = conn[1].taken + 1 /\ k.sock = conn[1].sock
      /\ k.events = conn[1].events /\ k.armed = conn[1].armed
      /\ p.todo = peer[1].todo /\ p.answers = Tail(peer[1].answers)
  BY <1>1 DEF Connections, Peers
<1> HIDE DEF k, p
<1>4. LibMoves
  <2>1. trouble' \in BOOLEAN
    BY DEF Links, TypeOK, LibReturns
  <2> QED BY <1>1, <2>1 DEF LibReturns, libOnly, LibMoves
<1>5. Links' /\ conn'[1] = k /\ peer'[1] = p
  BY <1>2, <1>3, <1>4, LibLinks
<1> QED BY <1>3, <1>5

LEMMA LibStopsLinks ==
    ASSUME Links, FlushFails \/ Killed \/ LibRefuses \/ LibReadFails
    PROVE  Links' /\ UNCHANGED <<conn, peer>>
<1>1. /\ 1 \in Conn /\ conn[1] \in Connections /\ peer[1] \in Peers
      /\ FlowOf(conn[1], peer[1]) /\ main = "lib"
      /\ conn = [conn EXCEPT ![1] = conn[1]] /\ peer = [peer EXCEPT ![1] = peer[1]]
  BY LibHere DEF FlushFails, Killed, LibRefuses, LibReadFails
<1>2. UNCHANGED <<conn, peer>> /\ LibMoves
  <2>1. trouble \in BOOLEAN
    BY DEF Links, TypeOK
  <2>2. trouble' \in BOOLEAN
    BY <2>1 DEF FlushFails, Killed, LibRefuses, LibReadFails, CallFails, libVars
  <2> QED BY <1>1, <2>2
        DEF FlushFails, Killed, LibRefuses, LibReadFails, CallFails, libOnly, LibMoves
<1>3. Links'
  BY <1>1, <1>2, LibLinks
<1> QED BY <1>2, <1>3

-----------------------------------------------------------------------------
(* The steps: the library *)

LEMMA Appended ==
    ASSUME NEW S, NEW s \in Seq(S), NEW e \in S
    PROVE  /\ Append(s, e) \in Seq(S) /\ Len(s) \in Nat /\ Len(Append(s, e)) = Len(s) + 1
           /\ \A i \in 1..Len(s) : Append(s, e)[i] = s[i]
           /\ Append(s, e)[Len(s) + 1] = e
           /\ \A i \in 1..Len(Append(s, e)) : i \in 1..Len(s) \/ i = Len(s) + 1
           /\ Append(s, e) # << >> /\ (s # << >> => Head(Append(s, e)) = Head(s))
<1>1. /\ Append(s, e) \in Seq(S) /\ Len(s) \in Nat /\ Len(Append(s, e)) = Len(s) + 1
      /\ \A i \in 1..Len(s) : Append(s, e)[i] = s[i]
      /\ Append(s, e)[Len(s) + 1] = e
  OBVIOUS
<1>2. \A i \in 1..Len(Append(s, e)) : i \in 1..Len(s) \/ i = Len(s) + 1
  BY <1>1
<1>3. Append(s, e) # << >>
  BY <1>1
<1>4. ASSUME s # << >> PROVE Head(Append(s, e)) = Head(s)
  <2>1. Len(s) > 0
    BY <1>4
  <2>2. Append(s, e)[1] = s[1]
    BY <1>1, <2>1
  <2>3. Head(Append(s, e)) = Append(s, e)[1]
    BY <1>1, <1>3
  <2> QED BY <1>4, <2>2, <2>3
<1> QED BY <1>1, <1>2, <1>3, <1>4

LEMMA Shortened ==
    ASSUME NEW S, NEW s \in Seq(S), s # << >>
    PROVE  /\ Tail(s) \in Seq(S) /\ Len(s) \in Nat /\ Len(s) > 0 /\ Len(Tail(s)) = Len(s) - 1
           /\ \A i \in 1..Len(Tail(s)) : i + 1 \in 1..Len(s) /\ Tail(s)[i] = s[i + 1]
           /\ Head(s) = s[1] /\ Head(s) \in S
OBVIOUS

LEMMA UnitsNat ==
    \A n \in Nat : Consumed(n) \in Nat /\ RespUnits(n) \in Nat /\ ReqUnits(n) \in Nat
BY Lengths

LEMMA StuckStays ==
    ASSUME Links, Links', Stuck, peer'[1].answers # << >>,
           Head(peer'[1].answers) = Head(peer[1].answers),
           conn'[1].recvd >= conn[1].recvd, conn'[1].taken = conn[1].taken
    PROVE  Stuck'
<1>1. /\ conn[1].recvd \in Nat /\ conn'[1].recvd \in Nat /\ conn[1].taken \in Nat
  BY UsedConn DEF Links, TypeOK, Connections
<1>2. TooLong(1)'
  BY DEF Stuck, TooLong, Reply
<1>3. MayParse(1)'
  <2> DEFINE a == Consumed(conn[1].taken)
             b == Consumed(conn[1].taken + 1)
  <2>1. a \in Nat /\ b \in Nat
    <3>1. conn[1].taken + 1 \in Nat
      BY <1>1
    <3> QED BY <1>1, <3>1, UnitsNat
  <2>2. conn[1].recvd - a >= b - a
    BY DEF Stuck, MayParse, Held
  <2> HIDE DEF a, b
  <2>3. conn'[1].recvd - a >= b - a
    BY <1>1, <2>1, <2>2
  <2> QED BY <2>3 DEF MayParse, Held, a, b
<1> QED BY <1>2, <1>3 DEF Stuck

\* What the call gave back has a number only after a reply
LEMMA GivenIs ==
    /\ "to" \notin DOMAIN Nothing /\ Nothing \in Returns
    /\ \A f \in LibFunctions : /\ [fn |-> f] \in Returns /\ [fn |-> f] \in [fn : LibFunctions]
    /\ \A r \in [fn : LibFunctions] : "to" \notin DOMAIN r /\ r.fn \in LibFunctions
<1>1. "to" \notin DOMAIN Nothing /\ Nothing \in Returns
  BY DEF Nothing, Returns
<1>2. \A f \in LibFunctions : /\ [fn |-> f] \in Returns /\ [fn |-> f] \in [fn : LibFunctions]
  BY DEF Returns
<1>3. \A r \in [fn : LibFunctions] : "to" \notin DOMAIN r /\ r.fn \in LibFunctions
  OBVIOUS
<1> QED BY <1>1, <1>2, <1>3

LEMMA ServerAnswersLib ==
    ASSUME Inv, NEW c \in Conn, ServerAnswers(c), main = "lib"
    PROVE  LibInv'
<1>1. Links /\ Links' /\ Talk /\ Given /\ (~trouble => InTime) /\ 1 \in Conn
  BY ServerAnswersLinks, UsedConn DEF Inv, LibInv, Links
<1>2. PICK a \in AnswerType :
             /\ a \in Answers(Head(peer[c].todo), peer[c].slot, CallsAfter(Head(peer[c].todo), calls))
             /\ calls' = CallsAfter(Head(peer[c].todo), calls)
             /\ calls' \in [DOMAIN Commands -> Nat]
             /\ Served(c, a) \in Peers
             /\ peer' = [peer EXCEPT ![c] = Served(c, a)]
  BY <1>1, ServerAnswersIs
<1>3. UNCHANGED <<main, pc, conn, ret, trouble>>
  BY DEF ServerAnswers, libVars
<1>4. CASE c # 1
  <2>1. peer'[1] = peer[1]
    BY <1>1, <1>2, <1>4 DEF Links, TypeOK
  <2>2. Talk' /\ Given'
    BY <1>1, <1>3, <2>1 DEF Talk, Given
  <2>3. Stuck' = Stuck
    BY <1>3, <2>1 DEF Stuck, TooLong, Reply, MayParse, Held
  <2>4. InTime => InTime'
    BY <1>3, <2>3 DEF InTime
  <2> QED BY <1>1, <1>3, <2>2, <2>4 DEF LibInv
<1>5. CASE c = 1
  <2> DEFINE as == peer[1].answers
             new == [to |-> peer[1].served + 1, answer |-> a]
             r == Head(peer[1].todo)
  <2>1. /\ peer'[1].todo = Tail(peer[1].todo) /\ peer'[1].answers = Append(as, new)
    BY <1>1, <1>2, <1>5 DEF Links, TypeOK, Served
  <2>2. /\ Len(peer[1].todo) > 0 /\ peer[1].todo \in Seq(Asks) /\ r = peer[1].todo[1]
    BY <1>1, <1>5, ServedFlow
  <2>3. as \in Seq(Replies) /\ new \in Replies /\ peer[1].slot \in Nat
    <3>1. peer[1] \in Peers
      BY <1>1 DEF Links, TypeOK
    <3>2. as \in Seq(Replies) /\ peer[1].slot \in Nat /\ peer[1].served \in Nat
      BY <3>1 DEF Peers
    <3>3. peer[1].served + 1 \in Nat
      BY <3>2
    <3> QED BY <3>2, <3>3 DEF Replies
  <2>4. a.recs[1] \in Statuses
    <3>1. PICK f \in LibFunctions : r = LibRequest(f)
      BY <1>1, <2>2 DEF Talk
    <3>2. Accepted(ToLower(r))
      BY <3>1, LibAccepted
    <3>3. CallsAfter(r, calls) \in [DOMAIN Commands -> Nat]
      BY <1>2, <1>5
    <3> QED BY <1>2, <1>5, <2>3, <3>2, <3>3, AnswersAre
  <2>5. Talk'
    <3>1. \A i \in 1..Len(peer'[1].todo) : peer'[1].todo[i] \in {LibRequest(f) : f \in LibFunctions}
      <4>1. \A i \in 1..Len(Tail(peer[1].todo)) :
              i + 1 \in 1..Len(peer[1].todo) /\ Tail(peer[1].todo)[i] = peer[1].todo[i + 1]
        BY <2>2
      <4> QED BY <1>1, <2>1, <4>1 DEF Talk
    <3>2. \A i \in 1..Len(peer'[1].answers) : peer'[1].answers[i].answer.recs[1] \in Statuses
      <4> SUFFICES ASSUME NEW i \in 1..Len(Append(as, new))
                   PROVE  Append(as, new)[i].answer.recs[1] \in Statuses
        BY <2>1
      <4>1. CASE i = Len(as) + 1
        <5>1. Append(as, new)[i] = new
          BY <2>3, <4>1
        <5> QED BY <2>4, <5>1
      <4>2. CASE i \in 1..Len(as)
        <5>1. Append(as, new)[i] = as[i]
          BY <2>3, <4>2
        <5> QED BY <1>1, <4>2, <5>1 DEF Talk
      <4>3. i \in 1..Len(as) \/ i = Len(as) + 1
        <5> HIDE DEF as, new
        <5> QED BY <2>3, Appended
      <4> QED BY <4>1, <4>2, <4>3
    <3> QED BY <3>1, <3>2 DEF Talk
  <2>6. Given'
    BY <1>1, <1>3 DEF Given
  <2>7. Stuck => Stuck'
    <3>1. as # << >> => peer'[1].answers # << >> /\ Head(peer'[1].answers) = Head(as)
      <4> HIDE DEF as, new
      <4>1. Append(as, new) # << >> /\ (as # << >> => Head(Append(as, new)) = Head(as))
        <5> HIDE <1>1, <1>2, <1>3, <1>5
        <5>1. \A S : \A s \in Seq(S), e \in S :
                Append(s, e) # << >> /\ (s # << >> => Head(Append(s, e)) = Head(s))
          BY Appended
        <5> QED BY <2>3, <5>1
      <4> QED BY <2>1, <4>1
    <3>2. conn'[1].recvd >= conn[1].recvd /\ conn'[1].taken = conn[1].taken
      <4>1. conn[1].recvd \in Nat
        BY <1>1 DEF Links, TypeOK, Connections
      <4>2. conn[1].recvd >= conn[1].recvd
        BY <4>1
      <4> QED BY <1>3, <4>2
    <3> QED BY <1>1, <3>1, <3>2, StuckStays DEF Stuck
  <2>8. InTime => InTime'
    BY <1>3, <2>7 DEF InTime
  <2> QED BY <1>1, <1>3, <2>5, <2>6, <2>8 DEF LibInv
<1> QED BY <1>4, <1>5

LEMMA ServerClosesLib ==
    ASSUME Inv, NEW c \in Conn, ServerCloses(c), main = "lib"
    PROVE  LibInv'
<1>1. Links /\ Talk /\ Given /\ (~trouble => InTime) /\ 1 \in Conn
  BY UsedConn DEF Inv, LibInv, Links
<1>2. UNCHANGED <<main, pc, ret, trouble>>
  BY DEF ServerCloses, libVars
<1>3. /\ conn'[1].asked = conn[1].asked /\ conn'[1].taken = conn[1].taken
      /\ conn'[1].recvd = conn[1].recvd /\ conn'[1].sock \in {conn[1].sock, "reset"}
      /\ peer'[1].todo = peer[1].todo /\ peer'[1].answers = peer[1].answers
  <2>1. /\ conn \in [Conn -> Connections] /\ conn[1] \in Connections
        /\ peer \in [Conn -> Peers] /\ peer[1] \in Peers
    BY <1>1 DEF Links, TypeOK
  <2>2. conn' = [conn EXCEPT ![c].sock = "reset"] /\ peer' = [peer EXCEPT ![c].wire = 0]
    BY DEF ServerCloses
  <2>3. CASE c = 1
    BY <2>1, <2>2, <2>3 DEF Connections, Peers
  <2>4. CASE c # 1
    BY <1>1, <2>1, <2>2, <2>4
  <2> QED BY <2>3, <2>4
<1>4. Stuck' = Stuck
  BY <1>3 DEF Stuck, TooLong, Reply, MayParse, Held
<1>5. Talk' /\ Given'
  BY <1>1, <1>2, <1>3 DEF Talk, Given
<1>6. InTime => InTime'
  BY <1>2, <1>3, <1>4 DEF InTime
<1> QED BY <1>1, <1>2, <1>5, <1>6 DEF LibInv

\* A call of the library puts its request behind those that have their answers
LEMMA CallLib ==
    ASSUME Inv, NEW f \in LibFunctions, Call(f)
    PROVE  LibInv'
<1>1. /\ Links /\ Talk /\ Given /\ (~trouble => InTime) /\ main = "lib" /\ pc = "idle"
      /\ main' = main /\ pc' = "flush" /\ ret' = [fn |-> f] /\ trouble' = trouble
  BY DEF Inv, LibInv, Call, libOnly
<1>2. /\ Links' /\ conn'[1].asked = conn[1].asked + 1 /\ conn'[1].taken = conn[1].taken
      /\ conn'[1].recvd = conn[1].recvd /\ conn'[1].sock = conn[1].sock
      /\ peer'[1].todo = Append(peer[1].todo, LibRequest(f))
      /\ peer'[1].answers = peer[1].answers
  BY <1>1, CallLinks
<1>3. peer[1].todo \in Seq(Asks) /\ LibRequest(f) \in Asks
  BY <1>1, LibHere, AsksAre DEF Typed
<1>4. Talk'
  <2> DEFINE t == peer[1].todo
             r == LibRequest(f)
  <2>1. /\ Len(t) \in Nat /\ \A i \in 1..Len(t) : Append(t, r)[i] = t[i]
        /\ Append(t, r)[Len(t) + 1] = r
        /\ \A i \in 1..Len(Append(t, r)) : i \in 1..Len(t) \/ i = Len(t) + 1
    BY <1>3, Appended
  <2>2. /\ \A i \in 1..Len(t) : t[i] \in {LibRequest(g) : g \in LibFunctions}
        /\ r \in {LibRequest(g) : g \in LibFunctions}
    BY <1>1 DEF Talk
  <2> HIDE DEF t, r
  <2>3. \A i \in 1..Len(Append(t, r)) : Append(t, r)[i] \in {LibRequest(g) : g \in LibFunctions}
    BY <2>1, <2>2
  <2> QED BY <1>1, <1>2, <2>3 DEF Talk, t, r
<1>5. Given'
  BY <1>1, GivenIs DEF Given
<1>6. Stuck' = Stuck
  BY <1>2 DEF Stuck, TooLong, Reply, MayParse, Held
<1>7. InTime => InTime'
  <2>1. "to" \notin DOMAIN ret'
    BY <1>1 DEF Given
  <2> QED BY <1>1, <1>2, <1>6, <2>1 DEF InTime
<1> QED BY <1>1, <1>4, <1>5, <1>7 DEF LibInv

LEMMA FlushLib ==
    ASSUME Inv, Flush
    PROVE  LibInv'
<1>1. /\ Links /\ Talk /\ Given /\ (~trouble => InTime) /\ main = "lib" /\ pc = "flush"
      /\ main' = main /\ pc' \in {"flush", "recv"} /\ UNCHANGED libVars /\ conn[1].sock = "up"
  BY LibHere DEF Inv, LibInv, Flush, libOnly
<1>2. /\ conn'[1].asked = conn[1].asked /\ conn'[1].taken = conn[1].taken
      /\ conn'[1].recvd = conn[1].recvd /\ conn'[1].sock = conn[1].sock
      /\ peer' = peer
  BY <1>1, FlushLinks
<1>3. Stuck' = Stuck
  BY <1>2 DEF Stuck, TooLong, Reply, MayParse, Held
<1> QED BY <1>1, <1>2, <1>3 DEF LibInv, Talk, Given, InTime, libVars

LEMMA LibReadsLib ==
    ASSUME Inv, LibReads
    PROVE  LibInv'
<1>1. /\ Links /\ Talk /\ Given /\ (~trouble => InTime) /\ main = "lib" /\ pc = "recv"
      /\ main' = main /\ pc' = pc /\ UNCHANGED libVars
  BY LibHere DEF Inv, LibInv, LibReads, libOnly
<1>2. /\ Links' /\ conn'[1].asked = conn[1].asked /\ conn'[1].taken = conn[1].taken
      /\ conn'[1].recvd >= conn[1].recvd /\ conn'[1].sock = conn[1].sock
      /\ peer'[1].todo = peer[1].todo /\ peer'[1].answers = peer[1].answers
  BY <1>1, LibReadsLinks
<1>3. Stuck => Stuck'
  BY <1>1, <1>2, StuckStays DEF Stuck
<1> QED BY <1>1, <1>2, <1>3 DEF LibInv, Talk, Given, InTime, libVars

LEMMA LibStopsLib ==
    ASSUME Inv, FlushFails \/ Killed \/ LibRefuses \/ LibReadFails
    PROVE  LibInv'
<1>1. /\ Links /\ Talk /\ Given /\ (~trouble => InTime) /\ main = "lib"
      /\ main' = main /\ UNCHANGED <<conn, peer>>
  BY LibHere, LibStopsLinks
     DEF Inv, LibInv, FlushFails, Killed, LibRefuses, LibReadFails, CallFails, libOnly
<1>2. Talk' /\ Stuck' = Stuck
  BY <1>1 DEF Talk, Stuck, TooLong, Reply, MayParse, Held
<1>3. CASE Killed
  <2>1. pc' = "end" /\ UNCHANGED libVars /\ pc = "flush"
    BY <1>3 DEF Killed
  <2> QED BY <1>1, <1>2, <2>1 DEF LibInv, Given, InTime, libVars
<1>4. CASE FlushFails \/ LibReadFails \/ LibRefuses
  <2>1. pc' = "idle" /\ ret' = Nothing
    BY <1>4 DEF FlushFails, LibReadFails, LibRefuses, CallFails
  <2>2. Given'
    BY <2>1, GivenIs DEF Given
  <2>3. ~trouble' => ~trouble /\ (conn[1].sock = "up" => Stuck)
    <3>1. CASE FlushFails \/ LibReadFails
      BY <3>1 DEF FlushFails, LibReadFails
    <3>2. CASE LibRefuses
      BY <1>1, <3>2, LibHere, TakeFlow DEF LibRefuses, Stuck
    <3> QED BY <1>4, <3>1, <3>2
  <2>4. ~trouble' => InTime'
    BY <1>1, <1>2, <2>1, <2>3, GivenIs DEF InTime
  <2> QED BY <1>1, <1>2, <2>2, <2>4 DEF LibInv
<1> QED BY <1>3, <1>4

\* A call returns with the answer to its own request
LEMMA LibReturnsLib ==
    ASSUME Inv, LibReturns
    PROVE  LibInv'
<1>1. /\ Links /\ Talk /\ Given /\ (~trouble => InTime) /\ main = "lib" /\ pc = "recv"
      /\ main' = main /\ pc' = "idle" /\ trouble' = trouble /\ MayParse(1) /\ ~TooLong(1)
  BY LibHere DEF Inv, LibInv, LibReturns, libOnly
<1>2. /\ conn'[1].asked = conn[1].asked /\ conn'[1].taken = conn[1].taken + 1
      /\ conn'[1].sock = conn[1].sock /\ peer'[1].todo = peer[1].todo
      /\ peer'[1].answers = Tail(peer[1].answers)
  BY <1>1, LibReturnsLinks
<1>3. /\ peer[1].answers # << >> /\ Reply(1) = peer[1].answers[1] /\ Reply(1) \in Replies
      /\ Reply(1).to = conn[1].taken + 1 /\ peer[1].answers \in Seq(Replies)
      /\ Len(peer[1].answers) > 0
  BY <1>1, LibHere, TakeFlow DEF Typed
<1>4. Talk'
  <2>1. \A i \in 1..Len(Tail(peer[1].answers)) :
          i + 1 \in 1..Len(peer[1].answers) /\ Tail(peer[1].answers)[i] = peer[1].answers[i + 1]
    BY <1>3, Shortened
  <2> QED BY <1>1, <1>2, <2>1 DEF Talk
<1> DEFINE recs == Reply(1).answer.recs
           value == IF LibCalls[ret.fn].gives = "value" /\ Len(recs) > 1
                    THEN recs[2] ELSE "as before"
<1>5. ret' = [fn |-> ret.fn, to |-> Reply(1).to, status |-> recs[1], value |-> value]
  BY DEF LibReturns
<1>6. recs[1] \in Statuses /\ recs \in Seq(Texts) /\ Reply(1).to \in Nat
  <2>1. recs \in Seq(Texts) /\ Reply(1).to \in Nat
    BY <1>3 DEF Replies, AnswerType
  <2>2. 1 \in 1..Len(peer[1].answers)
    BY <1>3
  <2>3. peer[1].answers[1].answer.recs[1] \in Statuses
    BY <1>1, <2>2 DEF Talk
  <2> QED BY <1>3, <2>1, <2>3
<1>7. value \in Texts
  <2>1. "as before" \in Texts
    BY DEF Texts
  <2>2. Len(recs) > 1 => recs[2] \in Texts
    <3> HIDE DEF recs
    <3> QED BY <1>6
  <2> QED BY <2>1, <2>2
<1>8. ret.fn \in LibFunctions
  BY <1>1, GivenIs DEF Given
<1> HIDE DEF value
<1>9. Given'
  <2>1. ret' \in Returns
    BY <1>5, <1>6, <1>7, <1>8 DEF Returns
  <2> QED BY <1>1, <2>1 DEF Given
<1>10. InTime => InTime'
  <2>1. InTime => conn[1].asked = conn[1].taken + 1
    BY <1>1 DEF InTime, Stuck
  <2>2. ret'.to = conn[1].taken + 1
    BY <1>3, <1>5
  <2> QED BY <1>1, <1>2, <2>1, <2>2 DEF InTime
<1> QED BY <1>1, <1>4, <1>9, <1>10 DEF LibInv

-----------------------------------------------------------------------------
(* The steps: the benchmark *)

LEMMA PairIn ==
    ASSUME NEW U, NEW k
    PROVE  /\ \A c, n : <<c, n>> \in AskedIn(U, k) <=> c \in U /\ n \in 1..k[c].asked
           /\ \A r \in AskedIn(U, k) : \E c \in U : \E n \in 1..k[c].asked : r = <<c, n>>
BY DEF AskedIn

LEMMA AskSame ==
    ASSUME NEW U, NEW k, NEW k2,
           \A x \in U : k2[x].asked = k[x].asked /\ k2[x].taken = k[x].taken
    PROVE  AskedIn(U, k2) = AskedIn(U, k) /\ WaitingIn(U, k2) = WaitingIn(U, k)
<1>1. AskedIn(U, k2) = AskedIn(U, k)
  BY DEF AskedIn
<1>2. ASSUME NEW r \in AskedIn(U, k) PROVE k2[r[1]].taken = k[r[1]].taken
  BY PairIn
<1>3. WaitingIn(U, k2) = WaitingIn(U, k)
  BY <1>1, <1>2 DEF WaitingIn
<1> QED BY <1>1, <1>3

\* A request more on one connection
LEMMA AskMore ==
    ASSUME NEW U, NEW k, NEW k2, NEW c \in U,
           k[c].asked \in Nat, k[c].taken \in Nat, k[c].taken <= k[c].asked,
           k2[c].asked = k[c].asked + 1, k2[c].taken = k[c].taken,
           \A x \in U \ {c} : k2[x].asked = k[x].asked /\ k2[x].taken = k[x].taken
    PROVE  LET r == <<c, k[c].asked + 1>>
           IN  /\ AskedIn(U, k2) = AskedIn(U, k) \cup {r} /\ r \notin AskedIn(U, k)
               /\ WaitingIn(U, k2) = WaitingIn(U, k) \cup {r} /\ r \notin WaitingIn(U, k)
<1> DEFINE n == k[c].asked
           r == <<c, n + 1>>
<1>1. \A x, m : <<x, m>> \in AskedIn(U, k) <=> x \in U /\ m \in 1..k[x].asked
  BY PairIn
<1>2. \A x, m : <<x, m>> \in AskedIn(U, k2) <=> x \in U /\ m \in 1..k2[x].asked
  BY PairIn
<1>3. r \notin AskedIn(U, k) /\ r \in AskedIn(U, k2)
  <2>1. n + 1 \notin 1..n /\ n + 1 \in 1..(n + 1)
    OBVIOUS
  <2> QED BY <1>1, <1>2, <2>1
<1>4. ASSUME NEW s \in AskedIn(U, k2) PROVE s \in AskedIn(U, k) \cup {r}
  <2>1. PICK x \in U, m \in Nat : m \in 1..k2[x].asked /\ s = <<x, m>>
    BY PairIn
  <2>2. CASE x = c
    <3>1. m \in 1..n \/ m = n + 1
      BY <2>1, <2>2
    <3> QED BY <1>1, <2>1, <2>2, <3>1
  <2>3. CASE x # c
    BY <1>1, <2>1, <2>3
  <2> QED BY <2>2, <2>3
<1>5. ASSUME NEW s \in AskedIn(U, k) PROVE s \in AskedIn(U, k2)
  <2>1. PICK x \in U, m \in Nat : m \in 1..k[x].asked /\ s = <<x, m>>
    BY PairIn
  <2>2. CASE x = c
    <3>1. m \in 1..(n + 1)
      BY <2>1, <2>2
    <3> QED BY <1>2, <2>1, <2>2, <3>1
  <2>3. CASE x # c
    BY <1>2, <2>1, <2>3
  <2> QED BY <2>2, <2>3
<1>6. AskedIn(U, k2) = AskedIn(U, k) \cup {r}
  BY <1>3, <1>4, <1>5
<1>7. \A s \in AskedIn(U, k) : k2[s[1]].taken = k[s[1]].taken
  BY PairIn
<1>8. r[2] > k2[r[1]].taken
  <2>1. n + 1 > k[c].taken
    OBVIOUS
  <2> QED BY <2>1
<1> HIDE DEF r
<1>9. WaitingIn(U, k2) = WaitingIn(U, k) \cup {r} /\ r \notin WaitingIn(U, k)
  BY <1>3, <1>6, <1>7, <1>8 DEF WaitingIn
<1> QED BY <1>3, <1>6, <1>9 DEF r

\* A reply more on one connection
LEMMA TakeMore ==
    ASSUME NEW U, NEW k, NEW k2, NEW c \in U,
           k[c].asked \in Nat, k[c].taken \in Nat, k[c].taken < k[c].asked,
           k2[c].asked = k[c].asked, k2[c].taken = k[c].taken + 1,
           \A x \in U \ {c} : k2[x].asked = k[x].asked /\ k2[x].taken = k[x].taken
    PROVE  LET r == <<c, k[c].taken + 1>>
           IN  /\ AskedIn(U, k2) = AskedIn(U, k)
               /\ WaitingIn(U, k2) = WaitingIn(U, k) \ {r} /\ r \in WaitingIn(U, k)
<1> DEFINE n == k[c].taken
           r == <<c, n + 1>>
<1>1. AskedIn(U, k2) = AskedIn(U, k)
  BY DEF AskedIn
<1>2. r \in WaitingIn(U, k)
  <2>1. n + 1 \in 1..k[c].asked /\ n + 1 > n
    OBVIOUS
  <2>2. r \in AskedIn(U, k)
    BY <2>1, PairIn
  <2> QED BY <2>1, <2>2 DEF WaitingIn
<1>3. ASSUME NEW s \in AskedIn(U, k)
      PROVE  s[2] > k2[s[1]].taken <=> s[2] > k[s[1]].taken /\ s # r
  <2>1. PICK x \in U, m \in Nat : m \in 1..k[x].asked /\ s = <<x, m>>
    BY PairIn
  <2>2. CASE x = c
    <3>1. m \in Nat
      BY <2>1, <2>2
    <3>2. m > n + 1 <=> m > n /\ m # n + 1
      BY <3>1
    <3> QED BY <2>1, <2>2, <3>2
  <2>3. CASE x # c
    BY <2>1, <2>3
  <2> QED BY <2>2, <2>3
<1> HIDE DEF r
<1>4. WaitingIn(U, k2) = WaitingIn(U, k) \ {r}
  BY <1>1, <1>3 DEF WaitingIn
<1> QED BY <1>1, <1>2, <1>4 DEF r

\* Where the count of a part stands
Stand ==
    LET sent == bench.num_sent + (IF pc = "start" THEN 0 ELSE 1)
        lag == IF pc = "start" THEN bench.num_sent ELSE bench.P
    IN  /\ IsFiniteSet(Asked)
        /\ Cardinality(Asked) = (bench.phase - 1) * bench.R + sent
        /\ Cardinality(Waiting) = (bench.phase - 1) * (bench.P - 1) + lag

LEMMA BenchIs ==
    /\ BenchInv <=> (main = "bench" => Index) /\ (Running => Stand)
    /\ Asked = AskedIn(Used, conn) /\ Waiting = WaitingIn(Used, conn)
BY DEF BenchInv, BenchLag, Stand, Running, Asked, Waiting, AskedIn, WaitingIn

LEMMA BenchIsNext ==
    /\ BenchInv' <=> (main' = "bench" => Index') /\ (Running' => Stand')
    /\ Asked' = AskedIn(Used', conn') /\ Waiting' = WaitingIn(Used', conn')
BY DEF BenchInv, BenchLag, Stand, Running, Asked, Waiting, AskedIn, WaitingIn

\* Steps that leave the counts alone
LEMMA BenchKept ==
    ASSUME Inv, main' = main, bench' = bench,
           \A x \in Conn : conn'[x].asked = conn[x].asked /\ conn'[x].taken = conn[x].taken,
           etdb_quit' = 0 => etdb_quit = 0, wild' = {} => wild = {}, pc' # "end" => pc # "end",
           main = "bench" => (pc' = "start" <=> pc = "start") \/ pc' = "end",
           main = "bench" => (pc' \in {"wait", "events", "ready"} => pc \in {"wait", "events", "ready"})
    PROVE  BenchInv'
<1>1. Index' \/ main' # "bench"
  BY BenchIs DEF Inv, Index
<1>2. Asked' = Asked /\ Waiting' = Waiting
  <2>1. Used' = Used /\ Used \subseteq Conn
    BY UsedConn DEF Used, Inv, Links
  <2> QED BY <2>1, AskSame, BenchIs, BenchIsNext
<1>3. Running' => Stand'
  <2>1. Running' => Running /\ (pc' = "start" <=> pc = "start")
    BY DEF Running
  <2> QED BY <1>2, <2>1, BenchIs DEF Inv, Stand
<1> QED BY <1>1, <1>3, BenchIsNext

\* The numbers of a benchmark
LEMMA BenchNumbers ==
    ASSUME Links
    PROVE  /\ bench.phase \in Nat /\ bench.phase > 0 /\ bench.R \in Nat /\ bench.P \in Nat
           /\ bench.P > 0 /\ bench.num_sent \in Nat
           /\ (bench.phase - 1) * bench.R \in Nat /\ (bench.phase - 1) * (bench.P - 1) \in Nat
<1>1. /\ bench.phase \in 1..Phases /\ bench.R \in RequestNums \cup {1} /\ bench.P \in 1..MaxConn
      /\ bench.num_sent \in Nat
  BY DEF Links, TypeOK, Conn
<1>2. bench.phase \in Nat /\ bench.phase > 0 /\ bench.R \in Nat /\ bench.P \in Nat /\ bench.P > 0
  <2>1. Phases \in Nat /\ RequestNums \subseteq Nat /\ MaxConn \in Nat
    BY PhasesNat, ClientAssumption
  <2>2. bench.R \in Nat
    <3>1. bench.R \in RequestNums \/ bench.R = 1
      BY <1>1
    <3>2. ASSUME bench.R \in RequestNums PROVE bench.R \in Nat
      BY <2>1, <3>2, Zenon
    <3>3. ASSUME bench.R = 1 PROVE bench.R \in Nat
      BY <3>3
    <3> QED BY <3>1, <3>2, <3>3
  <2> QED BY <1>1, <2>1, <2>2
<1>3. bench.phase - 1 \in Nat /\ bench.P - 1 \in Nat
  BY <1>2
<1> QED BY <1>1, <1>2, <1>3, Product

\* A request of the benchmark is written, or the part ends
LEMMA SendCounts ==
    ASSUME Links, Running', Running, NEW c \in Used, NEW r \in Asks, NEW took \in {0, 1},
           took = 1 => MayParse(c), NEW next, HandleUserCmd(c, r, took, next)
    PROVE  /\ pc' = next
           /\ conn'[c].asked = conn[c].asked + 1 /\ conn'[c].taken = conn[c].taken + took
           /\ \A x \in Conn \ {c} : conn'[x] = conn[x]
<1>1. /\ c \in Conn /\ conn \in [Conn -> Connections]
  BY UsedConn DEF Links, TypeOK
<1>2. \/ /\ pc' = next /\ wild' = wild
         /\ \E k \in Connections, p \in Peers : Writes(c, r, took, k, p)
      \/ /\ UNCHANGED <<conn, peer>> /\ pc' = "end" /\ wild' = wild
         /\ conn[c].sock = "reset"
      \/ /\ UNCHANGED <<conn, peer>> /\ pc' \in {next, "end"}
         /\ wild' = wild \cup {"freed"} /\ conn[c].sock = "closed"
  BY <1>1, Handled
<1>3. pc' = next /\ \E k \in Connections, p \in Peers : Writes(c, r, took, k, p)
  BY <1>2 DEF Running
<1>4. PICK k \in Connections, p \in Peers : Writes(c, r, took, k, p)
  BY <1>3
<1> QED BY <1>1, <1>3, <1>4 DEF Writes

LEMMA BenchSendInv ==
    ASSUME Inv, BenchSend
    PROVE  BenchInv'
<1> DEFINE c == bench.num_sent + 1
<1>1. /\ Links /\ main = "bench" /\ pc = "start" /\ c \in Conn /\ c \in Used
      /\ bench.num_sent < bench.P /\ bench.num_sent < bench.R
      /\ HandleUserCmd(c, BenchRequests[bench.phase], 0, "start")
      /\ bench' = [bench EXCEPT !.num_sent = @ + 1] /\ main' = main /\ etdb_quit' = etdb_quit
      /\ BenchRequests[bench.phase] \in Asks /\ Used \subseteq Conn
  <2>1. Links /\ main = "bench" /\ bench.num_sent < bench.P
    BY DEF Inv, BenchSend
  <2>2. bench.num_sent \in Nat /\ bench.P \in 1..MaxConn /\ MaxConn \in Nat /\ bench.phase \in 1..Phases
    BY <2>1, ClientAssumption DEF Links, TypeOK, Conn
  <2>3. c \in Conn /\ c \in Used
    BY <2>1, <2>2 DEF Conn, Used
  <2>4. BenchRequests[bench.phase] \in Asks /\ Used \subseteq Conn
    BY <2>1, <2>2, AsksAre, UsedConn DEF Links
  <2> QED BY <2>1, <2>3, <2>4 DEF BenchSend
<1>2. /\ bench'.P = bench.P /\ bench'.R = bench.R /\ bench'.phase = bench.phase
      /\ bench'.num_sent = bench.num_sent + 1
  BY <1>1, BenchMoved DEF Links
<1>3. /\ bench.R \in Nat /\ bench.P \in Nat /\ bench.num_sent \in Nat
      /\ (bench.phase - 1) * bench.R \in Nat /\ (bench.phase - 1) * (bench.P - 1) \in Nat
  BY <1>1, BenchNumbers
<1>4. Index'
  <2>1. pc' \in {"start", "end"}
    BY <1>1, Handled
  <2>2. bench.num_sent + 1 <= bench.P /\ bench.num_sent + 1 <= bench.R
    BY <1>1, <1>3
  <2> QED BY <1>2, <2>1, <2>2 DEF Index
<1>5. ASSUME Running' PROVE Stand'
  <2>1. Running
    <3>1. wild' = {} => wild = {}
      BY <1>1, Handled
    <3> QED BY <1>1, <1>5, <3>1 DEF Running
  <2>2. Stand
    BY <2>1, BenchIs DEF Inv
  <2>3. /\ pc' = "start"
        /\ conn'[c].asked = conn[c].asked + 1 /\ conn'[c].taken = conn[c].taken
        /\ \A x \in Conn \ {c} : conn'[x] = conn[x]
    <3>1. /\ pc' = "start"
          /\ conn'[c].asked = conn[c].asked + 1 /\ conn'[c].taken = conn[c].taken + 0
          /\ \A x \in Conn \ {c} : conn'[x] = conn[x]
      BY <1>1, <1>5, <2>1, SendCounts
    <3>2. conn[c].taken \in Nat
      BY <1>1, Counts
    <3> QED BY <3>1, <3>2
  <2>4. /\ conn[c].asked \in Nat /\ conn[c].taken \in Nat /\ conn[c].taken <= conn[c].asked
    <3>1. /\ conn[c].asked \in Nat /\ conn[c].taken \in Nat /\ peer[c].served \in Nat
          /\ conn[c].taken <= peer[c].served /\ peer[c].served <= conn[c].asked
      BY <1>1, Counts
    <3> QED BY <3>1
  <2> DEFINE r == <<c, conn[c].asked + 1>>
  <2>5. Used' = Used
    BY <1>2 DEF Used
  <2> HIDE DEF c
  <2>6. /\ Asked' = Asked \cup {r} /\ r \notin Asked
        /\ Waiting' = Waiting \cup {r} /\ r \notin Waiting
    <3> DEFINE U == Used
               k2 == conn'
    <3>1. /\ c \in U
          /\ \A x \in U \ {c} : k2[x].asked = conn[x].asked /\ k2[x].taken = conn[x].taken
          /\ k2[c].asked = conn[c].asked + 1 /\ k2[c].taken = conn[c].taken
      BY <1>1, <2>3
    <3> HIDE DEF U, k2
    <3>2. /\ AskedIn(U, k2) = AskedIn(U, conn) \cup {r} /\ r \notin AskedIn(U, conn)
          /\ WaitingIn(U, k2) = WaitingIn(U, conn) \cup {r} /\ r \notin WaitingIn(U, conn)
      BY <2>4, <3>1, AskMore
    <3> USE DEF U, k2
    <3> QED BY <2>5, <3>2, BenchIs, BenchIsNext
  <2>7. IsFiniteSet(Asked) /\ IsFiniteSet(Waiting)
    BY <2>2, FS_Subset DEF Stand, Waiting
  <2> HIDE DEF r
  <2>8. /\ IsFiniteSet(Asked') /\ Cardinality(Asked') = Cardinality(Asked) + 1
        /\ Cardinality(Waiting') = Cardinality(Waiting) + 1
    BY <2>6, <2>7, FS_AddElement
  <2> DEFINE x == (bench.phase - 1) * bench.R
             y == (bench.phase - 1) * (bench.P - 1)
  <2>9. Cardinality(Asked) = x + (bench.num_sent + 0) /\ Cardinality(Waiting) = y + bench.num_sent
    BY <1>1, <2>2 DEF Stand
  <2>10. x \in Nat /\ y \in Nat
    BY <1>3
  <2> HIDE DEF x, y
  <2>11. /\ Cardinality(Asked') = x + ((bench.num_sent + 1) + 0)
         /\ Cardinality(Waiting') = y + (bench.num_sent + 1)
    BY <1>3, <2>8, <2>9, <2>10
  <2> QED BY <1>2, <2>3, <2>8, <2>11 DEF Stand, x, y
<1> QED BY <1>4, <1>5, BenchIsNext

LEMMA BenchSentInv ==
    ASSUME Inv, BenchSent
    PROVE  BenchInv'
<1>1. /\ Links /\ main = "bench" /\ pc = "start" /\ bench.num_sent = bench.P /\ pc' = "wait"
      /\ bench' = [bench EXCEPT !.num_sent = @ - 1] /\ UNCHANGED <<main, etdb_quit, conn, wild>>
      /\ Index
  BY BenchIs DEF Inv, BenchSent
<1>2. /\ bench'.P = bench.P /\ bench'.R = bench.R /\ bench'.phase = bench.phase
      /\ bench'.num_sent = bench.num_sent - 1
  BY <1>1 DEF Links, TypeOK
<1>3. /\ bench.R \in Nat /\ bench.P \in Nat /\ bench.P > 0 /\ bench.num_sent \in Nat
      /\ (bench.num_sent - 1) + 1 = bench.num_sent
  BY <1>1, BenchNumbers
<1>4. Index'
  BY <1>1, <1>2, <1>3 DEF Index
<1>5. ASSUME Running' PROVE Stand'
  <2>1. Stand
    BY <1>1, <1>5, BenchIs DEF Inv, Running
  <2>2. Asked' = Asked /\ Waiting' = Waiting
    <3>1. Used' = Used
      BY <1>2 DEF Used
    <3> QED BY <1>1, <3>1, BenchIs, BenchIsNext
  <2>3. Cardinality(Asked) = (bench.phase - 1) * bench.R + bench.num_sent
    <3>1. Cardinality(Asked) = (bench.phase - 1) * bench.R + (bench.num_sent + 0)
      BY <1>1, <2>1 DEF Stand
    <3>2. bench.num_sent + 0 = bench.num_sent
      BY <1>3
    <3> QED BY <3>1, <3>2
  <2>4. Cardinality(Waiting) = (bench.phase - 1) * (bench.P - 1) + bench.P
    BY <1>1, <2>1 DEF Stand
  <2>5. IsFiniteSet(Asked)
    BY <2>1 DEF Stand
  <2> QED BY <1>1, <1>2, <1>3, <2>2, <2>3, <2>4, <2>5 DEF Stand
<1> QED BY <1>4, <1>5, BenchIsNext

LEMMA BenchRecvInv ==
    ASSUME Inv, NEW c \in Used, BenchRecv(c)
    PROVE  BenchInv'
<1>1. /\ Links /\ main = "bench" /\ pc = "ready" /\ c \in Conn /\ MayParse(c)
      /\ bench.num_sent + 1 < bench.R
      /\ HandleUserCmd(c, BenchRequests[bench.phase], 1, "ready")
      /\ bench' = [bench EXCEPT !.num_sent = @ + 1] /\ main' = main /\ etdb_quit' = etdb_quit
      /\ BenchRequests[bench.phase] \in Asks /\ Used \subseteq Conn
  <2>1. Links /\ c \in Conn /\ bench.phase \in 1..Phases /\ Used \subseteq Conn
    BY UsedConn DEF Inv, Links, TypeOK
  <2>2. BenchRequests[bench.phase] \in Asks
    BY <2>1, AsksAre
  <2> QED BY <2>1, <2>2 DEF BenchRecv
<1>2. /\ bench'.P = bench.P /\ bench'.R = bench.R /\ bench'.phase = bench.phase
      /\ bench'.num_sent = bench.num_sent + 1
  BY <1>1, BenchMoved DEF Links
<1>3. /\ bench.R \in Nat /\ bench.P \in Nat /\ bench.num_sent \in Nat
      /\ (bench.phase - 1) * bench.R \in Nat /\ (bench.phase - 1) * (bench.P - 1) \in Nat
  BY <1>1, BenchNumbers
<1>4. Index'
  <2>1. pc' \in {"ready", "end"}
    BY <1>1, Handled
  <2>2. (bench.num_sent + 1) + 1 <= bench.R
    BY <1>1, <1>3
  <2> QED BY <1>2, <2>1, <2>2 DEF Index
<1>5. ASSUME Running' PROVE Stand'
  <2>1. Running
    <3>1. wild' = {} => wild = {}
      BY <1>1, Handled
    <3> QED BY <1>1, <1>5, <3>1 DEF Running
  <2>2. Stand
    BY <2>1, BenchIs DEF Inv
  <2>3. /\ pc' = "ready"
        /\ conn'[c].asked = conn[c].asked + 1 /\ conn'[c].taken = conn[c].taken + 1
        /\ \A x \in Conn \ {c} : conn'[x] = conn[x]
    BY <1>1, <1>5, <2>1, SendCounts
  <2>4. /\ conn[c].asked \in Nat /\ conn[c].taken \in Nat /\ conn[c].taken < conn[c].asked
    BY <1>1, Counts, TakeFlow
  <2> DEFINE r == <<c, conn[c].taken + 1>>
             s == <<c, conn[c].asked + 1>>
             W == Waiting \ {r}
  <2>5. Used' = Used
    BY <1>2 DEF Used
  <2>6. /\ Asked' = Asked \cup {s} /\ s \notin Asked
        /\ Waiting' = W \cup {s} /\ s \notin W /\ r \in Waiting
    <3> DEFINE U == Used
               k2 == conn'
               asked == conn[c].asked
               k1 == [x \in U |-> [asked |-> conn[x].asked,
                                   taken |-> IF x = c THEN conn[c].taken + 1 ELSE conn[x].taken]]
    <3>1. /\ c \in U /\ U \subseteq Conn
          /\ \A x \in U \ {c} : k2[x].asked = conn[x].asked /\ k2[x].taken = conn[x].taken
          /\ k2[c].asked = conn[c].asked + 1 /\ k2[c].taken = conn[c].taken + 1
      BY <1>1, <2>3
    <3> HIDE DEF U, k2
    <3>2. /\ \A x \in U \ {c} : k1[x].asked = conn[x].asked /\ k1[x].taken = conn[x].taken
          /\ k1[c].asked = conn[c].asked /\ k1[c].taken = conn[c].taken + 1
      BY <3>1
    <3> HIDE DEF k1
    <3>3. /\ AskedIn(U, k1) = AskedIn(U, conn)
          /\ WaitingIn(U, k1) = WaitingIn(U, conn) \ {r} /\ r \in WaitingIn(U, conn)
      BY <2>4, <3>1, <3>2, TakeMore
    <3>4. /\ k1[c].asked \in Nat /\ k1[c].taken \in Nat /\ k1[c].taken <= k1[c].asked
          /\ k2[c].asked = k1[c].asked + 1 /\ k2[c].taken = k1[c].taken
      BY <2>4, <3>1, <3>2
    <3>5. \A x \in U \ {c} : k2[x].asked = k1[x].asked /\ k2[x].taken = k1[x].taken
      BY <3>1, <3>2
    <3>6. s = <<c, k1[c].asked + 1>>
      BY <3>2
    <3> HIDE DEF r, s
    <3>7. /\ AskedIn(U, k2) = AskedIn(U, k1) \cup {s} /\ s \notin AskedIn(U, k1)
          /\ WaitingIn(U, k2) = WaitingIn(U, k1) \cup {s} /\ s \notin WaitingIn(U, k1)
      BY <3>1, <3>4, <3>5, <3>6, AskMore
    <3>8. Asked = AskedIn(U, conn) /\ Waiting = WaitingIn(U, conn)
          /\ Asked' = AskedIn(U, k2) /\ Waiting' = WaitingIn(U, k2)
      BY <2>5, BenchIs, BenchIsNext DEF U, k2
    <3> QED BY <3>3, <3>7, <3>8
  <2>7. IsFiniteSet(Asked) /\ IsFiniteSet(Waiting)
    BY <2>2, FS_Subset DEF Stand, Waiting
  <2> HIDE DEF r, s, W
  <2>8. IsFiniteSet(W) /\ Cardinality(W) = Cardinality(Waiting) - 1
    BY <2>6, <2>7, FS_RemoveElement DEF W
  <2>9. /\ IsFiniteSet(Asked') /\ Cardinality(Asked') = Cardinality(Asked) + 1
        /\ Cardinality(Waiting') = Cardinality(W) + 1
    BY <2>6, <2>7, <2>8, FS_AddElement
  <2> DEFINE x == (bench.phase - 1) * bench.R
             y == (bench.phase - 1) * (bench.P - 1)
  <2>10. Cardinality(Asked) = x + (bench.num_sent + 1) /\ Cardinality(Waiting) = y + bench.P
    BY <1>1, <2>2 DEF Stand
  <2>11. x \in Nat /\ y \in Nat
    BY <1>3
  <2> HIDE DEF x, y
  <2>12. /\ Cardinality(Asked') = x + ((bench.num_sent + 1) + 1)
         /\ Cardinality(Waiting') = y + bench.P
    BY <1>3, <2>8, <2>9, <2>10, <2>11
  <2> QED BY <1>2, <2>3, <2>9, <2>12 DEF Stand, x, y
<1> QED BY <1>4, <1>5, BenchIsNext

LEMMA BenchDoneInv ==
    ASSUME Inv, NEW c \in Used, BenchDone(c)
    PROVE  BenchInv'
<1>1. /\ Links /\ main = "bench" /\ pc = "ready" /\ c \in Conn /\ MayParse(c)
      /\ bench.num_sent + 1 >= bench.R /\ NextPhase
      /\ conn' = [conn EXCEPT ![c].taken = @ + 1]
      /\ main' = main /\ etdb_quit' = etdb_quit /\ wild' = wild /\ Used \subseteq Conn /\ Index
  BY UsedConn, BenchIs DEF BenchDone, Inv, Links
<1>2. /\ bench'.P = bench.P /\ bench'.R = bench.R /\ bench.phase \in Nat
      /\ \/ bench' = bench /\ pc' = "end"
         \/ bench'.phase = bench.phase + 1 /\ bench'.num_sent = 0 /\ pc' = "start"
  BY <1>1, NextPhaseIs DEF Links
<1>3. /\ bench.phase \in Nat /\ bench.phase > 0
      /\ bench.R \in Nat /\ bench.P \in Nat /\ bench.P > 0 /\ bench.num_sent \in Nat
      /\ (bench.phase - 1) * bench.R \in Nat /\ (bench.phase - 1) * (bench.P - 1) \in Nat
  BY <1>1, BenchNumbers
<1>4. bench.num_sent + 1 = bench.R
  BY <1>1, <1>3 DEF Index
<1>5. Index'
  BY <1>2, <1>3 DEF Index
<1>6. ASSUME Running' PROVE Stand'
  <2>1. Running /\ pc' = "start" /\ bench'.phase = bench.phase + 1 /\ bench'.num_sent = 0
    BY <1>1, <1>2, <1>6 DEF Running
  <2>2. Stand
    BY <2>1, BenchIs DEF Inv
  <2>3. /\ conn'[c].asked = conn[c].asked /\ conn'[c].taken = conn[c].taken + 1
        /\ \A x \in Conn \ {c} : conn'[x] = conn[x]
    BY <1>1 DEF Links, TypeOK, Connections
  <2>4. /\ conn[c].asked \in Nat /\ conn[c].taken \in Nat /\ conn[c].taken < conn[c].asked
    BY <1>1, Counts, TakeFlow
  <2> DEFINE r == <<c, conn[c].taken + 1>>
  <2>5. Used' = Used
    BY <1>2 DEF Used
  <2>6. Asked' = Asked /\ Waiting' = Waiting \ {r} /\ r \in Waiting
    <3> DEFINE U == Used
               k2 == conn'
    <3>1. /\ c \in U
          /\ \A x \in U \ {c} : k2[x].asked = conn[x].asked /\ k2[x].taken = conn[x].taken
          /\ k2[c].asked = conn[c].asked /\ k2[c].taken = conn[c].taken + 1
      BY <1>1, <2>3
    <3> HIDE DEF U, k2
    <3>2. /\ AskedIn(U, k2) = AskedIn(U, conn)
          /\ WaitingIn(U, k2) = WaitingIn(U, conn) \ {r} /\ r \in WaitingIn(U, conn)
      BY <2>4, <3>1, TakeMore
    <3> HIDE DEF r
    <3>3. Asked = AskedIn(U, conn) /\ Waiting = WaitingIn(U, conn)
          /\ Asked' = AskedIn(U, k2) /\ Waiting' = WaitingIn(U, k2)
      BY <2>5, BenchIs, BenchIsNext DEF U, k2
    <3> QED BY <3>2, <3>3
  <2>7. IsFiniteSet(Asked) /\ IsFiniteSet(Waiting)
    BY <2>2, FS_Subset DEF Stand, Waiting
  <2> HIDE DEF r
  <2>8. Cardinality(Waiting') = Cardinality(Waiting) - 1
    BY <2>6, <2>7, FS_RemoveElement
  <2> DEFINE x == (bench.phase - 1) * bench.R
             y == (bench.phase - 1) * (bench.P - 1)
             q == bench.P - 1
  <2>9. Cardinality(Asked) = x + bench.R /\ Cardinality(Waiting) = y + bench.P
    BY <1>1, <1>4, <2>2 DEF Stand
  <2>10. bench.phase * bench.R = x + bench.R /\ bench.phase * q = y + q
    <3>1. bench.phase - 1 \in Nat /\ q \in Nat /\ bench.phase = (bench.phase - 1) + 1
      BY <1>3
    <3> HIDE DEF q
    <3>2. \A a, b \in Nat : (a + 1) * b = a * b + b
      <4> SUFFICES ASSUME NEW a \in Nat, NEW b \in Nat PROVE (a + 1) * b = a * b + b
        OBVIOUS
      <4>1. b * (a + 1) = b * a + b
        BY Product
      <4>2. b * (a + 1) = (a + 1) * b /\ b * a = a * b
        OBVIOUS
      <4> QED BY <4>1, <4>2
    <3> DEFINE a == bench.phase - 1
    <3>3. a \in Nat /\ bench.phase = a + 1 /\ bench.R \in Nat
      BY <1>3, <3>1
    <3> HIDE DEF a
    <3>4. bench.phase * bench.R = a * bench.R + bench.R /\ bench.phase * q = a * q + q
      BY <3>1, <3>2, <3>3
    <3> QED BY <3>4 DEF a, q
  <2>11. x \in Nat /\ y \in Nat /\ q \in Nat /\ q + 1 = bench.P
    BY <1>3
  <2>12. (bench.phase + 1) - 1 = bench.phase
    BY <1>3
  <2> HIDE DEF x, y, q
  <2>13. /\ Cardinality(Asked') = bench.phase * bench.R + (0 + 0)
         /\ Cardinality(Waiting') = bench.phase * q + 0
    BY <1>3, <2>6, <2>8, <2>9, <2>10, <2>11
  <2>14. /\ Cardinality(Asked') = (bench'.phase - 1) * bench'.R + (bench'.num_sent + 0)
         /\ Cardinality(Waiting') = (bench'.phase - 1) * (bench'.P - 1) + bench'.num_sent
    BY <1>2, <2>1, <2>12, <2>13 DEF q
  <2>15. IsFiniteSet(Asked')
    BY <2>6, <2>7
  <2> QED BY <2>1, <2>14, <2>15 DEF Stand
<1> QED BY <1>5, <1>6, BenchIsNext

\* Another program
LEMMA NotBench ==
    ASSUME main # "bench", main' = main
    PROVE  BenchInv'
BY BenchIsNext DEF Running

\* The sums of requests and replies are moved by the benchmark alone
LEMMA CountsKept ==
    ASSUME Links,
           \/ (\E c \in Conn : ServerAnswers(c) \/ ServerCloses(c))
           \/ (\E c \in Used : OnRead(c) \/ OnWrite(c) \/ RecvIncomplete(c))
           \/ Wait \/ EventsHandled \/ CycleEnds
    PROVE  \A x \in Conn : conn'[x].asked = conn[x].asked /\ conn'[x].taken = conn[x].taken
<1>1. conn \in [Conn -> Connections] /\ Used \subseteq Conn
  BY UsedConn DEF Links, TypeOK
<1>2. CASE (\E c \in Conn : ServerAnswers(c)) \/ (\E c \in Used : RecvIncomplete(c))
           \/ EventsHandled \/ CycleEnds
  BY <1>2 DEF ServerAnswers, RecvIncomplete, EventsHandled, CycleEnds
<1>3. CASE \E c \in Conn : ServerCloses(c)
  BY <1>1, <1>3 DEF ServerCloses, Connections
<1>4. CASE Wait
  BY <1>1, <1>4 DEF Wait, Connections
<1>5. ASSUME NEW c \in Used, OnRead(c) \/ OnWrite(c)
      PROVE  \A x \in Conn : conn'[x].asked = conn[x].asked /\ conn'[x].taken = conn[x].taken
  <2>1. CASE OnRead(c)
    <3>1. PICK n : conn' = [conn EXCEPT ![c].recvd = @ + n, ![c].events = {}]
      BY <2>1 DEF OnRead
    <3> QED BY <1>1, <3>1 DEF Connections
  <2>2. CASE OnWrite(c)
    <3>1. PICK n : conn' = [conn EXCEPT ![c].out = @ - n, ![c].events = {},
                                        ![c].armed = n # conn[c].out]
      BY <2>2 DEF OnWrite
    <3> QED BY <1>1, <3>1 DEF Connections
  <2> QED BY <1>5, <2>1, <2>2
<1> QED BY <1>2, <1>3, <1>4, <1>5

LEMMA KeptInv ==
    ASSUME Inv,
           \/ (\E c \in Conn : ServerAnswers(c) \/ ServerCloses(c))
           \/ (\E c \in Used : OnRead(c) \/ OnWrite(c) \/ RecvIncomplete(c))
           \/ Wait \/ EventsHandled \/ CycleEnds
    PROVE  BenchInv'
<1>1. /\ main' = main /\ bench' = bench /\ etdb_quit' = etdb_quit /\ wild' = wild
      /\ pc # "end" \/ pc' = pc
      /\ main = "bench" => \/ pc' = pc
                           \/ /\ pc \in {"wait", "events", "ready"}
                              /\ pc' \in {"wait", "events", "ready"}
  BY DEF Wait, EventsHandled, CycleEnds, ServerAnswers, ServerCloses, OnRead, OnWrite,
         RecvIncomplete
<1>2. \A x \in Conn : conn'[x].asked = conn[x].asked /\ conn'[x].taken = conn[x].taken
  BY CountsKept DEF Inv
<1>3. main = "bench" => (pc' = "start" <=> pc = "start")
  BY <1>1
<1> QED BY <1>1, <1>2, <1>3, BenchKept

LEMMA ClosedInv ==
    ASSUME Inv, NEW c \in Used, CloseConn(c), pc \in {"events", "ready"},
           pc' \in {pc, "end"}
    PROVE  BenchInv'
<1>1. main' = main /\ bench' = bench /\ etdb_quit' = 1
  BY DEF CloseConn
<1>2. (main = "bench" => Index) /\ ~Running'
  BY <1>1, BenchIs DEF Inv, Running
<1>3. main' = "bench" => Index'
  BY <1>1, <1>2 DEF Index
<1> QED BY <1>2, <1>3, BenchIsNext

LEMMA EndsInv ==
    ASSUME Inv, BenchPastEnd \/ Quit
    PROVE  BenchInv'
<1>1. main' = main /\ ~Running'
  <2>1. CASE BenchPastEnd
    BY <2>1 DEF BenchPastEnd, Running
  <2>2. CASE Quit
    BY <2>2 DEF Quit, Running
  <2> QED BY <2>1, <2>2
<1>2. CASE BenchPastEnd
  BY <1>1, <1>2, BenchIsNext DEF BenchPastEnd, Index
<1>3. CASE Quit /\ main = "bench"
  <2>1. NextPhase
    BY <1>3 DEF Quit
  <2>2. \/ pc' = "end"
        \/ bench'.P = bench.P /\ bench'.R = bench.R /\ bench'.num_sent = 0 /\ pc' = "start"
    BY <2>1, NextPhaseIs DEF Inv, Links
  <2>3. bench.P \in Nat /\ bench.R \in Nat
    BY BenchNumbers DEF Inv
  <2>4. Index'
    BY <2>2, <2>3 DEF Index
  <2> QED BY <1>1, <2>4, BenchIsNext
<1>4. CASE Quit /\ main # "bench"
  BY <1>1, <1>4, BenchIsNext
<1> QED BY <1>2, <1>3, <1>4

-----------------------------------------------------------------------------
(* What a user reads in a line, and what the server makes of it *)

\* A line that is not cut is split into the words the user sees
LEMMA WordsAre ==
    ASSUME NEW line \in Lines, WithinLimits(line)
    PROVE  ToLower(Words(line)) = TextWords(line) /\ Len(TextWords(line)) \in 1..5
<1>1. line \in Seq(STRING) /\ Len(line) <= MaxSplits /\ Len(line) \in Nat
  BY ClientAssumption DEF WithinLimits
<1>2. Split(line) = line
  <2>1. MinOf(Len(line), MaxSplits) = Len(line)
    BY <1>1, DispatchAssumption DEF MinOf
  <2> QED BY <1>1, <2>1 DEF Split
<1> QED BY <1>2 DEF Words, TextWords, WithinLimits

\* With at most four arguments the check is what the table says
LEMMA KnownIs ==
    ASSUME NEW words, Len(words) \in 1..5
    PROVE  Accepted(words) <=> TextKnown(words)
<1> DEFINE n == Len(words)
<1> HIDE DEF n
<1>1. n - 1 <= 4
  <2>1. n \in 1..5
    BY DEF n
  <2>2. \A i \in 1..5 : i - 1 <= 4
    OBVIOUS
  <2> QED BY <2>1, <2>2, Zenon
<1> QED BY <1>1 DEF Accepted, Known, ParseArgs, TextKnown, n

\* A slot is in the range of the table
LEMMA UseIs ==
    ASSUME NEW line \in Lines, WithinLimits(line), NEW words, words = TextWords(line)
    PROVE  /\ TextUse(words) <=> Accepted(words) /\ words[1] = "use" /\ UseOk(words[2])
           /\ TextUse(words) => Atoi(words[2]) = Decimal[words[2]] /\ Decimal[words[2]] \in Nat
<1>1. Len(words) \in 1..5 /\ (Accepted(words) <=> TextKnown(words))
  BY WordsAre, KnownIs
<1>2. CASE TextKnown(words) /\ words[1] = "use" /\ IsNumber(words[2])
  <2>1. Len(words) - 1 = 1
    BY <1>2, SysTable DEF TextKnown, Takes
  <2>2. Decimal[words[2]] < IntMod \div 2
    <3>1. 2 \in 1..Len(words)
      BY <1>1, <2>1
    <3> QED BY <1>2, <3>1 DEF WithinLimits
  <2>3. Atoi(words[2]) = Decimal[words[2]] /\ Decimal[words[2]] \in Nat
    BY <1>2, <2>2, AtoiIs
  <2>4. UseOk(words[2]) <=> Decimal[words[2]] \in 1..MaxSlot
    BY <1>2, <2>3, DispatchAssumption DEF UseOk
  <2> QED BY <1>1, <1>2, <2>3, <2>4 DEF TextUse
<1>3. CASE ~(TextKnown(words) /\ words[1] = "use" /\ IsNumber(words[2]))
  BY <1>1, <1>3 DEF TextUse, UseOk
<1> QED BY <1>2, <1>3

\* The last of some places in a sequence
LEMMA LastOf ==
    ASSUME NEW n \in Nat, NEW S \in SUBSET (1..n), S # {}
    PROVE  \E m \in S : \A j \in S : j <= m
<1> DEFINE T == {k \in Nat : \A j \in S : j <= k}
           R == {ss \in Nat \X Nat : ss[1] < ss[2]}
<1>1. IsWellFoundedOn(R, Nat)
  BY NatLessThanWellFounded, Zenon DEF OpToRel
<1>2. T \subseteq Nat /\ n \in T
  OBVIOUS
<1> HIDE DEF R
<1>3. PICK m \in T : \A k \in T : <<k, m>> \notin R
  BY <1>1, <1>2, WFMin
<1>4. m \in Nat /\ \A k \in Nat : (\A j \in S : j <= k) => ~(k < m)
  BY <1>3 DEF R
<1>5. m \in S
  <2> SUFFICES ASSUME m \notin S PROVE FALSE
    OBVIOUS
  <2>1. \A j \in S : j \in Nat /\ j > 0 /\ j <= m - 1
    BY <1>3, <1>4
  <2>2. m - 1 \in Nat
    <3>1. PICK j \in S : TRUE
      OBVIOUS
    <3>2. j \in Nat /\ j <= m - 1
      BY <2>1
    <3> QED BY <1>4, <3>2
  <2> QED BY <1>4, <2>1, <2>2
<1> QED BY <1>3, <1>5

\* The lines that name a slot
Uses(lines) == {i \in DOMAIN lines : TextUse(TextWords(lines[i]))}

\* A line more, to the slot the text asks for
LEMMA SlotStep ==
    ASSUME NEW lines \in Seq(Lines), NEW line \in Lines
    PROVE  TextSlot(Append(lines, line)) =
             IF TextUse(TextWords(line)) THEN Decimal[TextWords(line)[2]] ELSE TextSlot(lines)
<1> DEFINE n == Len(lines)
           more == Append(lines, line)
           last(u) == CHOOSE i \in u : \A j \in u : j <= i
<1>1. /\ n \in Nat /\ DOMAIN lines = 1..n /\ DOMAIN more = 1..(n + 1)
      /\ more[n + 1] = line /\ \A i \in 1..n : more[i] = lines[i]
  OBVIOUS
<1>2. \A s : TextSlot(s) = IF Uses(s) = {} THEN 1 ELSE Decimal[TextWords(s[last(Uses(s))])[2]]
  BY DEF TextSlot, Uses
<1> HIDE DEF more, last
<1>3. CASE TextUse(TextWords(line))
  <2>1. n + 1 \in Uses(more) /\ \A j \in Uses(more) : j \in Nat /\ j <= n + 1
    BY <1>1, <1>3 DEF Uses
  <2>2. last(Uses(more)) = n + 1
    BY <1>1, <2>1 DEF last
  <2> QED BY <1>1, <1>2, <1>3, <2>1, <2>2 DEF more
<1>4. CASE ~TextUse(TextWords(line))
  <2>1. Uses(more) = Uses(lines) /\ Uses(lines) \subseteq 1..n
    <3>1. \A i \in 1..(n + 1) : i \in 1..n \/ i = n + 1
      BY <1>1
    <3> QED BY <1>1, <1>4, <3>1 DEF Uses
  <2>2. Uses(lines) # {} => last(Uses(lines)) \in 1..n
    BY <1>1, <2>1, LastOf DEF last
  <2> QED BY <1>1, <1>2, <1>4, <2>1, <2>2 DEF more
<1> QED BY <1>3, <1>4

\* The lines that call a command
CallsOf(lines, name) ==
    {i \in DOMAIN lines : TextKnown(TextWords(lines[i])) /\ TextWords(lines[i])[1] = name}

\* A line more, to the calls the text asks for
LEMMA CountStep ==
    ASSUME NEW lines \in Seq(Lines), NEW line \in Lines, NEW name
    PROVE  /\ TextCount(lines, name) \in Nat
           /\ TextCount(Append(lines, line), name) =
                IF TextKnown(TextWords(line)) /\ TextWords(line)[1] = name
                THEN TextCount(lines, name) + 1 ELSE TextCount(lines, name)
<1> DEFINE n == Len(lines)
           more == Append(lines, line)
<1>1. /\ n \in Nat /\ DOMAIN lines = 1..n /\ DOMAIN more = 1..(n + 1)
      /\ more[n + 1] = line /\ \A i \in 1..n : more[i] = lines[i]
      /\ \A i \in 1..(n + 1) : i \in 1..n \/ i = n + 1
  OBVIOUS
<1>2. \A s : TextCount(s, name) = Cardinality(CallsOf(s, name))
  BY DEF TextCount, CallsOf
<1> HIDE DEF more
<1>3. /\ IsFiniteSet(CallsOf(lines, name)) /\ n + 1 \notin CallsOf(lines, name)
      /\ Cardinality(CallsOf(lines, name)) \in Nat
  <2>1. CallsOf(lines, name) \subseteq 1..n
    BY <1>1 DEF CallsOf
  <2>2. IsFiniteSet(1..n)
    BY <1>1, FS_Interval
  <2>3. n + 1 \notin CallsOf(lines, name)
    BY <1>1, <2>1
  <2> QED BY <2>1, <2>2, <2>3, FS_Subset, FS_CardinalityType
<1>4. CASE TextKnown(TextWords(line)) /\ TextWords(line)[1] = name
  <2>1. CallsOf(more, name) = CallsOf(lines, name) \cup {n + 1}
    BY <1>1, <1>4 DEF CallsOf
  <2> DEFINE C == CallsOf(lines, name)
  <2> HIDE DEF C
  <2>2. Cardinality(C \cup {n + 1}) = Cardinality(C) + 1
    BY <1>3, FS_AddElement DEF C
  <2> QED BY <1>2, <1>3, <1>4, <2>1, <2>2 DEF more, C
<1>5. CASE ~(TextKnown(TextWords(line)) /\ TextWords(line)[1] = name)
  <2>1. CallsOf(more, name) = CallsOf(lines, name)
    BY <1>1, <1>5 DEF CallsOf
  <2> QED BY <1>2, <1>3, <1>5, <2>1 DEF more
<1> QED BY <1>4, <1>5

\* What is printed of an answer that is no refusal
LEMMA ShownIs ==
    ASSUME NEW words, Accepted(words), NEW slot \in Nat,
           NEW counts \in [DOMAIN Commands -> Nat],
           NEW a, a \in IF words[1] \in DOMAIN SysCommands THEN SysAnswers(words, slot, counts)
                        ELSE DataAnswers(words[1])
    PROVE  Display(a) # Display(Unknown) /\ Display(a).num = a.num
<1> DEFINE printed == {"+OK", "+FAIL", "data", "number"}
<1>1. Display(Unknown).recs[1] \notin printed
  BY DEF Display, Unknown, Answer
<1>2. ASSUME a.recs \in Seq(Texts), a.recs[1] \in Statuses,
             Len(a.recs) > 1 => a.recs[2] \in {"data", "number"}
      PROVE  Display(a).recs[1] \in printed
  <2>1. CASE Len(a.recs) > 1
    <3>1. Tail(a.recs)[1] = a.recs[2]
      BY <1>2, <2>1
    <3> QED BY <1>2, <2>1, <3>1 DEF Display
  <2>2. CASE ~(Len(a.recs) > 1)
    BY <1>2, <2>2 DEF Display, Statuses
  <2> QED BY <2>1, <2>2
<1>3. a \in AnswerType /\ a.recs[1] \in Statuses
  BY SysAnswersAre, DataAnswersAre, PlainAnswers
<1>4. a.recs \in Seq(Texts)
  BY <1>3 DEF AnswerType
<1>5. Len(a.recs) > 1 => a.recs[2] \in {"data", "number"}
  <2>1. CASE a \in {OK, FAIL}
    BY <2>1 DEF OK, FAIL, Answer
  <2>2. CASE a \in {Data(0), Data(1), Data(2)}
    <3>1. PICK n \in Nat : a = Data(n)
      BY <2>2
    <3>2. Len(Data(n).recs) = n + 1 /\ (n > 0 => Data(n).recs[2] = "data")
      BY DataIs
    <3>3. n + 1 > 1 => n > 0
      OBVIOUS
    <3> QED BY <3>1, <3>2, <3>3
  <2>3. CASE \E s, n : a = Answer(<<s, "number">>, n)
    BY <2>3 DEF Answer
  <2>4. a \in {OK, FAIL, Data(0), Data(1), Data(2)} \/ \E s, n : a = Answer(<<s, "number">>, n)
    <3>1. CASE words[1] \notin DOMAIN SysCommands
      BY <3>1, DataAnswersAre
    <3>2. CASE words[1] \in {"where", "perf"}
      BY <3>2 DEF SysAnswers, SysCommands
    <3>3. CASE words[1] \in DOMAIN SysCommands \ {"where", "perf"}
      BY <3>3 DEF SysAnswers, SysCommands
    <3> QED BY <3>1, <3>2, <3>3
  <2> QED BY <2>1, <2>2, <2>3, <2>4
<1>6. Display(a).num = a.num
  BY DEF Display
<1>7. Display(a) # Display(Unknown)
  BY <1>1, <1>2, <1>3, <1>4, <1>5
<1> QED BY <1>6, <1>7

\* The server serves the last line: its answer fits the text of all of them
LEMMA AnswerFits ==
    ASSUME NEW lines \in Seq(Lines), NEW line \in Lines, WithinLimits(line), NEW slot \in Nat,
           NEW counts \in [DOMAIN Commands -> Nat], TextOf(lines, slot, counts),
           NEW a \in Answers(Words(line), slot, CallsAfter(Words(line), counts))
    PROVE  /\ TextOf(Append(lines, line), SlotAfter(Words(line), slot),
                     CallsAfter(Words(line), counts))
           /\ Fits(Display(a), Append(lines, line))
<1> DEFINE words == TextWords(line)
           more == Append(lines, line)
           counts2 == CallsAfter(Words(line), counts)
           slot2 == SlotAfter(Words(line), slot)
<1>1. /\ ToLower(Words(line)) = words /\ (Accepted(words) <=> TextKnown(words))
      /\ Len(words) \in 1..5
      /\ TextUse(words) <=> Accepted(words) /\ words[1] = "use" /\ UseOk(words[2])
      /\ TextUse(words) => Atoi(words[2]) = Decimal[words[2]] /\ Decimal[words[2]] \in Nat
  BY WordsAre, KnownIs, UseIs
<1>2. more[Len(more)] = line
  BY DEF more
<1>3. counts2 = IF Accepted(words) THEN [counts EXCEPT ![words[1]] = @ + 1] ELSE counts
  BY <1>1 DEF CallsAfter
<1>4. slot2 = IF TextUse(words) THEN Decimal[words[2]] - 1 ELSE slot
  BY <1>1 DEF SlotAfter
<1>5. TextSlot(more) = IF TextUse(words) THEN Decimal[words[2]] ELSE TextSlot(lines)
  BY SlotStep
<1>6. \A name : /\ TextCount(lines, name) \in Nat
                /\ TextCount(more, name) = IF TextKnown(words) /\ words[1] = name
                                           THEN TextCount(lines, name) + 1
                                           ELSE TextCount(lines, name)
  BY CountStep
<1>7. a \in Answers(Words(line), slot, counts2)
  OBVIOUS
<1>8. counts2 \in [DOMAIN Commands -> Nat] /\ slot2 \in Nat
  BY ServedTypes
<1> HIDE DEF words, more, counts2, slot2
<1>9. slot2 + 1 = TextSlot(more)
  BY <1>1, <1>4, <1>5 DEF TextOf
<1>10. \A name \in DOMAIN Commands : counts2[name] = TextCount(more, name)
  <2>1. CASE Accepted(words)
    BY <1>1, <1>3, <1>6, <2>1 DEF TextOf
  <2>2. CASE ~Accepted(words)
    BY <1>1, <1>3, <1>6, <2>2 DEF TextOf
  <2> QED BY <2>1, <2>2
<1>11. Fits(Display(a), more)
  <2>1. CASE ~Accepted(words)
    <3>1. a = Unknown
      BY <1>1, <1>7, <2>1 DEF Answers
    <3> QED BY <1>1, <1>2, <2>1, <3>1 DEF Fits, words
  <2>2. CASE Accepted(words)
    <3>1. a \in IF words[1] \in DOMAIN SysCommands THEN SysAnswers(words, slot, counts2)
                ELSE DataAnswers(words[1])
      BY <1>1, <1>7, <2>2 DEF Answers
    <3>2. Display(a) # Display(Unknown) /\ Display(a).num = a.num
      BY <1>8, <2>2, <3>1, ShownIs
    <3>3. words[1] = "where" => a.num = TextSlot(more)
      <4> SUFFICES ASSUME words[1] = "where" PROVE a.num = TextSlot(more)
        OBVIOUS
      <4>1. a.num = slot + 1
        BY <3>1, SysTable DEF SysAnswers, Answer
      <4>2. ~TextUse(words)
        BY DEF TextUse
      <4> QED BY <1>5, <4>1, <4>2 DEF TextOf
    <3>4. words[1] = "perf" /\ words[2] \in DOMAIN Commands => a.num = TextCount(more, words[2])
      <4> SUFFICES ASSUME words[1] = "perf", words[2] \in DOMAIN Commands
                   PROVE  a.num = TextCount(more, words[2])
        OBVIOUS
      <4>1. a.num = counts2[words[2]]
        BY <3>1, SysTable DEF SysAnswers, Answer, Known
      <4> QED BY <1>10, <4>1
    <3> QED BY <1>1, <1>2, <2>2, <3>2, <3>3, <3>4 DEF Fits, words
  <2> QED BY <2>1, <2>2
<1> QED BY <1>9, <1>10, <1>11 DEF TextOf, more, counts2, slot2

-----------------------------------------------------------------------------
(* The steps: the command line client *)

\* Steps that leave the requests of the user alone
LEMMA CliKept ==
    ASSUME Inv, main' = main, bench' = bench, typed' = typed, responsed' = responsed,
           shown' = shown, calls' = calls,
           \A x \in Conn : conn'[x].asked = conn[x].asked /\ conn'[x].taken = conn[x].taken,
           peer'[1].todo = peer[1].todo, peer'[1].served = peer[1].served,
           peer'[1].answers = peer[1].answers, peer'[1].slot = peer[1].slot,
           pc' # "end" => pc # "end",
           main = "cli" /\ pc' = "prompt" => pc = "prompt" \/ responsed = 1
    PROVE  CliInv'
<1>1. 1 \in Conn
  BY UsedConn DEF Inv, Links
<1> QED BY <1>1 DEF Inv, CliInv

\* Another program
LEMMA NotCli ==
    ASSUME main # "cli", main' = main
    PROVE  CliInv'
BY DEF CliInv

LEMMA LastTaken ==
    ASSUME NEW S, NEW s \in Seq(S), Len(s) = 1
    PROVE  Tail(s) = << >>
<1>1. s # << >> /\ Len(s) \in Nat
  OBVIOUS
<1>2. Tail(s) \in Seq(S)
  BY <1>1
<1>3. Len(Tail(s)) = 0
  BY <1>1
<1>4. \A t \in Seq(S) : Len(t) = 0 => t = << >>
  OBVIOUS
<1> QED BY <1>2, <1>3, <1>4

LEMMA SeqCut ==
    ASSUME NEW S, NEW s \in Seq(S)
    PROVE  /\ SubSeq(s, 1, Len(s)) = s
           /\ \A n \in Nat : Len(s) = n + 1 => /\ SubSeq(s, 1, n) \in Seq(S) /\ s[Len(s)] \in S
                                               /\ Append(SubSeq(s, 1, n), s[Len(s)]) = s
           /\ \A e \in S : SubSeq(Append(s, e), 1, Len(s)) = s
<1>1. SubSeq(s, 1, Len(s)) = s
  OBVIOUS
<1>2. ASSUME NEW n \in Nat, Len(s) = n + 1
      PROVE  /\ SubSeq(s, 1, n) \in Seq(S) /\ s[Len(s)] \in S
             /\ Append(SubSeq(s, 1, n), s[Len(s)]) = s
  BY <1>2
<1>3. ASSUME NEW e \in S PROVE SubSeq(Append(s, e), 1, Len(s)) = s
  OBVIOUS
<1> QED BY <1>1, <1>2, <1>3

\* The places of a user's connection
LEMMA CliHere ==
    ASSUME Inv, main = "cli", pc # "end"
    PROVE  LET t == Len(peer[1].todo)
               a == Len(peer[1].answers)
           IN  /\ 1 \in Conn /\ typed \in Seq(Lines) /\ Len(typed) \in Nat
               /\ peer[1].todo \in Seq(Asks) /\ peer[1].answers \in Seq(Replies)
               /\ peer[1].served \in Nat /\ t \in Nat /\ a \in Nat
               /\ peer[1].slot \in Nat /\ calls \in [DOMAIN Commands -> Nat]
               /\ conn[1].asked = Len(typed) /\ conn[1].taken + 1 = Len(typed) + responsed
               /\ Len(typed) = peer[1].served + t /\ peer[1].served = conn[1].taken + a
               /\ t + a <= 1 /\ responsed \in {0, 1}
               /\ responsed = 1 => t = 0 /\ a = 0
<1>1. /\ 1 \in Conn /\ typed \in Seq(Lines) /\ responsed \in {0, 1} /\ FlowOf(conn[1], peer[1])
      /\ Typed(conn[1], peer[1]) /\ calls \in [DOMAIN Commands -> Nat] /\ peer[1] \in Peers
  BY LibHere DEF Inv, Links, TypeOK
<1>2. conn[1].asked = Len(typed) /\ conn[1].taken + 1 = Len(typed) + responsed
  BY DEF Inv, CliInv
<1>3. conn[1].asked <= conn[1].taken + 1
  BY <1>1 DEF Inv, Links, OneEach, FirstPart
<1>4. /\ peer[1].served = conn[1].taken + Len(peer[1].answers)
      /\ conn[1].asked = peer[1].served + Len(peer[1].todo)
  BY <1>1 DEF FlowOf, Counted
<1>5. peer[1].slot \in Nat /\ Len(typed) \in Nat
  BY <1>1 DEF Peers
<1> DEFINE t == Len(peer[1].todo)
           a == Len(peer[1].answers)
           k == conn[1].taken
           s == peer[1].served
           n == Len(typed)
<1>6. t \in Nat /\ a \in Nat /\ k \in Nat /\ s \in Nat /\ n \in Nat
  BY <1>1, <1>5 DEF Typed
<1>7. n <= k + 1 /\ s = k + a /\ n = s + t /\ k + 1 = n + responsed
  BY <1>2, <1>3, <1>4
<1>8. peer[1].todo \in Seq(Asks) /\ peer[1].answers \in Seq(Replies)
  BY <1>1 DEF Typed
<1> HIDE DEF t, a, k, s, n
<1>9. t + a <= 1 /\ (responsed = 1 => t = 0 /\ a = 0)
  BY <1>1, <1>6, <1>7
<1> QED BY <1>1, <1>2, <1>5, <1>6, <1>7, <1>8, <1>9 DEF t, a, k, s, n

LEMMA ServerAnswersCli ==
    ASSUME Inv, NEW c \in Conn, ServerAnswers(c), main = "cli"
    PROVE  CliInv'
<1> DEFINE n == Len(typed)
           r == Head(peer[c].todo)
<1>1. /\ Links /\ Links' /\ pc # "end" /\ UNCHANGED <<main, pc, conn, typed, responsed, shown, bench>>
      /\ peer \in [Conn -> Peers] /\ peer[c].todo # << >>
  BY ServerAnswersLinks DEF Inv, ServerAnswers, cliVars, Links, TypeOK
<1>2. PICK a \in AnswerType :
             /\ a \in Answers(r, peer[c].slot, CallsAfter(r, calls))
             /\ calls' = CallsAfter(r, calls) /\ Served(c, a) \in Peers
             /\ peer' = [peer EXCEPT ![c] = Served(c, a)]
  BY <1>1, ServerAnswersIs
<1>3. c = 1
  <2>1. Len(peer[c].todo) > 0 /\ conn[c].asked = peer[c].served + Len(peer[c].todo)
        /\ peer[c].served \in Nat /\ Len(peer[c].todo) \in Nat
    BY <1>1, ServedFlow, Fields DEF Links, TypeOK, Flow, FlowOf, Counted, Typed
  <2>2. conn[c].asked # 0
    BY <2>1
  <2> QED BY <2>2 DEF Inv, CliInv
<1>4. /\ peer'[1].todo = Tail(peer[1].todo) /\ peer'[1].served = peer[1].served + 1
      /\ peer'[1].answers = Append(peer[1].answers, [to |-> peer[1].served + 1, answer |-> a])
      /\ peer'[1].slot = SlotAfter(r, peer[1].slot)
  BY <1>1, <1>2, <1>3 DEF Served
<1>5. /\ typed \in Seq(Lines) /\ n \in Nat /\ peer[1].served \in Nat
      /\ peer[1].slot \in Nat /\ calls \in [DOMAIN Commands -> Nat]
      /\ n = peer[1].served + 1 /\ Len(peer[1].todo) = 1 /\ Len(peer[1].answers) = 0
  <2> DEFINE t == Len(peer[1].todo)
             b == Len(peer[1].answers)
  <2>1. /\ typed \in Seq(Lines) /\ n \in Nat /\ peer[1].served \in Nat
        /\ peer[1].slot \in Nat /\ calls \in [DOMAIN Commands -> Nat]
        /\ t \in Nat /\ b \in Nat /\ t > 0 /\ t + b <= 1 /\ n = peer[1].served + t
    BY <1>1, <1>3, ServedFlow, CliHere
  <2> HIDE DEF t, b, n
  <2>2. t = 1 /\ b = 0
    BY <2>1
  <2> QED BY <2>1, <2>2 DEF t, b
<1>6. Len(Tail(peer[1].todo)) = 0 /\ Head(peer[1].todo) = peer[1].todo[1]
  BY <1>1, <1>5, CliHere
<1>7. peer'[1].answers[1].answer = a
  BY <1>1, <1>4, <1>5, CliHere
<1>8. r = Words(typed[n])
  <2>1. 1 \in 1..Len(peer[1].todo) /\ n = peer[1].served + 1
    BY <1>5
  <2>2. peer[1].todo[1] = Words(typed[peer[1].served + 1])
    BY <1>1, <2>1 DEF Inv, CliInv
  <2> QED BY <1>3, <1>6, <2>1, <2>2
<1>9. ASSUME Good(typed)
      PROVE  /\ TextOf(typed, peer'[1].slot, calls') /\ Fits(Display(a), typed)
  <2> DEFINE old == SubSeq(typed, 1, peer[1].served)
             line == typed[n]
  <2>1. old \in Seq(Lines) /\ line \in Lines /\ Append(old, line) = typed
    BY <1>5, SeqCut
  <2>2. WithinLimits(line)
    <3>1. n \in DOMAIN typed
      BY <1>5
    <3> QED BY <1>9, <3>1 DEF Good
  <2>3. TextOf(old, peer[1].slot, calls)
    BY <1>1, <1>9 DEF Inv, CliInv
  <2> HIDE DEF old, line
  <2>4. r = Words(line)
    BY <1>8 DEF line
  <2> QED BY <1>2, <1>3, <1>4, <1>5, <2>1, <2>2, <2>3, <2>4, AnswerFits
<1>10. SubSeq(typed, 1, peer'[1].served) = typed
  BY <1>4, <1>5, SeqCut
<1>11. CliInv
  BY DEF Inv
<1>12. \A i \in 1..Len(peer'[1].todo) : FALSE
  <2>1. Len(peer'[1].todo) = 0 /\ \A i \in 1..0 : FALSE
    BY <1>4, <1>6
  <2> QED BY <2>1, Zenon
<1> HIDE DEF n, r
<1> QED BY <1>1, <1>7, <1>9, <1>10, <1>11, <1>12 DEF CliInv, Good

LEMMA TypeLineCli ==
    ASSUME Inv, NEW line \in Lines, TypeLine(line)
    PROVE  CliInv'
<1>1. /\ Links /\ main = "cli" /\ pc = "prompt" /\ main' = main /\ bench' = bench
      /\ calls' = calls /\ shown' = Nothing /\ 1 \in Conn /\ CliInv /\ responsed = 1
      /\ conn[1].sock # "closed"
  BY UsedConn DEF Inv, CliInv, TypeLine, Links, Quits, TypeOK
<1>2. CASE Words(line) = << >>
  <2>1. UNCHANGED <<pc, conn, peer, typed, responsed>>
    BY <1>2 DEF TypeLine
  <2> QED BY <1>1, <2>1 DEF CliInv
<1>3. CASE Words(line) # << >>
  <2>1. /\ HandleUserCmd(1, Words(line), 0, "wait") /\ Words(line) \in Asks
        /\ typed' = Append(typed, line) /\ responsed' = 0
    BY <1>3, AsksAre DEF TypeLine
  <2>2. \/ pc' = "wait" /\ \E k \in Connections, p \in Peers : Writes(1, Words(line), 0, k, p)
        \/ UNCHANGED conn /\ pc' = "end"
    BY <1>1, <2>1, Handled
  <2>3. CASE UNCHANGED conn /\ pc' = "end"
    BY <1>1, <2>3 DEF CliInv
  <2>4. ASSUME pc' = "wait", NEW k \in Connections, NEW p \in Peers,
               Writes(1, Words(line), 0, k, p)
        PROVE  CliInv'
    <3> DEFINE n == Len(typed)
    <3>1. /\ conn'[1].asked = conn[1].asked + 1 /\ conn'[1].taken = conn[1].taken + 0
          /\ \A x \in Conn \ {1} : conn'[x] = conn[x]
          /\ peer'[1].todo = Append(peer[1].todo, Words(line))
          /\ peer'[1].answers = peer[1].answers /\ peer'[1].served = peer[1].served
          /\ peer'[1].slot = peer[1].slot
      BY <1>1, <2>4 DEF Writes, Links, TypeOK
    <3>2. /\ typed \in Seq(Lines) /\ n \in Nat /\ conn[1].asked = n /\ conn[1].taken + 1 = n + 1
          /\ peer[1].served \in Nat /\ conn[1].taken \in Nat
          /\ Len(peer[1].todo) = 0 /\ Len(peer[1].answers) = 0
          /\ n = peer[1].served + 0
          /\ peer[1].todo \in Seq(Asks) /\ peer[1].answers \in Seq(Replies)
      BY <1>1, CliHere, Counts
    <3>3. /\ Len(typed') = n + 1 /\ typed'[n + 1] = line /\ peer[1].served = n
          /\ SubSeq(typed', 1, n) = typed /\ SubSeq(typed, 1, n) = typed
      BY <2>1, <3>2, SeqCut
    <3>4. /\ Len(peer'[1].todo) = 1 /\ peer'[1].todo[1] = Words(line) /\ peer'[1].answers = << >>
      BY <2>1, <3>1, <3>2
    <3>5. Good(typed') => Good(typed)
      <4> SUFFICES ASSUME Good(typed'), NEW i \in DOMAIN typed PROVE WithinLimits(typed[i])
        BY DEF Good
      <4>1. i \in DOMAIN typed' /\ typed'[i] = typed[i]
        BY <2>1, <3>2
      <4> QED BY <4>1 DEF Good
    <3>6. /\ conn'[1].asked = Len(typed') /\ conn'[1].taken + 1 = Len(typed') + responsed'
      BY <2>1, <3>1, <3>2, <3>3
    <3>7. \A i \in 1..Len(peer'[1].todo) :
            peer'[1].todo[i] = Words(typed'[peer'[1].served + i])
      <4>1. \A i \in 1..1 : i = 1
        OBVIOUS
      <4>2. peer'[1].served + 1 = n + 1
        BY <3>1, <3>3
      <4> QED BY <3>3, <3>4, <4>1, <4>2
    <3>8. Good(typed') => TextOf(SubSeq(typed', 1, peer'[1].served), peer'[1].slot, calls')
      BY <1>1, <3>1, <3>3, <3>5 DEF CliInv
    <3>9. bench'.P = 1 /\ \A c \in Conn : c # 1 => conn'[c].asked = 0
      BY <1>1, <3>1 DEF CliInv
    <3> QED BY <1>1, <2>4, <3>4, <3>6, <3>7, <3>8, <3>9 DEF CliInv
  <2> QED BY <2>2, <2>3, <2>4
<1> QED BY <1>2, <1>3

\* The answer is printed
LEMMA CliRecvCli ==
    ASSUME Inv, NEW c \in Used, CliRecv(c)
    PROVE  CliInv'
<1>1. /\ Links /\ main = "cli" /\ pc = "ready" /\ CliInv /\ MayParse(c) /\ c = 1 /\ 1 \in Conn
      /\ conn' = [conn EXCEPT ![c].taken = @ + 1] /\ peer' = Take(c)
      /\ shown' = Display(Reply(c).answer) /\ responsed' = 1
      /\ UNCHANGED <<main, pc, calls, typed, bench>>
  <2>1. c \in 1..1
    BY DEF CliRecv, Used, Inv, CliInv
  <2> QED BY <2>1, UsedConn DEF CliRecv, Inv, Links
<1>2. /\ peer[1].answers # << >> /\ Reply(1) = peer[1].answers[1] /\ Len(peer[1].answers) > 0
  BY <1>1, TakeFlow
<1>3. /\ peer'[1].answers = Tail(peer[1].answers) /\ peer'[1].todo = peer[1].todo
      /\ peer'[1].served = peer[1].served /\ peer'[1].slot = peer[1].slot
      /\ conn'[1].taken = conn[1].taken + 1 /\ conn'[1].asked = conn[1].asked
      /\ \A x \in Conn \ {1} : conn'[x] = conn[x]
  BY <1>1 DEF Links, TypeOK, Peers, Connections, Take
<1> DEFINE t == Len(peer[1].todo)
           a == Len(peer[1].answers)
           n == Len(typed)
<1>4. /\ a > 0 /\ t \in Nat /\ a \in Nat /\ t + a <= 1 /\ responsed \in {0, 1}
      /\ responsed = 1 => t = 0 /\ a = 0
      /\ conn[1].taken + 1 = n + responsed /\ conn[1].asked = n /\ n \in Nat
      /\ peer[1].answers \in Seq(Replies)
  BY <1>1, <1>2, CliHere
<1>5. responsed = 0 /\ a = 1
  <2> HIDE DEF t, a, n
  <2> QED BY <1>4
<1>6. peer'[1].answers = << >>
  <2> DEFINE s == peer[1].answers
  <2>1. s \in Seq(Replies) /\ Len(s) = 1
    BY <1>4, <1>5
  <2> HIDE DEF s
  <2>2. Tail(s) = << >>
    BY <2>1, LastTaken
  <2> QED BY <1>3, <2>2 DEF s
<1>7. conn'[1].asked = Len(typed') /\ conn'[1].taken + 1 = Len(typed') + responsed'
  BY <1>1, <1>3, <1>4, <1>5
<1>8. Good(typed) => Fits(Display(Reply(1).answer), typed)
  BY <1>1, <1>2 DEF CliInv
<1>9. \A x \in Conn : x # 1 => conn'[x].asked = 0
  BY <1>1, <1>3 DEF CliInv
<1> HIDE DEF t, a, n
<1> QED BY <1>1, <1>3, <1>6, <1>7, <1>8, <1>9 DEF CliInv

\* What happens to the link leaves the requests and the answers alone
LEMMA LinkKept ==
    ASSUME Links,
           \/ (\E c \in Conn : ServerCloses(c))
           \/ (\E c \in Used : OnRead(c) \/ OnWrite(c) \/ RecvIncomplete(c) \/ CloseConn(c))
           \/ Wait \/ EventsHandled \/ CycleEnds \/ Leave \/ Quit
    PROVE  /\ \A x \in Conn : conn'[x].asked = conn[x].asked /\ conn'[x].taken = conn[x].taken
           /\ peer'[1].todo = peer[1].todo /\ peer'[1].served = peer[1].served
           /\ peer'[1].answers = peer[1].answers /\ peer'[1].slot = peer[1].slot
           /\ UNCHANGED <<main, calls, cliVars>>
<1>1. conn \in [Conn -> Connections] /\ peer \in [Conn -> Peers] /\ Used \subseteq Conn /\ 1 \in Conn
  BY UsedConn DEF Links, TypeOK
<1>2. CASE \E c \in Used : CloseConn(c)
  <2>1. PICK c \in Used : conn' = [conn EXCEPT ![c].sock = "closed", ![c].armed = FALSE,
                                               ![c].events = {}]
    BY <1>2 DEF CloseConn
  <2>2. \A x \in Conn : conn'[x].asked = conn[x].asked /\ conn'[x].taken = conn[x].taken
    BY <1>1, <2>1 DEF Connections
  <2> QED BY <1>2, <2>2 DEF CloseConn, cliVars
<1>3. CASE Leave \/ Quit
  BY <1>3 DEF Leave, Quit, cliVars
<1>4. CASE \E c \in Conn : ServerCloses(c)
  <2>1. PICK c \in Conn : ServerCloses(c)
    BY <1>4
  <2>2. peer' = [peer EXCEPT ![c].wire = 0] /\ UNCHANGED <<main, calls, cliVars>>
    BY <2>1 DEF ServerCloses
  <2> QED BY <1>1, <1>4, <2>2, CountsKept DEF Peers
<1>5. CASE \E c \in Used : OnRead(c)
  <2>1. PICK c \in Used : OnRead(c)
    BY <1>5
  <2>2. PICK n : peer' = [peer EXCEPT ![c].wire = @ - n]
    BY <2>1 DEF OnRead
  <2>3. UNCHANGED <<main, calls, cliVars>>
    BY <2>1 DEF OnRead
  <2>4. /\ peer'[1].todo = peer[1].todo /\ peer'[1].served = peer[1].served
        /\ peer'[1].answers = peer[1].answers /\ peer'[1].slot = peer[1].slot
    BY <1>1, <2>2 DEF Peers
  <2> QED BY <1>5, <2>3, <2>4, CountsKept
<1>6. CASE (\E c \in Used : OnWrite(c) \/ RecvIncomplete(c)) \/ Wait \/ EventsHandled \/ CycleEnds
  <2>1. UNCHANGED <<main, peer, calls, cliVars>>
    BY <1>6 DEF OnWrite, RecvIncomplete, Wait, EventsHandled, CycleEnds
  <2> QED BY <1>6, <2>1, CountsKept
<1> QED BY <1>2, <1>3, <1>4, <1>5, <1>6

LEMMA LinkCli ==
    ASSUME Inv, main = "cli",
           \/ (\E c \in Conn : ServerCloses(c))
           \/ (\E c \in Used : OnRead(c) \/ OnWrite(c) \/ RecvIncomplete(c))
           \/ (\E c \in Used : CloseConn(c) /\ pc' \in {pc, "end"})
           \/ Wait \/ EventsHandled \/ CycleEnds \/ Leave \/ Quit
    PROVE  CliInv'
<1>1. /\ \A x \in Conn : conn'[x].asked = conn[x].asked /\ conn'[x].taken = conn[x].taken
      /\ peer'[1].todo = peer[1].todo /\ peer'[1].served = peer[1].served
      /\ peer'[1].answers = peer[1].answers /\ peer'[1].slot = peer[1].slot
      /\ UNCHANGED <<main, calls, cliVars>>
  BY LinkKept DEF Inv
<1>2. bench' = bench
  BY DEF ServerCloses, OnRead, OnWrite, RecvIncomplete, CloseConn, Wait, EventsHandled,
         CycleEnds, Leave, Quit
<1>3. /\ pc' # "end" => pc # "end"
      /\ pc' = "prompt" => pc = "prompt" \/ responsed = 1
  BY DEF ServerCloses, OnRead, OnWrite, RecvIncomplete, CloseConn, Wait, EventsHandled,
         CycleEnds, Leave, Quit
<1> QED BY <1>1, <1>2, <1>3, CliKept DEF cliVars

-----------------------------------------------------------------------------
(* The invariant holds *)

LEMMA NotLib ==
    ASSUME main # "lib", main' = main
    PROVE  LibInv'
BY DEF LibInv

LEMMA ServerInv ==
    ASSUME Inv, ServerStep
    PROVE  Inv'
<1>1. PICK c \in Conn : ServerAnswers(c) \/ ServerCloses(c)
  BY DEF ServerStep
<1>2. main' = main
  BY <1>1 DEF ServerAnswers, ServerCloses
<1>3. Links'
  BY <1>1, ServerAnswersLinks, ServerClosesLinks
<1>4. LibInv'
  BY <1>1, <1>2, ServerAnswersLib, ServerClosesLib, NotLib
<1>5. CliInv'
  BY <1>1, <1>2, ServerAnswersCli, LinkCli, NotCli
<1>6. BenchInv'
  BY <1>1, KeptInv
<1> QED BY <1>3, <1>4, <1>5, <1>6 DEF Inv

LEMMA LibraryInv ==
    ASSUME Inv, LibStep \/ (\E f \in LibFunctions : Call(f))
    PROVE  Inv'
<1>1. Links /\ main = "lib" /\ main' = main
  <2>1. Links /\ main = "lib"
    BY LibHere DEF Inv, LibStep, Flush, FlushFails, Killed, LibReturns, LibRefuses, LibReads,
                   LibReadFails, Call
  <2> QED BY <2>1 DEF LibStep, Flush, FlushFails, Killed, LibReturns, LibRefuses, LibReads,
                      LibReadFails, Call, CallFails, libOnly
<1>2. Links'
  BY <1>1, CallLinks, FlushLinks, LibReadsLinks, LibReturnsLinks, LibStopsLinks DEF LibStep
<1>3. LibInv'
  BY CallLib, FlushLib, LibReadsLib, LibReturnsLib, LibStopsLib DEF LibStep
<1>4. CliInv' /\ BenchInv'
  BY <1>1, NotCli, NotBench
<1> QED BY <1>2, <1>3, <1>4 DEF Inv

\* The loop that the command line client and the benchmark share
LEMMA LinkInv ==
    ASSUME Inv,
           \/ (\E c \in Used : OnRead(c) \/ OnWrite(c) \/ RecvIncomplete(c))
           \/ Wait \/ EventsHandled \/ CycleEnds
    PROVE  Inv'
<1>1. main # "lib" /\ main' = main
  BY DEF Inv, Links, TypeOK, OnRead, OnWrite, RecvIncomplete, Wait, EventsHandled, CycleEnds
<1>2. Links'
  BY OnReadLinks, OnWriteLinks, LoopLinks, WaitLinks
<1>3. CliInv'
  BY <1>1, LinkCli, NotCli
<1>4. BenchInv'
  BY KeptInv
<1> QED BY <1>1, <1>2, <1>3, <1>4, NotLib DEF Inv

LEMMA ClosingInv ==
    ASSUME Inv, NEW c \in Used, OnError(c) \/ OnReadFails(c) \/ OnWriteFails(c) \/ RecvFails(c)
    PROVE  Inv'
<1>1. /\ Links' /\ CloseConn(c) /\ pc \in {"events", "ready"} /\ pc' \in {pc, "end"}
  BY OnErrorLinks, RecvFailsLinks DEF RecvFails
<1>2. main # "lib" /\ main' = main
  BY <1>1 DEF Inv, Links, TypeOK, CloseConn
<1>3. CliInv'
  BY <1>1, <1>2, LinkCli, NotCli
<1>4. BenchInv'
  BY <1>1, ClosedInv
<1> QED BY <1>1, <1>2, <1>3, <1>4, NotLib DEF Inv

LEMMA UserInv ==
    ASSUME Inv, Leave \/ Quit \/ (\E line \in Lines : TypeLine(line))
                \/ (\E c \in Used : CliRecv(c))
    PROVE  Inv'
<1>1. main # "lib" /\ main' = main
  BY DEF Inv, Links, TypeOK, Leave, Quit, TypeLine, CliRecv
<1>2. Links'
  BY LoopLinks, TypeLineLinks, CliRecvLinks
<1>3. CliInv'
  BY <1>1, LinkCli, NotCli, TypeLineCli, CliRecvCli
<1>4. BenchInv'
  <2>1. CASE Quit
    BY <2>1, EndsInv
  <2>2. CASE ~Quit
    BY <1>1, <2>2, NotBench DEF Leave, TypeLine, CliRecv
  <2> QED BY <2>1, <2>2
<1> QED BY <1>1, <1>2, <1>3, <1>4, NotLib DEF Inv

LEMMA BenchmarkInv ==
    ASSUME Inv, BenchSend \/ BenchPastEnd \/ BenchSent
                \/ (\E c \in Used : BenchRecv(c) \/ BenchDone(c))
    PROVE  Inv'
<1>1. main = "bench" /\ main' = main
  BY DEF BenchSend, BenchPastEnd, BenchSent, BenchRecv, BenchDone
<1>2. Links'
  BY LoopLinks, BenchSendLinks, BenchRecvLinks, BenchDoneLinks
<1>3. BenchInv'
  BY BenchSendInv, BenchSentInv, BenchRecvInv, BenchDoneInv, EndsInv
<1>4. LibInv' /\ CliInv'
  BY <1>1, NotLib, NotCli
<1> QED BY <1>2, <1>3, <1>4 DEF Inv

LEMMA StutterInv ==
    ASSUME Inv, UNCHANGED vars
    PROVE  Inv'
<1>1. Links'
  <2>1. TypeOK' /\ Quits'
    BY DEF Inv, Links, vars, cliVars, libVars, TypeOK, Quits, Used
  <2>2. \A c \in Conn : Flow(c)'
    BY FlowKept DEF Inv, vars
  <2>3. \A c \in Conn : Batch(c)' /\ OneEach(c)' /\ OutSet(c)'
    BY DEF Inv, Links, vars, Batch, OneEach, OutSet, FirstPart, Used
  <2> QED BY <2>1, <2>2, <2>3 DEF Links
<1>2. LibInv'
  BY DEF Inv, vars, libVars, LibInv, Talk, Given, InTime, Stuck, TooLong, Reply, MayParse, Held
<1>3. CliInv'
  BY CliKept DEF vars, cliVars, Inv, CliInv
<1>4. BenchInv'
  BY BenchKept DEF vars
<1> QED BY <1>1, <1>2, <1>3, <1>4 DEF Inv

LEMMA Preserved == Inv /\ [Next]_vars => Inv'
<1> SUFFICES ASSUME Inv, [Next]_vars PROVE Inv'
  OBVIOUS
<1>1. CASE LoopStep
  BY <1>1, LinkInv, ClosingInv, UserInv, BenchmarkInv DEF LoopStep, EventStep, ReadyStep
<1>2. CASE LibStep
  BY <1>2, LibraryInv
<1>3. CASE UserStep
  BY <1>3, LibraryInv, UserInv DEF UserStep
<1>4. CASE ServerStep
  BY <1>4, ServerInv
<1>5. CASE UNCHANGED vars
  BY <1>5, StutterInv
<1> QED BY <1>1, <1>2, <1>3, <1>4, <1>5 DEF Next

LEMMA InitLinks == Init => Links
<1> SUFFICES ASSUME Init PROVE Links
  OBVIOUS
<1> DEFINE k == [sock |-> "up", asked |-> 0, out |-> 0, recvd |-> 0, taken |-> 0,
                 armed |-> FALSE, events |-> {}]
           p == [todo |-> << >>, served |-> 0, answers |-> << >>, wire |-> 0, slot |-> 0]
<1>1. /\ conn = [c \in Conn |-> k] /\ peer = [c \in Conn |-> p]
  BY DEF Init
<1>2. /\ k \in Connections /\ k.sock = "up" /\ k.asked = 0 /\ k.out = 0 /\ k.recvd = 0
      /\ k.taken = 0 /\ k.armed = FALSE /\ k.events = {}
  BY DEF Connections
<1>3. /\ p \in Peers /\ Len(p.todo) = 0 /\ Len(p.answers) = 0 /\ p.served = 0 /\ p.wire = 0
  BY DEF Peers
<1> HIDE DEF k, p
<1>4. FlowOf(k, p)
  <2>1. Consumed(0) = 0 /\ ReqUnits(0) = 0 /\ RespUnits(0) = 0
    BY ClientAssumption DEF Consumed, ReqUnits, RespUnits
  <2> QED BY <1>2, <1>3, <2>1 DEF FlowOf, Counted, Numbered, Arrived, Unsent
<1>5. \A c \in Conn : conn[c] = k /\ peer[c] = p
  BY <1>1
<1>6. /\ bench.P \in Conn /\ bench.phase = 1 /\ bench.num_sent = 0
      /\ bench \in [P : Conn, R : RequestNums \cup {1}, phase : 1..Phases, num_sent : Nat]
  <2>1. PICK q \in Conn, r \in RequestNums :
         bench = [P |-> IF main = "bench" THEN q ELSE 1,
                  R |-> IF main = "bench" THEN r ELSE 1, phase |-> 1, num_sent |-> 0]
    BY DEF Init
  <2>2. 1 \in Conn /\ 1 \in 1..Phases /\ 0 \in Nat
    BY PhasesNat, ClientAssumption DEF Conn
  <2> QED BY <2>1, <2>2
<1>7. TypeOK
  <2>1. conn \in [Conn -> Connections] /\ peer \in [Conn -> Peers]
    BY <1>1, <1>2, <1>3
  <2>2. typed \in Seq(Lines) /\ calls \in [DOMAIN Commands -> Nat]
    BY DEF Init
  <2> QED BY <1>6, <2>1, <2>2 DEF Init, TypeOK
<1>8. \A c \in Conn : Flow(c)
  BY <1>4, <1>5 DEF Flow
<1>9. \A c \in Conn : Batch(c) /\ OneEach(c) /\ OutSet(c)
  BY <1>2, <1>5 DEF Init, Batch, OneEach, OutSet
<1>10. Quits
  BY <1>2, <1>5 DEF Init, Quits
<1> QED BY <1>7, <1>8, <1>9, <1>10 DEF Links

LEMMA InitInv == Init => Inv
<1> SUFFICES ASSUME Init PROVE Inv
  OBVIOUS
<1>1. Links /\ 1 \in Conn /\ Used \subseteq Conn
  BY InitLinks, UsedConn DEF Links
<1>2. /\ \A c \in Conn : conn[c].asked = 0 /\ conn[c].taken = 0 /\ conn[c].sock = "up"
      /\ peer[1].todo = << >> /\ peer[1].answers = << >> /\ peer[1].served = 0
      /\ peer[1].slot = 0
  BY <1>1 DEF Init
<1>3. LibInv
  <2>1. Talk /\ Given
    BY <1>2, GivenIs DEF Init, Talk, Given
  <2>2. InTime
    BY <1>1, <1>2, GivenIs DEF Init, InTime
  <2> QED BY <2>1, <2>2 DEF LibInv
<1>4. CliInv
  <2>1. typed = << >> /\ calls = [name \in DOMAIN Commands |-> 0] /\ responsed = 1 /\ shown = Nothing
    BY DEF Init
  <2>2. SubSeq(typed, 1, 0) = typed /\ Len(typed) = 0
    BY <2>1
  <2>3. TextOf(<< >>, 0, calls)
    <3>1. TextSlot(<< >>) = 1
      BY DEF TextSlot
    <3>2. \A name : TextCount(<< >>, name) = 0
      BY FS_EmptySet DEF TextCount
    <3> QED BY <2>1, <3>1, <3>2 DEF TextOf
  <2>4. main = "cli" => bench.P = 1
    BY DEF Init
  <2>5. TextOf(SubSeq(typed, 1, peer[1].served), peer[1].slot, calls)
    BY <1>2, <2>1, <2>2, <2>3
  <2> QED BY <1>1, <1>2, <2>1, <2>2, <2>4, <2>5 DEF CliInv
<1>5. BenchInv
  <2>1. /\ bench.num_sent = 0 /\ bench.phase = 1 /\ bench.P \in Nat /\ bench.R \in Nat
        /\ main = "bench" => pc = "start"
    BY <1>1, BenchNumbers DEF Init
  <2>2. Asked = {} /\ Waiting = {}
    <3>1. \A c \in Used : 1..conn[c].asked = {}
      BY <1>1, <1>2
    <3>2. Asked = {}
      BY <3>1 DEF Asked
    <3> QED BY <3>2 DEF Waiting
  <2>3. (1 - 1) * bench.R + (0 + 0) = 0 /\ (1 - 1) * (bench.P - 1) + 0 = 0
    BY <2>1
  <2>4. IsFiniteSet({}) /\ Cardinality({}) = 0
    BY FS_EmptySet
  <2>5. Running => Stand
    BY <2>1, <2>2, <2>3, <2>4 DEF Running, Stand
  <2>6. main = "bench" => Index
    BY <2>1 DEF Index
  <2> QED BY <2>5, <2>6, BenchIs
<1> QED BY <1>1, <1>3, <1>4, <1>5 DEF Inv

-----------------------------------------------------------------------------
(* The theorems *)

\* What is read, asked and answered is counted alike at both ends of every
\* connection, whichever of the three programs runs and whatever its reads and
\* writes take at a time (etdb_connect_recv, etdb_connect_write and their
\* callers in etdb_client.c and hietdb.c).
THEOREM Invariance == Spec => []Inv
<1>1. Init => Inv
  BY InitInv
<1>2. Inv /\ [Next]_vars => Inv'
  BY Preserved
<1> QED BY <1>1, <1>2, PTL DEF Spec

\* The state of every program stays in its type, and a program at the places
\* that are its own.
THEOREM Types == Spec => []TypeOK
<1>1. Inv => TypeOK
  BY DEF Inv, Links
<1> QED BY <1>1, Invariance, PTL

\* A call of the library gives back the answer to its own request, and never a
\* refusal, unless an earlier call gave up while the link stayed up
\* (etdb_client_request and the functions of hietdb.c).
THEOREM LibraryInStep == Spec => []InStep
<1>1. Inv => InStep
  <2> SUFFICES ASSUME Inv, main = "lib", "to" \in DOMAIN ret
               PROVE  /\ ~trouble => ret.to = conn[1].asked
                      /\ ret.status # Head(Unknown.recs)
    BY DEF InStep
  <2>1. Given /\ (~trouble => InTime)
    BY DEF Inv, LibInv
  <2>2. ret \in [fn : LibFunctions, to : Nat, status : Statuses, value : Texts]
    BY <2>1, GivenIs DEF Given, Returns
  <2>3. ret.status \in Statuses
    BY <2>2
  <2>4. Head(Unknown.recs) = "Unkown Command"
    BY DEF Unknown, Answer
  <2> QED BY <2>1, <2>3, <2>4 DEF InTime, Statuses
<1> QED BY <1>1, Invariance, PTL

\* What the command line client prints under a line is what the text of that
\* line and of those before it asks for: the split, the lower case, the check
\* of the arguments, use and where, perf (etdb_connect_send_cmd,
\* etdb_serv_exec_proc and the handlers of etdb_sys.c).
THEOREM AnswersShown == Spec => []ShownAnswers
<1>1. Inv => ShownAnswers
  BY DEF Inv, CliInv, ShownAnswers, Good
<1> QED BY <1>1, Invariance, PTL

\* Every part of the benchmark but the first starts behind by what the ones
\* before it left: one reply less than it has connections for each
\* (etdb_exec_benchmark_cycle).
THEOREM BenchmarkLag == Spec => []BenchLag
<1>1. Inv => BenchLag
  BY DEF Inv, BenchInv
<1> QED BY <1>1, Invariance, PTL

\* The event loop and the ready list never name a connection that was freed
\* (etdb_cli_cycle, etdb_exec_benchmark_cycle); only a later part of a benchmark
\* uses one, and only with more connections than requests is the table of the
\* requests read behind its end.
THEOREM NoWildUse == Spec => []WildUse
<1>1. Inv => WildUse
  <2> SUFFICES ASSUME Inv PROVE WildUse
    OBVIOUS
  <2>1. Used \subseteq Conn /\ Quits /\ \A c \in Conn : Batch(c)
    BY UsedConn DEF Inv, Links
  <2>2. ASSUME NEW c \in Used, conn[c].sock = "closed"
        PROVE  conn[c].events = {} /\ c \notin ready
    BY <2>1, <2>2 DEF Batch
  <2> QED BY <2>1, <2>2 DEF WildUse, Quits
<1> QED BY <1>1, Invariance, PTL

\* Only a connection that is closed ends the loop
LEMMA QuitByClosing ==
    ASSUME [Next]_vars, etdb_quit' # etdb_quit
    PROVE  \E c \in Used : OnError(c) \/ OnReadFails(c) \/ OnWriteFails(c) \/ RecvFails(c)
<1>1. CASE LoopStep
  BY <1>1 DEF LoopStep, EventStep, ReadyStep, BenchSend, BenchPastEnd, BenchSent, Quit, Wait,
              OnRead, OnWrite, EventsHandled, RecvIncomplete, CliRecv, BenchRecv, BenchDone,
              CycleEnds
<1>2. CASE LibStep
  BY <1>2 DEF LibStep, Flush, FlushFails, Killed, LibReturns, LibRefuses, LibReads,
              LibReadFails, CallFails, libOnly
<1>3. CASE UserStep
  BY <1>3 DEF UserStep, Leave, TypeLine, Call, libOnly
<1>4. CASE ServerStep
  BY <1>4 DEF ServerStep, ServerAnswers, ServerCloses
<1> QED BY <1>1, <1>2, <1>3, <1>4 DEF Next, vars

\* The client gives up for a link that was reset, for a response longer than
\* the largest packet, or, from the second part of a benchmark on, for OUT that
\* was still set behind a request that had gone out whole (where etdb_cli_cycle and
\* etdb_exec_benchmark_cycle close a connection and set etdb_quit).
THEOREM CausedQuit == Spec => QuitCause
<1> DEFINE Cause == \/ \E c \in Used : conn[c].sock = "reset"
                    \/ \E c \in ready : peer[c].answers # << >> /\ TooLong(c)
                    \/ main = "bench" /\ bench.phase >= 2
                       /\ \E c \in Used : conn[c].armed /\ conn[c].out = 0 /\ conn[c].asked > 1
<1>1. Inv /\ [Next]_vars => [etdb_quit = 0 /\ etdb_quit' = 1 => Cause]_vars
  <2> SUFFICES ASSUME Inv, [Next]_vars, etdb_quit' # etdb_quit PROVE Cause
    OBVIOUS
  <2>1. PICK c \in Used : OnError(c) \/ OnReadFails(c) \/ OnWriteFails(c) \/ RecvFails(c)
    BY QuitByClosing
  <2>2. c \in Conn /\ Links /\ Batch(c) /\ OutSet(c)
    BY UsedConn DEF Inv, Links
  <2>3. CASE OnError(c) \/ OnReadFails(c)
    BY <2>2, <2>3 DEF OnError, OnReadFails, Batch
  <2>4. CASE OnWriteFails(c)
    <3>1. conn[c].sock = "reset" \/ (conn[c].out = 0 /\ conn[c].armed)
      BY <2>2, <2>4 DEF OnWriteFails, Batch
    <3> QED BY <2>2, <3>1 DEF OutSet
  <2>5. CASE RecvFails(c)
    BY <2>2, <2>5, TakeFlow DEF RecvFails
  <2> QED BY <2>1, <2>3, <2>4, <2>5
<1> QED BY <1>1, Invariance, PTL DEF Spec, QuitCause
=============================================================================
