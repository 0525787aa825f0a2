----------------------------- MODULE EtdbDispatch -----------------------------
(***************************************************************************)
(* From the text of a command to its answer: the split of a typed line     *)
(* (src/src/etdb_connection.c, store/etdb_string.c), the lookup of the     *)
(* command, the check of its arguments and the status in front of what the *)
(* handler appended (etdb_serv.c, etdb_config.c), and the system commands  *)
(* (modules/etdb_sys.c).  Operators only: EtdbClient has the state.        *)
(*                                                                         *)
(* A line is the sequence of its pieces between blanks, empty ones         *)
(* included; a word is a piece that is not empty.                          *)
(***************************************************************************)
EXTENDS Integers, Sequences

CONSTANTS
    MaxSplits,  \* splits[256] of etdb_connect_send_cmd
    MaxSlot,    \* ETDB_DATABASE_MAX_SLOT
    IntMod,     \* the number of values of an int, 2^32
    Lower,      \* the words with upper-case letters, to their lower case
    Decimal     \* the words that are digits only, to the numbers they write

Empty == ""

ASSUME DispatchAssumption ==
    /\ MaxSplits \in Nat \ {0} /\ MaxSlot \in Nat \ {0}
    /\ IntMod \in Nat /\ IntMod > 2 * MaxSlot /\ IntMod % 2 = 0
    /\ \A w \in DOMAIN Decimal : Decimal[w] \in Nat

-----------------------------------------------------------------------------
(* The line *)

MinOf(a, b) == IF a < b THEN a ELSE b

\* Variant of Split: the last place of the array is not used
SplitOneLess(line) == SubSeq(line, 1, MinOf(Len(line), MaxSplits - 1))

\* etdb_str_split: the pieces in front of the limit; the rest is not looked at
Split(line) == SubSeq(line, 1, MinOf(Len(line), MaxSplits))

\* etdb_connect_send_cmd: the words of a line that become records
Words(line) == SelectSeq(Split(line), LAMBDA p : p # Empty)

\* etdb_resp_tolower: of the first word only
ToLower(words) ==
    IF words[1] \in DOMAIN Lower THEN [words EXCEPT ![1] = Lower[@]] ELSE words

\* etdb_atoi: an int wraps at every digit, which is to wrap the number they
\* write; a sign is met as a character that is no digit
Wrap(n) == ((n + IntMod \div 2) % IntMod) - IntMod \div 2
IsNumber(w) == w \in DOMAIN Decimal
Atoi(w) == Wrap(Decimal[w])

-----------------------------------------------------------------------------
(* The commands *)

\* Variant of ParseArgs: "or more" stands for the number itself
ParseArgsExact(flags, n) == n \in flags.args

\* etdb_serv_parse_args.  args are the numbers of arguments with a flag of
\* their own, more those with a flag "or more"; five arguments and above are
\* one case, with a flag of its own.
ParseArgs(flags, n) ==
    IF n <= 4 THEN n \in flags.args \/ \E k \in flags.more : k <= n
    ELSE 5 \in flags.more

\* Tables of different names as one
Tables(ts) ==
    [n \in UNION {DOMAIN ts[i] : i \in DOMAIN ts} |->
        ts[CHOOSE i \in DOMAIN ts : n \in DOMAIN ts[i]][n]]

Takes(args) == [args |-> args, more |-> {}]
TakesMore(k) == [args |-> {}, more |-> {k}]

KvCommands == [set |-> Takes({2}), get |-> Takes({1}), del |-> Takes({1}),
               matchlongest |-> Takes({1})]
HashCommands == [hset |-> Takes({3}), hget |-> Takes({2}), hdel |-> Takes({2})]
SetCommands == [sadd |-> TakesMore(2), sdel |-> TakesMore(2),
                smembers |-> Takes({1}), sismember |-> Takes({2})]
ListCommands == [lpush |-> TakesMore(2), rpush |-> TakesMore(2),
                 lpop |-> Takes({1}), rpop |-> Takes({1}),
                 ltop |-> Takes({1}), rtop |-> Takes({1})]
SpatialCommands == [spset |-> Takes({3}), spget |-> Takes({1}), spdel |-> Takes({1}),
                    sprect |-> Takes({4}), spknn |-> Takes({2, 3}),
                    geo_hash_info |-> Takes({0})]
SysCommands == [info |-> Takes({0}), perf |-> Takes({1}), use |-> Takes({1}),
                where |-> Takes({0}), help |-> Takes({0, 1}), bgsave |-> Takes({0}),
                ping |-> Takes({0}), sync |-> Takes({0})]

\* The trie of etdb_module_init
Commands == Tables(<<KvCommands, HashCommands, SetCommands, ListCommands, SpatialCommands,
                     SysCommands>>)

\* No name in the table has an upper-case letter
ASSUME LowerAssumption == DOMAIN Lower \cap DOMAIN Commands = {}

\* etdb_module_find_command, for the name and for the argument of perf
Known(name) == name \in DOMAIN Commands

-----------------------------------------------------------------------------
(* The answer *)

\* recs are the records of an answer; num is the number in the last one
Answer(recs, num) == [recs |-> recs, num |-> num]
OK == Answer(<<"+OK">>, 0)
FAIL == Answer(<<"+FAIL">>, 0)
Unknown == Answer(<<"Unkown Command">>, 0)

\* An answer with n records of data behind the status
Data(n) == Answer(<<"+OK">> \o [i \in 1..n |-> "data"], 0)

\* What the data commands may answer.  What is stored is EtdbDatabase's
\* subject: here every outcome is possible.
DataAnswers(name) ==
    CASE name \in {"get", "hget", "ltop", "rtop", "spget"} -> {FAIL, Data(1)}
      [] name = "matchlongest" -> {FAIL, Data(2)}
      [] name = "sismember" -> {Data(1)}
      [] name = "smembers" -> {Data(n) : n \in 0..2}
      [] name = "sprect" -> {FAIL} \cup {Data(n) : n \in 0..2}
      [] name \in {"spknn", "geo_hash_info"} -> {Data(1)}
      [] OTHER -> {OK, FAIL}

\* Variant of UseOk: slot 0 is let in
UseOkZero(w) == IsNumber(w) /\ Atoi(w) >= 0 /\ Atoi(w) <= MaxSlot

\* etdb_sys_use_handler
UseOk(w) == IsNumber(w) /\ Atoi(w) > 0 /\ Atoi(w) <= MaxSlot

\* The system commands.  where has no return statement: its status is either
\* one.  bgsave is EtdbBgsave's subject.
SysAnswers(words, slot, calls) ==
    CASE words[1] = "use" -> IF UseOk(words[2]) THEN {OK} ELSE {FAIL}
      [] words[1] = "where" -> {Answer(<<s, "number">>, slot + 1) : s \in {"+OK", "+FAIL"}}
      [] words[1] = "perf" -> IF Known(words[2])
                              THEN {Answer(<<"+OK", "number">>, calls[words[2]])}
                              ELSE {FAIL}
      [] words[1] \in {"info", "help"} -> {Data(1)}
      [] words[1] = "bgsave" -> {OK, FAIL}
      [] words[1] = "ping" -> {OK}
      [] words[1] = "sync" -> {FAIL}

Accepted(words) == Known(words[1]) /\ ParseArgs(Commands[words[1]], Len(words) - 1)

\* etdb_serv_exec_proc: the answers a request may get in a slot
Answers(request, slot, calls) ==
    LET words == ToLower(request)
    IN  IF ~Accepted(words) THEN {Unknown}
        ELSE IF words[1] \in DOMAIN SysCommands THEN SysAnswers(words, slot, calls)
        ELSE DataAnswers(words[1])

\* conn->slot and cmd->calls, by name, after the request
SlotAfter(request, slot) ==
    LET words == ToLower(request)
    IN  IF Accepted(words) /\ words[1] = "use" /\ UseOk(words[2])
        THEN Atoi(words[2]) - 1 ELSE slot
CallsAfter(request, calls) ==
    LET words == ToLower(request)
    IN  IF Accepted(words) THEN [calls EXCEPT ![words[1]] = @ + 1] ELSE calls
=============================================================================
