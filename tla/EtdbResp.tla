------------------------------- MODULE EtdbResp -------------------------------
(***************************************************************************)
(* The protocol on the bytes of one connection's input buffer              *)
(* (src/src/etdb_resp.c, etdb_buf.c): a request is a sequence of records   *)
(* "length \n body \n" and ends with the empty record "0 \n \n".  Reads    *)
(* bring the stream in pieces, the buffer is moved and grown, and what is  *)
(* behind its data is left over from earlier requests.                     *)
(*                                                                         *)
(* The parser is a loop with one step for each turn; while it runs, only   *)
(* the client does anything else.                                          *)
(*                                                                         *)
(* A byte is a digit 0..9, NL or Other.  Sizes are unsigned: they wrap at  *)
(* SizeMod; a length is an int and may be read as a negative number.       *)
(***************************************************************************)
EXTENDS Integers, Sequences, SequencesExt, FiniteSetsExt

CONSTANTS
    Requests,    \* the requests a client may send, sequences of bodies; << >>
                 \* stands for a line that is no request
    MaxRequests, \* the bound on their number
    BufCap,      \* ETDB_CONNECTION_BUF_SIZE
    Beyond,      \* the byte behind the end of the buffer, and of new memory
    AnyCut,      \* TRUE: a read ends anywhere; FALSE: at the end of a record,
                 \* or with the buffer full
    Decimal,     \* Decimal[n]: the digits that snprintf writes for n
    SizeMod,     \* the number of values of a size_t, 2^64; a client sends less
    IntMod,      \* the number of values of an int, 2^32
    MaxPacket,   \* ETDB_MAX_PACKET_SIZE
    NoReturn     \* the values etdb_resp_recv_req may have for a request, where
                 \* it ends without a return statement

NL == 10
Other == 11
Digit == 0..9
Char == Digit \cup {NL, Other}
MaxHead == 15       \* sizeof(head_str) - 1

VARIABLES
    mem,     \* the bytes of buf_in, from start on; capacity is its length
    off,     \* data - start
    size,    \* buf_in->size
    stream,  \* bytes sent and not yet read
    sent,    \* the requests sent
    got,     \* the requests parsed
    ready,   \* the connection is on the ready list
    out,     \* a response is in buf_out
    open,    \* the connection is open
    parsing, \* etdb_resp_parse_req runs; its locals:
    head,    \* head, as a position in mem
    left,    \* size
    recs     \* the records in recv_cmd

conn == <<mem, off, size, ready, out, open>>
parser == <<parsing, head, left, recs>>
vars == <<conn, stream, sent, got, parser>>

\* etdb_buf_append_record; a request as etdb_connect_send_cmd builds it
Record(body) == Decimal[Len(body)] \o <<NL>> \o body \o <<NL>>
Records(r) == [i \in DOMAIN r |-> Record(r[i])]
Encode(r) == IF r = << >> THEN <<Other, NL>> ELSE FlattenSeq(Records(r)) \o Record(<< >>)

\* Where the element i of s ends in the concatenation of all
EndOf(s, i) == Len(FlattenSeq(SubSeq(s, 1, i)))

-----------------------------------------------------------------------------
(* etdb_buf_t *)

\* What lies behind the buffer is not the connection's
Byte(m, i) == IF i \in DOMAIN m THEN m[i] ELSE Beyond
Bytes(m, i, n) == [j \in 1..n |-> Byte(m, i + j - 1)]

\* memcpy of the bytes s to position i
Put(m, i, s) == [j \in DOMAIN m |-> IF j \in i..(i + Len(s) - 1) THEN s[j - i + 1] ELSE m[j]]

\* Variant of Nice: the bytes stay where they are
NiceKeepsBytes(b) == IF b.off > Len(b.mem) \div 2 THEN [b EXCEPT !.off = 0] ELSE b

\* etdb_buf_nice: the old bytes stay behind the moved ones
Nice(b) == IF b.off > Len(b.mem) \div 2
           THEN [b EXCEPT !.mem = Put(@, 1, Bytes(@, b.off + 1, b.size)), !.off = 0] ELSE b

\* Variant of Grow: the capacity stays
GrowNot(b) == b

\* etdb_buf_grow
Grow(b) == [b EXCEPT !.mem = @ \o [i \in DOMAIN @ |-> Beyond]]

Room(b) == Len(b.mem) - b.off - b.size

\* The end of etdb_resp_recv_req, when no request was parsed
MakeRoom(b) == IF Room(b) # 0 THEN b
               ELSE IF Room(Nice(b)) # 0 THEN Nice(b) ELSE Grow(Nice(b))

Buf == [mem |-> mem, off |-> off, size |-> size]

-----------------------------------------------------------------------------
(* What the client sends *)

\* The int with the low bits of n
AsInt(n) == ((n + IntMod \div 2) % IntMod) - IntMod \div 2

\* atoi of the bytes, of which there are too few for the strtol in it to
\* saturate
Atoi(s) ==
    LET n == Max({k \in 0..Len(s) : \A i \in 1..k : s[i] \in Digit})
    IN  AsInt(FoldLeft(LAMBDA acc, d : 10 * acc + d, 0, SubSeq(s, 1, n)))

\* Lengths are written in digits that fit head_str and are read back as they
\* were, so they fit an int; requests fit the largest packet.
ASSUME DecimalAssumption ==
    /\ 0 \in DOMAIN Decimal
    /\ \A n \in DOMAIN Decimal :
          /\ Decimal[n] \in Seq(Digit) /\ Len(Decimal[n]) \in 1..(MaxHead - 1)
          /\ Atoi(Decimal[n]) = n
ASSUME RequestAssumption ==
    \A r \in Requests :
       /\ r \in Seq(Seq(Char)) /\ \A i \in DOMAIN r : Len(r[i]) \in DOMAIN Decimal \ {0}
       /\ Len(Encode(r)) <= MaxPacket
ASSUME SizeAssumption ==
    /\ BufCap \in Nat \ {0} /\ MaxPacket \in Nat /\ MaxRequests \in Nat
    /\ SizeMod \in Nat \ {0} /\ IntMod \in Nat \ {0}
ASSUME ByteAssumption == Beyond \in Char /\ AnyCut \in BOOLEAN /\ NoReturn \subseteq Int

\* All the client has sent, in the encoding of its requests
Encodings == [i \in DOMAIN sent |-> Encode(sent[i])]
Sent == FlattenSeq(Encodings)

Send(r) ==
    /\ Len(sent) < MaxRequests /\ Len(Sent) + Len(Encode(r)) < SizeMod
    /\ sent' = Append(sent, r)
    /\ stream' = stream \o Encode(r)
    /\ UNCHANGED <<conn, got, parser>>

\* A record ends with the byte at of what was sent
EndsRecord(at) ==
    \E i \in 0..Len(sent) :
       \/ at = EndOf(Encodings, i)
       \/ /\ i < Len(sent)
          /\ \E k \in 1..Len(sent[i + 1]) :
                at = EndOf(Encodings, i) + EndOf(Records(sent[i + 1]), k)

-----------------------------------------------------------------------------
(* etdb_connect_read_to_buf, and the end of the write of a response *)

\* It returns a positive number
Read(n) ==
    LET b == Nice(Buf)
    IN  /\ open /\ ~ready
        /\ n \in 1..Min({Room(b), Len(stream)})
        /\ AnyCut \/ n = Room(b) \/ EndsRecord(Len(Sent) - Len(stream) + n)
        /\ mem' = Put(b.mem, b.off + b.size + 1, SubSeq(stream, 1, n))
        /\ off' = b.off /\ size' = b.size + n
        /\ stream' = SubSeq(stream, n + 1, Len(stream))
        /\ ready' = TRUE
        /\ UNCHANGED <<sent, got, out, open, parser>>

\* It returns 0 when there is no room, which the event loop takes for the end
\* of the stream
ReadFull ==
    /\ open /\ ~ready
    /\ Room(Nice(Buf)) = 0 /\ stream # << >>
    /\ open' = FALSE
    /\ UNCHANGED <<mem, off, size, stream, sent, got, ready, out, parser>>

\* The response has been written: what is left in buf_in is looked at
Written ==
    /\ open /\ out /\ ~ready
    /\ out' = FALSE /\ ready' = (size # 0)
    /\ UNCHANGED <<mem, off, size, stream, sent, got, open, parser>>

-----------------------------------------------------------------------------
(* etdb_connect_recv and the loop of etdb_resp_parse_req *)

\* Variant of Leading: the newline left by the last request is not skipped
LeadingNone(b) == 0

\* Newlines at the head of the data
Leading(b) == Max({n \in 0..b.size : \A i \in 1..n : Byte(b.mem, b.off + i) = NL})

Recv ==
    /\ open /\ ready /\ ~parsing
    /\ parsing' = TRUE
    /\ head' = off + Leading(Buf) + 1
    /\ left' = size - Leading(Buf)
    /\ recs' = << >>
    /\ UNCHANGED <<conn, stream, sent, got>>

\* A turn: memchr finds the newline of the head among the left bytes, and
\* size -= head_len + body_len wraps when the body has not come
Newlines == {i \in head..(head + left - 1) : Byte(mem, i) = NL}
Body == Min(Newlines) + 1
BodyLen == Atoi(Bytes(mem, head, Body - head - 1))
After == (left - (Body - head) - BodyLen) % SizeMod
Parsed == Body + BodyLen - off

HasHead == left > 0 /\ Newlines # {}
GoodHead == HasHead /\ Byte(mem, head) \in Digit /\ Body - head <= MaxHead /\ BodyLen >= 0
Terminator == GoodHead /\ BodyLen = 0 /\ Byte(mem, Body) = NL
WholeRecord == GoodHead /\ ~Terminator /\ After > 0 /\ Byte(mem, Body + BodyLen) = NL

RecordParsed ==
    /\ parsing /\ WholeRecord /\ Parsed <= MaxPacket
    /\ head' = Body + BodyLen + 1
    /\ left' = After - 1
    /\ recs' = Append(recs, Bytes(mem, Body, BodyLen))
    /\ UNCHANGED <<conn, stream, sent, got, parsing>>

Becomes(b) == mem' = b.mem /\ off' = b.off /\ size' = b.size
Return == ready' = FALSE /\ parsing' = FALSE /\ head' = 0 /\ left' = 0 /\ recs' = << >>

\* What is left when the terminator was found: its last newline stays
Rest == LET n == IF Terminator THEN Body - off - 1 ELSE 0
        IN  [Buf EXCEPT !.off = @ + n, !.size = (@ - n) % SizeMod]

\* The request is executed, if the value without a return statement lets it be
RequestParsed ==
    /\ parsing /\ Terminator /\ recs # << >>
    /\ Becomes(Rest)
    /\ \E ret \in NoReturn :
         /\ open' = (ret >= 0) /\ out' = (out \/ ret >= 0)
         /\ got' = IF ret >= 0 THEN Append(got, recs) ELSE got
    /\ Return
    /\ UNCHANGED <<stream, sent>>

\* The connection is closed
RequestRefused ==
    /\ parsing
    /\ \/ HasHead /\ ~GoodHead
       \/ WholeRecord /\ Parsed > MaxPacket
    /\ open' = FALSE
    /\ Return
    /\ UNCHANGED <<mem, off, size, out, stream, sent, got>>

\* The data is not ready: the records go back, and there has to be room
DataMissing ==
    /\ parsing
    /\ \/ ~HasHead
       \/ Terminator /\ recs = << >>
       \/ GoodHead /\ ~Terminator /\ ~WholeRecord
    /\ Becomes(MakeRoom(Rest))
    /\ Return
    /\ UNCHANGED <<stream, sent, got, out, open>>

-----------------------------------------------------------------------------
Init ==
    /\ mem = [i \in 1..BufCap |-> Beyond] /\ off = 0 /\ size = 0
    /\ stream = << >> /\ sent = << >> /\ got = << >>
    /\ ready = FALSE /\ out = FALSE /\ open = TRUE
    /\ parsing = FALSE /\ head = 0 /\ left = 0 /\ recs = << >>

Next ==
    \/ \E r \in Requests : Send(r)
    \/ \E n \in 1..Len(stream) : Read(n)
    \/ ReadFull
    \/ Written
    \/ Recv
    \/ RecordParsed
    \/ RequestParsed
    \/ RequestRefused
    \/ DataMissing

Spec == Init /\ [][Next]_vars

-----------------------------------------------------------------------------
(* Properties *)

\* A request whose bytes have not all come is left alone: requests are parsed
\* as they were sent, and a client is closed for what is no request, or for
\* sending ahead of the responses until the buffer is full.
DataNotReady ==
    /\ IsPrefix(got, sent)
    /\ ~open => Len(got) < Len(sent) /\ (sent[Len(got) + 1] = << >> \/ (out /\ Room(Nice(Buf)) = 0))

\* The data stays within the buffer, and every byte read and not yet parsed
\* is in it, in order, wherever it was moved: what is in the buffer and what
\* is still to be read is the end of what was sent.
BytesKept ==
    /\ off + size <= Len(mem)
    /\ IsSuffix(Bytes(mem, off + 1, size) \o stream, Sent)

\* Nothing that has come is forgotten: when all is read and nothing is to be
\* done, every request sent has been parsed; and there is room to read.
NothingForgotten ==
    open /\ ~ready /\ ~out =>
        /\ stream = << >> => got = sent
        /\ Room(Nice(Buf)) > 0
=============================================================================
