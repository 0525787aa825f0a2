------------------------------ MODULE EtdbService ------------------------------
(***************************************************************************)
(* What the server promises the client of a connection, without events,    *)
(* buffers or batches: input arrives, requests are executed in the order   *)
(* of the input, each once and only when all of it but the last newline    *)
(* has been sent, and the client receives responses of executed requests   *)
(* until the connection is closed.  EtdbServer implements it.              *)
(***************************************************************************)
EXTENDS Integers

CONSTANTS Conn, ReqLen, RespLen

VARIABLES
    link,     \* link[c]: "idle", "open" or "closed"
    input,    \* input[c]: units of requests sent
    served,   \* served[c]: requests executed
    answered  \* answered[c]: units of responses received

vars == <<link, input, served, answered>>

Init ==
    /\ link = [c \in Conn |-> "idle"]
    /\ input = [c \in Conn |-> 0]
    /\ served = [c \in Conn |-> 0]
    /\ answered = [c \in Conn |-> 0]

Ask(c) ==
    /\ input' = [input EXCEPT ![c] = @ + 1]
    /\ UNCHANGED <<link, served, answered>>

Open(c) ==
    /\ link[c] = "idle"
    /\ link' = [link EXCEPT ![c] = "open"]
    /\ UNCHANGED <<input, served, answered>>

Serve(c) ==
    /\ link[c] = "open"
    /\ ReqLen * (served[c] + 1) - 1 <= input[c]
    /\ served' = [served EXCEPT ![c] = @ + 1]
    /\ UNCHANGED <<link, input, answered>>

Answer(c) ==
    /\ link[c] = "open"
    /\ \E n \in 1..(RespLen * served[c] - answered[c]) :
          answered' = [answered EXCEPT ![c] = @ + n]
    /\ UNCHANGED <<link, input, served>>

Close(c) ==
    /\ link[c] = "open"
    /\ link' = [link EXCEPT ![c] = "closed"]
    /\ UNCHANGED <<input, served, answered>>

Next == \E c \in Conn : Ask(c) \/ Open(c) \/ Serve(c) \/ Answer(c) \/ Close(c)

Spec == Init /\ [][Next]_vars
=============================================================================
