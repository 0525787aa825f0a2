------------------------------- MODULE EtdbMap -------------------------------
(***************************************************************************)
(* What a trie promises its callers in etdb_database.c: a map from keys to *)
(* values.  EtdbTrie implements it.                                        *)
(***************************************************************************)
EXTENDS Integers

CONSTANTS Keys, Value, NoValue

VARIABLES
    dict,  \* dict[k]: the value of k or NoValue
    op,    \* the last operation and its arguments
    ret    \* what it returned

vars == <<dict, op, ret>>

Init == dict = [k \in Keys |-> NoValue] /\ op = << >> /\ ret = 0

\* The old value, 0 for a key that was not there
Update(k, v) ==
    /\ op' = <<"update", k, v>>
    /\ ret' = IF dict[k] = NoValue THEN 0 ELSE dict[k]
    /\ dict' = [dict EXCEPT ![k] = v]

Erase(k) ==
    /\ op' = <<"erase", k>>
    /\ ret' = IF dict[k] = NoValue THEN -1 ELSE dict[k]
    /\ dict' = [dict EXCEPT ![k] = NoValue]

Next == \E k \in Keys : Erase(k) \/ \E v \in Value[k] : Update(k, v)

Spec == Init /\ [][Next]_vars
=============================================================================
