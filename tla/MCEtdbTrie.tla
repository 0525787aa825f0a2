------------------------------ MODULE MCEtdbTrie ------------------------------
(* Small instances of EtdbTrie for TLC: four labels, 1 is %, 2 is 0. *)
EXTENDS EtdbTrie, Bitwise

MCXor == [x \in 0..(B - 1) |-> [y \in 0..(B - 1) |-> x ^^ y]]

\* Keys that share prefixes, with the bytes that are escaped
DeepKeys == {<<3>>, <<3, 2>>, <<3, 2, 3>>, <<3, 1>>, <<2, 2>>}

\* Every key has a value of its own, one key has two
MCValue == [k \in Keys |-> IF k = <<3, 2>> THEN {1, 6} ELSE {Len(k) + 10 * Last(k)}]

\* No operation looks at the last one or its result
NoOp == <<trie, ops>>
=============================================================================
