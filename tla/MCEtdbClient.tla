---------------------------- MODULE MCEtdbClient ----------------------------
(* An instance of EtdbClient for TLC *)
EXTENDS EtdbClient, TLC

\* An int of 16 values: 17 wraps to 1, as 4294967297 does in 32 bits
MCLower == [USE |-> "use"]
MCDecimal == ("0" :> 0) @@ ("1" :> 1) @@ ("2" :> 2) @@ ("3" :> 3) @@ ("17" :> 17)

MCLines == {
    <<"">>, <<"use", "2">>, <<"", "", "", "USE", "", "2">>, <<"use", "0">>, <<"use", "3">>, <<"use", "17">>,
    <<"use", "-1">>, <<"where">>, <<"perf", "ping">>, <<"perf", "perf">>, <<"ping">>,
    <<"", "", "", "", "", "", "", "ping">>, <<"get">>, <<"smembers", "k">>,
    <<"sadd", "k", "a", "b">>, <<"sadd", "k", "a", "b", "c", "d">> }

MCFunctions == {"etdb_kv_set", "etdb_kv_get", "etdb_set_add", "etdb_set_members"}
=============================================================================
