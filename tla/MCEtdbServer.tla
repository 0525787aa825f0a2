----------------------------- MODULE MCEtdbServer -----------------------------
(* Small instances of EtdbServer for TLC. *)
EXTENDS EtdbServer, TLC

CONSTANTS c1, c2

\* One client sends requests ahead, the other sends a malformed one
MixedScript == (c1 :> <<"ok", "ok">>) @@ (c2 :> <<"bad">>)

\* One long pipeline, one client that sends nothing
LongScript == (c1 :> <<"ok", "ok", "ok", "ok">>) @@ (c2 :> << >>)
=============================================================================
