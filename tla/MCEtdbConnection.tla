--------------------------- MODULE MCEtdbConnection ---------------------------
(* One connection of the server for TLC: a behaviour follows the bytes of     *)
(* its requests (EtdbResp) or its memory (EtdbMemory), which share no state.  *)
EXTENDS MCEtdbResp, EtdbMemory

ConnInit == Init /\ MemInit
ConnNext ==
    \/ MemInit /\ Next /\ UNCHANGED memVars
    \/ Init /\ MemNext /\ UNCHANGED vars
ConnSpec == ConnInit /\ [][ConnNext]_<<vars, memVars>>
=============================================================================
