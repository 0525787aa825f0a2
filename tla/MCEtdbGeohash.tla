---------------------------- MODULE MCEtdbGeohash ----------------------------
(***************************************************************************)
(* The geohash for TLC: a behaviour bisects (EtdbGeo) or takes the         *)
(* neighbours of a code (EtdbNeighbors), which share no state.             *)
(***************************************************************************)
EXTENDS MCEtdbGeo, EtdbNeighbors

GeohashInit == Init /\ NeighborInit
GeohashNext ==
    \/ NeighborInit /\ Next /\ UNCHANGED neighborVars
    \/ Init /\ NeighborNext /\ UNCHANGED vars
GeohashSpec == GeohashInit /\ [][GeohashNext]_<<vars, neighborVars>>
=============================================================================
