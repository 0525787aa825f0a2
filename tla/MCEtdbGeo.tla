----------------------------- MODULE MCEtdbGeo -----------------------------
(***************************************************************************)
(* EtdbGeo for TLC: the ratio of the axes is the real one                  *)
(***************************************************************************)
EXTENDS EtdbGeo

\* On and beside the borders of cells, the edge of each axis and beyond
CoordHere == {0, 1, 4, 7, 8, 16, 17}
=============================================================================
