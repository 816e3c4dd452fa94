------------------------------- MODULE MCStation -------------------------------
(***************************************************************************)
(* Station for TLC.  Between them the two cameras reach all three levels.  *)
(***************************************************************************)
EXTENDS Station

MCCounts == [hanwha |-> {0, 1}, pi |-> {0, 2}]
=============================================================================
