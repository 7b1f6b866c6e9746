------------------------- MODULE MCCellClusterPass -------------------------
(* CellClusterPass for TLC: the parameters are in CellCluster.cfg. *)
EXTENDS CellClusterPass
============================================================================
