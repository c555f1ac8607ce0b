------------------------------- MODULE MCTurns -------------------------------
(* Turns on a small instance; see the turns*.cfg files.                    *)
EXTENDS Turns
=============================================================================
