------------------------------- MODULE MCGate -------------------------------
(* The gate checked on a small instance; see the gate_*.cfg files.         *)
EXTENDS Gate
=============================================================================
