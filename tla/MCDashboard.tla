---------------------------- MODULE MCDashboard -----------------------------
(* One tab, the gate, the voice and the camera; see dashboard.cfg.           *)
EXTENDS Dashboard
=============================================================================
