------------------------------ MODULE MCPanels ------------------------------
(* The skills, and one tab's lists of what they keep; see panels.cfg.        *)
EXTENDS Panels
=============================================================================
