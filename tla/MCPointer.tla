------------------------------ MODULE MCPointer -----------------------------
(* One hand-tracking loop under pointer control; see pointer.cfg.            *)
EXTENDS Pointer
=============================================================================
