------------------------------ MODULE MCCamera ------------------------------
(* The camera, core and daemon together, on a small instance.              *)
EXTENDS Camera
=============================================================================
