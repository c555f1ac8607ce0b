------------------------------- MODULE MCEars -------------------------------
(* The ears daemon with one key press, two phrases and two connections.      *)
EXTENDS Ears
=============================================================================
