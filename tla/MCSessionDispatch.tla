------------------------- MODULE MCSessionDispatch -------------------------
(* TLC model of SessionDispatch: the instance is set in the .cfg file.     *)
EXTENDS SessionDispatch
=============================================================================
