------------------------- MODULE MCBidiConnections -------------------------
(* TLC model of BidiConnections: the instances are set in the .cfg files.  *)
EXTENDS BidiConnections
=============================================================================
