-------------------------- MODULE MCSyncWebSocket --------------------------
(* TLC model of SyncWebSocket: the instances are set in the .cfg files.    *)
EXTENDS SyncWebSocket
=============================================================================
