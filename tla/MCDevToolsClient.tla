-------------------------- MODULE MCDevToolsClient --------------------------
(* DevToolsClient for TLC.                                                 *)
EXTENDS DevToolsClient
=============================================================================
