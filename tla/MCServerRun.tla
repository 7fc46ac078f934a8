---------------------------- MODULE MCServerRun ----------------------------
(***************************************************************************)
(* The instance of ServerRun for TLC, with the constants of MCServer.      *)
(***************************************************************************)
EXTENDS MCServer, ServerRun

=============================================================================
