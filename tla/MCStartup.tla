----------------------------- MODULE MCStartup -----------------------------
(***************************************************************************)
(* The instance of Startup for TLC: both receivers, addresses that parse   *)
(* and that do not.                                                        *)
(***************************************************************************)
EXTENDS Startup

=============================================================================
