---------------------------- MODULE MCSessionReads ----------------------------
(***************************************************************************)
(* Instances of the session manager with readers for TLC.                  *)
(***************************************************************************)
EXTENDS MCSessionManager, SessionReads

=============================================================================
