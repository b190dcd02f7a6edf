-------------------------- MODULE MCSessionRequests --------------------------
(***************************************************************************)
(* Instances of the session manager seen between requests for TLC.         *)
(***************************************************************************)
EXTENDS MCSessionManager, SessionRequests

=============================================================================
