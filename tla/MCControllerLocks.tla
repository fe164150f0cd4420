-------------------------- MODULE MCControllerLocks --------------------------
(* The instance of ControllerLocks for TLC. *)
EXTENDS ControllerLocks
=============================================================================
