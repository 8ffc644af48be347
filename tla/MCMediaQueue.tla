---------------------------- MODULE MCMediaQueue ----------------------------
(* MediaQueue with four submissions, for TLC. *)
EXTENDS MediaQueue

=============================================================================
