---------------------------- MODULE MCHubFanout ----------------------------
(* HubFanout for TLC.  Its run checks a liveness property, so it uses no     *)
(* symmetry.                                                                 *)
EXTENDS HubFanout

=============================================================================
