---------------------------- MODULE MCSubmitFlow ----------------------------
(* SubmitFlow for TLC: one viewer sends an upload and a video, over the links *)
(* of two channels, with credits for one of them.                             *)
EXTENDS SubmitFlow, TLC

CONSTANTS v1, s1, s2, r1, r2, m1, c1, t1, t2

MCPrice == (r1 :> 2) @@ (r2 :> 1)
MCSender == [r \in Requests |-> v1]
MCCheer == (m1 :> [viewer |-> v1, streamer |-> s1, bits |-> 2])
=============================================================================
