----------------------------- MODULE MCCredits -----------------------------
(* Credits for TLC: two viewers, two channels and three cheers, one of them  *)
(* anonymous; three clips, one of them free.                                 *)
EXTENDS Credits, TLC

CONSTANTS v1, v2, s1, s2, m1, m2, m3, i1, i2, i3

MCPrice == (i1 :> 2) @@ (i2 :> 1) @@ (i3 :> 0)

MCCheer ==
  (m1 :> [viewer |-> v1, streamer |-> s1, bits |-> 2])
    @@ (m2 :> [viewer |-> v1, streamer |-> s2, bits |-> 1])
    @@ (m3 :> [viewer |-> Anonymous, streamer |-> s1, bits |-> 3])
=============================================================================
