---------------------------- MODULE MCPlayerPage ----------------------------
(* PlayerPage with two clips, for TLC.                                       *)
EXTENDS PlayerPage

CONSTANTS c1, c2

\* Capped after two ticks, and played to the natural end.
MCLongAndWhole == [i \in Items |-> IF i = c1 THEN 2 ELSE 0]

\* The capped clip may be an upload.
MCOneUpload ==
  {[i \in Items |-> IF i = c1 THEN t ELSE "youtube"] : t \in {"youtube", "upload"}}

MCEither == [Items -> {"youtube", "upload"}]
=============================================================================
