-------------------------- MODULE MCSessionRegistry --------------------------
(* SessionRegistry for TLC: the sets of model values of the .cfg are fully    *)
(* interchangeable, and no property tells them apart.                         *)
EXTENDS SessionRegistry, TLC

Symmetry ==
  Permutations(Streamers) \cup Permutations(Controllers)
    \cup Permutations(Requests) \cup Permutations(Tokens)
=============================================================================
