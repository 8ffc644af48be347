-------------------------- MODULE MCConsoleAccess --------------------------
(* ConsoleAccess for TLC: what is random is interchangeable, and so are      *)
(* users, browsers and requests.                                             *)
EXTENDS ConsoleAccess, TLC

Symmetry ==
  Permutations(Users) \cup Permutations(Browsers) \cup Permutations(Requests)
    \cup Permutations(States) \cup Permutations(Tokens) \cup Permutations(Sids)
=============================================================================
