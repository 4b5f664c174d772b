----------------------------- MODULE MCSessions -----------------------------
(***************************************************************************)
(* A small instance of Sessions for TLC.                                   *)
(***************************************************************************)
EXTENDS Sessions, TLC

SessionSymmetry == Permutations(Browsers) \cup Permutations(Requests) \cup Permutations(Tokens)
=============================================================================
