----------------------------- MODULE MCMatching -----------------------------
(* Instances of MatchingService for TLC. *)
EXTENDS MatchingService, TLC

Symmetry == Permutations(Orders) \cup Permutations(Users) \cup Permutations(Books)
=============================================================================
