---------------------------- MODULE MCAccessTokens ----------------------------
(***************************************************************************)
(* Two pages and two identifiers.                                           *)
(***************************************************************************)
EXTENDS AccessTokens, TLC

Symmetry == Permutations(Pages) \cup Permutations(Names)
=============================================================================
