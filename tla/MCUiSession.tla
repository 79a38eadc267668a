----------------------------- MODULE MCUiSession -----------------------------
(***************************************************************************)
(* Two projects, a plain server and one with every option, a user without   *)
(* the claim about projects and one with one project in it.                 *)
(***************************************************************************)
EXTENDS UiSession, TLC

AllSettings == {{}, Options}
SomeClaims == {None} \cup {{p} : p \in Projects}
Symmetry == Permutations(Projects)
=============================================================================
