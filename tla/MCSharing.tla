----------------------------- MODULE MCSharing -----------------------------
(* Sharing with a symmetry, for projects and pages are interchangeable, and  *)
(* without the states after which no property can fail: the last operation  *)
(* has begun, it is no undisturbed synchronisation, and something was not   *)
(* calm.                                                                    *)
EXTENDS Sharing

Symmetry == Permutations(Recipients) \cup Permutations(Actors)

Undecided == calm \/ quiet \/ ops < MaxOps

=============================================================================
