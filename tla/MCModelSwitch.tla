---------------------------- MODULE MCModelSwitch ----------------------------
(***************************************************************************)
(* Two embedders, one of them non-commercial, three faces: one whose crop  *)
(* is gone, one still in the queue, and three requests.                    *)
(***************************************************************************)
EXTENDS ModelSwitch, TLC

Symmetry == Permutations(Requests)
=============================================================================
