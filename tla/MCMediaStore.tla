---------------------------- MODULE MCMediaStore ----------------------------
(***************************************************************************)
(* A file that two cases share, an image and a video that do not decode.   *)
(***************************************************************************)
EXTENDS MediaStore, TLC

CONSTANTS case1, case2, photo, broken, clip, crop, q1, q2

MCCropsOf == [content \in Contents |-> IF content = photo THEN {crop} ELSE {}]

\* Requests and cases are told apart by nothing but their names.
Symmetry == Permutations({q1, q2}) \cup Permutations({case1, case2})
=============================================================================
