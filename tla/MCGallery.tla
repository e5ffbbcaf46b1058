----------------------------- MODULE MCGallery -----------------------------
(***************************************************************************)
(* Two tracks, each in a file of its own; two persons at most.  Every face *)
(* resembles itself and is nearly strong on the other one; one threshold   *)
(* set is calibrated, the other is the seeded uncalibrated set.            *)
(***************************************************************************)
EXTENDS Gallery, TLC

CONSTANTS t1, t2, f1, f2, seeded, calibrated

MCFileOf == (t1 :> f1) @@ (t2 :> f2)

MCScore == (t1 :> ((t1 :> 10) @@ (t2 :> 8))) @@ (t2 :> ((t1 :> 8) @@ (t2 :> 10)))

MCThresholdRow ==
    (seeded :> [calibrated |-> FALSE, fits |-> TRUE, gallerySize |-> 0,
                tStrong |-> 27, tPossible |-> 15, margin |-> 3]) @@
    (calibrated :> [calibrated |-> TRUE, fits |-> TRUE, gallerySize |-> 1,
                    tStrong |-> 24, tPossible |-> 15, margin |-> 3])

\* The two tracks, each with its file, are told apart by nothing but their names.
Symmetry == {swap \in Permutations({t1, t2, f1, f2}) :
                \A t \in {t1, t2} : swap[t] \in {t1, t2} /\ swap[MCFileOf[t]] = MCFileOf[swap[t]]}
=============================================================================
