----------------------------- MODULE MCVideoJob -----------------------------
(***************************************************************************)
(* Clips of eight frames, two to a slot of the grid: a face that stays, a  *)
(* flicker beside it that goes before its batch commits, and a face that   *)
(* blurs while another comes.                                              *)
(***************************************************************************)
EXTENDS VideoJob, Sequences

S == [strong |-> TRUE, passes |-> TRUE]
W == [strong |-> FALSE, passes |-> FALSE]

Clip(first, second, third, fourth) ==
    [f \in 0..7 |-> CASE f \in {0, 1} -> first [] f \in {2, 3} -> second
                      [] f \in {4, 5} -> third [] OTHER -> fourth]

MCVideos ==
    {Clip(<<S>>, <<S>>, <<S>>, <<S>>),
     Clip(<<S, S>>, <<S>>, <<S>>, << >>),
     [Clip(<<S>>, <<W>>, <<W, S>>, <<S>>) EXCEPT ![3] = <<S, W>>]}
=============================================================================
