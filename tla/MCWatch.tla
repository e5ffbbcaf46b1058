------------------------------ MODULE MCWatch ------------------------------
(***************************************************************************)
(* Three sessions, so that one can be started while an older one hangs and *)
(* another after its end came late; of a session's ticks the first and the *)
(* third identify.                                                         *)
(***************************************************************************)
EXTENDS Watch
=============================================================================
