---------------------------- MODULE MCJobQueue -----------------------------
(***************************************************************************)
(* Two requests in flight over one file's bytes.                           *)
(***************************************************************************)
EXTENDS JobQueue
=============================================================================
