---------------------------- MODULE MCAsyncJobs -----------------------------
(***************************************************************************)
(* Small instances of AsyncJobs for TLC. The configurations give the       *)
(* constants their values; liveness is checked with safety, so no symmetry *)
(* is declared.                                                            *)
(***************************************************************************)
EXTENDS AsyncJobs
=============================================================================
