--------------------------- MODULE MCAsyncClients ---------------------------
(***************************************************************************)
(* An instance of AsyncClients for TLC: three callers over a pool of two,  *)
(* so that two replays can hold it all while a third caller waits, and     *)
(* three writers, so that two of them may supersede what a third replaced. *)
(***************************************************************************)
EXTENDS AsyncClients
=============================================================================
