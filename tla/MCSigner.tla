------------------------------ MODULE MCSigner ------------------------------
(***************************************************************************)
(* An instance of Signer for TLC: more calls than threads, and more threads  *)
(* than one, so that jobs wait in the backlog and for the mutex.             *)
(***************************************************************************)
EXTENDS Signer
=============================================================================
