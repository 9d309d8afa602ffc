----------------------------- MODULE MCDatabase -----------------------------
(***************************************************************************)
(* Database with two threads, two asynchronous calls and two statements.   *)
(***************************************************************************)
EXTENDS Database
=============================================================================
