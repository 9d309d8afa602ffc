------------------------------ MODULE MCSocket ------------------------------
(* One socket, a few messages each way. *)
EXTENDS Socket

=============================================================================
