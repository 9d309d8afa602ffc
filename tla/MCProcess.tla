----------------------------- MODULE MCProcess ------------------------------
(***************************************************************************)
(* Process with three connections and a clock that is set twice.           *)
(***************************************************************************)
EXTENDS Process
=============================================================================
