--------------------------- MODULE MCCountedQueue ---------------------------
(* CountedQueue on a small instance: three posts by each of the two threads *)
(* fill the queue from both sides while batches of every size are taken.    *)
EXTENDS CountedQueue

=============================================================================
