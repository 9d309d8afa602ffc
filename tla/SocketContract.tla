--------------------------- MODULE SocketContract ---------------------------
(***************************************************************************)
(* What a socket promises to its handler and to whoever sends through it:  *)
(* it is reported open at most once, then reported closed exactly once and *)
(* not used afterwards; and what is sent through it reaches the peer in    *)
(* order, without gaps, up to the point where it breaks.                   *)
(*                                                                         *)
(* Socket is the class that does this with callbacks and a write queue.    *)
(***************************************************************************)
EXTENDS Sequences

CONSTANT Message

VARIABLES
  phase,      \* "fresh", "open", "closed": as the handler was told
  outgoing,   \* sent, not yet delivered
  delivered   \* what the peer got

vars == <<phase, outgoing, delivered>>

TypeOK ==
  /\ phase \in {"fresh", "open", "closed"}
  /\ outgoing \in Seq(Message)
  /\ delivered \in Seq(Message)

Init == phase = "fresh" /\ outgoing = <<>> /\ delivered = <<>>

Opened ==
  /\ phase = "fresh"
  /\ phase' = "open"
  /\ UNCHANGED <<outgoing, delivered>>

Send ==
  /\ phase = "open"
  /\ \E m \in Message : outgoing' = Append(outgoing, m)
  /\ UNCHANGED <<phase, delivered>>

Deliver ==
  /\ phase = "open" /\ outgoing # <<>>
  /\ delivered' = Append(delivered, Head(outgoing))
  /\ outgoing' = Tail(outgoing)
  /\ UNCHANGED phase

\* What was still outgoing is lost.
Closed ==
  /\ phase \in {"fresh", "open"}
  /\ phase' = "closed"
  /\ outgoing' = <<>>
  /\ UNCHANGED delivered

Next == Opened \/ Send \/ Deliver \/ Closed

Spec == Init /\ [][Next]_vars

=============================================================================
