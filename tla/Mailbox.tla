------------------------------ MODULE Mailbox ------------------------------
(***************************************************************************)
(* What the session system needs of each of its three event queues         *)
(* (connections, messages, disconnections): a mailbox in which an event is *)
(* put and then announced, and from which a batch is taken that holds      *)
(* exactly as many events as were announced at one moment.  Each thread's  *)
(* events stay in order, every event comes out at most once, and nothing   *)
(* comes out that was not put in.                                          *)
(*                                                                         *)
(* CountedQueue is the queue-and-counter pair the code builds it from.     *)
(***************************************************************************)
EXTENDS Naturals, Sequences

CONSTANT Event   \* what is posted

Producer == {"network", "game"}   \* the threads that post

VARIABLES
  pending,     \* pending[p]: put by p, not yet taken
  received,    \* received[p]: p's events in the order they were taken
  announced,   \* events announced that no batch has claimed
  batch        \* size of the batch that is being taken, 0 when there is none

vars == <<pending, received, announced, batch>>

Init ==
  /\ pending = [p \in Producer |-> <<>>]
  /\ received = [p \in Producer |-> <<>>]
  /\ announced = 0
  /\ batch = 0

Put(p) ==
  /\ \E e \in Event : pending' = [pending EXCEPT ![p] = Append(@, e)]
  /\ UNCHANGED <<received, announced, batch>>

\* Only an event that is there can be announced.
Announce ==
  /\ announced + batch < Len(pending["network"]) + Len(pending["game"])
  /\ announced' = announced + 1
  /\ UNCHANGED <<pending, received, batch>>

\* Everything that is announced is claimed, in one step.
Claim ==
  /\ batch = 0
  /\ batch' = announced
  /\ announced' = 0
  /\ UNCHANGED <<pending, received>>

\* A batch is full: its parts, each the front of what a thread has pending,
\* make up the size that was claimed.
Take ==
  \E share \in [Producer -> 0 .. batch] :
    /\ share["network"] + share["game"] = batch
    /\ \A p \in Producer : share[p] <= Len(pending[p])
    /\ pending' = [p \in Producer |->
                     SubSeq(pending[p], share[p] + 1, Len(pending[p]))]
    /\ received' = [p \in Producer |->
                      received[p] \o SubSeq(pending[p], 1, share[p])]
    /\ batch' = 0
    /\ UNCHANGED announced

Next == (\E p \in Producer : Put(p)) \/ Announce \/ Claim \/ Take

Spec == Init /\ [][Next]_vars

=============================================================================
