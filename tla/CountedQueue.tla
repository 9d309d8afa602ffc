---------------------------- MODULE CountedQueue ----------------------------
(***************************************************************************)
(* One of the three queues between the socket callbacks and the game loop  *)
(* (game/system/session.cpp).  A callback enqueues an event and then adds  *)
(* one to an atomic counter; once per tick the game loop loads the counter,*)
(* subtracts what it loaded, and dequeues that many events in bulk.        *)
(*                                                                         *)
(* Every load, addition and queue operation is a step of its own, so that  *)
(* the callbacks interleave with the game loop as they do in the program.  *)
(* The queue is moodycamel's: one FIFO sub-queue per producing thread, and *)
(* a bulk dequeue takes from the front of each, in any proportion.         *)
(***************************************************************************)
EXTENDS Integers, Sequences

CONSTANT MaxPosted   \* bound: events each thread posts

ASSUME MaxPostedAssumption == MaxPosted \in Nat

\* The network thread runs every socket callback.  The game loop posts too:
\* when it drops the last reference to a socket, ~socket calls on_close on it.
Producer == {"network", "game"}

\* A thread's events are numbered in the order it posts them.
Event == 1 .. MaxPosted

VARIABLES
  queue,      \* queue[p]: the sub-queue of thread p
  counter,    \* connection_counter_, message_counter_ or disconnection_counter_
  posting,    \* posting[p]: p has done one of the two steps of a post
  posted,     \* posted[p]: how many posts p has started
  stage,      \* where handle_connections (..._messages, ..._disconnections) is
  claimed,    \* num_connections: what the game loop loaded
  received,   \* received[p]: events of p handed to the game loop
  defaulted   \* default-constructed entries handed to the game loop as events

vars == <<queue, counter, posting, posted, stage, claimed, received, defaulted>>

Waiting(p) == Len(queue[p])
Queued == Waiting("network") + Waiting("game")

Smaller(a, b) == IF a <= b THEN a ELSE b

TypeOK ==
  /\ queue \in [Producer -> Seq(Event)]
  /\ counter \in Nat
  /\ posting \in [Producer -> BOOLEAN]
  /\ posted \in [Producer -> 0 .. MaxPosted]
  /\ stage \in {"idle", "subtract", "dequeue"}
  /\ claimed \in Nat
  /\ received \in [Producer -> Seq(Event)]
  /\ defaulted \in Nat

Init ==
  /\ queue = [p \in Producer |-> <<>>]
  /\ counter = 0
  /\ posting = [p \in Producer |-> FALSE]
  /\ posted = [p \in Producer |-> 0]
  /\ stage = "idle"
  /\ claimed = 0
  /\ received = [p \in Producer |-> <<>>]
  /\ defaulted = 0

-----------------------------------------------------------------------------
(* on_open, on_message, on_close                                           *)

\* The game loop is one thread: it posts only between two batches.
MayRun(p) == p = "network" \/ stage = "idle"

\* First half of a callback: queue_.enqueue(...).
Enqueue(p) ==
  /\ MayRun(p) /\ ~posting[p] /\ posted[p] < MaxPosted
  /\ queue' = [queue EXCEPT ![p] = Append(@, posted[p] + 1)]
  /\ posted' = [posted EXCEPT ![p] = @ + 1]
  /\ posting' = [posting EXCEPT ![p] = TRUE]
  /\ UNCHANGED <<counter, stage, claimed, received, defaulted>>

\* Second half: counter_.fetch_add(1).
Publish(p) ==
  /\ MayRun(p) /\ posting[p]
  /\ counter' = counter + 1
  /\ posting' = [posting EXCEPT ![p] = FALSE]
  /\ UNCHANGED <<queue, posted, stage, claimed, received, defaulted>>

\* Mutant: the counter is raised before the event is in the queue.
Post_CountFirst(p) ==
  /\ MayRun(p)
  /\ \/ /\ ~posting[p] /\ posted[p] < MaxPosted
        /\ counter' = counter + 1
        /\ posting' = [posting EXCEPT ![p] = TRUE]
        /\ UNCHANGED <<queue, posted>>
     \/ /\ posting[p]
        /\ queue' = [queue EXCEPT ![p] = Append(@, posted[p] + 1)]
        /\ posted' = [posted EXCEPT ![p] = @ + 1]
        /\ posting' = [posting EXCEPT ![p] = FALSE]
        /\ UNCHANGED counter
  /\ UNCHANGED <<stage, claimed, received, defaulted>>

Post(p) == Enqueue(p) \/ Publish(p)

-----------------------------------------------------------------------------
(* The head of handle_connections, handle_messages, handle_disconnections  *)

\* counter_.load().
Load ==
  /\ stage = "idle" /\ ~posting["game"]
  /\ claimed' = counter
  /\ stage' = "subtract"
  /\ UNCHANGED <<queue, counter, posting, posted, received, defaulted>>

\* Mutant: the counter is cleared instead of lowered by what was loaded.
Subtract_Clear ==
  /\ stage = "subtract"
  /\ counter' = 0
  /\ stage' = IF claimed = 0 THEN "idle" ELSE "dequeue"
  /\ UNCHANGED <<queue, posting, posted, claimed, received, defaulted>>

\* counter_.fetch_add(-num), then the early return when there is nothing.
Subtract ==
  /\ stage = "subtract"
  /\ counter' = counter - claimed
  /\ stage' = IF claimed = 0 THEN "idle" ELSE "dequeue"
  /\ UNCHANGED <<queue, posting, posted, claimed, received, defaulted>>

\* Mutant: a batch is handed out from the back of the sub-queues.
TakeFrom_Back(share) ==
  /\ \A p \in Producer : share[p] <= Waiting(p)
  /\ queue' = [p \in Producer |->
                 SubSeq(queue[p], 1, Len(queue[p]) - share[p])]
  /\ received' = [p \in Producer |-> received[p] \o
                    SubSeq(queue[p], Len(queue[p]) - share[p] + 1, Len(queue[p]))]

\* Take share[p] events of each thread p out of the queue.
TakeFrom(share) ==
  /\ \A p \in Producer : share[p] <= Waiting(p)
  /\ queue' = [p \in Producer |->
                 SubSeq(queue[p], share[p] + 1, Len(queue[p]))]
  /\ received' = [p \in Producer |->
                    received[p] \o SubSeq(queue[p], 1, share[p])]

\* Mutant: the batch is lowered from the counter a second time.
Dequeue_SubtractAgain ==
  /\ stage = "dequeue"
  /\ LET got == Smaller(claimed, Queued) IN
       /\ \E share \in [Producer -> 0 .. claimed] :
            share["network"] + share["game"] = got /\ TakeFrom(share)
       /\ defaulted' = defaulted + (claimed - got)
  /\ counter' = counter - claimed
  /\ stage' = "idle"
  /\ claimed' = 0
  /\ UNCHANGED <<posting, posted>>

\* try_dequeue_bulk into a vector of num default-constructed entries: what
\* the queue does not fill stays default, an event of the socket with id 0.
Dequeue ==
  /\ stage = "dequeue"
  /\ LET got == Smaller(claimed, Queued) IN
       /\ \E share \in [Producer -> 0 .. claimed] :
            share["network"] + share["game"] = got /\ TakeFrom(share)
       /\ defaulted' = defaulted + (claimed - got)
  /\ stage' = "idle"
  /\ claimed' = 0
  /\ UNCHANGED <<counter, posting, posted>>

Next ==
  \/ \E p \in Producer : Post(p)
  \/ Load
  \/ Subtract
  \/ Dequeue

\* The game loop ticks for as long as the server runs, and a callback that
\* has enqueued goes on to its next statement.
Fairness ==
  /\ \A p \in Producer : SF_vars(Publish(p))
  /\ WF_vars(Subtract) /\ WF_vars(Dequeue)
  /\ SF_vars(Load)

SafeSpec == Init /\ [][Next]_vars

Spec == SafeSpec /\ Fairness

-----------------------------------------------------------------------------
(* Properties                                                              *)

\* The count published never runs ahead of the events in the queue, whatever
\* the thread that posted them: what a batch claims is there to be dequeued.
CounterNeverAhead == counter + (IF stage = "dequeue" THEN claimed ELSE 0) <= Queued

\* received == num_connections: the bulk dequeue always fills its vector, so
\* no default-constructed entry (an event of socket 0) is ever handled.
NothingInvented == defaulted = 0

\* Each thread's events reach the game loop in the order they were posted,
\* none twice and none skipped.
InOrderOnce ==
  \A p \in Producer :
    received[p] \o queue[p] = [i \in 1 .. posted[p] |-> i]

\* The pair of queue and counter behaves as the mailbox.  The load and the
\* subtraction, two steps with posts in between, are one claim of all that was
\* announced at the load; and every batch holds exactly what it claimed, which
\* a batch with default-constructed entries in it would not.
MB == INSTANCE Mailbox WITH
  pending <- queue,
  announced <- counter - (IF stage = "subtract" THEN claimed ELSE 0),
  batch <- claimed
ImplementsMailbox == MB!Spec

\* An event whose post is complete reaches the game loop: no tick leaves
\* behind an event that was counted, even one counted between the load and
\* the subtraction.  (MaxPosted bounds the posts, so posting comes to rest.)
EverythingArrives ==
  \A p \in Producer : \A k \in 1 .. MaxPosted :
    (posted[p] >= k) ~> (Len(received[p]) >= k)

=============================================================================
