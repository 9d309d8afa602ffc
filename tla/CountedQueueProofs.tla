------------------------- MODULE CountedQueueProofs -------------------------
(***************************************************************************)
(* The queue-and-counter protocol is right for any number of posts: no     *)
(* batch ever comes up short, each thread's events arrive in order and     *)
(* once, and the pair implements the mailbox.                              *)
(*                                                                         *)
(* The counter alone says nothing of the queue: what is invariant is the   *)
(* sum of the counter, of what a running batch has claimed, and of the     *)
(* posts that are half done.  That sum is the length of the queue.         *)
(***************************************************************************)
EXTENDS CountedQueue, SequenceTheorems, TLAPS

\* Posts of p that are in the queue and not yet in the counter.
Half(p) == IF posting[p] THEN 1 ELSE 0

\* What the running batch took off the counter and not yet off the queue.
InBatch == IF stage = "dequeue" THEN claimed ELSE 0

Balance == counter + InBatch + Half("network") + Half("game") = Queued

\* The counter only grows between the load and the subtraction.
LoadStillCounted == stage = "subtract" => claimed <= counter

\* Between two batches nothing is claimed.
IdleClaimsNothing == stage = "idle" => claimed = 0

IInv == TypeOK /\ Balance /\ LoadStillCounted /\ IdleClaimsNothing /\ NothingInvented

-----------------------------------------------------------------------------
(* The operations on the sub-queues                                        *)

\* Concatenation under a name: left folded, it lets the provers use the two
\* laws below as they stand instead of expanding sequences into functions.
Cat(a, b) == a \o b

LEMMA CatAssociative ==
  \A S : \A a, b, c \in Seq(S) : Cat(Cat(a, b), c) = Cat(a, Cat(b, c))
BY SMT DEF Cat

LEMMA CatAppend ==
  \A S : \A a, b \in Seq(S), e \in S : Cat(a, Append(b, e)) = Append(Cat(a, b), e)
BY SMT DEF Cat

\* A sequence cut after its first n elements.
LEMMA CutSeq ==
  ASSUME NEW S, NEW q \in Seq(S), NEW n \in 0 .. Len(q)
  PROVE  /\ SubSeq(q, 1, n) \in Seq(S)
         /\ SubSeq(q, n + 1, Len(q)) \in Seq(S)
         /\ Len(SubSeq(q, n + 1, Len(q))) = Len(q) - n
         /\ SubSeq(q, 1, n) \o SubSeq(q, n + 1, Len(q)) = q
<1>1. Len(q) \in Nat /\ n \in Nat /\ n <= Len(q)
  BY LenProperties
<1>2. \A i \in 1 .. Len(q) : q[i] \in S
  BY ElementOfSeq
<1>3. SubSeq(q, 1, n) \in Seq(S)
  <2>1. \A i \in 1 .. n : q[i] \in S
    BY <1>1, <1>2
  <2> QED BY <1>1, <2>1, SubSeqProperties
<1>4. /\ SubSeq(q, n + 1, Len(q)) \in Seq(S)
      /\ Len(SubSeq(q, n + 1, Len(q))) = Len(q) - n
  <2>1. \A i \in n + 1 .. Len(q) : q[i] \in S
    BY <1>1, <1>2
  <2> QED BY <1>1, <2>1, SubSeqProperties
<1>5. SubSeq(q, 1, n) \o SubSeq(q, n + 1, Len(q)) = SubSeq(q, 1, Len(q))
  <2>1. /\ 1 \in 1 .. Len(q) + 1
        /\ n \in 1 - 1 .. Len(q)
        /\ Len(q) \in n .. Len(q)
    BY <1>1
  <2> HIDE <1>2, <1>3, <1>4
  <2> QED BY <2>1, ConcatAdjacentSubSeq, Zenon
<1> QED BY <1>3, <1>4, <1>5, SubSeqFull

\* Taking share[p] events of each thread gives every sub-queue its length
\* less the share, and hands the events over in order (TakeFrom).
LEMMA TakeFromFacts ==
  ASSUME TypeOK, NEW share \in [Producer -> Nat], TakeFrom(share)
  PROVE  /\ queue' \in [Producer -> Seq(Event)]
         /\ received' \in [Producer -> Seq(Event)]
         /\ \A p \in Producer : Len(queue'[p]) = Len(queue[p]) - share[p]
         /\ \A p \in Producer : received'[p] \o queue'[p] = received[p] \o queue[p]
<1> SUFFICES ASSUME NEW p \in Producer
             PROVE  /\ queue'[p] \in Seq(Event)
                    /\ received'[p] \in Seq(Event)
                    /\ Len(queue'[p]) = Len(queue[p]) - share[p]
                    /\ received'[p] \o queue'[p] = received[p] \o queue[p]
  BY DEF TakeFrom
<1> DEFINE front == SubSeq(queue[p], 1, share[p])
           back == SubSeq(queue[p], share[p] + 1, Len(queue[p]))
<1>1. queue[p] \in Seq(Event) /\ received[p] \in Seq(Event)
  BY DEF TypeOK
<1>2. queue'[p] = back /\ received'[p] = received[p] \o front
  BY DEF TakeFrom
<1>3. share[p] \in 0 .. Len(queue[p])
  BY <1>1, LenProperties DEF TakeFrom, Waiting
<1>4. /\ front \in Seq(Event) /\ back \in Seq(Event)
      /\ Len(back) = Len(queue[p]) - share[p]
      /\ front \o back = queue[p]
  BY <1>1, <1>3, CutSeq
<1> HIDE DEF front, back
<1>5. (received[p] \o front) \o back = received[p] \o queue[p]
  <2>1. Cat(Cat(received[p], front), back) = Cat(received[p], Cat(front, back))
    BY <1>1, <1>4, CatAssociative
  <2>2. Cat(front, back) = queue[p]
    BY <1>4 DEF Cat
  <2>3. Cat(Cat(received[p], front), back) = Cat(received[p], queue[p])
    BY <2>1, <2>2
  <2> QED BY <2>3 DEF Cat
<1>6. received[p] \o front \in Seq(Event)
  BY <1>1, <1>4, ConcatProperties
<1> QED BY <1>2, <1>4, <1>5, <1>6

-----------------------------------------------------------------------------
(* The inductive invariant                                                 *)

LEMMA InitIInv == Init => IInv
<1> SUFFICES ASSUME Init PROVE IInv
  OBVIOUS
<1>1. <<>> \in Seq(Event) /\ Len(<<>>) = 0
  OBVIOUS
<1>2. queue = [p \in Producer |-> <<>>] /\ Queued = 0
  BY <1>1 DEF Init, Queued, Waiting, Producer
<1>3. TypeOK
  BY <1>1, <1>2, MaxPostedAssumption DEF Init, TypeOK
<1> QED BY <1>2, <1>3
    DEF Init, IInv, Balance, InBatch, Half, LoadStillCounted, IdleClaimsNothing,
        NothingInvented, Producer

LEMMA NextIInv == IInv /\ [Next]_vars => IInv'
<1> SUFFICES ASSUME IInv, [Next]_vars
             PROVE  IInv'
  OBVIOUS
<1> USE MaxPostedAssumption
<1>0. Waiting("network") \in Nat /\ Waiting("game") \in Nat
  BY LenProperties DEF IInv, TypeOK, Waiting, Producer
<1>a. /\ counter \in Nat /\ claimed \in Nat /\ InBatch \in Nat /\ Queued \in Nat
      /\ Half("network") \in Nat /\ Half("game") \in Nat
      /\ counter + InBatch + Half("network") + Half("game") = Queued
  BY <1>0 DEF IInv, TypeOK, InBatch, Half, Queued, Producer, Balance
<1>1. ASSUME NEW p \in Producer, Enqueue(p)
      PROVE  IInv'
  <2>1. posted[p] + 1 \in Event
    BY <1>1 DEF Enqueue, IInv, TypeOK, Event
  <2>2. /\ queue'[p] \in Seq(Event)
        /\ Len(queue'[p]) = Len(queue[p]) + 1
        /\ \A r \in Producer \ {p} : queue'[r] = queue[r]
        /\ queue' \in [Producer -> Seq(Event)]
    BY <1>1, <2>1, AppendProperties DEF Enqueue, IInv, TypeOK
  <2>3. TypeOK'
    BY <1>1, <2>2 DEF Enqueue, IInv, TypeOK, Event
  <2>4. Balance'
    <3>1. Queued' = Queued + 1
      <4>1. /\ Waiting(p)' = Waiting(p) + 1
            /\ \A r \in Producer \ {p} : Waiting(r)' = Waiting(r)
        BY <2>2 DEF Waiting
      <4>2. CASE p = "network"
        BY <1>0, <4>1, <4>2 DEF Queued, Producer
      <4>3. CASE p = "game"
        BY <1>0, <4>1, <4>3 DEF Queued, Producer
      <4> QED BY <4>2, <4>3 DEF Producer
    <3>2. Half("network")' + Half("game")' = Half("network") + Half("game") + 1
      BY <1>1 DEF Enqueue, IInv, TypeOK, Half, Producer
    <3>3. counter' = counter /\ InBatch' = InBatch
      BY <1>1 DEF Enqueue, InBatch
    <3>4. Half("network")' \in Nat /\ Half("game")' \in Nat
      BY DEF Half
    <3> QED BY <1>a, <3>1, <3>2, <3>3, <3>4 DEF Balance
  <2> QED BY <1>1, <2>3, <2>4
      DEF Enqueue, IInv, LoadStillCounted, IdleClaimsNothing, NothingInvented
<1>2. ASSUME NEW p \in Producer, Publish(p)
      PROVE  IInv'
  <2>1. TypeOK'
    BY <1>2 DEF Publish, IInv, TypeOK
  <2>2. Balance'
    <3>1. Queued' = Queued /\ InBatch' = InBatch /\ counter' = counter + 1
      BY <1>2 DEF Publish, Queued, Waiting, InBatch
    <3>2. Half("network")' + Half("game")' + 1 = Half("network") + Half("game")
      BY <1>2 DEF Publish, IInv, TypeOK, Half, Producer
    <3>3. Half("network")' \in Nat /\ Half("game")' \in Nat
      BY DEF Half
    <3> QED BY <1>a, <3>1, <3>2, <3>3 DEF Balance
  <2> QED BY <1>2, <2>1, <2>2
      DEF Publish, IInv, TypeOK, LoadStillCounted, IdleClaimsNothing, NothingInvented
<1>3. CASE Load
  BY <1>3 DEF Load, IInv, TypeOK, Balance, InBatch, Half, Queued, Waiting,
     LoadStillCounted, IdleClaimsNothing, NothingInvented, Producer
<1>4. CASE Subtract
  <2>1. claimed <= counter /\ InBatch = 0 /\ InBatch' = claimed
    BY <1>4, <1>a DEF Subtract, IInv, LoadStillCounted, InBatch
  <2>2. TypeOK'
    BY <1>4, <1>a, <2>1 DEF Subtract, IInv, TypeOK
  <2>3. UNCHANGED <<Queued, Half("network"), Half("game")>>
    BY <1>4 DEF Subtract, Queued, Waiting, Half
  <2>4. Balance'
    BY <1>4, <1>a, <2>1, <2>3 DEF Subtract, Balance
  <2> QED BY <1>4, <2>2, <2>4 DEF Subtract, IInv, LoadStillCounted, IdleClaimsNothing, NothingInvented
<1>5. CASE Dequeue
  <2>1. Queued \in Nat /\ claimed <= Queued /\ claimed \in Nat
    BY <1>0, <1>5 DEF Dequeue, IInv, TypeOK, Balance, InBatch, Half, Queued, Producer
  <2>2. PICK share \in [Producer -> 0 .. claimed] :
          share["network"] + share["game"] = claimed /\ TakeFrom(share)
    BY <1>5, <2>1 DEF Dequeue, Smaller
  <2>3. defaulted' = defaulted
    BY <1>5, <2>1 DEF Dequeue, Smaller, IInv, TypeOK
  <2>4. share \in [Producer -> Nat] /\ TypeOK
    BY <2>1, <2>2 DEF IInv
  <2>5. /\ queue' \in [Producer -> Seq(Event)]
        /\ received' \in [Producer -> Seq(Event)]
        /\ \A p \in Producer : Len(queue'[p]) = Len(queue[p]) - share[p]
    BY <2>2, <2>4, TakeFromFacts
  <2>6. Queued' = Queued - claimed
    <3>1. share["network"] \in Nat /\ share["game"] \in Nat
      BY <2>4 DEF Producer
    <3>2. /\ Waiting("network")' = Waiting("network") - share["network"]
          /\ Waiting("game")' = Waiting("game") - share["game"]
      BY <2>5 DEF Producer, Waiting
    <3>3. share["network"] + share["game"] = claimed
      BY <2>2
    <3> QED BY <1>0, <3>1, <3>2, <3>3 DEF Queued
  <2>7. TypeOK'
    BY <1>5, <2>3, <2>5 DEF Dequeue, IInv, TypeOK
  <2>8. Balance'
    BY <1>5, <2>1, <2>6 DEF Dequeue, IInv, TypeOK, Balance, InBatch, Half, Producer
  <2> QED BY <1>5, <2>3, <2>7, <2>8
      DEF Dequeue, IInv, LoadStillCounted, IdleClaimsNothing, NothingInvented
<1>6. CASE UNCHANGED vars
  BY <1>6 DEF vars, IInv, TypeOK, Balance, InBatch, Half, Queued, Waiting,
     LoadStillCounted, IdleClaimsNothing, NothingInvented
<1> QED BY <1>1, <1>2, <1>3, <1>4, <1>5, <1>6 DEF Next, Post

LEMMA Invariance == SafeSpec => []IInv
BY InitIInv, NextIInv, PTL DEF SafeSpec

-----------------------------------------------------------------------------
(* Safety                                                                  *)

\* Every variable keeps its type; above all the counter, which the game loop
\* lowers by what it loaded a moment before, never goes below zero.
THEOREM TypeCorrect == SafeSpec => []TypeOK
<1>1. IInv => TypeOK
  BY DEF IInv
<1> QED BY <1>1, Invariance, PTL

\* What a batch claims is in the queue, whoever posts in the meantime.
THEOREM CounterSafe == SafeSpec => []CounterNeverAhead
<1>1. IInv => CounterNeverAhead
  <2> SUFFICES ASSUME IInv PROVE CounterNeverAhead
    OBVIOUS
  <2>1. Half("network") \in Nat /\ Half("game") \in Nat /\ counter \in Nat
        /\ InBatch \in Nat
    BY DEF Half, IInv, TypeOK, InBatch
  <2> QED BY <2>1 DEF IInv, Balance, CounterNeverAhead, InBatch
<1> QED BY <1>1, Invariance, PTL

\* The bulk dequeue always gets what it asked for: the debug_assert of
\* handle_connections holds, and so would one in the two other handlers.
THEOREM BatchesFull == SafeSpec => []NothingInvented
<1>1. IInv => NothingInvented
  BY DEF IInv
<1> QED BY <1>1, Invariance, PTL

\* What p's posts become: received, then still queued, in posting order.
LEMMA NextInOrder == TypeOK /\ TypeOK' /\ InOrderOnce /\ [Next]_vars => InOrderOnce'
<1> SUFFICES ASSUME TypeOK, TypeOK', InOrderOnce, [Next]_vars, NEW p \in Producer
             PROVE  received'[p] \o queue'[p] = [i \in 1 .. posted'[p] |-> i]
  BY DEF InOrderOnce
<1>0. received[p] \o queue[p] = [i \in 1 .. posted[p] |-> i]
  BY DEF InOrderOnce
<1> USE MaxPostedAssumption
<1>1. ASSUME NEW r \in Producer, Enqueue(r)
      PROVE  received'[p] \o queue'[p] = [i \in 1 .. posted'[p] |-> i]
  <2>1. CASE r # p
    <3>1. queue'[p] = queue[p] /\ posted'[p] = posted[p] /\ received' = received
      BY <1>1, <2>1 DEF Enqueue, TypeOK
    <3> QED BY <1>0, <3>1
  <2>2. CASE r = p
    <3> DEFINE n == posted[p]
    <3>1. /\ queue'[p] = Append(queue[p], n + 1)
          /\ posted'[p] = n + 1
          /\ received'[p] = received[p]
      BY <1>1, <2>2 DEF Enqueue, TypeOK
    <3>2. /\ received[p] \in Seq(Event) /\ queue[p] \in Seq(Event)
          /\ n \in Nat /\ n + 1 \in Event
      BY <1>1, <2>2 DEF Enqueue, TypeOK, Event
    <3>3. Cat(received[p], Append(queue[p], n + 1))
            = Append(Cat(received[p], queue[p]), n + 1)
      BY <3>2, CatAppend
    <3>4. received[p] \o Append(queue[p], n + 1)
            = Append(received[p] \o queue[p], n + 1)
      BY <3>3 DEF Cat
    <3>5. Append([i \in 1 .. n |-> i], n + 1) = [i \in 1 .. n + 1 |-> i]
      BY <3>2
    <3> QED BY <1>0, <3>1, <3>4, <3>5
  <2> QED BY <2>1, <2>2
<1>2. ASSUME NEW r \in Producer, Publish(r)
      PROVE  received'[p] \o queue'[p] = [i \in 1 .. posted'[p] |-> i]
  BY <1>0, <1>2 DEF Publish
<1>3. CASE Load
  BY <1>0, <1>3 DEF Load
<1>4. CASE Subtract
  BY <1>0, <1>4 DEF Subtract
<1>5. CASE Dequeue
  <2>1. PICK share \in [Producer -> 0 .. claimed] : TakeFrom(share)
    BY <1>5 DEF Dequeue
  <2>2. share \in [Producer -> Nat]
    BY <2>1 DEF TypeOK
  <2>3. received'[p] \o queue'[p] = received[p] \o queue[p]
    BY <2>1, <2>2, TakeFromFacts
  <2> QED BY <1>0, <1>5, <2>3 DEF Dequeue
<1>6. CASE UNCHANGED vars
  BY <1>0, <1>6 DEF vars
<1> QED BY <1>1, <1>2, <1>3, <1>4, <1>5, <1>6 DEF Next, Post

\* Each thread's events reach the game loop in posting order, none twice and
\* none skipped, however batches and posts interleave.
THEOREM InOrder == SafeSpec => []InOrderOnce
<1>1. Init => InOrderOnce
  BY DEF Init, InOrderOnce
<1>2. IInv => TypeOK
  BY DEF IInv
<1> QED BY <1>1, <1>2, Invariance, NextInOrder, PTL DEF SafeSpec

-----------------------------------------------------------------------------
(* Refinement                                                              *)

\* The mailbox's counter: what was loaded counts as claimed from the load on.
Announced == counter - (IF stage = "subtract" THEN claimed ELSE 0)

\* A step of the protocol puts, announces, claims or takes, or is nothing to
\* the mailbox.  That only what is there is announced, and that a batch is
\* full, is the balance of the counter and the queue.
LEMMA NextMailbox == IInv /\ [Next]_vars => [MB!Next]_MB!vars
<1> SUFFICES ASSUME IInv, [Next]_vars
             PROVE  MB!Next \/ UNCHANGED <<queue, received, Announced, claimed>>
  BY DEF MB!vars, Announced
<1> USE MaxPostedAssumption
<1>0. /\ counter \in Nat /\ claimed \in Nat
      /\ Waiting("network") \in Nat /\ Waiting("game") \in Nat
      /\ Half("network") \in Nat /\ Half("game") \in Nat
      /\ counter + InBatch + Half("network") + Half("game")
           = Waiting("network") + Waiting("game")
  BY LenProperties DEF IInv, TypeOK, Balance, Queued, Waiting, Half, Producer
<1>1. ASSUME NEW p \in Producer, Enqueue(p)
      PROVE  MB!Put(p)
  <2>1. posted[p] + 1 \in Event
    BY <1>1 DEF Enqueue, IInv, TypeOK, Event
  <2> QED BY <1>1, <2>1 DEF Enqueue, MB!Put
<1>2. ASSUME NEW p \in Producer, Publish(p)
      PROVE  MB!Announce
  <2>1. Half(p) = 1
    BY <1>2 DEF Publish, Half
  <2>2. Half("network") + Half("game") >= 1
    BY <1>0, <2>1 DEF Producer
  <2>3. counter + InBatch < Waiting("network") + Waiting("game")
    BY <1>0, <2>2 DEF InBatch
  <2>4. Announced + claimed = counter + InBatch
    BY <1>0 DEF Announced, InBatch, IInv, TypeOK, IdleClaimsNothing
  <2>5. Announced' = Announced + 1
    BY <1>0, <1>2 DEF Publish, Announced
  <2>6. Announced + claimed < Len(queue["network"]) + Len(queue["game"])
    BY <2>3, <2>4 DEF Waiting
  <2>7. UNCHANGED <<queue, received, claimed>>
    BY <1>2 DEF Publish
  <2> QED BY <2>5, <2>6, <2>7 DEF MB!Announce, Announced
<1>3. CASE Load
  <2>1. stage = "idle" /\ claimed = 0 /\ claimed' = counter /\ Announced = counter
        /\ UNCHANGED <<queue, received>>
    BY <1>0, <1>3 DEF Load, IInv, IdleClaimsNothing, Announced
  <2>2. Announced' = 0
    BY <1>0, <1>3 DEF Load, Announced
  <2>3. MB!Claim
    BY <2>1, <2>2 DEF MB!Claim, Announced
  <2> QED BY <2>3 DEF MB!Next
<1>4. CASE Subtract
  BY <1>0, <1>4 DEF Subtract, Announced
<1>5. CASE Dequeue
  <2>1. claimed <= Queued /\ Queued \in Nat
    BY <1>0, <1>5 DEF Dequeue, InBatch, Queued
  <2>2. PICK share \in [Producer -> 0 .. claimed] :
          share["network"] + share["game"] = claimed /\ TakeFrom(share)
    BY <1>5, <2>1 DEF Dequeue, Smaller
  <2>3. share \in [MB!Producer -> 0 .. claimed]
    BY <2>2 DEF MB!Producer, Producer
  <2>4. claimed' = 0 /\ Announced' = Announced
    BY <1>0, <1>5 DEF Dequeue, Announced
  <2>5. MB!Take
    BY <2>2, <2>3, <2>4 DEF MB!Take, MB!Producer, Producer, TakeFrom, Waiting, Announced
  <2> QED BY <2>5 DEF MB!Next
<1>6. CASE UNCHANGED vars
  BY <1>6 DEF vars, Announced
<1> QED BY <1>1, <1>2, <1>3, <1>4, <1>5, <1>6
        DEF Next, Post, MB!Next, MB!Producer, Producer

\* The queue-and-counter pair implements the mailbox the handlers rely on: an
\* event is announced only once it is there, the load and the subtraction claim
\* at one moment all that was announced, and every batch is as large as its
\* claim and made of events that were put, in order.
THEOREM Refinement == SafeSpec => ImplementsMailbox
<1>1. Init => MB!Init
  BY DEF Init, MB!Init, MB!Producer, Producer
<1> QED BY <1>1, NextMailbox, Invariance, PTL DEF SafeSpec, ImplementsMailbox, MB!Spec

=============================================================================
