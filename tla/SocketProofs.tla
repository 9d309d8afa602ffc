---------------------------- MODULE SocketProofs ----------------------------
(***************************************************************************)
(* A socket keeps its contract for any number of sends and of messages     *)
(* read, and whichever operation fails.                                    *)
(*                                                                         *)
(* The write queue and the write under way are two halves of one state:    *)
(* until a write fails, one is under way exactly when the queue is not     *)
(* empty, and writing_ says so (Pipeline); once one has failed, none is    *)
(* under way any more and writing_ stays set, so that none is started.     *)
(* What the handler has heard says how far the socket's life has come      *)
(* (Heard, Unheard): with it a destructor runs once, and last.             *)
(***************************************************************************)
EXTENDS Socket, SequenceTheorems, TLAPS

-----------------------------------------------------------------------------
(* Sequences                                                               *)

\* Concatenation under a name, so that its laws are used as they stand.
Cat(a, b) == a \o b

\* What is appended to the second is appended to both.
LEMMA CatAppend ==
  ASSUME NEW S, NEW a \in Seq(S), NEW b \in Seq(S), NEW e \in S
  PROVE  Cat(a, Append(b, e)) = Append(Cat(a, b), e)
BY SMT DEF Cat

\* What goes from the front of one sequence to the end of the one before it
\* leaves the two together as they were: on_send and on_write do this.
LEMMA HandOver ==
  ASSUME NEW S, NEW a \in Seq(S), NEW b \in Seq(S), b # <<>>
  PROVE  /\ Append(a, Head(b)) \in Seq(S) /\ Tail(b) \in Seq(S)
         /\ Cat(Append(a, Head(b)), Tail(b)) = Cat(a, b)
<1>1. Head(b) \in S /\ Tail(b) \in Seq(S) /\ Append(a, Head(b)) \in Seq(S)
  BY HeadTailProperties, AppendProperties
<1>2. /\ Cat(Append(a, Head(b)), Tail(b)) \in Seq(S)
      /\ Cat(a, b) \in Seq(S)
  BY <1>1, ConcatProperties DEF Cat
<1>3. Len(Cat(Append(a, Head(b)), Tail(b))) = Len(Cat(a, b))
  BY <1>1, ConcatProperties, AppendProperties, HeadTailProperties, LenProperties DEF Cat
<1>4. ASSUME NEW i \in 1 .. Len(Cat(a, b))
      PROVE  Cat(Append(a, Head(b)), Tail(b))[i] = Cat(a, b)[i]
  BY SMT DEF Cat
<1> QED BY <1>1, <1>2, <1>3, <1>4, SeqEqual

\* The front of a sequence stays its front when it is appended to.
LEMMA FrontStays ==
  ASSUME NEW S, NEW q \in Seq(S), NEW e \in S
  PROVE  Append(q, e) # <<>> /\ Head(Append(q, e)) = IF q = <<>> THEN e ELSE Head(q)
BY AppendProperties, HeadTailAppend

-----------------------------------------------------------------------------
(* The inductive invariant                                                 *)

\* The write queue, writing_ and the write under way agree.
Pipeline ==
  /\ OneWrite
  /\ broken => writing /\ writes = <<>>
  /\ ~broken => /\ writing <=> writes # <<>>
                /\ writing <=> wbuffer # <<>>

\* What the handler has heard by each stage of the socket's life.
Life ==
  /\ reader \in {"none", "handshake"} => callbacks = <<>>
  /\ reader = "reading" => callbacks # <<>>
  /\ ~Called("on_open") => ~held /\ sends = 0
  /\ Called("on_close") => reader = "ended"

\* The calls so far: an open or a close first, nothing after a close.
Heard == Life /\ CallbacksInOrder

\* Types hold at the start ...
LEMMA InitTypes == Init => TypeOK
<1>1. <<>> \in Seq(Message) /\ <<>> \in Seq(Callback)
  BY EmptySeq
<1>2. 0 \in 0 .. MaxSends
  BY BoundsAssumption
<1> QED BY <1>1, <1>2, Zenon DEF Init, TypeOK

\* ... and every step keeps them.
LEMMA TypesKept == TypeOK /\ Pipeline /\ [Next]_vars => TypeOK'
<1> SUFFICES ASSUME TypeOK, Pipeline, [Next]_vars PROVE TypeOK'
  OBVIOUS
<1> USE DEF TypeOK
<1>1. CASE Open
  BY <1>1 DEF Open, outgoing
<1>2. CASE OnAccept
  <2>1. callbacks' \in Seq(Callback)
    BY <1>2, AppendProperties DEF OnAccept, Callback
  <2> QED BY <1>2, <2>1 DEF OnAccept, outgoing
<1>3. CASE OnRead
  <2>1. callbacks' \in Seq(Callback)
    BY <1>3, AppendProperties DEF OnRead, Callback
  <2> QED BY <1>3, <2>1 DEF OnRead, outgoing
<1>4. CASE Lock \/ Unlock
  BY <1>4 DEF Lock, Unlock, outgoing
<1>5. CASE Send
  <2>1. sends' \in Message /\ sends' \in 0 .. MaxSends
    BY <1>5, BoundsAssumption DEF Send, Message
  <2>2. posted' \in Seq(Message)
    BY <1>5, <2>1, AppendProperties DEF Send
  <2> QED BY <1>5, <2>1, <2>2 DEF Send
<1>6. CASE OnSend
  <2>1. /\ posted' \in Seq(Message) /\ wbuffer' \in Seq(Message) /\ wbuffer' # <<>>
    BY <1>6, HandOver, HeadTailProperties, AppendProperties DEF OnSend
  <2>2. Append(writes, Head(wbuffer')) \in Seq(Message)
    BY <2>1, HeadTailProperties, AppendProperties
  <2> QED BY <1>6, <2>1, <2>2 DEF OnSend
<1>7. CASE OnWrite
  <2>1. wire' \in Seq(Message) /\ Tail(writes) \in Seq(Message)
    BY <1>7, HandOver DEF OnWrite
  <2>2. wbuffer' \in Seq(Message)
    BY <1>7, HeadTailProperties DEF OnWrite, Pipeline, OneWrite
  <2>3. wbuffer' # <<>> => Append(Tail(writes), Head(wbuffer')) \in Seq(Message)
    BY <2>1, <2>2, HeadTailProperties, AppendProperties
  <2> QED BY <1>7, <2>1, <2>2, <2>3 DEF OnWrite
<1>8. CASE OnWriteError
  BY <1>8, HeadTailProperties DEF OnWriteError
<1>9. CASE Destroy
  <2>1. callbacks' \in Seq(Callback)
    BY <1>9, AppendProperties DEF Destroy, Callback
  <2> QED BY <1>9, <2>1 DEF Destroy, outgoing
<1>10. CASE UNCHANGED vars
  BY <1>10 DEF vars
<1> QED BY <1>1, <1>2, <1>3, <1>4, <1>5, <1>6, <1>7, <1>8, <1>9, <1>10 DEF Next

\* The queue and the write under way agree at the start ...
LEMMA InitPipeline == Init => Pipeline
BY DEF Init, Pipeline, OneWrite

\* ... and after every step.
LEMMA PipelineKept == TypeOK /\ Pipeline /\ [Next]_vars => Pipeline'
<1> SUFFICES ASSUME TypeOK, Pipeline, [Next]_vars PROVE Pipeline'
  OBVIOUS
<1> USE DEF Pipeline, OneWrite
<1>1. CASE UNCHANGED <<wbuffer, writing, writes, broken>>
  BY <1>1
<1>2. CASE OnSend
  <2>1. /\ wbuffer' # <<>>
        /\ Head(wbuffer') = IF wbuffer = <<>> THEN Head(posted) ELSE Head(wbuffer)
    BY <1>2, HeadTailProperties, FrontStays DEF OnSend, TypeOK
  <2>2. CASE writing
    BY <1>2, <2>1, <2>2 DEF OnSend
  <2>3. CASE ~writing
    <3>1. writes = <<>> /\ ~broken
      BY <2>3
    <3>2. Head(wbuffer') \in Message
      BY <1>2, <2>1, HeadTailProperties DEF OnSend, TypeOK
    <3>3. writes' = <<Head(wbuffer')>>
      BY <1>2, <2>3, <3>1 DEF OnSend
    <3> QED BY <1>2, <2>1, <3>1, <3>2, <3>3 DEF OnSend
  <2> QED BY <2>2, <2>3
<1>3. CASE OnWrite
  <2>1. Tail(writes) = <<>>
    BY <1>3, HeadTailProperties, EmptySeq DEF OnWrite, TypeOK
  <2>2. wbuffer' \in Seq(Message)
    BY <1>3, HeadTailProperties DEF OnWrite, TypeOK
  <2>3. CASE wbuffer' = <<>>
    BY <1>3, <2>1, <2>3 DEF OnWrite
  <2>4. CASE wbuffer' # <<>>
    <3>1. writes' = <<Head(wbuffer')>>
      BY <1>3, <2>1, <2>4 DEF OnWrite
    <3> QED BY <1>3, <2>4, <3>1 DEF OnWrite
  <2> QED BY <2>3, <2>4
<1>4. CASE OnWriteError
  <2>1. Tail(writes) = <<>>
    BY <1>4, HeadTailProperties, EmptySeq DEF OnWriteError, TypeOK
  <2> QED BY <1>4, <2>1 DEF OnWriteError
<1> QED
  BY <1>1, <1>2, <1>3, <1>4
  DEF Next, Open, OnAccept, OnRead, Lock, Send, Unlock, Destroy, outgoing, vars

-----------------------------------------------------------------------------
(* The order of what is sent                                               *)

\* The first n messages, in the order they were sent.
Numbered(n) == [i \in 1 .. n |-> i]

\* One message more.
LEMMA NumberedNext ==
  ASSUME NEW n \in Nat
  PROVE  Append(Numbered(n), n + 1) = Numbered(n + 1)
BY SMT DEF Numbered

\* SentInOrder, with its two concatenations under their name.
LEMMA InOrderByCat == SentInOrder <=> Cat(Cat(wire, wbuffer), posted) = Numbered(sends)
BY DEF SentInOrder, Cat, Numbered

\* Nothing has been sent at the start ...
LEMMA InitOrder == Init => SentInOrder
<1> SUFFICES ASSUME Init PROVE SentInOrder
  OBVIOUS
<1>1. Cat(Cat(wire, wbuffer), posted) = <<>>
  BY SMT DEF Init, Cat
<1>2. Numbered(sends) = <<>>
  BY SMT DEF Init, Numbered
<1> QED BY <1>1, <1>2, InOrderByCat

\* ... and a message only moves on: from the executor to the write queue, and
\* from there to the wire once its write is over.
LEMMA OrderKept == TypeOK /\ Pipeline /\ SentInOrder /\ [Next]_vars => SentInOrder'
<1> SUFFICES ASSUME TypeOK, Pipeline, SentInOrder, [Next]_vars PROVE SentInOrder'
  OBVIOUS
<1>0. SentInOrder' <=> Cat(Cat(wire', wbuffer'), posted') = Numbered(sends')
  BY DEF SentInOrder, Cat, Numbered
<1>1. /\ wire \in Seq(Message) /\ wbuffer \in Seq(Message) /\ posted \in Seq(Message)
      /\ Cat(wire, wbuffer) \in Seq(Message)
  BY ConcatProperties DEF TypeOK, Cat
<1>2. CASE UNCHANGED <<wire, wbuffer, posted, sends>>
  BY <1>0, <1>2, InOrderByCat
<1>3. CASE Send
  <2>1. sends + 1 \in Message /\ sends \in Nat
    BY <1>3, BoundsAssumption DEF Send, Message, TypeOK
  <2>2. Cat(Cat(wire, wbuffer), Append(posted, sends + 1))
          = Append(Cat(Cat(wire, wbuffer), posted), sends + 1)
    BY <1>1, <2>1, CatAppend
  <2> QED BY <1>0, <1>3, <2>1, <2>2, NumberedNext, InOrderByCat DEF Send
<1>4. CASE OnSend
  <2>1. Cat(Append(Cat(wire, wbuffer), Head(posted)), Tail(posted))
          = Cat(Cat(wire, wbuffer), posted)
    BY <1>1, <1>4, HandOver DEF OnSend
  <2>2. Head(posted) \in Message
    BY <1>1, <1>4, HeadTailProperties DEF OnSend
  <2>3. Cat(wire, Append(wbuffer, Head(posted))) = Append(Cat(wire, wbuffer), Head(posted))
    <3>1. \A e \in Message : Cat(wire, Append(wbuffer, e)) = Append(Cat(wire, wbuffer), e)
      BY <1>1, CatAppend
    <3> QED BY <2>2, <3>1
  <2> QED BY <1>0, <1>4, <2>1, <2>3, InOrderByCat DEF OnSend
<1>5. CASE OnWrite
  <2>1. wbuffer # <<>> /\ Head(writes) = Head(wbuffer)
    BY <1>5 DEF OnWrite, Pipeline, OneWrite
  <2>2. Cat(Append(wire, Head(wbuffer)), Tail(wbuffer)) = Cat(wire, wbuffer)
    BY <1>1, <2>1, HandOver
  <2> QED BY <1>0, <1>5, <2>1, <2>2, InOrderByCat DEF OnWrite
<1> QED
  BY <1>2, <1>3, <1>4, <1>5
  DEF Next, Open, OnAccept, OnRead, Lock, Unlock, OnWriteError, Destroy, outgoing, vars

-----------------------------------------------------------------------------
(* The calls of the handler                                                *)

\* What appending a call does to those heard of.
LEMMA CalledAfter ==
  ASSUME TypeOK, NEW c \in Callback, callbacks' = Append(callbacks, c)
  PROVE  \A d : Called(d)' <=> Called(d) \/ d = c
<1>1. /\ Len(callbacks) \in Nat /\ Len(callbacks') = Len(callbacks) + 1
      /\ \A i \in 1 .. Len(callbacks) : callbacks'[i] = callbacks[i]
      /\ callbacks'[Len(callbacks) + 1] = c
  BY AppendProperties, LenProperties DEF TypeOK
<1> QED BY <1>1 DEF Called

\* Until there was an on_open, nothing else was heard but perhaps the close.
LEMMA Unheard ==
  ASSUME TypeOK, CallbacksInOrder, callbacks # <<>>
  PROVE  Called("on_open") \/ Called("on_close")
<1>1. 1 \in 1 .. Len(callbacks)
  BY EmptySeq, LenProperties DEF TypeOK
<1> QED BY <1>1 DEF CallbacksInOrder, Called

\* Nothing was called at the start ...
LEMMA InitHeard == Init => Heard
<1> SUFFICES ASSUME Init PROVE Heard
  OBVIOUS
<1>1. Len(callbacks) = 0
  BY DEF Init
<1> QED BY <1>1 DEF Init, Heard, Life, CallbacksInOrder, Called

\* ... and a step calls the handler as its life allows.
LEMMA HeardKept ==
  TypeOK /\ Pipeline /\ SentInOrder /\ Heard /\ [Next]_vars => Heard'
<1> SUFFICES ASSUME TypeOK, Pipeline, SentInOrder, Heard, [Next]_vars PROVE Heard'
  OBVIOUS
<1>len. Len(callbacks) \in Nat /\ (callbacks = <<>> <=> Len(callbacks) = 0)
  BY EmptySeq, LenProperties DEF TypeOK
\* A step that calls nobody.
<1>quiet. ASSUME UNCHANGED callbacks,
                 Called("on_close") => reader' = reader /\ (Alive' => Alive),
                 reader' \in {"none", "handshake"} => reader \in {"none", "handshake"},
                 reader' = "reading" => reader = "reading",
                 ~Called("on_open") => ~held' /\ sends' = sends
          PROVE  Heard'
  <2>1. \A c : Called(c)' = Called(c)
    BY <1>quiet DEF Called
  <2>2. Life'
    BY <1>quiet, <2>1 DEF Heard, Life
  <2>3. CallbacksInOrder'
    BY <1>quiet DEF Heard, CallbacksInOrder, Called
  <2> QED BY <2>2, <2>3 DEF Heard
<1>1. CASE Open
  BY <1>1, <1>quiet DEF Open, Heard, Life
<1>2. CASE OnAccept
  <2>1. callbacks = <<>> /\ ~Called("on_close") /\ ~Called("on_open") /\ ~held /\ sends = 0
    BY <1>2, <1>len DEF OnAccept, Heard, Life, Called
  <2>2. CASE reader' = "reading"
    <3>1. callbacks' = <<"on_open">>
      BY <1>2, <2>1, <2>2 DEF OnAccept
    <3>2. Len(callbacks') = 1 /\ callbacks'[1] = "on_open"
      BY <3>1
    <3>3. Called("on_open")' /\ ~Called("on_close")'
      BY <3>2 DEF Called
    <3> QED BY <2>2, <3>1, <3>2, <3>3 DEF Heard, Life, CallbacksInOrder
  <2>3. CASE reader' = "ended"
    BY <1>2, <1>quiet, <2>1, <2>3 DEF OnAccept
  <2> QED BY <1>2, <2>2, <2>3 DEF OnAccept
<1>3. CASE OnRead
  <2>1. callbacks # <<>> /\ ~Called("on_close") /\ Called("on_open")
    BY <1>3, Unheard DEF OnRead, Heard, Life
  <2>2. CASE callbacks' = Append(callbacks, "on_message")
    <3>1. reader' = reader /\ UNCHANGED <<held, sends>>
      BY <1>3, <2>2, <1>len, AppendProperties DEF OnRead, TypeOK, Callback
    <3>2. \A d : Called(d)' <=> Called(d) \/ d = "on_message"
      BY <2>2, CalledAfter DEF Callback
    <3>3. /\ Len(callbacks') = Len(callbacks) + 1
          /\ \A i \in 1 .. Len(callbacks) : callbacks'[i] = callbacks[i]
          /\ callbacks'[Len(callbacks) + 1] = "on_message"
      BY <2>2, AppendProperties DEF TypeOK, Callback
    <3>4. Life'
      BY <1>3, <2>1, <3>1, <3>2, <3>3, <1>len, EmptySeq DEF OnRead, Heard, Life
    <3>5. CallbacksInOrder'
      BY <2>1, <3>3, <1>len DEF Heard, CallbacksInOrder, Called
    <3> QED BY <3>4, <3>5 DEF Heard
  <2>3. CASE UNCHANGED callbacks /\ reader' = "ended"
    BY <1>3, <1>quiet, <2>1, <2>3 DEF OnRead
  <2> QED BY <1>3, <2>2, <2>3 DEF OnRead
<1>4. CASE Lock
  <2>1. ~Called("on_close")
    BY <1>4, <1>len DEF Lock, Heard, Life, CallbacksInOrder, Called
  <2> QED BY <1>4, <1>quiet, <2>1 DEF Lock
<1>5. CASE Send
  <2>1. Called("on_open") /\ ~Called("on_close")
    BY <1>5, <1>len DEF Send, Heard, Life, CallbacksInOrder, Called, Alive
  <2> QED BY <1>5, <1>quiet, <2>1 DEF Send
<1>6. CASE Unlock
  <2>1. Alive' => Alive
    BY <1>6 DEF Unlock, Alive, outgoing
  <2> QED BY <1>6, <1>quiet, <2>1 DEF Unlock, Heard, Life
<1>7. CASE OnSend \/ OnWrite \/ OnWriteError
  <2>1. ~Called("on_close")
    BY <1>7, <1>len DEF OnSend, OnWrite, OnWriteError, Heard, CallbacksInOrder, Called, Alive
  <2> QED BY <1>7, <1>quiet, <2>1 DEF OnSend, OnWrite, OnWriteError, Heard, Life
<1>8. CASE Destroy
  <2>1. /\ Len(callbacks') = Len(callbacks) + 1
        /\ \A i \in 1 .. Len(callbacks) : callbacks'[i] = callbacks[i]
        /\ callbacks'[Len(callbacks) + 1] = "on_close"
    BY <1>8, AppendProperties DEF Destroy, TypeOK, Callback
  <2>2. \A d : Called(d)' <=> Called(d) \/ d = "on_close"
    BY <1>8, CalledAfter DEF Destroy, Callback
  <2>3. ~Alive' /\ reader' = "ended"
    BY <1>8 DEF Destroy, Alive, outgoing, TypeOK
  <2>4. Life'
    BY <1>8, <2>2, <2>3 DEF Destroy, Heard, Life
  <2>5. CallbacksInOrder'
    BY <1>8, <2>1, <2>3, <1>len DEF Destroy, Heard, CallbacksInOrder, Called
  <2> QED BY <2>4, <2>5 DEF Heard
<1>9. CASE UNCHANGED vars
  BY <1>9, <1>quiet DEF vars, Heard, Life, Alive
<1> QED BY <1>1, <1>2, <1>3, <1>4, <1>5, <1>6, <1>7, <1>8, <1>9 DEF Next

\* A dead socket has nothing left to send, unless a write failed: it starts so ...
LEMMA InitDrops == Init => DropsOnlyWhenBroken
BY DEF Init, DropsOnlyWhenBroken, Called

\* ... and dies so.
LEMMA DropsKept ==
  TypeOK /\ Pipeline /\ Heard /\ DropsOnlyWhenBroken /\ [Next]_vars => DropsOnlyWhenBroken'
<1> SUFFICES ASSUME TypeOK, Pipeline, Heard, DropsOnlyWhenBroken, [Next]_vars,
                    Called("on_close")', ~broken'
             PROVE  wbuffer' \o posted' = <<>>
  BY DEF DropsOnlyWhenBroken
<1>1. CASE Destroy
  <2>1. posted = <<>> /\ wbuffer = <<>>
    BY <1>1 DEF Destroy, Alive, Pipeline, outgoing
  <2> QED BY <1>1, <2>1 DEF Destroy, outgoing
<1>2. CASE ~Destroy
  <2>1. Called("on_close")
    <3>1. CASE callbacks' = callbacks
      BY <3>1 DEF Called
    <3>2. CASE callbacks' # callbacks
      <4>1. PICK c \in {"on_open", "on_message"} : callbacks' = Append(callbacks, c)
        BY <1>2, <3>2
        DEF Next, Open, OnAccept, OnRead, Lock, Send, Unlock, OnSend, OnWrite, OnWriteError, vars
      <4> QED BY <4>1, CalledAfter DEF Callback
    <3> QED BY <3>1, <3>2
  <2>2. ~Alive /\ reader = "ended"
    BY <2>1 DEF Heard, Life, CallbacksInOrder, Called
  <2>3. UNCHANGED <<wbuffer, posted, broken>>
    BY <1>2, <2>2
    DEF Next, Open, OnAccept, OnRead, Lock, Send, Unlock, OnSend, OnWrite, OnWriteError,
        Alive, outgoing, vars
  <2> QED BY <2>1, <2>3 DEF DropsOnlyWhenBroken
<1> QED BY <1>1, <1>2

-----------------------------------------------------------------------------
(* The theorems                                                            *)

\* Everything the socket keeps, together.
IInv == TypeOK /\ Pipeline /\ SentInOrder /\ Heard /\ DropsOnlyWhenBroken

\* Every action keeps every part of it.
LEMMA Invariance == SafeSpec => []IInv
<1>1. Init => IInv
  BY InitTypes, InitPipeline, InitOrder, InitHeard, InitDrops DEF IInv
<1>2. IInv /\ [Next]_vars => IInv'
  BY TypesKept, PipelineKept, OrderKept, HeardKept, DropsKept DEF IInv
<1> QED BY <1>1, <1>2, PTL DEF SafeSpec

\* The socket's queues, flags and callbacks keep their types.
THEOREM TypeCorrect == SafeSpec => []TypeOK
<1>1. IInv => TypeOK
  BY DEF IInv
<1> QED BY <1>1, Invariance, PTL

\* on_send and on_write never start a second write on the stream, and the
\* write queue owns what is being written (socket.cpp:103-132).
THEOREM OneWriteAtATime == SafeSpec => []OneWrite
<1>1. IInv => OneWrite
  BY DEF IInv, Pipeline
<1> QED BY <1>1, Invariance, PTL

\* What the game thread sends reaches the wire in order and without gaps, for
\* any number of sends (socket.cpp:49-53, 103-132).
THEOREM InOrder == SafeSpec => []SentInOrder
<1>1. IInv => SentInOrder
  BY DEF IInv
<1> QED BY <1>1, Invariance, PTL

\* No queued message is left without a write under way (socket.cpp:126-131).
THEOREM NeverLeft == SafeSpec => []NeverStarved
<1>1. IInv => NeverStarved
  BY DEF IInv, Pipeline, NeverStarved
<1> QED BY <1>1, Invariance, PTL

\* A socket that dies with data unsent has had a write fail (socket.cpp:119-120).
THEOREM DropsNothing == SafeSpec => []DropsOnlyWhenBroken
<1>1. IInv => DropsOnlyWhenBroken
  BY DEF IInv
<1> QED BY <1>1, Invariance, PTL

\* The handler hears of a socket in order, and of its close once and last
\* (socket.cpp:23, 70, 96).
THEOREM Callbacks == SafeSpec => []CallbacksInOrder
<1>1. IInv => CallbacksInOrder
  BY DEF IInv, Heard
<1> QED BY <1>1, Invariance, PTL

-----------------------------------------------------------------------------
(* The contract                                                            *)

\* How far the contract takes the socket to be.
Phase == IF Called("on_close") THEN "closed"
         ELSE IF Called("on_open") THEN "open" ELSE "fresh"

\* What it takes to be on its way.
Outgoing == IF Called("on_close") THEN <<>> ELSE wbuffer \o posted

\* A socket that is open for the contract: until it dies it has an on_open if
\* it has anything to send.
LEMMA OpenWhileSending ==
  ASSUME IInv, held \/ posted # <<>> \/ writes # <<>>
  PROVE  Phase = "open" /\ Outgoing = wbuffer \o posted
<1>1. ~Called("on_close")
  BY LenProperties DEF IInv, TypeOK, Heard, CallbacksInOrder, Called, Alive
<1>2. Called("on_open")
  <2>1. SUFFICES ASSUME ~Called("on_open") PROVE FALSE
    OBVIOUS
  <2>2. ~held /\ sends = 0
    BY <2>1 DEF IInv, Heard, Life
  <2>3. Len((wire \o wbuffer) \o posted) = 0
    BY <2>2 DEF IInv, SentInOrder
  <2>4. posted = <<>> /\ wbuffer = <<>>
    BY <2>3, ConcatProperties, LenProperties, EmptySeq DEF IInv, TypeOK
  <2>5. writes = <<>>
    BY <2>4 DEF IInv, Pipeline, OneWrite
  <2> QED BY <2>2, <2>4, <2>5
<1> QED BY <1>1, <1>2 DEF Phase, Outgoing

\* A step of the socket is one of the contract, or none.
LEMMA NextContract == IInv /\ [Next]_vars => [Contract!Next]_Contract!vars
<1> SUFFICES ASSUME IInv, [Next]_vars
             PROVE  Contract!Next \/ UNCHANGED <<Phase, Outgoing, wire>>
  BY DEF Contract!vars, Phase, Outgoing
<1> USE DEF IInv, TypeOK
\* A step that calls nobody and moves no message.
<1>quiet. ASSUME UNCHANGED <<callbacks, wire>>, wbuffer' \o posted' = wbuffer \o posted
          PROVE  UNCHANGED <<Phase, Outgoing, wire>>
  BY <1>quiet DEF Phase, Outgoing, Called
<1>1. CASE Open \/ Lock \/ Unlock \/ OnWriteError \/ UNCHANGED vars
  BY <1>1, <1>quiet DEF Open, Lock, Unlock, OnWriteError, outgoing, vars
<1>2. CASE OnAccept
  <2>1. callbacks = <<>>
    BY <1>2 DEF OnAccept, Heard, Life
  <2>2. CASE callbacks' = Append(callbacks, "on_open")
    <3>1. \A d : Called(d)' <=> Called(d) \/ d = "on_open"
      BY <2>2, CalledAfter DEF Callback
    <3>2. ~Called("on_open") /\ ~Called("on_close")
      BY <2>1 DEF Called
    <3>3. Contract!Opened
      BY <1>2, <3>1, <3>2 DEF OnAccept, outgoing, Contract!Opened
    <3> QED BY <3>3 DEF Contract!Next
  <2>3. CASE UNCHANGED callbacks
    BY <1>2, <1>quiet, <2>3 DEF OnAccept, outgoing
  <2> QED BY <1>2, <2>2, <2>3 DEF OnAccept
<1>3. CASE OnRead
  <2>1. CASE callbacks' = Append(callbacks, "on_message")
    <3>1. \A d : Called(d)' <=> Called(d) \/ d = "on_message"
      BY <2>1, CalledAfter DEF Callback
    <3> QED BY <1>3, <3>1 DEF OnRead, outgoing, Phase, Outgoing
  <2>2. CASE UNCHANGED callbacks
    BY <1>3, <1>quiet, <2>2 DEF OnRead, outgoing
  <2> QED BY <1>3, <2>1, <2>2 DEF OnRead
<1>4. CASE Send
  <2>1. Phase = "open" /\ Outgoing = wbuffer \o posted
    BY <1>4, OpenWhileSending DEF Send
  <2>2. Phase' = Phase /\ Outgoing' = wbuffer \o Append(posted, sends + 1)
    BY <1>4, <2>1 DEF Send, Phase, Outgoing, Called
  <2>3. sends + 1 \in Message
    BY <1>4, BoundsAssumption DEF Send, Message
  <2>4. Cat(wbuffer, Append(posted, sends + 1)) = Append(Cat(wbuffer, posted), sends + 1)
    <3>1. \A e \in Message : Cat(wbuffer, Append(posted, e)) = Append(Cat(wbuffer, posted), e)
      BY CatAppend
    <3> QED BY <2>3, <3>1
  <2>5. Outgoing' = Append(Outgoing, sends + 1)
    BY <2>1, <2>2, <2>4 DEF Cat
  <2>6. Contract!Send
    BY <1>4, <2>1, <2>2, <2>3, <2>5 DEF Send, Contract!Send, Phase, Outgoing
  <2> QED BY <2>6 DEF Contract!Next
<1>5. CASE OnSend
  <2>1. Cat(Append(wbuffer, Head(posted)), Tail(posted)) = Cat(wbuffer, posted)
    BY <1>5, HandOver DEF OnSend
  <2> QED BY <1>5, <1>quiet, <2>1 DEF OnSend, Cat
<1>6. CASE OnWrite
  <2>1. Phase = "open" /\ Outgoing = wbuffer \o posted
    BY <1>6, OpenWhileSending DEF OnWrite
  <2>2. Phase' = Phase /\ Outgoing' = Tail(wbuffer) \o posted
    BY <1>6, <2>1 DEF OnWrite, Phase, Outgoing, Called
  <2>3. wbuffer # <<>> /\ Head(writes) = Head(wbuffer)
    BY <1>6 DEF OnWrite, Pipeline, OneWrite
  <2>4. /\ Outgoing # <<>> /\ Head(Outgoing) = Head(wbuffer)
        /\ Tail(Outgoing) = Tail(wbuffer) \o posted
    BY <2>1, <2>3, SMT
  <2>5. Contract!Deliver
    BY <1>6, <2>1, <2>2, <2>3, <2>4 DEF OnWrite, Contract!Deliver, Phase, Outgoing
  <2> QED BY <2>5 DEF Contract!Next
<1>7. CASE Destroy
  <2>1. \A d : Called(d)' <=> Called(d) \/ d = "on_close"
    BY <1>7, CalledAfter DEF Destroy, Callback
  <2>2. Contract!Closed
    BY <1>7, <2>1 DEF Destroy, outgoing, Contract!Closed
  <2> QED BY <2>2 DEF Contract!Next
<1> QED BY <1>1, <1>2, <1>3, <1>4, <1>5, <1>6, <1>7 DEF Next

\* The class keeps what its handler and whoever sends through it rely on.
THEOREM Refinement == SafeSpec => ImplementsContract
<1>1. Init => Contract!Init
  <2> SUFFICES ASSUME Init PROVE Contract!Init
    OBVIOUS
  <2>1. ~Called("on_open") /\ ~Called("on_close")
    BY DEF Init, Called
  <2> QED BY <2>1 DEF Init, Contract!Init
<1> QED BY <1>1, NextContract, Invariance, PTL DEF SafeSpec, ImplementsContract, Contract!Spec
=============================================================================
