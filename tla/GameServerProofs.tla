-------------------------- MODULE GameServerProofs --------------------------
(***************************************************************************)
(* For any set of clients: no session outlives its client unnoticed, no    *)
(* client is thrown out while connected, map, registry and STATE agree,    *)
(* and the server takes no step that Presence does not allow.              *)
(*                                                                         *)
(* The inductive invariant follows a socket through its life.  A socket is *)
(* known to the game thread only from on_open on; it is in use until its   *)
(* destructor starts and never again after; and a session whose socket is  *)
(* not in use has its close event ahead of it, in the destructor or in the *)
(* queue.                                                                  *)
(*                                                                         *)
(* For any number of messages: each waits, is handled or is lost, once, in *)
(* its sender's order, and lost only for a reason of its sender's making.  *)
(* That follows because the numbers of a client's messages grow along the  *)
(* queue, above all that left it.                                          *)
(***************************************************************************)
EXTENDS GameServer, Recursion, SequenceTheorems, TLAPS

\* A socket the game has not heard of is not in any of its structures.
NotYetOpen ==
  \A s \in Socket : link[s] \in {"unused", "handshake"} =>
    /\ entity[s] = "none"
    /\ s \notin Range(opens) /\ s \notin Range(batch)
    /\ s \notin closes /\ \A t \in Thread : dying[t] # s

\* The game refers to a socket only from joining on.
NoRefBeforeJoin ==
  \A s \in Socket : entity[s] \in {"none", "bare"} => ~sending[s] /\ held # s

\* A socket that is being destroyed, or was, is not in use.
DeadStaysDead ==
  /\ \A t \in Thread : dying[t] # None => ~Alive(dying[t])
  /\ \A s \in closes : ~Alive(s)

\* on_close runs inside the destructor.
HalfInDestructor == \A t \in Thread : half[t] => dying[t] # None

\* The game thread destroys a socket only after letting go of it.
HoldsOrDestroys == held # None => dying["game"] = None

\* The event that ends a session whose socket is dead is still to come.
CloseAhead ==
  \A s \in Socket : entity[s] = "joined" /\ ~Alive(s)
    => s \in closes \/ \E t \in Thread : dying[t] = s /\ ~half[t]

\* A connection is posted once, and its entity is created when it is drawn.
NoDup(q) == \A i, j \in 1 .. Len(q) : q[i] = q[j] => i = j

OpensOnce ==
  /\ NoDup(opens) /\ NoDup(batch)
  /\ \A s \in Range(opens) : entity[s] = "none"
  /\ \A s \in Range(batch) : entity[s] = "bare"

Joining == stage = "joining" <=> batch # <<>>

\* The sessions left to sync, and the entities to destroy.
Lists ==
  /\ \A s \in todo : HasSession(s)
  /\ condemned = {s \in Socket : entity[s] = "doomed"}

IInv ==
  /\ SessionTypeOK
  /\ NotYetOpen /\ NoRefBeforeJoin
  /\ DeadStaysDead /\ HalfInDestructor /\ HoldsOrDestroys
  /\ CloseAhead /\ NoPhantomKick
  /\ OpensOnce /\ Joining /\ Lists /\ ZoneIsJoined

-----------------------------------------------------------------------------
(* Sequences without repetition                                            *)

\* An element more.
LEMMA RangeAppend ==
  ASSUME NEW S, NEW q \in Seq(S), NEW e \in S
  PROVE  Range(Append(q, e)) = Range(q) \cup {e}
BY AppendProperties DEF Range

\* One element and no other.
LEMMA TailEmpty ==
  ASSUME NEW S, NEW q \in Seq(S), q # <<>>
  PROVE  Tail(q) = <<>> <=> Len(q) = 1
<1>1. Tail(q) \in Seq(S) /\ Len(Tail(q)) = Len(q) - 1 /\ Len(q) \in Nat
  BY HeadTailProperties, LenProperties
<1>2. CASE Tail(q) = <<>>
  <2>1. Len(Tail(q)) = 0
    BY <1>2, EmptySeq, Zenon
  <2> QED BY <1>1, <1>2, <2>1
<1>3. CASE Tail(q) # <<>>
  <2>1. Len(Tail(q)) \in Nat \ {0}
    BY <1>1, <1>3, EmptySeq, Zenon
  <2> QED BY <1>1, <1>3, <2>1
<1> QED BY <1>2, <1>3

\* A sequence's elements are its first and those behind it.
LEMMA RangeTail ==
  ASSUME NEW S, NEW q \in Seq(S), q # <<>>
  PROVE  Range(q) = {Head(q)} \cup Range(Tail(q))
<1>1. /\ Len(q) \in Nat \ {0} /\ Head(q) = q[1] /\ DOMAIN q = 1 .. Len(q)
      /\ DOMAIN Tail(q) = 1 .. Len(q) - 1
      /\ \A i \in 1 .. Len(q) - 1 : Tail(q)[i] = q[i + 1]
  BY HeadTailProperties
<1>2. ASSUME NEW x \in Range(q) PROVE x = Head(q) \/ x \in Range(Tail(q))
  <2>1. PICK i \in 1 .. Len(q) : x = q[i]
    BY <1>1 DEF Range
  <2>2. CASE i = 1
    BY <1>1, <2>1, <2>2
  <2>3. CASE i # 1
    <3>1. i - 1 \in DOMAIN Tail(q) /\ Tail(q)[i - 1] = x
      BY <1>1, <2>1, <2>3
    <3> QED BY <3>1, Zenon DEF Range
  <2> QED BY <2>2, <2>3
<1>3. ASSUME NEW x \in Range(Tail(q)) PROVE x \in Range(q)
  BY <1>1 DEF Range
<1>4. Head(q) \in Range(q)
  BY <1>1 DEF Range
<1> QED BY <1>2, <1>3, <1>4

\* Appending a new element repeats none, ...
LEMMA NoDupAppend ==
  ASSUME NEW S, NEW q \in Seq(S), NEW e \in S, NoDup(q), e \notin Range(q)
  PROVE  NoDup(Append(q, e))
BY AppendProperties DEF Range, NoDup

\* ... and neither does taking the first away, which is then gone.
LEMMA NoDupTail ==
  ASSUME NEW S, NEW q \in Seq(S), q # <<>>, NoDup(q)
  PROVE  NoDup(Tail(q)) /\ Head(q) \notin Range(Tail(q))
BY HeadTailProperties DEF Range, NoDup

-----------------------------------------------------------------------------
(* The inductive invariant                                                 *)

\* It holds when the server starts.
LEMMA InitIInv == Init => IInv
<1> SUFFICES ASSUME Init PROVE IInv
  OBVIOUS
<1>1. SessionTypeOK
  BY NoneAssumption DEF Init, SessionTypeOK, Thread
<1>2. NotYetOpen
  BY NoneAssumption DEF Init, NotYetOpen, Range
<1>3. NoRefBeforeJoin
  BY NoneAssumption DEF Init, NoRefBeforeJoin
<1>4. DeadStaysDead
  BY NoneAssumption DEF Init, DeadStaysDead
<1>5. HalfInDestructor
  BY NoneAssumption DEF Init, HalfInDestructor
<1>6. HoldsOrDestroys
  BY NoneAssumption DEF Init, HoldsOrDestroys
<1>7. CloseAhead
  BY NoneAssumption DEF Init, CloseAhead
<1>8. NoPhantomKick
  BY NoneAssumption DEF Init, NoPhantomKick
<1>9. OpensOnce
  BY NoneAssumption DEF Init, OpensOnce, NoDup, Range
<1>10. Joining
  BY NoneAssumption DEF Init, Joining
<1>11. Lists
  BY NoneAssumption DEF Init, Lists, HasSession
<1>12. ZoneIsJoined
  BY NoneAssumption DEF Init, ZoneIsJoined
<1> QED BY <1>1, <1>2, <1>3, <1>4, <1>5, <1>6, <1>7, <1>8, <1>9, <1>10, <1>11, <1>12 DEF IInv

\* Every step keeps the invariant: for each action, the parts it disturbs one
\* by one, and the rest together.
LEMMA NextIInv == IInv /\ [Next]_vars => IInv'
<1> SUFFICES ASSUME IInv, [Next]_vars PROVE IInv'
  OBVIOUS
<1>1. ASSUME NEW s \in Socket, Connect(s) PROVE IInv'
  <2>1. SessionTypeOK'
    BY <1>1 DEF Connect, IInv, queues, game, world, SessionTypeOK
  <2>2. NotYetOpen'
    BY <1>1 DEF Connect, IInv, queues, game, world, NotYetOpen
  <2>3. DeadStaysDead'
    BY <1>1
       DEF Connect, IInv, queues, Pending, Alive, DeadStaysDead, NotYetOpen
  <2>4. CloseAhead'
    BY <1>1 DEF Connect, IInv, queues, world, Pending, Alive, CloseAhead
  <2>5. NoPhantomKick'
    BY <1>1
       DEF Connect, IInv, world, Pending, Alive, NoPhantomKick, NotYetOpen
  <2>6. NoRefBeforeJoin' /\ HalfInDestructor' /\ HoldsOrDestroys'
       /\ OpensOnce' /\ Joining' /\ Lists' /\ ZoneIsJoined'
    BY <1>1
       DEF Connect, IInv, NoRefBeforeJoin, HalfInDestructor, HoldsOrDestroys,
           OpensOnce, Joining, Lists, ZoneIsJoined, queues, game, world,
           HasSession
  <2> QED
    BY <2>1, <2>2, <2>3, <2>4, <2>5, <2>6 DEF IInv
<1>2. ASSUME NEW s \in Socket, HandshakeFails(s) PROVE IInv'
  <2>1. SessionTypeOK'
    BY <1>2
       DEF HandshakeFails, DropRef, IInv, queues, game, world, SessionTypeOK
  <2>2. NotYetOpen'
    BY <1>2
       DEF HandshakeFails, DropRef, IInv, queues, game, world, NotYetOpen,
           SessionTypeOK
  <2>3. DeadStaysDead'
    BY <1>2
       DEF HandshakeFails, DropRef, IInv, queues, Pending, Alive,
           DeadStaysDead, SessionTypeOK, NotYetOpen, NoRefBeforeJoin
  <2>4. HalfInDestructor'
    BY <1>2 DEF HandshakeFails, NetworkFree, DropRef, IInv, HalfInDestructor
  <2>5. HoldsOrDestroys'
    BY <1>2 DEF HandshakeFails, DropRef, IInv, HoldsOrDestroys
  <2>6. CloseAhead'
    BY <1>2, NoneAssumption
       DEF HandshakeFails, NetworkFree, DropRef, IInv, queues, world, Pending,
           Alive, CloseAhead, NotYetOpen
  <2>7. NoPhantomKick'
    BY <1>2 DEF HandshakeFails, IInv, world, Pending, Alive, NoPhantomKick
  <2>8. NoRefBeforeJoin' /\ OpensOnce' /\ Joining' /\ Lists' /\ ZoneIsJoined'
    BY <1>2
       DEF HandshakeFails, IInv, NoRefBeforeJoin, OpensOnce, Joining, Lists,
           ZoneIsJoined, queues, game, world, HasSession
  <2> QED
    BY <2>1, <2>2, <2>3, <2>4, <2>5, <2>6, <2>7, <2>8 DEF IInv
<1>3. ASSUME NEW s \in Socket, Open(s) PROVE IInv'
  <2>1. SessionTypeOK'
    BY <1>3 DEF Open, IInv, game, world, SessionTypeOK
  <2>2. NotYetOpen'
    BY <1>3, RangeAppend
       DEF Open, IInv, game, world, NotYetOpen, SessionTypeOK
  <2>3. DeadStaysDead'
    BY <1>3 DEF Open, IInv, Pending, Alive, DeadStaysDead
  <2>4. CloseAhead'
    BY <1>3 DEF Open, IInv, world, Pending, Alive, CloseAhead
  <2>5. NoPhantomKick'
    BY <1>3 DEF Open, IInv, world, Pending, Alive, NoPhantomKick
  <2>6. OpensOnce'
    BY <1>3, RangeAppend, NoDupAppend
       DEF Open, IInv, game, world, OpensOnce, SessionTypeOK, NotYetOpen
  <2>7. NoRefBeforeJoin' /\ HalfInDestructor' /\ HoldsOrDestroys' /\ Joining'
       /\ Lists' /\ ZoneIsJoined'
    BY <1>3
       DEF Open, IInv, NoRefBeforeJoin, HalfInDestructor, HoldsOrDestroys,
           Joining, Lists, ZoneIsJoined, game, world, HasSession
  <2> QED
    BY <2>1, <2>2, <2>3, <2>4, <2>5, <2>6, <2>7 DEF IInv
<1>4. ASSUME NEW s \in Socket, Receive(s) PROVE IInv'
  BY <1>4
     DEF Receive, IInv, SessionTypeOK, NotYetOpen, NoRefBeforeJoin,
         DeadStaysDead, HalfInDestructor, HoldsOrDestroys, CloseAhead,
         NoPhantomKick, OpensOnce, Joining, Lists, ZoneIsJoined, sockets,
         game, world, Alive, Pending, HasSession
<1>5. ASSUME NEW s \in Socket, ReadFails(s) PROVE IInv'
  <2>1. SessionTypeOK'
    BY <1>5 DEF ReadFails, DropRef, IInv, queues, game, world, SessionTypeOK
  <2>2. NotYetOpen'
    BY <1>5 DEF ReadFails, DropRef, IInv, queues, game, world, NotYetOpen
  <2>3. DeadStaysDead'
    BY <1>5
       DEF ReadFails, DropRef, IInv, queues, Pending, Alive, DeadStaysDead,
           SessionTypeOK
  <2>4. HalfInDestructor'
    BY <1>5 DEF ReadFails, NetworkFree, DropRef, IInv, HalfInDestructor
  <2>5. HoldsOrDestroys'
    BY <1>5 DEF ReadFails, DropRef, IInv, HoldsOrDestroys
  <2>6. CloseAhead'
    BY <1>5, NoneAssumption
       DEF ReadFails, NetworkFree, DropRef, IInv, queues, world, Pending,
           Alive, Thread, CloseAhead, SessionTypeOK, HalfInDestructor
  <2>7. NoPhantomKick'
    BY <1>5 DEF ReadFails, IInv, world, Pending, Alive, NoPhantomKick
  <2>8. NoRefBeforeJoin' /\ OpensOnce' /\ Joining' /\ Lists' /\ ZoneIsJoined'
    BY <1>5
       DEF ReadFails, IInv, NoRefBeforeJoin, OpensOnce, Joining, Lists,
           ZoneIsJoined, queues, game, world, HasSession
  <2> QED
    BY <2>1, <2>2, <2>3, <2>4, <2>5, <2>6, <2>7, <2>8 DEF IInv
<1>6. ASSUME NEW s \in Socket, SendsEnd(s) PROVE IInv'
  <2>1. SessionTypeOK'
    BY <1>6 DEF SendsEnd, DropRef, IInv, queues, game, world, SessionTypeOK
  <2>2. NotYetOpen'
    BY <1>6
       DEF SendsEnd, DropRef, IInv, queues, game, world, NotYetOpen,
           NoRefBeforeJoin
  <2>3. NoRefBeforeJoin'
    BY <1>6 DEF SendsEnd, IInv, world, NoRefBeforeJoin
  <2>4. DeadStaysDead'
    BY <1>6
       DEF SendsEnd, DropRef, IInv, queues, Pending, Alive, DeadStaysDead,
           SessionTypeOK
  <2>5. HalfInDestructor'
    BY <1>6 DEF SendsEnd, NetworkFree, DropRef, IInv, HalfInDestructor
  <2>6. HoldsOrDestroys'
    BY <1>6 DEF SendsEnd, DropRef, IInv, HoldsOrDestroys
  <2>7. CloseAhead'
    BY <1>6, NoneAssumption
       DEF SendsEnd, NetworkFree, DropRef, IInv, queues, world, Pending,
           Alive, Thread, CloseAhead, SessionTypeOK, HalfInDestructor
  <2>8. NoPhantomKick'
    BY <1>6 DEF SendsEnd, IInv, world, Pending, Alive, NoPhantomKick
  <2>9. OpensOnce' /\ Joining' /\ Lists' /\ ZoneIsJoined'
    BY <1>6
       DEF SendsEnd, IInv, OpensOnce, Joining, Lists, ZoneIsJoined, queues,
           game, world, HasSession
  <2> QED
    BY <2>1, <2>2, <2>3, <2>4, <2>5, <2>6, <2>7, <2>8, <2>9 DEF IInv
<1>7. ASSUME NEW t \in Thread, EnqueueClose(t) PROVE IInv'
  <2>1. SessionTypeOK'
    BY <1>7 DEF EnqueueClose, IInv, game, world, SessionTypeOK
  <2>2. NotYetOpen'
    BY <1>7 DEF EnqueueClose, IInv, game, world, NotYetOpen
  <2>3. DeadStaysDead'
    BY <1>7 DEF EnqueueClose, IInv, Pending, Alive, DeadStaysDead
  <2>4. HalfInDestructor'
    BY <1>7 DEF EnqueueClose, IInv, HalfInDestructor
  <2>5. CloseAhead'
    BY <1>7 DEF EnqueueClose, IInv, world, Pending, Alive, CloseAhead
  <2>6. NoRefBeforeJoin' /\ HoldsOrDestroys' /\ NoPhantomKick' /\ OpensOnce'
       /\ Joining' /\ Lists' /\ ZoneIsJoined'
    BY <1>7
       DEF EnqueueClose, IInv, NoRefBeforeJoin, HoldsOrDestroys,
           NoPhantomKick, OpensOnce, Joining, Lists, ZoneIsJoined, game,
           world, Alive, Pending, HasSession
  <2> QED
    BY <2>1, <2>2, <2>3, <2>4, <2>5, <2>6 DEF IInv
<1>8. ASSUME NEW t \in Thread, CountClose(t) PROVE IInv'
  <2>1. SessionTypeOK'
    BY <1>8 DEF CountClose, IInv, queues, game, world, SessionTypeOK
  <2>2. NotYetOpen'
    BY <1>8, NoneAssumption
       DEF CountClose, IInv, queues, game, world, NotYetOpen
  <2>3. DeadStaysDead'
    BY <1>8 DEF CountClose, IInv, queues, Pending, Alive, DeadStaysDead
  <2>4. HalfInDestructor'
    BY <1>8 DEF CountClose, IInv, HalfInDestructor, SessionTypeOK
  <2>5. HoldsOrDestroys'
    BY <1>8 DEF CountClose, IInv, HoldsOrDestroys
  <2>6. CloseAhead'
    BY <1>8 DEF CountClose, IInv, queues, world, Pending, Alive, CloseAhead
  <2>7. NoRefBeforeJoin' /\ NoPhantomKick' /\ OpensOnce' /\ Joining' /\ Lists'
       /\ ZoneIsJoined'
    BY <1>8
       DEF CountClose, IInv, NoRefBeforeJoin, NoPhantomKick, OpensOnce,
           Joining, Lists, ZoneIsJoined, queues, game, world, Alive, Pending,
           HasSession
  <2> QED
    BY <2>1, <2>2, <2>3, <2>4, <2>5, <2>6, <2>7 DEF IInv
<1>9. CASE TakeOpens
  <2>1. SessionTypeOK'
    BY <1>9 DEF TakeOpens, IInv, sockets, SessionTypeOK
  <2>2. NotYetOpen'
    BY <1>9 DEF TakeOpens, IInv, sockets, NotYetOpen, Range
  <2>3. NoRefBeforeJoin'
    BY <1>9 DEF TakeOpens, IInv, sockets, NoRefBeforeJoin, OpensOnce
  <2>4. CloseAhead'
    BY <1>9 DEF TakeOpens, IInv, sockets, Pending, Alive, CloseAhead
  <2>5. NoPhantomKick'
    BY <1>9 DEF TakeOpens, IInv, sockets, Pending, Alive, NoPhantomKick
  <2>6. OpensOnce'
    BY <1>9 DEF TakeOpens, IInv, OpensOnce, SessionTypeOK, Range, NoDup
  <2>7. Joining'
    BY <1>9 DEF TakeOpens, IInv, Joining
  <2>8. Lists'
    BY <1>9 DEF TakeOpens, IInv, HasSession, Lists, SessionTypeOK, OpensOnce
  <2>9. ZoneIsJoined'
    BY <1>9 DEF TakeOpens, IInv, ZoneIsJoined, OpensOnce
  <2>10. DeadStaysDead' /\ HalfInDestructor' /\ HoldsOrDestroys'
    BY <1>9
       DEF TakeOpens, IInv, DeadStaysDead, HalfInDestructor, HoldsOrDestroys,
           sockets, Alive, Pending
  <2> QED
    BY <2>1, <2>2, <2>3, <2>4, <2>5, <2>6, <2>7, <2>8, <2>9, <2>10 DEF IInv
<1>10. CASE Join
  <2>1. SessionTypeOK'
    BY <1>10 DEF Join, IInv, queues, SessionTypeOK, Joining
  <2>2. NotYetOpen'
    BY <1>10, RangeTail
       DEF Join, IInv, queues, NotYetOpen, SessionTypeOK, Joining
  <2>3. NoRefBeforeJoin'
    BY <1>10 DEF Join, IInv, NoRefBeforeJoin, SessionTypeOK
  <2>4. DeadStaysDead'
    BY <1>10 DEF Join, IInv, queues, Pending, Alive, DeadStaysDead
  <2>5. HoldsOrDestroys'
    BY <1>10 DEF Join, GameFree, IInv, HoldsOrDestroys
  <2>6. CloseAhead'
    BY <1>10, NoneAssumption
       DEF Join, GameFree, IInv, queues, Pending, Alive, CloseAhead
  <2>7. NoPhantomKick'
    BY <1>10 DEF Join, IInv, Pending, Alive, NoPhantomKick
  <2>8. OpensOnce'
    BY <1>10, RangeTail, NoDupTail
       DEF Join, IInv, queues, OpensOnce, SessionTypeOK, Joining
  <2>9. Joining'
    BY <1>10, TailEmpty DEF IInv, SessionTypeOK, Joining, Join
  <2>10. Lists'
    BY <1>10 DEF Join, IInv, HasSession, Lists, NoPhantomKick
  <2>11. ZoneIsJoined'
    BY <1>10 DEF Join, IInv, ZoneIsJoined, SessionTypeOK, Joining
  <2>12. HalfInDestructor'
    BY <1>10 DEF Join, IInv, HalfInDestructor, queues
  <2> QED
    BY <2>1, <2>2, <2>3, <2>4, <2>5, <2>6, <2>7, <2>8, <2>9, <2>10, <2>11,
       <2>12
       DEF IInv
<1>11. CASE Abandon
  <2>1. SessionTypeOK'
    BY <1>11 DEF Abandon, IInv, sockets, queues, world, SessionTypeOK
  <2>2. NotYetOpen'
    BY <1>11 DEF Abandon, IInv, sockets, queues, world, NotYetOpen, Range
  <2>3. OpensOnce'
    BY <1>11 DEF Abandon, IInv, queues, world, OpensOnce, Range, NoDup
  <2>4. Joining'
    BY <1>11 DEF Abandon, IInv, Joining
  <2>5. NoRefBeforeJoin' /\ DeadStaysDead' /\ HalfInDestructor'
       /\ HoldsOrDestroys' /\ CloseAhead' /\ NoPhantomKick' /\ Lists'
       /\ ZoneIsJoined'
    BY <1>11
       DEF Abandon, IInv, NoRefBeforeJoin, DeadStaysDead, HalfInDestructor,
           HoldsOrDestroys, CloseAhead, NoPhantomKick, Lists, ZoneIsJoined,
           sockets, queues, world, Alive, Pending, HasSession
  <2> QED
    BY <2>1, <2>2, <2>3, <2>4, <2>5 DEF IInv
<1>12. CASE Release
  <2>1. SessionTypeOK'
    BY <1>12 DEF Release, DropRef, IInv, queues, game, world, SessionTypeOK
  <2>2. NotYetOpen'
    BY <1>12
       DEF Release, DropRef, IInv, queues, game, world, NotYetOpen,
           NoRefBeforeJoin
  <2>3. NoRefBeforeJoin'
    BY <1>12, NoneAssumption DEF Release, IInv, world, NoRefBeforeJoin
  <2>4. DeadStaysDead'
    BY <1>12, NoneAssumption
       DEF Release, DropRef, IInv, queues, Pending, Alive, DeadStaysDead,
           SessionTypeOK
  <2>5. HalfInDestructor'
    BY <1>12 DEF Release, DropRef, IInv, HalfInDestructor
  <2>6. HoldsOrDestroys'
    BY <1>12 DEF Release, IInv, HoldsOrDestroys
  <2>7. CloseAhead'
    BY <1>12
       DEF Release, DropRef, IInv, queues, world, Pending, Alive, Thread,
           CloseAhead, SessionTypeOK, HalfInDestructor, HoldsOrDestroys
  <2>8. NoPhantomKick'
    BY <1>12, NoneAssumption
       DEF Release, IInv, world, Pending, Alive, NoPhantomKick
  <2>9. OpensOnce' /\ Joining' /\ Lists' /\ ZoneIsJoined'
    BY <1>12
       DEF Release, IInv, OpensOnce, Joining, Lists, ZoneIsJoined, queues,
           game, world, HasSession
  <2> QED
    BY <2>1, <2>2, <2>3, <2>4, <2>5, <2>6, <2>7, <2>8, <2>9 DEF IInv
<1>13. CASE HandleMessages
  <2>1. SessionTypeOK'
    BY <1>13 DEF HandleMessages, IInv, sockets, world, SessionTypeOK
  <2>2. Joining'
    BY <1>13 DEF HandleMessages, IInv, Joining
  <2>3. NotYetOpen' /\ NoRefBeforeJoin' /\ DeadStaysDead' /\ HalfInDestructor'
       /\ HoldsOrDestroys' /\ CloseAhead' /\ NoPhantomKick' /\ OpensOnce'
       /\ Lists' /\ ZoneIsJoined'
    BY <1>13
       DEF HandleMessages, IInv, NotYetOpen, NoRefBeforeJoin, DeadStaysDead,
           HalfInDestructor, HoldsOrDestroys, CloseAhead, NoPhantomKick,
           OpensOnce, Lists, ZoneIsJoined, sockets, world, Alive, Pending,
           HasSession
  <2> QED
    BY <2>1, <2>2, <2>3 DEF IInv
<1>14. CASE HandleDisconnections
  <2>1. SessionTypeOK'
    BY <1>14 DEF HandleDisconnections, IInv, sockets, SessionTypeOK
  <2>2. NotYetOpen'
    BY <1>14 DEF HandleDisconnections, IInv, sockets, NotYetOpen
  <2>3. NoRefBeforeJoin'
    BY <1>14 DEF HandleDisconnections, IInv, sockets, NoRefBeforeJoin
  <2>4. DeadStaysDead'
    BY <1>14
       DEF HandleDisconnections, IInv, sockets, Pending, Alive, DeadStaysDead
  <2>5. CloseAhead'
    BY <1>14
       DEF HandleDisconnections, IInv, sockets, Pending, Alive, HasSession,
           CloseAhead
  <2>6. NoPhantomKick'
    BY <1>14
       DEF HandleDisconnections, IInv, sockets, Pending, Alive, NoPhantomKick,
           DeadStaysDead
  <2>7. OpensOnce'
    <3>1. /\ opens' = opens /\ batch' = batch
          /\ \A s \in Socket : ~HasSession(s) => entity'[s] = entity[s]
      BY <1>14 DEF HandleDisconnections, IInv
    <3> QED
      BY <3>1 DEF IInv, SessionTypeOK, OpensOnce, HasSession, Range
  <2>8. Joining'
    BY <1>14 DEF HandleDisconnections, IInv, Joining
  <2>9. Lists'
    BY <1>14 DEF HandleDisconnections, IInv, HasSession, Lists, SessionTypeOK
  <2>10. ZoneIsJoined'
    BY <1>14 DEF HandleDisconnections, IInv, ZoneIsJoined
  <2>11. HalfInDestructor' /\ HoldsOrDestroys'
    BY <1>14
       DEF HandleDisconnections, IInv, HalfInDestructor, HoldsOrDestroys,
           sockets
  <2> QED
    BY <2>1, <2>2, <2>3, <2>4, <2>5, <2>6, <2>7, <2>8, <2>9, <2>10, <2>11
       DEF IInv
<1>15. ASSUME NEW s \in Socket, SendState(s) PROVE IInv'
  <2>1. SessionTypeOK'
    BY <1>15 DEF SendState, IInv, queues, world, SessionTypeOK
  <2>2. NoRefBeforeJoin'
    BY <1>15 DEF SendState, IInv, world, HasSession, NoRefBeforeJoin, Lists
  <2>3. DeadStaysDead'
    BY <1>15 DEF SendState, IInv, queues, Pending, Alive, DeadStaysDead
  <2>4. HoldsOrDestroys'
    BY <1>15 DEF SendState, GameFree, IInv, HoldsOrDestroys
  <2>5. CloseAhead'
    BY <1>15, NoneAssumption
       DEF SendState, GameFree, IInv, queues, world, Pending, Alive,
           CloseAhead
  <2>6. NoPhantomKick'
    BY <1>15 DEF SendState, IInv, world, Pending, Alive, NoPhantomKick
  <2>7. Lists'
    BY <1>15 DEF SendState, IInv, world, HasSession, Lists
  <2>8. NotYetOpen' /\ HalfInDestructor' /\ OpensOnce' /\ Joining'
       /\ ZoneIsJoined'
    BY <1>15
       DEF SendState, IInv, NotYetOpen, HalfInDestructor, OpensOnce, Joining,
           ZoneIsJoined, queues, world
  <2> QED
    BY <2>1, <2>2, <2>3, <2>4, <2>5, <2>6, <2>7, <2>8 DEF IInv
<1>16. ASSUME NEW s \in Socket, SkipState(s) PROVE IInv'
  <2>1. SessionTypeOK'
    BY <1>16 DEF SkipState, IInv, sockets, queues, world, SessionTypeOK
  <2>2. Lists'
    BY <1>16 DEF SkipState, IInv, world, HasSession, Lists
  <2>3. NotYetOpen' /\ NoRefBeforeJoin' /\ DeadStaysDead' /\ HalfInDestructor'
       /\ HoldsOrDestroys' /\ CloseAhead' /\ NoPhantomKick' /\ OpensOnce'
       /\ Joining' /\ ZoneIsJoined'
    BY <1>16
       DEF SkipState, IInv, NotYetOpen, NoRefBeforeJoin, DeadStaysDead,
           HalfInDestructor, HoldsOrDestroys, CloseAhead, NoPhantomKick,
           OpensOnce, Joining, ZoneIsJoined, sockets, queues, world, Alive,
           Pending
  <2> QED
    BY <2>1, <2>2, <2>3 DEF IInv
<1>17. CASE DestroyQueued
  <2>1. SessionTypeOK'
    BY <1>17 DEF DestroyQueued, IInv, sockets, queues, SessionTypeOK
  <2>2. NotYetOpen'
    BY <1>17 DEF DestroyQueued, IInv, sockets, queues, NotYetOpen, Lists
  <2>3. NoRefBeforeJoin'
    BY <1>17 DEF DestroyQueued, IInv, sockets, NoRefBeforeJoin
  <2>4. CloseAhead'
    BY <1>17
       DEF DestroyQueued, IInv, sockets, queues, Pending, Alive, CloseAhead
  <2>5. NoPhantomKick'
    BY <1>17
       DEF DestroyQueued, IInv, sockets, Pending, Alive, NoPhantomKick, Lists
  <2>6. OpensOnce'
    BY <1>17
       DEF IInv, queues, DestroyQueued, OpensOnce, Lists, SessionTypeOK, Range
  <2>7. Joining'
    BY <1>17 DEF DestroyQueued, IInv, Joining
  <2>8. Lists'
    BY <1>17 DEF DestroyQueued, IInv, Lists
  <2>9. ZoneIsJoined'
    BY <1>17 DEF DestroyQueued, IInv, ZoneIsJoined, Lists
  <2>10. DeadStaysDead' /\ HalfInDestructor' /\ HoldsOrDestroys'
    BY <1>17
       DEF DestroyQueued, IInv, DeadStaysDead, HalfInDestructor,
           HoldsOrDestroys, sockets, queues, Alive, Pending
  <2> QED
    BY <2>1, <2>2, <2>3, <2>4, <2>5, <2>6, <2>7, <2>8, <2>9, <2>10 DEF IInv
<1>18. CASE UNCHANGED vars
  BY <1>18
     DEF vars, sockets, queues, game, world, IInv, SessionTypeOK, NotYetOpen,
         NoRefBeforeJoin, DeadStaysDead, HalfInDestructor, HoldsOrDestroys,
         CloseAhead, NoPhantomKick, OpensOnce, Joining, Lists, ZoneIsJoined,
         Alive, Pending, HasSession
<1> QED
  BY <1>1, <1>2, <1>3, <1>4, <1>5, <1>6, <1>7, <1>8, <1>9, <1>10, <1>11,
     <1>12, <1>13, <1>14, <1>15, <1>16, <1>17, <1>18
     DEF Next, Callback, Destructor, Update

\* Every action keeps it.
LEMMA Invariance == SafeSpec => []IInv
BY InitIInv, NextIInv, PTL DEF SafeSpec

-----------------------------------------------------------------------------
(* The theorems on the life of a session                                   *)

\* Whatever the interleaving of the two threads, the variables of sockets,
\* queues, game loop and registry keep their types.
THEOREM SessionTypes == SafeSpec => []SessionTypeOK
<1>1. IInv => SessionTypeOK
  BY DEF IInv
<1> QED BY <1>1, Invariance, PTL

\* A session never outlives its socket unnoticed: the close event that ends it
\* is queued (on_close) or the destructor that posts it is running.
THEOREM NoGhosts == SafeSpec => []NoGhostSession
<1>1. IInv => NoGhostSession
  BY DEF IInv, CloseAhead, NoGhostSession
<1> QED BY <1>1, Invariance, PTL

\* handle_disconnections ends no session whose socket is still in use.
THEOREM NoKicks == SafeSpec => []NoPhantomKick
<1>1. IInv => NoPhantomKick
  BY DEF IInv
<1> QED BY <1>1, Invariance, PTL

\* The map lists the entities of the sessions that are in and no others: erase
\* always finds the entity it is given.
THEOREM MapAgrees == SafeSpec => []ZoneIsJoined
<1>1. IInv => ZoneIsJoined
  BY DEF IInv
<1> QED BY <1>1, Invariance, PTL

\* A client that sync::update still reaches is on the map it is sent.
THEOREM StateNames == SafeSpec => []StateNamesReceiver
<1>1. IInv => StateNamesReceiver
  BY DEF IInv, StateNamesReceiver, SessionTypeOK, NoPhantomKick, Lists,
         HasSession, ZoneIsJoined
<1> QED BY <1>1, Invariance, PTL

-----------------------------------------------------------------------------
(* The server implements Presence                                          *)

\* Where Presence takes a client's connection to be, ...
LEMMA LineAt ==
  ASSUME NEW s \in Socket
  PROVE  Line[s] = IF link[s] = "unused" THEN "new" ELSE IF Alive(s) THEN "up" ELSE "down"
BY DEF Line

\* ... and where in the world the client.
LEMMA PlaceAt ==
  ASSUME NEW s \in Socket
  PROVE  Place[s] = IF s \in zone THEN "in"
                    ELSE IF entity[s] \in {"doomed", "gone"} THEN "left" ELSE "out"
BY DEF Place

\* A step that leaves the references alone leaves the sockets as they are.
LEMMA LineUnchanged ==
  ASSUME UNCHANGED link, \A s \in Socket : Alive(s)' = Alive(s)
  PROVE  UNCHANGED Line
BY DEF Line

\* A socket that loses a reference is disconnected, unless another is left.
LEMMA LosesReference ==
  ASSUME NEW s \in Socket, link[s] # "unused", link'[s] # "unused", Alive(s),
         \A r \in Socket \ {s} : link'[r] = link[r] /\ Alive(r)' = Alive(r)
  PROVE  UNCHANGED Line \/ (Line[s] = "up" /\ Line' = [Line EXCEPT ![s] = "down"])
<1>1. CASE Alive(s)'
  BY <1>1 DEF Line
<1>2. CASE ~Alive(s)'
  BY <1>2 DEF Line
<1> QED BY <1>1, <1>2

\* A step that leaves the registry alone moves no client.
LEMMA PlaceUnchanged ==
  ASSUME UNCHANGED <<zone, entity>>
  PROVE  UNCHANGED Place
BY DEF Place

\* Every step of the server is a step of Presence, or none.
LEMMA NextPresence == IInv /\ [Next]_vars => [P!Next]_P!vars
<1> SUFFICES ASSUME IInv, [Next]_vars
             PROVE  P!Next \/ UNCHANGED <<Line, Place>>
  BY DEF P!vars
<1>1. ASSUME NEW s \in Socket, Connect(s)
      PROVE  P!Connect(s)
  <2>1. Line[s] = "new" /\ Line' = [Line EXCEPT ![s] = "up"]
    BY <1>1 DEF Connect, Line, Alive, Pending, IInv, SessionTypeOK
  <2> QED BY <1>1, <2>1, PlaceUnchanged DEF Connect, world, P!Connect
<1>2. ASSUME NEW s \in Socket, HandshakeFails(s) \/ ReadFails(s)
      PROVE  P!Disconnect(s) \/ UNCHANGED <<Line, Place>>
  <2>1. UNCHANGED Line \/ (Line[s] = "up" /\ Line' = [Line EXCEPT ![s] = "down"])
    BY <1>2, LosesReference DEF HandshakeFails, ReadFails, Alive, Pending, IInv, SessionTypeOK
  <2> QED BY <1>2, <2>1, PlaceUnchanged DEF HandshakeFails, ReadFails, world, P!Disconnect
<1>3. ASSUME NEW s \in Socket, SendsEnd(s)
      PROVE  P!Disconnect(s) \/ UNCHANGED <<Line, Place>>
  <2>1. link[s] # "unused"
    BY <1>3 DEF SendsEnd, IInv, NotYetOpen, NoRefBeforeJoin
  <2>2. UNCHANGED Line \/ (Line[s] = "up" /\ Line' = [Line EXCEPT ![s] = "down"])
    BY <1>3, <2>1, LosesReference DEF SendsEnd, Alive, Pending, IInv, SessionTypeOK
  <2> QED BY <1>3, <2>2, PlaceUnchanged DEF SendsEnd, world, P!Disconnect
<1>4. ASSUME NEW s \in Socket, Open(s)
      PROVE  UNCHANGED <<Line, Place>>
  <2>1. UNCHANGED Line
    BY <1>4 DEF Open, Line, Alive, Pending, IInv, SessionTypeOK
  <2> QED BY <1>4, <2>1, PlaceUnchanged DEF Open, world
<1>5. ASSUME NEW s \in Socket, Receive(s)
      PROVE  UNCHANGED <<Line, Place>>
  BY <1>5, LineUnchanged, PlaceUnchanged DEF Receive, Alive, Pending, sockets, world
<1>6. ASSUME NEW t \in Thread, Destructor(t)
      PROVE  UNCHANGED <<Line, Place>>
  BY <1>6, LineUnchanged, PlaceUnchanged
     DEF Destructor, EnqueueClose, CountClose, Alive, Pending, world
<1>7. CASE TakeOpens
  <2>1. UNCHANGED Line
    BY <1>7, LineUnchanged DEF TakeOpens, Alive, Pending, sockets
  <2>2. UNCHANGED Place
    BY <1>7 DEF TakeOpens, Place, IInv, SessionTypeOK, OpensOnce
  <2> QED BY <2>1, <2>2
<1>8. CASE Join
  <2> DEFINE s == Head(batch)
  <2>1. s \in Socket /\ s \in Range(batch)
    BY <1>8, RangeTail, HeadTailProperties DEF Join, IInv, SessionTypeOK, Joining
  <2>2. link[s] # "unused" /\ entity[s] = "bare" /\ s \notin zone
    BY <2>1 DEF IInv, NotYetOpen, OpensOnce, ZoneIsJoined
  <2>3. held = None /\ Alive(s) /\ link' = link /\ held' = s
        /\ sending' = [sending EXCEPT ![s] = TRUE]
    BY <1>8 DEF Join, GameFree
  <2>4. UNCHANGED Line
    BY <2>1, <2>3, LineUnchanged, NoneAssumption DEF Alive, Pending, IInv, SessionTypeOK
  <2>5. Line[s] = "up" /\ Place[s] = "out"
    BY <2>1, <2>2, <2>3, LineAt, PlaceAt
  <2>6. zone' = zone \cup {s} /\ entity' = [entity EXCEPT ![s] = "joined"]
    BY <1>8 DEF Join
  <2>7. Place' = [Place EXCEPT ![s] = "in"]
    BY <2>1, <2>6 DEF Place, IInv, SessionTypeOK
  <2>8. P!Enter(s)
    BY <2>4, <2>5, <2>7 DEF P!Enter
  <2> QED BY <2>1, <2>8 DEF P!Next
<1>9. CASE Abandon
  BY <1>9, LineUnchanged, PlaceUnchanged DEF Abandon, Alive, Pending, sockets, world
<1>10. CASE Release
  <2>1. held \in Socket /\ link[held] # "unused"
    BY <1>10 DEF Release, IInv, SessionTypeOK, NotYetOpen, NoRefBeforeJoin
  <2>2. UNCHANGED Line \/ (Line[held] = "up" /\ Line' = [Line EXCEPT ![held] = "down"])
    BY <1>10, <2>1, LosesReference, NoneAssumption DEF Release, Alive, Pending
  <2>3. P!Disconnect(held) \/ UNCHANGED <<Line, Place>>
    BY <1>10, <2>2, PlaceUnchanged DEF Release, world, P!Disconnect
  <2> QED BY <2>1, <2>3 DEF P!Next
<1>11. CASE HandleMessages
  BY <1>11, LineUnchanged, PlaceUnchanged DEF HandleMessages, Alive, Pending, sockets, world
<1>12. CASE HandleDisconnections
  <2>1. PICK ids \in SUBSET closes :
          LET leaving == {s \in ids : HasSession(s)} IN
            /\ zone' = zone \ leaving
            /\ entity' = [s \in Socket |-> IF s \in leaving THEN "doomed" ELSE entity[s]]
    BY <1>12 DEF HandleDisconnections
  <2> DEFINE S == {s \in ids : HasSession(s)} \cap zone
  <2>2. UNCHANGED Line
    BY <1>12, LineUnchanged DEF HandleDisconnections, Alive, Pending, sockets
  <2>3. S \in SUBSET Socket
    BY DEF IInv, SessionTypeOK
  <2>4. \A s \in S : Line[s] = "down" /\ Place[s] = "in"
    BY <2>3, LineAt, PlaceAt DEF IInv, SessionTypeOK, NotYetOpen, DeadStaysDead, HasSession
  <2>5. Place' = [s \in Socket |-> IF s \in S THEN "left" ELSE Place[s]]
    BY <2>1 DEF Place, HasSession, IInv, SessionTypeOK, ZoneIsJoined
  <2>6. CASE S = {}
    <3>1. Place' = Place
      BY <2>5, <2>6 DEF Place
    <3> QED BY <2>2, <3>1
  <2>7. CASE S # {}
    BY <2>2, <2>3, <2>4, <2>5, <2>7 DEF P!Next, P!Leave
  <2> QED BY <2>6, <2>7
<1>13. ASSUME NEW s \in Socket, SendState(s)
      PROVE  UNCHANGED <<Line, Place>>
  <2>1. UNCHANGED Line
    BY <1>13, LineUnchanged, NoneAssumption DEF SendState, GameFree, Alive, Pending, IInv, SessionTypeOK
  <2> QED BY <1>13, <2>1, PlaceUnchanged DEF SendState, world
<1>14. ASSUME NEW s \in Socket, SkipState(s)
      PROVE  UNCHANGED <<Line, Place>>
  BY <1>14, LineUnchanged, PlaceUnchanged DEF SkipState, Alive, Pending, sockets, world
<1>15. CASE DestroyQueued
  <2>1. UNCHANGED Line
    BY <1>15, LineUnchanged DEF DestroyQueued, Alive, Pending, sockets
  <2>2. UNCHANGED Place
    BY <1>15 DEF DestroyQueued, Place, IInv, SessionTypeOK, Lists
  <2> QED BY <2>1, <2>2
<1>16. CASE UNCHANGED vars
  BY <1>16, LineUnchanged, PlaceUnchanged DEF vars, Alive, Pending, sockets, world
<1> QED
  BY <1>1, <1>2, <1>3, <1>4, <1>5, <1>6, <1>7, <1>8, <1>9, <1>10, <1>11, <1>12,
     <1>13, <1>14, <1>15, <1>16
  DEF Next, Callback, Destructor, Update, P!Next

\* Every step of the server is one that Presence allows: a client enters the
\* world at most once, while connected, and leaves it only when it is dead.
THEOREM PresenceKept == SafeSpec => KeepsPresence
<1>1. Init => P!Init
  BY DEF Init, Line, Place, P!Init
<1> QED BY <1>1, NextPresence, Invariance, PTL DEF SafeSpec, KeepsPresence, P!SafeSpec

-----------------------------------------------------------------------------
(* Sequences put together                                                  *)

\* The elements of two sequences put together.
LEMMA RangeConcat ==
  ASSUME NEW S, NEW p \in Seq(S), NEW q \in Seq(S)
  PROVE  /\ p \o q \in Seq(S) /\ Len(p \o q) = Len(p) + Len(q)
         /\ \A i \in 1 .. Len(p) : (p \o q)[i] = p[i]
         /\ \A i \in Len(p) + 1 .. Len(p) + Len(q) : (p \o q)[i] = q[i - Len(p)]
         /\ Range(p \o q) = Range(p) \cup Range(q)
<1>1. Len(p) \in Nat /\ Len(q) \in Nat /\ DOMAIN p = 1 .. Len(p) /\ DOMAIN q = 1 .. Len(q)
  OBVIOUS
<1>2. /\ p \o q \in Seq(S) /\ Len(p \o q) = Len(p) + Len(q)
      /\ DOMAIN (p \o q) = 1 .. Len(p) + Len(q)
      /\ \A i \in 1 .. Len(p) + Len(q) : (p \o q)[i] = IF i <= Len(p) THEN p[i] ELSE q[i - Len(p)]
  BY ConcatProperties
<1> DEFINE c == p \o q
<1> HIDE DEF c
<1>3. \A i \in 1 .. Len(p) : i \in DOMAIN c /\ c[i] = p[i]
  BY <1>1, <1>2 DEF c
<1>4. \A i \in Len(p) + 1 .. Len(p) + Len(q) : c[i] = q[i - Len(p)] /\ i - Len(p) \in DOMAIN q
  BY <1>1, <1>2 DEF c
<1>5. \A i \in 1 .. Len(q) : i + Len(p) \in DOMAIN c /\ c[i + Len(p)] = q[i]
  <2> SUFFICES ASSUME NEW i \in 1 .. Len(q) PROVE i + Len(p) \in DOMAIN c /\ c[i + Len(p)] = q[i]
    OBVIOUS
  <2>1. i + Len(p) \in Len(p) + 1 .. Len(p) + Len(q) /\ (i + Len(p)) - Len(p) = i
    BY <1>1
  <2> QED BY <1>1, <1>2, <1>4, <2>1 DEF c
<1>6. \A i \in DOMAIN c : i \in 1 .. Len(p) \/ i \in Len(p) + 1 .. Len(p) + Len(q)
  BY <1>1, <1>2 DEF c
<1>7. Range(c) = Range(p) \cup Range(q)
  <2>1. Range(c) \subseteq Range(p) \cup Range(q)
    BY <1>1, <1>3, <1>4, <1>6 DEF Range
  <2>2. Range(p) \subseteq Range(c)
    BY <1>1, <1>3 DEF Range
  <2>3. Range(q) \subseteq Range(c)
    BY <1>1, <1>5 DEF Range
  <2> QED BY <2>1, <2>2, <2>3
<1> QED BY <1>2, <1>3, <1>4, <1>7 DEF c

\* A growing sequence with a growing one put behind it, all of whose elements are
\* greater, grows.
LEMMA GrowingConcat ==
  ASSUME NEW p \in Seq(Nat), NEW q \in Seq(Nat),
         \A i, j \in DOMAIN p : i < j => p[i] < p[j],
         \A i, j \in DOMAIN q : i < j => q[i] < q[j],
         \A m \in Range(p), n \in Range(q) : m < n
  PROVE  \A i, j \in DOMAIN (p \o q) : i < j => (p \o q)[i] < (p \o q)[j]
<1> DEFINE c == p \o q
<1>1. Len(p) \in Nat /\ Len(q) \in Nat /\ DOMAIN p = 1 .. Len(p) /\ DOMAIN q = 1 .. Len(q)
  OBVIOUS
<1>2. /\ c \in Seq(Nat) /\ Len(c) = Len(p) + Len(q) /\ DOMAIN c = 1 .. Len(p) + Len(q)
      /\ \A i \in 1 .. Len(p) : c[i] = p[i]
      /\ \A i \in Len(p) + 1 .. Len(p) + Len(q) : c[i] = q[i - Len(p)]
  BY RangeConcat
<1> HIDE DEF c
<1> SUFFICES ASSUME NEW i \in 1 .. Len(p) + Len(q), NEW j \in 1 .. Len(p) + Len(q), i < j
             PROVE  c[i] < c[j]
  BY <1>2 DEF c
<1>3. CASE i \in 1 .. Len(p) /\ j \in 1 .. Len(p)
  BY <1>1, <1>2, <1>3
<1>4. CASE i \in 1 .. Len(p) /\ j \in Len(p) + 1 .. Len(p) + Len(q)
  <2>1. p[i] \in Range(p)
    BY <1>1, <1>4 DEF Range
  <2>2. j - Len(p) \in DOMAIN q
    BY <1>1, <1>4
  <2>3. q[j - Len(p)] \in Range(q)
    BY <2>2 DEF Range
  <2> QED BY <1>2, <1>4, <2>1, <2>3
<1>5. CASE i \in Len(p) + 1 .. Len(p) + Len(q) /\ j \in Len(p) + 1 .. Len(p) + Len(q)
  <2>1. i - Len(p) \in DOMAIN q /\ j - Len(p) \in DOMAIN q /\ i - Len(p) < j - Len(p)
    BY <1>1, <1>5
  <2>2. q[i - Len(p)] < q[j - Len(p)]
    BY <2>1
  <2> QED BY <1>2, <1>5, <2>2
<1> QED BY <1>1, <1>3, <1>4, <1>5

-----------------------------------------------------------------------------
(* The loops over the messages                                             *)

\* What Among gives after i elements of q.
IsAmong(e, q, wanted, i) ==
  /\ Range(e) = {q[k] : k \in 1 .. i} \cap wanted
  /\ \A a, b \in 1 .. Len(e) : a < b =>
       \E k, l \in 1 .. i : k < l /\ e[a] = q[k] /\ e[b] = q[l]

\* Among is a loop over q, that has the run f.
AmongRun(f, q, wanted) ==
  /\ f[0] = <<>> /\ Among(q, wanted) = f[Len(q)]
  /\ \A i \in 1 .. Len(q) :
       f[i] = IF q[i] \in wanted THEN Append(f[i - 1], q[i]) ELSE f[i - 1]

\* There is such a run.
LEMMA AmongRuns ==
  ASSUME NEW S, NEW q \in Seq(S), NEW wanted
  PROVE  \E f \in [0 .. Len(q) -> Seq(S)] : AmongRun(f, q, wanted)
<1> DEFINE n == Len(q)
           M == Seq(S)
           step(g, i) == IF q[i] \in wanted THEN Append(g[i - 1], q[i]) ELSE g[i - 1]
           round == [p \in M \X (1 .. n) |->
                       IF q[p[2]] \in wanted THEN Append(p[1], q[p[2]]) ELSE p[1]]
           among == CHOOSE f : f = [i \in 0 .. n |-> IF i = 0 THEN <<>> ELSE step(f, i)]
<1>1. n \in Nat /\ <<>> \in M /\ \A i \in 1 .. n : q[i] \in S
  OBVIOUS
<1>2. \A e \in M, i \in 1 .. n : Append(e, q[i]) \in M
  BY <1>1
<1>3. round \in [M \X (1 .. n) -> M]
  <2>1. \A p \in M \X (1 .. n) : (IF q[p[2]] \in wanted THEN Append(p[1], q[p[2]]) ELSE p[1]) \in M
    BY <1>2
  <2> QED BY <2>1
<1>4. PICK f : RunOf(f, <<>>, round, n, M)
  <2>1. Rounds(round, n, M)
    BY <1>3 DEF Rounds
  <2> HIDE DEF n, round, among, M
  <2> QED BY <1>1, <2>1, LoopRuns
<1>5. f \in [0 .. n -> M] /\ f[0] = <<>> /\ \A i \in 1 .. n : f[i] = step(f, i)
  <2>1. f \in [0 .. n -> M] /\ f[0] = <<>>
    <3>1. f \in [0 .. n -> M] /\ 0 \in 0 .. n
      BY <1>1, <1>4 DEF RunOf
    <3>2. f[0] = IF 0 = 0 THEN <<>> ELSE round[<<f[0 - 1], 0>>]
      <4> HIDE DEF n, round, M
      <4> QED BY <3>1, <1>4 DEF RunOf
    <3> QED BY <3>1, <3>2
  <2>2. ASSUME NEW i \in 1 .. n PROVE f[i] = step(f, i)
    <3>1. i \in 0 .. n /\ i - 1 \in 0 .. n /\ i # 0
      BY <1>1
    <3>2. f[i] = round[<<f[i - 1], i>>] /\ f[i - 1] \in M
      <4> HIDE DEF round, M
      <4> QED BY <1>4, <3>1 DEF RunOf
    <3> QED BY <3>2
  <2> QED BY <2>1, <2>2
<1>6. f = [i \in 0 .. n |-> IF i = 0 THEN <<>> ELSE step(f, i)]
  <2> HIDE DEF M, n, round, step
  <2> QED BY <1>1, <1>5
<1>7. among = [i \in 0 .. n |-> IF i = 0 THEN <<>> ELSE step(among, i)]
  BY <1>6
<1>8. Among(q, wanted) = among[n]
  BY DEF Among
<1> HIDE DEF among
<1>9. among[0] = <<>> /\ \A i \in 1 .. n : among[i] = step(among, i)
  <2> HIDE DEF n, M, round, step
  <2> QED BY <1>1, <1>7
<1>10. among \in [0 .. n -> M]
  <2> DEFINE T == {i \in 0 .. n : among[i] = f[i]}
  <2>1. 0 \in T
    BY <1>1, <1>5, <1>9
  <2>2. ASSUME NEW i \in 1 .. n, i - 1 \in T PROVE i \in T
    BY <1>1, <1>5, <1>9, <2>2
  <2>3. 0 .. n \subseteq T
    <3> HIDE DEF T, n
    <3> QED BY <1>1, <2>1, <2>2, LoopInduction
  <2>4. \A i \in 0 .. n : among[i] \in M
    <3> HIDE DEF M
    <3> QED BY <1>5, <2>3
  <2> HIDE DEF n, M
  <2> QED BY <1>7, <2>4
<1>11. AmongRun(among, q, wanted)
  BY <1>8, <1>9 DEF AmongRun
<1> QED BY <1>10, <1>11

\* Among gives the wanted elements of q, in the order they have in q.
LEMMA AmongIs ==
  ASSUME NEW S, NEW q \in Seq(S), NEW wanted
  PROVE  Among(q, wanted) \in Seq(S) /\ IsAmong(Among(q, wanted), q, wanted, Len(q))
<1> DEFINE n == Len(q)
<1>1. n \in Nat
  OBVIOUS
<1>2. PICK f \in [0 .. n -> Seq(S)] : AmongRun(f, q, wanted)
  BY AmongRuns
<1>3. /\ f[0] = <<>> /\ Among(q, wanted) = f[n]
      /\ \A i \in 1 .. n :
           f[i] = IF q[i] \in wanted THEN Append(f[i - 1], q[i]) ELSE f[i - 1]
  BY <1>2 DEF AmongRun
<1> DEFINE T == {i \in 0 .. n : IsAmong(f[i], q, wanted, i)}
<1>4. 0 \in T
  <2>1. Range(<<>>) = {} /\ Len(<<>>) = 0
    BY DEF Range
  <2> QED BY <1>1, <1>3, <2>1 DEF IsAmong
<1>5. ASSUME NEW i \in 1 .. n, i - 1 \in T PROVE i \in T
  <2> DEFINE e == f[i - 1]
  <2>1. i \in 0 .. n /\ i - 1 \in 0 .. n /\ e \in Seq(S) /\ q[i] \in S
    BY <1>1
  <2>2. IsAmong(e, q, wanted, i - 1)
    BY <1>5
  <2>3. {q[k] : k \in 1 .. i} = {q[k] : k \in 1 .. i - 1} \cup {q[i]}
    BY <2>1
  <2> HIDE DEF e
  <2>4. CASE q[i] \notin wanted
    <3>1. f[i] = e
      BY <1>3, <2>4 DEF e
    <3>2. Range(e) = {q[k] : k \in 1 .. i} \cap wanted
      BY <2>2, <2>3, <2>4 DEF IsAmong
    <3>3. \A a, b \in 1 .. Len(e) : a < b =>
            \E k, l \in 1 .. i : k < l /\ e[a] = q[k] /\ e[b] = q[l]
      BY <2>2 DEF IsAmong
    <3> QED BY <2>1, <3>1, <3>2, <3>3 DEF IsAmong
  <2>5. CASE q[i] \in wanted
    <3> DEFINE d == Append(e, q[i])
    <3>1. f[i] = d
      BY <1>3, <2>5 DEF e
    <3>2. Range(d) = Range(e) \cup {q[i]}
      BY <2>1, RangeAppend
    <3>3. Range(d) = {q[k] : k \in 1 .. i} \cap wanted
      BY <2>2, <2>3, <2>5, <3>2 DEF IsAmong
    <3>4. /\ Len(d) = Len(e) + 1 /\ Len(e) \in Nat /\ d[Len(d)] = q[i]
          /\ \A a \in 1 .. Len(e) : d[a] = e[a]
      BY <2>1
    <3>5. ASSUME NEW a \in 1 .. Len(d), NEW b \in 1 .. Len(d), a < b
          PROVE  \E k, l \in 1 .. i : k < l /\ d[a] = q[k] /\ d[b] = q[l]
      <4> HIDE DEF d
      <4>1. a \in 1 .. Len(e) /\ d[a] = e[a]
        BY <3>4, <3>5
      <4>2. CASE b \in 1 .. Len(e)
        <5>1. \E k, l \in 1 .. i - 1 : k < l /\ e[a] = q[k] /\ e[b] = q[l]
          BY <2>2, <3>5, <4>1, <4>2 DEF IsAmong
        <5> QED BY <3>4, <4>1, <4>2, <5>1
      <4>3. CASE b = Len(d)
        <5>1. e[a] \in Range(e)
          BY <2>1, <4>1 DEF Range
        <5>2. PICK k \in 1 .. i - 1 : e[a] = q[k]
          BY <2>2, <5>1 DEF IsAmong
        <5>3. k \in 1 .. i /\ i \in 1 .. i /\ k < i
          OBVIOUS
        <5> QED BY <3>4, <4>1, <4>3, <5>2, <5>3
      <4> QED BY <3>4, <4>2, <4>3
    <3> HIDE DEF d
    <3> QED BY <2>1, <3>1, <3>3, <3>5 DEF IsAmong
  <2> QED BY <2>4, <2>5
<1>6. 0 .. n \subseteq T
  <2> HIDE DEF T, n
  <2> QED BY <1>1, <1>4, <1>5, LoopInduction
<1>7. n \in 0 .. n
  BY <1>1
<1> QED BY <1>3, <1>6, <1>7

-----------------------------------------------------------------------------
(* The account of messages                                                 *)

\* Numbers of a client's messages that wait in the queue grow along it, ...
InboxInOrder ==
  \A i, j \in DOMAIN inbox :
    i < j /\ inbox[i].from = inbox[j].from => inbox[i].n < inbox[j].n

\* ... and belong to messages received.
InboxAsSent ==
  \A i \in DOMAIN inbox :
    /\ inbox[i].n <= Len(sent[inbox[i].from])
    /\ inbox[i].kind = sent[inbox[i].from][inbox[i].n]

\* A message that waits came after all that were handled or lost.
Behind ==
  \A s \in Socket : \A n \in Range(heeded[s]) \cup lost[s], m \in Waiting(s) : n < m

\* A client sends no more than the bound.
SentBound == \A s \in Socket : Len(sent[s]) <= MaxMessages

\* The inductive invariant of the message queue.
Accounts ==
  /\ MessageTypeOK /\ SentBound
  /\ InboxInOrder /\ InboxAsSent /\ Behind
  /\ MessagesAccountedFor

-----------------------------------------------------------------------------
(* What the loops give                                                     *)

\* The messages of one client among those of the batch.
LEMMA FromIs ==
  ASSUME MessageTypeOK, NEW s \in Socket
  PROVE  /\ From(s) \in Seq(Message)
         /\ Range(From(s)) = {m \in Range(inbox) : m.from = s}
         /\ InboxInOrder => \A i, j \in DOMAIN From(s) : i < j => From(s)[i].n < From(s)[j].n
<1> DEFINE F == From(s)
<1>1. inbox \in Seq(Message) /\ DOMAIN inbox = 1 .. Len(inbox)
  BY DEF MessageTypeOK
<1>2. F \in Seq(Message) /\ IsAmong(F, inbox, MessagesOf(s, Kind), Len(inbox))
  BY <1>1, AmongIs DEF From
<1>3. \A m \in Message : m \in MessagesOf(s, Kind) <=> m.from = s
  BY DEF Message, MessagesOf
<1>4. Range(inbox) = {inbox[k] : k \in 1 .. Len(inbox)} /\ Range(inbox) \subseteq Message
  BY <1>1 DEF Range
<1>5. Range(F) = {m \in Range(inbox) : m.from = s}
  BY <1>2, <1>3, <1>4 DEF IsAmong
<1>6. ASSUME InboxInOrder, NEW i \in DOMAIN F, NEW j \in DOMAIN F, i < j
      PROVE  F[i].n < F[j].n
  <2> HIDE DEF F
  <2>1. DOMAIN F = 1 .. Len(F)
    BY <1>2
  <2>2. PICK k \in 1 .. Len(inbox), l \in 1 .. Len(inbox) :
           k < l /\ F[i] = inbox[k] /\ F[j] = inbox[l]
    BY <1>2, <1>6, <2>1 DEF IsAmong
  <2>3. F[i] \in Range(F) /\ F[j] \in Range(F)
    BY DEF Range
  <2>4. inbox[k].from = inbox[l].from
    BY <1>5, <2>2, <2>3
  <2> QED BY <1>1, <1>6, <2>2, <2>4 DEF InboxInOrder
<1> QED BY <1>2, <1>5, <1>6

\* Where the turn of a session ends: before its first message without data.
Reach(s) ==
  LET bare == {i \in DOMAIN From(s) : From(s)[i].kind = "bare"}
  IN  IF bare = {} THEN Len(From(s)) ELSE Min(bare) - 1

\* All before it have data; the message behind it, if there is one, has none.
LEMMA ReachIs ==
  ASSUME MessageTypeOK, NEW s \in Socket
  PROVE  /\ Reach(s) \in 0 .. Len(From(s))
         /\ \A i \in 1 .. Reach(s) : From(s)[i].kind # "bare"
         /\ Reach(s) # Len(From(s)) =>
              /\ Reach(s) + 1 \in DOMAIN From(s)
              /\ From(s)[Reach(s) + 1].kind = "bare"
<1> DEFINE F == From(s)
           bare == {i \in DOMAIN F : F[i].kind = "bare"}
<1>1. Len(F) \in Nat /\ DOMAIN F = 1 .. Len(F)
  BY FromIs
<1> HIDE DEF F
<1>2. CASE bare = {}
  BY <1>1, <1>2 DEF Reach, F
<1>3. CASE bare # {}
  <2>1. bare \subseteq Nat
    BY <1>1
  <2>2. Min(bare) \in bare /\ \A i \in bare : Min(bare) <= i
    <3>1. PICK x \in bare : \A y \in bare : x <= y
      <4> HIDE DEF bare
      <4> QED BY <1>3, <2>1, LeastElement
    <3> HIDE DEF bare
    <3> QED BY <3>1 DEF Min
  <2>3. Reach(s) = Min(bare) - 1
    BY <1>3 DEF Reach, F
  <2>4. Min(bare) \in 1 .. Len(F)
    BY <1>1, <2>2
  <2>5. ASSUME NEW i \in 1 .. Reach(s) PROVE F[i].kind # "bare"
    <3>1. i \in DOMAIN F /\ ~ (Min(bare) <= i)
      <4> HIDE DEF bare
      <4> QED BY <1>1, <2>3, <2>4
    <3> QED BY <2>2, <3>1
  <2>6. Reach(s) \in 0 .. Len(F) /\ Reach(s) + 1 = Min(bare)
    <3> HIDE DEF bare
    <3> QED BY <1>1, <2>3, <2>4
  <2> QED BY <2>2, <2>5, <2>6 DEF F
<1> QED BY <1>2, <1>3

\* What handlers get of a client's messages, in the order sent; each of the rest is
\* without an opcode, or not before one without data.
LEMMA HandledIs ==
  ASSUME MessageTypeOK, InboxInOrder, NEW s \in Socket
  PROVE  /\ Handled(s) \in Seq(Message)
         /\ Range(Handled(s)) \subseteq Range(From(s))
         /\ \A i, j \in DOMAIN Handled(s) : i < j => Handled(s)[i].n < Handled(s)[j].n
         /\ \A m \in Range(From(s)) \ Range(Handled(s)) :
              \/ m.kind = "void"
              \/ \E b \in Range(From(s)) : b.n <= m.n /\ b.kind = "bare"
<1> DEFINE F == From(s)
           r == Reach(s)
           turn == SubSeq(F, 1, r)
           H == Handled(s)
<1>1. F \in Seq(Message) /\ Len(F) \in Nat /\ DOMAIN F = 1 .. Len(F)
  BY FromIs
<1>2. r \in 0 .. Len(F)
  BY ReachIs
<1>3. H = Among(turn, MessagesOf(s, {"full"}))
  BY DEF Handled, Reach
<1>4. \A i, j \in DOMAIN F : i < j => F[i].n < F[j].n
  BY FromIs
<1>5. \A i \in 1 .. r : F[i].kind # "bare"
  BY ReachIs
<1>6. r # Len(F) => r + 1 \in DOMAIN F /\ F[r + 1].kind = "bare"
  BY ReachIs
<1> HIDE DEF F, r, H
<1>7. \A i \in 1 .. r : i \in DOMAIN F /\ F[i] \in Message
  BY <1>1, <1>2
<1>8. turn \in Seq(Message) /\ Len(turn) = r /\ \A i \in 1 .. r : turn[i] = F[i]
  BY <1>2, <1>7, SubSeqProperties
<1> HIDE DEF turn
<1>9. H \in Seq(Message) /\ IsAmong(H, turn, MessagesOf(s, {"full"}), r)
  BY <1>3, <1>8, AmongIs
<1>10. Range(H) \subseteq Range(F)
  <2>1. Range(H) \subseteq {turn[k] : k \in 1 .. r}
    BY <1>9 DEF IsAmong
  <2> QED BY <1>8, <1>7, <2>1 DEF Range
<1>11. ASSUME NEW i \in DOMAIN H, NEW j \in DOMAIN H, i < j PROVE H[i].n < H[j].n
  <2>1. DOMAIN H = 1 .. Len(H)
    BY <1>9
  <2>2. PICK k \in 1 .. r, l \in 1 .. r : k < l /\ H[i] = turn[k] /\ H[j] = turn[l]
    BY <1>9, <1>11, <2>1 DEF IsAmong
  <2>3. H[i] = F[k] /\ H[j] = F[l] /\ k \in DOMAIN F /\ l \in DOMAIN F
    BY <1>8, <1>7, <2>2
  <2> QED BY <1>4, <2>2, <2>3
<1>12. ASSUME NEW m \in Range(F) \ Range(H)
      PROVE  m.kind = "void" \/ \E b \in Range(F) : b.n <= m.n /\ b.kind = "bare"
  <2>1. PICK i \in DOMAIN F : m = F[i]
    BY DEF Range
  <2>2. m \in Message /\ m.from = s
    BY <1>1, <2>1, FromIs DEF F
  <2>3. m.kind \in Kind /\ m.n \in Nat
    BY <2>2, MaxMessagesAssumption DEF Message
  <2>4. CASE i \in 1 .. r
    <3>1. m \in {turn[k] : k \in 1 .. r}
      BY <1>8, <2>1, <2>4
    <3>2. m \notin MessagesOf(s, {"full"})
      BY <1>9, <3>1 DEF IsAmong
    <3>3. m.kind # "full"
      BY <2>2, <3>2 DEF Message, MessagesOf
    <3>4. m.kind # "bare"
      BY <1>5, <2>1, <2>4
    <3> QED BY <2>3, <3>3, <3>4 DEF Kind
  <2>5. CASE i \notin 1 .. r
    <3>1. r + 1 \in DOMAIN F /\ F[r + 1].kind = "bare" /\ F[r + 1] \in Range(F)
      BY <1>1, <1>2, <1>6, <2>5 DEF Range
    <3>2. r + 1 = i \/ r + 1 < i
      BY <1>1, <1>2, <2>5
    <3>3. F[r + 1].n <= m.n
      <4>1. CASE r + 1 = i
        BY <2>1, <2>3, <4>1
      <4>2. CASE r + 1 < i
        <5>1. F[r + 1].n < F[i].n
          BY <1>4, <2>1, <3>1, <4>2
        <5>2. F[r + 1].n \in Int
          <6>1. F[r + 1] \in Message
            BY <1>1, <3>1
          <6> QED BY <6>1, MaxMessagesAssumption DEF Message
        <5> QED BY <2>1, <2>3, <5>1, <5>2
      <4> QED BY <3>2, <4>1, <4>2
    <3> QED BY <3>1, <3>3
  <2> QED BY <2>4, <2>5
<1> QED BY <1>9, <1>10, <1>11, <1>12 DEF F, H

-----------------------------------------------------------------------------
(* The account is inductive                                                *)

\* The messages of a client in the queue, by the queue's elements.
LEMMA WaitingIs ==
  \A s : Waiting(s) = {m.n : m \in {x \in Range(inbox) : x.from = s}}
BY DEF Waiting, Range

\* The parts of a message.
LEMMA MessageParts ==
  /\ \A m \in Message : m.from \in Socket /\ m.n \in 1 .. MaxMessages /\ m.n \in Nat /\ m.kind \in Kind
  /\ \A s \in Socket, n \in 1 .. MaxMessages, k \in Kind : [from |-> s, n |-> n, kind |-> k] \in Message
BY MaxMessagesAssumption DEF Message

\* The account is empty when the server starts.
LEMMA InitAccounts == Init => Accounts /\ LostOnlyWhenDue
<1> SUFFICES ASSUME Init PROVE Accounts /\ LostOnlyWhenDue
  OBVIOUS
<1>1. inbox = <<>> /\ \A s \in Socket : sent[s] = <<>> /\ heeded[s] = <<>> /\ lost[s] = {} /\ early[s] = 0
  BY DEF Init
<1>2. Range(<<>>) = {} /\ Len(<<>>) = 0 /\ DOMAIN <<>> = {} /\ 1 .. 0 = {}
  BY DEF Range
<1>3. MessageTypeOK
  <2>1. <<>> \in Seq(Message) /\ <<>> \in Seq(Kind) /\ <<>> \in Seq(1 .. MaxMessages)
    OBVIOUS
  <2>2. 0 \in 0 .. MaxMessages
    BY MaxMessagesAssumption
  <2> QED BY <2>1, <2>2 DEF Init, MessageTypeOK
<1>4. SentBound
  BY <1>1, <1>2, MaxMessagesAssumption DEF SentBound
<1>5. InboxInOrder /\ InboxAsSent
  BY <1>1, <1>2 DEF InboxInOrder, InboxAsSent
<1>6. \A s \in Socket : Waiting(s) = {}
  BY <1>1, <1>2 DEF Waiting
<1>7. Behind
  BY <1>6 DEF Behind
<1>8. MessagesAccountedFor
  BY <1>1, <1>2, <1>6 DEF MessagesAccountedFor
<1>9. LostOnlyWhenDue
  BY <1>1 DEF LostOnlyWhenDue
<1> QED BY <1>3, <1>4, <1>5, <1>7, <1>8, <1>9 DEF Accounts

\* A message that arrives is numbered one more than all before it.
LEMMA ReceiveAccounts ==
  ASSUME Accounts, LostOnlyWhenDue, NEW s \in Socket, Receive(s)
  PROVE  Accounts' /\ LostOnlyWhenDue'
<1> DEFINE k == Len(sent[s]) + 1
<1>1. PICK kind \in Kind :
         /\ inbox' = Append(inbox, [from |-> s, n |-> k, kind |-> kind])
         /\ sent' = [sent EXCEPT ![s] = Append(@, kind)]
  BY DEF Receive
<1> DEFINE m == [from |-> s, n |-> k, kind |-> kind]
<1>2. /\ inbox \in Seq(Message) /\ sent \in [Socket -> Seq(Kind)]
      /\ Len(sent[s]) \in Nat /\ k \in 1 .. MaxMessages
  <2>1. Len(sent[s]) < MaxMessages
    BY DEF Receive
  <2>2. sent[s] \in Seq(Kind)
    BY DEF Accounts, MessageTypeOK
  <2> QED BY <2>1, <2>2, MaxMessagesAssumption DEF Accounts, MessageTypeOK
<1>3. UNCHANGED <<early, heeded, lost>> /\ entity' = entity
  BY DEF Receive, game, world
<1>4. m \in Message /\ m.from = s /\ m.n = k /\ m.kind = kind
  BY <1>2, MessageParts
<1>5. /\ inbox' \in Seq(Message) /\ Len(inbox') = Len(inbox) + 1 /\ Len(inbox) \in Nat
      /\ inbox'[Len(inbox) + 1] = m /\ \A i \in 1 .. Len(inbox) : inbox'[i] = inbox[i]
      /\ Range(inbox') = Range(inbox) \cup {m}
      /\ DOMAIN inbox = 1 .. Len(inbox) /\ DOMAIN inbox' = 1 .. Len(inbox) + 1
  <2>1. inbox' = Append(inbox, m)
    BY <1>1
  <2> HIDE DEF m
  <2>2. Range(inbox') = Range(inbox) \cup {m}
    BY <1>2, <1>4, <2>1, RangeAppend
  <2> QED BY <1>2, <1>4, <2>1, <2>2, AppendProperties
<1>6. /\ sent'[s] \in Seq(Kind) /\ Len(sent'[s]) = k /\ sent'[s][k] = kind
      /\ \A i \in 1 .. Len(sent[s]) : sent'[s][i] = sent[s][i]
      /\ \A t \in Socket : t # s => sent'[t] = sent[t]
      /\ sent' \in [Socket -> Seq(Kind)]
  <2>1. sent[s] \in Seq(Kind)
    BY <1>2
  <2>2. sent'[s] = Append(sent[s], kind)
    BY <1>1, <1>2
  <2> QED BY <1>1, <1>2, <2>1, <2>2, AppendProperties
<1>7. \A t \in Socket : Len(sent[t]) \in Nat
  BY <1>2
<1> HIDE DEF m
<1>8. \A t \in Socket : Waiting(t)' = {x.n : x \in {y \in Range(inbox') : y.from = t}}
  BY DEF Waiting, Range
<1>9. \A t \in Socket : t # s => Waiting(t)' = Waiting(t)
  BY <1>4, <1>5, <1>8, WaitingIs
<1>10. Waiting(s)' = Waiting(s) \cup {k}
  BY <1>4, <1>5, <1>8, WaitingIs
<1> HIDE DEF k
<1>11. MessageTypeOK'
  BY <1>3, <1>5, <1>6 DEF Accounts, MessageTypeOK
<1>12. SentBound'
  <2> SUFFICES ASSUME NEW t \in Socket PROVE Len(sent'[t]) <= MaxMessages
    BY DEF SentBound
  <2>1. CASE t = s
    BY <1>2, <1>6, <2>1, MaxMessagesAssumption
  <2>2. CASE t # s
    BY <1>6, <2>2 DEF Accounts, SentBound
  <2> QED BY <2>1, <2>2
<1>13. \A i \in 1 .. Len(inbox) : inbox[i].from = s => inbox[i].n < k
  <2>1. \A i \in 1 .. Len(inbox) : inbox[i] \in Message
    BY <1>2
  <2>2. \A i \in 1 .. Len(inbox) : inbox[i].n \in Nat /\ inbox[i].n <= Len(sent[inbox[i].from])
    BY <1>5, <2>1, MessageParts DEF Accounts, InboxAsSent
  <2> QED BY <1>2, <2>2 DEF k
<1>14. InboxInOrder'
  <2> SUFFICES ASSUME NEW i \in DOMAIN inbox', NEW j \in DOMAIN inbox',
                      i < j, inbox'[i].from = inbox'[j].from
               PROVE  inbox'[i].n < inbox'[j].n
    BY DEF InboxInOrder
  <2>1. i \in 1 .. Len(inbox) /\ inbox'[i] = inbox[i]
    BY <1>5
  <2>2. CASE j \in 1 .. Len(inbox)
    BY <1>5, <2>1, <2>2 DEF Accounts, InboxInOrder
  <2>3. CASE j = Len(inbox) + 1
    BY <1>4, <1>5, <1>13, <2>1, <2>3
  <2> QED BY <1>5, <2>2, <2>3
<1>15. InboxAsSent'
  <2> SUFFICES ASSUME NEW i \in DOMAIN inbox'
               PROVE  /\ inbox'[i].n <= Len(sent'[inbox'[i].from])
                      /\ inbox'[i].kind = sent'[inbox'[i].from][inbox'[i].n]
    BY DEF InboxAsSent
  <2>1. CASE i = Len(inbox) + 1
    BY <1>2, <1>4, <1>5, <1>6, <2>1
  <2>2. CASE i \in 1 .. Len(inbox)
    <3> DEFINE x == inbox[i]
    <3>1. inbox'[i] = x /\ x \in Message
      BY <1>2, <1>5, <2>2
    <3>2. x.n <= Len(sent[x.from]) /\ x.kind = sent[x.from][x.n]
      BY <1>5, <2>2 DEF Accounts, InboxAsSent
    <3>3. x.n \in Nat /\ x.n >= 1 /\ x.from \in Socket
      BY <3>1, MessageParts
    <3> HIDE DEF x
    <3>4. CASE x.from # s
      BY <1>6, <3>1, <3>2, <3>3, <3>4
    <3>5. CASE x.from = s
      <4>1. x.n \in 1 .. Len(sent[s]) /\ x.n <= k
        BY <1>2, <3>2, <3>3, <3>5 DEF k
      <4> QED BY <1>6, <3>1, <3>2, <3>5, <4>1
    <3> QED BY <3>4, <3>5
  <2> QED BY <1>5, <2>1, <2>2
<1>16. \A n \in Range(heeded[s]) \cup lost[s] : n < k /\ n \in Nat
  <2>1. Range(heeded[s]) \cup lost[s] \subseteq 1 .. Len(sent[s])
    BY DEF Accounts, MessagesAccountedFor
  <2> QED BY <1>2, <2>1 DEF k
<1>17. Behind'
  <2> SUFFICES ASSUME NEW t \in Socket, NEW n \in Range(heeded[t]) \cup lost[t], NEW w \in Waiting(t)'
               PROVE  n < w
    BY <1>3 DEF Behind
  <2>1. w \in Waiting(t) => n < w
    BY DEF Accounts, Behind
  <2> QED BY <1>9, <1>10, <1>16, <2>1
<1>18. MessagesAccountedFor'
  <2> SUFFICES ASSUME NEW t \in Socket
               PROVE  LET done == Range(heeded[t]) IN
                        /\ done \cup lost[t] \cup Waiting(t)' = 1 .. Len(sent'[t])
                        /\ done \cap lost[t] = {} /\ (done \cup lost[t]) \cap Waiting(t)' = {}
                        /\ \A i, j \in DOMAIN heeded[t] : i < j => heeded[t][i] < heeded[t][j]
    BY <1>3 DEF MessagesAccountedFor
  <2> DEFINE done == Range(heeded[t])
  <2>1. /\ done \cup lost[t] \cup Waiting(t) = 1 .. Len(sent[t])
        /\ done \cap lost[t] = {} /\ (done \cup lost[t]) \cap Waiting(t) = {}
        /\ \A i, j \in DOMAIN heeded[t] : i < j => heeded[t][i] < heeded[t][j]
    BY DEF Accounts, MessagesAccountedFor
  <2>2. CASE t # s
    BY <1>6, <1>9, <2>1, <2>2
  <2>3. CASE t = s
    <3>1. 1 .. Len(sent'[s]) = 1 .. Len(sent[s]) \cup {k}
      BY <1>2, <1>6 DEF k
    <3>2. k \notin done \cup lost[t]
      BY <1>16, <2>3
    <3> HIDE DEF done
    <3>3. /\ done \cup lost[s] \cup Waiting(s)' = 1 .. Len(sent'[s])
          /\ (done \cup lost[s]) \cap Waiting(s)' = {}
      <4>1. /\ done \cup lost[s] \cup Waiting(s) = 1 .. Len(sent[s])
            /\ (done \cup lost[s]) \cap Waiting(s) = {}
        BY <2>1, <2>3
      <4>2. k \notin done \cup lost[s]
        BY <2>3, <3>2
      <4> QED BY <1>10, <3>1, <4>1, <4>2, Zenon
    <3> QED BY <2>1, <2>3, <3>3 DEF done
  <2> QED BY <2>2, <2>3
<1>19. LostOnlyWhenDue'
  <2> SUFFICES ASSUME NEW t \in Socket, entity[t] = "joined", NEW n \in lost[t]
               PROVE  \/ n <= early[t]
                      \/ sent'[t][n] = "void"
                      \/ \E b \in 1 .. n : sent'[t][b] = "bare"
    BY <1>3 DEF LostOnlyWhenDue
  <2>1. \/ n <= early[t]
        \/ sent[t][n] = "void"
        \/ \E b \in 1 .. n : sent[t][b] = "bare"
    BY DEF LostOnlyWhenDue
  <2>2. n \in 1 .. Len(sent[t])
    BY DEF Accounts, MessagesAccountedFor
  <2>3. \A b \in 1 .. n : b \in 1 .. Len(sent[t])
    BY <1>7, <2>2
  <2>4. \A b \in 1 .. Len(sent[t]) : sent'[t][b] = sent[t][b]
    BY <1>6
  <2>5. sent'[t][n] = sent[t][n] /\ \A b \in 1 .. n : sent'[t][b] = sent[t][b]
    BY <2>2, <2>3, <2>4
  <2> QED BY <2>1, <2>5
<1> QED BY <1>11, <1>12, <1>14, <1>15, <1>17, <1>18, <1>19 DEF Accounts

\* What a batch of messages does to one client's account.
LEMMA HandleMessagesAt ==
  ASSUME MessageTypeOK, InboxInOrder, HandleMessages, NEW s \in Socket
  PROVE  \E h \in Seq(1 .. MaxMessages) :
           /\ heeded'[s] = heeded[s] \o h
           /\ lost'[s] = lost[s] \cup (Waiting(s) \ Range(h))
           /\ entity[s] # "joined" => h = <<>>
           /\ entity[s] = "joined" => h = Numbers(Handled(s))
           /\ Range(h) \subseteq Waiting(s)
<1> DEFINE handled == [t \in Socket |-> IF entity[t] = "joined" THEN Numbers(Handled(t)) ELSE <<>>]
           h == handled[s]
<1>1. /\ heeded' = [t \in Socket |-> heeded[t] \o handled[t]]
      /\ lost' = [t \in Socket |-> lost[t] \cup (Range(Numbers(From(t))) \ Range(handled[t]))]
  BY DEF HandleMessages
<1>2. \A q \in Seq(Message) : /\ Numbers(q) \in Seq(1 .. MaxMessages)
                              /\ Range(Numbers(q)) = {m.n : m \in Range(q)}
  <2> SUFFICES ASSUME NEW q \in Seq(Message)
               PROVE  /\ Numbers(q) \in Seq(1 .. MaxMessages)
                      /\ Range(Numbers(q)) = {m.n : m \in Range(q)}
    OBVIOUS
  <2>1. DOMAIN q = 1 .. Len(q) /\ Len(q) \in Nat /\ \A i \in 1 .. Len(q) : q[i] \in Message
    OBVIOUS
  <2>2. \A i \in 1 .. Len(q) : q[i].n \in 1 .. MaxMessages
    BY <2>1, MessageParts
  <2> QED BY <2>1, <2>2 DEF Numbers, Range
<1>3. Range(Numbers(From(s))) = Waiting(s)
  BY <1>2, FromIs, WaitingIs
<1>4. Handled(s) \in Seq(Message) /\ Range(Handled(s)) \subseteq Range(From(s))
  BY HandledIs
<1>5. h = IF entity[s] = "joined" THEN Numbers(Handled(s)) ELSE <<>>
  OBVIOUS
<1>6. Range(<<>>) = {} /\ <<>> \in Seq(1 .. MaxMessages)
  BY DEF Range
<1>7. h \in Seq(1 .. MaxMessages) /\ Range(h) \subseteq Waiting(s)
  <2> HIDE DEF h
  <2>1. CASE entity[s] = "joined"
    <3>1. Range(Numbers(Handled(s))) = {m.n : m \in Range(Handled(s))} /\ Numbers(Handled(s)) \in Seq(1 .. MaxMessages)
      BY <1>2, <1>4
    <3>2. Range(Numbers(From(s))) = {m.n : m \in Range(From(s))}
      BY <1>2, FromIs
    <3> QED BY <1>3, <1>4, <1>5, <2>1, <3>1, <3>2
  <2>2. CASE entity[s] # "joined"
    BY <1>5, <1>6, <2>2
  <2> QED BY <2>1, <2>2
<1>8. heeded'[s] = heeded[s] \o h /\ lost'[s] = lost[s] \cup (Waiting(s) \ Range(h))
  BY <1>1, <1>3
<1> HIDE DEF h
<1> QED BY <1>5, <1>7, <1>8

\* Handling a batch keeps the account: what waits is handled, in order and after
\* all that was handled before, or lost for a reason.
LEMMA HandleAccounts ==
  ASSUME Accounts, LostOnlyWhenDue, HandleMessages
  PROVE  Accounts' /\ LostOnlyWhenDue'
<1>1. /\ MessageTypeOK /\ InboxInOrder /\ InboxAsSent /\ Behind /\ SentBound
      /\ MessagesAccountedFor
  BY DEF Accounts
<1>2. /\ inbox' = <<>> /\ sent' = sent /\ early' = early /\ entity' = entity
      /\ heeded' = [s \in Socket |-> heeded'[s]] /\ lost' = [s \in Socket |-> lost'[s]]
  BY DEF HandleMessages, world
<1>3. \A s \in Socket : Waiting(s)' = {}
  <2>1. DOMAIN <<>> = {}
    OBVIOUS
  <2> QED BY <1>2, <2>1 DEF Waiting
<1>4. ASSUME NEW s \in Socket
      PROVE  /\ heeded[s] \in Seq(1 .. MaxMessages) /\ heeded[s] \in Seq(Nat)
             /\ lost[s] \subseteq 1 .. MaxMessages
             /\ Len(sent[s]) \in Nat /\ Len(sent[s]) <= MaxMessages
             /\ Range(heeded[s]) \cup lost[s] \cup Waiting(s) = 1 .. Len(sent[s])
             /\ Range(heeded[s]) \cap lost[s] = {}
             /\ (Range(heeded[s]) \cup lost[s]) \cap Waiting(s) = {}
             /\ \A i, j \in DOMAIN heeded[s] : i < j => heeded[s][i] < heeded[s][j]
  <2>1. heeded[s] \in Seq(1 .. MaxMessages) /\ lost[s] \subseteq 1 .. MaxMessages /\ sent[s] \in Seq(Kind)
    BY <1>1 DEF MessageTypeOK
  <2>2. 1 .. MaxMessages \subseteq Nat
    BY MaxMessagesAssumption
  <2>3. heeded[s] \in Seq(Nat)
    BY <2>1, <2>2, SeqMonotonic
  <2> QED BY <1>1, <2>1, <2>3 DEF SentBound, MessagesAccountedFor
<1>5. ASSUME NEW s \in Socket
      PROVE  /\ heeded'[s] \in Seq(1 .. MaxMessages) /\ lost'[s] \subseteq 1 .. MaxMessages
             /\ Range(heeded'[s]) \cup lost'[s] = 1 .. Len(sent[s])
             /\ Range(heeded'[s]) \cap lost'[s] = {}
             /\ \A i, j \in DOMAIN heeded'[s] : i < j => heeded'[s][i] < heeded'[s][j]
  <2>1. PICK h \in Seq(1 .. MaxMessages) :
           /\ heeded'[s] = heeded[s] \o h
           /\ lost'[s] = lost[s] \cup (Waiting(s) \ Range(h))
           /\ entity[s] # "joined" => h = <<>>
           /\ entity[s] = "joined" => h = Numbers(Handled(s))
           /\ Range(h) \subseteq Waiting(s)
    BY <1>1, HandleMessagesAt
  <2>2. heeded'[s] \in Seq(1 .. MaxMessages) /\ Range(heeded'[s]) = Range(heeded[s]) \cup Range(h)
    BY <1>4, <2>1, RangeConcat
  <2>3. Waiting(s) \subseteq 1 .. MaxMessages
    <3>1. Waiting(s) \subseteq 1 .. Len(sent[s])
      BY <1>4
    <3> QED BY <1>4, <3>1, MaxMessagesAssumption
  <2>4. /\ Range(heeded'[s]) \cup lost'[s] = 1 .. Len(sent[s])
        /\ Range(heeded'[s]) \cap lost'[s] = {}
    <3>1. /\ Range(heeded[s]) \cup lost[s] \cup Waiting(s) = 1 .. Len(sent[s])
          /\ Range(heeded[s]) \cap lost[s] = {}
          /\ (Range(heeded[s]) \cup lost[s]) \cap Waiting(s) = {}
      BY <1>4
    <3> QED BY <2>1, <2>2, <3>1
  <2>5. h \in Seq(Nat) /\ \A i, j \in DOMAIN h : i < j => h[i] < h[j]
    <3>1. CASE entity[s] # "joined"
      <4>1. h = <<>> /\ DOMAIN h = {}
        BY <2>1, <3>1
      <4> QED BY <4>1
    <3>2. CASE entity[s] = "joined"
      <4> DEFINE H == Handled(s)
      <4>1. H \in Seq(Message) /\ \A i, j \in DOMAIN H : i < j => H[i].n < H[j].n
        BY <1>1, HandledIs
      <4>2. h = [i \in DOMAIN H |-> H[i].n]
        BY <2>1, <3>2 DEF Numbers
      <4> HIDE DEF H
      <4>3. Len(H) \in Nat /\ DOMAIN H = 1 .. Len(H) /\ \A i \in DOMAIN H : H[i].n \in Nat
        BY <4>1, MessageParts
      <4>4. h \in Seq(Nat)
        BY <4>2, <4>3
      <4> QED BY <4>1, <4>2, <4>4
    <3> QED BY <3>1, <3>2
  <2>6. \A m \in Range(heeded[s]), n \in Range(h) : m < n
    BY <1>1, <2>1 DEF Behind
  <2>7. \A i, j \in DOMAIN heeded'[s] : i < j => heeded'[s][i] < heeded'[s][j]
    <3> DEFINE p == heeded[s]
    <3>1. p \in Seq(Nat) /\ (\A i, j \in DOMAIN p : i < j => p[i] < p[j]) /\ heeded'[s] = p \o h
          /\ \A m \in Range(p), n \in Range(h) : m < n
      BY <1>4, <2>1, <2>6
    <3> HIDE DEF p
    <3>2. \A i, j \in DOMAIN (p \o h) : i < j => (p \o h)[i] < (p \o h)[j]
      BY <2>5, <3>1, GrowingConcat
    <3> QED BY <3>1, <3>2
  <2>8. lost'[s] \subseteq 1 .. MaxMessages
    BY <1>4, <2>1, <2>3
  <2> QED BY <2>2, <2>4, <2>7, <2>8
<1>6. MessageTypeOK'
  <2>1. /\ heeded' \in [Socket -> Seq(1 .. MaxMessages)]
        /\ lost' \in [Socket -> SUBSET (1 .. MaxMessages)]
    BY <1>2, <1>5
  <2>2. inbox' \in Seq(Message)
    BY <1>2
  <2> QED BY <1>1, <1>2, <2>1, <2>2 DEF MessageTypeOK
<1>7. SentBound' /\ InboxInOrder' /\ InboxAsSent'
  <2>1. DOMAIN inbox' = {}
    BY <1>2
  <2> QED BY <1>1, <1>2, <2>1 DEF SentBound, InboxInOrder, InboxAsSent
<1>8. Behind'
  BY <1>3 DEF Behind
<1>9. MessagesAccountedFor'
  BY <1>2, <1>3, <1>5 DEF MessagesAccountedFor
<1>10. LostOnlyWhenDue'
  <2> SUFFICES ASSUME NEW s \in Socket, entity[s] = "joined", NEW n \in lost'[s]
               PROVE  \/ n <= early[s]
                      \/ sent[s][n] = "void"
                      \/ \E k \in 1 .. n : sent[s][k] = "bare"
    BY <1>2 DEF LostOnlyWhenDue
  <2>1. n \in lost[s] \/ n \in Waiting(s) \ Range(Numbers(Handled(s)))
    BY <1>1, HandleMessagesAt
  <2>2. CASE n \in lost[s]
    BY <2>2 DEF LostOnlyWhenDue
  <2>3. CASE n \in Waiting(s) \ Range(Numbers(Handled(s)))
    <3>1. PICK m \in Range(inbox) : m.from = s /\ m.n = n
      BY <2>3, WaitingIs
    <3>2. m \in Range(From(s))
      BY <1>1, <3>1, FromIs
    <3>3. m \notin Range(Handled(s))
      BY <2>3, <3>1 DEF Range, Numbers
    <3>4. \A x \in Range(From(s)) : x.from = s /\ x.n \in Nat /\ x.n >= 1 /\ x.kind = sent[s][x.n]
      <4> SUFFICES ASSUME NEW x \in Range(From(s))
                   PROVE  x.from = s /\ x.n \in Nat /\ x.n >= 1 /\ x.kind = sent[s][x.n]
        OBVIOUS
      <4>1. x \in Range(inbox) /\ x.from = s
        BY <1>1, FromIs
      <4>2. PICK i \in DOMAIN inbox : x = inbox[i]
        BY <4>1 DEF Range
      <4>3. x \in Message
        BY <1>1, <4>2 DEF MessageTypeOK
      <4> QED BY <1>1, <4>1, <4>2, <4>3, MessageParts DEF InboxAsSent
    <3>5. m.kind = "void" \/ \E b \in Range(From(s)) : b.n <= m.n /\ b.kind = "bare"
      BY <1>1, <3>2, <3>3, HandledIs
    <3>6. CASE m.kind = "void"
      BY <3>1, <3>2, <3>4, <3>6
    <3>7. CASE \E b \in Range(From(s)) : b.n <= m.n /\ b.kind = "bare"
      <4>1. PICK b \in Range(From(s)) : b.n <= m.n /\ b.kind = "bare"
        BY <3>7
      <4>2. b.n \in 1 .. n /\ sent[s][b.n] = "bare"
        BY <3>1, <3>2, <3>4, <4>1
      <4> QED BY <4>2
    <3> QED BY <3>5, <3>6, <3>7
  <2> QED BY <2>1, <2>2, <2>3
<1> QED BY <1>6, <1>7, <1>8, <1>9, <1>10 DEF Accounts

\* A session that joins counts what came before as early.
LEMMA JoinAccounts ==
  ASSUME Accounts, LostOnlyWhenDue, SessionTypeOK, Joining, Join
  PROVE  Accounts' /\ LostOnlyWhenDue'
<1> DEFINE s == Head(batch)
<1>1. s \in Socket
  BY HeadTailProperties DEF Join, Joining, SessionTypeOK
<1>2. /\ UNCHANGED <<inbox, sent, heeded, lost>>
      /\ early' = [early EXCEPT ![s] = Len(sent[s])]
      /\ entity' = [entity EXCEPT ![s] = "joined"]
  BY DEF Join, queues
<1> HIDE DEF s
<1>3. Len(sent[s]) \in 0 .. MaxMessages
  <2>1. sent[s] \in Seq(Kind)
    BY <1>1 DEF Accounts, MessageTypeOK
  <2> QED BY <1>1, <2>1, MaxMessagesAssumption DEF Accounts, SentBound
<1>4. Accounts'
  <2>1. MessageTypeOK'
    BY <1>2, <1>3 DEF Accounts, MessageTypeOK
  <2>2. SentBound' /\ InboxInOrder' /\ InboxAsSent'
    BY <1>2 DEF Accounts, SentBound, InboxInOrder, InboxAsSent
  <2>3. \A t : Waiting(t)' = Waiting(t)
    BY <1>2 DEF Waiting
  <2>4. Behind'
    BY <1>2, <2>3 DEF Accounts, Behind
  <2>5. MessagesAccountedFor'
    BY <1>2, <2>3 DEF Accounts, MessagesAccountedFor
  <2> QED BY <2>1, <2>2, <2>4, <2>5 DEF Accounts
<1>5. LostOnlyWhenDue'
  <2> SUFFICES ASSUME NEW t \in Socket, entity'[t] = "joined", NEW n \in lost[t]
               PROVE  \/ n <= early'[t]
                      \/ sent[t][n] = "void"
                      \/ \E k \in 1 .. n : sent[t][k] = "bare"
    BY <1>2 DEF LostOnlyWhenDue
  <2>1. CASE t = s
    <3>1. early'[s] = Len(sent[s])
      BY <1>1, <1>2 DEF Accounts, MessageTypeOK
    <3>2. n \in 1 .. Len(sent[s])
      BY <2>1 DEF Accounts, MessagesAccountedFor
    <3> QED BY <1>3, <2>1, <3>1, <3>2
  <2>2. CASE t # s
    <3>1. entity[t] = "joined" /\ early'[t] = early[t]
      BY <1>2, <2>2 DEF SessionTypeOK, Accounts, MessageTypeOK
    <3> QED BY <3>1 DEF LostOnlyWhenDue
  <2> QED BY <2>1, <2>2
<1> QED BY <1>4, <1>5

\* The other actions leave queue and account alone, and let nobody join.
LEMMA OthersAccount ==
  ASSUME Accounts, LostOnlyWhenDue, UNCHANGED <<inbox, history>>,
         \A s \in Socket : entity'[s] = "joined" => entity[s] = "joined"
  PROVE  Accounts' /\ LostOnlyWhenDue'
<1>1. UNCHANGED <<inbox, sent, early, heeded, lost>>
  BY DEF history
<1>2. Accounts'
  BY <1>1
     DEF Accounts, MessageTypeOK, SentBound, InboxInOrder, InboxAsSent, Behind, Waiting,
         MessagesAccountedFor
<1>3. LostOnlyWhenDue'
  BY <1>1 DEF LostOnlyWhenDue
<1> QED BY <1>2, <1>3

\* Every step keeps the account.
LEMMA NextAccounts ==
  IInv /\ Accounts /\ LostOnlyWhenDue /\ [Next]_vars => Accounts' /\ LostOnlyWhenDue'
<1> SUFFICES ASSUME IInv, Accounts, LostOnlyWhenDue, [Next]_vars
             PROVE  Accounts' /\ LostOnlyWhenDue'
  OBVIOUS
<1> DEFINE Joined == \A s \in Socket : entity'[s] = "joined" => entity[s] = "joined"
<1>1. CASE \E s \in Socket : Receive(s)
  BY <1>1, ReceiveAccounts
<1>2. CASE HandleMessages
  BY <1>2, HandleAccounts
<1>3. CASE Join
  BY <1>3, JoinAccounts DEF IInv
<1>4. ASSUME NEW s \in Socket,
             Connect(s) \/ HandshakeFails(s) \/ Open(s) \/ ReadFails(s) \/ SendsEnd(s)
      PROVE  UNCHANGED <<inbox, history>> /\ Joined
  BY <1>4 DEF Connect, HandshakeFails, Open, ReadFails, SendsEnd, queues, world
<1>5. ASSUME NEW t \in Thread, Destructor(t) PROVE UNCHANGED <<inbox, history>> /\ Joined
  BY <1>5 DEF Destructor, EnqueueClose, CountClose, queues, world
<1>6. CASE TakeOpens
  BY <1>6, OthersAccount DEF TakeOpens
<1>7. CASE Abandon \/ Release
  BY <1>7, OthersAccount DEF Abandon, Release, queues, world
<1>8. CASE HandleDisconnections
  <2>1. Joined /\ UNCHANGED <<inbox, history>>
    BY <1>8 DEF HandleDisconnections
  <2> QED BY <2>1, OthersAccount
<1>9. ASSUME NEW s \in Socket, SendState(s) \/ SkipState(s)
      PROVE  UNCHANGED <<inbox, history>> /\ Joined
  BY <1>9 DEF SendState, SkipState, queues, world
<1>10. CASE DestroyQueued
  BY <1>10, OthersAccount DEF DestroyQueued, queues
<1>11. CASE UNCHANGED vars
  BY <1>11, OthersAccount DEF vars, queues, world
<1> QED
  BY <1>1, <1>2, <1>3, <1>4, <1>5, <1>6, <1>7, <1>8, <1>9, <1>10, <1>11, OthersAccount
  DEF Next, Callback, Update

\* The account of messages, as an invariant.
LEMMA AccountsKept == SafeSpec => [](Accounts /\ LostOnlyWhenDue)
BY InitAccounts, NextAccounts, Invariance, PTL DEF SafeSpec

\* The type invariant, of sessions and messages both (session.cpp:23-191).
THEOREM TypeCorrect == SafeSpec => []TypeOK
<1>1. SessionTypeOK /\ Accounts => TypeOK
  BY DEF Accounts, TypeOK
<1> QED BY <1>1, SessionTypes, AccountsKept, PTL

\* For any number of clients and messages, every message waits in the queue, has
\* been handled or has been lost, once, and handlers see those of a client in the
\* order it sent them (session.cpp:117-155).
THEOREM AccountedFor == SafeSpec => []MessagesAccountedFor
<1>1. Accounts => MessagesAccountedFor
  BY DEF Accounts
<1> QED BY <1>1, AccountsKept, PTL

\* What a client in the game loses came before it joined, had no opcode, or was
\* not before a message of its own without data: no other client costs it a
\* message (session.cpp:142-153).
THEOREM LostForAReason == SafeSpec => []LostOnlyWhenDue
BY AccountsKept, PTL

=============================================================================
