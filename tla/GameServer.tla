----------------------------- MODULE GameServer -----------------------------
(***************************************************************************)
(* The life of a client between the two threads of the server.             *)
(*                                                                         *)
(* The network thread (ioc.run()) runs the socket callbacks, which post to *)
(* the session system's three queues.  The game thread (the loop of main)  *)
(* runs world::update: session, movement, sync, then the destroy queue.    *)
(* The threads share nothing else but the sockets, which the game thread   *)
(* reaches through weak pointers; whichever thread drops the last          *)
(* reference to a socket runs ~socket, and with it on_close.               *)
(*                                                                         *)
(* Connections and messages are posted by the network thread alone, so a   *)
(* batch is all that was counted when it was taken, and taking it is one   *)
(* step (CountedQueue has the steps in between).  Disconnections are       *)
(* posted by both threads and keep the enqueue and the count apart.        *)
(***************************************************************************)
EXTENDS Integers, Sequences, FiniteSets, SequencesExt

CONSTANTS
  Socket,      \* socket ids, as socket_listener's sequence hands them out
  None,        \* no socket
  MaxMessages  \* bound: messages each client sends

ASSUME NoneAssumption == None \notin Socket
ASSUME MaxMessagesAssumption == MaxMessages \in Nat

Thread == {"network", "game"}

\* What handle_messages tells apart: a message without an opcode (or that does
\* not parse), one with an opcode and no data, one with both.
Kind == {"void", "bare", "full"}

Message == [from : Socket, n : 1 .. MaxMessages, kind : Kind]

VARIABLES
  \* the sockets
  link,       \* link[s]: "unused", "handshake", "open" (reading), "ended"
  sending,    \* sending[s]: a posted send or a write holds a reference
  held,       \* the socket the game thread has locked (its local `sock`)
  dying,      \* dying[t]: the socket whose destructor thread t runs
  half,       \* half[t]: in on_close, t has enqueued and not yet counted
  \* the session system's queues
  opens,      \* connection_queue_
  inbox,      \* message_queue_
  closes,     \* disconnection_queue_, which becomes a set when handled
  \* the game thread
  stage,      \* what world::update is at
  batch,      \* connections left in the loop of handle_connections
  todo,       \* sessions left in the loop of sync::update
  entity,     \* entity[s]: "none", "bare", "joined", "doomed", "gone"
  zone,       \* the sessions whose entities the map's zone 0 lists
  condemned,  \* destroy_queue_
  \* history
  sent,       \* sent[s]: the kinds of the messages received from s
  early,      \* early[s]: how many were received before s joined
  heeded,     \* heeded[s]: those handed to a handler, in that order
  lost        \* lost[s]: those dropped by handle_messages

sockets == <<link, sending, held, dying, half>>
queues == <<opens, inbox, closes>>
game == <<stage, batch, todo>>
world == <<entity, zone, condemned>>
history == <<sent, early, heeded, lost>>
vars == <<sockets, queues, game, world, history>>

SessionTypeOK ==
  /\ link \in [Socket -> {"unused", "handshake", "open", "ended"}]
  /\ sending \in [Socket -> BOOLEAN]
  /\ held \in Socket \cup {None}
  /\ dying \in [Thread -> Socket \cup {None}]
  /\ half \in [Thread -> BOOLEAN]
  /\ opens \in Seq(Socket)
  /\ closes \in SUBSET Socket
  /\ stage \in {"connections", "joining", "messages", "disconnections", "sync"}
  /\ batch \in Seq(Socket)
  /\ todo \in SUBSET Socket
  /\ entity \in [Socket -> {"none", "bare", "joined", "doomed", "gone"}]
  /\ zone \in SUBSET Socket
  /\ condemned \in SUBSET Socket

MessageTypeOK ==
  /\ inbox \in Seq(Message)
  /\ sent \in [Socket -> Seq(Kind)]
  /\ early \in [Socket -> 0 .. MaxMessages]
  /\ heeded \in [Socket -> Seq(1 .. MaxMessages)]
  /\ lost \in [Socket -> SUBSET (1 .. MaxMessages)]

TypeOK == SessionTypeOK /\ MessageTypeOK

Init ==
  /\ link = [s \in Socket |-> "unused"]
  /\ sending = [s \in Socket |-> FALSE]
  /\ held = None
  /\ dying = [t \in Thread |-> None]
  /\ half = [t \in Thread |-> FALSE]
  /\ opens = <<>> /\ inbox = <<>> /\ closes = {}
  /\ stage = "connections" /\ batch = <<>> /\ todo = {}
  /\ entity = [s \in Socket |-> "none"]
  /\ zone = {} /\ condemned = {}
  /\ sent = [s \in Socket |-> <<>>]
  /\ early = [s \in Socket |-> 0]
  /\ heeded = [s \in Socket |-> <<>>]
  /\ lost = [s \in Socket |-> {}]

-----------------------------------------------------------------------------
(* References to a socket                                                  *)

\* A pending handshake or read refers to the socket, as its sends do.
Pending(s) == link[s] \in {"handshake", "open"}

\* weak_ptr::lock succeeds: some shared_ptr to the socket is left.
Alive(s) == Pending(s) \/ sending[s] \/ held = s

\* Thread t has dropped a reference to s; with the last one it enters ~socket.
DropRef(t, s, others) ==
  dying' = IF others THEN dying ELSE [dying EXCEPT ![t] = s]

\* The network thread is between two callbacks.
NetworkFree == dying["network"] = None

\* The game thread is not inside a socket's destructor, nor holding one.
GameFree == dying["game"] = None /\ held = None

-----------------------------------------------------------------------------
(* The network thread: the socket callbacks                                *)

\* socket_listener accepts a connection: a new socket starts its handshake.
Connect(s) ==
  /\ NetworkFree /\ link[s] = "unused"
  /\ link' = [link EXCEPT ![s] = "handshake"]
  /\ UNCHANGED <<sending, held, dying, half, queues, game, world, history>>

\* on_accept with an error: nothing is posted, the only reference is gone.
HandshakeFails(s) ==
  /\ NetworkFree /\ link[s] = "handshake"
  /\ link' = [link EXCEPT ![s] = "ended"]
  /\ DropRef("network", s, FALSE)
  /\ UNCHANGED <<sending, held, half, queues, game, world, history>>

\* on_accept: post on_open, start reading.
Open(s) ==
  /\ NetworkFree /\ link[s] = "handshake"
  /\ link' = [link EXCEPT ![s] = "open"]
  /\ opens' = Append(opens, s)
  /\ UNCHANGED <<sending, held, dying, half, inbox, closes, game, world, history>>

\* on_read with a message of at least two bytes: post it, read on.
Receive(s) ==
  /\ NetworkFree /\ link[s] = "open" /\ Len(sent[s]) < MaxMessages
  /\ \E kind \in Kind :
       /\ inbox' = Append(inbox, [from |-> s, n |-> Len(sent[s]) + 1, kind |-> kind])
       /\ sent' = [sent EXCEPT ![s] = Append(@, kind)]
  /\ UNCHANGED <<sockets, opens, closes, game, world, early, heeded, lost>>

\* Mutant: the close is reported where the error is seen, not by ~socket.
ReadFails_PostsClose(s) ==
  /\ NetworkFree /\ link[s] = "open"
  /\ link' = [link EXCEPT ![s] = "ended"]
  /\ dying' = [dying EXCEPT !["network"] = s]
  /\ UNCHANGED <<sending, held, half, queues, game, world, history>>

\* on_read with an error (the peer closed, vanished or broke the protocol).
ReadFails(s) ==
  /\ NetworkFree /\ link[s] = "open"
  /\ link' = [link EXCEPT ![s] = "ended"]
  /\ DropRef("network", s, sending[s] \/ held = s)
  /\ UNCHANGED <<sending, held, half, queues, game, world, history>>

\* The last of s's posted sends and writes completes, or fails.
SendsEnd(s) ==
  /\ NetworkFree /\ sending[s]
  /\ sending' = [sending EXCEPT ![s] = FALSE]
  /\ DropRef("network", s, Pending(s) \/ held = s)
  /\ UNCHANGED <<link, held, half, queues, game, world, history>>

-----------------------------------------------------------------------------
(* ~socket, on either thread                                               *)

\* session::on_close, first statement: enqueue the id.
EnqueueClose(t) ==
  /\ dying[t] # None /\ ~half[t]
  /\ closes' = closes \cup {dying[t]}
  /\ half' = [half EXCEPT ![t] = TRUE]
  /\ UNCHANGED <<link, sending, held, dying, opens, inbox, game, world, history>>

\* Second statement: count it; the destructor returns.
CountClose(t) ==
  /\ half[t]
  /\ half' = [half EXCEPT ![t] = FALSE]
  /\ dying' = [dying EXCEPT ![t] = None]
  /\ UNCHANGED <<link, sending, held, queues, game, world, history>>

-----------------------------------------------------------------------------
(* The game thread: session::handle_connections                            *)

\* Mutant: the batch has one entry more than the queue filled.
TakeOpens_OneMore ==
  /\ stage = "connections" /\ GameFree
  /\ batch' = Append(opens, None)
  /\ opens' = <<>>
  /\ entity' = [s \in Socket |-> IF s \in Range(opens) THEN "bare" ELSE entity[s]]
  /\ stage' = "joining"
  /\ UNCHANGED <<sockets, inbox, closes, todo, zone, condemned, history>>

\* Take the batch and create its entities, all of them at once.
TakeOpens ==
  /\ stage = "connections" /\ GameFree
  /\ batch' = opens
  /\ opens' = <<>>
  /\ entity' = [s \in Socket |-> IF s \in Range(opens) THEN "bare" ELSE entity[s]]
  /\ stage' = IF opens = <<>> THEN "messages" ELSE "joining"
  /\ UNCHANGED <<sockets, inbox, closes, todo, zone, condemned, history>>

\* Mutant: the socket is not looked at before its session joins.
Join_Unchecked ==
  /\ stage = "joining" /\ GameFree
  /\ LET s == Head(batch) IN
       /\ held' = s
       /\ sending' = [sending EXCEPT ![s] = TRUE]
       /\ entity' = [entity EXCEPT ![s] = "joined"]
       /\ zone' = zone \cup {s}
       /\ early' = [early EXCEPT ![s] = Len(sent[s])]
  /\ batch' = Tail(batch)
  /\ stage' = IF Len(batch) = 1 THEN "messages" ELSE "joining"
  /\ UNCHANGED <<link, dying, half, queues, todo, condemned, sent, heeded, lost>>

\* The socket is still there: lock it, give the entity its components, put it
\* on the map, send it its ID.
Join ==
  /\ stage = "joining" /\ GameFree
  /\ LET s == Head(batch) IN
       /\ Alive(s)
       /\ held' = s
       /\ sending' = [sending EXCEPT ![s] = TRUE]
       /\ entity' = [entity EXCEPT ![s] = "joined"]
       /\ zone' = zone \cup {s}
       /\ early' = [early EXCEPT ![s] = Len(sent[s])]
  /\ batch' = Tail(batch)
  /\ stage' = IF Len(batch) = 1 THEN "messages" ELSE "joining"
  /\ UNCHANGED <<link, dying, half, queues, todo, condemned, sent, heeded, lost>>

\* The socket is gone: handle_connections returns, and the rest of the batch
\* goes with it.
Abandon ==
  /\ stage = "joining" /\ GameFree
  /\ ~Alive(Head(batch))
  /\ batch' = <<>>
  /\ stage' = "messages"
  /\ UNCHANGED <<sockets, queues, todo, world, history>>

\* `sock` goes out of scope.
Release ==
  /\ held # None
  /\ held' = None
  /\ DropRef("game", held, Pending(held) \/ sending[held])
  /\ UNCHANGED <<link, sending, half, queues, game, world, history>>

-----------------------------------------------------------------------------
(* session::handle_messages                                                *)

\* The elements of q that are in `wanted`, in order.
Among(q, wanted) ==
  LET among[i \in 0 .. Len(q)] ==
        IF i = 0 THEN <<>>
        ELSE IF q[i] \in wanted THEN Append(among[i - 1], q[i]) ELSE among[i - 1]
  IN among[Len(q)]

MessagesOf(s, kinds) == [from : {s}, n : 1 .. MaxMessages, kind : kinds]

\* Mutant: the messages of a session are grouped last in, first out.
From_Reversed(s) == Reverse(Among(inbox, MessagesOf(s, Kind)))

\* s's messages in the batch, in order.
From(s) == Among(inbox, MessagesOf(s, Kind))

\* Mutant: the first message without data ends the turn of every session.
Handled_Any(s) ==
  LET bare == {i \in DOMAIN From(s) : From(s)[i].kind = "bare"}
      reach == IF \E i \in DOMAIN inbox : inbox[i].kind = "bare" THEN 0
               ELSE IF bare = {} THEN Len(From(s)) ELSE Min(bare) - 1
  IN Among(SubSeq(From(s), 1, reach), MessagesOf(s, {"full"}))

\* Those handed to a handler: one without an opcode is passed over, the first
\* without data ends the session's turn.
Handled(s) ==
  LET bare == {i \in DOMAIN From(s) : From(s)[i].kind = "bare"}
      reach == IF bare = {} THEN Len(From(s)) ELSE Min(bare) - 1
  IN Among(SubSeq(From(s), 1, reach), MessagesOf(s, {"full"}))

Numbers(q) == [i \in DOMAIN q |-> q[i].n]

\* The whole batch at once: handlers touch only the registry, which no other
\* thread does.  Messages of a client without a session fall through.
HandleMessages ==
  /\ stage = "messages" /\ GameFree
  /\ LET handled == [s \in Socket |-> IF entity[s] = "joined"
                                     THEN Numbers(Handled(s)) ELSE <<>>]
     IN /\ heeded' = [s \in Socket |-> heeded[s] \o handled[s]]
        /\ lost' = [s \in Socket |->
             lost[s] \cup (Range(Numbers(From(s))) \ Range(handled[s]))]
  /\ inbox' = <<>>
  /\ stage' = "disconnections"
  /\ UNCHANGED <<sockets, opens, closes, batch, todo, world, sent, early>>

-----------------------------------------------------------------------------
(* session::handle_disconnections                                          *)

\* The events counted: CountedQueue shows that the counter is the length of
\* the queue, less the posts that are half done.
Counted == Cardinality(closes) - Cardinality({t \in Thread : half[t]})

HasSession(s) == entity[s] \in {"joined", "doomed"}

\* Mutant: the queue is emptied, whatever part of it was counted.
HandleDisconnections_Clear ==
  /\ stage = "disconnections" /\ GameFree
  /\ \E ids \in SUBSET closes :
       /\ Cardinality(ids) = Counted
       /\ LET leaving == {s \in ids : HasSession(s)} IN
            /\ zone' = zone \ leaving
            /\ condemned' = condemned \cup leaving
            /\ entity' = [s \in Socket |-> IF s \in leaving THEN "doomed" ELSE entity[s]]
  /\ closes' = {}
  /\ todo' = {s \in Socket : HasSession(s)}
  /\ stage' = "sync"
  /\ UNCHANGED <<sockets, opens, inbox, batch, history>>

\* Mutant: the entity is destroyed and stays on the map.
HandleDisconnections_KeepMap ==
  /\ stage = "disconnections" /\ GameFree
  /\ \E ids \in SUBSET closes :
       /\ Cardinality(ids) = Counted
       /\ closes' = closes \ ids
       /\ LET leaving == {s \in ids : HasSession(s)} IN
            /\ condemned' = condemned \cup leaving
            /\ entity' = [s \in Socket |-> IF s \in leaving THEN "doomed" ELSE entity[s]]
  /\ todo' = {s \in Socket : HasSession(s)}
  /\ stage' = "sync"
  /\ UNCHANGED <<sockets, opens, inbox, batch, zone, history>>

\* Which of the queued ids make up the count is up to the queue.  Their
\* sessions leave the map, and their entities wait for the end of the tick.
HandleDisconnections ==
  /\ stage = "disconnections" /\ GameFree
  /\ \E ids \in SUBSET closes :
       /\ Cardinality(ids) = Counted
       /\ closes' = closes \ ids
       /\ LET leaving == {s \in ids : HasSession(s)} IN
            /\ zone' = zone \ leaving
            /\ condemned' = condemned \cup leaving
            /\ entity' = [s \in Socket |-> IF s \in leaving THEN "doomed" ELSE entity[s]]
  /\ todo' = {s \in Socket : HasSession(s)}
  /\ stage' = "sync"
  /\ UNCHANGED <<sockets, opens, inbox, batch, history>>

-----------------------------------------------------------------------------
(* sync::update, and the end of world::update                              *)

\* The session's socket is still there: lock it and send it the state.
SendState(s) ==
  /\ stage = "sync" /\ GameFree /\ s \in todo /\ Alive(s)
  /\ held' = s
  /\ sending' = [sending EXCEPT ![s] = TRUE]
  /\ todo' = todo \ {s}
  /\ UNCHANGED <<link, dying, half, queues, stage, batch, world, history>>

\* It is gone: the session gets nothing.
SkipState(s) ==
  /\ stage = "sync" /\ GameFree /\ s \in todo /\ ~Alive(s)
  /\ todo' = todo \ {s}
  /\ UNCHANGED <<sockets, queues, stage, batch, world, history>>

\* registry::destroy_queued, and the tick is over.
DestroyQueued ==
  /\ stage = "sync" /\ GameFree /\ todo = {}
  /\ entity' = [s \in Socket |-> IF s \in condemned THEN "gone" ELSE entity[s]]
  /\ condemned' = {}
  /\ stage' = "connections"
  /\ UNCHANGED <<sockets, queues, batch, todo, zone, history>>

-----------------------------------------------------------------------------

Callback(s) ==
  \/ Connect(s) \/ HandshakeFails(s) \/ Open(s)
  \/ Receive(s) \/ ReadFails(s) \/ SendsEnd(s)

Destructor(t) == EnqueueClose(t) \/ CountClose(t)

Update ==
  \/ TakeOpens \/ Join \/ Abandon \/ Release
  \/ HandleMessages
  \/ HandleDisconnections
  \/ \E s \in Socket : SendState(s) \/ SkipState(s)
  \/ DestroyQueued

Next ==
  \/ \E s \in Socket : Callback(s)
  \/ \E t \in Thread : Destructor(t)
  \/ Update

SafeSpec == Init /\ [][Next]_vars

\* The game loop runs for as long as the server does, a destructor runs to
\* its end, and once a connection has ended its outstanding sends complete
\* (with an error, if in no other way).
Fairness ==
  /\ WF_vars(Update)
  /\ \A t \in Thread : WF_vars(Destructor(t))
  /\ \A s \in Socket : SF_vars(link[s] = "ended" /\ SendsEnd(s))

Spec == SafeSpec /\ Fairness

-----------------------------------------------------------------------------
(* Safety                                                                  *)

\* A session whose socket is gone is never overlooked: the close event that
\* will end it is queued, or the destructor that posts it is running.  The
\* event cannot have come too early, in the tick before the session joined,
\* because joining takes a lock on the socket.
NoGhostSession ==
  \A s \in Socket : entity[s] = "joined" /\ ~Alive(s)
                       => s \in closes \/ \E t \in Thread : dying[t] = s

\* A session is ended only once nothing can use its socket any more: neither
\* the game loop nor an operation of the network thread.
NoPhantomKick ==
  \A s \in Socket : entity[s] \in {"doomed", "gone"} => ~Alive(s)

\* The map lists the entities of the sessions that are in, at every point of
\* the tick: map.erase finds the entity it is given, and no STATE names an
\* entity that waits for its destruction.
ZoneIsJoined == zone = {s \in Socket : entity[s] = "joined"}

\* A client that sync reaches finds itself in the STATE it gets.
StateNamesReceiver ==
  stage = "sync" => \A s \in todo : Alive(s) => s \in zone

\* s's messages that wait in the queue.
Waiting(s) == {inbox[i].n : i \in {j \in DOMAIN inbox : inbox[j].from = s}}

\* Every message is waiting, handled or lost, and only one of them; handlers
\* see a client's messages in the order it sent them.
MessagesAccountedFor ==
  \A s \in Socket :
    LET done == Range(heeded[s]) IN
      /\ done \cup lost[s] \cup Waiting(s) = 1 .. Len(sent[s])
      /\ done \cap lost[s] = {} /\ (done \cup lost[s]) \cap Waiting(s) = {}
      /\ \A i, j \in DOMAIN heeded[s] : i < j => heeded[s][i] < heeded[s][j]

\* While its session is in, a client loses no message but those that came
\* before it joined, those without an opcode, and those with or behind one of
\* its own that had no data; what another client sends costs it nothing.
LostOnlyWhenDue ==
  \A s \in Socket : entity[s] = "joined" =>
    \A n \in lost[s] :
      \/ n <= early[s]
      \/ sent[s][n] = "void"
      \/ \E k \in 1 .. n : sent[s][k] = "bare"

-----------------------------------------------------------------------------
(* Refinement and liveness                                                 *)

\* What Presence sees of the sockets: a socket is up until its last reference
\* is gone.
Line == [s \in Socket |-> IF link[s] = "unused" THEN "new"
                          ELSE IF Alive(s) THEN "up" ELSE "down"]

\* And of the entities: a player is in while the map lists it.
Place == [s \in Socket |-> IF s \in zone THEN "in"
                           ELSE IF entity[s] \in {"doomed", "gone"} THEN "left"
                           ELSE "out"]

\* The server keeps what Presence promises: a session enters the world only
\* while its socket is alive, and leaves it if and only if it is dead.
P == INSTANCE Presence WITH line <- Line, place <- Place
ImplementsPresence == P!Spec
KeepsPresence == P!SafeSpec

\* Whoever hangs up, at whatever moment of joining or of a tick, is in the
\* end out of the world for good: no reference the game loop takes to send a
\* state keeps the socket from dying, and no race revives the session.
LeavesForGood ==
  \A s \in Socket : (link[s] = "ended") ~> [](entity[s] \notin {"joined", "doomed"})

\* "Game state synchronization": a client that stays connected gets into the
\* world.
EveryOpenClientJoins ==
  \A s \in Socket : (link[s] = "open") ~> (entity[s] = "joined" \/ link[s] = "ended")

=============================================================================
