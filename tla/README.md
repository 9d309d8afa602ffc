# Verification of the platformer server

TLA+ models of the server in `src/`, TLC configurations that check them on small
instances, and TLAPS proofs of the results that matter most for every instance.
Line numbers refer to the files under `src/src/`.

- [The system](#the-system)
- [What is modelled, and how](#what-is-modelled-and-how)
- [The runs](#the-runs)
- [The proofs](#the-proofs)
- [Findings](#findings)
- [Other observations](#other-observations)
- [What is not modelled](#what-is-not-modelled)
- [Plan](#plan)
- [Running the checks](#running-the-checks)

## The system

A WebSocket game server. Two threads:

- the **network thread** (`main.cpp:77`) runs `ioc.run()`: it accepts
  connections and runs every socket callback;
- the **game thread** (the loop of `main.cpp:126`) calls `world::update` once per
  tick; `update` runs the systems session, movement and sync, in that order, and
  then destroys the entities queued for destruction.

They share three event queues, each with an atomic counter, and the sockets,
which the game thread reaches only through weak pointers. Nothing closes a
socket: it dies with its last reference, on whichever thread drops it, and its
destructor reports the close.

| Component | State | Operations | Talks to |
|---|---|---|---|
| Socket (`network/socket.cpp`) | stream, read buffer, `wbuffer_`, `writing_`, reference count | open, on_accept, on_read, send, on_send, on_write, ~socket | handler callbacks (on_open, on_message, on_close), the executor |
| Listener (`network/socket_listener.cpp`, `common/sequence.h`) | acceptor, id sequence | open, on_accept | creates sockets |
| Session queues (`game/system/session.cpp:29-84`) | three concurrent queues, three counters | enqueue and count; load, subtract, dequeue in bulk | posted to by both threads, drained by the game thread |
| Session system (`game/system/session.cpp`) | entities with a session component | handle_connections, handle_messages, handle_disconnections | registry, map, sockets, message handlers |
| World, registry (`game/world.cpp`) | systems in order, entities, destroy queue | update, destroy, destroy_queued | systems |
| Map (`game/map.cpp`) | zones with bounds, boxes and entities; entity to zone | insert, erase, transfer, load | session, sync, movement |
| Sync (`game/system/sync.cpp`) | none | update: a STATE message to every session | map, sockets |
| Packets and handlers (`network/handler.cpp`) | input and body of an entity | INPUT, TOGGLE | registry |
| Movement, collision (`game/system/movement.cpp`, `game/collision.cpp`) | body, collider | jump state machine, integration, bounds, boxes | map |
| Metrics (`network/metrics.cpp`) | atomic counters | connection, disconnection, read, write, measure | sockets, both threads |
| Main (`main.cpp`) | exit flag, network thread handle | start, tick, stop and join | everything |
| Database (`database/connection.cpp`) | mutex, connection, names of prepared statements | query, transaction, prepare, unprepare | libpqxx |
| Ordered containers (`common/ordered_hash.h`) | buckets, values in insertion order | insert, erase, find, rehash | world's systems, zones |

What is hard in it, and what correctness means:

- **Session queues.** Enqueue and count are two steps, load and subtract are two
  steps, and both threads post. *Correct:* a batch never claims more than is
  queued (otherwise default-constructed events of socket 0 would be handled),
  each thread's events come out in order and once, and none is left for good.
- **Session life.** A connection is handled a tick after it was posted, by when
  its socket may have died and its close event been drawn already; a close may
  come from either thread, in the middle of a tick; sync and joining keep a
  socket alive while they send to it. *Correct:* no session outlives its client
  unnoticed, no session is ended while its client is connected, the map lists
  exactly the sessions that are in, whoever hangs up is in the end out.
- **Messages.** They arrive before, with and after their session, are regrouped
  by session and may end their session's turn. *Correct:* every message is
  handled in order or lost for a known reason that is its own client's.
- **Socket.** A stream takes one write at a time while sends are posted from the
  other thread; errors strike at any point. *Correct:* one write, sends in order
  and without gaps, no message left waiting, exactly one close, last.
- **Movement and collision.** Keys, mode switches, gravity, walls and boxes act on a
  body tick after tick. *Correct:* two jumps between landings whatever is pressed,
  only the ground gives them back, a body is never left inside a box or beyond a
  wall, and one that walks comes down.
- **Main, listener, metrics.** A signal, a clock that is set, failed accepts and
  pending callbacks meet the loop and its shutdown; two threads count connections.
  *Correct:* the loop goes on ticking until it is told to exit, the exit always
  comes through, nothing is destroyed while the network thread uses it, the count
  is that of the open sockets or less.
- **Database.** Tasks outlive the call that checked for them, and the object.
  *Correct:* a task finds its statement, every future is settled.
- **Ordered containers.** Every change of order renumbers the buckets, every erasure
  closes a gap in them. *Correct:* each key is found at its value after any sequence
  of operations, and the order is that of insertion.

## What is modelled, and how

| Module | Models |
|---|---|
| `Mailbox` | abstract: what the session system needs of an event queue: put, announce, claim, take a full batch |
| `CountedQueue` | one queue-and-counter pair, every load, addition and queue operation a step; implements `Mailbox` |
| `Presence` | abstract: who is in the world, relative to who is connected |
| `GameServer` | session system, sync, world, map and the references to sockets, both threads; implements `Presence` |
| `SocketContract` | abstract: what a socket promises its handler and its sender |
| `Socket` | one socket's read loop, write queue, references; implements `SocketContract` |
| `OrderedMap` | abstract: what the ordered map promises |
| `OrderedHash` | the hash table behind the ordered map and set; implements `OrderedMap` |
| `Collision` | `hit` and the push out of a box, as operators |
| `Movement` | one player's body, its handlers, the movement system, its zone |
| `Metrics` | the connection count, every access a step |
| `Process` | main thread, network thread, signals, listener, lifetime of sockets; composes `Metrics` |
| `Database` | the database connection, its callers and its tasks |
| `MCCountedQueue`, `MCGameServer`, `MCSocket`, `MCOrderedHash`, `MCMovement`, `MCProcess`, `MCDatabase` | instances for TLC |
| `CountedQueueProofs`, `GameServerProofs`, `SocketProofs`, `OrderedHashProofs`, `MovementProofs` (with `Collision`'s), `ProcessProofs`, `DatabaseProofs` | theorems and proofs |
| `Recursion` | lemmas: what a loop computes |

Operators named `X_Something` under a comment `Mutant:` are deliberately wrong
variants of `X`; nothing refers to them. They document which error each property
tells from the code.

### CountedQueue

`queue[p]` is the sub-queue moodycamel's queue keeps for producing thread `p`,
`counter` the atomic beside it, `claimed` the local `num_connections` (or
`num_messages`, `num_disconnections`). The callbacks on_open, on_message and
on_close are `Enqueue` and `Publish`; the head of the three handle_ functions,
the same text three times, is `Load`, `Subtract`, `Dequeue`. The bulk dequeue
takes any split over the sub-queues; if it came short, the vector's remaining
default-constructed entries would be handled as events, which `defaulted` counts.

`Mailbox` does not know of the two halves. An event is put and then announced, which
it can only be once it is there; all that is announced is claimed in one step; and
what is taken is exactly as much as was claimed. In the mapping the load is the claim
(`announced` is the counter less what is about to be subtracted), the subtraction is
no step at all, and a bulk dequeue that comes up short is none the mailbox can take.

The game thread posts only between two batches (`MayRun`): it posts from
~socket, which it can only run while it holds no batch half taken.

### GameServer

One action per callback or handler.

| State | Code |
|---|---|
| `link[s]`, `sending[s]`, `held` | the kinds of reference to a socket: pending handshake or read; posted sends and writes; the game thread's local `sock` |
| `dying[t]`, `half[t]` | thread `t` is in ~socket, and between the two statements of on_close |
| `opens`, `inbox`, `closes` | connection_queue_, message_queue_, disconnection_queue_ |
| `stage`, `batch`, `todo` | where `world::update` is; what is left of the loops in handle_connections and sync |
| `entity[s]` | no entity, created without components, with its session, queued for destruction, destroyed |
| `zone`, `condemned` | entities listed in zone 0; destroy_queue_ |
| `sent`, `early`, `heeded`, `lost` | history |

Steps are joined where no other thread can tell the difference:

- Connections and messages are posted by the network thread alone. `CountedQueue`
  shows that a batch is then a prefix of the queue, so taking one is a single
  step. Disconnections are posted by both threads: there enqueue and count stay
  apart, and `Counted`, the number a batch claims, is the length of the queue less
  the posts that are half done. (That equation is part of the invariant proved in
  `CountedQueueProofs`.) Which ids make up that number is left open, as the
  dequeue takes from two sub-queues.
- handle_messages and handle_disconnections touch, besides their queue, only the
  registry and the map, which the network thread does not know.
- Locking a socket, giving the entity its components and posting the ID message
  is one step; letting the lock go is another, so that a socket can lose every
  other reference in between and then dies on the game thread.
- `sending` says whether any posted send or write is left; which, and in what
  order they are written, is `Socket`'s matter.

`Abandon` is the early return of `session.cpp:94`: the first connection of a batch
whose socket is gone ends the loop for all behind it.

The write errors, the frame parsing and the JSON of a message are left out: a
message has no opcode (or does not parse: `from_cbor` is told not to throw and the
result has no fields), an opcode and no data, or both. `map.erase` (`map.cpp:104`) compares
the entity, and not what `find` returned, with `zone_ids.end()` before it dereferences
what `find` returned; the model reads it as finding the entity, and `ZoneIsJoined`
is what makes that reading safe: the entity is always there.

### Socket

`reader` is the pending handshake or read, `posted` the on_send handlers waiting
in the executor, `writes` the async_writes under way. A reference is left while
any of these is, or while the game thread holds its lock. `OnWriteError` leaves
`writing` set, as the early return of `socket.cpp:120` does.

### OrderedHash

A table is a record: `buckets` (a function from 0, as the code counts), `values` in
order, `threshold`, `maxLoad`, and `grow` for m_grow_on_next_insert. The private
methods of `ordered_hash.h` are operators from table to table, the public ones
actions on one or two of the `Maps`. `ordered_map.h` and `ordered_set.h` only forward
to the table; what the map's comments promise is `OrderedMap`, which knows nothing of
buckets: the refinement mapping drops them. The set is the same table with the key for
a value, and has no specification of its own.

Load factors are percentages, any positive one, as max_load_factor() takes it
(deserialize() refuses those outside 10 to 95, `Loadable`), and the hash of a key is a constant, so that an
instance can choose which keys collide and which wrap round the end of the array.
A loop of the code is a function of the rounds it has made (`Placed`, `ShiftIndexes`,
`RehashedTo`, `EraseScan`), and its body an operator from one round to the next
(`Carried`, `Renumbered`, `Reinserted`, `Scanned`). `Placed` stops after one round
through the buckets, where the code's loop would go on for ever in a full table;
`RoomToInsert` says that it never has to. That holds for factors up to 100 per cent,
and not above them (the run `overfull`).
The assertion of insert(first, last), which only TSL_DEBUG compiles in, is no guard of
the action: it does not hold (see [Other observations](#other-observations)).
The truncated hash, allocation and exceptions of element types are left out.

`Next` has every operation. Two of them do not keep the buckets right (see
[Findings](#findings)), so the passing run takes them where they do (`MCNext`):
insert_at_position only if no entry of the resulting table is displaced, erase of a
range only if no entry has wrapped, and both without restriction at the end of the
order. The two runs that expect a violation lift one restriction each. `PlainSpec`, the
specification of the theorems, has every operation but these two.

### Collision, Movement

Coordinates are integers, y grows downwards; rounding is left out. `Collision` has
the code's `delta`, `overlap` and choice of axis. `Update` is the whole of
`movement::update` for one body: `Steered` is the first loop with its jump state
machine, the addition of the velocity the second, `Fall`, `Clamped` and `AfterAll`
the third, with the bounds before the objects and one object after the other.
Bodies do not meet one another, and everything runs on the game thread, so one
body and whole actions are enough.

Two things the code does are easily taken for slips of the model: `Loaded` puts as
many empty boxes at the origin in front of the objects as there are objects
(`map.cpp:38` makes the vector with that size and then appends), and a body whose
session has ended moves once more in the empty zone (`Zone`, stage `doomed`), since
handle_disconnections takes it off the map a system before movement runs.

### Process, Metrics

`game` and `net` are where the two threads are; `caught` and `awaited` the state of
the signal set, `accepting` and `listening` that of the listener. Sockets appear only
as far as their lifetime goes: who holds them, and on which thread they die.
`Metrics` splits connection() and disconnection() into test, load and store, and
`Process` makes the calls where the code does: on_accept on the network thread,
~socket on either. `raced` remembers that a call was begun while the other thread was
in one.

The world is never destroyed: its systems hold a shared_ptr to it and it holds them.
Hence `Return` needs no step for it. A signal before the set is armed, or after
run() has returned, kills the process. The clock may be set back or ahead, and what
has elapsed beyond the interval is not told apart.

### Database

`owner` is the mutex; a call is `Call`, `Lock` and its body, a task `Lock` and
`RunTask`. async_query takes no lock. A body may fail wherever pqxx throws; a second
prepare under one name aborts the process (`aborted`), and so does an exception of an
unprepare in the destructor, which is noexcept. Tasks hold copies of the
pointers, so they run also after `Destroy`. `server` is what the database server has
prepared, which is pqxx's matter and external. In the program, main starts the world
without a database: the model is of the class, used by any number of threads.

## The runs

| Run | Instance | Asks |
|---|---|---|
| `counted_queue` | 2 threads, 3 posts each | Is the pair of queue and counter a mailbox? |
| `sessions` | 3 clients, no messages, fairness | Do session, map, socket and STATE agree at every step, does the server implement `Presence`, and is whoever hangs up in the end out? |
| `messages` | 2 clients, 2 messages each | Is every message handled in order or lost for its own reason? |
| `stranded_client` | 2 clients, fairness | Does a client that stays connected join? (It need not: the finding.) |
| `socket` | 4 sends, 2 messages read, fairness | Does a socket keep its contract? |
| `ordered_hash` | 2 tables, 3 keys, load factors 50 and 100 | Is the hash table an ordered map, and is there room for the next key? |
| `insert_at` | 1 table, 3 keys | Does insertion anywhere in the order keep the buckets right? (No: a finding.) |
| `erase_range` | 1 table, 3 keys | Does the erasure of any range? (No: a finding.) |
| `overfull` | 1 table, 3 keys, load factor 150 | Is there room with a load factor above the maximum? (No: a finding.) |
| `movement` | 16 by 14, 2 boxes, fairness | Does a body jump, land and collide as it should? |
| `process` | 3 connections, clock set twice, fairness | Does the process tick, exit and count? |
| `database` | 2 threads, 2 tasks, 2 statements, fairness | Do tasks find what they were started for, and end? |

What they show, property by property:

- `CounterNeverAhead`, `NothingInvented`: the counter never claims an event that
  is not queued, so no batch contains a default-constructed event.
- `ImplementsMailbox`: an event is announced only when it is in the queue, a post
  between load and subtraction belongs to the next batch, and a batch is as large as
  what was announced at the load: never short, never more.
- `InOrderOnce`, `EverythingArrives`: order per thread, no loss, no duplicate; what was counted is handled.
- `NoGhostSession`: a session with a dead socket always has its close event ahead.
  The hazard is a close drawn before the session joined; joining locks the socket,
  and that is what rules it out.
- `NoPhantomKick`: no session ends while anything can still use its socket. This
  rests on the close being posted by the destructor and by nothing else.
- `ZoneIsJoined`, `StateNamesReceiver`: map and registry agree at every step, also
  between the end of a session and the destruction of its entity at the end of the
  tick.
- `MessagesAccountedFor`, `LostOnlyWhenDue`: each message is waiting, handled or
  lost; a client whose session is in loses only what came before it joined, what
  has no opcode, and what lies behind a message of its own without data.
- `ImplementsPresence`, `LeavesForGood`: the server against `Presence`, with its
  fairness; sends in flight do not keep a departed client in.
- `OneWrite`, `SentInOrder`, `NeverStarved`, `DropsOnlyWhenBroken`,
  `CallbacksInOrder`, `ImplementsContract`, `SendsGoOut`, `EndsInClose`: the socket.
- `FindsWhatItHolds`: the lookup by buckets and a search of the values agree on every
  key after any sequence of operations. Copies, moves, swaps, reloads and every
  change of the load factor are among them.
- `RobinHoodOrder`: what lets a lookup stop early; displacement and backward shift
  both have to keep it. `RoomToInsert`: the values never outnumber the buckets and an
  insertion always ends in an empty one, whichever way the threshold was set last, for
  load factors of 100 per cent at most.
- `ImplementsOrderedMap`: the effect on the sequence of values
  is the one the interface states.
- `TwoJumps`, `LandsOnlyOnGround`: over any sequence of keys, of switches to flying and
  back, and of edges walked off. `jumps` counts what turns a body upwards, not what
  the state machine says it did.
- `InBoundsAndApart`: objects are looked at once each, after the bounds. This is right
  only in a zone with room for a player between its boxes and walls, as the
  repository's map file has; with a second box one unit from the first the run
  fails, since the push out of one ends in the other.
- `ComesDown`: a player that stays and walks stands again and again.
- `JoinedFirst`, `ShutsDown`: the exit takes things down in order, with callbacks,
  locks and failed accepts pending; stop and join never wait for one another.
- `KeepsTicking`: late ticks and a clock set either way do not stop the loop.
- `CountBounded`: destructors of sockets that never opened are counted down too, and
  the test against zero is what keeps the count from wrapping. It is stated for as
  long as the two threads have not been in the count at once; see
  [Other observations](#other-observations) for what happens when they have.
- `FindsStatement`: the check in async_execute and the run of its task are two
  critical sections. What keeps the statement there in between is that nothing
  short of the destructor takes any away.
- `AnswersArrive`: each future is settled, the object's end and exceptions under the
  mutex included.

**Bounds.** `CountedQueue`: three posts of each thread let a batch be empty, partial
(an event counted after the load) and full, with a post half done on either side,
and several batches follow one another. `GameServer`: the interaction of clients is
through a shared batch (a dead one before or behind a live one), the set of
disconnections and the sync loop; three clients allow one dead, one live and one
that changes under the loop. A client is one connection; ticks are unbounded. Two
messages each are enough for one to precede, join, or follow the session, and for
one without an opcode or without data to stand before another. `Socket`: four sends let one be written
while one is in the write queue, one in the executor and one is still to come.
`OrderedHash`: three keys in tables of 2, 4 and 8 buckets; two have one hash and the
third the next, so that entries are displaced, displace others, and wrap round the
end of a table of four; one probe is enough for the growth on long probes, and the
default of 75 per cent, 50 and 100 are on either side of it; 100 is the last factor that
leaves room. The second table, of at most one bucket,
is the other side of copies, moves and swaps. `Movement`: the player is 4 by 4 in a
zone of 16 by 14, a box on the floor and one in a corner, so that it can stand on, jump
against, fall off and walk into either from every side; speed 3, gravity 1, jump 4 and
fall at most 3 let it step over no box and reach both. `Process`: one
socket each may be counted, dying and never opened; the interval of two ticks and
a clock set twice cover early, due and late. The counter wraps at 4, one above what
three sockets can reach. `Database`: two of everything is the least with a rival.

`SYMMETRY` is used in `messages` only, which has no temporal property. Deadlock is not
checked where the system may really stop: a socket that is closed, a process that
has exited, a database object that is destroyed and whose tasks have run.

**Fairness.** `CountedQueue`: a tick comes again and again and a callback that has
enqueued goes on to count (strong, as the two alternate with the other thread in the
model); posting itself is not fair. `GameServer`: the game thread goes on
(`main.cpp:126` loops without blocking); a destructor runs to its end; the
outstanding sends of an ended connection complete. This last is an assumption about the
network library: once the connection is broken, a pending write fails, or its
timeout ends it (`socket.cpp` sets Beast's suggested timeouts). It is strong
fairness because the game thread can take a new reference between two completions.
No fairness is assumed of clients: they may stay for ever, or never speak.
`Socket`: a posted handler runs, a write ends one way or the other, the game thread
lets go of its lock, a due destructor runs.
`Movement`: update is called again and again, as `main.cpp:126` does. `Process`: both
threads go on, a caught signal is handled, the clock advances (weak); the loop over
the sockets in an update ends (strong: in the model it may lock one after the other
for ever). No fairness of clients, accepts or errors. `Database`: whoever waits for
the mutex gets it in the end (strong, for std::mutex on the supported platforms is
fair enough not to starve a thread for ever), and whoever has it goes on (weak): a
transaction ends or throws.

## The proofs

TLC decides instances; the theorems hold for every set of sockets, every number of
posts, messages, threads and statements, every key, hash, size and speed. Only the named
assumptions on constants are used: `None` is no socket, bounds and sizes are natural
numbers, hashes too, load factors are positive, the sockets of `Process` are finitely many. The
theorems about `OrderedHash` have one hypothesis more: no load factor reaches 100 per
cent.

**`CountedQueueProofs`** - `TypeCorrect`, `CounterSafe` (`CounterNeverAhead`),
`BatchesFull` (`NothingInvented`), `InOrder` (`InOrderOnce`), `Refinement` (the
pair implements `Mailbox`). The inductive invariant adds to the types one equation,

    counter + what the batch claims + posts half done = events queued    (Balance)

and that the counter does not fall between the load and the subtraction
(`LoadStillCounted`). `CounterNeverAhead` alone is not inductive: it does not say why
the counter may be raised. Since a batch never claims more than is queued, the
dequeue never comes up short, and the order of the events follows from what a cut
of a sequence at its front leaves (`CutSeq`, `TakeFromFacts`). `Refinement` needs all of
it: `Publish` is the mailbox's announcement only because of `Balance`, the load its claim
because nothing is claimed while the loop is idle (`IdleClaimsNothing`), and the dequeue
its full batch because of `NothingInvented`.

**`GameServerProofs`** - `SessionTypes`, `NoGhosts` (`NoGhostSession`), `NoKicks`
(`NoPhantomKick`), `MapAgrees` (`ZoneIsJoined`), `StateNames`
(`StateNamesReceiver`), `PresenceKept` (every behaviour of the server is one of
`Presence`, fairness aside). The inductive invariant follows a socket through its
life, because none of the properties is inductive alone:

- `NotYetOpen`, `NoRefBeforeJoin`: before on_open the game thread has nothing of the
  socket, and before it joined no reference to it;
- `DeadStaysDead`, `HalfInDestructor`, `HoldsOrDestroys`: once its destructor has
  started no reference comes back, the event in the queue included - this is what
  `NoPhantomKick` needs;
- `CloseAhead`: the event that ends a session with a dead socket is queued or not
  yet posted. It is stronger than `NoGhostSession` for the moment between the two
  statements of on_close, when the event is in the queue already;
- `OpensOnce`, `Joining`: a connection is drawn once, and its entity is still bare
  when its turn comes - what keeps `TakeOpens` from resetting a session, and `Join`
  from reviving one;
- `Lists`, `ZoneIsJoined`: the loops, the destroy queue and the map agree with the
  registry.

`NextIInv` has one step per action and, under it, one per part the action disturbs.
For `PresenceKept`, each action is matched with the step of `Presence` it takes, or
with none: a step that drops a reference is `Disconnect` if it was the last
(`LosesReference`), `Join` is `Enter`, `HandleDisconnections` is `Leave`.

`AccountedFor` (`MessagesAccountedFor`) and `LostForAReason` (`LostOnlyWhenDue`), with
`TypeCorrect` (`TypeOK`), follow from a second invariant, `Accounts`: the numbers of a
client's messages grow along the queue (`InboxInOrder`), the queue's messages are those
that were sent (`InboxAsSent`), and they are all greater than what has left it
(`Behind`) - without which a batch, handled in order, could still come after a later
one. `InboxInOrder`, `InboxAsSent` and `Behind` were model-checked on the instance of
`messages` before they were proved. handle_messages puts a batch into a multimap by
session and runs over each session's part until its first message without data:
`AmongIs` says what such a loop leaves of a sequence and in which order, `FromIs`,
`ReachIs` and `HandledIs` what the two loops make of the batch, and `HandleMessagesAt`
what that does to one client's account. The other actions do not touch the queue
(`OthersAccount`), and one that joins counts as early what came before (`JoinAccounts`).

**`SocketProofs`** - `TypeCorrect`, `OneWriteAtATime` (`OneWrite`), `InOrder`
(`SentInOrder`), `NeverLeft` (`NeverStarved`), `DropsNothing` (`DropsOnlyWhenBroken`),
`Callbacks` (`CallbacksInOrder`) and `Refinement` (every behaviour of a socket is one of
`SocketContract`: `ImplementsContract`). `OneWrite` is not inductive: nothing in it keeps
on_send from starting a second write. `Pipeline` is what the code relies on: as long as
no write has failed, writing_, a write under way and a queue that is not empty are one
and the same; after a failure writing_ stays set and no write is under way.
`DropsOnlyWhenBroken` then follows, since a destructor needs the last reference gone and
each write holds one. `Heard` ties the record of callbacks to the socket's life. In the
refinement on_send and on_write move a message from one of the contract's sequences to
the next or not at all (`HandOver`, `CatAppend`).

**`OrderedHashProofs`** - `AlwaysFound` (`FindsWhatItHolds`), `AlwaysOrdered`
(`RobinHoodOrder`) and `AlwaysRoom` (`RoomToInsert`), for `PlainSpec` and load factors
below 100 per cent (`BelowFull`). Both restrictions are the code's: with insertion at a
position or erasure of a range anywhere, `FindsWhatItHolds` is false, as the runs
`insert_at` and `erase_range` show, and max_load_factor lets through a factor with which
`RoomToInsert` is false, as `overfull` shows. A factor of exactly 100 is in the run
`ordered_hash`, and in no theorem: its thresholds are not below the number of buckets. None
of the three is inductive. The invariant (`SoundTables`) says of every table, `n` being its
number of buckets:

- `Filed`: the taken buckets are those of the values, each once, with the value's
  position and its key's hash; no key is held twice; and the buckets are in robin hood
  order (`Robin`, which is `RobinHoodOrder` with the remainders worked out);
- fewer values than buckets, unless there are two buckets at most;
- a threshold less than `n`, or 0.

The last two are what `RoomToInsert` rests on. `insert_impl` grows a table when the size
has reached the threshold; as a load factor is below 100 per cent, that leaves an
empty bucket behind - except in tables of one or two buckets, which may be full, but
then the threshold has been reached too. After a reload of compatible data the threshold
is 0 and the test always grows.

Positions on the ring of buckets are written without remainders (`Ahead`, `Behind`,
`Gap`), and `ProbedIs`, `RingIs` and `Around` say how they go together. `Chain` is why a
probe may stop early: from an entry back to its ideal bucket no bucket is empty, and
none holds an entry nearer to its ideal than the probe has come. With it `HeldIsMet` and
`UnheldIsNotMet` say what `find_key` finds and where `insert_impl` stops. For the walk of
`insert_index`, `Walking` is kept by each round (`WalkStep`): order and contents but for
the entry carried, which is due in the bucket it has come to, and as many taken buckets
passed as rounds made - so an empty bucket is met before the walk comes round
(`PlacedIs`). `ShiftKeeps` is the same for `backward_shift`, in one step, as the run it
moves ends before an empty bucket or an entry at its ideal. `ShiftedDown` shows that the
renumbering after an erasure takes each index behind the erased one down by one: the walk
from a value's hash meets the right bucket since no other has its index. (In an
insertion in the middle the new entry has it too, which is the finding.) `ReinsertedAll`
is the loop of `rehash_impl`.

`SoundTables` was model-checked on the instance of `ordered_hash`, with the load factors
50 and 75 and with the number of buckets in place of "some `n`", before it was proved.

**`MovementProofs`** - first, for all boxes with integer coordinates: `StaysABox`,
`PushedApart` (after the push the two do not overlap: touching, nested, concentric
and empty boxes included) and `LeastPush` (along one axis, and no further than
the boxes overlap on either). `InBoundsAndApart` meets a few positions only; this is
the part of it that a single object is responsible for.

Then for every size, speed, gravity and zone: `SpeedLimited`
(`SpeedLimits`, a conjunct of `Movement`'s `TypeOK`), inductive by itself, as a velocity
is kept, set by a key or a jump, or raised by gravity to a limit; and `TypeCorrect`
(`TypeOK`).

In a zone that is `Roomy`: `StaysInside` (`InBoundsAndApart`), `OnlyGroundGivesJumpBack`
(`LandsOnlyOnGround`) and `NoThirdJump` (`TwoJumps`). `Roomy` is stated beside the
properties of `Movement`: the zone is at least as large as the player; between any two
boxes there is room for it, side by side or one above the other; and between a box and a
wall there is room too, or the box's centre is so near to the wall that the push goes
away from it. It is what the code relies on without saying so, as it looks at the
bounds first and then once at each object; without it `InBoundsAndApart` is false, and
TLC finds the zone. The hypothesis is not empty: `MCMovement` has TLC evaluate it on the
zone of its run and on the repository's own map file, with the player's size of
`session.cpp:110`.

The argument: no object after the first that pushes the body finds it in its way. The push
leaves the body touching that object; in a roomy zone a body that touches one object is
within the bounds and overlaps no other, so that the rest of the loop leaves it there. `AfterAll` is the
loop, a function of the number of objects looked at; the invariant of the loop is
proved by `LoopInduction`. For `NoThirdJump` the inductive invariant (`JumpsCounted`,
model-checked on the run's 364,404 states) adds how the state machine and the count
go together: no jump in `NONE`, at most one once in `ONCE`, and a landing that resets
the one resets the other.

**`Recursion`** - a recursive function `f[i] == IF i = 0 THEN e ELSE step(f[i-1], i)` has
the values its equation says, and what holds at 0 and goes from `i - 1` to `i` holds to
the end. Both come from one fact, that a set of natural numbers that is not empty has a
least element (`LeastElement`), proved here without an operator parameter: an
induction is over a set of numbers, not over a predicate.

**`ProcessProofs`** - `TypeCorrect`; `ShutdownInOrder` (`JoinedFirst`), from
`ReturnedQuiet` (a network thread that has returned is in no callback) and `HeldInUpdate`
(sockets are locked in an update only): the first is what the join relies on, the
second why no lock is left when the loop ends; `CountCorrect` (`CountBounded`). For the
last the invariant has to say what the count is in the middle of a call (`Within`,
`InCall`): a connection counts its socket before its store, a disconnection after it,
and what was loaded is still the count because nobody else was in it.

**`DatabaseProofs`** - `TypeCorrect`, `TaskFindsStatement` (`FindsStatement`). The
invariant: server and object know the same names (`SameNames`), a waiting task's name
is among them while the object lives (`WaitingKnown`), and a destructor runs on a
dead object (`DestroyedDead`).

Only model-checked:

- liveness (`EverythingArrives`, `LeavesForGood`, the fairness part of `Presence`,
  `SendsGoOut`, `EndsInClose`, `ComesDown`, `ShutsDown`, `KeepsTicking`,
  `AnswersArrive`), which the prover does not do;
- that `OrderedHash` implements `OrderedMap`, what insertion and erasure in the middle of
  the order do where they keep the buckets right (`MCNext`), and a load factor of exactly
  100 per cent;
- what a tick does to a body in a zone that is not `Roomy`. The theorems say nothing
  of it, and the property fails there.

## Findings

### Stranded clients

`EveryOpenClientJoins` (run `stranded_client`) does not hold. handle_connections
takes the whole batch out of the queue and creates an entity for each connection,
then returns at the first whose socket is gone (`session.cpp:94`, `if (!sock)
return;`). The clients behind it in the batch stay connected, their messages are
received and dropped, and they never get a session, an ID or a STATE; their bare
entities are never destroyed. `README.md:18` lists game state synchronization among the features.
Two clients opening within one tick, the first of which hangs up before the loop
comes to it, are enough. A `continue` in place of the `return` would do.

`LostOnlyWhenDue` and `NoGhostSession` are about clients that are in, and hold
regardless.

### Insertion in the middle of an ordered container

`FindsWhatItHolds` (run `insert_at`) fails for `ordered_hash::insert_at_position_impl`
(`ordered_hash.h:1294`). It puts the new key's bucket into the table and then
renumbers the values behind it, by walking from each value's hash to the first
bucket with the old index. The new bucket has just that index. If it comes first on
the walk, it is renumbered in place of the other: the new key leads to its
neighbour's value, and a key the map holds is not found. In the run, a key is inserted in
front of a value of another hash and takes that value's bucket, which is carried on to
the next; an equal hash alone does not do it, as a newcomer stays behind the entries
with its own hash. The comment at `ordered_hash.h:1279` says that for
each value its own bucket is shifted.

### Erasing a range of an ordered container

`FindsWhatItHolds` (run `erase_range`) fails for `erase(first, last)`
(`ordered_hash.h:784`). It scans the buckets once, emptying those of erased values and
lowering the indices behind them. An entry that wrapped round to bucket 0 is lowered
there; when a bucket at the end is emptied, the backward shift brings that entry back
to it, and the scan, which stays on the bucket, lowers it again, or takes it for one
of the erased. The comment at `ordered_hash.h:781` says the indices of the values to
the right are adapted.

### Load factors above the maximum

`RoomToInsert` (run `overfull`) fails for tables with a load factor above 100 per cent,
which max_load_factor takes: it clamps its argument to 0.1 to 0.95
(`ordered_hash.h:960`, `1583-1584`), and assigns the argument itself two lines below. The
threshold is then above the number of buckets and the table fills; `insert_index` walks
until it meets an empty bucket, and there is none for the next key. deserialize
(`ordered_hash.h:1524`) refuses what such a table was saved as, also between 95 and 100
per cent and below 10.

The server calls none of the three: its containers keep the default load factor, are
filled at the end, one value after the other, and looked up.

## Other observations

Met while modelling, and in the models as they are in the code; no run expects them to
be wrong. The first contradicts an assertion of the code, the others no document of the
repository.

- insert(first, last) subtracts the size from the threshold in unsigned arithmetic
  (`ordered_hash.h:666`), and the next line asserts `m_load_threshold >= size()`. That is
  false already after one insertion into a default-constructed table: one bucket, a
  threshold of 0, a size of 1. It is false too of a table reloaded with its hashes
  (`ordered_hash.h:1531`: the threshold was computed for no buckets and stays 0) and of one
  whose load factor was lowered. With `TSL_DEBUG` the assertion stops a legal call; without
  it the difference wraps and the room for the new values is not reserved. Nothing worse
  comes of it: each insertion grows the table by itself, and in the run `ordered_hash`,
  which calls insert(first, last) on such tables, `RoomToInsert`, `FindsWhatItHolds` and
  `ImplementsOrderedMap` hold.
- The connection count can be wrong for good once two threads meet in it (a socket
  dying on the game thread while the network thread accepts another): without
  `~ raced`, `CountBounded` fails with a count of 2 for one open socket.
- unprepare_statement (`connection.cpp:77`) returns when the name is known, and asks the
  server to drop it when it is not. `FindsStatement` holds because of that: with the
  test the other way round a task can find its statement gone (its mutant). So no
  statement is ever unprepared, and the two critical sections of async_execute do no harm.
- Assigning a container to itself by move empties it.
- A player that walks off an edge has still both jumps: the state stays `NONE`.
- If the listener cannot open, bind or listen, it accepts all the same, fails, and the
  process runs on without a network.

## What is not modelled

- JSON and CBOR: a message with fields of the wrong type throws in a handler; what
  becomes of the exception is outside these models. Positions in a STATE are left out.
- `socket::close`, `closed` and on_close(error_code), `map::transfer` and `valid`,
  `world::remove_system` and the dispatcher's subscriptions have no caller.
- The backlog of `wbuffer_`: a peer that stops reading and keeps sending holds a
  write open while a STATE a tick is queued. The code sets no limit, so there is
  none to state; `SendsGoOut` assumes that a write ends.
- Socket ids are distinct in every model; their sequence is 32 bits wide and wraps
  after 2^32 connections (`sequence.h:23`), out of reach of an instance.
- The byte counters of metrics are raised on one thread, and measure() has no caller.
- Iterators, comparisons, allocation and exceptions of element types of the ordered
  containers: they change no table.
- Rounding of floating point in movement.
- Configuration, JSON helpers, logging, assertions, platform macros: no state after
  start.

## Plan

What is left is proofs:

1. `OrderedHash`: that it implements `OrderedMap` under `PlainSpec`, from `SoundTables`
   and what each operation does to the values; and erasure at the end of the order.
2. `OrderedMap`: no key twice, after every operation.

Components meet as follows: `GameServer` takes its queues from `CountedQueue` (by the
argument above) and its sockets from `SocketContract` (one close, last); `Movement`
reads the inputs that `GameServer`'s handlers set; `Process` bounds the life of all
of them and composes `Metrics`; world and map keep their systems and zones in the
maps of `OrderedHash`, filled at the end and looked up.

## Running the checks

In this directory: `tlc -config Sessions.cfg MCGameServer.tla` (and so on, see
PROJECT.json for the pairs) and `tlapm GameServerProofs.tla`. The longest runs,
`ordered_hash`, `movement`, `process` and `messages`, take one to two minutes each with
two workers; `messages` has 4.5 million states.
