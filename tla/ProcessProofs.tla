--------------------------- MODULE ProcessProofs ----------------------------
(***************************************************************************)
(* For any number of connections, any interval and any width of the count: *)
(* the types, the order of the shutdown, and the count of connections      *)
(* while the two threads do not meet in it.                                *)
(***************************************************************************)
EXTENDS Process, FiniteSetTheorems, TLAPS

(***************************************************************************)
(* The metrics, whoever calls them.                                        *)
(***************************************************************************)
\* What a store writes is a value of the counter, one up or one down unless it
\* wraps round.
LEMMA Wrapped ==
  ASSUME NEW n \in Counts
  PROVE  /\ (n + 1) % Wrap \in Counts /\ (n + 1) % Wrap <= n + 1
         /\ (n - 1) % Wrap \in Counts
         /\ n > 0 => (n - 1) % Wrap = n - 1
<1>1. CASE n + 1 < Wrap
  BY <1>1, WrapAssumption, SMT DEF Counts
<1>2. CASE n + 1 = Wrap
  BY <1>2, WrapAssumption, SMT DEF Counts
<1> QED BY <1>1, <1>2, WrapAssumption DEF Counts

\* The states of a thread's call.
Calls == [at : Steps, loaded : Counts]

\* A thread in no call is in the state of one that is idle.
LEMMA IdleCall == Idle \in Calls /\ Idle.at = "idle"
<1>1. 0 \in Counts
  BY WrapAssumption DEF Counts
<1> QED BY <1>1 DEF Idle, Calls, Steps

\* The metrics keep their types, in every call and at its beginning.
LEMMA MetricsTypes ==
  ASSUME MetricsTypeOK, NEW t \in Threads,
         \/ Connection(t) \/ Disconnection(t) \/ CallStep(t) \/ UNCHANGED metrics
  PROVE  MetricsTypeOK'
<1>1. CASE Connection(t) \/ Disconnection(t)
  BY <1>1 DEF MetricsTypeOK, Connection, Disconnection, Begin, Steps
<1>2. CASE Test(t)
  <2>1. [at |-> "load to lower", loaded |-> 0] \in Calls
    BY WrapAssumption DEF Calls, Steps, Counts
  <2>2. \E c \in Calls : call' = [call EXCEPT ![t] = c]
    BY <1>2, <2>1, IdleCall DEF Test
  <2> QED BY <1>2, <2>2 DEF MetricsTypeOK, Test, Calls
<1>3. CASE Load(t)
  BY <1>3 DEF MetricsTypeOK, Load, Steps
<1>4. CASE Store(t)
  <2>1. call[t].loaded \in Counts
    BY DEF MetricsTypeOK
  <2>2. connections' \in Counts
    BY <1>4, <2>1, Wrapped DEF Store
  <2> QED BY <1>4, <2>2, IdleCall DEF MetricsTypeOK, Store, Calls
<1>5. CASE UNCHANGED metrics
  BY <1>5 DEF MetricsTypeOK, metrics
<1> QED BY <1>1, <1>2, <1>3, <1>4, <1>5 DEF CallStep

\* The call under way, if it is at a step with the count at cs and n sockets.
InCall(n, cs, c) ==
  \/ c.at = "load to raise" /\ cs + 1 <= n
  \/ c.at = "raise" /\ c.loaded = cs /\ cs + 1 <= n
  \/ c.at = "test" /\ cs <= n + 1
  \/ c.at = "load to lower" /\ cs > 0 /\ cs <= n + 1
  \/ c.at = "lower" /\ c.loaded = cs /\ cs > 0 /\ cs <= n + 1

AllIdleBut(t, calls) == \A u \in Threads \ {t} : calls[u] = Idle

\* The count cs is in order for n sockets: between calls it is at most n; the
\* one call under way is about to make it so.
Within(n, cs, calls) ==
  \/ cs <= n /\ \A t \in Threads : calls[t] = Idle
  \/ \E t \in Threads : AllIdleBut(t, calls) /\ InCall(n, cs, calls[t])

\* A call is begun on its own: the count was in order until then.
LEMMA BeginsQuiet ==
  ASSUME MetricsTypeOK, NEW n \in Nat, ~ raced => Within(n, connections, call),
         NEW t \in Threads, NEW step, Begin(t, step), ~ raced'
  PROVE  /\ connections <= n /\ connections \in Nat
         /\ connections' = connections
         /\ call'[t].at = step /\ AllIdleBut(t, call')
<1>1. ~ raced /\ \A u \in Threads : call[u] = Idle
  BY Zenon DEF Begin, AllQuiet, Quiet
<1>2. \A u \in Threads : ~ InCall(n, connections, call[u])
  BY <1>1, IdleCall DEF InCall
<1>3. connections <= n
  BY <1>1, <1>2, Zenon DEF Within
<1>4. call' = [call EXCEPT ![t].at = step] /\ call \in [Threads -> Calls]
  BY DEF Begin, MetricsTypeOK, Calls
<1>5. call'[t].at = step
  BY <1>4 DEF Calls
<1>6. AllIdleBut(t, call')
  BY <1>1, <1>4 DEF AllIdleBut
<1> QED BY <1>3, <1>5, <1>6 DEF Begin, MetricsTypeOK, Counts

\* A connection is counted for a socket more.
LEMMA ConnectionWithin ==
  ASSUME MetricsTypeOK, NEW n \in Nat, ~ raced => Within(n, connections, call),
         NEW t \in Threads, Connection(t)
  PROVE  ~ raced' => Within(n + 1, connections', call')
<1> SUFFICES ASSUME ~ raced' PROVE Within(n + 1, connections', call')
  OBVIOUS
<1>1. /\ connections <= n /\ connections \in Nat /\ connections' = connections
      /\ call'[t].at = "load to raise" /\ AllIdleBut(t, call')
  BY BeginsQuiet DEF Connection
<1>2. \A k \in Nat : k <= n => k + 1 <= n + 1
  OBVIOUS
<1>3. InCall(n + 1, connections', call'[t])
  BY <1>1, <1>2, Zenon DEF InCall
<1> QED BY <1>1, <1>3, Zenon DEF Within

\* A disconnection is counted for a socket less, or for one that never was.
LEMMA DisconnectionWithin ==
  ASSUME MetricsTypeOK, NEW n \in Nat, ~ raced => Within(n, connections, call),
         NEW t \in Threads, Disconnection(t), NEW m \in Nat, n <= m + 1
  PROVE  ~ raced' => Within(m, connections', call')
<1> SUFFICES ASSUME ~ raced' PROVE Within(m, connections', call')
  OBVIOUS
<1>1. /\ connections <= n /\ connections \in Nat /\ connections' = connections
      /\ call'[t].at = "test" /\ AllIdleBut(t, call')
  BY BeginsQuiet, Zenon DEF Disconnection
<1>2. InCall(m, connections', call'[t])
  BY <1>1 DEF InCall
<1> QED BY <1>1, <1>2, Zenon DEF Within

\* A call goes on.
LEMMA StepWithin ==
  ASSUME MetricsTypeOK, NEW n \in Nat, ~ raced => Within(n, connections, call),
         NEW t \in Threads, CallStep(t)
  PROVE  ~ raced' => Within(n, connections', call')
<1> SUFFICES ASSUME ~ raced' PROVE Within(n, connections', call')
  OBVIOUS
<1>1. Within(n, connections, call)
  BY Zenon DEF CallStep, Test, Load, Store
<1>2. connections \in Nat /\ connections \in Counts /\ call \in [Threads -> Calls]
  BY DEF MetricsTypeOK, Counts, Calls
<1>3. call[t] # Idle
  BY IdleCall DEF CallStep, Test, Load, Store
<1>4. AllIdleBut(t, call) /\ InCall(n, connections, call[t])
  <2>1. PICK u \in Threads : AllIdleBut(u, call) /\ InCall(n, connections, call[u])
    BY <1>1, <1>3, Zenon DEF Within
  <2>2. u = t
    BY <1>3, <2>1, Zenon DEF AllIdleBut
  <2> QED BY <2>1, <2>2
<1>5. CASE Test(t)
  <2>1. connections' = connections /\ AllIdleBut(t, call')
    BY <1>2, <1>4, <1>5 DEF Test, AllIdleBut
  <2>2. connections <= n + 1
    BY <1>4, <1>5 DEF Test, InCall
  <2>3. CASE connections = 0
    <3>1. call'[t] = Idle
      BY <1>2, <1>5, <2>3 DEF Test
    <3> QED BY <2>1, <2>3, <3>1 DEF Within, AllIdleBut
  <2>4. CASE connections # 0
    <3>1. call' = [call EXCEPT ![t] = [at |-> "load to lower", loaded |-> 0]]
      BY <1>5, <2>4, Zenon DEF Test
    <3>2. call'[t].at = "load to lower"
      BY <1>2, <3>1
    <3>3. connections' > 0 /\ connections' <= n + 1
      BY <1>2, <2>1, <2>2, <2>4
    <3>4. InCall(n, connections', call'[t])
      BY <3>2, <3>3, Zenon DEF InCall
    <3> QED BY <2>1, <3>4, Zenon DEF Within
  <2> QED BY <2>3, <2>4
<1>6. CASE Load(t)
  <2>1. connections' = connections /\ AllIdleBut(t, call')
    BY <1>2, <1>4, <1>6 DEF Load, AllIdleBut
  <2>2. /\ call'[t].loaded = connections
        /\ call'[t].at = IF call[t].at = "load to raise" THEN "raise" ELSE "lower"
    BY <1>2, <1>6 DEF Load
  <2>3. InCall(n, connections', call'[t])
    BY <1>4, <1>6, <2>1, <2>2 DEF Load, InCall
  <2> QED BY <2>1, <2>3, Zenon DEF Within
<1>7. CASE Store(t)
  <2>1. \A u \in Threads : call'[u] = Idle
    BY <1>2, <1>4, <1>7 DEF Store, AllIdleBut
  <2>2. CASE call[t].at = "raise"
    <3>1. connections' = (connections + 1) % Wrap /\ connections + 1 <= n
      BY <1>4, <1>7, <2>2 DEF Store, InCall
    <3>2. connections' <= n
      BY <1>2, <3>1, Wrapped DEF Counts
    <3> QED BY <2>1, <3>2 DEF Within
  <2>3. CASE call[t].at = "lower"
    <3>1. connections' = (connections - 1) % Wrap /\ connections > 0 /\ connections <= n + 1
      BY <1>4, <1>7, <2>3 DEF Store, InCall
    <3>2. connections' <= n
      BY <1>2, <3>1, Wrapped
    <3> QED BY <2>1, <3>2 DEF Within
  <2> QED BY <1>7, <2>2, <2>3 DEF Store
<1> QED BY <1>5, <1>6, <1>7 DEF CallStep

(***************************************************************************)
(* The types.                                                              *)
(***************************************************************************)
\* main() begins in the types ...
LEMMA InitTypes == Init => TypeOK
<1> SUFFICES ASSUME Init PROVE TypeOK
  OBVIOUS
<1>1. MetricsTypeOK
  <2>1. 0 \in Counts
    BY WrapAssumption DEF Counts
  <2> QED BY <2>1, IdleCall DEF Init, MetricsInit, MetricsTypeOK, Calls
<1>2. elapsed \in Int /\ steps \in 0 .. MaxSteps
  BY PaceAssumption DEF Init
<1>3. socket \in [Sockets -> SocketStates] /\ held \in Sockets \cup {None}
  BY DEF Init, SocketStates
<1>4. game \in GameStates /\ net \in {"none", "launched", "armed", "running", "returned"}
  BY DEF Init, GameStates
<1>5. /\ exitSignal \in BOOLEAN /\ awaited \in BOOLEAN /\ caught \in BOOLEAN
      /\ stopped \in BOOLEAN /\ accepting \in BOOLEAN /\ listening \in BOOLEAN
  BY Zenon DEF Init
<1> QED BY <1>1, <1>2, <1>3, <1>4, <1>5, Zenon DEF TypeOK

\* ... and every step of every thread keeps them.
LEMMA TypesKept == TypeOK /\ [Next]_vars => TypeOK'
<1> SUFFICES ASSUME TypeOK, [Next]_vars PROVE TypeOK'
  OBVIOUS
<1> USE DEF TypeOK, GameStates, SocketStates, signals, listener, clock
<1>1. "game" \in Threads /\ "net" \in Threads
  BY ThreadsAssumption
<1>2. UNCHANGED metrics => MetricsTypeOK'
  BY <1>1, MetricsTypes
<1>3. CASE StartNetwork \/ CheckExit \/ EndUpdate \/ Stop \/ Join \/ Return
  BY <1>2, <1>3 DEF StartNetwork, CheckExit, EndUpdate, Stop, Join, Return
<1>4. CASE Pace
  BY <1>2, <1>4 DEF Pace
<1>5. CASE Release
  <2>1. MetricsTypeOK'
    BY <1>1, <1>5, MetricsTypes DEF Release
  <2> QED BY <1>5, <2>1 DEF Release
<1>6. ASSUME NEW t \in Threads, GoOn(t) PROVE TypeOK'
  <2>1. MetricsTypeOK'
    BY <1>6, MetricsTypes DEF GoOn
  <2> QED BY <1>6, <2>1 DEF GoOn
<1>7. ASSUME NEW s \in Sockets, Hold(s) PROVE TypeOK'
  BY <1>2, <1>7 DEF Hold
<1>8. ASSUME NEW s \in Sockets, DestroySocket(s) PROVE TypeOK'
  <2>1. MetricsTypeOK'
    BY <1>1, <1>8, MetricsTypes DEF DestroySocket
  <2> QED BY <1>8, <2>1 DEF DestroySocket
<1>9. CASE ArmSignals \/ OpenListener \/ RunReturns \/ HandleSignal \/ Signal
  BY <1>2, <1>9 DEF ArmSignals, OpenListener, RunReturns, HandleSignal, Signal
<1>10. CASE OnAccept
  BY <1>2, <1>10 DEF OnAccept
<1>11. ASSUME NEW s \in Sockets, OnHandshake(s) PROVE TypeOK'
  <2>1. MetricsTypeOK'
    BY <1>1, <1>11, MetricsTypes DEF OnHandshake
  <2> QED BY <1>11, <2>1 DEF OnHandshake
<1>12. ASSUME NEW s \in Sockets, OnOpen(s) PROVE TypeOK'
  BY <1>2, <1>12 DEF OnOpen
<1>13. ASSUME NEW s \in Sockets, OnError(s) PROVE TypeOK'
  <2>1. MetricsTypeOK'
    BY <1>1, <1>13, MetricsTypes DEF OnError
  <2> QED BY <1>13, <2>1 DEF OnError
<1>14. CASE Advance \/ SetClock
  BY <1>2, <1>14, PaceAssumption DEF Advance, SetClock
<1>15. CASE UNCHANGED vars
  BY <1>2, <1>15 DEF vars
<1> QED BY <1>1, <1>3, <1>4, <1>5, <1>6, <1>7, <1>8, <1>9, <1>10, <1>11, <1>12,
           <1>13, <1>14, <1>15 DEF Next, GameStep, NetStep

\* Everything the process keeps stays in its type.
THEOREM TypeCorrect == Spec => []TypeOK
<1> QED BY InitTypes, TypesKept, PTL DEF Spec

(***************************************************************************)
(* The order of the shutdown.                                              *)
(***************************************************************************)
\* Nothing runs on a thread that has returned from run(): this is what the
\* join waits for.
ReturnedQuiet == net = "returned" => Between

\* A socket is locked in an update only, and is open or orphaned.
HeldInUpdate ==
  held # None =>
    /\ game \in {"updating", "killed"}
    /\ held \in Sockets /\ socket[held] \in {"open", "orphan"}

Order == ReturnedQuiet /\ HeldInUpdate /\ JoinedFirst

\* The order holds at the start ...
LEMMA InitOrder == Init => Order
BY DEF Init, Order, ReturnedQuiet, HeldInUpdate, JoinedFirst

\* What leaves the sockets, the calls and the game thread's lock alone.
LEMMA OrderUntouched ==
  ASSUME TypeOK, Order, UNCHANGED <<socket, call, held>>,
         net' = "returned" => Between,
         held # None => game' \in {"updating", "killed"},
         game' \in {"joined", "exited"} => net' = "returned" /\ held = None
  PROVE  Order'
<1>1. Between' = Between
  BY DEF Between, Quiet
<1>2. ReturnedQuiet' /\ HeldInUpdate'
  BY <1>1 DEF Order, ReturnedQuiet, HeldInUpdate
<1> QED BY <1>1, <1>2 DEF Order, JoinedFirst

\* ... and every step keeps it.
LEMMA OrderKept == TypeOK /\ Order /\ [Next]_vars => Order'
<1> SUFFICES ASSUME TypeOK, Order, [Next]_vars PROVE Order'
  OBVIOUS
<1> USE DEF signals, listener, clock, metrics
<1>1. "game" \in Threads /\ "net" \in Threads /\ "game" # "net"
  BY ThreadsAssumption
<1>2. held # None => game \in {"updating", "killed"}
  BY DEF Order, HeldInUpdate
<1>3. game \in {"joined", "exited"} => net = "returned" /\ Between /\ held = None
  BY DEF Order, JoinedFirst
<1>4. net = "returned" => Between
  BY DEF Order, ReturnedQuiet
<1>5. CASE StartNetwork \/ CheckExit \/ Pace \/ EndUpdate \/ Stop \/ Join \/ Return
  <2>1. UNCHANGED <<socket, call, held>> /\ net' \in {net, "launched"}
    BY <1>5 DEF StartNetwork, CheckExit, Pace, EndUpdate, Stop, Join, Return
  <2>2. held # None => game' \in {"updating", "killed"}
    BY <1>2, <1>5 DEF StartNetwork, CheckExit, Pace, EndUpdate, Stop, Join, Return
  <2>3. game' \in {"joined", "exited"} => net' = "returned" /\ held = None
    BY <1>2, <1>3, <1>5 DEF StartNetwork, CheckExit, Pace, EndUpdate, Stop, Join, Return
  <2> QED BY <1>4, <2>1, <2>2, <2>3, OrderUntouched
<1>6. CASE Release
  <2>1. Between => Between'
    BY <1>1, <1>6 DEF Release, Between, Quiet, Disconnection, Begin, TypeOK, MetricsTypeOK
  <2> QED BY <1>6, <2>1 DEF Release, Order, ReturnedQuiet, HeldInUpdate, JoinedFirst
<1>7. ASSUME NEW t \in Threads, GoOn(t) PROVE Order'
  <2>1. Between => Between'
    <3>1. UNCHANGED socket /\ call' = [call EXCEPT ![t] = call'[t]]
      BY <1>7 DEF GoOn, CallStep, Test, Load, Store, TypeOK, MetricsTypeOK
    <3>2. Quiet("net") => t # "net"
      BY <1>7, IdleCall DEF GoOn, CallStep, Test, Load, Store, Quiet
    <3> QED BY <1>1, <3>1, <3>2 DEF Between, Quiet, TypeOK, MetricsTypeOK
  <2> QED BY <1>7, <2>1 DEF GoOn, Order, ReturnedQuiet, HeldInUpdate, JoinedFirst
<1>8. ASSUME NEW s \in Sockets, Hold(s) PROVE Order'
  BY <1>8 DEF Hold, Order, ReturnedQuiet, HeldInUpdate, JoinedFirst, Between, Quiet
<1>9. ASSUME NEW s \in Sockets, DestroySocket(s) PROVE Order'
  <2>1. Between => Between'
    BY <1>1, <1>9 DEF DestroySocket, Between, Quiet, Disconnection, Begin,
                      TypeOK, MetricsTypeOK
  <2> QED BY <1>9, <2>1 DEF DestroySocket, Order, ReturnedQuiet, HeldInUpdate, JoinedFirst
<1>10. CASE ArmSignals \/ OpenListener \/ RunReturns \/ HandleSignal
  <2>1. UNCHANGED <<socket, call, held, game>> /\ net # "returned"
    BY <1>10 DEF ArmSignals, OpenListener, RunReturns, HandleSignal, Runs
  <2>2. net' = "returned" => Between
    BY <1>10 DEF ArmSignals, OpenListener, RunReturns, HandleSignal, Runs
  <2> QED BY <1>2, <1>3, <2>1, <2>2, OrderUntouched
<1>11. CASE Signal \/ Advance \/ SetClock
  <2>1. /\ UNCHANGED <<socket, call, held, net>> /\ game' \in {game, "killed"}
    BY <1>11 DEF Signal, Advance, SetClock
  <2> QED BY <1>2, <1>3, <1>4, <2>1, OrderUntouched
<1>12. CASE OnAccept
  <2>1. net = "running" /\ UNCHANGED <<game, net, held, metrics>>
    BY <1>12 DEF OnAccept, Runs
  <2>2. held # None => socket'[held] = socket[held]
    BY <1>12 DEF OnAccept, TypeOK, Order, HeldInUpdate
  <2> QED BY <1>3, <2>1, <2>2 DEF Order, ReturnedQuiet, HeldInUpdate, JoinedFirst
<1>13. ASSUME NEW s \in Sockets, OnHandshake(s) PROVE Order'
  <2>1. net = "running" /\ UNCHANGED <<game, net, held>>
    BY <1>13 DEF OnHandshake, Runs
  <2>2. held # None => socket'[held] = socket[held]
    BY <1>13 DEF OnHandshake, TypeOK, Order, HeldInUpdate
  <2> QED BY <1>3, <2>1, <2>2 DEF Order, ReturnedQuiet, HeldInUpdate, JoinedFirst
<1>14. ASSUME NEW s \in Sockets, OnOpen(s) PROVE Order'
  <2>1. ~ Between /\ UNCHANGED <<game, net, held, metrics>>
    BY <1>14 DEF OnOpen, Between
  <2>2. held # None => socket'[held] = socket[held]
    BY <1>14 DEF OnOpen, TypeOK, Order, HeldInUpdate
  <2> QED BY <1>3, <1>4, <2>1, <2>2 DEF Order, ReturnedQuiet, HeldInUpdate, JoinedFirst
<1>15. ASSUME NEW s \in Sockets, OnError(s) PROVE Order'
  <2>1. net = "running" /\ UNCHANGED <<game, net, held>>
    BY <1>15 DEF OnError, Runs
  <2>2. held # None => socket'[held] \in {"open", "orphan"}
    BY <1>15 DEF OnError, TypeOK, Order, HeldInUpdate
  <2> QED BY <1>3, <2>1, <2>2 DEF Order, ReturnedQuiet, HeldInUpdate, JoinedFirst
<1>16. CASE UNCHANGED vars
  BY <1>2, <1>3, <1>4, <1>16, OrderUntouched DEF vars
<1> QED BY <1>5, <1>6, <1>7, <1>8, <1>9, <1>10, <1>11, <1>12, <1>13, <1>14, <1>15, <1>16,
           <1>1 DEF Next, GameStep, NetStep

\* When the main thread destroys the context and the sockets in it, the network
\* thread has returned and no callback is under way (main.cpp:89-94).
THEOREM ShutdownInOrder == Spec => []JoinedFirst
<1>1. Init => TypeOK /\ Order
  BY InitTypes, InitOrder
<1>2. (TypeOK /\ Order) /\ [Next]_vars => (TypeOK /\ Order)'
  BY TypesKept, OrderKept
<1>3. Order => JoinedFirst
  BY DEF Order
<1> QED BY <1>1, <1>2, <1>3, PTL DEF Spec

(***************************************************************************)
(* The count of connections.                                               *)
(***************************************************************************)
\* The inductive invariant of the count.
CountWithin == ~ raced => Within(Cardinality(Counted), connections, call)

\* There are finitely many sockets to count.
LEMMA CountedFinite == IsFiniteSet(Counted) /\ Cardinality(Counted) \in Nat
<1>1. Counted \in SUBSET Sockets
  BY DEF Counted
<1> QED BY <1>1, SocketsAssumption, FS_Subset, FS_CardinalityType

\* A socket that changes its state is in the count, out of it, or where it was.
LEMMA CountedStep ==
  ASSUME TypeOK, NEW s \in Sockets, NEW x,
         socket' = [socket EXCEPT ![s] = x]
  PROVE  Counted' = IF x \in {"opening", "open", "orphan"} THEN Counted \cup {s}
                                                          ELSE Counted \ {s}
BY DEF TypeOK, Counted

\* What concerns neither the sockets nor the metrics leaves the count right.
LEMMA SameCount ==
  ASSUME CountWithin, Counted' = Counted, UNCHANGED metrics
  PROVE  CountWithin'
BY DEF CountWithin, metrics

\* A socket is gone, and so is what was counted for it, if anything was.
LEMMA GoneCount ==
  ASSUME TypeOK, CountWithin, NEW s \in Sockets, NEW t \in Threads,
         socket' = [socket EXCEPT ![s] = "gone"], Disconnection(t)
  PROVE  CountWithin'
<1>1. Counted' = Counted \ {s}
  BY CountedStep
<1>2. /\ Cardinality(Counted) \in Nat /\ Cardinality(Counted \ {s}) \in Nat
      /\ Cardinality(Counted) <= Cardinality(Counted \ {s}) + 1
  <2>1. IsFiniteSet(Counted \ {s})
    BY CountedFinite, FS_RemoveElement
  <2>2. Cardinality(Counted \ {s}) \in Nat
    BY <2>1, FS_CardinalityType
  <2>3. Cardinality(Counted \ {s})
          = IF s \in Counted THEN Cardinality(Counted) - 1 ELSE Cardinality(Counted)
    BY CountedFinite, FS_RemoveElement
  <2> QED BY CountedFinite, <2>2, <2>3
<1> QED BY <1>1, <1>2, DisconnectionWithin DEF CountWithin, TypeOK

\* The count is right at the start ...
LEMMA InitCount == Init => CountWithin
<1> SUFFICES ASSUME Init PROVE CountWithin
  OBVIOUS
<1>1. connections = 0 /\ \A t \in Threads : call[t] = Idle
  BY DEF Init, MetricsInit
<1>2. 0 <= Cardinality(Counted)
  BY CountedFinite
<1> QED BY <1>1, <1>2 DEF CountWithin, Within

\* ... and every step keeps it right, while the threads do not meet in it.
LEMMA CountKept == TypeOK /\ Order /\ CountWithin /\ [Next]_vars => CountWithin'
<1> SUFFICES ASSUME TypeOK, Order, CountWithin, [Next]_vars PROVE CountWithin'
  OBVIOUS
<1> USE DEF signals, listener, clock
<1>1. "game" \in Threads /\ "net" \in Threads
  BY ThreadsAssumption
<1>2. UNCHANGED socket => Counted' = Counted
  BY DEF Counted
<1>3. CASE \/ StartNetwork \/ CheckExit \/ Pace \/ EndUpdate \/ Stop \/ Join \/ Return
           \/ ArmSignals \/ OpenListener \/ RunReturns \/ HandleSignal
           \/ Signal \/ Advance \/ SetClock \/ UNCHANGED vars
  <2>1. UNCHANGED <<socket, metrics>>
    BY <1>3 DEF StartNetwork, CheckExit, Pace, EndUpdate, Stop, Join, Return, ArmSignals,
                OpenListener, RunReturns, HandleSignal, Signal, Advance, SetClock, vars
  <2> QED BY <1>2, <2>1, SameCount
<1>4. CASE Release
  <2>1. CASE socket[held] = "orphan"
    BY <1>1, <1>4, <2>1, GoneCount DEF Release, Order, HeldInUpdate
  <2>2. CASE socket[held] # "orphan"
    BY <1>2, <1>4, <2>2, SameCount DEF Release
  <2> QED BY <2>1, <2>2
<1>5. ASSUME NEW t \in Threads, GoOn(t) PROVE CountWithin'
  BY <1>2, <1>5, CountedFinite, StepWithin DEF GoOn, CountWithin, TypeOK
<1>6. ASSUME NEW s \in Sockets, Hold(s) PROVE CountWithin'
  BY <1>2, <1>6, SameCount DEF Hold
<1>7. ASSUME NEW s \in Sockets, DestroySocket(s) PROVE CountWithin'
  BY <1>1, <1>7, GoneCount DEF DestroySocket
<1>8. CASE OnAccept
  <2>1. ASSUME NEW s \in Sockets, socket[s] = "none",
               socket' = [socket EXCEPT ![s] = "handshake"]
        PROVE  Counted' = Counted
    BY <2>1 DEF TypeOK, Counted
  <2> QED BY <1>2, <1>8, <2>1, SameCount DEF OnAccept
<1>9. ASSUME NEW s \in Sockets, OnHandshake(s) PROVE CountWithin'
  <2>1. Counted' = Counted \cup {s}
    BY <1>9, CountedStep DEF OnHandshake
  <2>2. s \notin Counted
    BY <1>9 DEF OnHandshake, Counted
  <2>3. Cardinality(Counted)' = Cardinality(Counted) + 1
    BY <2>1, <2>2, CountedFinite, FS_AddElement
  <2>4. Connection("net")
    BY <1>9 DEF OnHandshake
  <2> QED BY <1>1, <2>3, <2>4, CountedFinite, ConnectionWithin DEF CountWithin, TypeOK
<1>10. ASSUME NEW s \in Sockets, OnOpen(s) PROVE CountWithin'
  <2>1. Counted' = Counted
    BY <1>10 DEF OnOpen, TypeOK, Counted
  <2> QED BY <1>10, <2>1, SameCount DEF OnOpen
<1>11. ASSUME NEW s \in Sockets, OnError(s) PROVE CountWithin'
  <2>1. CASE held = s
    <3>1. socket[s] \in {"open", "orphan"}
      BY <2>1, NoneAssumption DEF Order, HeldInUpdate
    <3>2. Counted' = Counted
      BY <1>11, <2>1, <3>1 DEF OnError, TypeOK, Counted
    <3> QED BY <1>11, <2>1, <3>2, SameCount DEF OnError
  <2>2. CASE held # s
    BY <1>1, <1>11, <2>2, GoneCount DEF OnError
  <2> QED BY <2>1, <2>2
<1> QED BY <1>3, <1>4, <1>5, <1>6, <1>7, <1>8, <1>9, <1>10, <1>11,
           <1>1 DEF Next, GameStep, NetStep

\* As long as the two threads have not met in it, the count is at most the
\* number of sockets that are open, and so has not wrapped below zero
\* (metrics.cpp:76-86).
THEOREM CountCorrect == Spec => []CountBounded
<1>1. Init => TypeOK /\ Order /\ CountWithin
  BY InitTypes, InitOrder, InitCount
<1>2. (TypeOK /\ Order /\ CountWithin) /\ [Next]_vars
        => (TypeOK /\ Order /\ CountWithin)'
  BY TypesKept, OrderKept, CountKept
<1>3. CountWithin => CountBounded
  <2> SUFFICES ASSUME CountWithin, AllQuiet, ~ raced
               PROVE  connections <= Cardinality(Counted)
    BY DEF CountBounded
  <2>1. \A t \in Threads : call[t] = Idle
    BY Zenon DEF AllQuiet, Quiet
  <2>2. \A t \in Threads : ~ InCall(Cardinality(Counted), connections, call[t])
    BY <2>1, IdleCall DEF InCall
  <2> QED BY <2>2, Zenon DEF CountWithin, Within
<1> QED BY <1>1, <1>2, <1>3, PTL DEF Spec
=============================================================================
