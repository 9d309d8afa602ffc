------------------------------ MODULE Process -------------------------------
(***************************************************************************)
(* The life of the server process (src/main.cpp): the game loop and its    *)
(* pacing, the network thread, the signal that ends both, and the order in *)
(* which they are taken down; with it the listener                         *)
(* (src/network/socket_listener.cpp) and the sockets as far as their       *)
(* lifetime and the count of them go.                                      *)
(*                                                                         *)
(* "game" is the main thread, which leaves main() through the destructors  *)
(* of networkHandle, ioc and world, in this order.  The world is never     *)
(* destroyed: its systems hold it and it holds them.                       *)
(***************************************************************************)
EXTENDS Metrics, FiniteSets

CONSTANTS
    Sockets,    \* bound: the connections of one life
    None,       \* no socket
    Interval,   \* 1000 / update_hz, in clock readings
    MaxSteps    \* bound: how often the wall clock is set

ASSUME SocketsAssumption == IsFiniteSet(Sockets)
ASSUME ThreadsAssumption == Threads = {"game", "net"}
ASSUME NoneAssumption == None \notin Sockets
ASSUME PaceAssumption == Interval \in Nat \ {0} /\ MaxSteps \in Nat

VARIABLES
    game,         \* where the main thread is
    net,          \* where the network thread is
    exitSignal,
    awaited,      \* async_wait of the signals has not completed
    caught,       \* signals the signal set has been told of, handler not run
    stopped,      \* ioc.stop() was called
    accepting,    \* an accept is pending
    listening,    \* the acceptor is open, bound and listening
    socket,       \* the state of each socket
    held,         \* the socket the game thread has locked
    elapsed,      \* now - last_tick, on the wall clock
    steps         \* how often the clock was set

signals == <<exitSignal, awaited, caught>>
listener == <<accepting, listening>>
clock == <<elapsed, steps>>
vars == <<game, net, signals, stopped, listener, socket, held, clock, metrics>>

GameStates == {"starting", "looping", "pacing", "updating", "leaving", "joining",
               "joined", "exited", "killed"}

(* A socket's operations hold it in "handshake" and "open", its callback   *)
(* in "opening"; in "orphan" only the game thread's lock does.             *)
SocketStates == {"none", "handshake", "opening", "open", "orphan", "gone"}

TypeOK ==
    /\ game \in GameStates
    /\ net \in {"none", "launched", "armed", "running", "returned"}
    /\ exitSignal \in BOOLEAN /\ awaited \in BOOLEAN /\ caught \in BOOLEAN
    /\ stopped \in BOOLEAN /\ accepting \in BOOLEAN /\ listening \in BOOLEAN
    /\ socket \in [Sockets -> SocketStates] /\ held \in Sockets \cup {None}
    /\ elapsed \in Int /\ steps \in 0 .. MaxSteps
    /\ MetricsTypeOK

Init ==
    /\ game = "starting" /\ net = "none"
    /\ exitSignal = FALSE /\ awaited = FALSE /\ caught = FALSE /\ stopped = FALSE
    /\ accepting = FALSE /\ listening = FALSE
    /\ socket = [s \in Sockets |-> "none"] /\ held = None
    /\ elapsed = 0 /\ steps = 0
    /\ MetricsInit

Alive == game \notin {"exited", "killed"}

(* A thread goes on with the call of metrics it is in.                     *)
GoOn(t) ==
    /\ Alive /\ CallStep(t)
    /\ UNCHANGED <<game, net, signals, stopped, listener, socket, held, clock>>

(***************************************************************************)
(* The main thread.                                                        *)
(***************************************************************************)
(* main() up to the loop: start_network() launches the thread.             *)
StartNetwork ==
    /\ game = "starting"
    /\ game' = "looping" /\ net' = "launched"
    /\ UNCHANGED <<signals, stopped, listener, socket, held, clock, metrics>>

(* The condition of the loop.                                              *)
CheckExit ==
    /\ game = "looping"
    /\ game' = IF exitSignal THEN "leaving" ELSE "pacing"
    /\ UNCHANGED <<net, signals, stopped, listener, socket, held, clock, metrics>>

(* Mutant: a tick is due at the interval, and not after it.                *)
Pace_Exactly ==
    /\ game = "pacing"
    /\ IF elapsed = Interval THEN game' = "updating" /\ elapsed' = 0
                             ELSE game' = "looping" /\ UNCHANGED elapsed
    /\ UNCHANGED <<net, signals, stopped, listener, socket, held, steps, metrics>>

(* Its body: a tick is due or not.                                         *)
Pace ==
    /\ game = "pacing"
    /\ IF elapsed >= Interval THEN game' = "updating" /\ elapsed' = 0
                              ELSE game' = "looping" /\ UNCHANGED elapsed
    /\ UNCHANGED <<net, signals, stopped, listener, socket, held, steps, metrics>>

(* In world->update() the session and sync systems lock sockets.           *)
Hold(s) ==
    /\ game = "updating" /\ held = None /\ Quiet("game")
    /\ socket[s] = "open"
    /\ held' = s
    /\ UNCHANGED <<game, net, signals, stopped, listener, socket, clock, metrics>>

(* Letting go of the last reference runs ~socket here.                     *)
Release ==
    /\ game = "updating" /\ held # None
    /\ held' = None
    /\ IF socket[held] = "orphan"
       THEN socket' = [socket EXCEPT ![held] = "gone"] /\ Disconnection("game")
       ELSE UNCHANGED <<socket, metrics>>
    /\ UNCHANGED <<game, net, signals, stopped, listener, clock>>

EndUpdate ==
    /\ game = "updating" /\ held = None /\ Quiet("game")
    /\ game' = "looping"
    /\ UNCHANGED <<net, signals, stopped, listener, socket, held, clock, metrics>>

(* Mutant: the thread is joined without the context being stopped.         *)
Stop_Forgotten ==
    /\ game = "leaving"
    /\ game' = "joining"
    /\ UNCHANGED <<net, signals, stopped, listener, socket, held, clock, metrics>>

(* The deleter of networkHandle: ioc.stop() ...                            *)
Stop ==
    /\ game = "leaving"
    /\ game' = "joining" /\ stopped' = TRUE
    /\ UNCHANGED <<net, signals, listener, socket, held, clock, metrics>>

(* Mutant: the thread is left to itself.                                   *)
Join_Detached ==
    /\ game = "joining"
    /\ game' = "joined"
    /\ UNCHANGED <<net, signals, stopped, listener, socket, held, clock, metrics>>

(* ... and thread->join().                                                 *)
Join ==
    /\ game = "joining" /\ net = "returned"
    /\ game' = "joined"
    /\ UNCHANGED <<net, signals, stopped, listener, socket, held, clock, metrics>>

(* The destructor of ioc destroys the operations that are pending, with    *)
(* them the sockets that they keep, one ~socket after the other.           *)
DestroySocket(s) ==
    /\ game = "joined" /\ Quiet("game")
    /\ socket[s] \in {"handshake", "open"}
    /\ socket' = [socket EXCEPT ![s] = "gone"]
    /\ Disconnection("game")
    /\ UNCHANGED <<game, net, signals, stopped, listener, held, clock>>

Return ==
    /\ game = "joined" /\ Quiet("game")
    /\ \A s \in Sockets : socket[s] \in {"none", "gone"}
    /\ game' = "exited" /\ accepting' = FALSE
    /\ UNCHANGED <<net, signals, stopped, listening, socket, held, clock, metrics>>

GameStep ==
    \/ StartNetwork \/ CheckExit \/ Pace \/ Release \/ EndUpdate
    \/ Stop \/ Join \/ Return \/ GoOn("game")
    \/ \E s \in Sockets : DestroySocket(s)

(***************************************************************************)
(* The network thread.                                                     *)
(***************************************************************************)
(* The signal set is made and waited for ...                               *)
ArmSignals ==
    /\ net = "launched" /\ Alive
    /\ net' = "armed" /\ awaited' = TRUE
    /\ UNCHANGED <<game, exitSignal, caught, stopped, listener, socket, held, clock, metrics>>

(* ... and the listener made and opened.  Its constructor gives up at the  *)
(* first step that fails; open() starts to accept regardless.              *)
OpenListener ==
    /\ net = "armed" /\ Alive
    /\ net' = "running"
    /\ listening' \in BOOLEAN /\ accepting' = TRUE
    /\ UNCHANGED <<game, signals, stopped, socket, held, clock, metrics>>

(* No handler is under way on the network thread.                          *)
Between == Quiet("net") /\ \A s \in Sockets : socket[s] # "opening"

(* ioc.run() calls a handler.                                              *)
Runs == net = "running" /\ ~ stopped /\ Between /\ Alive

(* signal_handler(), once.                                                 *)
HandleSignal ==
    /\ Runs /\ awaited /\ caught
    /\ exitSignal' = TRUE /\ awaited' = FALSE /\ caught' = FALSE
    /\ UNCHANGED <<game, net, stopped, listener, socket, held, clock, metrics>>

(* on_accept of the listener: a socket is opened and the next accepted, or *)
(* an error ends accepting.                                                *)
OnAccept ==
    /\ Runs /\ accepting
    /\ \/ /\ listening
          /\ \E s \in Sockets : /\ socket[s] = "none"
                                /\ socket' = [socket EXCEPT ![s] = "handshake"]
          /\ UNCHANGED accepting
       \/ accepting' = FALSE /\ UNCHANGED socket
    /\ UNCHANGED <<game, net, signals, stopped, listening, held, clock, metrics>>

(* on_accept of a socket, without an error: it is counted ...              *)
OnHandshake(s) ==
    /\ Runs /\ socket[s] = "handshake"
    /\ socket' = [socket EXCEPT ![s] = "opening"]
    /\ Connection("net")
    /\ UNCHANGED <<game, net, signals, stopped, listener, held, clock>>

(* ... then reported to the session system, and read from.                 *)
OnOpen(s) ==
    /\ Alive /\ Quiet("net") /\ socket[s] = "opening"
    /\ socket' = [socket EXCEPT ![s] = "open"]
    /\ UNCHANGED <<game, net, signals, stopped, listener, held, clock, metrics>>

(* A callback of a socket returns with an error and drops its reference.   *)
OnError(s) ==
    /\ Runs /\ socket[s] \in {"handshake", "open"}
    /\ IF held = s THEN socket' = [socket EXCEPT ![s] = "orphan"] /\ UNCHANGED metrics
       ELSE socket' = [socket EXCEPT ![s] = "gone"] /\ Disconnection("net")
    /\ UNCHANGED <<game, net, signals, stopped, listener, held, clock>>

(* ioc.run() returns when it is stopped, or when nothing is pending.       *)
RunReturns ==
    /\ net = "running" /\ Between /\ Alive
    /\ \/ stopped
       \/ /\ ~ awaited /\ ~ accepting
          /\ \A s \in Sockets : socket[s] \notin {"handshake", "open"}
    /\ net' = "returned"
    /\ UNCHANGED <<game, signals, stopped, listener, socket, held, clock, metrics>>

NetStep ==
    \/ ArmSignals \/ OpenListener \/ RunReturns
    \/ GoOn("net") \/ \E s \in Sockets : OnOpen(s)

(***************************************************************************)
(* The environment.                                                        *)
(***************************************************************************)
(* SIGINT or SIGTERM: the signal set catches it for as long as it exists,  *)
(* before and after the process dies of it.                                *)
Signal ==
    /\ Alive
    /\ IF net \in {"armed", "running"} THEN caught' = TRUE /\ UNCHANGED game
                                       ELSE game' = "killed" /\ UNCHANGED caught
    /\ UNCHANGED <<net, exitSignal, awaited, stopped, listener, socket, held, clock, metrics>>

(* The wall clock goes on; what is past the interval makes no difference.  *)
Advance ==
    /\ Alive /\ elapsed <= Interval
    /\ elapsed' = elapsed + 1
    /\ UNCHANGED <<game, net, signals, stopped, listener, socket, held, steps, metrics>>

(* Or is set back, or ahead.                                               *)
SetClock ==
    /\ Alive /\ steps < MaxSteps
    /\ steps' = steps + 1
    /\ elapsed' \in {- Interval, Interval + 1}
    /\ UNCHANGED <<game, net, signals, stopped, listener, socket, held, metrics>>

Next ==
    \/ GameStep \/ NetStep
    \/ \E s \in Sockets : Hold(s) \/ OnHandshake(s) \/ OnError(s)
    \/ HandleSignal \/ OnAccept
    \/ Signal \/ Advance \/ SetClock

(* Both threads go on, an update ends (it goes over the sockets once), a   *)
(* signal that was caught is handled, and the clock advances.  No fairness *)
(* of clients or of errors: a socket may stay.                             *)
Spec ==
    /\ Init /\ [][Next]_vars
    /\ WF_vars(GameStep) /\ SF_vars(EndUpdate) /\ WF_vars(NetStep)
    /\ WF_vars(HandleSignal) /\ WF_vars(Advance)

(***************************************************************************)
(* Properties.                                                             *)
(***************************************************************************)
(* A signal that the set has caught ends the process, with every socket    *)
(* destroyed and so reported closed, whatever the clients do and whichever *)
(* callbacks are pending; the stop and the join do not wait for one        *)
(* another (main.cpp:89-94, 126).                                          *)
ShutsDown ==
    (caught /\ awaited) ~>
        \/ game = "killed"
        \/ game = "exited" /\ \A s \in Sockets : socket[s] \in {"none", "gone"}

(* The context and the sockets in it are taken down by one thread: the     *)
(* other has returned by then, and is in no callback (main.cpp:92, 118).   *)
JoinedFirst ==
    game \in {"joined", "exited"} => net = "returned" /\ Between /\ held = None

(* The game loop never stops ticking before it is told to exit, however    *)
(* late it comes and whichever way the clock is set, if it is set finitely *)
(* often (main.cpp:126-134).                                               *)
KeepsTicking == []<>(game \notin {"looping", "pacing"})

(* The count of connections is never above the sockets that are open, nor  *)
(* wraps below zero, as long as no two threads have been in it at once:    *)
(* destructors of sockets that never opened are what it has to stand       *)
(* (metrics.cpp:76-86, socket.cpp:22, 69).                                 *)
Counted == {s \in Sockets : socket[s] \in {"opening", "open", "orphan"}}
CountBounded == AllQuiet /\ ~ raced => connections <= Cardinality(Counted)
=============================================================================
