------------------------------- MODULE Socket -------------------------------
(***************************************************************************)
(* One network::socket from its construction to its destruction            *)
(* (network/socket.cpp).                                                   *)
(*                                                                         *)
(* Its callbacks run one at a time on the network thread.  The game thread *)
(* only locks the weak pointer it got from on_open, calls send, which      *)
(* posts on_send, and lets go.  Nothing closes a socket but the loss of    *)
(* its last reference: a pending handshake, read or write, a posted send,  *)
(* or the game thread's lock.                                              *)
(***************************************************************************)
EXTENDS Naturals, Sequences

CONSTANTS
  MaxSends,   \* bound: messages the game sends
  MaxReads    \* bound: messages the client sends

ASSUME BoundsAssumption == MaxSends \in Nat /\ MaxReads \in Nat

\* Messages are numbered in the order send is called with them.
Message == 1 .. MaxSends

VARIABLES
  reader,     \* "none", "handshake", "reading" (an operation is pending), "ended"
  posted,     \* on_send handlers that wait in the executor, with their data
  wbuffer,    \* wbuffer_
  writing,    \* writing_
  writes,     \* the async_writes under way, with the data each was given
  broken,     \* a write has failed
  wire,       \* what the peer has been sent
  held,       \* the game thread holds a reference
  sends,      \* calls of send so far
  callbacks   \* the calls the handler has had, errors excepted

vars == <<reader, posted, wbuffer, writing, writes, broken, wire, held, sends, callbacks>>
outgoing == <<posted, wbuffer, writing, writes, broken, wire>>

Callback == {"on_open", "on_message", "on_close"}

TypeOK ==
  /\ reader \in {"none", "handshake", "reading", "ended"}
  /\ posted \in Seq(Message) /\ wbuffer \in Seq(Message)
  /\ writing \in BOOLEAN
  /\ writes \in Seq(Message)
  /\ broken \in BOOLEAN
  /\ wire \in Seq(Message)
  /\ held \in BOOLEAN
  /\ sends \in 0 .. MaxSends
  /\ callbacks \in Seq(Callback)

Init ==
  /\ reader = "none"
  /\ posted = <<>> /\ wbuffer = <<>> /\ writing = FALSE /\ writes = <<>>
  /\ broken = FALSE /\ wire = <<>>
  /\ held = FALSE /\ sends = 0
  /\ callbacks = <<>>

\* The handler has been called back so.
Called(c) == \E i \in 1 .. Len(callbacks) : callbacks[i] = c

\* Mutant: a posted on_send does not keep the socket.
Alive_ButForPosts ==
  reader \in {"handshake", "reading"} \/ writes # <<>> \/ held

\* Mutant: queued data keeps the socket, too.
Alive_WhileQueued ==
  reader \in {"handshake", "reading"} \/ posted # <<>> \/ wbuffer # <<>> \/ held

\* A shared_ptr to the socket is left.
Alive ==
  reader \in {"handshake", "reading"} \/ posted # <<>> \/ writes # <<>> \/ held

-----------------------------------------------------------------------------
(* Reading                                                                 *)

\* open(): start the handshake.
Open ==
  /\ reader = "none"
  /\ reader' = "handshake"
  /\ UNCHANGED <<outgoing, held, sends, callbacks>>

\* on_accept: report the socket open and start reading, or give up.
OnAccept ==
  /\ reader = "handshake"
  /\ \/ /\ callbacks' = Append(callbacks, "on_open")
        /\ reader' = "reading"
     \/ /\ reader' = "ended"
        /\ UNCHANGED callbacks
  /\ UNCHANGED <<outgoing, held, sends>>

\* on_read: pass on a message of two bytes or more and read on, or give up.
OnRead ==
  /\ reader = "reading"
  /\ \/ /\ Len(SelectSeq(callbacks, LAMBDA c : c = "on_message")) < MaxReads
        /\ callbacks' = Append(callbacks, "on_message")
        /\ UNCHANGED reader
     \/ /\ reader' = "ended"
        /\ UNCHANGED callbacks
  /\ UNCHANGED <<outgoing, held, sends>>

-----------------------------------------------------------------------------
(* Sending                                                                 *)

\* The game thread locks its weak pointer, which it has from on_open.
Lock ==
  /\ Called("on_open") /\ Alive /\ ~held
  /\ held' = TRUE
  /\ UNCHANGED <<reader, outgoing, sends, callbacks>>

\* send(): post on_send with the data.
Send ==
  /\ held /\ sends < MaxSends
  /\ sends' = sends + 1
  /\ posted' = Append(posted, sends + 1)
  /\ UNCHANGED <<reader, wbuffer, writing, writes, broken, wire, held, callbacks>>

Unlock ==
  /\ held
  /\ held' = FALSE
  /\ UNCHANGED <<reader, outgoing, sends, callbacks>>

\* Mutant: on_send starts a write whether or not one is under way.
OnSend_Always ==
  /\ posted # <<>>
  /\ posted' = Tail(posted)
  /\ wbuffer' = Append(wbuffer, Head(posted))
  /\ writing' = TRUE
  /\ writes' = Append(writes, Head(wbuffer'))
  /\ UNCHANGED <<reader, broken, wire, held, sends, callbacks>>

\* on_send: queue the data; start a write unless one is under way.
OnSend ==
  /\ posted # <<>>
  /\ posted' = Tail(posted)
  /\ wbuffer' = Append(wbuffer, Head(posted))
  /\ writing' = TRUE
  /\ writes' = IF writing THEN writes ELSE Append(writes, Head(wbuffer'))
  /\ UNCHANGED <<reader, broken, wire, held, sends, callbacks>>

\* Mutant: on_write stops as soon as one message is out.
OnWrite_Stop ==
  /\ writes # <<>>
  /\ wire' = Append(wire, Head(writes))
  /\ wbuffer' = Tail(wbuffer)
  /\ writes' = Tail(writes)
  /\ writing' = FALSE
  /\ UNCHANGED <<reader, posted, broken, held, sends, callbacks>>

\* on_write without an error: the message is out; start the next, if any.
OnWrite ==
  /\ writes # <<>>
  /\ wire' = Append(wire, Head(writes))
  /\ wbuffer' = Tail(wbuffer)
  /\ IF wbuffer' = <<>>
     THEN writing' = FALSE /\ writes' = Tail(writes)
     ELSE writes' = Append(Tail(writes), Head(wbuffer')) /\ UNCHANGED writing
  /\ UNCHANGED <<reader, posted, broken, held, sends, callbacks>>

\* Mutant: the message is taken off the queue although it did not go out.
OnWriteError_Pop ==
  /\ writes # <<>>
  /\ writes' = Tail(writes)
  /\ wbuffer' = Tail(wbuffer)
  /\ broken' = TRUE
  /\ UNCHANGED <<reader, posted, writing, wire, held, sends, callbacks>>

\* on_write with an error: it returns at once; writing_ stays set for good,
\* so that later sends are queued and never written.
OnWriteError ==
  /\ writes # <<>>
  /\ writes' = Tail(writes)
  /\ broken' = TRUE
  /\ UNCHANGED <<reader, posted, wbuffer, writing, wire, held, sends, callbacks>>

-----------------------------------------------------------------------------

\* Mutant: the destructor reports an error where it should report the close.
Destroy_Error ==
  /\ reader # "none" /\ ~Alive /\ ~Called("on_close")
  /\ callbacks' = Append(callbacks, "on_error")
  /\ UNCHANGED <<reader, outgoing, held, sends>>

\* ~socket, by the thread that dropped the last reference.
Destroy ==
  /\ reader # "none" /\ ~Alive /\ ~Called("on_close")
  /\ callbacks' = Append(callbacks, "on_close")
  /\ UNCHANGED <<reader, outgoing, held, sends>>

Next ==
  \/ Open \/ OnAccept \/ OnRead
  \/ Lock \/ Send \/ Unlock
  \/ OnSend \/ OnWrite \/ OnWriteError
  \/ Destroy

SafeSpec == Init /\ [][Next]_vars

\* A posted handler runs, a write ends one way or the other, the game thread
\* lets go of the socket, and a destructor that is due runs.
Fairness ==
  /\ WF_vars(OnSend)
  /\ WF_vars(OnWrite \/ OnWriteError)
  /\ WF_vars(Unlock)
  /\ WF_vars(Destroy)

Spec == SafeSpec /\ Fairness

-----------------------------------------------------------------------------
(* Properties                                                              *)

\* A stream takes one write at a time; the data it was given is the front of
\* the write queue, which owns it for as long as the write lasts.
OneWrite == writes # <<>> => /\ Len(writes) = 1
                             /\ wbuffer # <<>> /\ Head(wbuffer) = Head(writes)

\* Nothing sent is lost, doubled or overtaken on its way from the game thread
\* through the executor and the write queue to the wire, even past an error.
SentInOrder == wire \o wbuffer \o posted = [i \in 1 .. sends |-> i]

\* No message waits in the write queue without a write under way, unless one
\* has failed: the queue is never left to starve.
NeverStarved == wbuffer # <<>> /\ ~broken => writes # <<>>

\* A socket dies with unsent data only after a failed write.
DropsOnlyWhenBroken == Called("on_close") => broken \/ wbuffer \o posted = <<>>

\* The handler hears of a message only between on_open and on_close, and of
\* each of these at most once; nothing is heard after on_close.
CallbacksInOrder ==
  \A i \in 1 .. Len(callbacks) :
    /\ callbacks[i] = "on_close" => i = Len(callbacks) /\ ~Alive
    /\ callbacks[i] = "on_open" <=> i = 1 /\ callbacks[1] # "on_close"

\* The write queue and the callbacks keep the contract.
Contract == INSTANCE SocketContract WITH
  phase <- IF Called("on_close") THEN "closed"
           ELSE IF Called("on_open") THEN "open" ELSE "fresh",
  outgoing <- IF Called("on_close") THEN <<>> ELSE wbuffer \o posted,
  delivered <- wire
ImplementsContract == Contract!Spec

\* What is sent goes out, unless a write fails.
SendsGoOut == \A n \in Message : (sends >= n) ~> (Len(wire) >= n \/ broken)

\* Once reading has ended and the game stops sending (MaxSends bounds it),
\* the handler learns that the socket is closed: no failed or unfinished
\* write keeps it alive.
EndsInClose == (reader = "ended") ~> Called("on_close")

=============================================================================
