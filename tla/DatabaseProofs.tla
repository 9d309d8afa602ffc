--------------------------- MODULE DatabaseProofs ---------------------------
(***************************************************************************)
(* For any number of threads, tasks and statements: the types, and that a  *)
(* task finds its statement for as long as the object lives.               *)
(*                                                                         *)
(* The server's statements are the object's at every step (SameNames):     *)
(* with unprepare_statement() as it is, the only call that takes any away  *)
(* is the destructor, and it takes all of them.  What a task was started   *)
(* with is among them until then (WaitingKnown).                           *)
(***************************************************************************)
EXTENDS Database, TLAPS

\* At every step the server has the statements the object knows of.
SameNames == server = prepared

\* A task waits for a statement that is there.
WaitingKnown ==
  alive => \A t \in Tasks :
             task[t].state = "waiting" => task[t].name \in prepared \cup {Nothing}

\* The destructor runs on an object that is no longer used.
DestroyedDead == \A c \in Callers : request[c].op = "destroy" => ~ alive

IInv == TypeOK /\ SameNames /\ WaitingKnown /\ DestroyedDead /\ FindsStatement

\* The constructor's state has the invariant ...
LEMMA InitIInv == Init => IInv
<1> SUFFICES ASSUME Init PROVE IInv
  OBVIOUS
<1>1. NoRequest \in Requests /\ NoRequest.op # "destroy"
  BY DEF Requests, NoRequest
<1>2. TypeOK /\ DestroyedDead
  BY <1>1 DEF Init, TypeOK, DestroyedDead
<1>3. SameNames /\ WaitingKnown /\ FindsStatement
  BY DEF Init, SameNames, WaitingKnown, FindsStatement
<1> QED BY <1>2, <1>3 DEF IInv

\* Starting a task with a name the object has.
LEMMA StartsOne ==
  ASSUME IInv, NEW n \in prepared \cup {Nothing}, Starts(n),
         UNCHANGED <<alive, prepared>>
  PROVE  /\ task' \in [Tasks -> [state : {"none", "waiting", "answered", "thrown"},
                                 name : Names \cup {Nothing}]]
         /\ WaitingKnown'
BY DEF IInv, TypeOK, WaitingKnown, Starts

\* A call ends.
LEMMA DoneTypes ==
  ASSUME IInv, NEW c \in Callers, Done(c)
  PROVE  /\ request' \in [Callers -> Requests]
         /\ owner' \in Actors \cup {Nothing}
         /\ alive' = alive => DestroyedDead'
BY DEF IInv, TypeOK, Done, DestroyedDead, Requests, NoRequest, Actors

\* ... and every step keeps it.
THEOREM NextIInv == IInv /\ [Next]_vars => IInv'
<1> SUFFICES ASSUME IInv, [Next]_vars PROVE IInv'
  OBVIOUS
<1> USE DEF IInv
<1>1. ASSUME NEW c \in Callers, Call(c) PROVE IInv'
  <2>1. TypeOK'
    BY <1>1 DEF Call, TypeOK, Requests, Operations
  <2>2. WaitingKnown' /\ SameNames' /\ FindsStatement'
    BY <1>1 DEF Call, WaitingKnown, SameNames, FindsStatement
  <2>3. DestroyedDead'
    BY <1>1 DEF Call, DestroyedDead, TypeOK, Requests, NoRequest
  <2> QED BY <2>1, <2>2, <2>3
<1>2. ASSUME NEW c \in Callers, AsyncQuery(c) PROVE IInv'
  <2>1. TypeOK' /\ WaitingKnown'
    BY <1>2, StartsOne DEF AsyncQuery, TypeOK
  <2>2. SameNames' /\ DestroyedDead' /\ FindsStatement'
    BY <1>2 DEF AsyncQuery, SameNames, DestroyedDead, FindsStatement
  <2> QED BY <2>1, <2>2
<1>3. ASSUME NEW a \in Actors, Lock(a) PROVE IInv'
  BY <1>3 DEF Lock, TypeOK, SameNames, WaitingKnown, DestroyedDead, FindsStatement
<1>4. ASSUME NEW c \in Callers, Query(c) PROVE IInv'
  BY <1>4, DoneTypes DEF Query, TypeOK, SameNames, WaitingKnown, FindsStatement
<1>5. ASSUME NEW c \in Callers, AsyncExecute(c) PROVE IInv'
  <2>1. DestroyedDead' /\ SameNames' /\ FindsStatement'
    BY <1>5, DoneTypes DEF AsyncExecute, SameNames, FindsStatement
  <2>2. CASE request[c].name \in prepared
    BY <1>5, <2>1, <2>2, StartsOne, DoneTypes DEF AsyncExecute, TypeOK
  <2>3. CASE request[c].name \notin prepared
    BY <1>5, <2>1, <2>3, DoneTypes DEF AsyncExecute, TypeOK, WaitingKnown
  <2> QED BY <2>2, <2>3
<1>6. ASSUME NEW c \in Callers, Prepare(c) PROVE IInv'
  <2>1. DestroyedDead' /\ FindsStatement'
    BY <1>6, DoneTypes DEF Prepare, FindsStatement
  <2>2. SameNames' /\ WaitingKnown'
    BY <1>6 DEF Prepare, SameNames, WaitingKnown
  <2>3. request[c].name \in Names
    <3>1. request[c] \in Requests /\ request[c].op = "prepare"
      BY <1>6 DEF Prepare, In, TypeOK
    <3> QED BY <3>1 DEF Requests, NoRequest
  <2>4. TypeOK'
    BY <1>6, <2>3, DoneTypes DEF Prepare, TypeOK
  <2> QED BY <2>1, <2>2, <2>4
<1>7. ASSUME NEW c \in Callers, Unprepare(c) PROVE IInv'
  <2>1. server' = server
    BY <1>7 DEF Unprepare, SameNames
  <2> QED BY <1>7, <2>1, DoneTypes
          DEF Unprepare, TypeOK, SameNames, WaitingKnown, FindsStatement
<1>8. ASSUME NEW c \in Callers, Destroy(c) PROVE IInv'
  <2>1. ~ alive
    BY <1>8 DEF Destroy, In, DestroyedDead
  <2> QED BY <1>8, <2>1, DoneTypes
          DEF Destroy, TypeOK, SameNames, WaitingKnown, FindsStatement
<1>9. ASSUME NEW t \in Tasks, RunTask(t) PROVE IInv'
  <2>1. TypeOK'
    BY <1>9 DEF RunTask, TypeOK
  <2>2. SameNames' /\ DestroyedDead'
    BY <1>9 DEF RunTask, SameNames, DestroyedDead
  <2>3. WaitingKnown'
    BY <1>9 DEF RunTask, WaitingKnown, TypeOK
  <2>4. FindsStatement'
    BY <1>9 DEF RunTask, FindsStatement, WaitingKnown, SameNames
  <2> QED BY <2>1, <2>2, <2>3, <2>4
<1>10. CASE UNCHANGED vars
  BY <1>10 DEF vars, TypeOK, SameNames, WaitingKnown, DestroyedDead, FindsStatement
<1> QED BY <1>1, <1>2, <1>3, <1>4, <1>5, <1>6, <1>7, <1>8, <1>9, <1>10
        DEF Next, Body, Actors

\* The invariant holds throughout.
THEOREM Invariance == Spec => []IInv
<1>1. Init => IInv
  BY InitIInv
<1>2. IInv /\ [Next]_vars => IInv'
  BY NextIInv
<1> QED BY <1>1, <1>2, PTL DEF Spec

\* The variables of the connection and of its callers and tasks keep their types.
THEOREM TypeCorrect == Spec => []TypeOK
<1>1. IInv => TypeOK
  BY DEF IInv
<1> QED BY <1>1, Invariance, PTL

\* Whatever is called between async_execute() and its task, the task finds its
\* statement unless the object has been destroyed (connection.h:79-92).
THEOREM TaskFindsStatement == Spec => []FindsStatement
<1>1. IInv => FindsStatement
  BY DEF IInv
<1> QED BY <1>1, Invariance, PTL
=============================================================================
