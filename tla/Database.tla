------------------------------ MODULE Database ------------------------------
(***************************************************************************)
(* A database::connection (src/database/connection.cpp, connection.h) with *)
(* the threads that call it and the tasks that its asynchronous queries    *)
(* run as.  One mutex guards everything; an asynchronous call lets go of   *)
(* it, if it takes it at all, before its task runs.  The tasks share the   *)
(* mutex and the pqxx connection with the object, and may outlive it.      *)
(*                                                                         *)
(* pqxx and the server behind it are external: a query may fail, and       *)
(* "server" is the set of statements the server has under this connection. *)
(***************************************************************************)
EXTENDS Naturals, FiniteSets

CONSTANTS
    Callers,   \* threads that share the object
    Tasks,     \* bound: the asynchronous calls made
    Names,     \* names of statements
    Nothing    \* no thread, no name

ASSUME ActorsAssumption == Nothing \notin Callers \cup Tasks \cup Names
ASSUME DisjointAssumption == Callers \cap Tasks = {}

VARIABLES
    alive,      \* the object has not been destroyed
    aborted,    \* the process has aborted: abort(), or std::terminate()
    owner,      \* of *database_mutex_
    request,    \* for each caller, what it is in the middle of
    task,       \* for each task: not started, waiting for the mutex, or its result
    prepared,   \* prepared_statements_
    server,
    missing     \* history: tasks whose statement was gone when they ran

vars == <<alive, aborted, owner, request, task, prepared, server, missing>>

Actors == Callers \cup Tasks

Operations == {"query", "execute", "async_execute", "prepare", "unprepare", "destroy"}

NoRequest == [op |-> "none", name |-> Nothing]

Requests ==
    {r \in [op : Operations, name : Names \cup {Nothing}] :
        r.name = Nothing <=> r.op \in {"query", "destroy"}}
    \cup {NoRequest}

TypeOK ==
    /\ alive \in BOOLEAN /\ aborted \in BOOLEAN
    /\ owner \in Actors \cup {Nothing}
    /\ request \in [Callers -> Requests]
    /\ task \in [Tasks -> [state : {"none", "waiting", "answered", "thrown"},
                           name : Names \cup {Nothing}]]
    /\ prepared \subseteq Names /\ server \subseteq Names
    /\ missing \subseteq Tasks

(* The constructor connects; a pqxx connection begins without statements.  *)
Init ==
    /\ alive = TRUE /\ aborted = FALSE /\ owner = Nothing
    /\ request = [c \in Callers |-> NoRequest]
    /\ task = [t \in Tasks |-> [state |-> "none", name |-> Nothing]]
    /\ prepared = {} /\ server = {} /\ missing = {}

(***************************************************************************)
(* Calling.                                                                *)
(***************************************************************************)
Starts(name) ==
    \E t \in Tasks :
        /\ task[t].state = "none"
        /\ task' = [task EXCEPT ![t] = [state |-> "waiting", name |-> name]]

(* A task is left for another asynchronous call (bound).                   *)
Spare ==
    Cardinality({t \in Tasks : task[t].state = "none"})
        > Cardinality({c \in Callers : request[c].op = "async_execute"})

(* A call that takes the mutex first.  The last owner of the object        *)
(* destroys it, when no call is under way.                                 *)
Call(c) ==
    /\ alive /\ ~ aborted /\ request[c] = NoRequest
    /\ \E op \in Operations, n \in Names \cup {Nothing} :
        /\ n = Nothing <=> op \in {"query", "destroy"}
        /\ op = "async_execute" => Spare
        /\ op = "destroy" => \A d \in Callers : request[d] = NoRequest
        /\ request' = [request EXCEPT ![c] = [op |-> op, name |-> n]]
        /\ alive' = (op # "destroy")
    /\ UNCHANGED <<aborted, owner, task, prepared, server, missing>>

(* async_query() takes no lock: it copies the two pointers into a task.    *)
AsyncQuery(c) ==
    /\ alive /\ ~ aborted /\ request[c] = NoRequest /\ Spare
    /\ Starts(Nothing)
    /\ UNCHANGED <<alive, aborted, owner, request, prepared, server, missing>>

(* std::lock_guard.                                                        *)
Lock(a) ==
    /\ ~ aborted /\ owner = Nothing
    /\ IF a \in Callers THEN request[a] # NoRequest ELSE task[a].state = "waiting"
    /\ owner' = a
    /\ UNCHANGED <<alive, aborted, request, task, prepared, server, missing>>

(* Caller c holds the mutex for a call of op; it lets go of it as it       *)
(* returns or throws.                                                      *)
In(c, op) == ~ aborted /\ owner = c /\ request[c].op = op

Done(c) ==
    /\ owner' = Nothing
    /\ request' = [request EXCEPT ![c] = NoRequest]

(***************************************************************************)
(* Under the mutex.                                                        *)
(***************************************************************************)
(* query() and execute(): one transaction, or an exception (execute()      *)
(* throws one of its own for a name it does not know).  What they answer   *)
(* is the caller's matter.                                                 *)
Query(c) ==
    /\ In(c, "query") \/ In(c, "execute")
    /\ Done(c)
    /\ UNCHANGED <<alive, aborted, task, prepared, server, missing>>

(* async_execute(): throws for a name it does not know, or starts a task.  *)
AsyncExecute(c) ==
    /\ In(c, "async_execute")
    /\ IF request[c].name \in prepared THEN Starts(request[c].name) ELSE UNCHANGED task
    /\ Done(c)
    /\ UNCHANGED <<alive, aborted, prepared, server, missing>>

(* prepare_statement(): a name used before, or a statement that pqxx       *)
(* rejects, aborts the process.                                            *)
Prepare(c) ==
    /\ In(c, "prepare")
    /\ \/ /\ request[c].name \notin prepared
          /\ prepared' = prepared \cup {request[c].name}
          /\ server' = server \cup {request[c].name}
          /\ UNCHANGED aborted
       \/ aborted' = TRUE /\ UNCHANGED <<prepared, server>>
    /\ Done(c)
    /\ UNCHANGED <<alive, task, missing>>

(* Mutant: a statement that is known is unprepared.                        *)
Unprepare_Known(c) ==
    /\ In(c, "unprepare")
    /\ server' = server \ {request[c].name}
    /\ prepared' = prepared \ {request[c].name}
    /\ Done(c)
    /\ UNCHANGED <<alive, aborted, task, missing>>

(* unprepare_statement(): returns if the name is known; if not, pqxx is    *)
(* asked to drop a statement that the server does not have.                *)
Unprepare(c) ==
    /\ In(c, "unprepare")
    /\ server' = IF request[c].name \in prepared THEN server
                                                 ELSE server \ {request[c].name}
    /\ Done(c)
    /\ UNCHANGED <<alive, aborted, task, prepared, missing>>

(* ~connection(): what is known is unprepared.  What pqxx throws of one of *)
(* them does not get out of a destructor: the process is terminated, with  *)
(* what was dropped before it, which nobody is left to look at.            *)
Destroy(c) ==
    /\ In(c, "destroy")
    /\ \/ /\ server' = server \ prepared /\ prepared' = {}
          /\ UNCHANGED aborted
       \/ /\ prepared # {} /\ aborted' = TRUE
          /\ UNCHANGED <<prepared, server>>
    /\ Done(c)
    /\ UNCHANGED <<alive, task, missing>>

(* Mutant: the mutex is kept when the task throws.                         *)
RunTask_KeepsMutex(t) ==
    /\ ~ aborted /\ owner = t
    /\ \E state \in IF task[t].name \in server \cup {Nothing}
                    THEN {"answered", "thrown"} ELSE {"thrown"} :
        /\ task' = [task EXCEPT ![t].state = state]
        /\ owner' = IF state = "thrown" THEN t ELSE Nothing
    /\ missing' = missing
    /\ UNCHANGED <<alive, aborted, request, prepared, server>>

(* A task runs its transaction; the future gets the result or what was     *)
(* thrown.  A statement that the server does not have throws.              *)
RunTask(t) ==
    /\ ~ aborted /\ owner = t /\ task[t].state = "waiting"
    /\ \E state \in IF task[t].name \in server \cup {Nothing}
                    THEN {"answered", "thrown"} ELSE {"thrown"} :
        task' = [task EXCEPT ![t].state = state]
    /\ missing' = IF task[t].name \in server \cup {Nothing} THEN missing
                                                         ELSE missing \cup {t}
    /\ owner' = Nothing
    /\ UNCHANGED <<alive, aborted, request, prepared, server>>

Body(c) ==
    Query(c) \/ AsyncExecute(c) \/ Prepare(c) \/ Unprepare(c) \/ Destroy(c)

Next ==
    \/ \E c \in Callers : Call(c) \/ AsyncQuery(c) \/ Lock(c) \/ Body(c)
    \/ \E t \in Tasks : Lock(t) \/ RunTask(t)

(* What holds the mutex goes on, and whoever waits for it gets it.         *)
Fairness ==
    /\ \A a \in Actors : SF_vars(Lock(a))
    /\ \A c \in Callers : WF_vars(Body(c))
    /\ \A t \in Tasks : WF_vars(RunTask(t))

Spec == Init /\ [][Next]_vars /\ Fairness

(***************************************************************************)
(* Properties.                                                             *)
(***************************************************************************)
(* async_execute() checks the name and lets go of the mutex; whatever is   *)
(* called before its task gets the mutex back, the statement is still      *)
(* there, unless the object has been destroyed (connection.h:79-84,        *)
(* connection.cpp:16-23, 73-81).                                           *)
FindsStatement == missing # {} => ~ alive

(* Every asynchronous call is answered or throws into its future, also     *)
(* when the object is gone before its task runs (connection.cpp:40-50,     *)
(* connection.h:82-92).                                                    *)
AnswersArrive ==
    \A t \in Tasks :
        (task[t].state = "waiting") ~> (task[t].state \in {"answered", "thrown"} \/ aborted)
=============================================================================
