------------------------------ MODULE Metrics -------------------------------
(***************************************************************************)
(* The number of connections that network::metrics keeps                   *)
(* (src/network/metrics.cpp).  It is an atomic, but connection() and       *)
(* disconnection() load it and store it in separate steps, and two threads *)
(* call them: a call is a sequence of steps here, one per access.  Process *)
(* composes this with the threads that make the calls.                     *)
(***************************************************************************)
EXTENDS Integers

CONSTANTS
    Threads,
    Wrap   \* where connections_ wraps round (2^64 for size_t)

ASSUME WrapAssumption == Wrap \in Nat \ {0}

VARIABLES
    connections,   \* connections_
    call,          \* for each thread, the step it is at in which function
    raced          \* history: a call was begun while another was under way

metrics == <<connections, call, raced>>

Idle == [at |-> "idle", loaded |-> 0]

Counts == 0 .. Wrap - 1

Steps == {"idle", "load to raise", "raise", "test", "load to lower", "lower"}

MetricsTypeOK ==
    /\ connections \in Counts /\ raced \in BOOLEAN
    /\ call \in [Threads -> [at : Steps, loaded : Counts]]

MetricsInit ==
    /\ connections = 0 /\ raced = FALSE
    /\ call = [t \in Threads |-> Idle]

Quiet(t) == call[t] = Idle

AllQuiet == \A t \in Threads : Quiet(t)

(* Thread t calls one of the two.                                          *)
Begin(t, step) ==
    /\ Quiet(t)
    /\ call' = [call EXCEPT ![t].at = step]
    /\ raced' = (raced \/ ~ AllQuiet)
    /\ UNCHANGED connections

Connection(t) == Begin(t, "load to raise")
Disconnection(t) == Begin(t, "test")

(* Mutant: the count is not compared with zero first.                      *)
Test_Skipped(t) ==
    /\ call[t].at = "test"
    /\ call' = [call EXCEPT ![t].at = "load to lower"]
    /\ UNCHANGED <<connections, raced>>

(* if (connections_ == 0) return;                                          *)
Test(t) ==
    /\ call[t].at = "test"
    /\ call' = [call EXCEPT ![t] = IF connections = 0 THEN Idle
                                   ELSE [at |-> "load to lower", loaded |-> 0]]
    /\ UNCHANGED <<connections, raced>>

Load(t) ==
    /\ call[t].at \in {"load to raise", "load to lower"}
    /\ call' = [call EXCEPT ![t] =
                   [at |-> IF @.at = "load to raise" THEN "raise" ELSE "lower",
                    loaded |-> connections]]
    /\ UNCHANGED <<connections, raced>>

(* What was loaded, one up or down, wrapped.                               *)
Store(t) ==
    /\ \/ call[t].at = "raise" /\ connections' = (call[t].loaded + 1) % Wrap
       \/ call[t].at = "lower" /\ connections' = (call[t].loaded - 1) % Wrap
    /\ call' = [call EXCEPT ![t] = Idle]
    /\ UNCHANGED raced

(* Thread t goes on with its call.                                         *)
CallStep(t) == Test(t) \/ Load(t) \/ Store(t)
=============================================================================
