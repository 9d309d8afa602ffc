------------------------------ MODULE Presence ------------------------------
(***************************************************************************)
(* What the server promises about who is in the world: a client enters it  *)
(* at most once, only while its connection is alive, is taken out of it    *)
(* only once its connection is dead, and is then taken out in the end.     *)
(*                                                                         *)
(* GameServer is the protocol of socket callbacks and game loop behind it. *)
(***************************************************************************)
CONSTANT Socket

VARIABLES
  line,     \* line[s]: the connection: "new", then "up", then "down"
  place     \* place[s]: the player: "out" of the world, "in" it, "left" it

vars == <<line, place>>

TypeOK ==
  /\ line \in [Socket -> {"new", "up", "down"}]
  /\ place \in [Socket -> {"out", "in", "left"}]

Init ==
  /\ line = [s \in Socket |-> "new"]
  /\ place = [s \in Socket |-> "out"]

Connect(s) ==
  /\ line[s] = "new"
  /\ line' = [line EXCEPT ![s] = "up"]
  /\ UNCHANGED place

Disconnect(s) ==
  /\ line[s] = "up"
  /\ line' = [line EXCEPT ![s] = "down"]
  /\ UNCHANGED place

Enter(s) ==
  /\ line[s] = "up" /\ place[s] = "out"
  /\ place' = [place EXCEPT ![s] = "in"]
  /\ UNCHANGED line

\* One tick takes out every client whose turn has come.
Leave ==
  \E S \in (SUBSET Socket) \ {{}} :
    /\ \A s \in S : line[s] = "down" /\ place[s] = "in"
    /\ place' = [s \in Socket |-> IF s \in S THEN "left" ELSE place[s]]
    /\ UNCHANGED line

Next ==
  \/ \E s \in Socket : Connect(s) \/ Disconnect(s) \/ Enter(s)
  \/ Leave

\* Nobody whose connection is dead stays in the world.
Fairness == \A s \in Socket : WF_vars(Leave /\ place'[s] # place[s])

SafeSpec == Init /\ [][Next]_vars

Spec == SafeSpec /\ Fairness

=============================================================================
