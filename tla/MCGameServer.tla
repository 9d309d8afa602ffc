---------------------------- MODULE MCGameServer ----------------------------
(* GameServer on small instances.  Client ids are interchangeable, so the   *)
(* safety runs use symmetry; the runs with temporal properties do not.      *)
EXTENDS GameServer, TLC

Clients == Permutations(Socket)

=============================================================================
