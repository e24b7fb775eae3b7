---------------------------- MODULE MCRealtimeHub ----------------------------
(* Connections of one user, all with the same token.                       *)
EXTENDS RealtimeHub

CONSTANTS u1, t1

MCUserOf == [c \in Conns |-> u1]
MCTokenOf == [c \in Conns |-> t1]
=============================================================================
