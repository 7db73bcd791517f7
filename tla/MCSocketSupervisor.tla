------------------------- MODULE MCSocketSupervisor -------------------------
(* The instance of SocketSupervisor that TLC checks.                       *)
EXTENDS SocketSupervisor

CONSTANTS s1, t1, t2, l1, l2, l3, l4

=============================================================================
