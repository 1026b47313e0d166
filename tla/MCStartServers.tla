--------------------------- MODULE MCStartServers ---------------------------
(* A request for one or two servers and a query for one, of one or two     *)
(* types.                                                                  *)
EXTENDS StartServers

CONSTANTS r1, q1, t1, t2

=============================================================================
