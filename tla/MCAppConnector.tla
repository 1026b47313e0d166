--------------------------- MODULE MCAppConnector ---------------------------
(* One app server, with three sockets in use at most.                      *)
EXTENDS AppConnector

CONSTANTS s1, s2, s3

=============================================================================
