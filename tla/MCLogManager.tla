---------------------------- MODULE MCLogManager ----------------------------
(* Three log files and two calls of disposeAllLogs.                          *)
EXTENDS LogManager

CONSTANTS l1, l2, l3, d1, d2

=============================================================================
