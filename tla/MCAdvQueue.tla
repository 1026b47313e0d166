----------------------------- MODULE MCAdvQueue -----------------------------
(* Four items, and handlers that finish, put back, pause or enqueue.      *)
EXTENDS AdvQueue

CONSTANTS x1, x2, x3, x4

AnyOutcome == {"done", "again", "pause"}

=============================================================================
