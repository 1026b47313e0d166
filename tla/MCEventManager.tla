--------------------------- MODULE MCEventManager ---------------------------
(* A small instance of EventManager: one connection of each transport, and  *)
(* a queue limit that three events can exceed.                              *)
EXTENDS EventManager, TLC

CONSTANTS s1, w1, h1, e1, e2, e3

MixedType == (s1 :> "socket") @@ (w1 :> "sockio") @@ (h1 :> "HTTP")

=============================================================================
