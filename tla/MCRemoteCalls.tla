--------------------------- MODULE MCRemoteCalls ----------------------------
(* Two APIs, one of them with an after-action and two before-actions.      *)
EXTENDS RemoteCalls, TLC

CONSTANTS plain, watched

MCApi == {plain, watched}
MCWatched == {watched}

=============================================================================
