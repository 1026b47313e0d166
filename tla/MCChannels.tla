----------------------------- MODULE MCChannels -----------------------------
(* Two connections that subscribe under their own connID or that of the    *)
(* other, which may not be there yet or any more.                          *)
EXTENDS Channels, TLC

CONSTANTS c1, c2, main, side

Symmetry == Permutations(Conn) \cup Permutations(Channel)

AnyLimit == {-1, 1, 2}

=============================================================================
