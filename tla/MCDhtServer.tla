--------------------------- MODULE MCDhtServer ---------------------------
(* DhtServer on small instances. *)
EXTENDS DhtServer, TLC

\* A port, one that wraps a u16, one that wraps an i32.
MCNamedPort == {0, 5, 12}
MCSendPort == {1}

ServerSymmetry ==
    Permutations(Ip) \cup Permutations(Token) \cup Permutations(InfoHash)
=============================================================================
