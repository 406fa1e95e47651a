--------------------------- MODULE MCPersistence ---------------------------
(* Two keys of which one may expire, two processes (a server and its child, *)
(* or a child that outlived its server and the next server), two writes.    *)
EXTENDS Persistence, TLC

CONSTANTS k1, k2, p1, p2

MCKeys == {k1, k2}
MCPids == {p1, p2}
MCVolatile == {k1}

=============================================================================
