--------------------------- MODULE MCPrudpServer ---------------------------
(* Model values for PrudpServer: two players, who between them may start    *)
(* more connections than there are players.                                 *)
EXTENDS PrudpServer

CONSTANTS p1, p2

TwoPlayers == {p1, p2}
=============================================================================
