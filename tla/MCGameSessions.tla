-------------------------- MODULE MCGameSessions --------------------------
(* Instances of GameSessions for TLC. User ids are numbers because the       *)
(* server passes a session on to the lowest one, so they are not symmetric.  *)
EXTENDS SessionSearch

\* Every player is connected, has its endpoints registered and its overlay
\* polling: a state Init leads to, from which the runs about rooms and
\* invitations start.
ReadyInit ==
    /\ db = [EmptyDb EXCEPT !.online = Users, !.urls = Users]
    /\ tickets = Users
    /\ conns = [u \in Users |-> 1]
    /\ seen = Overlays
    /\ lookup = [u \in Users |-> None]
    /\ popup = [u \in Users |-> None]

ReadySpec == ReadyInit /\ [][Next]_vars

PollingReady == ReadySpec /\ Polls
===========================================================================
