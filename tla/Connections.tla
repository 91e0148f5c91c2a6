---------------------------- MODULE Connections ----------------------------
(***************************************************************************)
(* What a PRUDP server promises to the code above it, the handlers of      *)
(* dedicated-server/src/main.rs and the services that look a peer up by    *)
(* its connection id: a connection opens once, under an id that nobody had *)
(* before when its user is known, keeps its user and its id while it is    *)
(* open, and is reported closed exactly once.                              *)
(***************************************************************************)
EXTENDS Naturals

CONSTANTS
    Handles,   \* signatures: one for every connection attempt
    Users,     \* users that a ticket can name
    Nobody     \* the user, and the id, of a connection without a valid ticket

VARIABLES
    open,      \* the open connections: handle -> user and connection id
    issued,    \* connection ids given so far
    closes     \* how often the close of each connection was reported

vars == <<open, issued, closes>>

Init ==
    /\ DOMAIN open = {}
    /\ issued = {}
    /\ closes = [h \in Handles |-> 0]

\* One more connection, the others as they were.
Opens(h) ==
    /\ h \notin DOMAIN open
    /\ closes[h] = 0
    /\ DOMAIN open' = DOMAIN open \cup {h}
    /\ \A g \in DOMAIN open : open'[g] = open[g]
    /\ UNCHANGED closes

OpenAnonymous(h) ==
    /\ Opens(h)
    /\ open'[h] = [user |-> Nobody, id |-> Nobody]
    /\ UNCHANGED issued

OpenFor(h) ==
    /\ Opens(h)
    /\ open'[h].user \in Users
    /\ open'[h].id \notin issued
    /\ issued' = issued \cup {open'[h].id}

Close(H) ==
    /\ H \subseteq DOMAIN open
    /\ open' = [h \in DOMAIN open \ H |-> open[h]]
    /\ closes' = [h \in Handles |-> closes[h] + (IF h \in H THEN 1 ELSE 0)]
    /\ UNCHANGED issued

Next ==
    \/ \E h \in Handles : OpenAnonymous(h) \/ OpenFor(h)
    \/ \E H \in SUBSET Handles : Close(H)

Spec == Init /\ [][Next]_vars
=============================================================================
