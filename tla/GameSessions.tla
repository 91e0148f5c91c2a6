---------------------------- MODULE GameSessions ----------------------------
(***************************************************************************)
(* The game-session, party, invitation and presence services of the        *)
(* dedicated server: the RMC handlers of game_session.rs on the secure     *)
(* server, the gRPC handlers of api.rs, and the closing of secure          *)
(* connections, over the database of GameStore.                            *)
(*                                                                         *)
(* Each handler runs one transaction, but for Friends.invite, which looks  *)
(* its target up in one and stores the invitation in another, and          *)
(* SplitSession, whose up to three transactions (migrate, look whether it  *)
(* is live, restore) change the database in one of them at most.  The      *)
(* secure server is one thread; the API runs beside it, so any transaction *)
(* may come between the two of invite.  What a game client calls, and      *)
(* when, is free: the handlers only ask for a login.                       *)
(***************************************************************************)
EXTENDS GameStore

CONSTANTS
    Hosts,        \* users whose client creates sessions
    Managers,     \* users whose client adds and removes others, and updates
    Inviters,     \* users who invite
    Overlays,     \* users whose launcher and overlay call the API
    NewClasses,   \* classes of the sessions that are created
    SetClasses,   \* classes the clients update a session to
    Flaky,        \* users that may close a connection, stop polling the API or
                  \* register no endpoint
    MaxConns,     \* bound: secure connections of a user at one time
    MaxSessions,  \* bound: game sessions created
    MaxParties,   \* bound: parties created
    MaxInviteId,  \* bound: largest invitation id given out
    Restarts      \* whether the server may be restarted

ASSUME ClientsAssumption ==
    /\ Hosts \subseteq Users /\ Managers \subseteq Users /\ Inviters \subseteq Users
    /\ Overlays \subseteq Users /\ Flaky \subseteq Users
    /\ NewClasses \subseteq Classes /\ SetClasses \subseteq Classes
    /\ Restarts \in BOOLEAN
ASSUME BoundsAssumption ==
    MaxConns \in Nat /\ MaxSessions \in Nat /\ MaxParties \in Nat /\ MaxInviteId \in Nat

VARIABLES
    db,       \* the database
    tickets,  \* users who hold a ticket; it is good for ever and for any
              \* number of connections (valid_until is u64::MAX)
    conns,    \* how many secure connections of each user are registered
    seen,     \* users whose last API call is at most 15 seconds ago
    lookup,   \* Friends.invite between its transactions: its target
    popup     \* the invitation last delivered to each user's overlay

vars == <<db, tickets, conns, seen, lookup, popup>>

None == [id |-> 0]

Init ==
    /\ db = EmptyDb
    /\ tickets = {}
    /\ conns = [u \in Users |-> 0]
    /\ seen = {}
    /\ lookup = [u \in Users |-> None]
    /\ popup = [u \in Users |-> None]

Bounded(d) ==
    /\ Len(d.sessions) <= MaxSessions
    /\ d.lastParty <= MaxParties
    /\ \A i \in d.invites : i.id <= MaxInviteId

Commit(d) == Bounded(d) /\ db' = d

\* login_required
LoggedIn(u) == conns[u] > 0

\* A handler of the secure server for a logged-in caller.
Rmc(u, d) ==
    /\ LoggedIn(u)
    /\ Commit(d)
    /\ UNCHANGED <<tickets, conns, seen, lookup, popup>>

\* A handler of the API: check_token records the heartbeat first.
Api(u, d) ==
    /\ Commit(d)
    /\ seen' = seen \cup {u}
    /\ UNCHANGED <<tickets, conns>>

-----------------------------------------------------------------------------
\* Presence.

\* TicketGranting.LoginEx, and the RequestTicket that follows it.
Login(u) ==
    /\ tickets' = tickets \cup {u}
    /\ Commit([db EXCEPT !.online = @ \cup {u}])
    /\ UNCHANGED <<conns, seen, lookup, popup>>

\* Users.Login of the API, the launcher's login.
ApiLogin(u) ==
    /\ Commit([db EXCEPT !.online = @ \cup {u}])
    /\ UNCHANGED <<tickets, conns, seen, lookup, popup>>

\* The CONNECT of a secure connection.
Connect(u) ==
    /\ u \in tickets
    /\ conns[u] < MaxConns
    /\ conns' = [conns EXCEPT ![u] = @ + 1]
    /\ UNCHANGED <<db, tickets, seen, lookup, popup>>

\* A secure connection is disconnected or expires.
CloseConnection(u) ==
    /\ LoggedIn(u)
    /\ conns' = [conns EXCEPT ![u] = @ - 1]
    /\ Commit(CloseSecureSession(db, u, u \in seen))
    /\ UNCHANGED <<tickets, seen, lookup, popup>>

\* 15 seconds pass since the user's last API call.
HeartbeatAges(u) ==
    /\ u \in seen
    /\ seen' = seen \ {u}
    /\ UNCHANGED <<db, tickets, conns, lookup, popup>>

\* Friends.List and Users.List, asked for by u, up to the commit of the sweep.  The
\* SELECT that answers them is a statement of its own: it comes later, reads what
\* it finds then (ShownOnline) and changes nothing.
ListUsers(u) ==
    /\ Api(u, CleanupUsers(db, StaleUsers(db, seen \cup {u})))
    /\ UNCHANGED <<lookup, popup>>

\* The process dies and is started again.
Restart ==
    /\ Restarts
    /\ Commit(InvalidateSessions(db))
    /\ conns' = [u \in Users |-> 0]
    /\ lookup' = [u \in Users |-> None]
    /\ UNCHANGED <<tickets, seen, popup>>

-----------------------------------------------------------------------------
\* GameSession handlers.

CreateSession(u, class) == Rmc(u, CreateGameSession(db, u, class))

UpdateSession(u, s, class) == Rmc(u, UpdateGameSession(db, s, class))

RegisterUrls(u, any) ==
    Rmc(u, [db EXCEPT !.urls = IF any THEN @ \cup {u} ELSE @ \ {u}])

JoinSession(u, s) ==
    /\ Live(db, s)
    /\ ~JoinViolatesForeignKey(db, u, s)
    /\ Rmc(u, JoinGameSession(db, u, s))

\* LeaveSession and AbandonSession.
LeaveSession(u, s) == Rmc(u, LeaveGameSession(db, u, s))

RemoveFromSession(u, s, v) == Rmc(u, RemoveParticipants(db, s, v))

AddToSession(u, s, v, private) == Rmc(u, AddParticipant(db, u, s, v, private))

\* MigrateSession and MigrateSessionHost.
MigrateSession(u, s) ==
    /\ CanMigrate(db, u, s)
    /\ Rmc(u, MigrateHost(db, u, s))

SplitSession(u, s) ==
    \/ MigrateSession(u, s)
    \/ /\ CanRestore(db, u, s)
       /\ Rmc(u, RestoreSession(db, u, s))

DeleteSession(u, s) ==
    /\ Live(db, s)
    /\ Creator(db, s) = u
    /\ Rmc(u, DeleteGameSession(db, u, s))

-----------------------------------------------------------------------------
\* API handlers.

\* Games.Delete, an administrator's call.
AdminDeleteSession(s) ==
    /\ Commit(Destroy(db, s))
    /\ UNCHANGED <<tickets, conns, seen, lookup, popup>>

\* Friends.Invite: the newest lobby or room the sender hosts is the target.
InviteTargets(u) == {s \in HostedBy(db, u) : db.sessions[s].class # "other"}

InviteLookup(u, to) ==
    /\ u # to
    /\ InviteTargets(u) # {}
    /\ Api(u, db)
    /\ lookup' = [lookup EXCEPT ![u] =
                    LET s == Max(InviteTargets(u))
                    IN  [to |-> to, session |-> s, kind |-> InviteKind(db.sessions[s].class)]]
    /\ UNCHANGED popup

InviteStore(u) ==
    /\ lookup[u] # None
    /\ Commit(IF lookup[u].session \in HostedBy(db, u)
              THEN AddInvite(db, u, lookup[u].to, lookup[u].kind, lookup[u].session)
              ELSE db)
    /\ lookup' = [lookup EXCEPT ![u] = None]
    /\ UNCHANGED <<tickets, conns, seen, popup>>

\* Misc.Event, the overlay's poll.
PollEvent(u) ==
    /\ Api(u, TakeInvites(db, u))
    /\ \/ UNCHANGED popup
       \/ \E i \in Deliverable(db, u) :
              popup' = [popup EXCEPT ![u] = [id |-> i.id, from |-> i.from, session |-> i.session]]
    /\ UNCHANGED lookup

\* Misc.AcceptInvite, for the invitation the overlay shows.
AcceptPopup(u) ==
    /\ popup[u] # None
    /\ Api(u, AcceptInvite(db, u, popup[u].id))
    /\ UNCHANGED <<lookup, popup>>

\* The lifetime of an invitation ends: one or five minutes after it was made.
InviteExpires(i) ==
    /\ ~i.expired
    /\ db' = [db EXCEPT !.invites = (@ \ {i}) \cup {[i EXCEPT !.expired = TRUE]}]
    /\ UNCHANGED <<tickets, conns, seen, lookup, popup>>

Next ==
    \/ \E u \in Users : Login(u) \/ Connect(u)
    \/ \E u \in Flaky : CloseConnection(u) \/ HeartbeatAges(u)
    \/ \E u \in Overlays : ApiLogin(u) \/ ListUsers(u) \/ PollEvent(u) \/ AcceptPopup(u)
    \/ \E u \in Inviters : InviteStore(u) \/ \E to \in Users : InviteLookup(u, to)
    \/ Restart
    \/ \E u \in Hosts, class \in NewClasses : CreateSession(u, class)
    \/ \E u \in Users : RegisterUrls(u, TRUE)
    \/ \E u \in Flaky : RegisterUrls(u, FALSE)
    \/ \E u \in Users, s \in Sessions(db) :
          \/ JoinSession(u, s)
          \/ LeaveSession(u, s)
          \/ MigrateSession(u, s)
          \/ SplitSession(u, s)
          \/ DeleteSession(u, s)
    \/ \E u \in Managers, s \in Sessions(db) :
          \/ \E class \in SetClasses : UpdateSession(u, s, class)
          \/ \E v \in Users : RemoveFromSession(u, s, v)
          \/ \E v \in Users, private \in BOOLEAN : AddToSession(u, s, v, private)
    \/ \E s \in Sessions(db) : AdminDeleteSession(s)
    \/ \E i \in db.invites : InviteExpires(i)

Spec == Init /\ [][Next]_vars

\* The overlays of the players who stay poll the event service every second.
Polls == \A u \in Overlays \ Flaky : WF_vars(PollEvent(u))

-----------------------------------------------------------------------------
\* Properties.

SessionType == [creator : Users, class : Classes, live : BOOLEAN]

InviteType ==
    [id : Nat, from : Users, to : Users, kind : Kinds, session : Nat, party : Nat,
     status : {"pending", "accepted", "consumed"}, expired : BOOLEAN]

\* Type correctness: the tables refer to rows that exist.
TypeOK ==
    /\ DOMAIN db = DOMAIN EmptyDb
    /\ db.sessions \in Seq(SessionType)
    /\ db.parts \subseteq Sessions(db) \X Users
    /\ db.urls \subseteq Users
    /\ db.party \in [Users -> Nat]
    /\ db.member \in [Users -> Nat]
    /\ db.lastParty \in Nat
    /\ db.invites \subseteq InviteType
    /\ db.online \subseteq Users
    /\ tickets \subseteq Users
    /\ conns \in [Users -> Nat]
    /\ seen \subseteq Users
    /\ lookup \in [Users -> {None} \cup [to : Users, session : Nat, kind : Manual]]
    /\ popup \in [Users -> {None} \cup [id : Nat, from : Users, session : Nat]]

\* Whoever leaves, is removed, disconnects, goes stale or hands over: a live
\* session is hosted by somebody who is in it, so a search can return it
\* (reconcile_game_session_async after every removal).
HostPresent ==
    \A s \in Sessions(db) : Live(db, s) => Creator(db, s) \in Joined(db, s)

\* The leader of a party is a member of it, a member's party exists, and no
\* two users lead the same party, through joins of other parties, dissolved
\* parties and lobby leaves.
PartyConsistent ==
    /\ \A u \in Users : db.party[u] # NoParty => db.member[u] = db.party[u]
    /\ \A u \in Users : db.member[u] # NoParty => PartyExists(db, db.member[u])
    /\ \A u, v \in Users : db.party[u] = db.party[v] /\ db.party[u] # NoParty => u = v
    /\ \A u \in Users : db.party[u] <= db.lastParty

\* A player has at most one open invitation in each lane: the manual one
\* (private rooms and lobbies), the one that follows the party, and the one
\* back to the lobby; and invitation ids are unique.
OneInvitePerLane ==
    \A i, j \in db.invites :
        /\ i.id = j.id => i = j
        /\ /\ i.to = j.to
           /\ i.status # "consumed" /\ j.status # "consumed"
           /\ i.kind = j.kind \/ {i.kind, j.kind} \subseteq Manual
           => i = j

\* While a session stays live it is only ever handed to a participant, and a
\* host that stays in it only loses it to a participant's own migration call.
HostComesFromInside ==
    [][\A s \in Sessions(db) :
          Live(db, s) /\ Live(db, s)' /\ Creator(db, s)' # Creator(db, s)
              => /\ Creator(db, s)' \in Joined(db, s)
                 /\ Creator(db, s) \in Joined(db, s)' =>
                        \E u \in Users : MigrateSession(u, s) \/ SplitSession(u, s)]_vars

\* A join uses up the invitations it answers, so that none of them can pull
\* the player back in (JoinSession consumes it).
JoinAnswersInvites ==
    [][\A u \in Users, s \in Sessions(db) : JoinSession(u, s) =>
          ~\E i \in db'.invites : i.to = u /\ i.session = s /\ Accepted(i)]_vars

\* When a party leader joins or creates a room, every other member of the
\* party has an open invitation to follow into it.
PartyIsCalled ==
    [][\A u \in Users, s \in Sessions(db)' :
          /\ \/ s \in Sessions(db) /\ JoinSession(u, s)
             \/ s \notin Sessions(db) /\ Creator(db, s)' = u
          /\ db'.sessions[s].class = "room"
          /\ db'.party[u] # NoParty
          => \A v \in Users \ {u} : db'.member[v] = db'.party[u] =>
                \E i \in db'.invites : i.to = v /\ i.kind = "follow" /\ i.session = s
                                       /\ i.status # "consumed" /\ ~i.expired]_vars

\* The player itself gives its place up, or whoever manages the session takes it.
GivesPlaceUp(s, v) ==
    LeaveSession(v, s) \/ \E u \in Managers : RemoveFromSession(u, s, v)

\* Whoever is present, by an overlay that was heard or by the online mark, keeps its
\* place in every session and its endpoint, whatever others do and whichever of
\* its two signals stops: no sweep, and no end of somebody else's, takes them.
\* The exceptions are its own calls, its removal, a new start, and the close of its
\* connection when no overlay was heard (close_secure_session preserves the rest).
PresenceKeepsRooms ==
    [][\A v \in seen \cup db.online :
          LET lost == v \notin seen /\ CloseConnection(v)
          IN  /\ \A s \in Sessions(db) :
                    v \in Joined(db, s) \ Joined(db', s) => GivesPlaceUp(s, v) \/ lost
              /\ v \in db.urls \ db'.urls => RegisterUrls(v, FALSE) \/ Restart \/ lost]_vars

\* An invitation to a session that is gone, handed over or without an endpoint
\* does not stay open while some overlay polls (cleanup_invalid_invites_async
\* in every poll), and neither does one that has run out.
InvalidInviteGoes ==
    \A id \in 1..MaxInviteId :
        (\E i \in db.invites : i.id = id /\ ~Valid(db, i))
            ~> ~(\E i \in db.invites : i.id = id /\ ~Valid(db, i))
=============================================================================
