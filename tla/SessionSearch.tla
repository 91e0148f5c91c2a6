--------------------------- MODULE SessionSearch ---------------------------
(***************************************************************************)
(* What the dedicated server answers of its game sessions and users: the   *)
(* searches of game_session_ex.rs and game_session.rs, the administrator's *)
(* lists and the list of friends.  They change nothing, so each is an      *)
(* operator over the database; GameSessions has the calls that act on what *)
(* they return.                                                            *)
(*                                                                         *)
(* The model has one session type, as the game does.                       *)
(***************************************************************************)
EXTENDS GameSessions

-----------------------------------------------------------------------------
\* Attributes of sessions.

\* The attributes that make a session of each class, by id: 113 is the class,
\* 103 tells the game modes apart, 112 has to do with the number of players.
Attributes(class) ==
    CASE class = "lobby" -> [id \in {113} |-> 1]
      [] class = "room"  -> [id \in {113, 103, 112} |-> IF id = 112 THEN 2 ELSE 0]
      [] class = "other" -> [id \in {103} |-> 0]

\* session_attribute_value, for a value that 113 may be compared with.
Has(attrs, id, value) == id \in DOMAIN attrs /\ attrs[id] = value

\* is_lobby_session_attributes and is_game_room_attributes.
ClassOf(attrs) ==
    IF Has(attrs, 113, 1) THEN "lobby" ELSE IF Has(attrs, 113, 0) THEN "room" ELSE "other"

\* project_private_invite_session_class_only: a room shown as a lobby to the
\* player who was invited into it.
ShownAsLobby(attrs) == [id \in DOMAIN attrs \cup {113} |-> IF id = 113 THEN 1 ELSE attrs[id]]

\* The comparison of a query with a session: a query that does not name the
\* mode asks for mode 0, and 112 is not compared.
Matches(query, attrs) ==
    /\ \A id \in DOMAIN query \ {112} : Has(attrs, id, query[id])
    /\ 103 \notin DOMAIN query => Has(attrs, 103, 0)

AttributesOf(d, s) == Attributes(d.sessions[s].class)

-----------------------------------------------------------------------------
\* Searches.

\* find_accepted_invited_session_filtered_async: the newest invitation the
\* user has accepted and not used; a search by hand leaves out the ones that
\* follow the party.
RoutingInvites(d, u, manual) ==
    {i \in d.invites : i.to = u /\ Accepted(i) /\ Valid(d, i) /\ (manual => i.kind # "follow")}

Routed(d, u, manual) == RoutingInvites(d, u, manual) # {}

Route(d, u, manual) == Newest(RoutingInvites(d, u, manual))

\* What a routed search shows of its session.
RoutedAttributes(d, i) ==
    IF i.kind = "private" THEN ShownAsLobby(AttributesOf(d, i.session))
                          ELSE AttributesOf(d, i.session)

\* Storage::search_sessions
OpenSessions(d, u) == {s \in Sessions(d) : Reachable(d, s) /\ Creator(d, s) # u}

InvitationQuery == 8

\* SearchSessions of the GameSessionEx protocol.
SearchSessions(d, u, id, query) ==
    IF id = InvitationQuery /\ Routed(d, u, TRUE)
    THEN {Route(d, u, TRUE).session}
    ELSE {s \in OpenSessions(d, u) : Matches(query, AttributesOf(d, s))}

\* Mutant: the user's own sessions are left out.
SessionsWith_Others(d, users) ==
    {s \in Sessions(d) : Reachable(d, s) /\ users \cap (Joined(d, s) \ {Creator(d, s)}) # {}}

\* Storage::search_sessions_with_participants: no ids ask for every session.
SessionsWith(d, users) ==
    {s \in Sessions(d) : Reachable(d, s) /\ (users = {} \/ users \cap Joined(d, s) # {})}

\* participant_search_matches_invited_session; every kind may route.
InvitedAmong(d, i, users) == users \cap Joined(d, i.session) # {}

\* SearchSessionsWithParticipants of the GameSession protocol.
SearchWithParticipants(d, u, users) ==
    IF Routed(d, u, FALSE) /\ InvitedAmong(d, Route(d, u, FALSE), users)
    THEN {Route(d, u, FALSE).session}
    ELSE SessionsWith(d, users)

-----------------------------------------------------------------------------
\* Lists.

\* list_game_sessions_async
ActiveGames(d) == {s \in Sessions(d) : Live(d, s)}

\* GamesAdmin.List skips a session without its creator.
ListedGames(d) == {s \in ActiveGames(d) : Creator(d, s) \in Joined(d, s)}

\* The SELECT of list_users_async, by the time at which it runs: later than the
\* sweep's, so it may well show somebody as offline who has not been swept.
ShownOnline(d, heard) == d.online \cup heard

\* Shown as offline, and still in a session or with an endpoint.
LeftBehind(v) ==
    /\ v \notin ShownOnline(db, seen)
    /\ v \in db.urls \/ \E s \in Sessions(db) : v \in Joined(db, s)

-----------------------------------------------------------------------------
\* Properties.

\* What the overlay accepts, the game's search finds: of an invitation that
\* AcceptInvite has just accepted, newer than any other that is accepted and
\* unused, the search for its sender's company returns the session and nothing
\* else, and so does the invitation query, but for one that follows the party;
\* a private room is shown as a lobby.
\* Acceptance and search judge the invitation by conditions of their own.
AcceptedIsFound ==
    [][\A u \in Overlays : AcceptPopup(u) =>
          \A i \in db'.invites :
              (/\ i.id = popup[u].id /\ i.to = u /\ Accepted(i)
               /\ \A j \in db'.invites : j.to = u /\ Accepted(j) => j.id <= i.id)
              => /\ SearchWithParticipants(db', u, {i.from}) = {i.session}
                 /\ i.kind # "follow" =>
                       SearchSessions(db', u, InvitationQuery, <<>>) = {i.session}
                 /\ i.kind = "private" => ClassOf(RoutedAttributes(db', i)) = "lobby"]_vars

\* A live session is in the administrator's list, and no search hides it from
\* others but for its host's endpoint: the search for its host's company finds
\* it unless an invitation redirects it, and the one for its attributes does if
\* it has a mode, which every query asks for.
LiveSessionsAreFound ==
    \A s \in Sessions(db) : Live(db, s) =>
        /\ s \in ListedGames(db)
        /\ \A u \in Users \ {Creator(db, s)} : Creator(db, s) \in db.urls =>
              /\ ~Routed(db, u, FALSE) =>
                    s \in SearchWithParticipants(db, u, {Creator(db, s)})
              /\ s \in SearchSessions(db, u, 0, AttributesOf(db, s))
                    <=> 103 \in DOMAIN AttributesOf(db, s)

\* v comes back without a login: it has no online mark, but a connection.
ReturnsUnmarked(v) ==
    /\ v \notin db.online
    /\ \/ RegisterUrls(v, TRUE)
       \/ \E class \in NewClasses : CreateSession(v, class)
       \/ \E s \in Sessions(db) : JoinSession(v, s) \/ SplitSession(v, s)

\* Nobody stays behind in a session who is shown as offline: a sweep leaves nobody
\* there, and afterwards only a heartbeat that ages, a new start, a call of the
\* player itself without a login, or an addition by somebody else can leave
\* somebody there for the next sweep.  In particular no end of a secure connection
\* does, whether the connection or the overlay ends first
\* (close_secure_session, cleanup_stale_api_sessions_async, list_users_async).
AbsentAreSwept ==
    [][\A v \in Users :
          /\ \A u \in Overlays : ListUsers(u) => ~LeftBehind(v)'
          /\ ~LeftBehind(v) /\ LeftBehind(v)' =>
                \/ HeartbeatAges(v) \/ Restart
                \/ ReturnsUnmarked(v)
                \/ \E u \in Managers, s \in Sessions(db), private \in BOOLEAN :
                       AddToSession(u, s, v, private)]_vars
=============================================================================
