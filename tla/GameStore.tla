----------------------------- MODULE GameStore -----------------------------
(***************************************************************************)
(* The SQLite database of the dedicated server, and the transactions of    *)
(* server/dedicated-server/src/storage/mod.rs that change game sessions,   *)
(* parties, invitations and presence.                                      *)
(*                                                                         *)
(* A transaction is an operator from the database before it to the one     *)
(* after it: SQLite runs one writer at a time and a transaction that fails *)
(* changes nothing.  Foreign keys and the trigger of                       *)
(* migrations/20260731130000_party_leave_cleanup.sql are part of the       *)
(* statements that fire them.                                              *)
(*                                                                         *)
(* A database is a record of tables:                                       *)
(*   sessions  the rows of game_sessions in order of id, which is their    *)
(*             position; live says destroyed_at is NULL and class is what  *)
(*             attribute 113 makes of the session                          *)
(*   parts     participants: pairs of a session and a user                 *)
(*   urls      the users with a station URL                                *)
(*   party     parties, by leader: the id of the party a user leads, or    *)
(*             NoParty (leader_id is UNIQUE)                               *)
(*   member    party_members: the party of a user, or NoParty              *)
(*   lastParty the last party id given out (AUTOINCREMENT)                 *)
(*   invites   the rows of invites; expired says expires_at has passed     *)
(*   online    the users with is_online = 1                                *)
(***************************************************************************)
EXTENDS Integers, FiniteSets, FiniteSetsExt, Sequences, SequencesExt

CONSTANT Users    \* user ids

ASSUME UsersAssumption == Users \subseteq Nat /\ IsFiniteSet(Users)

NoParty == 0

Classes == {"lobby", "room", "other"}    \* 113 => 1, 113 => 0, anything else

Manual == {"private", "lobby"}           \* the lane a player fills by hand
Kinds  == Manual \cup {"follow", "restore"}

EmptyDb ==
    [sessions  |-> <<>>,
     parts     |-> {},
     urls      |-> {},
     party     |-> [u \in Users |-> NoParty],
     member    |-> [u \in Users |-> NoParty],
     lastParty |-> 0,
     invites   |-> {},
     online    |-> {}]

-----------------------------------------------------------------------------
\* Queries.

Sessions(db) == DOMAIN db.sessions

Live(db, s) == s \in Sessions(db) /\ db.sessions[s].live

Creator(db, s) == db.sessions[s].creator

Joined(db, s) == {u \in Users : <<s, u>> \in db.parts}

InLiveRoom(db, u) ==
    \E s \in Sessions(db) : Live(db, s) /\ db.sessions[s].class = "room" /\ u \in Joined(db, s)

\* The session has its host in it, and the host has an endpoint.
Reachable(db, s) ==
    Live(db, s) /\ Creator(db, s) \in Joined(db, s) /\ Creator(db, s) \in db.urls

\* find_host_sessions_async
HostedBy(db, u) == {s \in Sessions(db) : Reachable(db, s) /\ Creator(db, s) = u}

Pending(i)  == i.status = "pending" /\ ~i.expired
Accepted(i) == i.status = "accepted" /\ ~i.expired

\* The condition cleanup_invalid_invites_async keeps a row under.
Valid(db, i) ==
    /\ i.status # "consumed"
    /\ ~i.expired
    /\ Reachable(db, i.session)
    /\ IF i.kind = "follow" THEN i.from \in Joined(db, i.session)
                            ELSE i.from = Creator(db, i.session)

NextRowId(rows) == IF rows = {} THEN 1 ELSE Max({i.id : i \in rows}) + 1

Newest(rows) == CHOOSE i \in rows : \A j \in rows : j.id <= i.id

-----------------------------------------------------------------------------
\* Statements.

\* DELETE FROM parties WHERE leader_id = u, which cascades to party_members.
DissolveParty(db, u) ==
    [db EXCEPT !.party[u] = NoParty,
               !.member = [v \in Users |->
                   IF db.party[u] # NoParty /\ @[v] = db.party[u] THEN NoParty ELSE @[v]]]

\* DELETE FROM parties WHERE leader_id = u; DELETE FROM party_members WHERE
\* user_id = u, for each of the users.
LeaveParties(db, users) ==
    LET led == {db.party[u] : u \in users} \ {NoParty}
    IN  [db EXCEPT !.party  = [v \in Users |-> IF v \in users THEN NoParty ELSE @[v]],
                   !.member = [v \in Users |->
                       IF v \in users \/ @[v] \in led THEN NoParty ELSE @[v]]]

InsertParticipant(db, s, u) == [db EXCEPT !.parts = @ \cup {<<s, u>>}]

\* DELETE FROM participants WHERE game_id = s AND user_id = u, with the trigger.
DeleteParticipant(db, s, u) ==
    LET after == [db EXCEPT !.parts = @ \ {<<s, u>>}]
    IN  IF u \in Joined(db, s) /\ db.sessions[s].class = "lobby" /\ ~InLiveRoom(after, u)
        THEN LeaveParties(after, {u})
        ELSE after

Destroy(db, s) == [db EXCEPT !.sessions[s].live = FALSE]

\* Mutant: a session whose host is gone keeps naming it.
Reconcile_KeepsHost(db, s) ==
    IF Live(db, s) /\ Joined(db, s) = {} THEN Destroy(db, s) ELSE db

\* reconcile_game_session_async: an empty session is destroyed, one without
\* its creator passes to the participant with the lowest id.
Reconcile(db, s) ==
    IF ~Live(db, s) \/ Creator(db, s) \in Joined(db, s) THEN db
    ELSE IF Joined(db, s) = {} THEN Destroy(db, s)
    ELSE [db EXCEPT !.sessions[s].creator = Min(Joined(db, s))]

\* ensure_party_for_leader_async
EnsureParty(db, u) ==
    IF db.party[u] # NoParty
    THEN [db EXCEPT !.member[u] = db.party[u]]
    ELSE [db EXCEPT !.party[u] = db.lastParty + 1,
                    !.member[u] = db.lastParty + 1,
                    !.lastParty = @ + 1]

NewInvite(id, from, to, kind, s, party) ==
    [id |-> id, from |-> from, to |-> to, kind |-> kind, session |-> s,
     party |-> party, status |-> "pending", expired |-> FALSE]

\* The position of u when the users of the set are visited in order of id.
Rank(u, users) == Cardinality({v \in users : v <= u})

\* queue_party_follow_invites_async, for each member of the leader's party: an
\* open follow invitation to something else is replaced, one to this session
\* is kept.
\* Mutant: one that has run out counts as open.
FollowsSession_Expired(db, i, leader, s) ==
    /\ i.kind = "follow" /\ i.status # "consumed"
    /\ i.party = db.party[leader] /\ i.session = s

FollowsSession(db, i, leader, s) ==
    /\ i.kind = "follow" /\ i.status # "consumed"
    /\ i.party = db.party[leader] /\ i.session = s /\ ~i.expired

StaleFollow(db, i, u, leader, s) ==
    /\ i.to = u /\ i.kind = "follow" /\ i.status # "consumed"
    /\ ~FollowsSession(db, i, leader, s)

FollowInvites(db, leader, s) ==
    LET members == {u \in Users : u # leader /\ db.member[u] = db.party[leader]}
        invited == {u \in members :
                       \A i \in db.invites : ~(i.to = u /\ FollowsSession(db, i, leader, s))}
        kept(users) == {i \in db.invites :
                           \A u \in users : ~StaleFollow(db, i, u, leader, s)}
        \* rows are deleted and inserted member by member, in order of id
        first == Min(invited)
        base  == NextRowId(kept({u \in members : u <= first}))
    IN  kept(members) \cup
            {NewInvite(base + Rank(u, invited) - 1, leader, u, "follow", s, db.party[leader])
                : u \in invited}

QueueFollow(db, leader, s) ==
    IF db.party[leader] # NoParty /\ leader \in Joined(db, s)
    THEN [db EXCEPT !.invites = FollowInvites(db, leader, s)]
    ELSE db

FollowIfRoom(db, leader, s) ==
    IF db.sessions[s].class = "room" THEN QueueFollow(db, leader, s) ELSE db

-----------------------------------------------------------------------------
\* Transactions on sessions.

\* Mutant: the host is entered in the session created before.
CreateGameSession_StaleId(db, u, class) ==
    LET s == Len(db.sessions) + 1
        inserted == [db EXCEPT !.sessions =
                        Append(@, [creator |-> u, class |-> class, live |-> TRUE])]
    IN  FollowIfRoom(InsertParticipant(inserted, s - 1, u), u, s)

CreateGameSession(db, u, class) ==
    LET s == Len(db.sessions) + 1
        inserted == [db EXCEPT !.sessions =
                        Append(@, [creator |-> u, class |-> class, live |-> TRUE])]
    IN  FollowIfRoom(InsertParticipant(inserted, s, u), u, s)

UpdateGameSession(db, s, class) == [db EXCEPT !.sessions[s].class = class]

\* The accepted lobby invitation a join uses, among those of the user.
LobbyInvites(db, u, s) ==
    {i \in db.invites : i.to = u /\ i.kind \in {"lobby", "restore"} /\ i.session = s /\ Accepted(i)}

\* The party of that invitation, or NoParty.
InvitedParty(db, u, s) ==
    IF LobbyInvites(db, u, s) = {} THEN NoParty ELSE Newest(LobbyInvites(db, u, s)).party

PartyExists(db, p) == \E leader \in Users : db.party[leader] = p

\* The join inserts a party_members row: its party must exist.
JoinViolatesForeignKey(db, u, s) ==
    InvitedParty(db, u, s) # NoParty /\ ~PartyExists(db, InvitedParty(db, u, s))

\* Mutant: the user keeps the party it leads when it joins another one.
EnterParty_KeepsLed(db, u, p) == IF p = NoParty THEN db ELSE [db EXCEPT !.member[u] = p]

EnterParty(db, u, p) ==
    IF p = NoParty THEN db
    ELSE LET own == IF db.party[u] # p THEN DissolveParty(db, u) ELSE db
         IN  [own EXCEPT !.member[u] = p]

\* Mutant: the invitation stays open after the join.
ConsumeAccepted_Never(db, u, s) == db

ConsumeAccepted(db, u, s) ==
    [db EXCEPT !.invites =
        {IF i.to = u /\ i.session = s /\ Accepted(i) THEN [i EXCEPT !.status = "consumed"] ELSE i
            : i \in @}]

\* join_game_session_unbounded on a live session.
JoinGameSession(db, u, s) ==
    LET joined  == InsertParticipant(db, s, u)
        entered == EnterParty(joined, u, InvitedParty(db, u, s))
    IN  FollowIfRoom(ConsumeAccepted(entered, u, s), u, s)

LeaveGameSession(db, u, s) ==
    IF Live(db, s) THEN Reconcile(DeleteParticipant(db, s, u), s) ELSE db

RemoveParticipants(db, s, u) == Reconcile(DeleteParticipant(db, s, u), s)

\* Mutant: any caller may take over a live session.
CanMigrate_Anyone(db, u, s) == Live(db, s)

CanMigrate(db, u, s) == Live(db, s) /\ u \in Joined(db, s)

MigrateHost(db, u, s) == [db EXCEPT !.sessions[s].creator = u]

CanRestore(db, u, s) == ~Live(db, s) /\ Creator(db, s) = u

RestoreSession(db, u, s) ==
    InsertParticipant([db EXCEPT !.sessions[s].live = TRUE], s, u)

\* add_participants for one private participant: an accepted invitation that
\* is not used yet leaves the admission to its sender, if it is the host.
PrivateInvites(db, u, s) ==
    {i \in db.invites : i.to = u /\ i.kind \in {"private", "follow"} /\ i.session = s /\ Accepted(i)}

AdmittedPrivately(db, caller, s, u) ==
    \/ PrivateInvites(db, u, s) = {}
    \/ u \in Joined(db, s)
    \/ caller = Creator(db, s) /\ Newest(PrivateInvites(db, u, s)).from = caller

AddParticipant(db, caller, s, u, private) ==
    IF Live(db, s) /\ (private => AdmittedPrivately(db, caller, s, u))
    THEN Reconcile(InsertParticipant(db, s, u), s)
    ELSE db

\* The live lobby of the host that its players are invited back to.
LobbiesOf(db, u, but) ==
    {s \in HostedBy(db, u) \ {but} : db.sessions[s].class = "lobby"}

RestoreInvites(db, host, lobby, players) ==
    LET to   == {u \in players : u \notin Joined(db, lobby)}
        base == NextRowId(db.invites)
    IN  {IF i.to \in to /\ i.kind = "restore" THEN [i EXCEPT !.status = "consumed"] ELSE i
            : i \in db.invites}
        \cup {NewInvite(base + Rank(u, to) - 1, host, u, "restore", lobby, db.party[host]) : u \in to}

\* delete_game_session by the host: the players of a game room are invited
\* back to the host's newest lobby.
DeleteGameSession(db, host, s) ==
    LET deleted == Destroy(db, s)
        players == Joined(db, s) \ {host}
        lobby   == Max(LobbiesOf(deleted, host, s))
        party   == EnsureParty(deleted, host)
    IN  IF db.sessions[s].class = "room" /\ players # {} /\ LobbiesOf(deleted, host, s) # {}
        THEN [party EXCEPT !.invites = RestoreInvites(party, host, lobby, players)]
        ELSE deleted

-----------------------------------------------------------------------------
\* Transactions on invitations.

\* session_invite_kind
InviteKind(class) == IF class = "room" THEN "private" ELSE "lobby"

\* add_invite_async deletes the rows that are spent and the receiver's open
\* invitation of the manual lane. Mutant: the open one stays.
ClearedForInvite_KeepsOpen(db, to) ==
    {i \in db.invites : i.status # "consumed" /\ ~i.expired}

ClearedForInvite(db, to) ==
    {i \in db.invites : i.status # "consumed" /\ ~i.expired /\ ~(i.to = to /\ i.kind \in Manual)}

AddInvite(db, from, to, kind, s) ==
    LET party == IF kind = "lobby" THEN EnsureParty(db, from) ELSE db
        rows  == ClearedForInvite(party, to)
        p     == IF kind = "lobby" THEN party.party[from] ELSE NoParty
    IN  [party EXCEPT !.invites =
            rows \cup {NewInvite(NextRowId(rows), from, to, kind, s, p)}]

\* cleanup_invalid_invites_async
CleanInvites(db) == [db EXCEPT !.invites = {i \in @ : Valid(db, i)}]

\* take_invite_async consumes the follow invitations of a user who is already
\* in the session.
Redundant(db, u, i) ==
    i.to = u /\ i.kind = "follow" /\ Pending(i) /\ u \in Joined(db, i.session)

\* Mutant: the poll leaves invalid invitations alone.
TakeInvites_NoCleanup(db, u) ==
    [db EXCEPT !.invites =
        {IF Redundant(db, u, i) THEN [i EXCEPT !.status = "consumed"] ELSE i : i \in @}]

TakeInvites(db, u) ==
    LET clean == CleanInvites(db)
    IN  [clean EXCEPT !.invites =
            {IF Redundant(clean, u, i) THEN [i EXCEPT !.status = "consumed"] ELSE i : i \in @}]

\* Which of the open invitations is delivered depends on when each was last
\* delivered and created; any of them may be the newest that is due.
Deliverable(db, u) == {i \in TakeInvites(db, u).invites : i.to = u /\ Pending(i)}

\* Mutant: an invitation that has become invalid is accepted.
AcceptInvite_NoCleanup(db, u, id) ==
    [db EXCEPT !.invites =
        {IF i.id = id /\ i.to = u /\ Pending(i) THEN [i EXCEPT !.status = "accepted"] ELSE i
            : i \in @}]

\* accept_invite_async
AcceptInvite(db, u, id) ==
    LET clean == CleanInvites(db)
    IN  [clean EXCEPT !.invites =
            {IF i.id = id /\ i.to = u /\ Pending(i) THEN [i EXCEPT !.status = "accepted"] ELSE i
                : i \in @}]

-----------------------------------------------------------------------------
\* Transactions on presence.

\* cleanup_user_game_state_async, for each of the users: every live session one
\* of them was in is reconciled once their rows are gone.
CleanupUsers(db, users) ==
    LET gone == [LeaveParties(db, users) EXCEPT !.parts  = {p \in @ : p[2] \notin users},
                                                !.urls   = @ \ users,
                                                !.online = @ \ users]
        affected(s) == Live(db, s) /\ users \cap (Joined(db, s) \cup {Creator(db, s)}) # {}
    IN  [gone EXCEPT !.sessions =
            [s \in Sessions(db) |-> IF affected(s) THEN Reconcile(gone, s).sessions[s] ELSE @[s]]]

\* close_secure_session; seen says the overlay has checked in recently.
\* Mutant: the rooms are kept whether the overlay still polls or not.
CloseSecureSession_Keeps(db, u, seen) == [db EXCEPT !.online = @ \ {u}]

CloseSecureSession(db, u, seen) ==
    IF seen THEN [db EXCEPT !.online = @ \ {u}] ELSE CleanupUsers(db, {u})

\* Mutant: the heartbeat is not looked at.
StaleUsers_Offline(db, seen) ==
    {u \in Users : u \notin db.online /\ (u \in db.urls \/ \E p \in db.parts : p[2] = u)}

\* The users cleanup_stale_api_sessions_async selects.
StaleUsers(db, seen) ==
    {u \in Users : u \notin db.online /\ u \notin seen
                   /\ (u \in db.urls \/ \E p \in db.parts : p[2] = u)}

\* invalidate_sessions, when the server starts.
InvalidateSessions(db) ==
    [db EXCEPT !.party    = [u \in Users |-> NoParty],
               !.member   = [u \in Users |-> NoParty],
               !.urls     = {},
               !.online   = {},
               !.sessions = [s \in Sessions(db) |-> [@[s] EXCEPT !.live = FALSE]]]
=============================================================================
