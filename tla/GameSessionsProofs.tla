------------------------ MODULE GameSessionsProofs ------------------------
(***************************************************************************)
(* Proofs about GameSessions and SessionSearch, for any users, clients and *)
(* bounds: a live session has its host in it, the tables of parties are    *)
(* consistent, and what follows from these of types, invitations, the      *)
(* hand-over of sessions, players who are away, and searches.              *)
(*                                                                         *)
(* HostInv and PartyInv are proved of the database alone.  An operator of  *)
(* GameStore that leaves the tables of the one alone is covered by a frame *)
(* lemma; the others have a lemma each, and the step theorem goes through  *)
(* the handlers.  What a transaction does to the table of invitations is   *)
(* one of three things: it takes rows away, changes the status of rows, or *)
(* adds new ones, and each of them keeps InvitesOK for a reason of its own. *)
(***************************************************************************)
EXTENDS SessionSearch, FiniteSetTheorems, WellFoundedInduction, TLAPS

Fields == {"sessions", "parts", "urls", "party", "member", "lastParty", "invites", "online"}

\* d has the columns of a database.
IsDb(d) == d = [f \in Fields |-> d[f]]

\* The tables of sessions and participants, and what HostPresent says of them.
HostOK(d) ==
    /\ d.sessions \in Seq(SessionType)
    /\ d.parts \subseteq Sessions(d) \X Users
    /\ \A s \in Sessions(d) : Live(d, s) => Creator(d, s) \in Joined(d, s)

HostInv(d) == IsDb(d) /\ HostOK(d)

SameSessions(d, e) == IsDb(e) /\ e.sessions = d.sessions /\ e.parts = d.parts

\* What PartyConsistent says of a database, with the types of its tables.
PartyOK(d) ==
    /\ d.party \in [Users -> Nat]
    /\ d.member \in [Users -> Nat]
    /\ d.lastParty \in Nat
    /\ \A u \in Users : d.party[u] # NoParty => d.member[u] = d.party[u]
    /\ \A u \in Users : d.member[u] # NoParty => PartyExists(d, d.member[u])
    /\ \A u, v \in Users : d.party[u] = d.party[v] /\ d.party[u] # NoParty => u = v
    /\ \A u \in Users : d.party[u] <= d.lastParty

PartyInv(d) == IsDb(d) /\ PartyOK(d)

SameParties(d, e) ==
    IsDb(e) /\ e.party = d.party /\ e.member = d.member /\ e.lastParty = d.lastParty

-----------------------------------------------------------------------------
\* Frames.

LEMMA SameSessionsHost ==
    ASSUME NEW d, NEW e, HostInv(d), SameSessions(d, e)
    PROVE  HostInv(e)
  BY DEF HostInv, HostOK, SameSessions, Sessions, Live, Creator, Joined

LEMMA SamePartiesParty ==
    ASSUME NEW d, NEW e, PartyInv(d), SameParties(d, e)
    PROVE  PartyInv(e)
  BY DEF PartyInv, PartyOK, SameParties, PartyExists

LEMMA EnsurePartyFrame ==
    ASSUME NEW d, IsDb(d), NEW u
    PROVE  SameSessions(d, EnsureParty(d, u))
  BY DEF SameSessions, EnsureParty, IsDb, Fields

LEMMA LeavePartiesFrame ==
    ASSUME NEW d, IsDb(d), NEW users
    PROVE  SameSessions(d, LeaveParties(d, users))
  BY DEF SameSessions, LeaveParties, IsDb, Fields

LEMMA EnterPartyFrame ==
    ASSUME NEW d, IsDb(d), NEW u, NEW p
    PROVE  SameSessions(d, EnterParty(d, u, p))
  BY DEF SameSessions, EnterParty, DissolveParty, IsDb, Fields

\* An operator that changes invitations, endpoints and online marks only.
LEMMA InvitesFrame ==
    ASSUME NEW d, IsDb(d), NEW rows
    PROVE  /\ SameSessions(d, [d EXCEPT !.invites = rows])
           /\ SameParties(d, [d EXCEPT !.invites = rows])
  BY DEF SameSessions, SameParties, IsDb, Fields

-----------------------------------------------------------------------------
\* Sessions and their hosts.

\* HostInv, but for what it says of session s.
HostInvBut(d, s) ==
    /\ IsDb(d)
    /\ d.sessions \in Seq(SessionType)
    /\ d.parts \subseteq Sessions(d) \X Users
    /\ \A t \in Sessions(d) \ {s} : Live(d, t) => Creator(d, t) \in Joined(d, t)

\* A set of naturals that has a member has a smallest one, which is its Min.
LEMMA MinFact ==
    ASSUME NEW S, S \subseteq Nat, S # {}
    PROVE  Min(S) \in S
<1>1. PICK x \in S : \A y \in S : ~(<<y, x>> \in OpToRel(<, Nat))
  BY NatLessThanWellFounded, WFMin
<1>2. ASSUME NEW y \in S PROVE x <= y
  <2>1. x \in Nat /\ y \in Nat
    OBVIOUS
  <2>2. <<y, x>> \in Nat \X Nat
    BY <2>1
  <2>3. ~(y < x)
    <3>1. SUFFICES ASSUME y < x PROVE FALSE
      OBVIOUS
    <3>2. <<y, x>> \in OpToRel(<, Nat)
      BY <2>2, <3>1 DEF OpToRel
    <3> QED  BY <1>1, <3>2
  <2> QED  BY <2>1, <2>3
<1> QED
  BY <1>2 DEF Min

\* One row of game_sessions is changed.
LEMMA RowType ==
    ASSUME NEW d, IsDb(d), d.sessions \in Seq(SessionType), NEW s \in Sessions(d),
           NEW row \in SessionType
    PROVE  /\ [d.sessions EXCEPT ![s] = row] \in Seq(SessionType)
           /\ DOMAIN [d.sessions EXCEPT ![s] = row] = Sessions(d)
           /\ [d.sessions EXCEPT ![s] = row][s] = row
           /\ \A t \in Sessions(d) \ {s} : [d.sessions EXCEPT ![s] = row][t] = d.sessions[t]
  BY DEF Sessions

\* What is asked of an operator that changes at most the row of session s.
RowChange(d, e, s) ==
    /\ IsDb(e)
    /\ e.parts = d.parts
    /\ e.sessions \in Seq(SessionType)
    /\ Sessions(e) = Sessions(d)
    /\ \A t \in Sessions(d) \ {s} : e.sessions[t] = d.sessions[t]

LEMMA SetCreator ==
    ASSUME NEW d, IsDb(d), d.sessions \in Seq(SessionType), NEW s \in Sessions(d), NEW u \in Users
    PROVE  LET e == [d EXCEPT !.sessions[s].creator = u]
           IN  RowChange(d, e, s) /\ e.sessions[s] = [d.sessions[s] EXCEPT !.creator = u]
<1>0. d.sessions[s] \in SessionType
  BY DEF Sessions
<1>1. [d.sessions[s] EXCEPT !.creator = u] \in SessionType
  BY <1>0 DEF SessionType
<1> QED
  BY <1>1, RowType DEF RowChange, IsDb, Fields, Sessions

LEMMA SetClass ==
    ASSUME NEW d, IsDb(d), d.sessions \in Seq(SessionType), NEW s \in Sessions(d), NEW c \in Classes
    PROVE  LET e == [d EXCEPT !.sessions[s].class = c]
           IN  RowChange(d, e, s) /\ e.sessions[s] = [d.sessions[s] EXCEPT !.class = c]
<1>0. d.sessions[s] \in SessionType
  BY DEF Sessions
<1>1. [d.sessions[s] EXCEPT !.class = c] \in SessionType
  BY <1>0 DEF SessionType
<1> QED
  BY <1>1, RowType DEF RowChange, IsDb, Fields, Sessions

LEMMA SetLive ==
    ASSUME NEW d, IsDb(d), d.sessions \in Seq(SessionType), NEW s \in Sessions(d)
    PROVE  /\ LET e == [d EXCEPT !.sessions[s].live = FALSE]
              IN  RowChange(d, e, s) /\ e.sessions[s] = [d.sessions[s] EXCEPT !.live = FALSE]
           /\ LET e == [d EXCEPT !.sessions[s].live = TRUE]
              IN  RowChange(d, e, s) /\ e.sessions[s] = [d.sessions[s] EXCEPT !.live = TRUE]
<1>0. d.sessions[s] \in SessionType
  BY DEF Sessions
<1>1. [d.sessions[s] EXCEPT !.live = FALSE] \in SessionType
  BY <1>0 DEF SessionType
<1>2. [d.sessions[s] EXCEPT !.live = TRUE] \in SessionType
  BY <1>0 DEF SessionType
<1>3. LET e == [d EXCEPT !.sessions[s].live = FALSE]
      IN  RowChange(d, e, s) /\ e.sessions[s] = [d.sessions[s] EXCEPT !.live = FALSE]
  BY <1>1, RowType DEF RowChange, IsDb, Fields, Sessions
<1>4. LET e == [d EXCEPT !.sessions[s].live = TRUE]
      IN  RowChange(d, e, s) /\ e.sessions[s] = [d.sessions[s] EXCEPT !.live = TRUE]
  BY <1>2, RowType DEF RowChange, IsDb, Fields, Sessions
<1> QED
  BY <1>3, <1>4

\* A database in which nothing but the row of s has changed.
LEMMA RowChangeHost ==
    ASSUME NEW d, NEW e, NEW s \in Sessions(d), HostInvBut(d, s), RowChange(d, e, s),
           Live(e, s) => Creator(e, s) \in Joined(d, s)
    PROVE  HostInv(e)
<1>1. Joined(e, s) = Joined(d, s) /\ \A t \in Sessions(d) : Joined(e, t) = Joined(d, t)
  BY DEF Joined, RowChange
<1>2. ASSUME NEW t \in Sessions(e), Live(e, t) PROVE Creator(e, t) \in Joined(e, t)
  <2>1. CASE t = s
    BY <1>1, <1>2, <2>1
  <2>2. CASE t # s
    <3>1. t \in Sessions(d) \ {s} /\ e.sessions[t] = d.sessions[t]
      BY <2>2 DEF RowChange
    <3> QED  BY <1>1, <1>2, <3>1 DEF HostInvBut, Live, Creator
  <2> QED  BY <2>1, <2>2
<1> QED
  BY <1>2 DEF HostInv, HostOK, HostInvBut, RowChange

LEMMA HostInvIsBut ==
    ASSUME NEW d, HostInv(d), NEW s
    PROVE  HostInvBut(d, s)
  BY DEF HostInv, HostOK, HostInvBut

\* What reconcile_game_session_async does to the row it is called for.
LEMMA ReconcileRow ==
    ASSUME NEW d, IsDb(d), d.sessions \in Seq(SessionType), NEW s \in Sessions(d)
    PROVE  /\ RowChange(d, Reconcile(d, s), s)
           /\ Live(Reconcile(d, s), s) => Creator(Reconcile(d, s), s) \in Joined(d, s)
<1>0. d.sessions[s] \in SessionType
  BY DEF Sessions
<1>1. CASE ~Live(d, s) \/ Creator(d, s) \in Joined(d, s)
  <2>1. Reconcile(d, s) = d
    BY <1>1 DEF Reconcile
  <2> QED  BY <1>1, <2>1 DEF RowChange
<1>2. CASE Live(d, s) /\ Creator(d, s) \notin Joined(d, s) /\ Joined(d, s) = {}
  <2>1. Reconcile(d, s) = [d EXCEPT !.sessions[s].live = FALSE]
    BY <1>2 DEF Reconcile, Destroy
  <2>2. /\ RowChange(d, Reconcile(d, s), s)
        /\ Reconcile(d, s).sessions[s] = [d.sessions[s] EXCEPT !.live = FALSE]
    <3>1. /\ RowChange(d, [d EXCEPT !.sessions[s].live = FALSE], s)
          /\ [d EXCEPT !.sessions[s].live = FALSE].sessions[s]
                = [d.sessions[s] EXCEPT !.live = FALSE]
      BY SetLive
    <3> QED  BY <2>1, <3>1
  <2>3. ~Live(Reconcile(d, s), s)
    BY <1>0, <2>2 DEF Live, SessionType
  <2> QED  BY <2>2, <2>3
<1>3. CASE Live(d, s) /\ Creator(d, s) \notin Joined(d, s) /\ Joined(d, s) # {}
  <2> DEFINE heir == Min(Joined(d, s))
  <2>1. heir \in Joined(d, s)
    BY <1>3, MinFact, UsersAssumption DEF Joined
  <2>2. heir \in Users
    BY <2>1 DEF Joined
  <2>3. Reconcile(d, s) = [d EXCEPT !.sessions[s].creator = heir]
    BY <1>3 DEF Reconcile
  <2> HIDE DEF heir
  <2>4. /\ RowChange(d, Reconcile(d, s), s)
        /\ Reconcile(d, s).sessions[s] = [d.sessions[s] EXCEPT !.creator = heir]
    BY <2>2, <2>3, SetCreator
  <2>5. Creator(Reconcile(d, s), s) = heir
    BY <1>0, <2>4 DEF Creator, SessionType
  <2> QED  BY <2>1, <2>4, <2>5
<1> QED
  BY <1>1, <1>2, <1>3

\* reconcile_game_session_async repairs the session it is called for.
LEMMA ReconcileHost ==
    ASSUME NEW d, NEW s \in Sessions(d), HostInvBut(d, s)
    PROVE  HostInv(Reconcile(d, s))
<1>1. IsDb(d) /\ d.sessions \in Seq(SessionType)
  BY DEF HostInvBut
<1> QED
  BY <1>1, ReconcileRow, RowChangeHost

LEMMA InsertParticipantHost ==
    ASSUME NEW d, NEW s \in Sessions(d), NEW u \in Users
    PROVE  LET e == InsertParticipant(d, s, u)
           IN  /\ HostInv(d) => HostInv(e)
               /\ HostInvBut(d, s) => HostInvBut(e, s)
               /\ IsDb(d) => IsDb(e) /\ e.sessions = d.sessions
                               /\ Joined(e, s) = Joined(d, s) \cup {u}
                               /\ \A t \in Sessions(d) \ {s} : Joined(e, t) = Joined(d, t)
<1> DEFINE e == InsertParticipant(d, s, u)
<1>1. IsDb(d) => /\ IsDb(e)
                 /\ e.sessions = d.sessions
                 /\ e.parts = d.parts \cup {<<s, u>>}
  BY DEF InsertParticipant, IsDb, Fields
<1> HIDE DEF e
<1>2. IsDb(d) => /\ Joined(e, s) = Joined(d, s) \cup {u}
                 /\ \A t \in Sessions(d) \ {s} : Joined(e, t) = Joined(d, t)
  BY <1>1 DEF Joined
<1>3. HostInv(d) => HostInv(e)
  BY <1>1, <1>2 DEF HostInv, HostOK, Sessions, Live, Creator
<1>4. HostInvBut(d, s) => HostInvBut(e, s)
  BY <1>1, <1>2 DEF HostInvBut, Sessions, Live, Creator
<1> QED
  BY <1>1, <1>2, <1>3, <1>4 DEF e

\* A participant is deleted, and may leave its parties; nobody is deleted from
\* another session.
LEMMA DeleteParticipantHost ==
    ASSUME NEW d, HostInv(d), NEW s \in Sessions(d), NEW u
    PROVE  HostInvBut(DeleteParticipant(d, s, u), s) /\ s \in Sessions(DeleteParticipant(d, s, u))
<1> DEFINE after == [d EXCEPT !.parts = @ \ {<<s, u>>}]
<1>1. IsDb(after) /\ after.sessions = d.sessions /\ after.parts = d.parts \ {<<s, u>>}
  BY DEF HostInv, IsDb, Fields
<1>2. DeleteParticipant(d, s, u) \in {after, LeaveParties(after, {u})}
  BY DEF DeleteParticipant
<1> HIDE DEF after
<1>3. \A t \in Sessions(d) \ {s} : Joined(after, t) = Joined(d, t)
  BY <1>1 DEF Joined
<1>4. HostInvBut(after, s) /\ s \in Sessions(after)
  BY <1>1, <1>3 DEF HostInv, HostOK, HostInvBut, Sessions, Live, Creator
<1>5. SameSessions(after, LeaveParties(after, {u}))
  BY <1>1, LeavePartiesFrame
<1>6. HostInvBut(LeaveParties(after, {u}), s) /\ s \in Sessions(LeaveParties(after, {u}))
  BY <1>4, <1>5 DEF HostInvBut, SameSessions, Sessions, Live, Creator, Joined
<1> QED
  BY <1>2, <1>4, <1>6

-----------------------------------------------------------------------------
\* The transactions on sessions keep HostInv.

LEMMA FollowFrame ==
    ASSUME NEW d, IsDb(d), NEW u, NEW s
    PROVE  SameSessions(d, FollowIfRoom(d, u, s)) /\ SameParties(d, FollowIfRoom(d, u, s))
<1>1. FollowIfRoom(d, u, s) \in {d, [d EXCEPT !.invites = FollowInvites(d, u, s)]}
  BY DEF FollowIfRoom, QueueFollow
<1>2. SameSessions(d, d) /\ SameParties(d, d)
  BY DEF SameSessions, SameParties
<1> QED
  BY <1>1, <1>2, InvitesFrame

LEMMA CreateHost ==
    ASSUME NEW d, HostInv(d), NEW u \in Users, NEW c \in Classes
    PROVE  HostInv(CreateGameSession(d, u, c))
<1> DEFINE s   == Len(d.sessions) + 1
           row == [creator |-> u, class |-> c, live |-> TRUE]
           i   == [d EXCEPT !.sessions = Append(@, row)]
           e   == InsertParticipant(i, s, u)
<1>1. row \in SessionType
  BY DEF SessionType
<1>2. /\ Append(d.sessions, row) \in Seq(SessionType)
      /\ DOMAIN Append(d.sessions, row) = Sessions(d) \cup {s}
      /\ \A t \in Sessions(d) : t # s /\ Append(d.sessions, row)[t] = d.sessions[t]
      /\ Append(d.sessions, row)[s] = row
  <2>1. d.sessions \in Seq(SessionType)
    BY DEF HostInv, HostOK
  <2> HIDE DEF row
  <2> QED  BY <1>1, <2>1 DEF Sessions
<1>3. IsDb(i) /\ i.sessions = Append(d.sessions, row) /\ i.parts = d.parts
  BY DEF HostInv, IsDb, Fields
<1>4. s \in Sessions(i) /\ HostInvBut(i, s)
  <2> HIDE DEF s, row, i
  <2>1. Sessions(i) = Sessions(d) \cup {s} /\ i.sessions \in Seq(SessionType)
    BY <1>2, <1>3 DEF Sessions
  <2>2. i.parts \subseteq Sessions(i) \X Users
    BY <1>3, <2>1 DEF HostInv, HostOK
  <2>3. ASSUME NEW t \in Sessions(i) \ {s}, Live(i, t) PROVE Creator(i, t) \in Joined(i, t)
    <3>1. t \in Sessions(d) /\ i.sessions[t] = d.sessions[t]
      BY <1>2, <1>3, <2>1, <2>3
    <3>2. Live(d, t) /\ Creator(i, t) = Creator(d, t) /\ Joined(i, t) = Joined(d, t)
      BY <1>3, <2>3, <3>1 DEF Live, Creator, Joined
    <3> QED  BY <3>1, <3>2 DEF HostInv, HostOK
  <2> QED  BY <1>3, <2>1, <2>2, <2>3 DEF HostInvBut
<1>5. Creator(i, s) = u
  BY <1>2, <1>3 DEF Creator
<1>6. CreateGameSession(d, u, c) = FollowIfRoom(e, u, s)
  BY DEF CreateGameSession
<1> HIDE DEF s, i
<1>7. HostInv(e)
  <2>1. HostInvBut(e, s) /\ e.sessions = i.sessions /\ u \in Joined(e, s)
    BY <1>3, <1>4, InsertParticipantHost
  <2> HIDE DEF e
  <2> QED  BY <1>5, <2>1 DEF HostInv, HostOK, HostInvBut, Creator
<1> HIDE DEF e
<1>8. IsDb(e)
  BY <1>7 DEF HostInv
<1> QED
  BY <1>6, <1>7, <1>8, FollowFrame, SameSessionsHost

LEMMA UpdateHost ==
    ASSUME NEW d, HostInv(d), NEW s \in Sessions(d), NEW c \in Classes
    PROVE  HostInv(UpdateGameSession(d, s, c))
<1> DEFINE e == [d EXCEPT !.sessions[s].class = c]
<1>1. IsDb(d) /\ d.sessions \in Seq(SessionType)
  BY DEF HostInv, HostOK
<1>2. RowChange(d, e, s) /\ e.sessions[s] = [d.sessions[s] EXCEPT !.class = c]
  BY <1>1, SetClass
<1>3. d.sessions[s] \in SessionType
  BY <1>1 DEF Sessions
<1> HIDE DEF e
<1>4. Live(e, s) => Creator(e, s) \in Joined(d, s)
  BY <1>2, <1>3 DEF HostInv, HostOK, Live, Creator, SessionType
<1>5. HostInv(e)
  BY <1>2, <1>4, HostInvIsBut, RowChangeHost
<1> QED
  BY <1>5 DEF e, UpdateGameSession

LEMMA JoinHost ==
    ASSUME NEW d, HostInv(d), NEW s \in Sessions(d), NEW u \in Users
    PROVE  HostInv(JoinGameSession(d, u, s))
<1> DEFINE joined   == InsertParticipant(d, s, u)
           entered  == EnterParty(joined, u, InvitedParty(d, u, s))
           consumed == ConsumeAccepted(entered, u, s)
<1>1. HostInv(joined)
  BY InsertParticipantHost
<1> HIDE DEF joined
<1>2. HostInv(entered)
  BY <1>1, EnterPartyFrame, SameSessionsHost DEF HostInv
<1> HIDE DEF entered
<1>3. HostInv(consumed)
  BY <1>2, InvitesFrame, SameSessionsHost DEF HostInv, ConsumeAccepted
<1> HIDE DEF consumed
<1>4. HostInv(FollowIfRoom(consumed, u, s))
  BY <1>3, FollowFrame, SameSessionsHost DEF HostInv
<1> QED
  BY <1>4 DEF JoinGameSession, joined, entered, consumed

LEMMA RemoveHost ==
    ASSUME NEW d, HostInv(d), NEW s \in Sessions(d), NEW u
    PROVE  HostInv(RemoveParticipants(d, s, u)) /\ HostInv(LeaveGameSession(d, u, s))
<1>1. HostInv(Reconcile(DeleteParticipant(d, s, u), s))
  BY DeleteParticipantHost, ReconcileHost
<1> QED
  BY <1>1 DEF RemoveParticipants, LeaveGameSession

LEMMA AddHost ==
    ASSUME NEW d, HostInv(d), NEW s \in Sessions(d), NEW u \in Users, NEW caller, NEW private
    PROVE  HostInv(AddParticipant(d, caller, s, u, private))
<1>1. HostInv(InsertParticipant(d, s, u)) /\ s \in Sessions(InsertParticipant(d, s, u))
  BY InsertParticipantHost DEF HostInv, Sessions
<1>2. HostInv(Reconcile(InsertParticipant(d, s, u), s))
  BY <1>1, HostInvIsBut, ReconcileHost
<1> QED
  BY <1>2 DEF AddParticipant

LEMMA MigrateHostFact ==
    ASSUME NEW d, HostInv(d), NEW s \in Sessions(d), NEW u \in Users, CanMigrate(d, u, s)
    PROVE  HostInv(MigrateHost(d, u, s))
<1> DEFINE e == [d EXCEPT !.sessions[s].creator = u]
<1>1. IsDb(d) /\ d.sessions \in Seq(SessionType)
  BY DEF HostInv, HostOK
<1>2. RowChange(d, e, s) /\ e.sessions[s] = [d.sessions[s] EXCEPT !.creator = u]
  BY <1>1, SetCreator
<1>3. d.sessions[s] \in SessionType
  BY <1>1 DEF Sessions
<1> HIDE DEF e
<1>4. Creator(e, s) = u
  BY <1>2, <1>3 DEF Creator, SessionType
<1>5. HostInv(e)
  BY <1>2, <1>4, HostInvIsBut, RowChangeHost DEF CanMigrate
<1> QED
  BY <1>5 DEF e, MigrateHost

LEMMA RestoreHost ==
    ASSUME NEW d, HostInv(d), NEW s \in Sessions(d), NEW u \in Users, CanRestore(d, u, s)
    PROVE  HostInv(RestoreSession(d, u, s))
<1> DEFINE r == [d EXCEPT !.sessions[s].live = TRUE]
           e == InsertParticipant(r, s, u)
<1>1. IsDb(d) /\ d.sessions \in Seq(SessionType)
  BY DEF HostInv, HostOK
<1>2. RowChange(d, r, s) /\ r.sessions[s] = [d.sessions[s] EXCEPT !.live = TRUE]
  BY <1>1, SetLive
<1>3. d.sessions[s] \in SessionType
  BY <1>1 DEF Sessions
<1> HIDE DEF r
<1>4. Creator(r, s) = u
  BY <1>2, <1>3 DEF Creator, SessionType, CanRestore
<1>5. HostInvBut(r, s) /\ s \in Sessions(r)
  BY <1>2 DEF HostInv, HostOK, HostInvBut, RowChange, Live, Creator, Joined
<1>6. HostInvBut(e, s) /\ e.sessions = r.sessions /\ u \in Joined(e, s)
  BY <1>5, InsertParticipantHost DEF HostInvBut
<1> HIDE DEF e
<1>7. HostInv(e)
  BY <1>4, <1>6 DEF HostInv, HostOK, HostInvBut, Creator
<1> QED
  BY <1>7 DEF e, r, RestoreSession

LEMMA DestroyHost ==
    ASSUME NEW d, HostInv(d), NEW s \in Sessions(d)
    PROVE  HostInv(Destroy(d, s))
<1> DEFINE e == [d EXCEPT !.sessions[s].live = FALSE]
<1>1. IsDb(d) /\ d.sessions \in Seq(SessionType)
  BY DEF HostInv, HostOK
<1>2. RowChange(d, e, s) /\ e.sessions[s] = [d.sessions[s] EXCEPT !.live = FALSE]
  BY <1>1, SetLive
<1>3. d.sessions[s] \in SessionType
  BY <1>1 DEF Sessions
<1> HIDE DEF e
<1>4. ~Live(e, s)
  BY <1>2, <1>3 DEF Live, SessionType
<1>5. HostInv(e)
  BY <1>2, <1>4, HostInvIsBut, RowChangeHost
<1> QED
  BY <1>5 DEF e, Destroy

LEMMA DeleteHost ==
    ASSUME NEW d, HostInv(d), NEW s \in Sessions(d), NEW u
    PROVE  HostInv(DeleteGameSession(d, u, s))
<1> DEFINE deleted == Destroy(d, s)
           party   == EnsureParty(deleted, u)
<1>1. HostInv(deleted)
  BY DestroyHost
<1> HIDE DEF deleted
<1>2. HostInv(party)
  BY <1>1, EnsurePartyFrame, SameSessionsHost DEF HostInv
<1> HIDE DEF party
<1>3. ASSUME NEW rows PROVE HostInv([party EXCEPT !.invites = rows])
  BY <1>2, InvitesFrame, SameSessionsHost DEF HostInv
<1>4. \/ DeleteGameSession(d, u, s) = deleted
      \/ \E rows : DeleteGameSession(d, u, s) = [party EXCEPT !.invites = rows]
  BY DEF DeleteGameSession, deleted, party
<1> QED
  BY <1>1, <1>3, <1>4

\* A change of every row of game_sessions.
LEMMA RowsType ==
    ASSUME NEW d, d.sessions \in Seq(SessionType),
           NEW rows, rows = [s \in Sessions(d) |-> rows[s]],
           \A s \in Sessions(d) : rows[s] \in SessionType
    PROVE  rows \in Seq(SessionType) /\ DOMAIN rows = Sessions(d)
<1>1. PICK n \in Nat : Sessions(d) = 1..n
  BY DEF Sessions
<1>2. rows \in [1..n -> SessionType]
  BY <1>1
<1>3. DOMAIN rows = Sessions(d)
  BY <1>1, <1>2
<1> QED
  BY <1>2, <1>3

\* cleanup_user_game_state_async reconciles every live session one of the users
\* was in or hosted.
LEMMA CleanupHost ==
    ASSUME NEW d, HostInv(d), NEW users
    PROVE  HostInv(CleanupUsers(d, users))
<1> DEFINE left == LeaveParties(d, users)
           gone == [left EXCEPT !.parts  = {p \in @ : p[2] \notin users},
                                !.urls   = @ \ users,
                                !.online = @ \ users]
           affected(s) == Live(d, s) /\ users \cap (Joined(d, s) \cup {Creator(d, s)}) # {}
           rows == [s \in Sessions(d) |->
                       IF affected(s) THEN Reconcile(gone, s).sessions[s] ELSE gone.sessions[s]]
           e    == [gone EXCEPT !.sessions = rows]
<1>0. d.sessions \in Seq(SessionType) /\ d.parts \subseteq Sessions(d) \X Users
  BY DEF HostInv, HostOK
<1>1. SameSessions(d, left)
  BY LeavePartiesFrame DEF HostInv
<1>2. CleanupUsers(d, users) = e
  BY DEF CleanupUsers
<1> HIDE DEF left
<1>3. /\ IsDb(gone)
      /\ gone.sessions = d.sessions
      /\ gone.parts = {p \in d.parts : p[2] \notin users}
  BY <1>1 DEF SameSessions, IsDb, Fields
<1> HIDE DEF gone, affected
<1>4. /\ IsDb(e)
      /\ e.sessions = rows
      /\ e.parts = gone.parts
  BY <1>3 DEF IsDb, Fields
<1>5. \A s \in Sessions(d) : Joined(gone, s) = Joined(d, s) \ users
  BY <1>3 DEF Joined
<1>6. ASSUME NEW s \in Sessions(d)
      PROVE  /\ rows[s] \in SessionType
             /\ rows[s].live => rows[s].creator \in Joined(gone, s)
  <2>1. d.sessions[s] \in SessionType /\ s \in Sessions(gone)
    BY <1>0, <1>3 DEF Sessions
  <2>2. CASE affected(s)
    <3>1. rows[s] = Reconcile(gone, s).sessions[s]
      BY <2>2
    <3>2. /\ RowChange(gone, Reconcile(gone, s), s)
          /\ Live(Reconcile(gone, s), s) => Creator(Reconcile(gone, s), s) \in Joined(gone, s)
      BY <1>0, <1>3, <2>1, ReconcileRow
    <3>3. s \in Sessions(Reconcile(gone, s)) /\ Reconcile(gone, s).sessions \in Seq(SessionType)
      BY <2>1, <3>2 DEF RowChange
    <3>4. Reconcile(gone, s).sessions[s] \in SessionType
      BY <3>3 DEF Sessions
    <3> QED  BY <3>1, <3>2, <3>3, <3>4 DEF Live, Creator
  <2>3. CASE ~affected(s)
    <3>1. rows[s] = d.sessions[s]
      BY <1>3, <2>3
    <3>2. ASSUME d.sessions[s].live PROVE d.sessions[s].creator \in Joined(gone, s)
      BY <1>5, <2>3, <3>2 DEF HostInv, HostOK, Live, Creator, affected
    <3> QED  BY <2>1, <3>1, <3>2
  <2> QED  BY <2>2, <2>3
<1>r. rows = [s \in Sessions(d) |-> rows[s]]
  OBVIOUS
<1> HIDE DEF rows
<1>7. rows \in Seq(SessionType) /\ DOMAIN rows = Sessions(d)
  BY <1>0, <1>6, <1>r, RowsType
<1> HIDE DEF e
<1>8. HostOK(e)
  BY <1>0, <1>3, <1>4, <1>6, <1>7 DEF HostOK, Sessions, Live, Creator, Joined
<1> QED
  BY <1>2, <1>4, <1>8 DEF HostInv

LEMMA CloseHost ==
    ASSUME NEW d, HostInv(d), NEW u, NEW heard
    PROVE  HostInv(CloseSecureSession(d, u, heard))
<1>1. SameSessions(d, [d EXCEPT !.online = @ \ {u}])
  BY DEF HostInv, SameSessions, IsDb, Fields
<1> QED
  BY <1>1, CleanupHost, SameSessionsHost DEF CloseSecureSession

LEMMA InvalidateHost ==
    ASSUME NEW d, HostInv(d)
    PROVE  HostInv(InvalidateSessions(d))
<1> DEFINE rows == [s \in Sessions(d) |-> [d.sessions[s] EXCEPT !.live = FALSE]]
           e    == InvalidateSessions(d)
<1>1. IsDb(e) /\ e.sessions = rows /\ e.parts = d.parts
  BY DEF HostInv, IsDb, Fields, InvalidateSessions
<1> HIDE DEF e
<1>2. d.sessions \in Seq(SessionType) /\ d.parts \subseteq Sessions(d) \X Users
  BY DEF HostInv, HostOK
<1>3. ASSUME NEW s \in Sessions(d)
      PROVE  rows[s] \in SessionType /\ ~rows[s].live
  <2>1. d.sessions[s] \in SessionType
    BY <1>2 DEF Sessions
  <2> QED  BY <2>1 DEF SessionType
<1>r. rows = [s \in Sessions(d) |-> rows[s]]
  OBVIOUS
<1> HIDE DEF rows
<1>4. rows \in Seq(SessionType) /\ DOMAIN rows = Sessions(d)
  BY <1>2, <1>3, <1>r, RowsType
<1>5. HostOK(e)
  BY <1>1, <1>2, <1>3, <1>4 DEF HostOK, Sessions, Live
<1> QED
  BY <1>1, <1>5 DEF HostInv, e

\* The transactions on invitations change no session and no participant.
LEMMA InviteOpsFrame ==
    ASSUME NEW d, IsDb(d), NEW u, NEW to, NEW kind, NEW s, NEW id
    PROVE  /\ SameSessions(d, AddInvite(d, u, to, kind, s))
           /\ SameSessions(d, TakeInvites(d, u)) /\ SameParties(d, TakeInvites(d, u))
           /\ SameSessions(d, AcceptInvite(d, u, id)) /\ SameParties(d, AcceptInvite(d, u, id))
<1>1. SameSessions(d, AddInvite(d, u, to, kind, s))
  <2> DEFINE party == IF kind = "lobby" THEN EnsureParty(d, u) ELSE d
  <2>1. SameSessions(d, party)
    BY EnsurePartyFrame DEF SameSessions
  <2>2. \E rows : AddInvite(d, u, to, kind, s) = [party EXCEPT !.invites = rows]
    BY DEF AddInvite
  <2> HIDE DEF party
  <2> QED  BY <2>1, <2>2, InvitesFrame DEF SameSessions
<1>2. SameSessions(d, CleanInvites(d)) /\ SameParties(d, CleanInvites(d))
  BY InvitesFrame DEF CleanInvites
<1>3. ASSUME NEW rows
      PROVE  /\ SameSessions(d, [CleanInvites(d) EXCEPT !.invites = rows])
             /\ SameParties(d, [CleanInvites(d) EXCEPT !.invites = rows])
  BY <1>2, InvitesFrame DEF SameSessions, SameParties
<1>4. /\ \E rows : TakeInvites(d, u) = [CleanInvites(d) EXCEPT !.invites = rows]
      /\ \E rows : AcceptInvite(d, u, id) = [CleanInvites(d) EXCEPT !.invites = rows]
  BY DEF TakeInvites, AcceptInvite
<1> QED
  BY <1>1, <1>3, <1>4

\* The statements that change endpoints, online marks or one invitation.
LEMMA ColumnsFrame ==
    ASSUME NEW d, IsDb(d), NEW x
    PROVE  /\ SameSessions(d, [d EXCEPT !.urls = x]) /\ SameParties(d, [d EXCEPT !.urls = x])
           /\ SameSessions(d, [d EXCEPT !.online = x]) /\ SameParties(d, [d EXCEPT !.online = x])
  BY DEF SameSessions, SameParties, IsDb, Fields

-----------------------------------------------------------------------------
\* The database after a step of the server is the one before it, or what one
\* of these transactions makes of it: of all but two,
OtherTransaction(d, e) ==
    \/ e = d
    \/ \E x : e = [d EXCEPT !.urls = x] \/ e = [d EXCEPT !.online = x] \/ e = [d EXCEPT !.invites = x]
    \/ \E u \in Users, s \in Sessions(d) :
          \/ \E c \in Classes : e = UpdateGameSession(d, s, c)
          \/ ~JoinViolatesForeignKey(d, u, s) /\ e = JoinGameSession(d, u, s)
          \/ e = LeaveGameSession(d, u, s)
          \/ e = RemoveParticipants(d, s, u)
          \/ \E caller, private : e = AddParticipant(d, caller, s, u, private)
          \/ CanRestore(d, u, s) /\ e = RestoreSession(d, u, s)
          \/ e = DeleteGameSession(d, u, s)
    \/ \E s \in Sessions(d) : e = Destroy(d, s)
    \/ \E u \in Users : \E to, kind, s : e = AddInvite(d, u, to, kind, s)
    \/ \E u \in Users : e = TakeInvites(d, u) \/ \E id : e = AcceptInvite(d, u, id)
    \/ \E u \in Users, heard \in BOOLEAN : e = CloseSecureSession(d, u, heard)
    \/ \E users \in SUBSET Users : e = CleanupUsers(d, users)
    \/ e = InvalidateSessions(d)

\* and of these two: a session is created, or handed over by a call.
Transaction(d, e) ==
    \/ OtherTransaction(d, e)
    \/ \E u \in Users, c \in Classes : e = CreateGameSession(d, u, c)
    \/ \E u \in Users, s \in Sessions(d) : CanMigrate(d, u, s) /\ e = MigrateHost(d, u, s)

\* The calls that make those two transactions are the only ones to make them.
Creation == \E u \in Users, c \in Classes : CreateSession(u, c)
HandOver == \E u \in Users, s \in Sessions(db) : MigrateSession(u, s)

LEMMA StepKind == [Next]_vars => OtherTransaction(db, db') \/ Creation \/ HandOver
<1> DEFINE Goal == OtherTransaction(db, db') \/ Creation \/ HandOver
<1> SUFFICES ASSUME [Next]_vars PROVE Goal
  OBVIOUS
<1>u. Hosts \subseteq Users /\ Managers \subseteq Users /\ Inviters \subseteq Users
      /\ Overlays \subseteq Users /\ Flaky \subseteq Users
      /\ NewClasses \subseteq Classes /\ SetClasses \subseteq Classes
  BY ClientsAssumption
<1>1. ASSUME db' = db PROVE Goal
  BY <1>1 DEF OtherTransaction
<1>2. ASSUME NEW u \in Users, Login(u) \/ Connect(u) PROVE Goal
  BY <1>2 DEF Login, Connect, Commit, OtherTransaction
<1>3. ASSUME NEW u \in Flaky, CloseConnection(u) \/ HeartbeatAges(u) PROVE Goal
  <2>1. CASE CloseConnection(u)
    <3>1. u \in Users /\ (u \in seen) \in BOOLEAN
      BY <1>u
    <3>2. db' = CloseSecureSession(db, u, u \in seen)
      BY <2>1 DEF CloseConnection, Commit
    <3> QED  BY <3>1, <3>2 DEF OtherTransaction
  <2>2. CASE HeartbeatAges(u)
    BY <2>2 DEF HeartbeatAges, OtherTransaction
  <2> QED  BY <1>3, <2>1, <2>2
<1>4. ASSUME NEW u \in Overlays, ApiLogin(u) \/ PollEvent(u) \/ AcceptPopup(u)
      PROVE  Goal
  BY <1>4, <1>u DEF ApiLogin, PollEvent, AcceptPopup, Api, Commit, OtherTransaction
<1>5. ASSUME NEW u \in Overlays, ListUsers(u) PROVE Goal
  <2>1. StaleUsers(db, seen \cup {u}) \in SUBSET Users
    BY DEF StaleUsers
  <2> QED  BY <1>5, <2>1 DEF ListUsers, Api, Commit, OtherTransaction
<1>6. ASSUME NEW u \in Inviters, InviteStore(u) \/ \E to \in Users : InviteLookup(u, to)
      PROVE  Goal
  BY <1>6, <1>u DEF InviteStore, InviteLookup, Api, Commit, OtherTransaction
<1>7. ASSUME Restart PROVE Goal
  BY <1>7 DEF Restart, Commit, OtherTransaction
<1>8. ASSUME NEW u \in Hosts, NEW c \in NewClasses, CreateSession(u, c) PROVE Goal
  BY <1>8, <1>u DEF Creation
<1>9. ASSUME NEW u, NEW any, RegisterUrls(u, any) PROVE Goal
  BY <1>9 DEF RegisterUrls, Rmc, Commit, OtherTransaction
<1>10. ASSUME NEW u \in Users, NEW s \in Sessions(db),
              \/ JoinSession(u, s)
              \/ LeaveSession(u, s)
              \/ MigrateSession(u, s)
              \/ SplitSession(u, s)
              \/ DeleteSession(u, s)
       PROVE  Goal
  <2>1. CASE \/ JoinSession(u, s) \/ LeaveSession(u, s) \/ DeleteSession(u, s)
             \/ SplitSession(u, s) /\ ~MigrateSession(u, s)
    BY <2>1 DEF JoinSession, LeaveSession, SplitSession, DeleteSession, Rmc, Commit, OtherTransaction
  <2>2. CASE MigrateSession(u, s)
    BY <2>2 DEF HandOver
  <2> QED  BY <1>10, <2>1, <2>2
<1>11. ASSUME NEW u \in Managers, NEW s \in Sessions(db),
              \/ \E c \in SetClasses : UpdateSession(u, s, c)
              \/ \E v \in Users : RemoveFromSession(u, s, v)
              \/ \E v \in Users, private \in BOOLEAN : AddToSession(u, s, v, private)
       PROVE  Goal
  BY <1>11, <1>u DEF UpdateSession, RemoveFromSession, AddToSession, Rmc, Commit, OtherTransaction
<1>12. ASSUME NEW s \in Sessions(db), AdminDeleteSession(s) PROVE Goal
  BY <1>12 DEF AdminDeleteSession, Commit, OtherTransaction
<1>13. ASSUME NEW i \in db.invites, InviteExpires(i) PROVE Goal
  BY <1>13 DEF InviteExpires, OtherTransaction
<1> QED
  BY <1>1, <1>2, <1>3, <1>4, <1>5, <1>6, <1>7, <1>8, <1>9, <1>10, <1>11, <1>12, <1>13
     DEF Next, vars

\* Every step of the server is one of those transactions on its database.
LEMMA StepIsTransaction == [Next]_vars => Transaction(db, db')
  BY StepKind DEF Creation, HandOver, CreateSession, MigrateSession, Rmc, Commit, Transaction

-----------------------------------------------------------------------------
\* A live session has its host in it.

LEMMA TransactionHost ==
    ASSUME NEW d, NEW e, HostInv(d), Transaction(d, e)
    PROVE  HostInv(e)
<1>0. IsDb(d)
  BY DEF HostInv
<1>1. ASSUME NEW x, e = [d EXCEPT !.urls = x] \/ e = [d EXCEPT !.online = x] \/ e = [d EXCEPT !.invites = x]
      PROVE  HostInv(e)
  <2>1. CASE e = [d EXCEPT !.urls = x]
    BY <1>0, <2>1, ColumnsFrame, SameSessionsHost
  <2>2. CASE e = [d EXCEPT !.online = x]
    BY <1>0, <2>2, ColumnsFrame, SameSessionsHost
  <2>3. CASE e = [d EXCEPT !.invites = x]
    BY <1>0, <2>3, InvitesFrame, SameSessionsHost
  <2> QED  BY <1>1, <2>1, <2>2, <2>3
<1>2. ASSUME NEW u \in Users, NEW s \in Sessions(d),
             \/ \E c \in Classes : e = UpdateGameSession(d, s, c)
             \/ ~JoinViolatesForeignKey(d, u, s) /\ e = JoinGameSession(d, u, s)
             \/ e = LeaveGameSession(d, u, s)
             \/ e = RemoveParticipants(d, s, u)
             \/ \E caller, private : e = AddParticipant(d, caller, s, u, private)
             \/ CanMigrate(d, u, s) /\ e = MigrateHost(d, u, s)
             \/ CanRestore(d, u, s) /\ e = RestoreSession(d, u, s)
             \/ e = DeleteGameSession(d, u, s)
      PROVE  HostInv(e)
  BY <1>2, UpdateHost, JoinHost, RemoveHost, AddHost, MigrateHostFact, RestoreHost, DeleteHost
<1>3. ASSUME NEW u \in Users,
             \/ \E to, kind, s : e = AddInvite(d, u, to, kind, s)
             \/ e = TakeInvites(d, u)
             \/ \E id : e = AcceptInvite(d, u, id)
      PROVE  HostInv(e)
  <2>1. SameSessions(d, e)
    BY <1>0, <1>3, InviteOpsFrame
  <2> QED  BY <2>1, SameSessionsHost
<1> QED
  BY <1>1, <1>2, <1>3, CreateHost, DestroyHost, CloseHost, CleanupHost, InvalidateHost
     DEF Transaction, OtherTransaction

\* Every live session is hosted by somebody who is in it, whoever leaves, is
\* removed, is swept, disconnects or hands the session over, and whenever the
\* server restarts: what reconcile_game_session_async is called for.
THEOREM HostIsPresent == Spec => []HostPresent
<1>1. Init => HostInv(db)
  <2> SUFFICES ASSUME Init PROVE HostInv(db)
    OBVIOUS
  <2>1. db = EmptyDb
    BY DEF Init
  <2>2. IsDb(db) /\ db.sessions = <<>> /\ db.parts = {}
    BY <2>1 DEF EmptyDb, IsDb, Fields
  <2> QED  BY <2>2 DEF HostInv, HostOK, Sessions
<1>2. HostInv(db) /\ [Next]_vars => HostInv(db)'
  BY StepIsTransaction, TransactionHost
<1>3. HostInv(db) => HostPresent
  BY DEF HostInv, HostOK, HostPresent
<1> QED
  BY <1>1, <1>2, <1>3, PTL DEF Spec

-----------------------------------------------------------------------------
\* The tables of parties.

\* The three columns after a statement, and what has to be shown of them.
LEMMA PartyColumns ==
    ASSUME NEW e, IsDb(e),
           e.party \in [Users -> Nat], e.member \in [Users -> Nat], e.lastParty \in Nat,
           \A u \in Users : e.party[u] # NoParty => e.member[u] = e.party[u],
           \A u \in Users : e.member[u] # NoParty => \E l \in Users : e.party[l] = e.member[u],
           \A u, v \in Users : e.party[u] = e.party[v] /\ e.party[u] # NoParty => u = v,
           \A u \in Users : e.party[u] <= e.lastParty
    PROVE  PartyInv(e)
  BY DEF PartyInv, PartyOK, PartyExists

\* ensure_party_for_leader_async
LEMMA EnsurePartyParty ==
    ASSUME NEW d, PartyInv(d), NEW u \in Users
    PROVE  PartyInv(EnsureParty(d, u))
<1> DEFINE e == EnsureParty(d, u)
<1>1. CASE d.party[u] # NoParty
  <2>1. /\ IsDb(e) /\ e.party = d.party /\ e.lastParty = d.lastParty
        /\ e.member = [d.member EXCEPT ![u] = d.party[u]]
    BY <1>1 DEF EnsureParty, PartyInv, IsDb, Fields
  <2>2. e.member = d.member
    BY <1>1, <2>1 DEF PartyInv, PartyOK
  <2>3. SameParties(d, e)
    BY <2>1, <2>2 DEF SameParties
  <2> QED  BY <2>3, SamePartiesParty
<1>2. CASE d.party[u] = NoParty
  <2> DEFINE p == d.lastParty + 1
  <2>1. /\ IsDb(e)
        /\ e.party = [d.party EXCEPT ![u] = p]
        /\ e.member = [d.member EXCEPT ![u] = p]
        /\ e.lastParty = p
    BY <1>2 DEF EnsureParty, PartyInv, IsDb, Fields
  <2> HIDE DEF e
  <2>2. p \in Nat /\ p # NoParty /\ \A v \in Users : d.party[v] < p /\ d.party[v] \in Nat
    BY DEF PartyInv, PartyOK, NoParty
  <2>3. /\ e.party[u] = p /\ e.member[u] = p
        /\ \A v \in Users \ {u} : e.party[v] = d.party[v] /\ e.member[v] = d.member[v]
    BY <2>1 DEF PartyInv, PartyOK
  <2>4. e.party \in [Users -> Nat] /\ e.member \in [Users -> Nat] /\ e.lastParty \in Nat
    BY <2>1, <2>2 DEF PartyInv, PartyOK
  <2> HIDE DEF p
  <2>5. ASSUME NEW v \in Users, e.party[v] # NoParty PROVE e.member[v] = e.party[v]
    BY <2>3, <2>5 DEF PartyInv, PartyOK
  <2>6. ASSUME NEW v \in Users, e.member[v] # NoParty
        PROVE  \E l \in Users : e.party[l] = e.member[v]
    <3>1. CASE v = u
      BY <2>3, <3>1
    <3>2. CASE v # u
      <4>1. PICK l \in Users : d.party[l] = d.member[v]
        BY <2>3, <2>6, <3>2 DEF PartyInv, PartyOK, PartyExists
      <4>2. l # u
        BY <1>2, <2>3, <2>6, <3>2, <4>1
      <4> QED  BY <2>3, <3>2, <4>1, <4>2
    <3> QED  BY <3>1, <3>2
  <2>7. ASSUME NEW v \in Users, NEW w \in Users, e.party[v] = e.party[w], e.party[v] # NoParty
        PROVE  v = w
    BY <2>2, <2>3, <2>7 DEF PartyInv, PartyOK
  <2>8. ASSUME NEW v \in Users PROVE e.party[v] <= e.lastParty
    BY <2>1, <2>2, <2>3
  <2>9. PartyInv(e)
    BY <2>1, <2>4, <2>5, <2>6, <2>7, <2>8, PartyColumns
  <2> QED  BY <2>9 DEF e
<1> QED
  BY <1>1, <1>2 DEF PartyInv, PartyOK

\* The users give up the parties they lead, and leave the ones they are in.
LEMMA LeavePartiesParty ==
    ASSUME NEW d, PartyInv(d), NEW users \in SUBSET Users
    PROVE  PartyInv(LeaveParties(d, users))
<1> DEFINE e   == LeaveParties(d, users)
           led == {d.party[u] : u \in users} \ {NoParty}
<1>1. /\ IsDb(e)
      /\ e.party = [v \in Users |-> IF v \in users THEN NoParty ELSE d.party[v]]
      /\ e.member = [v \in Users |-> IF v \in users \/ d.member[v] \in led THEN NoParty ELSE d.member[v]]
      /\ e.lastParty = d.lastParty
  BY DEF LeaveParties, PartyInv, IsDb, Fields
<1> HIDE DEF e
<1>2. /\ d.party \in [Users -> Nat] /\ d.member \in [Users -> Nat] /\ d.lastParty \in Nat
      /\ NoParty \in Nat
  BY DEF PartyInv, PartyOK, NoParty
<1>3. e.party \in [Users -> Nat] /\ e.member \in [Users -> Nat] /\ e.lastParty \in Nat
  BY <1>1, <1>2
<1>4. ASSUME NEW v \in Users, e.party[v] # NoParty PROVE e.member[v] = e.party[v]
  <2>1. v \notin users /\ e.party[v] = d.party[v] /\ d.member[v] = d.party[v]
    BY <1>1, <1>4 DEF PartyInv, PartyOK
  <2>2. d.member[v] \notin led
    BY <1>4, <2>1 DEF PartyInv, PartyOK
  <2> QED  BY <1>1, <2>1, <2>2
<1>5. ASSUME NEW v \in Users, e.member[v] # NoParty
      PROVE  \E l \in Users : e.party[l] = e.member[v]
  <2>1. d.member[v] \notin led /\ e.member[v] = d.member[v]
    BY <1>1, <1>5
  <2>2. PICK l \in Users : d.party[l] = d.member[v]
    BY <1>5, <2>1 DEF PartyInv, PartyOK, PartyExists
  <2>3. l \notin users
    BY <1>5, <2>1, <2>2
  <2> QED  BY <1>1, <2>1, <2>2, <2>3
<1>6. ASSUME NEW v \in Users, NEW w \in Users, e.party[v] = e.party[w], e.party[v] # NoParty
      PROVE  v = w
  BY <1>1, <1>6 DEF PartyInv, PartyOK
<1>7. ASSUME NEW v \in Users PROVE e.party[v] <= e.lastParty
  BY <1>1, <1>2 DEF PartyInv, PartyOK, NoParty
<1>8. PartyInv(e)
  BY <1>1, <1>3, <1>4, <1>5, <1>6, <1>7, PartyColumns
<1> QED
  BY <1>8 DEF e

\* A player who enters the party of an invitation gives up the one it leads.
LEMMA EnterPartyParty ==
    ASSUME NEW d, PartyInv(d), NEW u \in Users, NEW p, p # NoParty => PartyExists(d, p)
    PROVE  PartyInv(EnterParty(d, u, p))
<1>1. CASE p = NoParty
  BY <1>1 DEF EnterParty
<1>2. CASE p # NoParty /\ d.party[u] = p
  <2> DEFINE e == [d EXCEPT !.member[u] = p]
  <2>1. SameParties(d, e)
    <3>1. e.member = d.member
      BY <1>2 DEF PartyInv, PartyOK, IsDb, Fields
    <3> QED  BY <3>1 DEF SameParties, PartyInv, IsDb, Fields
  <2>2. EnterParty(d, u, p) = e
    BY <1>2 DEF EnterParty
  <2> QED  BY <2>1, <2>2, SamePartiesParty
<1>3. CASE p # NoParty /\ d.party[u] # p
  <2> DEFINE own   == DissolveParty(d, u)
             e     == EnterParty(d, u, p)
             ended(v) == d.party[u] # NoParty /\ d.member[v] = d.party[u]
  <2>1. /\ IsDb(own)
        /\ own.party = [d.party EXCEPT ![u] = NoParty]
        /\ own.member = [v \in Users |-> IF ended(v) THEN NoParty ELSE d.member[v]]
        /\ own.lastParty = d.lastParty
    BY DEF DissolveParty, PartyInv, IsDb, Fields
  <2>2. e = [own EXCEPT !.member[u] = p]
    BY <1>3 DEF EnterParty
  <2> HIDE DEF own, e
  <2>3. /\ IsDb(e)
        /\ e.party = [d.party EXCEPT ![u] = NoParty]
        /\ e.member = [v \in Users |-> IF v = u THEN p ELSE IF ended(v) THEN NoParty ELSE d.member[v]]
        /\ e.lastParty = d.lastParty
    <3>1. IsDb(e) /\ e.party = own.party /\ e.lastParty = own.lastParty
          /\ e.member = [own.member EXCEPT ![u] = p]
      BY <2>1, <2>2 DEF IsDb, Fields
    <3> QED  BY <2>1, <3>1
  <2>4. PICK leader \in Users : d.party[leader] = p
    BY <1>3 DEF PartyExists
  <2>5. /\ d.party \in [Users -> Nat] /\ d.member \in [Users -> Nat] /\ d.lastParty \in Nat
        /\ NoParty \in Nat /\ p \in Nat
    BY <2>4 DEF PartyInv, PartyOK, NoParty
  <2>6. e.party \in [Users -> Nat] /\ e.member \in [Users -> Nat] /\ e.lastParty \in Nat
    BY <2>3, <2>5
  <2>7. /\ e.party[u] = NoParty /\ e.member[u] = p
        /\ \A v \in Users \ {u} : /\ e.party[v] = d.party[v]
                                  /\ e.member[v] = IF ended(v) THEN NoParty ELSE d.member[v]
    BY <2>3, <2>5
  <2>8. ASSUME NEW v \in Users, e.party[v] # NoParty PROVE e.member[v] = e.party[v]
    <3>1. v # u /\ d.party[v] = e.party[v] /\ d.member[v] = d.party[v]
      BY <2>7, <2>8 DEF PartyInv, PartyOK
    <3>2. ~ended(v)
      BY <2>8, <3>1 DEF PartyInv, PartyOK
    <3> QED  BY <2>7, <3>1, <3>2
  <2>9. ASSUME NEW v \in Users, e.member[v] # NoParty
        PROVE  \E l \in Users : e.party[l] = e.member[v]
    <3>1. CASE v = u
      BY <1>3, <2>4, <2>7, <3>1
    <3>2. CASE v # u
      <4>1. ~ended(v) /\ e.member[v] = d.member[v]
        BY <2>7, <2>9, <3>2
      <4>2. PICK l \in Users : d.party[l] = d.member[v]
        BY <2>9, <4>1 DEF PartyInv, PartyOK, PartyExists
      <4>3. l # u
        BY <2>9, <4>1, <4>2
      <4> QED  BY <2>7, <4>1, <4>2, <4>3
    <3> QED  BY <3>1, <3>2
  <2>10. ASSUME NEW v \in Users, NEW w \in Users, e.party[v] = e.party[w], e.party[v] # NoParty
         PROVE  v = w
    BY <2>7, <2>10 DEF PartyInv, PartyOK
  <2>11. ASSUME NEW v \in Users PROVE e.party[v] <= e.lastParty
    BY <2>3, <2>5, <2>7 DEF PartyInv, PartyOK, NoParty
  <2>12. PartyInv(e)
    BY <2>3, <2>6, <2>8, <2>9, <2>10, <2>11, PartyColumns
  <2> QED  BY <2>12 DEF e
<1> QED
  BY <1>1, <1>2, <1>3

\* The statements on sessions and participants alone.
LEMMA SessionOpsFrame ==
    ASSUME NEW d, IsDb(d), NEW s, NEW u, NEW c
    PROVE  /\ SameParties(d, Reconcile(d, s))
           /\ SameParties(d, InsertParticipant(d, s, u))
           /\ SameParties(d, UpdateGameSession(d, s, c))
           /\ SameParties(d, MigrateHost(d, u, s))
           /\ SameParties(d, RestoreSession(d, u, s))
           /\ SameParties(d, Destroy(d, s))
<1>1. ASSUME NEW rows PROVE SameParties(d, [d EXCEPT !.sessions = rows])
  BY DEF SameParties, IsDb, Fields
<1>2. SameParties(d, Destroy(d, s))
  BY DEF SameParties, Destroy, IsDb, Fields
<1>3. SameParties(d, [d EXCEPT !.sessions[s].creator = Min(Joined(d, s))])
  BY DEF SameParties, IsDb, Fields
<1>4. SameParties(d, Reconcile(d, s))
  <2>1. Reconcile(d, s) \in {d, Destroy(d, s), [d EXCEPT !.sessions[s].creator = Min(Joined(d, s))]}
    BY DEF Reconcile
  <2>2. SameParties(d, d)
    BY DEF SameParties
  <2> QED  BY <1>2, <1>3, <2>1, <2>2
<1>5. SameParties(d, InsertParticipant(d, s, u))
  BY DEF SameParties, InsertParticipant, IsDb, Fields
<1>6. SameParties(d, UpdateGameSession(d, s, c))
  BY DEF SameParties, UpdateGameSession, IsDb, Fields
<1>7. SameParties(d, MigrateHost(d, u, s))
  BY DEF SameParties, MigrateHost, IsDb, Fields
<1>8. SameParties(d, RestoreSession(d, u, s))
  BY DEF SameParties, RestoreSession, InsertParticipant, IsDb, Fields
<1> QED
  BY <1>2, <1>4, <1>5, <1>6, <1>7, <1>8

LEMMA CreateParty ==
    ASSUME NEW d, PartyInv(d), NEW u, NEW c
    PROVE  PartyInv(CreateGameSession(d, u, c))
<1> DEFINE s == Len(d.sessions) + 1
           i == [d EXCEPT !.sessions = Append(@, [creator |-> u, class |-> c, live |-> TRUE])]
           e == InsertParticipant(i, s, u)
<1>1. SameParties(d, i)
  BY DEF SameParties, PartyInv, IsDb, Fields
<1> HIDE DEF i
<1>2. SameParties(i, e)
  BY <1>1, SessionOpsFrame DEF SameParties
<1> HIDE DEF e
<1>3. SameParties(e, FollowIfRoom(e, u, s))
  BY <1>2, FollowFrame DEF SameParties
<1>4. SameParties(d, FollowIfRoom(e, u, s))
  BY <1>1, <1>2, <1>3 DEF SameParties
<1>5. PartyInv(FollowIfRoom(e, u, s))
  BY <1>4, SamePartiesParty
<1> QED
  BY <1>5 DEF CreateGameSession, e, i

LEMMA JoinParty ==
    ASSUME NEW d, PartyInv(d), NEW s, NEW u \in Users, ~JoinViolatesForeignKey(d, u, s)
    PROVE  PartyInv(JoinGameSession(d, u, s))
<1> DEFINE p        == InvitedParty(d, u, s)
           joined   == InsertParticipant(d, s, u)
           entered  == EnterParty(joined, u, p)
           consumed == ConsumeAccepted(entered, u, s)
<1>0. IsDb(d)
  BY DEF PartyInv
<1>1. SameParties(d, joined) /\ PartyInv(joined)
  BY <1>0, SessionOpsFrame, SamePartiesParty
<1> HIDE DEF joined
<1>2. p # NoParty => PartyExists(joined, p)
  BY <1>1 DEF JoinViolatesForeignKey, PartyExists, SameParties
<1> HIDE DEF p
<1>3. PartyInv(entered)
  BY <1>1, <1>2, EnterPartyParty
<1> HIDE DEF entered
<1>4. PartyInv(consumed)
  BY <1>3, InvitesFrame, SamePartiesParty DEF PartyInv, ConsumeAccepted
<1> HIDE DEF consumed
<1>5. PartyInv(FollowIfRoom(consumed, u, s))
  BY <1>4, FollowFrame, SamePartiesParty DEF PartyInv
<1> QED
  BY <1>5 DEF JoinGameSession, joined, entered, consumed, p

LEMMA RemoveParty ==
    ASSUME NEW d, PartyInv(d), NEW s, NEW u \in Users
    PROVE  PartyInv(RemoveParticipants(d, s, u)) /\ PartyInv(LeaveGameSession(d, u, s))
<1> DEFINE after == [d EXCEPT !.parts = @ \ {<<s, u>>}]
           e     == DeleteParticipant(d, s, u)
<1>1. SameParties(d, after)
  BY DEF SameParties, PartyInv, IsDb, Fields
<1>2. PartyInv(after)
  BY <1>1, SamePartiesParty
<1>3. e \in {after, LeaveParties(after, {u})}
  BY DEF DeleteParticipant
<1> HIDE DEF after, e
<1>4. PartyInv(e)
  BY <1>2, <1>3, LeavePartiesParty
<1>5. PartyInv(Reconcile(e, s))
  BY <1>4, SessionOpsFrame, SamePartiesParty DEF PartyInv
<1> QED
  BY <1>5 DEF RemoveParticipants, LeaveGameSession, e

LEMMA AddParty ==
    ASSUME NEW d, PartyInv(d), NEW s, NEW u, NEW caller, NEW private
    PROVE  PartyInv(AddParticipant(d, caller, s, u, private))
<1>1. PartyInv(InsertParticipant(d, s, u))
  BY SessionOpsFrame, SamePartiesParty DEF PartyInv
<1>2. PartyInv(Reconcile(InsertParticipant(d, s, u), s))
  BY <1>1, SessionOpsFrame, SamePartiesParty DEF PartyInv
<1> QED
  BY <1>2 DEF AddParticipant

LEMMA DeleteParty ==
    ASSUME NEW d, PartyInv(d), NEW s, NEW u \in Users
    PROVE  PartyInv(DeleteGameSession(d, u, s))
<1> DEFINE deleted == Destroy(d, s)
           party   == EnsureParty(deleted, u)
<1>1. PartyInv(deleted)
  BY SessionOpsFrame, SamePartiesParty DEF PartyInv
<1> HIDE DEF deleted
<1>2. PartyInv(party)
  BY <1>1, EnsurePartyParty
<1> HIDE DEF party
<1>3. ASSUME NEW rows PROVE PartyInv([party EXCEPT !.invites = rows])
  BY <1>2, InvitesFrame, SamePartiesParty DEF PartyInv
<1>4. \/ DeleteGameSession(d, u, s) = deleted
      \/ \E rows : DeleteGameSession(d, u, s) = [party EXCEPT !.invites = rows]
  BY DEF DeleteGameSession, deleted, party
<1> QED
  BY <1>1, <1>3, <1>4

LEMMA AddInviteParty ==
    ASSUME NEW d, PartyInv(d), NEW u \in Users, NEW to, NEW kind, NEW s
    PROVE  PartyInv(AddInvite(d, u, to, kind, s))
<1> DEFINE party == IF kind = "lobby" THEN EnsureParty(d, u) ELSE d
<1>1. PartyInv(party)
  BY EnsurePartyParty
<1>2. \E rows : AddInvite(d, u, to, kind, s) = [party EXCEPT !.invites = rows]
  BY DEF AddInvite
<1> HIDE DEF party
<1> QED
  BY <1>1, <1>2, InvitesFrame, SamePartiesParty DEF PartyInv

LEMMA CleanupParty ==
    ASSUME NEW d, PartyInv(d), NEW users \in SUBSET Users
    PROVE  PartyInv(CleanupUsers(d, users))
<1> DEFINE left == LeaveParties(d, users)
           gone == [left EXCEPT !.parts  = {p \in @ : p[2] \notin users},
                                !.urls   = @ \ users,
                                !.online = @ \ users]
<1>1. PartyInv(left)
  BY LeavePartiesParty
<1>2. \E rows : CleanupUsers(d, users) = [gone EXCEPT !.sessions = rows]
  BY DEF CleanupUsers
<1> HIDE DEF left
<1>3. SameParties(left, gone)
  BY <1>1 DEF SameParties, PartyInv, IsDb, Fields
<1> HIDE DEF gone
<1>4. ASSUME NEW rows PROVE SameParties(gone, [gone EXCEPT !.sessions = rows])
  BY <1>3 DEF SameParties, IsDb, Fields
<1>5. PartyInv(gone)
  BY <1>1, <1>3, SamePartiesParty
<1> QED
  BY <1>2, <1>4, <1>5, SamePartiesParty

LEMMA CloseParty ==
    ASSUME NEW d, PartyInv(d), NEW u \in Users, NEW heard
    PROVE  PartyInv(CloseSecureSession(d, u, heard))
<1>1. SameParties(d, [d EXCEPT !.online = @ \ {u}])
  BY ColumnsFrame DEF PartyInv
<1> QED
  BY <1>1, CleanupParty, SamePartiesParty DEF CloseSecureSession

\* Every party is dissolved when the server starts.
LEMMA InvalidateParty ==
    ASSUME NEW d, PartyInv(d)
    PROVE  PartyInv(InvalidateSessions(d))
<1> DEFINE e == InvalidateSessions(d)
<1>1. /\ IsDb(e)
      /\ e.party = [u \in Users |-> NoParty]
      /\ e.member = [u \in Users |-> NoParty]
      /\ e.lastParty = d.lastParty
  BY DEF PartyInv, InvalidateSessions, IsDb, Fields
<1>2. d.lastParty \in Nat
  BY DEF PartyInv, PartyOK
<1> HIDE DEF e
<1>3. PartyInv(e)
  BY <1>1, <1>2, PartyColumns DEF NoParty
<1> QED
  BY <1>3 DEF e

LEMMA TransactionParty ==
    ASSUME NEW d, NEW e, PartyInv(d), Transaction(d, e)
    PROVE  PartyInv(e)
<1>0. IsDb(d)
  BY DEF PartyInv
<1>1. ASSUME NEW x, e = [d EXCEPT !.urls = x] \/ e = [d EXCEPT !.online = x] \/ e = [d EXCEPT !.invites = x]
      PROVE  PartyInv(e)
  <2>1. CASE e = [d EXCEPT !.urls = x]
    BY <1>0, <2>1, ColumnsFrame, SamePartiesParty
  <2>2. CASE e = [d EXCEPT !.online = x]
    BY <1>0, <2>2, ColumnsFrame, SamePartiesParty
  <2>3. CASE e = [d EXCEPT !.invites = x]
    BY <1>0, <2>3, InvitesFrame, SamePartiesParty
  <2> QED  BY <1>1, <2>1, <2>2, <2>3
<1>2. ASSUME NEW u \in Users, NEW s \in Sessions(d),
             \/ \E c \in Classes : e = UpdateGameSession(d, s, c)
             \/ CanMigrate(d, u, s) /\ e = MigrateHost(d, u, s)
             \/ CanRestore(d, u, s) /\ e = RestoreSession(d, u, s)
      PROVE  PartyInv(e)
  BY <1>0, <1>2, SessionOpsFrame, SamePartiesParty
<1>3. ASSUME NEW u \in Users, NEW s \in Sessions(d),
             \/ ~JoinViolatesForeignKey(d, u, s) /\ e = JoinGameSession(d, u, s)
             \/ e = LeaveGameSession(d, u, s)
             \/ e = RemoveParticipants(d, s, u)
             \/ \E caller, private : e = AddParticipant(d, caller, s, u, private)
             \/ e = DeleteGameSession(d, u, s)
      PROVE  PartyInv(e)
  BY <1>3, JoinParty, RemoveParty, AddParty, DeleteParty
<1>4. ASSUME NEW s \in Sessions(d), e = Destroy(d, s) PROVE PartyInv(e)
  BY <1>0, <1>4, SessionOpsFrame, SamePartiesParty
<1>5. ASSUME NEW u \in Users, e = TakeInvites(d, u) \/ \E id : e = AcceptInvite(d, u, id)
      PROVE  PartyInv(e)
  BY <1>0, <1>5, InviteOpsFrame, SamePartiesParty
<1> QED
  BY <1>1, <1>2, <1>3, <1>4, <1>5, CreateParty, AddInviteParty, CloseParty, CleanupParty,
     InvalidateParty DEF Transaction, OtherTransaction

\* A leader is a member of the party it leads, a member's party exists and
\* nobody else leads it, whichever parties are joined, given up, left with a
\* lobby or swept: party_members.party_id always names a party, so that
\* queue_party_follow_invites_async calls the right players.
THEOREM PartiesAreConsistent == Spec => []PartyConsistent
<1>1. Init => PartyInv(db)
  <2> SUFFICES ASSUME Init PROVE PartyInv(db)
    OBVIOUS
  <2>1. db = EmptyDb
    BY DEF Init
  <2>2. /\ IsDb(db)
        /\ db.party = [u \in Users |-> NoParty]
        /\ db.member = [u \in Users |-> NoParty]
        /\ db.lastParty = 0
    BY <2>1 DEF EmptyDb, IsDb, Fields
  <2> QED  BY <2>2, PartyColumns DEF NoParty
<1>2. PartyInv(db) /\ [Next]_vars => PartyInv(db)'
  BY StepIsTransaction, TransactionParty
<1>3. PartyInv(db) => PartyConsistent
  BY DEF PartyInv, PartyOK, PartyConsistent
<1> QED
  BY <1>1, <1>2, <1>3, PTL DEF Spec

-----------------------------------------------------------------------------
Open(i) == i.status # "consumed"

SameLane(i, j) == i.kind = j.kind \/ {i.kind, j.kind} \subseteq Manual

\* What OneInvitePerLane says of a table of invitations, with its type; the ids
\* have a largest one, so that there is a next one.
InvitesOK(rows) ==
    /\ rows \subseteq InviteType
    /\ \E n \in Nat : \A i \in rows : i.id <= n
    /\ \A i, j \in rows : i.id = j.id => i = j
    /\ \A i, j \in rows : i.to = j.to /\ Open(i) /\ Open(j) /\ SameLane(i, j) => i = j

-----------------------------------------------------------------------------
\* Tables of invitations.

LEMMA FewerRows ==
    ASSUME NEW I, InvitesOK(I), NEW J, J \subseteq I
    PROVE  InvitesOK(J)
BY DEF InvitesOK

\* The status of rows changes, or their time runs out; none is opened again.
LEMMA ChangedRows ==
    ASSUME NEW I, InvitesOK(I), NEW f \in [I -> InviteType],
           \A i \in I : /\ f[i].id = i.id /\ f[i].to = i.to /\ f[i].kind = i.kind
                        /\ Open(f[i]) => Open(i)
    PROVE  InvitesOK({f[i] : i \in I})
<1> DEFINE J == {f[i] : i \in I}
<1>1. J \subseteq InviteType
  OBVIOUS
<1>2. \E n \in Nat : \A j \in J : j.id <= n
  BY DEF InvitesOK
<1>3. ASSUME NEW i \in I, NEW j \in I
      PROVE  /\ f[i].id = f[j].id => f[i] = f[j]
             /\ f[i].to = f[j].to /\ Open(f[i]) /\ Open(f[j]) /\ SameLane(f[i], f[j])
                  => f[i] = f[j]
  BY DEF InvitesOK, SameLane
<1>4. \A i, j \in J : i.id = j.id => i = j
  BY <1>3
<1>5. \A i, j \in J : i.to = j.to /\ Open(i) /\ Open(j) /\ SameLane(i, j) => i = j
  BY <1>3
<1> HIDE DEF J
<1>6. InvitesOK(J)
  BY <1>1, <1>2, <1>4, <1>5 DEF InvitesOK
<1> QED
  BY <1>6 DEF J

\* New invitations from one sender to one session, with these numbers.
NewRows(num, from, to, kind, s, p) == {NewInvite(num[u], from, u, kind, s, p) : u \in to}

\* New invitations, one for each of these users, where none of theirs was open.
LEMMA MoreRows ==
    ASSUME NEW I, InvitesOK(I), NEW to \in SUBSET Users, NEW num \in [to -> Nat], NEW m \in Nat,
           \A u \in to : num[u] <= m /\ \A i \in I : i.id < num[u],
           \A u, v \in to : num[u] = num[v] => u = v,
           NEW from \in Users, NEW kind \in Kinds, NEW s \in Nat, NEW p \in Nat,
           \A i \in I : i.to \in to /\ Open(i) => ~SameLane(i, [kind |-> kind])
    PROVE  InvitesOK(I \cup NewRows(num, from, to, kind, s, p))
<1> DEFINE N == NewRows(num, from, to, kind, s, p)
<1>1. ASSUME NEW u \in to
      PROVE  LET i == NewInvite(num[u], from, u, kind, s, p)
             IN  i \in InviteType /\ i.id = num[u] /\ i.to = u /\ i.kind = kind
  BY DEF NewInvite, InviteType
<1>2. \A j \in N : /\ j \in InviteType /\ j.to \in to /\ j.id = num[j.to] /\ j.kind = kind
                   /\ j = NewInvite(num[j.to], from, j.to, kind, s, p)
  BY <1>1 DEF NewRows
<1> HIDE DEF N
<1>3. I \cup N \subseteq InviteType
  BY <1>2 DEF InvitesOK
<1>4. PICK n \in Nat : \A i \in I : i.id <= n
  BY DEF InvitesOK
<1>5. \E k \in Nat : \A i \in I \cup N : i.id <= k
  <2>1. \A i \in I : i.id \in Nat /\ i.id <= n + m
    BY <1>4 DEF InvitesOK, InviteType
  <2>2. \A j \in N : j.id <= n + m
    BY <1>2
  <2> QED
    BY <2>1, <2>2
<1>6. ASSUME NEW i \in I \cup N, NEW j \in I \cup N, i.id = j.id PROVE i = j
  <2>1. CASE i \in I /\ j \in I
    BY <1>6, <2>1 DEF InvitesOK
  <2>2. CASE i \in N /\ j \in N
    BY <1>2, <1>6, <2>2
  <2>3. \A x \in I, y \in N : x.id # y.id
    BY <1>2 DEF InvitesOK, InviteType
  <2> QED
    BY <1>6, <2>1, <2>2, <2>3
<1>7. ASSUME NEW i \in I \cup N, NEW j \in I \cup N,
             i.to = j.to, Open(i), Open(j), SameLane(i, j)
      PROVE  i = j
  <2>1. CASE i \in I /\ j \in I
    BY <1>7, <2>1 DEF InvitesOK
  <2>2. CASE i \in N /\ j \in N
    BY <1>2, <1>7, <2>2
  <2>3. ASSUME NEW x \in I, NEW y \in N, x.to = y.to, Open(x) PROVE ~SameLane(x, y) /\ ~SameLane(y, x)
    <3>1. x.to \in to /\ y.kind = kind
      BY <1>2, <2>3
    <3> QED
      BY <2>3, <3>1 DEF SameLane
  <2> QED
    BY <1>7, <2>1, <2>2, <2>3
<1>8. InvitesOK(I \cup N)
  BY <1>3, <1>5, <1>6, <1>7 DEF InvitesOK
<1> QED
  BY <1>8 DEF N

-----------------------------------------------------------------------------
\* Numbers for new rows.

\* A set of naturals with a member and a bound has a largest one, which is its Max.
LEMMA MaxFact ==
    ASSUME NEW n \in Nat, NEW S, S # {}, S \subseteq 0..n
    PROVE  Max(S) \in S /\ \A x \in S : x <= Max(S)
<1> DEFINE T == {n - x : x \in S}
<1>1. T \subseteq Nat /\ T # {}
  <2>1. ASSUME NEW x \in S PROVE n - x \in Nat
    <3>1. x \in 0..n
      OBVIOUS
    <3> QED
      BY <3>1
  <2>2. PICK x \in S : TRUE
    OBVIOUS
  <2>3. n - x \in T
    BY <2>2
  <2> QED
    BY <2>1, <2>3
<1>2. PICK t \in T : \A u \in T : ~(<<u, t>> \in OpToRel(<, Nat))
  BY <1>1, NatLessThanWellFounded, WFMin
<1>3. PICK x \in S : t = n - x
  OBVIOUS
<1>4. ASSUME NEW y \in S PROVE x >= y
  <2>1. n - y \in T /\ t \in T /\ n - y \in Nat /\ t \in Nat
    BY <1>1, <1>3
  <2>2. ~(n - y < t)
    BY <1>2, <2>1 DEF OpToRel
  <2> QED
    BY <1>3, <2>2
<1> QED
  BY <1>4 DEF Max

\* The next rowid is above those of all rows.
LEMMA NextRowIdFact ==
    ASSUME NEW I, InvitesOK(I)
    PROVE  NextRowId(I) \in Nat /\ \A i \in I : i.id < NextRowId(I)
<1> DEFINE S == {i.id : i \in I}
<1>1. PICK n \in Nat : \A i \in I : i.id <= n
  BY DEF InvitesOK
<1>2. S \subseteq 0..n
  BY <1>1 DEF InvitesOK, InviteType
<1>3. CASE I = {}
  BY <1>3 DEF NextRowId
<1>4. CASE I # {}
  <2>1. NextRowId(I) = Max(S) + 1 /\ S # {}
    BY <1>4 DEF NextRowId
  <2>2. \A i \in I : i.id \in S
    OBVIOUS
  <2> HIDE DEF S
  <2>3. Max(S) \in S /\ \A x \in S : x <= Max(S)
    BY <1>2, <2>1, MaxFact
  <2>4. \A x \in S : x \in Nat
    BY <1>2
  <2>5. Max(S) \in Nat
    BY <2>3, <2>4
  <2> QED
    BY <2>1, <2>2, <2>3, <2>4, <2>5
<1> QED
  BY <1>3, <1>4

\* The rank of a user among others: the positions from 1 on, each taken once.
LEMMA RankFact ==
    ASSUME NEW users \in SUBSET Users
    PROVE  /\ Cardinality(users) \in Nat
           /\ \A u \in users : Rank(u, users) \in 1..Cardinality(users)
           /\ \A u, v \in users : Rank(u, users) = Rank(v, users) => u = v
<1> DEFINE Upto(u) == {v \in users : v <= u}
<1>1. IsFiniteSet(users) /\ Cardinality(users) \in Nat
  BY UsersAssumption, FS_Subset, FS_CardinalityType
<1>2. ASSUME NEW u \in users
      PROVE  /\ u \in Nat /\ u \in Upto(u) /\ IsFiniteSet(Upto(u))
             /\ Rank(u, users) = Cardinality(Upto(u))
             /\ Rank(u, users) \in 1..Cardinality(users)
  <2>1. u \in Nat /\ u \in Upto(u)
    BY UsersAssumption
  <2>2. Upto(u) \in SUBSET users
    OBVIOUS
  <2>3. IsFiniteSet(Upto(u)) /\ Cardinality(Upto(u)) <= Cardinality(users)
    BY <1>1, <2>2, FS_Subset
  <2>4. Cardinality(Upto(u)) \in Nat /\ Cardinality(Upto(u)) # 0
    BY <2>1, <2>3, FS_CardinalityType, FS_EmptySet
  <2>5. Rank(u, users) = Cardinality(Upto(u))
    BY DEF Rank
  <2> HIDE DEF Upto
  <2> QED
    BY <1>1, <2>1, <2>3, <2>4, <2>5
<1>3. ASSUME NEW u \in users, NEW v \in users, u < v PROVE Rank(u, users) # Rank(v, users)
  <2>1. u \in Nat /\ v \in Nat /\ users \subseteq Nat
    BY UsersAssumption
  <2>2. Upto(u) \in SUBSET Upto(v) /\ v \in Upto(v) /\ v \notin Upto(u)
    <3>1. ASSUME NEW w \in users, w <= u PROVE w <= v
      BY <1>3, <2>1, <3>1
    <3>2. v <= v /\ ~(v <= u)
      BY <1>3, <2>1
    <3> QED
      BY <3>1, <3>2
  <2> HIDE DEF Upto
  <2> QED
    BY <1>2, <2>2, FS_Subset
<1>4. \A u, v \in users : Rank(u, users) = Rank(v, users) => u = v
  <2>1. \A u, v \in users : u = v \/ u < v \/ v < u
    BY UsersAssumption
  <2> QED
    BY <1>3, <2>1
<1> QED
  BY <1>1, <1>2, <1>4

\* New rows numbered by the ranks of their users, from a free number on.
LEMMA RankedRows ==
    ASSUME NEW I, InvitesOK(I), NEW to \in SUBSET Users, NEW base \in Nat,
           to # {} => \A i \in I : i.id < base,
           NEW from \in Users, NEW kind \in Kinds, NEW s \in Nat, NEW p \in Nat,
           \A i \in I : i.to \in to /\ Open(i) => ~SameLane(i, [kind |-> kind])
    PROVE  InvitesOK(I \cup {NewInvite(base + Rank(u, to) - 1, from, u, kind, s, p) : u \in to})
<1> DEFINE num == [u \in to |-> base + Rank(u, to) - 1]
           m   == base + Cardinality(to)
<1>1. /\ Cardinality(to) \in Nat
      /\ \A u \in to : Rank(u, to) \in 1..Cardinality(to)
      /\ \A u, v \in to : Rank(u, to) = Rank(v, to) => u = v
  BY RankFact
<1>2. \A i \in I : i.id \in Nat
  BY DEF InvitesOK, InviteType
<1>3. /\ num \in [to -> Nat] /\ m \in Nat
      /\ \A u \in to : num[u] <= m /\ base <= num[u]
      /\ \A u, v \in to : num[u] = num[v] => u = v
  <2>1. ASSUME NEW u \in to
        PROVE  /\ base + Rank(u, to) - 1 \in Nat
               /\ base + Rank(u, to) - 1 <= m /\ base <= base + Rank(u, to) - 1
    BY <1>1
  <2>2. ASSUME NEW u \in to, NEW v \in to, base + Rank(u, to) - 1 = base + Rank(v, to) - 1
        PROVE  u = v
    <3>1. Rank(u, to) \in Int /\ Rank(v, to) \in Int
      BY <1>1
    <3>2. Rank(u, to) = Rank(v, to)
      BY <2>2, <3>1
    <3> QED
      BY <1>1, <3>2
  <2> QED
    BY <1>1, <2>1, <2>2
<1>4. {NewInvite(base + Rank(u, to) - 1, from, u, kind, s, p) : u \in to}
         = NewRows(num, from, to, kind, s, p)
  BY DEF NewRows
<1> HIDE DEF num, m
<1>5. \A u \in to : num[u] <= m /\ \A i \in I : i.id < num[u]
  BY <1>2, <1>3
<1>6. InvitesOK(I \cup NewRows(num, from, to, kind, s, p))
  BY <1>3, <1>5, MoreRows
<1> QED
  BY <1>4, <1>6

-----------------------------------------------------------------------------
\* The statements and transactions on invitations keep InvitesOK.

\* queue_party_follow_invites_async: whoever gets a new invitation to follow has
\* no other one left.
LEMMA FollowRows ==
    ASSUME NEW d, InvitesOK(d.invites), d.party \in [Users -> Nat], NEW u \in Users, NEW s \in Nat
    PROVE  InvitesOK(FollowInvites(d, u, s))
<1> DEFINE members == {v \in Users : v # u /\ d.member[v] = d.party[u]}
           invited == {v \in members :
                          \A i \in d.invites : ~(i.to = v /\ FollowsSession(d, i, u, s))}
           kept(users) == {i \in d.invites : \A v \in users : ~StaleFollow(d, i, v, u, s)}
           some == kept({v \in members : v <= Min(invited)})
           all  == kept(members)
           base == NextRowId(some)
<1>1. FollowInvites(d, u, s)
         = all \cup {NewInvite(base + Rank(v, invited) - 1, u, v, "follow", s, d.party[u]) : v \in invited}
  BY DEF FollowInvites
<1>2. some \subseteq d.invites /\ all \subseteq some /\ InvitesOK(some) /\ InvitesOK(all)
  BY FewerRows
<1>3. base \in Nat /\ \A i \in all : i.id < base
  BY <1>2, NextRowIdFact
<1>4. ASSUME NEW i \in all, i.to \in invited, Open(i) PROVE ~SameLane(i, [kind |-> "follow"])
  <2>1. i.to \in members /\ ~FollowsSession(d, i, u, s) /\ ~StaleFollow(d, i, i.to, u, s)
    BY <1>4
  <2>2. i.kind # "follow"
    BY <1>4, <2>1 DEF StaleFollow, Open
  <2> QED
    BY <2>2 DEF SameLane, Manual
<1>5. invited \in SUBSET Users /\ d.party[u] \in Nat /\ "follow" \in Kinds
  BY DEF Kinds
<1> HIDE DEF invited, all, base
<1> QED
  BY <1>1, <1>2, <1>3, <1>4, <1>5, RankedRows

\* delete_game_session: the open way back to a lobby is consumed where a new one
\* is made.
LEMMA RestoreRows ==
    ASSUME NEW d, InvitesOK(d.invites), d.party \in [Users -> Nat], NEW u \in Users,
           NEW lobby \in Nat, NEW players \in SUBSET Users
    PROVE  InvitesOK(RestoreInvites(d, u, lobby, players))
<1> DEFINE to   == {v \in players : v \notin Joined(d, lobby)}
           base == NextRowId(d.invites)
           f    == [i \in d.invites |-> IF i.to \in to /\ i.kind = "restore"
                                        THEN [i EXCEPT !.status = "consumed"] ELSE i]
           left == {f[i] : i \in d.invites}
<1>1. RestoreInvites(d, u, lobby, players)
         = left \cup {NewInvite(base + Rank(v, to) - 1, u, v, "restore", lobby, d.party[u]) : v \in to}
  BY DEF RestoreInvites
<1>2. ASSUME NEW i \in d.invites
      PROVE  /\ f[i] \in InviteType
             /\ f[i].id = i.id /\ f[i].to = i.to /\ f[i].kind = i.kind
             /\ Open(f[i]) => Open(i) /\ ~(i.to \in to /\ i.kind = "restore")
  BY DEF InvitesOK, InviteType, Open
<1>3. f \in [d.invites -> InviteType]
  BY <1>2
<1>4. base \in Nat /\ \A i \in d.invites : i.id < base
  BY NextRowIdFact
<1> HIDE DEF f, to, base
<1>5. InvitesOK(left)
  BY <1>2, <1>3, ChangedRows
<1>6. \A j \in left : /\ j.id < base
                      /\ j.to \in to /\ Open(j) => ~SameLane(j, [kind |-> "restore"])
  BY <1>2, <1>4 DEF SameLane, Manual
<1>7. to \in SUBSET Users /\ d.party[u] \in Nat /\ "restore" \in Kinds
  BY DEF to, Kinds
<1> HIDE DEF left
<1> QED
  BY <1>1, <1>4, <1>5, <1>6, <1>7, RankedRows

\* add_invite_async: the receiver's open invitation of the manual lane is deleted.
LEMMA AddRows ==
    ASSUME NEW d, InvitesOK(d.invites), NEW u \in Users, NEW to \in Users, NEW kind \in Manual,
           NEW s \in Nat, NEW p \in Nat
    PROVE  LET rows == ClearedForInvite(d, to)
           IN  InvitesOK(rows \cup {NewInvite(NextRowId(rows), u, to, kind, s, p)})
<1> DEFINE rows == ClearedForInvite(d, to)
           num  == [v \in {to} |-> NextRowId(rows)]
<1>1. rows \subseteq d.invites /\ \A i \in rows : i.to = to => i.kind \notin Manual
  BY DEF ClearedForInvite
<1>2. InvitesOK(rows)
  BY <1>1, FewerRows
<1>3. NextRowId(rows) \in Nat /\ \A i \in rows : i.id < NextRowId(rows)
  BY <1>2, NextRowIdFact
<1>4. {NewInvite(NextRowId(rows), u, to, kind, s, p)} = NewRows(num, u, {to}, kind, s, p)
  BY DEF NewRows
<1>5. num \in [{to} -> Nat] /\ \A v \in {to} : num[v] <= NextRowId(rows) /\ \A i \in rows : i.id < num[v]
  BY <1>3
<1>6. \A i \in rows : i.to \in {to} /\ Open(i) => ~SameLane(i, [kind |-> kind])
  BY <1>1 DEF SameLane
<1>7. kind \in Kinds /\ {to} \in SUBSET Users /\ \A v, w \in {to} : num[v] = num[w] => v = w
  BY DEF Kinds
<1> HIDE DEF rows, num
<1>8. InvitesOK(rows \cup NewRows(num, u, {to}, kind, s, p))
  BY <1>2, <1>3, <1>5, <1>6, <1>7, MoreRows
<1> QED
  BY <1>4, <1>8 DEF rows

\* cleanup_invalid_invites_async and what take_invite_async, accept_invite_async
\* and join_game_session do to the rows that it leaves.
LEMMA StatusRows ==
    ASSUME NEW d, IsDb(d), InvitesOK(d.invites), NEW u, NEW s, NEW id
    PROVE  /\ InvitesOK(TakeInvites(d, u).invites)
           /\ InvitesOK(AcceptInvite(d, u, id).invites)
           /\ InvitesOK(ConsumeAccepted(d, u, s).invites)
<1> DEFINE clean == CleanInvites(d)
<1>1. clean.invites \subseteq d.invites /\ IsDb(clean)
  BY DEF CleanInvites, IsDb, Fields
<1> HIDE DEF clean
<1>2. InvitesOK(clean.invites)
  BY <1>1, FewerRows
<1>3. InvitesOK(TakeInvites(d, u).invites)
  <2> DEFINE f == [i \in clean.invites |->
                      IF Redundant(clean, u, i) THEN [i EXCEPT !.status = "consumed"] ELSE i]
  <2>1. TakeInvites(d, u).invites = {f[i] : i \in clean.invites}
    BY <1>1 DEF TakeInvites, clean, IsDb, Fields
  <2>2. \A i \in clean.invites : /\ f[i] \in InviteType
                                 /\ f[i].id = i.id /\ f[i].to = i.to /\ f[i].kind = i.kind
                                 /\ Open(f[i]) => Open(i)
    BY <1>2 DEF InvitesOK, InviteType, Open
  <2>3. f \in [clean.invites -> InviteType]
    BY <2>2
  <2> HIDE DEF f
  <2> QED
    BY <1>2, <2>1, <2>2, <2>3, ChangedRows
<1>4. InvitesOK(AcceptInvite(d, u, id).invites)
  <2> DEFINE f == [i \in clean.invites |->
                      IF i.id = id /\ i.to = u /\ Pending(i) THEN [i EXCEPT !.status = "accepted"] ELSE i]
  <2>1. AcceptInvite(d, u, id).invites = {f[i] : i \in clean.invites}
    BY <1>1 DEF AcceptInvite, clean, IsDb, Fields
  <2>2. \A i \in clean.invites : /\ f[i] \in InviteType
                                 /\ f[i].id = i.id /\ f[i].to = i.to /\ f[i].kind = i.kind
                                 /\ Open(f[i]) => Open(i)
    BY <1>2 DEF InvitesOK, InviteType, Open, Pending
  <2>3. f \in [clean.invites -> InviteType]
    BY <2>2
  <2> HIDE DEF f
  <2> QED
    BY <1>2, <2>1, <2>2, <2>3, ChangedRows
<1>5. InvitesOK(ConsumeAccepted(d, u, s).invites)
  <2> DEFINE f == [i \in d.invites |->
                      IF i.to = u /\ i.session = s /\ Accepted(i)
                      THEN [i EXCEPT !.status = "consumed"] ELSE i]
  <2>1. ConsumeAccepted(d, u, s).invites = {f[i] : i \in d.invites}
    BY DEF ConsumeAccepted, IsDb, Fields
  <2>2. \A i \in d.invites : /\ f[i] \in InviteType
                             /\ f[i].id = i.id /\ f[i].to = i.to /\ f[i].kind = i.kind
                             /\ Open(f[i]) => Open(i)
    BY DEF InvitesOK, InviteType, Open
  <2>3. f \in [d.invites -> InviteType]
    BY <2>2
  <2> HIDE DEF f
  <2> QED
    BY <2>1, <2>2, <2>3, ChangedRows
<1> QED
  BY <1>3, <1>4, <1>5

-----------------------------------------------------------------------------
\* The rest of the database, and the transactions.

RestOK(d) == d.urls \subseteq Users /\ d.online \subseteq Users /\ InvitesOK(d.invites)

StoreInv(d) == HostInv(d) /\ PartyInv(d) /\ RestOK(d)

SameRest(d, e) == e.urls = d.urls /\ e.online = d.online /\ e.invites = d.invites

LEMMA RestFrame ==
    ASSUME NEW d, IsDb(d), NEW s, NEW u, NEW c, NEW users
    PROVE  /\ SameRest(d, Reconcile(d, s)) /\ SameRest(d, InsertParticipant(d, s, u))
           /\ SameRest(d, UpdateGameSession(d, s, c)) /\ SameRest(d, MigrateHost(d, u, s))
           /\ SameRest(d, RestoreSession(d, u, s)) /\ SameRest(d, Destroy(d, s))
           /\ SameRest(d, EnsureParty(d, u)) /\ SameRest(d, EnterParty(d, u, c))
           /\ SameRest(d, LeaveParties(d, users)) /\ SameRest(d, DeleteParticipant(d, s, u))
           /\ IsDb(DeleteParticipant(d, s, u))
<1>1. SameRest(d, Destroy(d, s)) /\ SameRest(d, UpdateGameSession(d, s, c))
      /\ SameRest(d, MigrateHost(d, u, s)) /\ SameRest(d, InsertParticipant(d, s, u))
  BY DEF SameRest, Destroy, UpdateGameSession, MigrateHost, InsertParticipant, IsDb, Fields
<1>2. SameRest(d, RestoreSession(d, u, s))
  BY DEF SameRest, RestoreSession, InsertParticipant, IsDb, Fields
<1>3. SameRest(d, Reconcile(d, s))
  <2>1. Reconcile(d, s) \in {d, Destroy(d, s), [d EXCEPT !.sessions[s].creator = Min(Joined(d, s))]}
    BY DEF Reconcile
  <2>2. SameRest(d, [d EXCEPT !.sessions[s].creator = Min(Joined(d, s))]) /\ SameRest(d, d)
    BY DEF SameRest, IsDb, Fields
  <2> QED
    BY <1>1, <2>1, <2>2
<1>4. SameRest(d, EnsureParty(d, u)) /\ SameRest(d, LeaveParties(d, users))
  BY DEF SameRest, EnsureParty, LeaveParties, IsDb, Fields
<1>5. SameRest(d, EnterParty(d, u, c))
  BY DEF SameRest, EnterParty, DissolveParty, IsDb, Fields
<1>6. SameRest(d, DeleteParticipant(d, s, u)) /\ IsDb(DeleteParticipant(d, s, u))
  BY DEF SameRest, DeleteParticipant, LeaveParties, IsDb, Fields
<1> QED
  BY <1>1, <1>2, <1>3, <1>4, <1>5, <1>6

LEMMA FollowRest ==
    ASSUME NEW d, IsDb(d), RestOK(d), d.party \in [Users -> Nat], NEW u \in Users, NEW s \in Nat
    PROVE  RestOK(FollowIfRoom(d, u, s))
<1>1. FollowIfRoom(d, u, s) \in {d, [d EXCEPT !.invites = FollowInvites(d, u, s)]}
  BY DEF FollowIfRoom, QueueFollow
<1>2. InvitesOK(FollowInvites(d, u, s))
  BY FollowRows DEF RestOK
<1>3. RestOK([d EXCEPT !.invites = FollowInvites(d, u, s)])
  BY <1>2 DEF RestOK, IsDb, Fields
<1> QED
  BY <1>1, <1>3

LEMMA CreateRest ==
    ASSUME NEW d, StoreInv(d), NEW u \in Users, NEW c \in Classes
    PROVE  RestOK(CreateGameSession(d, u, c))
<1> DEFINE s == Len(d.sessions) + 1
           i == [d EXCEPT !.sessions = Append(@, [creator |-> u, class |-> c, live |-> TRUE])]
           e == InsertParticipant(i, s, u)
<1>1. IsDb(i) /\ SameRest(d, i) /\ i.party = d.party
  BY DEF SameRest, StoreInv, HostInv, IsDb, Fields
<1>2. s \in Nat
  BY DEF StoreInv, HostInv, HostOK
<1>3. CreateGameSession(d, u, c) = FollowIfRoom(e, u, s)
  BY DEF CreateGameSession
<1> HIDE DEF i, s
<1>4. IsDb(e) /\ SameRest(d, e) /\ e.party = d.party
  BY <1>1 DEF SameRest, InsertParticipant, IsDb, Fields
<1> HIDE DEF e
<1> QED
  BY <1>2, <1>3, <1>4, FollowRest DEF StoreInv, PartyInv, PartyOK, RestOK, SameRest

LEMMA JoinRest ==
    ASSUME NEW d, StoreInv(d), NEW u \in Users, NEW s \in Sessions(d),
           ~JoinViolatesForeignKey(d, u, s)
    PROVE  RestOK(JoinGameSession(d, u, s))
<1> DEFINE p        == InvitedParty(d, u, s)
           joined   == InsertParticipant(d, s, u)
           entered  == EnterParty(joined, u, p)
           consumed == ConsumeAccepted(entered, u, s)
<1>1. SameParties(d, joined) /\ PartyInv(joined) /\ SameRest(d, joined)
  BY SessionOpsFrame, SamePartiesParty, RestFrame DEF StoreInv, PartyInv
<1> HIDE DEF joined
<1>2. p # NoParty => PartyExists(joined, p)
  BY <1>1 DEF JoinViolatesForeignKey, PartyExists, SameParties
<1> HIDE DEF p
<1>3. PartyInv(entered) /\ SameRest(joined, entered)
  BY <1>1, <1>2, EnterPartyParty, RestFrame DEF PartyInv
<1> HIDE DEF entered
<1>4. IsDb(consumed) /\ consumed.party = entered.party /\ consumed.urls = entered.urls
      /\ consumed.online = entered.online
  BY <1>3 DEF PartyInv, ConsumeAccepted, IsDb, Fields
<1>5. InvitesOK(consumed.invites)
  BY <1>1, <1>3, StatusRows DEF StoreInv, RestOK, SameRest, PartyInv
<1> HIDE DEF consumed
<1>6. s \in Nat
  BY DEF StoreInv, HostInv, HostOK, Sessions
<1>7. RestOK(FollowIfRoom(consumed, u, s))
  BY <1>1, <1>3, <1>4, <1>5, <1>6, FollowRest DEF StoreInv, RestOK, SameRest, PartyInv, PartyOK
<1> QED
  BY <1>7 DEF JoinGameSession, joined, entered, consumed, p

\* The newest lobby of a host is a session.
LEMMA NewestSession ==
    ASSUME NEW d, HostInv(d), NEW S \in SUBSET Sessions(d), S # {}
    PROVE  Max(S) \in S /\ Max(S) \in Nat
<1>1. Len(d.sessions) \in Nat /\ Sessions(d) = 1..Len(d.sessions)
  BY DEF HostInv, HostOK, Sessions
<1>2. S \subseteq 0..Len(d.sessions)
  BY <1>1
<1>3. Max(S) \in S
  BY <1>1, <1>2, MaxFact
<1> QED
  BY <1>1, <1>3

LEMMA DeleteRest ==
    ASSUME NEW d, StoreInv(d), NEW u \in Users, NEW s \in Sessions(d)
    PROVE  RestOK(DeleteGameSession(d, u, s))
<1> DEFINE deleted == Destroy(d, s)
           players == Joined(d, s) \ {u}
           lobby   == Max(LobbiesOf(deleted, u, s))
           party   == EnsureParty(deleted, u)
<1>1. HostInv(deleted) /\ PartyInv(deleted) /\ SameRest(d, deleted)
  BY DestroyHost, SessionOpsFrame, SamePartiesParty, RestFrame DEF StoreInv, PartyInv
<1> HIDE DEF deleted
<1>2. PartyInv(party) /\ SameRest(deleted, party)
  BY <1>1, EnsurePartyParty, RestFrame DEF PartyInv
<1> HIDE DEF party
<1>3. LobbiesOf(deleted, u, s) # {} => lobby \in Nat
  BY <1>1, NewestSession DEF LobbiesOf, HostedBy
<1>4. players \in SUBSET Users
  BY DEF Joined
<1> HIDE DEF lobby, players
<1>5. lobby \in Nat => RestOK([party EXCEPT !.invites = RestoreInvites(party, u, lobby, players)])
  <2> SUFFICES ASSUME lobby \in Nat
               PROVE  RestOK([party EXCEPT !.invites = RestoreInvites(party, u, lobby, players)])
    OBVIOUS
  <2>1. InvitesOK(RestoreInvites(party, u, lobby, players))
    BY <1>1, <1>2, <1>4, RestoreRows DEF PartyInv, PartyOK, StoreInv, RestOK, SameRest
  <2> QED
    BY <1>1, <1>2, <2>1 DEF StoreInv, RestOK, SameRest, PartyInv, IsDb, Fields
<1>6. RestOK(deleted)
  BY <1>1 DEF StoreInv, RestOK, SameRest
<1> QED
  BY <1>3, <1>5, <1>6 DEF DeleteGameSession, deleted, party, lobby, players

LEMMA AddInviteRest ==
    ASSUME NEW d, StoreInv(d), NEW u \in Users, NEW to \in Users, NEW kind \in Manual, NEW s \in Nat
    PROVE  RestOK(AddInvite(d, u, to, kind, s))
<1> DEFINE party == IF kind = "lobby" THEN EnsureParty(d, u) ELSE d
           rows  == ClearedForInvite(party, to)
           p     == IF kind = "lobby" THEN party.party[u] ELSE NoParty
           more  == rows \cup {NewInvite(NextRowId(rows), u, to, kind, s, p)}
<1>1. PartyInv(party) /\ SameRest(d, party)
  BY EnsurePartyParty, RestFrame DEF StoreInv, PartyInv, SameRest
<1>2. AddInvite(d, u, to, kind, s) = [party EXCEPT !.invites = more]
  BY DEF AddInvite
<1> HIDE DEF party
<1>3. p \in Nat
  BY <1>1 DEF PartyInv, PartyOK, NoParty
<1> HIDE DEF p
<1>4. InvitesOK(more)
  BY <1>1, <1>3, AddRows DEF StoreInv, RestOK, SameRest
<1> HIDE DEF more
<1> QED
  BY <1>1, <1>2, <1>4 DEF StoreInv, RestOK, SameRest, PartyInv, IsDb, Fields

\* What cleanup_user_game_state_async leaves of the users.
LEMMA CleanupColumns ==
    ASSUME NEW d, IsDb(d), NEW users
    PROVE  LET e == CleanupUsers(d, users)
           IN  /\ e.parts = {p \in d.parts : p[2] \notin users}
               /\ e.urls = d.urls \ users /\ e.online = d.online \ users
               /\ e.invites = d.invites /\ DOMAIN e.sessions = DOMAIN d.sessions
<1> DEFINE left == LeaveParties(d, users)
           gone == [left EXCEPT !.parts  = {p \in @ : p[2] \notin users},
                                !.urls   = @ \ users,
                                !.online = @ \ users]
           affected(s) == Live(d, s) /\ users \cap (Joined(d, s) \cup {Creator(d, s)}) # {}
           rows == [s \in Sessions(d) |->
                       IF affected(s) THEN Reconcile(gone, s).sessions[s] ELSE gone.sessions[s]]
<1>1. CleanupUsers(d, users) = [gone EXCEPT !.sessions = rows]
  BY DEF CleanupUsers
<1>2. SameSessions(d, left) /\ SameRest(d, left)
  BY LeavePartiesFrame, RestFrame
<1> HIDE DEF left
<1>3. /\ IsDb(gone) /\ gone.parts = {p \in d.parts : p[2] \notin users}
      /\ gone.urls = d.urls \ users /\ gone.online = d.online \ users
      /\ gone.invites = d.invites
  BY <1>2 DEF SameSessions, SameRest, IsDb, Fields
<1>4. DOMAIN rows = DOMAIN d.sessions
  BY DEF Sessions
<1> HIDE DEF gone, rows
<1> QED
  BY <1>1, <1>3, <1>4 DEF IsDb, Fields

LEMMA PresenceRest ==
    ASSUME NEW d, StoreInv(d), NEW u, NEW heard, NEW users
    PROVE  /\ RestOK(CleanupUsers(d, users)) /\ RestOK(CloseSecureSession(d, u, heard))
           /\ RestOK(InvalidateSessions(d))
<1>0. IsDb(d)
  BY DEF StoreInv, HostInv
<1>1. RestOK(CleanupUsers(d, users)) /\ RestOK(CleanupUsers(d, {u}))
  BY <1>0, CleanupColumns DEF StoreInv, RestOK
<1>2. RestOK([d EXCEPT !.online = @ \ {u}])
  BY <1>0 DEF StoreInv, RestOK, IsDb, Fields
<1>3. RestOK(InvalidateSessions(d))
  BY <1>0 DEF StoreInv, RestOK, InvalidateSessions, IsDb, Fields
<1> QED
  BY <1>1, <1>2, <1>3 DEF CloseSecureSession

-----------------------------------------------------------------------------
\* Types, and one invitation in each lane.

LookupType == [to : Users, session : Nat, kind : Manual]
PopupType  == [id : Nat, from : Users, session : Nat]

TypesInv ==
    /\ StoreInv(db)
    /\ tickets \subseteq Users
    /\ conns \in [Users -> Nat]
    /\ seen \subseteq Users
    /\ lookup \in [Users -> {None} \cup LookupType]
    /\ popup \in [Users -> {None} \cup PopupType]

LEMMA StepRest == TypesInv /\ [Next]_vars => RestOK(db')
<1> SUFFICES ASSUME TypesInv, [Next]_vars PROVE RestOK(db')
  OBVIOUS
<1>0. StoreInv(db) /\ RestOK(db) /\ IsDb(db)
  BY DEF TypesInv, StoreInv, HostInv
<1>u. Hosts \subseteq Users /\ Managers \subseteq Users /\ Inviters \subseteq Users
      /\ Overlays \subseteq Users /\ Flaky \subseteq Users
      /\ NewClasses \subseteq Classes /\ SetClasses \subseteq Classes
  BY ClientsAssumption
<1>1. ASSUME db' = db PROVE RestOK(db')
  BY <1>0, <1>1
<1>2. ASSUME NEW x \in SUBSET Users, db' = [db EXCEPT !.urls = x] \/ db' = [db EXCEPT !.online = x]
      PROVE  RestOK(db')
  BY <1>0, <1>2 DEF RestOK, IsDb, Fields
<1>3. ASSUME NEW u \in Users, Login(u) \/ Connect(u) PROVE RestOK(db')
  <2>1. db.online \cup {u} \in SUBSET Users
    BY <1>0 DEF RestOK
  <2> QED
    BY <1>1, <1>2, <1>3, <2>1 DEF Login, Connect, Commit
<1>4. ASSUME NEW u, CloseConnection(u) \/ HeartbeatAges(u) PROVE RestOK(db')
  BY <1>0, <1>1, <1>4, PresenceRest DEF CloseConnection, HeartbeatAges, Commit
<1>5. ASSUME NEW u \in Overlays, ApiLogin(u) \/ ListUsers(u) \/ PollEvent(u) \/ AcceptPopup(u)
      PROVE  RestOK(db')
  <2>1. CASE ApiLogin(u)
    <3>1. db.online \cup {u} \in SUBSET Users
      BY <1>0, <1>u DEF RestOK
    <3> QED
      BY <1>2, <2>1, <3>1 DEF ApiLogin, Commit
  <2>2. CASE ListUsers(u)
    BY <1>0, <2>2, PresenceRest DEF ListUsers, Api, Commit
  <2>3. ASSUME NEW id, db' = TakeInvites(db, u) \/ db' = AcceptInvite(db, u, id) PROVE RestOK(db')
    <3>1. InvitesOK(db'.invites)
      BY <1>0, <2>3, StatusRows DEF RestOK
    <3>2. db'.urls = db.urls /\ db'.online = db.online
      BY <1>0, <2>3 DEF TakeInvites, AcceptInvite, CleanInvites, IsDb, Fields
    <3> QED
      BY <1>0, <3>1, <3>2 DEF RestOK
  <2> QED
    BY <1>5, <2>1, <2>2, <2>3 DEF PollEvent, AcceptPopup, Api, Commit
<1>6. ASSUME NEW u \in Inviters, InviteStore(u) PROVE RestOK(db')
  <2>1. u \in Users /\ lookup[u] \in LookupType
    BY <1>u, <1>6 DEF InviteStore, TypesInv
  <2>2. RestOK(AddInvite(db, u, lookup[u].to, lookup[u].kind, lookup[u].session))
    BY <1>0, <2>1, AddInviteRest DEF LookupType
  <2> QED
    BY <1>0, <1>6, <2>2 DEF InviteStore, Commit
<1>7. ASSUME NEW u, NEW to, InviteLookup(u, to) PROVE RestOK(db')
  BY <1>1, <1>7 DEF InviteLookup, Api, Commit
<1>8. ASSUME Restart PROVE RestOK(db')
  BY <1>0, <1>8, PresenceRest DEF Restart, Commit
<1>9. ASSUME NEW u \in Hosts, NEW c \in NewClasses, CreateSession(u, c) PROVE RestOK(db')
  BY <1>0, <1>u, <1>9, CreateRest DEF CreateSession, Rmc, Commit
<1>10. ASSUME NEW u \in Users, NEW any, RegisterUrls(u, any) PROVE RestOK(db')
  <2>1. db.urls \cup {u} \in SUBSET Users /\ db.urls \ {u} \in SUBSET Users
    BY <1>0 DEF RestOK
  <2>2. \E x \in SUBSET Users : db' = [db EXCEPT !.urls = x]
    BY <1>10, <2>1 DEF RegisterUrls, Rmc, Commit
  <2> QED
    BY <1>2, <2>2
<1>11. ASSUME NEW s, NEW u, NEW v, NEW private, NEW c,
              \/ db' = LeaveGameSession(db, u, s) \/ db' = RemoveParticipants(db, s, v)
              \/ db' = AddParticipant(db, u, s, v, private)
              \/ db' = MigrateHost(db, u, s) \/ db' = RestoreSession(db, u, s)
              \/ db' = UpdateGameSession(db, s, c) \/ db' = Destroy(db, s)
       PROVE  RestOK(db')
  <2>1. ASSUME NEW x PROVE /\ SameRest(db, DeleteParticipant(db, s, x))
                           /\ SameRest(DeleteParticipant(db, s, x), Reconcile(DeleteParticipant(db, s, x), s))
    BY <1>0, RestFrame
  <2>2. SameRest(db, RemoveParticipants(db, s, v)) /\ SameRest(db, LeaveGameSession(db, u, s))
    BY <2>1 DEF SameRest, RemoveParticipants, LeaveGameSession
  <2>3. SameRest(db, AddParticipant(db, u, s, v, private))
    <3>1. SameRest(db, InsertParticipant(db, s, v)) /\ IsDb(InsertParticipant(db, s, v))
      BY <1>0 DEF SameRest, InsertParticipant, IsDb, Fields
    <3>2. SameRest(InsertParticipant(db, s, v), Reconcile(InsertParticipant(db, s, v), s))
      BY <3>1, RestFrame
    <3> QED
      BY <3>1, <3>2 DEF SameRest, AddParticipant
  <2>4. SameRest(db, db')
    BY <1>0, <1>11, <2>2, <2>3, RestFrame
  <2> QED
    BY <1>0, <2>4 DEF RestOK, SameRest
<1>12. ASSUME NEW u \in Users, NEW s \in Sessions(db),
              \/ JoinSession(u, s) \/ LeaveSession(u, s) \/ MigrateSession(u, s)
              \/ SplitSession(u, s) \/ DeleteSession(u, s)
       PROVE  RestOK(db')
  <2>1. CASE JoinSession(u, s)
    BY <1>0, <2>1, JoinRest DEF JoinSession, Rmc, Commit
  <2>2. CASE DeleteSession(u, s)
    BY <1>0, <2>2, DeleteRest DEF DeleteSession, Rmc, Commit
  <2>3. CASE LeaveSession(u, s) \/ MigrateSession(u, s) \/ SplitSession(u, s)
    BY <1>11, <2>3 DEF LeaveSession, MigrateSession, SplitSession, Rmc, Commit
  <2> QED
    BY <1>12, <2>1, <2>2, <2>3
<1>13. ASSUME NEW u, NEW s,
              \/ \E c \in SetClasses : UpdateSession(u, s, c)
              \/ \E v \in Users : RemoveFromSession(u, s, v)
              \/ \E v \in Users, private \in BOOLEAN : AddToSession(u, s, v, private)
       PROVE  RestOK(db')
  BY <1>11, <1>13 DEF UpdateSession, RemoveFromSession, AddToSession, Rmc, Commit
<1>14. ASSUME NEW s, AdminDeleteSession(s) PROVE RestOK(db')
  BY <1>11, <1>14 DEF AdminDeleteSession, Commit
<1>15. ASSUME NEW i \in db.invites, InviteExpires(i) PROVE RestOK(db')
  <2> DEFINE f == [j \in db.invites |-> IF j = i THEN [i EXCEPT !.expired = TRUE] ELSE j]
  <2>1. db'.invites = {f[j] : j \in db.invites} /\ db'.urls = db.urls /\ db'.online = db.online
    BY <1>0, <1>15 DEF InviteExpires, IsDb, Fields
  <2>2. \A j \in db.invites : /\ f[j] \in InviteType
                              /\ f[j].id = j.id /\ f[j].to = j.to /\ f[j].kind = j.kind
                              /\ Open(f[j]) => Open(j)
    BY <1>0 DEF RestOK, InvitesOK, InviteType, Open
  <2>3. f \in [db.invites -> InviteType]
    BY <2>2
  <2> HIDE DEF f
  <2>4. InvitesOK(db'.invites)
    BY <1>0, <2>1, <2>2, <2>3, ChangedRows DEF RestOK
  <2> QED
    BY <1>0, <2>1, <2>4 DEF RestOK
<1> QED
  BY <1>1, <1>3, <1>4, <1>5, <1>6, <1>7, <1>8, <1>9, <1>10, <1>12, <1>13, <1>14, <1>15, <1>u
     DEF Next, vars

LEMMA StepOthers ==
    ASSUME TypesInv, [Next]_vars
    PROVE  /\ tickets' \subseteq Users
           /\ conns' \in [Users -> Nat]
           /\ seen' \subseteq Users
           /\ lookup' \in [Users -> {None} \cup LookupType]
           /\ popup' \in [Users -> {None} \cup PopupType]
<1> DEFINE Others == <<tickets, conns, seen, lookup, popup>>
<1>0. Overlays \subseteq Users /\ Inviters \subseteq Users /\ Flaky \subseteq Users
  BY ClientsAssumption
<1>1. CASE UNCHANGED Others
  BY <1>1 DEF TypesInv
<1>2. ASSUME NEW u \in Users, Login(u) \/ Connect(u) \/ CloseConnection(u) \/ HeartbeatAges(u)
      PROVE  tickets' \subseteq Users /\ conns' \in [Users -> Nat] /\ seen' \subseteq Users
             /\ UNCHANGED <<lookup, popup>>
  <2>1. conns[u] \in Nat /\ conns[u] + 1 \in Nat /\ (conns[u] > 0 => conns[u] - 1 \in Nat)
    BY DEF TypesInv
  <2> QED
    BY <1>2, <2>1 DEF Login, Connect, CloseConnection, HeartbeatAges, LoggedIn, TypesInv
<1>3. ASSUME NEW u \in Users, ApiLogin(u) \/ ListUsers(u) \/ AcceptPopup(u)
      PROVE  UNCHANGED <<tickets, conns, lookup, popup>> /\ seen' \subseteq Users
  BY <1>3 DEF ApiLogin, ListUsers, AcceptPopup, Api, TypesInv
<1>4. ASSUME NEW u \in Users, PollEvent(u)
      PROVE  UNCHANGED <<tickets, conns, lookup>> /\ seen' \subseteq Users
             /\ popup' \in [Users -> {None} \cup PopupType]
  <2>1. Deliverable(db, u) \subseteq InviteType
    BY StatusRows DEF Deliverable, InvitesOK, TypesInv, StoreInv, HostInv, RestOK
  <2>2. \A i \in Deliverable(db, u) : [id |-> i.id, from |-> i.from, session |-> i.session] \in PopupType
    BY <2>1 DEF InviteType, PopupType
  <2> QED
    BY <1>4, <2>2 DEF PollEvent, Api, TypesInv
<1>5. ASSUME NEW u \in Users, NEW to \in Users, InviteLookup(u, to)
      PROVE  UNCHANGED <<tickets, conns, popup>> /\ seen' \subseteq Users
             /\ lookup' \in [Users -> {None} \cup LookupType]
  <2> DEFINE s   == Max(InviteTargets(u))
             new == [to |-> to, session |-> s, kind |-> InviteKind(db.sessions[s].class)]
  <2>1. InviteTargets(u) \in SUBSET Sessions(db) /\ InviteTargets(u) # {}
    BY <1>5 DEF InviteTargets, HostedBy, InviteLookup
  <2>2. s \in Nat
    BY <2>1, NewestSession DEF TypesInv, StoreInv
  <2>3. InviteKind(db.sessions[s].class) \in Manual
    BY DEF InviteKind, Manual
  <2>4. new \in LookupType /\ lookup' = [lookup EXCEPT ![u] = new]
    BY <1>5, <2>2, <2>3 DEF LookupType, InviteLookup
  <2> HIDE DEF new
  <2> QED
    BY <1>5, <2>4 DEF InviteLookup, Api, TypesInv
<1>6. ASSUME NEW u \in Users, InviteStore(u)
      PROVE  UNCHANGED <<tickets, conns, seen, popup>> /\ lookup' \in [Users -> {None} \cup LookupType]
  BY <1>6 DEF InviteStore, TypesInv
<1>7. ASSUME Restart
      PROVE  UNCHANGED <<tickets, seen, popup>> /\ conns' \in [Users -> Nat]
             /\ lookup' \in [Users -> {None} \cup LookupType]
  BY <1>7 DEF Restart
<1>8. ASSUME NEW u, NEW d, Rmc(u, d) PROVE UNCHANGED Others
  BY <1>8 DEF Rmc
<1>9. ASSUME NEW u, NEW s,
             \/ \E c : CreateSession(u, c) \/ UpdateSession(u, s, c)
             \/ \E any : RegisterUrls(u, any)
             \/ JoinSession(u, s) \/ LeaveSession(u, s) \/ MigrateSession(u, s)
             \/ SplitSession(u, s) \/ DeleteSession(u, s)
             \/ \E v : RemoveFromSession(u, s, v)
             \/ \E v, private : AddToSession(u, s, v, private)
      PROVE  UNCHANGED Others
  <2> HIDE DEF Others
  <2> QED
    BY <1>8, <1>9 DEF CreateSession, UpdateSession, RegisterUrls, JoinSession, LeaveSession,
       MigrateSession, SplitSession, DeleteSession, RemoveFromSession, AddToSession
<1>10. ASSUME NEW s, AdminDeleteSession(s) PROVE UNCHANGED Others
  BY <1>10 DEF AdminDeleteSession
<1>11. ASSUME NEW i, InviteExpires(i) PROVE UNCHANGED Others
  BY <1>11 DEF InviteExpires
<1>12. CASE UNCHANGED vars
  BY <1>12 DEF vars, TypesInv
<1> HIDE DEF Others
<1>13. CASE \/ \E u \in Users : Login(u) \/ Connect(u)
            \/ \E u \in Flaky : CloseConnection(u) \/ HeartbeatAges(u)
            \/ \E u \in Overlays : ApiLogin(u) \/ ListUsers(u) \/ PollEvent(u) \/ AcceptPopup(u)
            \/ \E u \in Inviters : InviteStore(u) \/ \E to \in Users : InviteLookup(u, to)
            \/ Restart
  BY <1>0, <1>2, <1>3, <1>4, <1>5, <1>6, <1>7, <1>13 DEF TypesInv
<1>14. CASE \/ \E u \in Hosts, c \in NewClasses : CreateSession(u, c)
            \/ \E u \in Users, any \in BOOLEAN : RegisterUrls(u, any)
            \/ \E u \in Users, s \in Sessions(db) :
                  \/ JoinSession(u, s) \/ LeaveSession(u, s) \/ MigrateSession(u, s)
                  \/ SplitSession(u, s) \/ DeleteSession(u, s)
            \/ \E u \in Managers, s \in Sessions(db) :
                  \/ \E c \in SetClasses : UpdateSession(u, s, c)
                  \/ \E v \in Users : RemoveFromSession(u, s, v)
                  \/ \E v \in Users, private \in BOOLEAN : AddToSession(u, s, v, private)
            \/ \E s \in Sessions(db) : AdminDeleteSession(s)
            \/ \E i \in db.invites : InviteExpires(i)
  BY <1>1, <1>9, <1>10, <1>11, <1>14
<1> QED
  BY <1>0, <1>12, <1>13, <1>14 DEF Next

LEMMA InitTypes == Init => TypesInv
<1> SUFFICES ASSUME Init PROVE TypesInv
  OBVIOUS
<1>1. /\ IsDb(db) /\ db.sessions = <<>> /\ db.parts = {} /\ db.urls = {} /\ db.online = {}
      /\ db.invites = {} /\ db.lastParty = 0
      /\ db.party = [u \in Users |-> NoParty] /\ db.member = [u \in Users |-> NoParty]
  BY DEF Init, EmptyDb, IsDb, Fields
<1>2. HostInv(db)
  BY <1>1 DEF HostInv, HostOK, Sessions
<1>3. PartyInv(db)
  BY <1>1, PartyColumns DEF NoParty
<1>4. RestOK(db)
  BY <1>1 DEF RestOK, InvitesOK
<1> QED
  BY <1>2, <1>3, <1>4 DEF Init, TypesInv, StoreInv

\* The tables refer to rows that exist, and the handlers keep what they hold of
\* them between two transactions, whatever the clients call.
THEOREM SpecTypes == Spec => []TypesInv
<1>1. TypesInv /\ [Next]_vars => TypesInv'
  <2> SUFFICES ASSUME TypesInv, [Next]_vars PROVE TypesInv'
    OBVIOUS
  <2>1. HostInv(db') /\ PartyInv(db')
    BY StepIsTransaction, TransactionHost, TransactionParty DEF TypesInv, StoreInv
  <2> QED
    BY <2>1, StepRest, StepOthers DEF TypesInv, StoreInv
<1> QED
  BY <1>1, InitTypes, PTL DEF Spec

\* The tables have their types, and refer to rows that exist: a participant to a
\* session, through every transaction of storage/mod.rs.
THEOREM TypesAreCorrect == Spec => []TypeOK
<1>1. TypesInv => TypeOK
  <2> SUFFICES ASSUME TypesInv PROVE TypeOK
    OBVIOUS
  <2>1. DOMAIN db = DOMAIN EmptyDb
    BY DEF TypesInv, StoreInv, HostInv, IsDb, Fields, EmptyDb
  <2> QED
    BY <2>1 DEF TypesInv, StoreInv, HostInv, HostOK, PartyInv, PartyOK, RestOK, InvitesOK,
       LookupType, PopupType, TypeOK
<1> QED
  BY <1>1, SpecTypes, PTL

\* A player has at most one open invitation in each lane, and the ids of
\* invitations are unique, though rows are deleted and their ids given again:
\* add_invite_async, queue_party_follow_invites_async and delete_game_session
\* clear the lane before they insert.
THEOREM OneInviteInEachLane == Spec => []OneInvitePerLane
<1>1. TypesInv => OneInvitePerLane
  BY DEF TypesInv, StoreInv, RestOK, InvitesOK, Open, SameLane, OneInvitePerLane
<1> QED
  BY <1>1, SpecTypes, PTL

-----------------------------------------------------------------------------
\* Players who are away.

SameMarks(d, e) == e.urls = d.urls /\ e.online = d.online

SamePresence(d, e) == IsDb(e) /\ e.parts = d.parts /\ SameMarks(d, e)

LEMMA InvitesPresence ==
    ASSUME NEW d, IsDb(d), NEW rows
    PROVE  SamePresence(d, [d EXCEPT !.invites = rows])
  BY DEF SamePresence, SameMarks, IsDb, Fields

\* The transactions that leave participants, endpoints and online marks alone.
LEMMA PresenceFrame ==
    ASSUME NEW d, IsDb(d), NEW u, NEW s, NEW c, NEW to, NEW kind, NEW id
    PROVE  /\ SamePresence(d, Reconcile(d, s)) /\ SamePresence(d, FollowIfRoom(d, u, s))
           /\ SamePresence(d, UpdateGameSession(d, s, c)) /\ SamePresence(d, MigrateHost(d, u, s))
           /\ SamePresence(d, Destroy(d, s)) /\ SamePresence(d, DeleteGameSession(d, u, s))
           /\ SamePresence(d, AddInvite(d, u, to, kind, s))
           /\ SamePresence(d, TakeInvites(d, u)) /\ SamePresence(d, AcceptInvite(d, u, id))
<1>0. SamePresence(d, d)
  BY DEF SamePresence, SameMarks
<1>1. /\ SamePresence(d, UpdateGameSession(d, s, c)) /\ SamePresence(d, MigrateHost(d, u, s))
      /\ SamePresence(d, Destroy(d, s))
  BY DEF SamePresence, SameMarks, UpdateGameSession, MigrateHost, Destroy, IsDb, Fields
<1>2. SamePresence(d, Reconcile(d, s))
  <2>1. Reconcile(d, s) \in {d, Destroy(d, s), [d EXCEPT !.sessions[s].creator = Min(Joined(d, s))]}
    BY DEF Reconcile
  <2>2. SamePresence(d, [d EXCEPT !.sessions[s].creator = Min(Joined(d, s))])
    BY DEF SamePresence, SameMarks, IsDb, Fields
  <2> QED
    BY <1>0, <1>1, <2>1, <2>2
<1>3. SamePresence(d, FollowIfRoom(d, u, s))
  <2>1. FollowIfRoom(d, u, s) \in {d, [d EXCEPT !.invites = FollowInvites(d, u, s)]}
    BY DEF FollowIfRoom, QueueFollow
  <2> QED
    BY <1>0, <2>1, InvitesPresence
<1>4. ASSUME NEW b, SamePresence(d, b), NEW x
      PROVE  LET p == EnsureParty(b, u)
             IN  SamePresence(d, p) /\ \A rows : SamePresence(d, [p EXCEPT !.invites = rows])
  <2> DEFINE p == EnsureParty(b, u)
  <2>1. SamePresence(b, p)
    BY <1>4, EnsurePartyFrame, RestFrame
       DEF SamePresence, SameMarks, SameSessions, SameRest
  <2> HIDE DEF p
  <2>2. ASSUME NEW rows PROVE SamePresence(d, [p EXCEPT !.invites = rows])
    <3>1. SamePresence(p, [p EXCEPT !.invites = rows])
      BY <2>1, InvitesPresence DEF SamePresence
    <3> QED
      BY <1>4, <2>1, <3>1 DEF SamePresence, SameMarks
  <2>3. SamePresence(d, p)
    BY <1>4, <2>1 DEF SamePresence, SameMarks
  <2> QED
    BY <2>2, <2>3 DEF p
<1>5. SamePresence(d, DeleteGameSession(d, u, s))
  <2>1. \/ DeleteGameSession(d, u, s) = Destroy(d, s)
        \/ \E rows : DeleteGameSession(d, u, s) = [EnsureParty(Destroy(d, s), u) EXCEPT !.invites = rows]
    BY DEF DeleteGameSession
  <2> QED
    BY <1>1, <1>4, <2>1
<1>6. SamePresence(d, AddInvite(d, u, to, kind, s))
  <2>1. \/ \E rows : AddInvite(d, u, to, kind, s) = [EnsureParty(d, u) EXCEPT !.invites = rows]
        \/ \E rows : AddInvite(d, u, to, kind, s) = [d EXCEPT !.invites = rows]
    BY DEF AddInvite
  <2> QED
    BY <1>0, <1>4, <2>1, InvitesPresence
<1>7. SamePresence(d, TakeInvites(d, u)) /\ SamePresence(d, AcceptInvite(d, u, id))
  <2>1. SamePresence(d, CleanInvites(d))
    BY InvitesPresence DEF CleanInvites
  <2>2. ASSUME NEW rows PROVE SamePresence(d, [CleanInvites(d) EXCEPT !.invites = rows])
    <3>1. SamePresence(CleanInvites(d), [CleanInvites(d) EXCEPT !.invites = rows])
      BY <2>1, InvitesPresence DEF SamePresence
    <3> QED
      BY <2>1, <3>1 DEF SamePresence, SameMarks
  <2> QED
    BY <2>2 DEF TakeInvites, AcceptInvite
<1> QED
  BY <1>1, <1>2, <1>3, <1>5, <1>6, <1>7

Enters(d, e, s, u) == SameMarks(d, e) /\ e.parts \in {d.parts, d.parts \cup {<<s, u>>}}
Leaves(d, e, s, u) == SameMarks(d, e) /\ e.parts \in {d.parts, d.parts \ {<<s, u>>}}

\* The others move one user in or out of one session.
LEMMA PresenceMoves ==
    ASSUME NEW d, IsDb(d), NEW u, NEW s, NEW c, NEW v, NEW private
    PROVE  /\ Enters(d, CreateGameSession(d, u, c), Len(d.sessions) + 1, u)
           /\ Enters(d, JoinGameSession(d, u, s), s, u)
           /\ Enters(d, RestoreSession(d, u, s), s, u)
           /\ Enters(d, AddParticipant(d, u, s, v, private), s, v)
           /\ Leaves(d, LeaveGameSession(d, u, s), s, u)
           /\ Leaves(d, RemoveParticipants(d, s, v), s, v)
<1>1. ASSUME NEW b, IsDb(b), SameMarks(d, b), b.parts = d.parts, NEW x, NEW t
      PROVE  LET e == InsertParticipant(b, t, x)
             IN  IsDb(e) /\ SameMarks(d, e) /\ e.parts = d.parts \cup {<<t, x>>}
  BY <1>1 DEF InsertParticipant, SameMarks, IsDb, Fields
<1>2. ASSUME NEW b, IsDb(b), SameMarks(d, b), NEW x, NEW t
      PROVE  /\ SameMarks(d, FollowIfRoom(b, x, t)) /\ FollowIfRoom(b, x, t).parts = b.parts
             /\ SameMarks(d, Reconcile(b, t)) /\ Reconcile(b, t).parts = b.parts
  BY <1>2, PresenceFrame DEF SamePresence, SameMarks
<1>3. Enters(d, CreateGameSession(d, u, c), Len(d.sessions) + 1, u)
  <2> DEFINE n == Len(d.sessions) + 1
             i == [d EXCEPT !.sessions = Append(@, [creator |-> u, class |-> c, live |-> TRUE])]
             p == InsertParticipant(i, n, u)
  <2>1. IsDb(i) /\ SameMarks(d, i) /\ i.parts = d.parts
    BY DEF SameMarks, IsDb, Fields
  <2> HIDE DEF i, n
  <2>2. IsDb(p) /\ SameMarks(d, p) /\ p.parts = d.parts \cup {<<n, u>>}
    BY <1>1, <2>1
  <2> HIDE DEF p
  <2>3. SameMarks(d, FollowIfRoom(p, u, n)) /\ FollowIfRoom(p, u, n).parts = p.parts
    BY <1>2, <2>2
  <2>4. CreateGameSession(d, u, c) = FollowIfRoom(p, u, n)
    BY DEF CreateGameSession, p, i, n
  <2> QED
    BY <2>2, <2>3, <2>4 DEF Enters, n
<1>4. Enters(d, JoinGameSession(d, u, s), s, u)
  <2> DEFINE joined   == InsertParticipant(d, s, u)
             entered  == EnterParty(joined, u, InvitedParty(d, u, s))
             consumed == ConsumeAccepted(entered, u, s)
  <2>1. IsDb(joined) /\ SameMarks(d, joined) /\ joined.parts = d.parts \cup {<<s, u>>}
    BY <1>1 DEF SameMarks
  <2> HIDE DEF joined
  <2>2. IsDb(entered) /\ SameMarks(d, entered) /\ entered.parts = joined.parts
    BY <2>1, EnterPartyFrame, RestFrame DEF SameSessions, SameRest, SameMarks
  <2> HIDE DEF entered
  <2>3. IsDb(consumed) /\ SameMarks(d, consumed) /\ consumed.parts = entered.parts
    BY <2>2, InvitesPresence DEF ConsumeAccepted, SamePresence, SameMarks
  <2> HIDE DEF consumed
  <2>4. SameMarks(d, FollowIfRoom(consumed, u, s)) /\ FollowIfRoom(consumed, u, s).parts = consumed.parts
    BY <1>2, <2>3
  <2>5. JoinGameSession(d, u, s) = FollowIfRoom(consumed, u, s)
    BY DEF JoinGameSession, consumed, entered, joined
  <2> QED
    BY <2>1, <2>2, <2>3, <2>4, <2>5 DEF Enters
<1>5. Enters(d, RestoreSession(d, u, s), s, u)
  BY DEF RestoreSession, InsertParticipant, Enters, SameMarks, IsDb, Fields
<1>6. Enters(d, AddParticipant(d, u, s, v, private), s, v)
  <2> DEFINE i == InsertParticipant(d, s, v)
  <2>1. IsDb(i) /\ SameMarks(d, i) /\ i.parts = d.parts \cup {<<s, v>>}
    BY <1>1 DEF SameMarks
  <2> HIDE DEF i
  <2>2. SameMarks(d, Reconcile(i, s)) /\ Reconcile(i, s).parts = i.parts
    BY <1>2, <2>1
  <2>3. AddParticipant(d, u, s, v, private) \in {d, Reconcile(i, s)}
    BY DEF AddParticipant, i
  <2> QED
    BY <2>1, <2>2, <2>3 DEF Enters, SameMarks
<1>7. ASSUME NEW x
      PROVE  LET e == Reconcile(DeleteParticipant(d, s, x), s)
             IN  SameMarks(d, e) /\ e.parts = d.parts \ {<<s, x>>}
  <2> DEFINE after == [d EXCEPT !.parts = @ \ {<<s, x>>}]
             e     == DeleteParticipant(d, s, x)
  <2>1. IsDb(after) /\ after.parts = d.parts \ {<<s, x>>}
    BY DEF IsDb, Fields
  <2>2. e \in {after, LeaveParties(after, {x})}
    BY DEF DeleteParticipant
  <2> HIDE DEF after
  <2>3. e.parts = d.parts \ {<<s, x>>}
    BY <2>1, <2>2, LeavePartiesFrame DEF SameSessions
  <2>4. IsDb(e) /\ SameMarks(d, e)
    BY RestFrame DEF SameRest, SameMarks
  <2> HIDE DEF e
  <2>5. SameMarks(d, Reconcile(e, s)) /\ Reconcile(e, s).parts = e.parts
    BY <1>2, <2>4
  <2> QED
    BY <2>3, <2>5 DEF e
<1>8. Leaves(d, LeaveGameSession(d, u, s), s, u) /\ Leaves(d, RemoveParticipants(d, s, v), s, v)
  BY <1>7 DEF LeaveGameSession, RemoveParticipants, Leaves, SameMarks
<1> QED
  BY <1>3, <1>4, <1>5, <1>6, <1>8

\* Nobody goes, neither out of a session nor out of those that are heard or marked,
\* and nobody comes.
NobodyMoves ==
    /\ db'.parts = db.parts /\ db'.urls = db.urls
    /\ db.online \subseteq db'.online /\ seen \subseteq seen'

Comes(s, v) ==
    \/ \E c \in NewClasses : CreateSession(v, c) /\ Enters(db, db', s, v)
    \/ (JoinSession(v, s) \/ SplitSession(v, s)) /\ s \in Sessions(db) /\ Enters(db, db', s, v)
    \/ /\ \E u \in Managers, private \in BOOLEAN : AddToSession(u, s, v, private)
       /\ s \in Sessions(db) /\ Enters(db, db', s, v)

Goes(s, v) == GivesPlaceUp(s, v) /\ Leaves(db, db', s, v)

\* What a step does to the places of the players and their marks.
LEMMA StepPresence ==
    ASSUME TypesInv, [Next]_vars
    PROVE  \/ NobodyMoves
           \/ \E v \in Users : \E s : (Comes(s, v) \/ Goes(s, v)) /\ seen' = seen
           \/ \E v \in Users, any \in BOOLEAN : RegisterUrls(v, any)
           \/ \E v \in Users : HeartbeatAges(v) \/ CloseConnection(v) \/ ListUsers(v)
           \/ Restart
<1> DEFINE Goal ==
           \/ NobodyMoves
           \/ \E v \in Users : \E s : (Comes(s, v) \/ Goes(s, v)) /\ seen' = seen
           \/ \E v \in Users, any \in BOOLEAN : RegisterUrls(v, any)
           \/ \E v \in Users : HeartbeatAges(v) \/ CloseConnection(v) \/ ListUsers(v)
           \/ Restart
<1>0. IsDb(db)
  BY DEF TypesInv, StoreInv, HostInv
<1>u. Hosts \subseteq Users /\ Managers \subseteq Users /\ Inviters \subseteq Users
      /\ Overlays \subseteq Users /\ Flaky \subseteq Users
  BY ClientsAssumption
<1>1. ASSUME SamePresence(db, db'), seen \subseteq seen' PROVE NobodyMoves
  BY <1>1 DEF NobodyMoves, SamePresence, SameMarks
<1>2. CASE UNCHANGED vars
  BY <1>2 DEF vars, NobodyMoves
<1>3. ASSUME NEW u, Login(u) \/ Connect(u) \/ ApiLogin(u) PROVE NobodyMoves
  BY <1>0, <1>3 DEF Login, Connect, ApiLogin, Commit, NobodyMoves, IsDb, Fields
<1>4. ASSUME NEW u, \/ PollEvent(u) \/ AcceptPopup(u) \/ InviteStore(u)
                    \/ \E to : InviteLookup(u, to)
      PROVE  NobodyMoves
  <2>1. SamePresence(db, db)
    BY <1>0 DEF SamePresence, SameMarks
  <2> QED
    BY <1>0, <1>1, <1>4, <2>1, PresenceFrame
       DEF PollEvent, AcceptPopup, InviteStore, InviteLookup, Api, Commit
<1>5. ASSUME NEW u, NEW s, \/ \E c : UpdateSession(u, s, c)
                           \/ MigrateSession(u, s) \/ DeleteSession(u, s)
                           \/ AdminDeleteSession(s)
      PROVE  NobodyMoves
  BY <1>0, <1>1, <1>5, PresenceFrame
     DEF UpdateSession, MigrateSession, DeleteSession, AdminDeleteSession, Rmc, Commit
<1>6. ASSUME NEW i, InviteExpires(i) PROVE NobodyMoves
  BY <1>0, <1>1, <1>6, InvitesPresence DEF InviteExpires
<1>7. ASSUME NEW u \in Hosts, NEW c \in NewClasses, CreateSession(u, c) PROVE Goal
  <2>1. Comes(Len(db.sessions) + 1, u) /\ seen' = seen
    BY <1>0, <1>7, PresenceMoves DEF Comes, CreateSession, Rmc, Commit
  <2> QED
    BY <1>u, <2>1
<1>8. ASSUME NEW u \in Users, NEW s \in Sessions(db),
             JoinSession(u, s) \/ LeaveSession(u, s) \/ SplitSession(u, s)
      PROVE  Goal
  <2>1. CASE JoinSession(u, s)
    <3>1. Comes(s, u) /\ seen' = seen
      BY <1>0, <2>1, PresenceMoves DEF Comes, JoinSession, Rmc, Commit
    <3> QED  BY <3>1
  <2>2. CASE LeaveSession(u, s)
    <3>1. Goes(s, u) /\ seen' = seen
      BY <1>0, <2>2, PresenceMoves DEF Goes, GivesPlaceUp, LeaveSession, Rmc, Commit
    <3> QED  BY <3>1
  <2>3. CASE SplitSession(u, s) /\ ~MigrateSession(u, s)
    <3>1. Enters(db, db', s, u) /\ seen' = seen
      BY <1>0, <2>3, PresenceMoves DEF SplitSession, Rmc, Commit
    <3>2. Comes(s, u)
      BY <2>3, <3>1 DEF Comes
    <3> QED  BY <3>1, <3>2
  <2> QED
    BY <1>5, <1>8, <2>1, <2>2, <2>3
<1>9. ASSUME NEW u \in Managers, NEW s \in Sessions(db), NEW v \in Users, RemoveFromSession(u, s, v)
      PROVE  Goal
  <2>1. Goes(s, v) /\ seen' = seen
    BY <1>0, <1>9, PresenceMoves DEF Goes, GivesPlaceUp, RemoveFromSession, Rmc, Commit
  <2> QED  BY <2>1
<1>10. ASSUME NEW u \in Managers, NEW s \in Sessions(db), NEW v \in Users, NEW private \in BOOLEAN,
              AddToSession(u, s, v, private)
      PROVE  Goal
  <2>1. Enters(db, db', s, v) /\ seen' = seen
    BY <1>0, <1>10, PresenceMoves DEF AddToSession, Rmc, Commit
  <2>2. Comes(s, v)
    BY <1>10, <2>1 DEF Comes
  <2> QED  BY <2>1, <2>2
<1>11. ASSUME NEW u \in Users, RegisterUrls(u, TRUE) \/ RegisterUrls(u, FALSE) PROVE Goal
  BY <1>11
<1>12. ASSUME NEW u \in Users, HeartbeatAges(u) \/ CloseConnection(u) \/ ListUsers(u) PROVE Goal
  BY <1>12
<1>13. CASE \/ \E u \in Users : Login(u) \/ Connect(u)
            \/ \E u \in Flaky : CloseConnection(u) \/ HeartbeatAges(u)
            \/ \E u \in Overlays : ApiLogin(u) \/ ListUsers(u) \/ PollEvent(u) \/ AcceptPopup(u)
            \/ \E u \in Inviters : InviteStore(u) \/ \E to \in Users : InviteLookup(u, to)
            \/ Restart
  BY <1>u, <1>3, <1>4, <1>12, <1>13
<1>14. CASE \/ \E u \in Hosts, c \in NewClasses : CreateSession(u, c)
            \/ \E u \in Users : RegisterUrls(u, TRUE)
            \/ \E u \in Flaky : RegisterUrls(u, FALSE)
            \/ \E u \in Users, s \in Sessions(db) :
                  \/ JoinSession(u, s) \/ LeaveSession(u, s) \/ MigrateSession(u, s)
                  \/ SplitSession(u, s) \/ DeleteSession(u, s)
  BY <1>u, <1>5, <1>7, <1>8, <1>11, <1>14
<1>15. CASE \/ \E u \in Managers, s \in Sessions(db) :
                  \/ \E c \in SetClasses : UpdateSession(u, s, c)
                  \/ \E v \in Users : RemoveFromSession(u, s, v)
                  \/ \E v \in Users, private \in BOOLEAN : AddToSession(u, s, v, private)
            \/ \E s \in Sessions(db) : AdminDeleteSession(s)
            \/ \E i \in db.invites : InviteExpires(i)
  BY <1>5, <1>6, <1>9, <1>10, <1>15
<1> HIDE DEF Goal
<1>16. Goal
  BY <1>2, <1>13, <1>14, <1>15 DEF Next, Goal
<1> QED
  BY <1>16 DEF Goal

\* What the end of a secure connection and the sweep leave (close_secure_session,
\* cleanup_stale_api_sessions_async).
LEMMA SweepPresence ==
    ASSUME TypesInv, NEW u
    PROVE  /\ CloseConnection(u) =>
                LET gone == IF u \in seen THEN {} ELSE {u}
                IN  /\ db'.parts = {p \in db.parts : p[2] \notin gone}
                    /\ db'.urls = db.urls \ gone /\ db'.online = db.online \ {u} /\ seen' = seen
           /\ ListUsers(u) =>
                LET gone == StaleUsers(db, seen \cup {u})
                IN  /\ db'.parts = {p \in db.parts : p[2] \notin gone}
                    /\ db'.urls = db.urls \ gone /\ db'.online = db.online \ gone
                    /\ seen' = seen \cup {u}
<1>0. IsDb(db)
  BY DEF TypesInv, StoreInv, HostInv
<1>1. ASSUME CloseConnection(u), u \in seen
      PROVE  db'.parts = db.parts /\ db'.urls = db.urls /\ db'.online = db.online \ {u} /\ seen' = seen
  BY <1>0, <1>1 DEF CloseConnection, Commit, CloseSecureSession, IsDb, Fields
<1>2. ASSUME CloseConnection(u), u \notin seen
      PROVE  /\ db'.parts = {p \in db.parts : p[2] \notin {u}}
             /\ db'.urls = db.urls \ {u} /\ db'.online = db.online \ {u} /\ seen' = seen
  BY <1>0, <1>2, CleanupColumns DEF CloseConnection, Commit, CloseSecureSession
<1>3. ASSUME ListUsers(u)
      PROVE  LET gone == StaleUsers(db, seen \cup {u})
             IN  /\ db'.parts = {p \in db.parts : p[2] \notin gone}
                 /\ db'.urls = db.urls \ gone /\ db'.online = db.online \ gone
                 /\ seen' = seen \cup {u}
  <2> DEFINE gone == StaleUsers(db, seen \cup {u})
  <2>1. db' = CleanupUsers(db, gone) /\ seen' = seen \cup {u}
    BY <1>3 DEF ListUsers, Api, Commit
  <2> QED
    BY <1>0, <2>1, CleanupColumns
<1> QED
  BY <1>1, <1>2, <1>3

\* Whoever is heard or marked keeps its places and its endpoint, whatever others do
\* and whichever of its two signals stops (close_secure_session,
\* cleanup_stale_api_sessions_async).
THEOREM PresentKeepTheirRooms == Spec => PresenceKeepsRooms
<1> DEFINE Step == \A v \in seen \cup db.online :
          LET lost == v \notin seen /\ CloseConnection(v)
          IN  /\ \A s \in Sessions(db) :
                    v \in Joined(db, s) \ Joined(db', s) => GivesPlaceUp(s, v) \/ lost
              /\ v \in db.urls \ db'.urls => RegisterUrls(v, FALSE) \/ Restart \/ lost
<1>1. TypesInv /\ [Next]_vars => [Step]_vars
  <2> SUFFICES ASSUME TypesInv, [Next]_vars, NEW v \in seen \cup db.online
               PROVE  LET lost == v \notin seen /\ CloseConnection(v)
                      IN  /\ \A s \in Sessions(db) :
                                v \in Joined(db, s) \ Joined(db', s) => GivesPlaceUp(s, v) \/ lost
                          /\ v \in db.urls \ db'.urls => RegisterUrls(v, FALSE) \/ Restart \/ lost
    OBVIOUS
  <2> DEFINE lost  == v \notin seen /\ CloseConnection(v)
             Stays == \A s \in Sessions(db) :
                          v \in Joined(db, s) \ Joined(db', s) => GivesPlaceUp(s, v) \/ lost
             Known == v \in db.urls \ db'.urls => RegisterUrls(v, FALSE) \/ Restart \/ lost
  <2>0. IsDb(db) /\ db.parts \subseteq Sessions(db) \X Users
    BY DEF TypesInv, StoreInv, HostInv, HostOK
  <2>1. CASE NobodyMoves
    BY <2>1 DEF NobodyMoves, Joined
  <2>2. ASSUME NEW w, NEW t, Comes(t, w) PROVE Stays /\ Known
    <3>1. db'.urls = db.urls /\ db.parts \subseteq db'.parts
      BY <2>2 DEF Comes, Enters, SameMarks
    <3> QED  BY <3>1 DEF Joined
  <2>3. ASSUME NEW w, NEW t, Goes(t, w) PROVE Stays /\ Known
    <3>1. db'.urls = db.urls /\ db.parts \subseteq db'.parts \cup {<<t, w>>} /\ GivesPlaceUp(t, w)
      BY <2>3 DEF Goes, Leaves, SameMarks
    <3>2. ASSUME NEW s, v \in Joined(db, s) \ Joined(db', s) PROVE s = t /\ v = w
      BY <3>1, <3>2 DEF Joined
    <3> QED  BY <3>1, <3>2
  <2>4. ASSUME NEW w, NEW any \in BOOLEAN, RegisterUrls(w, any) PROVE Stays /\ Known
    <3>1. /\ db'.parts = db.parts
          /\ db'.urls = IF any THEN db.urls \cup {w} ELSE db.urls \ {w}
      BY <2>0, <2>4 DEF RegisterUrls, Rmc, Commit, IsDb, Fields
    <3>2. CASE any
      BY <3>1, <3>2 DEF Joined
    <3>3. CASE ~any
      <4>1. any = FALSE
        BY <3>3
      <4> QED  BY <2>4, <3>1, <4>1 DEF Joined
    <3> QED  BY <3>2, <3>3
  <2>5. ASSUME NEW w, HeartbeatAges(w) PROVE Stays /\ Known
    BY <2>5 DEF HeartbeatAges, Joined
  <2>6. ASSUME NEW w, CloseConnection(w) PROVE Stays /\ Known
    <3> DEFINE gone == IF w \in seen THEN {} ELSE {w}
    <3>1. db'.parts = {p \in db.parts : p[2] \notin gone} /\ db'.urls = db.urls \ gone
      BY <2>6, SweepPresence
    <3>2. v \in gone => lost
      BY <2>6
    <3> HIDE DEF gone
    <3>3. v \notin gone => Stays /\ Known
      BY <3>1 DEF Joined
    <3> QED  BY <3>2, <3>3
  <2>7. ASSUME NEW w, ListUsers(w) PROVE Stays /\ Known
    <3> DEFINE gone == StaleUsers(db, seen \cup {w})
    <3>1. db'.parts = {p \in db.parts : p[2] \notin gone} /\ db'.urls = db.urls \ gone
      BY <2>7, SweepPresence
    <3>2. v \notin gone
      BY DEF StaleUsers
    <3> HIDE DEF gone
    <3> QED  BY <3>1, <3>2 DEF Joined
  <2>8. CASE Restart
    <3>1. db'.parts = db.parts
      BY <2>0, <2>8 DEF Restart, Commit, InvalidateSessions, IsDb, Fields
    <3> QED  BY <2>8, <3>1 DEF Joined
  <2> HIDE DEF Stays, Known
  <2>9. Stays /\ Known
    <3>1. CASE NobodyMoves
      BY <2>1, <3>1 DEF Stays, Known
    <3>2. CASE Restart
      BY <2>8, <3>2 DEF Stays, Known
    <3> QED
      BY <2>2, <2>3, <2>4, <2>5, <2>6, <2>7, <3>1, <3>2, StepPresence
  <2> QED
    BY <2>9 DEF Stays, Known
<1>2. PresenceKeepsRooms <=> [][Step]_vars
  BY DEF PresenceKeepsRooms
<1> QED
  BY <1>1, <1>2, SpecTypes, PTL DEF Spec

\* Nobody is left behind as offline in a session by the end of a connection, in
\* whatever order connection and overlay stop; a sweep leaves nobody there
\* (close_secure_session, cleanup_stale_api_sessions_async).
THEOREM TheAbsentAreSwept == Spec => AbsentAreSwept
<1> DEFINE May(v) == \/ HeartbeatAges(v) \/ Restart
                     \/ ReturnsUnmarked(v)
                     \/ \E u \in Managers, s \in Sessions(db), private \in BOOLEAN :
                            AddToSession(u, s, v, private)
           Step == \A v \in Users :
          /\ \A u \in Overlays : ListUsers(u) => ~LeftBehind(v)'
          /\ ~LeftBehind(v) /\ LeftBehind(v)' => May(v)
<1>1. TypesInv /\ [Next]_vars => [Step]_vars
  <2> SUFFICES ASSUME TypesInv, [Next]_vars, NEW v \in Users
               PROVE  /\ \A u \in Overlays : ListUsers(u) => ~LeftBehind(v)'
                      /\ ~LeftBehind(v) /\ LeftBehind(v)' => May(v)
    OBVIOUS
  <2>0. IsDb(db) /\ db.parts \subseteq Sessions(db) \X Users
    BY DEF TypesInv, StoreInv, HostInv, HostOK
  <2>p. db'.parts \subseteq Sessions(db') \X Users
    BY StepIsTransaction, TransactionHost DEF TypesInv, StoreInv, HostInv, HostOK
  <2> DEFINE Placed(d) == v \in d.urls \/ \E s : <<s, v>> \in d.parts
  <2>b. /\ LeftBehind(v) <=> v \notin db.online /\ v \notin seen /\ Placed(db)
        /\ LeftBehind(v)' <=> v \notin db'.online /\ v \notin seen' /\ Placed(db')
    <3>1. /\ (\E s \in Sessions(db) : v \in Joined(db, s)) <=> \E s : <<s, v>> \in db.parts
          /\ (\E s \in Sessions(db') : v \in Joined(db', s)) <=> \E s : <<s, v>> \in db'.parts
      BY <2>0, <2>p DEF Joined
    <3> QED  BY <3>1 DEF LeftBehind, ShownOnline
  <2>1. ASSUME NEW u, ListUsers(u) PROVE ~LeftBehind(v)'
    <3> DEFINE gone == StaleUsers(db, seen \cup {u})
    <3>1. /\ db'.parts = {p \in db.parts : p[2] \notin gone} /\ db'.urls = db.urls \ gone
          /\ db'.online = db.online \ gone /\ seen' = seen \cup {u}
      BY <2>1, SweepPresence
    <3>2. \A w \in gone : w \notin db.online
      BY DEF StaleUsers
    <3>3. v \in gone \/ v \in db.online \/ v \in seen \cup {u} \/ ~Placed(db)
      <4>1. (\E s : <<s, v>> \in db.parts) => \E p \in db.parts : p[2] = v
        OBVIOUS
      <4> QED  BY <4>1 DEF StaleUsers
    <3> HIDE DEF gone
    <3> QED  BY <2>b, <3>1, <3>2, <3>3
  <2>2. SUFFICES ASSUME ~LeftBehind(v), LeftBehind(v)' PROVE May(v)
    BY <2>1
  <2>n. v \notin db'.online /\ v \notin seen' /\ Placed(db')
    BY <2>2, <2>b
  <2> HIDE DEF May, LeftBehind
  <2>3. ASSUME v \notin db.online, v \notin seen PROVE ~Placed(db)
    BY <2>2, <2>b, <2>3
  <2>4. ~NobodyMoves
    BY <2>n, <2>3 DEF NobodyMoves
  <2>5. ASSUME NEW w, NEW t, Goes(t, w) PROVE seen' # seen
    BY <2>n, <2>3, <2>5 DEF Goes, Leaves, SameMarks
  <2>6. ASSUME NEW w, NEW t, Comes(t, w), seen' = seen PROVE May(v)
    <3>1. Enters(db, db', t, w) /\ v \notin db.online /\ v \notin seen
      BY <2>n, <2>6 DEF Comes, Enters, SameMarks
    <3>2. v = w
      BY <2>n, <2>3, <3>1 DEF Enters, SameMarks
    <3> QED
      BY <2>6, <3>1, <3>2 DEF Comes, May, ReturnsUnmarked
  <2>7. ASSUME NEW w, NEW any \in BOOLEAN, RegisterUrls(w, any) PROVE May(v)
    <3>1. /\ db'.parts = db.parts /\ db'.online = db.online /\ seen' = seen
          /\ db'.urls = IF any THEN db.urls \cup {w} ELSE db.urls \ {w}
      BY <2>0, <2>7 DEF RegisterUrls, Rmc, Commit, IsDb, Fields
    <3>2. any = TRUE /\ v = w
      BY <2>n, <2>3, <3>1
    <3> QED
      BY <2>n, <2>7, <3>1, <3>2 DEF May, ReturnsUnmarked
  <2>8. ASSUME NEW w, HeartbeatAges(w) PROVE May(v)
    <3>1. db' = db /\ seen' = seen \ {w}
      BY <2>8 DEF HeartbeatAges
    <3>2. v = w
      BY <2>n, <2>3, <3>1
    <3> QED  BY <2>8, <3>2 DEF May
  <2>9. ASSUME NEW w PROVE ~CloseConnection(w)
    <3> SUFFICES ASSUME CloseConnection(w) PROVE FALSE
      OBVIOUS
    <3> DEFINE gone == IF w \in seen THEN {} ELSE {w}
    <3>1. /\ db'.parts = {p \in db.parts : p[2] \notin gone} /\ db'.urls = db.urls \ gone
          /\ db'.online = db.online \ {w} /\ seen' = seen
      BY SweepPresence
    <3>2. gone \in {{}, {w}} /\ (v = w => v \in gone)
      BY <2>n, <3>1
    <3> HIDE DEF gone
    <3>3. v \notin gone
      BY <2>n, <3>1
    <3>4. v \notin db.online /\ v \notin seen /\ Placed(db)
      BY <2>n, <3>1, <3>2, <3>3
    <3> QED  BY <2>3, <3>4
  <2> QED
    BY <2>1, <2>2, <2>4, <2>5, <2>6, <2>7, <2>8, <2>9, StepPresence DEF May
<1>2. AbsentAreSwept <=> [][Step]_vars
  BY DEF AbsentAreSwept
<1> QED
  BY <1>1, <1>2, SpecTypes, PTL DEF Spec

-----------------------------------------------------------------------------
\* Joins and invitations.

\* What join_game_session_unbounded hands to queue_party_follow_invites_async.
LEMMA JoinParts ==
    ASSUME NEW d, IsDb(d), NEW u, NEW s
    PROVE  \E c : /\ JoinGameSession(d, u, s) = FollowIfRoom(c, u, s)
                  /\ IsDb(c) /\ c.sessions = d.sessions /\ c.parts = d.parts \cup {<<s, u>>}
                  /\ \A i \in c.invites : ~(i.to = u /\ i.session = s /\ Accepted(i))
<1> DEFINE joined   == InsertParticipant(d, s, u)
           entered  == EnterParty(joined, u, InvitedParty(d, u, s))
           consumed == ConsumeAccepted(entered, u, s)
<1>1. IsDb(joined) /\ joined.sessions = d.sessions /\ joined.parts = d.parts \cup {<<s, u>>}
  BY DEF InsertParticipant, IsDb, Fields
<1> HIDE DEF joined
<1>2. IsDb(entered) /\ entered.sessions = d.sessions /\ entered.parts = joined.parts
  BY <1>1, EnterPartyFrame DEF SameSessions
<1> HIDE DEF entered
<1>3. /\ IsDb(consumed) /\ consumed.sessions = d.sessions /\ consumed.parts = entered.parts
      /\ consumed.invites = {IF i.to = u /\ i.session = s /\ Accepted(i)
                             THEN [i EXCEPT !.status = "consumed"] ELSE i : i \in entered.invites}
  BY <1>2 DEF ConsumeAccepted, IsDb, Fields
<1>4. ASSUME NEW i
      PROVE  LET j == IF i.to = u /\ i.session = s /\ Accepted(i)
                      THEN [i EXCEPT !.status = "consumed"] ELSE i
             IN  ~(j.to = u /\ j.session = s /\ Accepted(j))
  <2>1. CASE i.to = u /\ i.session = s /\ Accepted(i)
    <3>1. [i EXCEPT !.status = "consumed"].status # "accepted"
      BY DEF Accepted
    <3> QED
      BY <2>1, <3>1 DEF Accepted
  <2>2. CASE ~(i.to = u /\ i.session = s /\ Accepted(i))
    BY <2>2
  <2> QED
    BY <2>1, <2>2
<1>5. \A i \in consumed.invites : ~(i.to = u /\ i.session = s /\ Accepted(i))
  BY <1>3, <1>4
<1>6. JoinGameSession(d, u, s) = FollowIfRoom(consumed, u, s)
  BY DEF JoinGameSession, joined, entered
<1> QED
  BY <1>1, <1>2, <1>3, <1>5, <1>6

\* The rows that queue_party_follow_invites_async leaves or makes.
LEMMA FollowEffect ==
    ASSUME NEW d, NEW u, NEW s
    PROVE  /\ \A i \in FollowInvites(d, u, s) : i \in d.invites \/ i.status = "pending"
           /\ \A v \in Users \ {u} : d.member[v] = d.party[u] =>
                 \E i \in FollowInvites(d, u, s) : i.to = v /\ FollowsSession(d, i, u, s)
<1> DEFINE members == {v \in Users : v # u /\ d.member[v] = d.party[u]}
           invited == {v \in members :
                          \A i \in d.invites : ~(i.to = v /\ FollowsSession(d, i, u, s))}
           kept(users) == {i \in d.invites : \A v \in users : ~StaleFollow(d, i, v, u, s)}
           all  == kept(members)
           base == NextRowId(kept({v \in members : v <= Min(invited)}))
           new(v) == NewInvite(base + Rank(v, invited) - 1, u, v, "follow", s, d.party[u])
<1>1. FollowInvites(d, u, s) = all \cup {new(v) : v \in invited}
  BY DEF FollowInvites
<1>2. \A v : /\ new(v).status = "pending" /\ new(v).to = v
             /\ FollowsSession(d, new(v), u, s)
  BY DEF NewInvite, FollowsSession
<1> HIDE DEF new
<1>3. ASSUME NEW v \in members PROVE \E i \in all \cup {new(w) : w \in invited} :
                                         i.to = v /\ FollowsSession(d, i, u, s)
  <2>1. CASE v \in invited
    BY <1>2, <2>1
  <2>2. CASE v \notin invited
    <3>1. PICK i \in d.invites : i.to = v /\ FollowsSession(d, i, u, s)
      BY <2>2
    <3>2. i \in all
      BY <3>1 DEF StaleFollow
    <3> QED
      BY <3>1, <3>2
  <2> QED
    BY <2>1, <2>2
<1> QED
  BY <1>1, <1>2, <1>3

\* A join uses up the accepted invitations that it answers
\* (join_game_session_unbounded), and what it sends to the party is not accepted.
THEOREM JoinsAnswerInvites == Spec => JoinAnswersInvites
<1> DEFINE Step == \A u \in Users, s \in Sessions(db) : JoinSession(u, s) =>
                      ~\E i \in db'.invites : i.to = u /\ i.session = s /\ Accepted(i)
<1>1. TypesInv => [Step]_vars
  <2> SUFFICES ASSUME TypesInv, NEW u \in Users, NEW s \in Sessions(db), JoinSession(u, s),
                      NEW i \in db'.invites
               PROVE  ~(i.to = u /\ i.session = s /\ Accepted(i))
    OBVIOUS
  <2>1. IsDb(db) /\ db' = JoinGameSession(db, u, s)
    BY DEF TypesInv, StoreInv, HostInv, JoinSession, Rmc, Commit
  <2>2. PICK c : /\ db' = FollowIfRoom(c, u, s) /\ IsDb(c)
                 /\ \A j \in c.invites : ~(j.to = u /\ j.session = s /\ Accepted(j))
    BY <2>1, JoinParts
  <2>3. db'.invites \in {c.invites, FollowInvites(c, u, s)}
    BY <2>2 DEF FollowIfRoom, QueueFollow, IsDb, Fields
  <2>4. i \in c.invites \/ i.status = "pending"
    BY <2>3, FollowEffect
  <2> QED
    BY <2>2, <2>4 DEF Accepted
<1>2. JoinAnswersInvites <=> [][Step]_vars
  BY DEF JoinAnswersInvites
<1> QED
  BY <1>1, <1>2, SpecTypes, PTL

-----------------------------------------------------------------------------
\* Sessions change hands.

\* No session is new, and one that stays live passes to somebody who was in it,
\* from somebody who no longer is.
PassedOn(d, e) ==
    /\ Sessions(e) = Sessions(d)
    /\ \A s \in Sessions(d) : Live(d, s) /\ Live(e, s) /\ Creator(e, s) # Creator(d, s)
          => Creator(e, s) \in Joined(d, s) /\ Creator(d, s) \notin Joined(e, s)

LEMMA SameSessionsPass ==
    ASSUME NEW d, NEW e, e.sessions = d.sessions
    PROVE  PassedOn(d, e)
BY DEF PassedOn, Sessions, Creator

\* A session is changed but not its creator, or was or is not live.
LEMMA RowPass ==
    ASSUME NEW d, NEW e, NEW s \in Sessions(d), RowChange(d, e, s),
           e.sessions[s].creator = d.sessions[s].creator \/ ~Live(d, s) \/ ~Live(e, s)
    PROVE  PassedOn(d, e)
BY DEF PassedOn, RowChange, Creator

\* The statements on one row.
LEMMA RowOpsPass ==
    ASSUME NEW d, HostInv(d), NEW s \in Sessions(d), NEW c \in Classes, NEW u
    PROVE  /\ PassedOn(d, UpdateGameSession(d, s, c))
           /\ PassedOn(d, Destroy(d, s))
           /\ CanRestore(d, u, s) => PassedOn(d, RestoreSession(d, u, s))
<1>0. IsDb(d) /\ d.sessions \in Seq(SessionType) /\ d.sessions[s] \in SessionType
  BY DEF HostInv, HostOK, Sessions
<1>1. PassedOn(d, UpdateGameSession(d, s, c))
  <2> DEFINE e == [d EXCEPT !.sessions[s].class = c]
  <2>1. RowChange(d, e, s) /\ e.sessions[s] = [d.sessions[s] EXCEPT !.class = c]
    BY <1>0, SetClass
  <2> HIDE DEF e
  <2>2. PassedOn(d, e)
    BY <1>0, <2>1, RowPass DEF SessionType
  <2> QED
    BY <2>2 DEF e, UpdateGameSession
<1>2. PassedOn(d, Destroy(d, s))
  <2> DEFINE e == [d EXCEPT !.sessions[s].live = FALSE]
  <2>1. RowChange(d, e, s) /\ e.sessions[s] = [d.sessions[s] EXCEPT !.live = FALSE]
    BY <1>0, SetLive
  <2> HIDE DEF e
  <2>2. PassedOn(d, e)
    BY <1>0, <2>1, RowPass DEF SessionType
  <2> QED
    BY <2>2 DEF e, Destroy
<1>3. CanRestore(d, u, s) => PassedOn(d, RestoreSession(d, u, s))
  <2> DEFINE e == [d EXCEPT !.sessions[s].live = TRUE]
             r == InsertParticipant(e, s, u)
  <2>1. RowChange(d, e, s) /\ e.sessions[s] = [d.sessions[s] EXCEPT !.live = TRUE]
    BY <1>0, SetLive
  <2> HIDE DEF e
  <2>2. r.sessions = e.sessions
    BY <2>1 DEF RowChange, InsertParticipant, IsDb, Fields
  <2>3. RestoreSession(d, u, s) = r
    BY DEF e, RestoreSession
  <2> HIDE DEF r
  <2>4. Sessions(r) = Sessions(d) /\ \A t \in Sessions(d) \ {s} : r.sessions[t] = d.sessions[t]
    BY <2>1, <2>2 DEF RowChange, Sessions
  <2>5. CanRestore(d, u, s) => PassedOn(d, r)
    BY <2>4 DEF CanRestore, PassedOn, Creator
  <2> QED
    BY <2>3, <2>5
<1> QED
  BY <1>1, <1>2, <1>3

\* reconcile_game_session_async, after participants have gone: the heir is one of
\* those who stay.
LEMMA ReconcilePass ==
    ASSUME NEW d, NEW g, IsDb(g), d.sessions \in Seq(SessionType), g.sessions = d.sessions,
           g.parts \subseteq d.parts, NEW s \in Sessions(d)
    PROVE  PassedOn(d, Reconcile(g, s)) /\ RowChange(g, Reconcile(g, s), s)
<1> DEFINE e == Reconcile(g, s)
<1>0. s \in Sessions(g) /\ g.sessions \in Seq(SessionType) /\ d.sessions[s] \in SessionType
  BY DEF Sessions
<1>1. RowChange(g, e, s) /\ (Live(e, s) => Creator(e, s) \in Joined(g, s))
  BY <1>0, ReconcileRow
<1>2. Creator(e, s) # Creator(d, s) => Creator(d, s) \notin Joined(g, s) \/ ~Live(e, s)
  <2>1. CASE ~Live(g, s) \/ Creator(g, s) \in Joined(g, s)
    <3>1. e = g
      BY <2>1 DEF Reconcile
    <3> QED
      BY <3>1 DEF Creator
  <2>2. CASE Creator(g, s) \notin Joined(g, s)
    BY <2>2 DEF Creator
  <2> QED
    BY <2>1, <2>2
<1> HIDE DEF e
<1>3. Joined(g, s) \subseteq Joined(d, s) /\ Joined(e, s) = Joined(g, s)
  BY <1>1 DEF Joined, RowChange
<1>4. /\ Sessions(e) = Sessions(d)
      /\ \A t \in Sessions(d) \ {s} : Creator(e, t) = Creator(d, t)
  BY <1>1 DEF RowChange, Sessions, Creator
<1>5. PassedOn(d, e)
  BY <1>1, <1>2, <1>3, <1>4 DEF PassedOn
<1> QED
  BY <1>1, <1>5 DEF e

LEMMA RemovePass ==
    ASSUME NEW d, HostInv(d), NEW s \in Sessions(d), NEW u, NEW v, NEW caller, NEW private, v \in Users
    PROVE  /\ PassedOn(d, RemoveParticipants(d, s, u)) /\ PassedOn(d, LeaveGameSession(d, u, s))
           /\ PassedOn(d, AddParticipant(d, caller, s, v, private))
<1>0. IsDb(d) /\ d.sessions \in Seq(SessionType) /\ PassedOn(d, d)
  BY SameSessionsPass DEF HostInv, HostOK
<1>1. PassedOn(d, Reconcile(DeleteParticipant(d, s, u), s))
  <2> DEFINE after == [d EXCEPT !.parts = @ \ {<<s, u>>}]
  <2>1. IsDb(after) /\ after.sessions = d.sessions /\ after.parts \subseteq d.parts
    BY <1>0 DEF IsDb, Fields
  <2>2. DeleteParticipant(d, s, u) \in {after, LeaveParties(after, {u})}
    BY DEF DeleteParticipant
  <2> HIDE DEF after
  <2>3. SameSessions(after, LeaveParties(after, {u}))
    BY <2>1, LeavePartiesFrame
  <2> QED
    BY <1>0, <2>1, <2>2, <2>3, ReconcilePass DEF SameSessions
<1>2. PassedOn(d, Reconcile(InsertParticipant(d, s, v), s))
  <2> DEFINE e == InsertParticipant(d, s, v)
  <2>1. e.sessions = d.sessions /\ Joined(d, s) \subseteq Joined(e, s)
    BY <1>0, InsertParticipantHost
  <2>2. ~Live(e, s) \/ Creator(e, s) \in Joined(e, s)
    BY <2>1 DEF HostInv, HostOK, Live, Creator, Sessions
  <2>3. Reconcile(e, s) = e
    BY <2>2 DEF Reconcile
  <2> QED
    BY <2>1, <2>3, SameSessionsPass
<1> QED
  BY <1>0, <1>1, <1>2 DEF RemoveParticipants, LeaveGameSession, AddParticipant

LEMMA CleanupPass ==
    ASSUME NEW d, HostInv(d), NEW users
    PROVE  PassedOn(d, CleanupUsers(d, users))
<1> DEFINE left == LeaveParties(d, users)
           gone == [left EXCEPT !.parts  = {p \in @ : p[2] \notin users},
                                !.urls   = @ \ users,
                                !.online = @ \ users]
           affected(s) == Live(d, s) /\ users \cap (Joined(d, s) \cup {Creator(d, s)}) # {}
           rows == [s \in Sessions(d) |->
                       IF affected(s) THEN Reconcile(gone, s).sessions[s] ELSE gone.sessions[s]]
           e    == [gone EXCEPT !.sessions = rows]
<1>0. d.sessions \in Seq(SessionType)
  BY DEF HostInv, HostOK
<1>1. SameSessions(d, left)
  BY LeavePartiesFrame DEF HostInv
<1>2. CleanupUsers(d, users) = e
  BY DEF CleanupUsers
<1> HIDE DEF left
<1>3. IsDb(gone) /\ gone.sessions = d.sessions /\ gone.parts \subseteq d.parts
  BY <1>1 DEF SameSessions, IsDb, Fields
<1> HIDE DEF gone, affected
<1>4. e.sessions = rows /\ e.parts = gone.parts /\ Sessions(e) = Sessions(d)
  BY <1>3 DEF IsDb, Fields, Sessions
<1>5. ASSUME NEW s \in Sessions(d), Live(d, s), Live(e, s), Creator(e, s) # Creator(d, s)
      PROVE  Creator(e, s) \in Joined(d, s) /\ Creator(d, s) \notin Joined(e, s)
  <2> DEFINE r == Reconcile(gone, s)
  <2>1. PassedOn(d, r) /\ r.parts = gone.parts /\ s \in Sessions(r)
    <3>1. PassedOn(d, r) /\ RowChange(gone, r, s)
      BY <1>0, <1>3, ReconcilePass
    <3> QED
      BY <1>3, <3>1 DEF RowChange, Sessions
  <2> HIDE DEF r
  <2>2. e.sessions[s] = r.sessions[s]
    BY <1>3, <1>4, <1>5 DEF Creator, r
  <2>3. Live(r, s) /\ Creator(r, s) = Creator(e, s) /\ Joined(r, s) = Joined(e, s)
    BY <1>4, <1>5, <2>1, <2>2 DEF Live, Creator, Joined
  <2> QED
    BY <1>5, <2>1, <2>3 DEF PassedOn
<1> HIDE DEF e
<1> QED
  BY <1>2, <1>4, <1>5 DEF PassedOn

LEMMA OtherPass ==
    ASSUME NEW d, HostInv(d), NEW e, OtherTransaction(d, e)
    PROVE  PassedOn(d, e)
<1>0. IsDb(d) /\ PassedOn(d, d)
  BY SameSessionsPass DEF HostInv
<1>1. ASSUME NEW x, e = [d EXCEPT !.urls = x] \/ e = [d EXCEPT !.online = x] \/ e = [d EXCEPT !.invites = x]
      PROVE  PassedOn(d, e)
  <2>1. e.sessions = d.sessions
    BY <1>0, <1>1 DEF IsDb, Fields
  <2> QED
    BY <2>1, SameSessionsPass
<1>2. ASSUME NEW u \in Users, NEW s \in Sessions(d), e = JoinGameSession(d, u, s) PROVE PassedOn(d, e)
  <2>1. PICK c : e = FollowIfRoom(c, u, s) /\ IsDb(c) /\ c.sessions = d.sessions
    BY <1>0, <1>2, JoinParts
  <2> QED
    BY <2>1, FollowFrame, SameSessionsPass DEF SameSessions
<1>3. ASSUME NEW u, NEW s \in Sessions(d), e = DeleteGameSession(d, u, s) PROVE PassedOn(d, e)
  <2> DEFINE deleted == Destroy(d, s)
             party   == EnsureParty(deleted, u)
  <2>1. PassedOn(d, deleted) /\ IsDb(deleted)
    BY RowOpsPass, DestroyHost DEF HostInv, Classes
  <2> HIDE DEF deleted
  <2>2. SameSessions(deleted, party)
    BY <2>1, EnsurePartyFrame
  <2> HIDE DEF party
  <2>3. ASSUME NEW rows PROVE SameSessions(deleted, [party EXCEPT !.invites = rows])
    BY <2>2, InvitesFrame DEF SameSessions
  <2>4. \/ e = deleted
        \/ \E rows : e = [party EXCEPT !.invites = rows]
    BY <1>3 DEF DeleteGameSession, deleted, party
  <2>5. e = deleted \/ SameSessions(deleted, e)
    BY <2>3, <2>4
  <2> QED
    <3>1. /\ Sessions(e) = Sessions(deleted)
          /\ \A t \in Sessions(d) : /\ Live(e, t) = Live(deleted, t)
                                    /\ Creator(e, t) = Creator(deleted, t)
                                    /\ Joined(e, t) = Joined(deleted, t)
      BY <2>5 DEF SameSessions, Sessions, Live, Creator, Joined
    <3> QED
      BY <2>1, <3>1 DEF PassedOn
<1>4. ASSUME NEW u,
             \/ \E to, kind, s : e = AddInvite(d, u, to, kind, s)
             \/ e = TakeInvites(d, u) \/ \E id : e = AcceptInvite(d, u, id)
      PROVE  PassedOn(d, e)
  BY <1>0, <1>4, InviteOpsFrame, SameSessionsPass DEF SameSessions
<1>5. ASSUME NEW u, NEW heard, e = CloseSecureSession(d, u, heard) PROVE PassedOn(d, e)
  <2>1. PassedOn(d, [d EXCEPT !.online = @ \ {u}])
    <3>1. [d EXCEPT !.online = @ \ {u}].sessions = d.sessions
      BY <1>0 DEF IsDb, Fields
    <3> QED
      BY <3>1, SameSessionsPass
  <2> QED
    BY <1>5, <2>1, CleanupPass DEF CloseSecureSession
<1>6. CASE e = InvalidateSessions(d)
  <2> DEFINE rows == [s \in Sessions(d) |-> [d.sessions[s] EXCEPT !.live = FALSE]]
  <2>1. e.sessions = rows
    BY <1>0, <1>6 DEF InvalidateSessions, IsDb, Fields
  <2>2. \A s \in Sessions(d) : ~rows[s].live
    <3>1. \A s \in Sessions(d) : d.sessions[s] \in SessionType
      BY DEF HostInv, HostOK, Sessions
    <3> QED
      BY <3>1 DEF SessionType
  <2> QED
    BY <2>1, <2>2 DEF PassedOn, Sessions, Live
<1>7. ASSUME NEW u \in Users, NEW s \in Sessions(d),
             \/ \E c \in Classes : e = UpdateGameSession(d, s, c)
             \/ e = LeaveGameSession(d, u, s)
             \/ e = RemoveParticipants(d, s, u)
             \/ \E caller, private : e = AddParticipant(d, caller, s, u, private)
             \/ CanRestore(d, u, s) /\ e = RestoreSession(d, u, s)
             \/ e = Destroy(d, s)
      PROVE  PassedOn(d, e)
  <2>1. "lobby" \in Classes
    BY DEF Classes
  <2> QED
    BY <1>7, <2>1, RowOpsPass, RemovePass
<1>8. ASSUME NEW s \in Sessions(d), e = Destroy(d, s) PROVE PassedOn(d, e)
  BY <1>8, RowOpsPass DEF Classes
<1>9. ASSUME NEW users, e = CleanupUsers(d, users) PROVE PassedOn(d, e)
  BY <1>9, CleanupPass
<1> QED
  BY <1>0, <1>1, <1>2, <1>3, <1>4, <1>5, <1>6, <1>7, <1>8, <1>9 DEF OtherTransaction

\* What create_game_session makes, and hands to queue_party_follow_invites_async.
LEMMA CreateEffect ==
    ASSUME NEW d, HostInv(d), NEW u \in Users, NEW k \in Classes
    PROVE  LET e == CreateGameSession(d, u, k)
               n == Len(d.sessions) + 1
           IN  /\ Sessions(e) = Sessions(d) \cup {n} /\ n \notin Sessions(d)
               /\ \A s \in Sessions(d) : e.sessions[s] = d.sessions[s]
               /\ e.sessions[n].creator = u
               /\ \E c : e = FollowIfRoom(c, u, n) /\ IsDb(c) /\ u \in Joined(c, n)
<1> DEFINE n   == Len(d.sessions) + 1
           row == [creator |-> u, class |-> k, live |-> TRUE]
           i   == [d EXCEPT !.sessions = Append(@, row)]
           c   == InsertParticipant(i, n, u)
<1>1. row \in SessionType /\ row.creator = u
  BY DEF SessionType
<1> HIDE DEF row
<1>2. /\ DOMAIN Append(d.sessions, row) = Sessions(d) \cup {n} /\ n \notin Sessions(d)
      /\ \A t \in Sessions(d) : Append(d.sessions, row)[t] = d.sessions[t]
      /\ Append(d.sessions, row)[n] = row
  <2>1. d.sessions \in Seq(SessionType)
    BY DEF HostInv, HostOK
  <2> QED
    BY <1>1, <2>1 DEF Sessions
<1>3. IsDb(i) /\ i.sessions = Append(d.sessions, row)
  BY DEF HostInv, IsDb, Fields
<1> HIDE DEF i, n
<1>4. IsDb(c) /\ c.sessions = i.sessions /\ u \in Joined(c, n)
  BY <1>3 DEF InsertParticipant, IsDb, Fields, Joined
<1> HIDE DEF c
<1>5. SameSessions(c, FollowIfRoom(c, u, n))
  BY <1>4, FollowFrame
<1>6. CreateGameSession(d, u, k) = FollowIfRoom(c, u, n)
  BY DEF CreateGameSession, c, i, n, row
<1> QED
  BY <1>1, <1>2, <1>3, <1>4, <1>5, <1>6 DEF SameSessions, Sessions, n

\* A session that stays live passes only to a participant, and is taken from a
\* host who stays in it only by a participant's own call: whoever leaves, is
\* removed or swept, reconcile_game_session_async finds the heir among the rest.
THEOREM HostsComeFromInside == Spec => HostComesFromInside
<1> DEFINE Step == \A s \in Sessions(db) :
                      Live(db, s) /\ Live(db, s)' /\ Creator(db, s)' # Creator(db, s)
                          => /\ Creator(db, s)' \in Joined(db, s)
                             /\ Creator(db, s) \in Joined(db, s)' =>
                                    \E u \in Users : MigrateSession(u, s) \/ SplitSession(u, s)
<1>1. TypesInv /\ [Next]_vars => [Step]_vars
  <2> SUFFICES ASSUME TypesInv, [Next]_vars, NEW s \in Sessions(db),
                      Live(db, s), Live(db', s), Creator(db', s) # Creator(db, s)
               PROVE  /\ Creator(db', s) \in Joined(db, s)
                      /\ Creator(db, s) \in Joined(db', s) =>
                             \E u \in Users : MigrateSession(u, s) \/ SplitSession(u, s)
    BY DEF Live, Creator, Joined, Sessions
  <2>0. HostInv(db) /\ IsDb(db) /\ db.sessions \in Seq(SessionType)
    BY DEF TypesInv, StoreInv, HostInv, HostOK
  <2>1. CASE OtherTransaction(db, db')
    BY <2>0, <2>1, OtherPass DEF PassedOn
  <2>2. CASE Creation
    <3>1. PICK u \in Users, c \in Classes : db' = CreateGameSession(db, u, c)
      BY <2>2 DEF Creation, CreateSession, Rmc, Commit
    <3>2. db'.sessions[s] = db.sessions[s]
      BY <2>0, <3>1, CreateEffect
    <3> QED
      BY <3>2 DEF Creator
  <2>3. ASSUME NEW u \in Users, NEW t \in Sessions(db), MigrateSession(u, t)
        PROVE  Creator(db', s) \in Joined(db, s) /\ MigrateSession(u, s)
    <3>1. CanMigrate(db, u, t) /\ db' = [db EXCEPT !.sessions[t].creator = u]
      BY <2>3 DEF MigrateSession, MigrateHost, Rmc, Commit
    <3>2. RowChange(db, db', t) /\ db'.sessions[t] = [db.sessions[t] EXCEPT !.creator = u]
      BY <2>0, <3>1, SetCreator
    <3>3. s = t
      BY <3>2 DEF RowChange, Creator
    <3>4. Creator(db', s) = u
      <4>1. db.sessions[t] \in SessionType
        BY <2>0 DEF Sessions
      <4> QED
        BY <3>2, <3>3, <4>1 DEF Creator, SessionType
    <3> QED
      BY <2>3, <3>1, <3>3, <3>4 DEF CanMigrate
  <2> QED
    BY <2>1, <2>2, <2>3, StepKind DEF HandOver
<1>2. HostComesFromInside <=> [][Step]_vars
  BY DEF HostComesFromInside
<1> QED
  BY <1>1, <1>2, SpecTypes, PTL DEF Spec

-----------------------------------------------------------------------------
\* The party is called.

\* After queue_party_follow_invites_async everyone in the leader's party has an
\* open invitation to follow.
LEMMA CalledFact ==
    ASSUME NEW c, IsDb(c), NEW u \in Users, NEW s, u \in Joined(c, s),
           NEW e, e = FollowIfRoom(c, u, s), e.sessions[s].class = "room", e.party[u] # NoParty,
           NEW v \in Users \ {u}, e.member[v] = e.party[u]
    PROVE  \E i \in e.invites : i.to = v /\ i.kind = "follow" /\ i.session = s
                                /\ i.status # "consumed" /\ ~i.expired
<1>1. SameSessions(c, e) /\ SameParties(c, e)
  BY FollowFrame
<1>2. e = [c EXCEPT !.invites = FollowInvites(c, u, s)]
  BY <1>1 DEF FollowIfRoom, QueueFollow, SameSessions, SameParties
<1>3. e.invites = FollowInvites(c, u, s)
  BY <1>2 DEF IsDb, Fields
<1>4. c.member[v] = c.party[u]
  BY <1>1 DEF SameParties
<1> QED
  BY <1>3, <1>4, FollowEffect DEF FollowsSession

\* When a party leader joins or creates a room, the others of its party have an
\* open invitation to follow, whatever they had before: the handlers queue it in
\* the transaction of the join (join_game_session_unbounded, create_game_session).
THEOREM PartiesAreCalled == Spec => PartyIsCalled
<1> DEFINE Step == \A u \in Users, s \in Sessions(db)' :
                      /\ \/ s \in Sessions(db) /\ JoinSession(u, s)
                         \/ s \notin Sessions(db) /\ Creator(db, s)' = u
                      /\ db'.sessions[s].class = "room"
                      /\ db'.party[u] # NoParty
                      => \A v \in Users \ {u} : db'.member[v] = db'.party[u] =>
                            \E i \in db'.invites : i.to = v /\ i.kind = "follow" /\ i.session = s
                                                   /\ i.status # "consumed" /\ ~i.expired
<1>1. TypesInv /\ [Next]_vars => [Step]_vars
  <2> SUFFICES ASSUME TypesInv, [Next]_vars, NEW u \in Users, NEW s \in Sessions(db'),
                      \/ s \in Sessions(db) /\ JoinSession(u, s)
                      \/ s \notin Sessions(db) /\ Creator(db', s) = u,
                      db'.sessions[s].class = "room", db'.party[u] # NoParty,
                      NEW v \in Users \ {u}, db'.member[v] = db'.party[u]
               PROVE  \E i \in db'.invites : i.to = v /\ i.kind = "follow" /\ i.session = s
                                             /\ i.status # "consumed" /\ ~i.expired
    BY DEF Creator, Sessions
  <2>0. HostInv(db) /\ IsDb(db)
    BY DEF TypesInv, StoreInv, HostInv
  <2>1. CASE JoinSession(u, s)
    <3>1. db' = JoinGameSession(db, u, s)
      BY <2>1 DEF JoinSession, Rmc, Commit
    <3>2. PICK c : db' = FollowIfRoom(c, u, s) /\ IsDb(c) /\ c.parts = db.parts \cup {<<s, u>>}
      BY <2>0, <3>1, JoinParts
    <3>3. u \in Joined(c, s)
      BY <3>2 DEF Joined
    <3> QED
      BY <3>2, <3>3, CalledFact
  <2>2. CASE s \notin Sessions(db) /\ Creator(db', s) = u
    <3>1. ~OtherTransaction(db, db')
      BY <2>0, <2>2, OtherPass DEF PassedOn
    <3>2. ~HandOver
      <4>1. ASSUME NEW w \in Users, NEW t \in Sessions(db), MigrateSession(w, t)
            PROVE  Sessions(db') = Sessions(db)
        <5>1. db' = [db EXCEPT !.sessions[t].creator = w]
          BY <4>1 DEF MigrateSession, MigrateHost, Rmc, Commit
        <5> QED
          BY <2>0, <5>1 DEF Sessions, IsDb, Fields
      <4> QED
        BY <2>2, <4>1 DEF HandOver
    <3>3. PICK w \in Users, k \in Classes : db' = CreateGameSession(db, w, k)
      BY <3>1, <3>2, StepKind DEF Creation, CreateSession, Rmc, Commit
    <3>4. PICK c : /\ db' = FollowIfRoom(c, w, Len(db.sessions) + 1) /\ IsDb(c)
                   /\ w \in Joined(c, Len(db.sessions) + 1)
      BY <2>0, <3>3, CreateEffect
    <3>5. s = Len(db.sessions) + 1 /\ w = u
      BY <2>0, <2>2, <3>3, CreateEffect DEF Creator
    <3> QED
      BY <3>4, <3>5, CalledFact
  <2> QED
    BY <2>1, <2>2
<1>2. PartyIsCalled <=> [][Step]_vars
  BY DEF PartyIsCalled
<1> QED
  BY <1>1, <1>2, SpecTypes, PTL DEF Spec

-----------------------------------------------------------------------------
\* Searches.

\* A live session with an endpoint is in the administrator's list, and a search
\* for its host or its attributes finds it; what search_sessions and
\* search_sessions_with_participants ask for is no more than HostPresent gives.
THEOREM LiveIsFound == Spec => []LiveSessionsAreFound
<1>1. HostPresent => LiveSessionsAreFound
  <2> SUFFICES ASSUME HostPresent, NEW s \in Sessions(db), Live(db, s)
               PROVE  /\ s \in ListedGames(db)
                      /\ \A u \in Users \ {Creator(db, s)} : Creator(db, s) \in db.urls =>
                            /\ ~Routed(db, u, FALSE) =>
                                  s \in SearchWithParticipants(db, u, {Creator(db, s)})
                            /\ s \in SearchSessions(db, u, 0, AttributesOf(db, s))
                                  <=> 103 \in DOMAIN AttributesOf(db, s)
    BY DEF LiveSessionsAreFound
  <2>1. Creator(db, s) \in Joined(db, s)
    BY DEF HostPresent
  <2>2. s \in ListedGames(db)
    BY <2>1 DEF ListedGames, ActiveGames
  <2>3. ASSUME NEW u \in Users \ {Creator(db, s)}, Creator(db, s) \in db.urls
        PROVE  /\ ~Routed(db, u, FALSE) => s \in SearchWithParticipants(db, u, {Creator(db, s)})
               /\ s \in SearchSessions(db, u, 0, AttributesOf(db, s))
                     <=> 103 \in DOMAIN AttributesOf(db, s)
    <3>1. Reachable(db, s)
      BY <2>1, <2>3 DEF Reachable
    <3>2. s \in SessionsWith(db, {Creator(db, s)})
      BY <2>1, <3>1 DEF SessionsWith
    <3>3. s \in OpenSessions(db, u)
      BY <3>1 DEF OpenSessions
    <3>4. Matches(AttributesOf(db, s), AttributesOf(db, s)) <=> 103 \in DOMAIN AttributesOf(db, s)
      BY DEF Matches, Has
    <3>5. SearchSessions(db, u, 0, AttributesOf(db, s))
             = {t \in OpenSessions(db, u) : Matches(AttributesOf(db, s), AttributesOf(db, t))}
      BY DEF SearchSessions, InvitationQuery
    <3> QED
      BY <3>2, <3>3, <3>4, <3>5 DEF SearchWithParticipants
  <2> QED
    BY <2>2, <2>3
<1> QED
  BY <1>1, HostIsPresent, PTL

\* What accept_invite_async leaves is valid, and changes nothing else.
LEMMA AcceptEffect ==
    ASSUME NEW d, IsDb(d), NEW u, NEW id, NEW i \in AcceptInvite(d, u, id).invites
    PROVE  LET e == AcceptInvite(d, u, id)
           IN  /\ e.sessions = d.sessions /\ e.parts = d.parts /\ e.urls = d.urls
               /\ i.status # "consumed" /\ Valid(e, i)
<1> DEFINE e == AcceptInvite(d, u, id)
           clean == CleanInvites(d)
           f(j) == IF j.id = id /\ j.to = u /\ Pending(j) THEN [j EXCEPT !.status = "accepted"] ELSE j
<1>1. /\ IsDb(clean) /\ clean.invites = {j \in d.invites : Valid(d, j)}
      /\ clean.sessions = d.sessions /\ clean.parts = d.parts /\ clean.urls = d.urls
  BY DEF CleanInvites, IsDb, Fields
<1>2. e = [clean EXCEPT !.invites = {f(j) : j \in @}]
  BY DEF AcceptInvite
<1> HIDE DEF clean, f
<1>3. /\ e.sessions = d.sessions /\ e.parts = d.parts /\ e.urls = d.urls
      /\ e.invites = {f(j) : j \in clean.invites}
  BY <1>1, <1>2 DEF IsDb, Fields
<1> HIDE DEF e
<1>4. PICK j \in d.invites : Valid(d, j) /\ i = f(j)
  BY <1>1, <1>3 DEF e
<1>5. i.status # "consumed" /\ i.expired = j.expired /\ i.session = j.session
      /\ i.kind = j.kind /\ i.from = j.from
  BY <1>4 DEF f, Valid, Pending
<1>6. \A s : Reachable(e, s) = Reachable(d, s) /\ Joined(e, s) = Joined(d, s) /\ Creator(e, s) = Creator(d, s)
  BY <1>3 DEF Reachable, Live, Joined, Creator, Sessions
<1>7. Valid(e, i)
  BY <1>4, <1>5, <1>6 DEF Valid
<1> QED
  BY <1>3, <1>5, <1>7 DEF e

\* What the overlay has just accepted, the game's search finds, and only that, if
\* no newer accepted invitation is unused: accept_invite_async and the routed
\* searches (find_accepted_invited_session_filtered_async) judge the invitation
\* by conditions of their own.
THEOREM WhatIsAcceptedIsFound == Spec => AcceptedIsFound
<1> DEFINE Step == \A u \in Overlays : AcceptPopup(u) =>
                      \A i \in db'.invites :
                          (/\ i.id = popup[u].id /\ i.to = u /\ Accepted(i)
                           /\ \A j \in db'.invites : j.to = u /\ Accepted(j) => j.id <= i.id)
                          => /\ SearchWithParticipants(db', u, {i.from}) = {i.session}
                             /\ i.kind # "follow" =>
                                   SearchSessions(db', u, InvitationQuery, <<>>) = {i.session}
                             /\ i.kind = "private" => ClassOf(RoutedAttributes(db', i)) = "lobby"
<1>1. TypesInv /\ TypesInv' => [Step]_vars
  <2> SUFFICES ASSUME TypesInv, TypesInv', NEW u \in Overlays, AcceptPopup(u),
                      NEW i \in db'.invites, i.to = u, Accepted(i),
                      \A j \in db'.invites : j.to = u /\ Accepted(j) => j.id <= i.id
               PROVE  /\ SearchWithParticipants(db', u, {i.from}) = {i.session}
                      /\ i.kind # "follow" => SearchSessions(db', u, InvitationQuery, <<>>) = {i.session}
                      /\ i.kind = "private" => ClassOf(RoutedAttributes(db', i)) = "lobby"
    OBVIOUS
  <2>1. PICK id : IsDb(db) /\ db' = AcceptInvite(db, u, id)
    BY DEF TypesInv, StoreInv, HostInv, AcceptPopup, Api, Commit
  <2>2. Valid(db', i)
    BY <2>1, AcceptEffect
  <2>3. \A j, k \in db'.invites : /\ j.id = k.id => j = k
                                  /\ j.id \in Nat
    BY DEF TypesInv, StoreInv, RestOK, InvitesOK, InviteType
  <2>4. ASSUME NEW manual, manual => i.kind # "follow"
        PROVE  Routed(db', u, manual) /\ Route(db', u, manual) = i
    <3> DEFINE R == RoutingInvites(db', u, manual)
    <3>1. i \in R /\ R \subseteq db'.invites /\ \A j \in R : j.id <= i.id
      BY <2>2, <2>4 DEF RoutingInvites
    <3> HIDE DEF R
    <3>2. ASSUME NEW k \in R, \A j \in R : j.id <= k.id PROVE k = i
      BY <2>3, <3>1, <3>2
    <3>3. Newest(R) = i
      BY <3>1, <3>2 DEF Newest
    <3> QED
      BY <3>1, <3>3 DEF Routed, Route, R
  <2>5. i.from \in Joined(db', i.session)
    BY <2>2 DEF Valid, Reachable
  <2>6. SearchWithParticipants(db', u, {i.from}) = {i.session}
    BY <2>4, <2>5 DEF SearchWithParticipants, InvitedAmong
  <2>7. i.kind # "follow" => SearchSessions(db', u, InvitationQuery, <<>>) = {i.session}
    BY <2>4 DEF SearchSessions
  <2>8. i.kind = "private" => ClassOf(RoutedAttributes(db', i)) = "lobby"
    BY DEF ClassOf, RoutedAttributes, ShownAsLobby, Has
  <2> QED
    BY <2>6, <2>7, <2>8
<1>2. AcceptedIsFound <=> [][Step]_vars
  BY DEF AcceptedIsFound
<1> QED
  BY <1>1, <1>2, SpecTypes, PTL
=============================================================================
