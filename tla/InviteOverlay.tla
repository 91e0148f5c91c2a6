---------------------------- MODULE InviteOverlay ----------------------------
(***************************************************************************)
(* How an invitation gets from the server into the game of the player it   *)
(* is for: the rows of the server (what api.rs and storage/mod.rs do with  *)
(* one receiver's invitations), the updates-thread of the hooks that polls *)
(* them and logs in again (uplay_r1_loader.rs, client/hooks/src/api.rs),   *)
(* the local ids it gives them, and the overlay, whose render loop accepts *)
(* them and queues events for the game (overlay.rs).                       *)
(*                                                                         *)
(* The updates-thread and the render loop are threads of one process, and  *)
(* the server answers both: each step below is what one of them does       *)
(* between two points where the others can be seen.  A poll's answer is    *)
(* mapped to a local id only when it has arrived, and an acceptance is an  *)
(* RPC whose answer may be lost after the server has acted.                *)
(*                                                                         *)
(* The serial number of an invitation is a name for it that no part of the *)
(* program has: the server gives the rowid of a deleted row to a new one.  *)
(* That it accepted an invitation outlives its row too (accepted).         *)
(***************************************************************************)
EXTENDS Integers, FiniteSets, FiniteSetsExt, Sequences, SequencesExt

CONSTANTS
    AutoJoin,    \* config.auto_join_invite
    Plans,       \* bound: the kinds of the invitations made, in their order
    MaxNews,     \* bound: invitations the updates-thread is ahead of the overlay
    MaxLost,     \* bound: answers of AcceptInvite that are lost
    Relogin      \* failed polls between two logins; 10 in the program

Private == 1
Lobby   == 2
Follow  == 3
Restore == 4

ASSUME InvitesAssumption ==
    /\ AutoJoin \in BOOLEAN /\ Plans \subseteq Seq({Private, Lobby, Follow, Restore})
    /\ MaxNews \in Nat /\ MaxLost \in Nat
    /\ Relogin \in Nat \ {0}

MaxInvites == Max({Len(p) : p \in Plans})
Kinds == UNION {Range(p) : p \in Plans}

VARIABLES
    rows,       \* the open invitations for this player
    accepted,   \* [row, serial] of every invitation the server has accepted, a history
    plan,       \* the kinds of all invitations of this behaviour
    made,       \* how many of them were made
    published,  \* whether the server holds the host's Uplay game session
    up,         \* whether the server can be reached
    token,      \* whether TOKEN holds a token that the server takes
    failures,   \* failed polls since the last invitation, modulo Relogin
    answer,     \* what a poll has returned and is not mapped yet
    ids,        \* InviteIdState
    news,       \* channel from the updates-thread to the overlay
    list,       \* active_invites
    schedule,   \* scheduled_party_follow: a local id, or NoId
    call,       \* AcceptInvite under way in the render loop
    lost,       \* answers of AcceptInvite lost so far
    events      \* EVENTS, all that were ever sent to the game

server  == <<rows, accepted, plan, made, published, up>>
thread  == <<token, failures, answer>>
overlay == <<list, schedule, call, lost, events>>
vars == <<server, thread, ids, news, overlay>>

NoId   == 0
Absent == [id |-> NoId]

Init ==
    /\ rows = {} /\ accepted = {} /\ plan \in Plans /\ made = 0 /\ published = FALSE /\ up = TRUE
    /\ token \in BOOLEAN /\ failures = 0 /\ answer = Absent
    /\ ids = [next |-> -1, current |-> {}, server |-> <<>>]
    /\ news = <<>>
    /\ list = <<>> /\ schedule = NoId /\ call = Absent /\ lost = 0 /\ events = <<>>

-----------------------------------------------------------------------------
\* The server.

Manual == {Private, Lobby}

\* The lane of a kind: an invitation replaces the open ones of its lane.
Lane(kind) == IF kind \in Manual THEN Manual ELSE {kind}

\* The smallest rowid above all the others.
NextRowId(rs) == IF rs = {} THEN 1 ELSE Max({r.id : r \in rs}) + 1

MakeInvite ==
    /\ made < Len(plan)
    /\ made' = made + 1
    /\ rows' = LET kind == plan[made + 1]
                   kept == {r \in rows : r.kind \notin Lane(kind)}
               IN  kept \cup {[id |-> NextRowId(kept), serial |-> made + 1,
                               kind |-> kind, accepted |-> FALSE]}
    /\ UNCHANGED <<accepted, plan, published, up, thread, ids, news, overlay>>

\* It runs out, is used by a join, or its session goes.
InviteGoes(r) ==
    /\ rows' = rows \ {r}
    /\ UNCHANGED <<accepted, plan, made, published, up, thread, ids, news, overlay>>

SetGameSession ==
    /\ ~published
    /\ published' = TRUE
    /\ UNCHANGED <<rows, accepted, plan, made, up, thread, ids, news, overlay>>

ClearGameSession ==
    /\ published
    /\ published' = FALSE
    /\ UNCHANGED <<rows, accepted, plan, made, up, thread, ids, news, overlay>>

\* The connection to the server breaks, or the server stops and with it go the
\* session of the host and the key its tokens were made with.
ServerGoes ==
    /\ up
    /\ up' = FALSE
    /\ \/ UNCHANGED <<published, token>>
       \/ published' = FALSE /\ token' = FALSE
    /\ UNCHANGED <<rows, accepted, plan, made, failures, answer, ids, news, overlay>>

ServerComes ==
    /\ ~up
    /\ up' = TRUE
    /\ UNCHANGED <<rows, accepted, plan, made, published, thread, ids, news, overlay>>

\* invite_requires_uplay_game_session
NeedsSession(kind) == kind \in {Private, Follow}

\* invite_forces_join
ForcesJoin(kind) == kind \in {Follow, Restore}

\* The InviteEvent of MyMisc::event: the host's session comes with the kinds
\* that need it, when it is published.
Delivery(r) ==
    [id |-> r.id, serial |-> r.serial, kind |-> r.kind,
     session |-> NeedsSession(r.kind) /\ published]

-----------------------------------------------------------------------------
\* InviteIdState.

\* Mutant: an id that is no longer in use is forgotten.
RetireLocal_Forgets(st, local) ==
    [st EXCEPT !.server = [l \in DOMAIN @ \ {local} |-> @[l]]]

\* retire_local; current holds the local id in use for a server id, as the
\* record [server, local, retired].
RetireLocal(st, local) ==
    [st EXCEPT !.current =
        {IF c.local = local THEN [c EXCEPT !.retired = TRUE] ELSE c : c \in @}]

InUse(st, id) == {c \in st.current : c.server = id /\ ~c.retired}

\* map_server_event, the state after it.
MapServerEvent(st, id) ==
    IF InUse(st, id) # {} THEN st
    ELSE [next    |-> st.next - 1,
          current |-> {c \in st.current : c.server # id}
                          \cup {[server |-> id, local |-> st.next, retired |-> FALSE]},
          server  |-> [l \in DOMAIN st.server \cup {st.next} |->
                          IF l = st.next THEN id ELSE st.server[l]]]

\* What it returns.
LocalId(st, id) == (CHOOSE c \in MapServerEvent(st, id).current : c.server = id).local

\* server_id_for_local
ServerIdForLocal(st, local) ==
    IF local \in DOMAIN st.server THEN st.server[local] ELSE local

-----------------------------------------------------------------------------
\* The updates-thread.

\* take_invite_async returns this invitation: the newest that was not delivered
\* in the last three seconds.  A poll that returns none changes nothing.
PollReturns(r) ==
    /\ answer = Absent /\ Len(news) < MaxNews
    /\ up /\ token
    /\ ~r.accepted
    /\ answer' = Delivery(r)
    /\ UNCHANGED <<server, token, failures, ids, news, overlay>>

\* The rest of event() and of the thread's loop.  The errors it sends too are for
\* the display only.
PollArrives ==
    /\ answer # Absent
    /\ ids' = MapServerEvent(ids, answer.id)
    /\ news' = Append(news, [id |-> LocalId(ids, answer.id), serial |-> answer.serial,
                             row |-> answer.id, kind |-> answer.kind,
                             session |-> answer.session])
    /\ failures' = 0
    /\ answer' = Absent
    /\ UNCHANGED <<server, token, overlay>>

\* Mutant: the first count is left out, so the others never come round.
NextFailures_Stops(n) == IF n + 1 < Relogin THEN n + 1 ELSE n

NextFailures(n) == (n + 1) % Relogin

\* A poll fails; every Relogin-th one logs in again, which first takes the
\* token away.
PollFails ==
    /\ answer = Absent
    /\ ~(up /\ token)
    /\ failures' = NextFailures(failures)
    /\ IF failures' # 0
       THEN UNCHANGED token ELSE token' = up
    /\ UNCHANGED <<server, answer, ids, news, overlay>>

-----------------------------------------------------------------------------
\* The render loop.  Each frame looks at F5, at the schedule and at one result
\* of the updates-thread, in this order; an acceptance stops it until the
\* server has answered.

Idle == call = Absent

\* accept_invite_at, up to the call: a follow without its session waits.
MayAccept(e) == ~(e.kind = Follow /\ ~e.session)

StartAccept(e) ==
    call' = IF MayAccept(e)
            THEN [id |-> e.id, entry |-> e, server |-> ServerIdForLocal(ids, e.id),
                  answered |-> "not"]
            ELSE Absent

\* latest_pending_invite_index: accepted is never set, so it is the last one.
PressF5 ==
    /\ Idle
    /\ list # <<>>
    /\ StartAccept(Last(list))
    /\ UNCHANGED <<server, thread, ids, news, list, schedule, lost, events>>

Position(es, id) == SelectInSeq(es, LAMBDA e : e.id = id)

FollowIsDue ==
    /\ Idle
    /\ schedule # NoId
    /\ schedule' = NoId
    /\ IF Position(list, schedule) # 0 THEN StartAccept(list[Position(list, schedule)])
                                       ELSE UNCHANGED call
    /\ UNCHANGED <<server, thread, ids, news, list, lost, events>>

\* Mutant: an invitation that is on show already is not looked at again.
Listed_Keeps(es, e) == IF Position(es, e.id) # 0 THEN es ELSE Append(es, e)

\* An invitation on show is brought up to date, another one is put last.
Listed(es, e) ==
    IF Position(es, e.id) # 0 THEN [es EXCEPT ![Position(es, e.id)] = e] ELSE Append(es, e)

ShowInvite(e) ==
    /\ list' = Listed(list, e)
    /\ IF ~(ForcesJoin(e.kind) \/ AutoJoin) THEN UNCHANGED <<schedule, call>>
       ELSE IF e.kind = Follow THEN schedule' = e.id /\ UNCHANGED call
       ELSE StartAccept(e) /\ UNCHANGED schedule

Receive ==
    /\ Idle
    /\ news # <<>>
    /\ news' = Tail(news)
    /\ ShowInvite(Head(news))
    /\ UNCHANGED <<server, thread, ids, lost, events>>

\* accept_invite_async, which is idempotent: an accepted invitation is accepted
\* again.  Its answer may get lost, and a call that fails changes nothing.
ServerAnswers ==
    /\ ~Idle
    /\ call.answered = "not"
    /\ LET found == {r \in rows : r.id = call.server}
       IN  IF up /\ token /\ found # {}
           THEN /\ rows' = {IF r \in found THEN [r EXCEPT !.accepted = TRUE] ELSE r : r \in rows}
                /\ accepted' = accepted \cup {[row |-> r.id, serial |-> r.serial] : r \in found}
                /\ \/ /\ call' = [call EXCEPT !.answered = "yes"]
                      /\ UNCHANGED lost
                   \/ /\ lost < MaxLost
                      /\ lost' = lost + 1
                      /\ call' = [call EXCEPT !.answered = "error"]
           ELSE /\ call' = [call EXCEPT !.answered = "error"]
                /\ UNCHANGED <<rows, accepted, lost>>
    /\ UNCHANGED <<plan, made, published, up, thread, ids, news, list, schedule, events>>

\* accepted_event_for_kind: a private room needs the host's session.
HasPayload(e) == e.kind \in {Private, Follow} => e.session

GameEvent(e) ==
    [serial |-> e.serial, row |-> e.row, kind |-> e.kind, session |-> e.session]

\* Mutant: the event goes to the game whatever the server said.
EndAccept_Anyway ==
    /\ ~Idle
    /\ call.answered # "not"
    /\ call' = Absent
    /\ ids' = RetireLocal(ids, call.id)
    /\ list' = RemoveAt(list, Position(list, call.id))
    /\ events' = Append(events, GameEvent(call.entry))
    /\ UNCHANGED <<server, thread, news, schedule, lost>>

\* The rest of accept_invite_at.
EndAccept ==
    /\ ~Idle
    /\ call.answered # "not"
    /\ call' = Absent
    /\ ids' = IF call.answered = "yes" THEN RetireLocal(ids, call.id) ELSE ids
    /\ IF call.answered = "yes" /\ HasPayload(call.entry)
       THEN /\ list' = RemoveAt(list, Position(list, call.id))
            /\ events' = Append(events, GameEvent(call.entry))
       ELSE UNCHANGED <<list, events>>
    /\ UNCHANGED <<server, thread, news, schedule, lost>>

-----------------------------------------------------------------------------
Next ==
    \/ MakeInvite
    \/ \E r \in rows : InviteGoes(r)
    \/ SetGameSession \/ ClearGameSession
    \/ ServerGoes \/ ServerComes
    \/ \E r \in rows : PollReturns(r)
    \/ PollArrives
    \/ PollFails
    \/ PressF5 \/ FollowIsDue \/ Receive
    \/ ServerAnswers \/ EndAccept

Spec == Init /\ [][Next]_vars

\* Both threads go on: the updates-thread polls every second, and a frame does
\* all of its parts, so no key can keep it from the others.  A poll returns the
\* newest invitation that was not returned for three seconds; there are at most
\* three lanes and one poll a second, so each is returned again and again.
FairSpec ==
    /\ Spec
    /\ WF_vars(PollArrives) /\ WF_vars(PollFails)
    /\ \A s \in 1..MaxInvites : SF_vars(\E r \in rows : r.serial = s /\ PollReturns(r))
    /\ SF_vars(FollowIsDue) /\ SF_vars(Receive)
    /\ WF_vars(ServerAnswers) /\ WF_vars(EndAccept)

-----------------------------------------------------------------------------
\* Properties.

\* The way back from a local id: an invitation on show or being accepted has a
\* local id of its own that leads to the row it came from, and if there is still
\* an invitation in this row then it is this one or one made later.  (The server
\* gives a free rowid to the next invitation; the table of ids, the list and the
\* channel belong to two threads.)
IdsLeadBack ==
    /\ \A i, j \in DOMAIN list : list[i].id = list[j].id => i = j
    /\ \A e \in Range(list) \cup Range(news) \cup (IF Idle THEN {} ELSE {call.entry}) :
          /\ ServerIdForLocal(ids, e.id) = e.row
          /\ \A r \in rows : r.id = e.row => r.serial >= e.serial

\* Whether the server has accepted the invitation with this serial number from
\* this row, or a later one: the acceptance names the row only, so when the row
\* was given again before the overlay heard of it, it is the later one.
AcceptedFor(row, serial) == \E a \in accepted : a.row = row /\ a.serial >= serial

\* The game is told of an invitation only after the server has accepted one for
\* it, in its row and no older than it, whatever became of the row since; and with
\* the session of its host when its kind needs one.
EventsWereAccepted ==
    \A e \in Range(events) : HasPayload(e) /\ AcceptedFor(e.row, e.serial)

OpenFollow(s) == \E r \in rows : r.serial = s /\ r.kind = Follow /\ ~r.accepted

\* A follow is accepted by itself: while the server can be reached and has the
\* session of the host, none stays open without being accepted, whatever was
\* scheduled, on show or under way before.
FollowIsAccepted ==
    <>[]up /\ <>[]published => \A s \in 1..MaxInvites : OpenFollow(s) ~> ~OpenFollow(s)

\* The hooks log in again: when the server can be reached they end up with a token
\* that it takes, though the failures are counted and every tenth only tries.
LoginRecovers == <>[]up => <>[]token
=============================================================================
