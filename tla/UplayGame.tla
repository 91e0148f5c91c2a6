------------------------------ MODULE UplayGame ------------------------------
(***************************************************************************)
(* What the hooks do inside the game with an invitation that the player    *)
(* has accepted: the target that the overlay leaves for the game thread    *)
(* and the event that it sends, UPLAY_GetNextEvent with the one event it   *)
(* may replay (uplay_r1_loader.rs), the party that the game is shown       *)
(* (uplay_r1_loader/party.rs), and the detours of the game's own functions *)
(* that correct its join (hooks.rs): StateAcceptInvite::Enter, which moves *)
(* the descriptor of the session to the controller of matches, and the     *)
(* bridge that completes a StateJoin which seems to wait for no answer.    *)
(*                                                                         *)
(* The overlay's render loop is a thread of its own and arms the target    *)
(* before it sends the event; a detour reads the target when it is entered *)
(* and acts later, and everything else the game thread does is one step.   *)
(*                                                                         *)
(* The game itself is external.  Its part here is what the detours meet:   *)
(* it looks for the session of the last event it was given, puts what it   *)
(* found in a slot, and enters a StateJoin, which one object serves for    *)
(* the whole life of the game.                                             *)
(***************************************************************************)
EXTENDS Integers, FiniteSets, Sequences, SequencesExt

CONSTANTS
    Sessions,    \* sessions of the hosts who invite
    Kinds,       \* kinds of the invitations accepted
    Me, Others,  \* accounts: of this player, of the others
    None,        \* no session, no event, nobody
    Delay,       \* heartbeats before the bridge may act; 120 in the program
    MaxAccepts,  \* bound: invitations accepted
    MaxCalls     \* bound: party functions that the game calls

Private == 1
Lobby   == 2
Follow  == 3
Restore == 4

ASSUME GameAssumption ==
    /\ Kinds \subseteq {Private, Lobby, Follow, Restore}
    /\ Me \notin Others
    /\ Delay \in Nat \ {0} /\ MaxAccepts \in Nat /\ MaxCalls \in Nat
    /\ None \notin Sessions \cup Others \cup {Me}

\* An acceptance, as the overlay gives it to the game thread.
Event == [serial : Nat, kind : Kinds, session : Sessions, sender : Others]

\* The slots that may be empty hold None then, which is nothing they could hold.
Replay == [event : Event, due : BOOLEAN]
Bridge == [session : Sessions, completed : BOOLEAN]

ASSUME NoneAssumption == None \notin Event \cup Replay \cup Bridge

VARIABLES
    accepts,   \* how many invitations were accepted
    arming,    \* the acceptance whose target is set and whose event is not sent
    latest,    \* the last acceptance
    target,    \* PRIVATE_INVITE_MATCH_TARGET: a session, or None
    spent,     \* whether the target of the latest acceptance was acknowledged
    channel,   \* EVENTS
    replay,    \* PENDING_PRIVATE_INVITE_REPLAY: event, due
    given,     \* how often the game was given the event of each acceptance
    search,    \* the event the game is acting on
    slots,     \* owner+0x4e0 and owner+0x4e4
    entering,  \* StateAcceptInvite::Enter: whether under way, the target it read
    chosen,    \* the controller that the game has chosen, for which event
    party,     \* PARTY_INITIALIZED, SOCIAL_PARTY_ACTIVE, GAME_INVITE_ACTIVE, PARTY_MEMBERS
    calls,     \* party functions called so far
    join,      \* the StateJoin: whether it is active, its Storm flag when it was entered
    service,   \* the service of the StateJoin: session, flags
    bridge,    \* ASM_PRIVATE_JOIN_COMPLETION_BRIDGES of the StateJoin
    heart      \* ASM_JOIN_WAIT_HEARTBEATS of the StateJoin, up to Delay

overlay == <<accepts, arming, latest>>
events  == <<channel, replay, given>>
flow    == <<search, slots, entering, chosen>>
social  == <<party, calls>>
joining == <<join, service, bridge, heart>>
vars == <<overlay, target, spent, events, flow, social, joining>>

Init ==
    /\ accepts = 0 /\ arming = None /\ latest = None /\ target = None /\ spent = FALSE
    /\ channel = <<>> /\ replay = None /\ given = <<>>
    /\ search = None /\ slots = [party |-> None, match |-> None]
    /\ entering = [on |-> FALSE, target |-> None]
    /\ chosen = [by |-> "nobody", event |-> None]
    /\ party = [init |-> FALSE, social |-> FALSE, invited |-> FALSE, members |-> <<>>]
    /\ calls = 0
    /\ join = [on |-> FALSE, storm |-> "unresolved"]
    /\ service = [session |-> None, done |-> FALSE, waiting |-> FALSE, other |-> FALSE]
    /\ bridge = None /\ heart = 0

-----------------------------------------------------------------------------
\* The overlay.

\* What arm_party_presence_proof stores.
TargetOf(e) == IF e.kind = Private THEN e.session ELSE None

Arm(kind, session, sender) ==
    /\ arming = None
    /\ accepts < MaxAccepts
    /\ accepts' = accepts + 1
    /\ LET e == [serial |-> accepts + 1, kind |-> kind, session |-> session,
                 sender |-> sender]
       IN  /\ arming' = e /\ latest' = e
           /\ target' = TargetOf(e)
    /\ spent' = FALSE
    /\ given' = Append(given, 0)
    /\ UNCHANGED <<channel, replay, flow, social, joining>>

\* Mutant: only the last event is kept for the game.
SendEvent_Last ==
    /\ arming # None
    /\ channel' = <<arming>>
    /\ arming' = None
    /\ UNCHANGED <<accepts, latest, target, spent, replay, given, flow, social, joining>>

SendEvent ==
    /\ arming # None
    /\ channel' = Append(channel, arming)
    /\ arming' = None
    /\ UNCHANGED <<accepts, latest, target, spent, replay, given, flow, social, joining>>

-----------------------------------------------------------------------------
\* UPLAY_GetNextEvent.

\* The game thread is not inside of a detour.
GameIsFree == ~entering.on

ReplayIsDue ==
    /\ replay # None
    /\ ~replay.due
    /\ replay' = [replay EXCEPT !.due = TRUE]
    /\ UNCHANGED <<overlay, target, spent, channel, given, flow, social, joining>>

\* Mutant: an event that is replayed is put up for another replay.
Scheduled_Again(e, again) ==
    IF e.kind = Private THEN [event |-> e, due |-> FALSE] ELSE replay

\* schedule_private_invite_replay, and the slot after a replay was taken.
Scheduled(e, again) ==
    IF again THEN None
    ELSE IF e.kind = Private THEN [event |-> e, due |-> FALSE]
    ELSE replay

Member(who, leader) == [who |-> who, leader |-> leader]

\* observe_friend_game_invite_accepted, observe_party_game_invite_accepted: the
\* sender becomes the leader of a party of two.
PartyAfter(e) ==
    [init    |-> TRUE,
     social  |-> TRUE,
     invited |-> party.invited \/ e.kind = Follow,
     members |-> <<Member(e.sender, TRUE), Member(Me, FALSE)>>]

\* The game acts on it instead of an earlier one.
Gives(e, again) ==
    /\ given' = [given EXCEPT ![e.serial] = @ + 1]
    /\ replay' = Scheduled(e, again)
    /\ search' = e
    /\ party' = PartyAfter(e)
    /\ UNCHANGED <<overlay, target, spent, slots, entering, chosen, calls, joining>>

GetNextEvent ==
    /\ GameIsFree
    /\ channel # <<>>
    /\ channel' = Tail(channel)
    /\ Gives(Head(channel), FALSE)

\* take_due_private_invite_replay
GetReplay ==
    /\ GameIsFree
    /\ channel = <<>>
    /\ replay # None /\ replay.due
    /\ Gives(replay.event, TRUE)
    /\ UNCHANGED channel

-----------------------------------------------------------------------------
\* StateAcceptInvite::Enter.

\* The game's search puts what it finds in a slot, if anything; then the detour is
\* entered and reads the target.
Enter(found) ==
    /\ GameIsFree
    /\ search # None
    /\ slots' = [slot \in {"party", "match"} |-> IF slot = found THEN search ELSE None]
    /\ entering' = [on |-> TRUE, target |-> target]
    /\ UNCHANGED <<overlay, target, spent, events, search, chosen, social, joining>>

OnlyParty == slots.party # None /\ slots.match = None
OnlyMatch == slots.party = None /\ slots.match # None

\* Mutant: whatever was found goes to the controller of matches.
Moved_Always ==
    IF OnlyParty THEN [party |-> None, match |-> slots.party] ELSE slots

Moved ==
    IF entering.target # None /\ OnlyParty
    THEN [party |-> None, match |-> slots.party] ELSE slots

\* Mutant: it clears whatever target there is.
Acknowledge_Any(session) == target' = None

\* The compare_exchange of acknowledge_private_invite_match_target.
Acknowledge(session) == target' = IF target = session THEN None ELSE target

\* The rest of the detour, with the call of the original: the controller of matches
\* takes what is in its slot, or else the one of parties.
EnterEnds ==
    /\ entering.on
    /\ entering' = [on |-> FALSE, target |-> None]
    /\ IF entering.target # None /\ (OnlyParty \/ OnlyMatch)
       THEN /\ Acknowledge(entering.target)
            /\ spent' = (spent \/ TargetOf(latest) = entering.target)
            /\ replay' = IF replay # None /\ replay.event.session = entering.target
                         THEN None ELSE replay
       ELSE UNCHANGED <<target, spent, replay>>
    /\ chosen' = [by |-> IF Moved.match # None THEN "match"
                         ELSE IF Moved.party # None THEN "party" ELSE "nobody",
                  event |-> search]
    /\ slots' = [party |-> None, match |-> None]
    /\ search' = None
    /\ UNCHANGED <<overlay, channel, given, social, joining>>

-----------------------------------------------------------------------------
\* The StateJoin.

\* Mutant: the bridge of an earlier join stays when the new one needs none.
Armed_Stays(eligible, session) ==
    IF eligible THEN [session |-> session, completed |-> FALSE] ELSE bridge

\* asm_private_join_bridge_arm and _disarm
Armed(eligible, session) ==
    IF eligible THEN [session |-> session, completed |-> FALSE] ELSE None

\* What the detour finds of the Storm session before it calls the original: its
\* flag, which is clear when the game is going to submit the join to the server and
\* set when it waits without; or no session, and then it cannot tell.
Storms == {"unresolved", "clear", "set"}

\* asm_state_join_enter, with the call of the original, which makes the service wait
\* unless it waited already (fresh).  Only a clear flag counts as a join that is
\* submitted.  Rooms, which the controller of matches joins, have sessions of type
\* one.
JoinEnters(storm, fresh, other) ==
    /\ GameIsFree
    /\ ~join.on /\ chosen.by # "nobody"
    /\ join' = [on |-> TRUE, storm |-> storm]
    /\ service' = [session |-> chosen.event.session, done |-> FALSE, waiting |-> TRUE,
                   other |-> other]
    /\ bridge' = Armed(storm # "clear" /\ fresh /\ ~other /\ chosen.by = "match",
                        chosen.event.session)
    /\ chosen' = [by |-> "nobody", event |-> None]
    /\ UNCHANGED <<overlay, target, spent, events, search, slots, entering, social, heart>>

\* Mutant: the heartbeats start again when they have reached the delay.
NextHeart_Wraps == (heart + 1) % Delay

\* asm_join_wait_heartbeat; more than Delay is as good as Delay.
NextHeart == IF heart < Delay THEN heart + 1 ELSE heart

\* The guards of asm_private_join_bridge_try_complete.
BridgeActs ==
    /\ NextHeart >= Delay
    /\ bridge # None /\ ~bridge.completed
    /\ service.session = bridge.session
    /\ ~service.other /\ ~service.done /\ service.waiting

\* asm_state_join_update, up to the call of the original.
JoinUpdates ==
    /\ GameIsFree
    /\ join.on
    /\ heart' = NextHeart
    /\ IF BridgeActs
       THEN /\ bridge' = [bridge EXCEPT !.completed = TRUE]
            /\ service' = [service EXCEPT !.done = TRUE]
       ELSE UNCHANGED <<bridge, service>>
    /\ UNCHANGED <<overlay, target, spent, events, flow, social, join>>

\* The game completes the join when the event for its session comes.
CompletionEvent ==
    /\ join.on /\ ~service.done
    /\ service' = [service EXCEPT !.done = TRUE]
    /\ UNCHANGED <<overlay, target, spent, events, flow, social, join, bridge, heart>>

\* Something else happens to the service: another session, another flag.
ServiceChanges(session, other) ==
    /\ GameIsFree
    /\ join.on
    /\ service' = [service EXCEPT !.session = session, !.other = other]
    /\ service' # service
    /\ UNCHANGED <<overlay, target, spent, events, flow, social, join, bridge, heart>>

\* The original of asm_state_join_update goes on to the next state.
JoinLeaves ==
    /\ GameIsFree
    /\ join.on /\ service.done
    /\ join' = [join EXCEPT !.on = FALSE]
    /\ UNCHANGED <<overlay, target, spent, events, flow, social, service, bridge, heart>>

\* asm_state_join_reset
JoinResets ==
    /\ GameIsFree
    /\ join.on
    /\ join' = [join EXCEPT !.on = FALSE]
    /\ bridge' = None
    /\ service' = [service EXCEPT !.done = FALSE, !.waiting = FALSE]
    /\ UNCHANGED <<overlay, target, spent, events, flow, social, heart>>

-----------------------------------------------------------------------------
\* The party functions.

Calls ==
    /\ GameIsFree
    /\ calls < MaxCalls
    /\ calls' = calls + 1
    /\ UNCHANGED <<overlay, target, spent, events, flow, joining>>

PartyInit == Calls /\ party' = [party EXCEPT !.init = TRUE]

InvitePartyToGame == Calls /\ party' = [party EXCEPT !.init = TRUE, !.social = TRUE]

InviteToParty(who) ==
    /\ Calls
    /\ party' = [party EXCEPT !.init = TRUE, !.social = TRUE,
                              !.members = <<Member(Me, TRUE), Member(who, FALSE)>>]

Promoted(ms, who) == [i \in DOMAIN ms |-> Member(ms[i].who, ms[i].who = who)]

PromoteToLeader(who) ==
    Calls /\ party' = [party EXCEPT !.members = Promoted(@, who)]

RespondToGameInvite(accept) ==
    Calls /\ party' = [party EXCEPT !.init = TRUE, !.invited = accept]

-----------------------------------------------------------------------------
Next ==
    \/ \E kind \in Kinds, session \in Sessions, sender \in Others : Arm(kind, session, sender)
    \/ SendEvent
    \/ ReplayIsDue
    \/ GetNextEvent \/ GetReplay
    \/ \E found \in {"party", "match", "nothing"} : Enter(found)
    \/ EnterEnds
    \/ \E storm \in Storms, fresh, other \in BOOLEAN : JoinEnters(storm, fresh, other)
    \/ JoinUpdates \/ CompletionEvent
    \/ \E session \in Sessions, other \in BOOLEAN : ServiceChanges(session, other)
    \/ JoinLeaves \/ JoinResets
    \/ PartyInit \/ InvitePartyToGame
    \/ \E who \in Others : InviteToParty(who)
    \/ \E who \in Others \cup {Me} : PromoteToLeader(who)
    \/ \E accept \in BOOLEAN : RespondToGameInvite(accept)

Spec == Init /\ [][Next]_vars

\* The render loop goes on, and the game asks for events and updates its states
\* with every frame; a detour returns.
FairSpec ==
    /\ Spec
    /\ WF_vars(SendEvent)
    /\ WF_vars(GetNextEvent)
    /\ WF_vars(EnterEnds)
    /\ WF_vars(JoinUpdates)

-----------------------------------------------------------------------------
\* Properties.

\* The game is given the event of an acceptance once, and once more at most when it
\* is for a private room; a replay that is still to come counts.  (The replay is one
\* slot that UPLAY_GetNextEvent and the detour of Enter share.)
GivenTwiceAtMost ==
    \A n \in DOMAIN given :
        /\ given[n] <= 2
        /\ replay # None /\ replay.event.serial = n => given[n] = 1

\* The handoff to Enter survives what happens between the two threads: the target
\* of the latest acceptance stays until an Enter has acknowledged its session.
TargetSurvives ==
    latest # None /\ ~spent => target = TargetOf(latest)

\* An Enter for the latest acceptance chooses the controller of matches for a
\* private room, unless an earlier Enter took the target of its session, and is
\* left alone for other invitations.
RightController ==
    [][entering.on /\ ~entering'.on /\ search = latest /\ OnlyParty =>
          /\ search.kind = Private /\ ~spent => chosen'.by = "match"
          /\ search.kind # Private => chosen'.by = "party"]_vars

BridgeWrites ==
    bridge # None /\ ~bridge.completed /\ bridge' # None /\ bridge'.completed

\* The bridge leaves a join alone that the detour saw on its way to the server, and
\* every join of another session than it was armed for, whichever join of the same
\* object it was armed for before.  A join without a Storm session may be completed
\* although the server is going to answer it: nobody can tell.
SubmittedJoinsAreLeftAlone ==
    [][BridgeWrites =>
          join.on /\ join.storm # "clear" /\ service.session = bridge.session]_vars

\* Every acceptance reaches the game.
EventsArrive == \A n \in 1..MaxAccepts : accepts >= n ~> accepts >= n /\ given[n] >= 1

Stuck ==
    /\ join.on /\ bridge # None /\ ~bridge.completed
    /\ service.session = bridge.session /\ service.waiting /\ ~service.done /\ ~service.other

\* A join that the bridge is armed for does not wait for ever, though its completion
\* event may never come.
ArmedJoinsEnd == Stuck ~> ~Stuck
=============================================================================
