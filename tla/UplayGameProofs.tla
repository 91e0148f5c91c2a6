-------------------------- MODULE UplayGameProofs --------------------------
(***************************************************************************)
(* What TLAPS proves of UplayGame, for any sessions, accounts, delay and   *)
(* number of acceptances: the game is given an acceptance twice at most,   *)
(* the target of the latest one survives the two threads, Enter chooses    *)
(* the right controller and the bridge leaves alone every join that the    *)
(* detour saw on its way to the server.                                    *)
(*                                                                         *)
(* The serial numbers carry the first: an acceptance is being armed, or in *)
(* the channel, or was given (Queued, Counted).  The target carries the    *)
(* third: what Enter has read is the target of the latest acceptance as    *)
(* long as the game acts on that one (TargetInv), since a newer one has    *)
(* a larger serial number.                                                 *)
(***************************************************************************)
EXTENDS UplayGame, SequenceTheorems, TLAPS

Typed ==
    /\ accepts \in Nat
    /\ arming \in Event \cup {None}
    /\ latest \in Event \cup {None}
    /\ spent \in BOOLEAN
    /\ channel \in Seq(Event)
    /\ replay \in Replay \cup {None}
    /\ given \in Seq(Nat)
    /\ search \in Event \cup {None}
    /\ entering \in [on : BOOLEAN, target : Sessions \cup {None}]
    /\ entering.on => search # None
    /\ target \in Sessions \cup {None}
    /\ chosen.by # "nobody" => chosen.event \in Event
    /\ join \in [on : BOOLEAN, storm : Storms]
    /\ bridge \in Bridge \cup {None}

\* An acceptance on its way to the game was not given yet, and is on its way once.
Queued ==
    /\ arming # None =>
           /\ arming.serial \in DOMAIN given
           /\ given[arming.serial] = 0
           /\ \A i \in DOMAIN channel : channel[i].serial # arming.serial
    /\ \A i \in DOMAIN channel :
           /\ channel[i].serial \in DOMAIN given
           /\ given[channel[i].serial] = 0
    /\ \A i, j \in DOMAIN channel : channel[i].serial = channel[j].serial => i = j

\* Every acceptance is counted, and one that may be replayed was given once.
Counted ==
    /\ Len(given) = accepts
    /\ replay # None => replay.event.serial \in DOMAIN given
    /\ GivenTwiceAtMost

GivenInv == Queued /\ Counted

\* What the target and the one that Enter has read say of the latest acceptance.
TargetInv ==
    /\ latest # None => latest.serial = accepts
    /\ search # None => search.serial <= accepts
    /\ target # None \/ entering.target # None \/ spent => latest # None
    /\ spent => latest.kind = Private
    /\ TargetSurvives
    /\ entering.on /\ search = latest =>
           /\ ~spent => entering.target = TargetOf(latest)
           /\ latest.kind # Private => entering.target = None

BridgeInv == bridge # None => join.storm # "clear"

GameInv == Typed /\ GivenInv /\ TargetInv /\ BridgeInv

-----------------------------------------------------------------------------
\* What the steps do, by the state they are about.

\* Steps of the StateJoin and of the party functions.
Elsewhere == UNCHANGED <<overlay, target, spent, events, search, entering>>

\* Steps that leave the StateJoin alone, and the controller that will enter it.
NoJoin == UNCHANGED <<joining, chosen>>

JoinStep ==
    \/ \E storm \in Storms, fresh, other \in BOOLEAN : JoinEnters(storm, fresh, other)
    \/ JoinUpdates \/ CompletionEvent
    \/ \E session \in Sessions, other \in BOOLEAN : ServiceChanges(session, other)
    \/ JoinLeaves \/ JoinResets

CallStep ==
    \/ PartyInit \/ InvitePartyToGame
    \/ \E who \in Others : InviteToParty(who)
    \/ \E who \in Others \cup {Me} : PromoteToLeader(who)
    \/ \E accept \in BOOLEAN : RespondToGameInvite(accept)

LEMMA StepKinds ==
    ASSUME Next
    PROVE  \/ \E kind \in Kinds, session \in Sessions, sender \in Others : Arm(kind, session, sender)
           \/ SendEvent \/ ReplayIsDue \/ GetNextEvent \/ GetReplay
           \/ \E found \in {"party", "match", "nothing"} : Enter(found)
           \/ EnterEnds
           \/ JoinStep \/ CallStep
  BY DEF Next, JoinStep, CallStep

LEMMA CallFrame == CallStep => Elsewhere /\ NoJoin
  BY DEF CallStep, PartyInit, InvitePartyToGame, InviteToParty, PromoteToLeader,
         RespondToGameInvite, Calls, Elsewhere, NoJoin, flow

LEMMA JoinFrame == JoinStep => Elsewhere
  BY DEF JoinStep, JoinEnters, JoinUpdates, CompletionEvent, ServiceChanges, JoinLeaves,
         JoinResets, Elsewhere, flow

\* The event of an acceptance.
LEMMA EventFact ==
    ASSUME NEW kind \in Kinds, NEW session \in Sessions, NEW sender \in Others, accepts \in Nat
    PROVE  [serial |-> accepts + 1, kind |-> kind, session |-> session, sender |-> sender]
               \in Event \ {None}
  BY NoneAssumption DEF Event

-----------------------------------------------------------------------------
\* Types.

LEMMA TypedInit == Init => Typed
<1> SUFFICES ASSUME Init PROVE Typed
  OBVIOUS
<1>1. <<>> \in Seq(Event) /\ <<>> \in Seq(Nat)
  BY EmptySeq
<1> QED
  BY <1>1 DEF Init, Typed, Storms

\* The replay slot after an event was given.
LEMMA ScheduledType ==
    ASSUME NEW e \in Event, NEW again \in BOOLEAN, replay \in Replay \cup {None}
    PROVE  Scheduled(e, again) \in Replay \cup {None}
  BY DEF Scheduled, Replay

LEMMA GivesTyped ==
    ASSUME Typed, NEW e \in Event, e.serial \in DOMAIN given, NEW again \in BOOLEAN,
           Gives(e, again), channel' \in Seq(Event)
    PROVE  Typed'
<1>1. given' \in Seq(Nat)
  <2>1. given \in Seq(Nat) /\ e.serial \in 1..Len(given) /\ given[e.serial] + 1 \in Nat
    BY DEF Typed
  <2> QED
    BY <2>1, ExceptSeq DEF Gives
<1>2. replay' \in Replay \cup {None}
  BY ScheduledType DEF Typed, Gives
<1> QED
  BY <1>1, <1>2, NoneAssumption DEF Typed, Gives, overlay, joining

LEMMA JoinTyped ==
    ASSUME Typed, JoinStep
    PROVE  /\ join' \in [on : BOOLEAN, storm : Storms]
           /\ bridge' \in Bridge \cup {None}
           /\ chosen'.by # "nobody" => chosen'.event \in Event
<1>1. ASSUME NEW storm \in Storms, NEW fresh \in BOOLEAN, NEW other \in BOOLEAN,
             JoinEnters(storm, fresh, other)
      PROVE  /\ join' \in [on : BOOLEAN, storm : Storms]
             /\ bridge' \in Bridge \cup {None}
             /\ chosen'.by # "nobody" => chosen'.event \in Event
  <2>1. chosen.event.session \in Sessions
    BY <1>1 DEF JoinEnters, Typed, Event
  <2> QED
    BY <1>1, <2>1 DEF JoinEnters, Armed, Bridge
<1>2. CASE JoinUpdates
  BY <1>2 DEF JoinUpdates, BridgeActs, Typed, Bridge, flow
<1>3. CASE \/ CompletionEvent
            \/ \E session \in Sessions, other \in BOOLEAN : ServiceChanges(session, other)
  BY <1>3 DEF CompletionEvent, ServiceChanges, Typed, flow
<1>4. CASE JoinLeaves \/ JoinResets
  BY <1>4 DEF JoinLeaves, JoinResets, Typed, flow
<1> QED
  BY <1>1, <1>2, <1>3, <1>4 DEF JoinStep

LEMMA TypedStep == Typed /\ GivenInv /\ [Next]_vars => Typed'
<1> SUFFICES ASSUME Typed, GivenInv, [Next]_vars PROVE Typed'
  OBVIOUS
<1>1. ASSUME NEW kind \in Kinds, NEW session \in Sessions, NEW sender \in Others,
             Arm(kind, session, sender)
      PROVE  Typed'
  <2> DEFINE e == [serial |-> accepts + 1, kind |-> kind, session |-> session, sender |-> sender]
  <2>1. e \in Event
    BY EventFact DEF Typed
  <2>2. TargetOf(e) \in Sessions \cup {None}
    BY DEF TargetOf
  <2>3. given' \in Seq(Nat)
    BY <1>1, AppendProperties DEF Arm, Typed
  <2>4. /\ accepts' = accepts + 1 /\ arming' = e /\ latest' = e /\ target' = TargetOf(e)
        /\ spent' = FALSE
        /\ UNCHANGED <<channel, replay, search, entering, chosen, join, bridge>>
    BY <1>1 DEF Arm, flow, joining
  <2>5. accepts' \in Nat
    BY <2>4 DEF Typed
  <2> HIDE DEF e
  <2> QED
    BY <2>1, <2>2, <2>3, <2>4, <2>5 DEF Typed
<1>2. CASE SendEvent
  BY <1>2 DEF SendEvent, Typed, flow, joining
<1>3. CASE ReplayIsDue
  BY <1>3 DEF ReplayIsDue, Typed, overlay, flow, joining, Replay
<1>4. CASE GetNextEvent
  <2>1. /\ Head(channel) = channel[1] /\ 1 \in DOMAIN channel /\ Head(channel) \in Event
        /\ channel' \in Seq(Event)
    BY <1>4, HeadTailProperties DEF GetNextEvent, Typed
  <2>2. Head(channel).serial \in DOMAIN given
    BY <2>1 DEF GivenInv, Queued
  <2> QED
    BY <1>4, <2>1, <2>2, GivesTyped DEF GetNextEvent
<1>5. CASE GetReplay
  <2>1. replay.event \in Event /\ replay.event.serial \in DOMAIN given
    BY <1>5 DEF GetReplay, Typed, Replay, GivenInv, Counted
  <2> QED
    BY <1>5, <2>1, GivesTyped DEF GetReplay, Typed
<1>6. ASSUME NEW found \in {"party", "match", "nothing"}, Enter(found) PROVE Typed'
  BY <1>6 DEF Enter, Typed, overlay, events, joining
<1>7. CASE EnterEnds
  BY <1>7 DEF EnterEnds, Acknowledge, Typed, overlay, joining
<1>8. CASE JoinStep
  BY <1>8, JoinFrame, JoinTyped DEF Elsewhere, overlay, events, Typed
<1>9. CASE CallStep
  BY <1>9, CallFrame DEF Elsewhere, NoJoin, overlay, events, joining, Typed
<1>10. CASE UNCHANGED vars
  BY <1>10 DEF vars, overlay, events, flow, joining, Typed
<1> QED
  BY <1>1, <1>2, <1>3, <1>4, <1>5, <1>6, <1>7, <1>8, <1>9, <1>10, StepKinds

-----------------------------------------------------------------------------
\* Who is given what, how often.

LEMMA GivenInit == Init => GivenInv
  BY DEF Init, GivenInv, Queued, Counted, GivenTwiceAtMost

\* A queued event has its first turn.
LEMMA FirstTurn ==
    ASSUME Typed, GivenInv, channel # <<>>, channel' = Tail(channel), Gives(Head(channel), FALSE)
    PROVE  GivenInv'
<1> DEFINE e == Head(channel)
<1>1. e = channel[1] /\ 1 \in DOMAIN channel /\ e \in Event
  BY DEF Typed
<1>2. /\ DOMAIN given' = DOMAIN given /\ Len(given') = Len(given)
      /\ given'[e.serial] = 1
      /\ \A n \in DOMAIN given : n # e.serial => given'[n] = given[n]
  BY <1>1 DEF Gives, Typed, GivenInv, Queued
<1>3. \A i \in DOMAIN channel' : i + 1 \in DOMAIN channel /\ channel'[i] = channel[i + 1] /\ i \in Nat
  BY DEF Typed
<1>4. Queued'
  <2>1. ASSUME NEW i \in DOMAIN channel'
        PROVE  /\ channel'[i].serial \in DOMAIN given
               /\ channel'[i].serial # e.serial
               /\ given[channel'[i].serial] = 0
    BY <1>1, <1>3 DEF GivenInv, Queued, Typed
  <2>2. \A i, j \in DOMAIN channel' : channel'[i].serial = channel'[j].serial => i = j
    BY <1>3 DEF GivenInv, Queued
  <2>3. arming' = arming
    BY DEF Gives, overlay
  <2>4. arming # None => /\ arming.serial # e.serial
                         /\ \A i \in DOMAIN channel' : channel'[i].serial # arming.serial
    BY <1>1, <1>3 DEF GivenInv, Queued
  <2> QED
    BY <1>2, <2>1, <2>2, <2>3, <2>4 DEF GivenInv, Queued
<1>5. Counted'
  <2>1. replay' # None =>
          \/ replay'.event = e
          \/ replay' = replay /\ replay.event.serial # e.serial
    BY <1>1 DEF Gives, Scheduled, GivenInv, Queued, Counted, GivenTwiceAtMost
  <2>2. accepts' = accepts
    BY DEF Gives, overlay
  <2>3. e.serial \in DOMAIN given
    BY <1>1 DEF GivenInv, Queued
  <2> QED
    BY <1>2, <2>1, <2>2, <2>3 DEF GivenInv, Counted, GivenTwiceAtMost
<1> QED
  BY <1>4, <1>5 DEF GivenInv

\* An event that is replayed has its second turn, and no third one.
LEMMA SecondTurn ==
    ASSUME Typed, GivenInv, replay # None, UNCHANGED channel, Gives(replay.event, TRUE)
    PROVE  GivenInv'
<1> DEFINE n == replay.event.serial
<1>1. n \in DOMAIN given /\ given[n] = 1
  BY DEF GivenInv, Counted, GivenTwiceAtMost
<1>2. /\ DOMAIN given' = DOMAIN given /\ Len(given') = Len(given)
      /\ given'[n] = 2
      /\ \A m \in DOMAIN given : m # n => given'[m] = given[m]
  BY <1>1 DEF Gives, Typed
<1>3. replay' = None /\ arming' = arming /\ accepts' = accepts
  BY DEF Gives, Scheduled, overlay
<1> QED
  BY <1>1, <1>2, <1>3 DEF GivenInv, Queued, Counted, GivenTwiceAtMost

LEMMA GivenStep == Typed /\ GivenInv /\ [Next]_vars => GivenInv'
<1> SUFFICES ASSUME Typed, GivenInv, [Next]_vars PROVE GivenInv'
  OBVIOUS
<1>1. ASSUME NEW kind \in Kinds, NEW session \in Sessions, NEW sender \in Others,
             Arm(kind, session, sender)
      PROVE  GivenInv'
  <2>1. /\ Len(given') = Len(given) + 1
        /\ DOMAIN given' = DOMAIN given \cup {accepts + 1}
        /\ accepts + 1 \notin DOMAIN given
        /\ given'[accepts + 1] = 0
        /\ \A n \in DOMAIN given : given'[n] = given[n]
    BY <1>1 DEF Arm, Typed, GivenInv, Counted
  <2>2. arming'.serial = accepts + 1 /\ accepts' = accepts + 1
    BY <1>1 DEF Arm
  <2>3. channel' = channel /\ replay' = replay
    BY <1>1 DEF Arm
  <2>4. Queued'
    BY <2>1, <2>2, <2>3 DEF GivenInv, Queued
  <2>5. Counted'
    BY <2>1, <2>2, <2>3 DEF GivenInv, Counted, GivenTwiceAtMost
  <2> QED
    BY <2>4, <2>5 DEF GivenInv
<1>2. CASE SendEvent
  <2>1. /\ channel' = Append(channel, arming) /\ arming # None /\ arming \in Event
        /\ arming' = None /\ UNCHANGED <<given, replay, accepts>>
    BY <1>2 DEF SendEvent, Typed
  <2>2. \A i \in DOMAIN channel' :
          \/ i \in DOMAIN channel /\ channel'[i] = channel[i]
          \/ i = Len(channel) + 1 /\ channel'[i] = arming
    BY <2>1 DEF Typed
  <2>3. Queued'
    BY <2>1, <2>2 DEF GivenInv, Queued
  <2> QED
    BY <2>1, <2>3 DEF GivenInv, Counted, GivenTwiceAtMost
<1>3. CASE ReplayIsDue
  BY <1>3 DEF ReplayIsDue, Typed, Replay, overlay, GivenInv, Queued, Counted, GivenTwiceAtMost
<1>4. CASE GetNextEvent
  BY <1>4, FirstTurn DEF GetNextEvent
<1>5. CASE GetReplay
  BY <1>5, SecondTurn DEF GetReplay
<1>6. ASSUME NEW found \in {"party", "match", "nothing"}, Enter(found) PROVE GivenInv'
  BY <1>6 DEF Enter, overlay, events, GivenInv, Queued, Counted, GivenTwiceAtMost
<1>7. CASE EnterEnds
  BY <1>7 DEF EnterEnds, overlay, GivenInv, Queued, Counted, GivenTwiceAtMost
<1>8. CASE Elsewhere
  BY <1>8 DEF Elsewhere, overlay, events, GivenInv, Queued, Counted, GivenTwiceAtMost
<1>10. CASE UNCHANGED vars
  BY <1>10 DEF vars, overlay, events, GivenInv, Queued, Counted, GivenTwiceAtMost
<1> QED
  BY <1>1, <1>2, <1>3, <1>4, <1>5, <1>6, <1>7, <1>8, <1>10, StepKinds, JoinFrame, CallFrame

-----------------------------------------------------------------------------
\* The target and what Enter has read of it.

LEMMA TargetInit == Init => TargetInv
  BY DEF Init, TargetInv, TargetSurvives

LEMMA TargetStep == Typed /\ GivenInv /\ TargetInv /\ [Next]_vars => TargetInv'
<1> SUFFICES ASSUME Typed, GivenInv, TargetInv, [Next]_vars PROVE TargetInv'
  OBVIOUS
<1>1. ASSUME NEW kind \in Kinds, NEW session \in Sessions, NEW sender \in Others,
             Arm(kind, session, sender)
      PROVE  TargetInv'
  <2>1. /\ latest' \in Event \ {None} /\ latest'.serial = accepts + 1 /\ accepts' = accepts + 1
        /\ target' = TargetOf(latest') /\ spent' = FALSE
        /\ UNCHANGED <<search, entering>>
    BY <1>1, EventFact DEF Arm, Typed, flow
  <2>2. search # None => search.serial < accepts'
    BY <2>1 DEF TargetInv, Typed, Event
  <2>3. entering.on => search' # latest'
    BY <2>1, <2>2 DEF Typed, Event
  <2> QED
    BY <2>1, <2>2, <2>3 DEF TargetInv, TargetSurvives, Typed, Event
<1>2. CASE SendEvent
  BY <1>2 DEF SendEvent, TargetInv, TargetSurvives, flow
<1>3. CASE ReplayIsDue
  BY <1>3 DEF ReplayIsDue, TargetInv, TargetSurvives, overlay, flow
<1>4. ASSUME NEW e \in Event, NEW again \in BOOLEAN, GameIsFree, Gives(e, again),
             e.serial \in DOMAIN given
      PROVE  TargetInv'
  <2>1. e.serial <= accepts
    BY <1>4 DEF GivenInv, Counted, Typed
  <2> QED
    BY <1>4, <2>1 DEF Gives, GameIsFree, TargetInv, TargetSurvives, overlay
<1>5. CASE GetNextEvent
  <2>1. Head(channel) = channel[1] /\ 1 \in DOMAIN channel /\ Head(channel) \in Event
    BY <1>5, HeadTailProperties DEF GetNextEvent, Typed
  <2> QED
    BY <1>4, <1>5, <2>1 DEF GetNextEvent, GivenInv, Queued
<1>6. CASE GetReplay
  <2>1. replay.event \in Event /\ replay.event.serial \in DOMAIN given
    BY <1>6 DEF GetReplay, Typed, Replay, GivenInv, Counted
  <2> QED
    BY <1>4, <1>6, <2>1 DEF GetReplay
<1>7. ASSUME NEW found \in {"party", "match", "nothing"}, Enter(found) PROVE TargetInv'
  <2>1. search = latest /\ latest.kind # Private => target = None
    BY <1>7 DEF Enter, TargetInv, TargetSurvives, TargetOf
  <2> QED
    BY <1>7, <2>1 DEF Enter, TargetInv, TargetSurvives, overlay
<1>8. CASE EnterEnds
  <2>1. /\ entering' = [on |-> FALSE, target |-> None] /\ search' = None
        /\ UNCHANGED <<accepts, latest>>
    BY <1>8 DEF EnterEnds, overlay
  <2>2. CASE entering.target # None /\ (OnlyParty \/ OnlyMatch)
    <3>1. /\ target' = IF target = entering.target THEN None ELSE target
          /\ spent' = (spent \/ TargetOf(latest) = entering.target)
      BY <1>8, <2>2 DEF EnterEnds, Acknowledge
    <3>2. latest # None
      BY <2>2 DEF TargetInv
    <3>3. TargetOf(latest) = entering.target => latest.kind = Private
      BY <2>2 DEF TargetOf
    <3> QED
      BY <2>1, <3>1, <3>2, <3>3 DEF TargetInv, TargetSurvives
  <2>3. CASE ~(entering.target # None /\ (OnlyParty \/ OnlyMatch))
    BY <1>8, <2>1, <2>3 DEF EnterEnds, TargetInv, TargetSurvives
  <2> QED
    BY <2>2, <2>3
<1>9. CASE Elsewhere
  BY <1>9 DEF Elsewhere, overlay, TargetInv, TargetSurvives
<1>10. CASE UNCHANGED vars
  BY <1>10 DEF vars, overlay, flow, TargetInv, TargetSurvives
<1> QED
  BY <1>1, <1>2, <1>3, <1>5, <1>6, <1>7, <1>8, <1>9, <1>10, StepKinds, JoinFrame, CallFrame

-----------------------------------------------------------------------------
\* The bridge.

LEMMA BridgeInit == Init => BridgeInv
  BY DEF Init, BridgeInv

LEMMA JoinBridge == Typed /\ BridgeInv /\ JoinStep => BridgeInv'
<1> SUFFICES ASSUME Typed, BridgeInv, JoinStep PROVE BridgeInv'
  OBVIOUS
<1>1. ASSUME NEW storm \in Storms, NEW fresh \in BOOLEAN, NEW other \in BOOLEAN,
             JoinEnters(storm, fresh, other)
      PROVE  BridgeInv'
  BY <1>1 DEF JoinEnters, Armed, BridgeInv
<1>2. CASE JoinUpdates
  BY <1>2 DEF JoinUpdates, BridgeActs, BridgeInv
<1>3. CASE \/ CompletionEvent
            \/ \E session \in Sessions, other \in BOOLEAN : ServiceChanges(session, other)
  BY <1>3 DEF CompletionEvent, ServiceChanges, BridgeInv
<1>4. CASE JoinLeaves \/ JoinResets
  BY <1>4 DEF JoinLeaves, JoinResets, BridgeInv, Typed
<1> QED
  BY <1>1, <1>2, <1>3, <1>4 DEF JoinStep

LEMMA EventsNoJoin ==
    ASSUME [Next]_vars, ~JoinStep
    PROVE  UNCHANGED <<join, service, bridge>>
<1>1. CASE CallStep
  BY <1>1, CallFrame DEF NoJoin, joining
<1>2. CASE UNCHANGED vars
  BY <1>2 DEF vars, joining
<1> QED
  BY <1>1, <1>2, StepKinds DEF Arm, SendEvent, ReplayIsDue, GetNextEvent, GetReplay, Gives, Enter,
     EnterEnds, joining

LEMMA BridgeStep == Typed /\ BridgeInv /\ [Next]_vars => BridgeInv'
  BY JoinBridge, EventsNoJoin DEF BridgeInv

-----------------------------------------------------------------------------
\* The theorems.

LEMMA InitInv == Init => GameInv
  BY TypedInit, GivenInit, TargetInit, BridgeInit DEF GameInv

LEMMA StepInv == GameInv /\ [Next]_vars => GameInv'
  BY TypedStep, GivenStep, TargetStep, BridgeStep DEF GameInv

LEMMA SpecInv == Spec => []GameInv
  BY InitInv, StepInv, PTL DEF Spec

\* The game is given the event of an acceptance once, and at most once more by
\* the replay, though two functions of the game share the one slot of the replay.
THEOREM NoThirdEvent == Spec => []GivenTwiceAtMost
  <1>1. GameInv => GivenTwiceAtMost
    BY DEF GameInv, GivenInv, Counted
  <1> QED BY SpecInv, <1>1, PTL

\* Whatever the render loop arms while Enter is under way: the target of the
\* latest acceptance stays until Enter has acknowledged its session.
THEOREM LatestTargetSurvives == Spec => []TargetSurvives
  <1>1. GameInv => TargetSurvives
    BY DEF GameInv, TargetInv
  <1> QED BY SpecInv, <1>1, PTL

\* An Enter that acts on the latest acceptance chooses the controller of matches
\* for a private room and leaves other invitations to the controller of parties.
THEOREM EnterChoosesRight == Spec => RightController
  <1> DEFINE Step == entering.on /\ ~entering'.on /\ search = latest /\ OnlyParty =>
                        /\ search.kind = Private /\ ~spent => chosen'.by = "match"
                        /\ search.kind # Private => chosen'.by = "party"
  <1>1. ASSUME GameInv, [Next]_vars PROVE [Step]_vars
    <2> SUFFICES ASSUME entering.on, ~entering'.on, search = latest, OnlyParty PROVE Step
      OBVIOUS
    <2>1. EnterEnds
      <3>1. CASE JoinStep \/ CallStep
        BY <3>1, JoinFrame, CallFrame DEF Elsewhere
      <3>2. CASE UNCHANGED vars
        BY <3>2 DEF vars, flow
      <3>3. ASSUME NEW kind \in Kinds, NEW session \in Sessions, NEW sender \in Others,
                   Arm(kind, session, sender)
            PROVE  FALSE
        BY <3>3 DEF Arm, flow
      <3>4. CASE SendEvent \/ ReplayIsDue \/ GetNextEvent \/ GetReplay
        BY <3>4 DEF SendEvent, ReplayIsDue, GetNextEvent, GetReplay, GameIsFree, flow
      <3>5. ASSUME NEW found \in {"party", "match", "nothing"}, Enter(found) PROVE FALSE
        BY <3>5 DEF Enter, GameIsFree
      <3> QED
        BY <1>1, <3>1, <3>2, <3>3, <3>4, <3>5, StepKinds
    <2>2. search \in Event
      BY <1>1 DEF GameInv, Typed
    <2>3. search.kind = Private /\ ~spent => entering.target = search.session
      BY <1>1 DEF GameInv, TargetInv, TargetOf
    <2>4. search.session # None
      BY <2>2, GameAssumption DEF Event
    <2>5. search.kind # Private => entering.target = None
      BY <1>1 DEF GameInv, TargetInv
    <2> QED
      BY <2>1, <2>3, <2>4, <2>5 DEF EnterEnds, Moved, OnlyParty
  <1>2. RightController <=> [][Step]_vars
    BY DEF RightController
  <1> QED BY SpecInv, <1>1, <1>2, PTL DEF Spec

\* The bridge completes no join that the detour saw on its way to the server, and
\* none of another session than it was armed for: when the StateJoin is entered
\* again it is armed again or taken away (asm_private_join_bridge_arm, _disarm).
THEOREM BridgeLeavesSubmittedJoins == Spec => SubmittedJoinsAreLeftAlone
  <1> DEFINE Step == BridgeWrites => join.on /\ join.storm # "clear" /\ service.session = bridge.session
  <1>1. ASSUME GameInv, [Next]_vars PROVE [Step]_vars
    <2> SUFFICES ASSUME BridgeWrites PROVE Step
      OBVIOUS
    <2>1. CASE JoinUpdates
      BY <1>1, <2>1 DEF JoinUpdates, BridgeActs, BridgeWrites, GameInv, BridgeInv
    <2>2. ASSUME NEW storm \in Storms, NEW fresh \in BOOLEAN, NEW other \in BOOLEAN,
                 JoinEnters(storm, fresh, other)
          PROVE  FALSE
      BY <2>2 DEF JoinEnters, Armed, BridgeWrites
    <2>3. CASE \/ CompletionEvent \/ JoinLeaves \/ JoinResets
                \/ \E session \in Sessions, other \in BOOLEAN : ServiceChanges(session, other)
      BY <2>3 DEF CompletionEvent, ServiceChanges, JoinLeaves, JoinResets, BridgeWrites
    <2>4. CASE ~JoinStep
      BY <1>1, <2>4, EventsNoJoin DEF BridgeWrites
    <2> QED
      BY <2>1, <2>2, <2>3, <2>4 DEF JoinStep
  <1>2. SubmittedJoinsAreLeftAlone <=> [][Step]_vars
    BY DEF SubmittedJoinsAreLeftAlone
  <1> QED BY SpecInv, <1>1, <1>2, PTL DEF Spec
=============================================================================
