------------------------ MODULE InviteOverlayProofs ------------------------
(***************************************************************************)
(* What TLAPS proves of InviteOverlay, for invitations of any kinds and    *)
(* number, any delays, failures, restarts and lost answers: a local id     *)
(* leads back to the row of its invitation or to a later invitation in it, *)
(* and the game is told of an invitation only when the server has accepted *)
(* it, or a later one that was given its row.                              *)
(*                                                                         *)
(* Both rest on what is known of an invitation on its way (Named): no part *)
(* of the program compares it with the server's rows, which go and whose   *)
(* ids are given again, but each of them was made before or after it.      *)
(***************************************************************************)
EXTENDS InviteOverlay, SequenceTheorems, WellFoundedInduction, TLAPS

AllKinds == {Private, Lobby, Follow, Restore}

Row   == [id : Nat, serial : Nat, kind : AllKinds, accepted : BOOLEAN]
Entry == [id : Int, serial : Nat, row : Nat, kind : AllKinds, session : BOOLEAN]
Local == [server : Nat, local : Int, retired : BOOLEAN]

\* The server's rows: ids and serial numbers are unique, and none is larger than
\* the number of invitations made.
RowsInv ==
    /\ plan \in Seq(AllKinds) /\ made \in Nat /\ published \in BOOLEAN
    /\ rows \subseteq Row
    /\ \A r \in rows : r.id <= made /\ r.serial <= made
    /\ \A r, q \in rows : r.id = q.id \/ r.serial = q.serial => r = q

\* The table of ids: a new local id is below all others, and each leads to the
\* server id that it was made for.
IdsInv ==
    /\ DOMAIN ids = {"next", "current", "server"}
    /\ ids.next \in Int
    /\ DOMAIN ids.server \subseteq Int
    /\ \A l \in DOMAIN ids.server : ids.next < l
    /\ ids.current \subseteq Local
    /\ \A c \in ids.current : c.local \in DOMAIN ids.server /\ ids.server[c.local] = c.server

\* What is known of an invitation with this serial number, delivered from this row.
Named(serial, row) ==
    /\ serial <= made
    /\ \A r \in rows :
           /\ r.id = row => r.serial >= serial
           /\ r.serial = serial => r.id = row

AnswerInv ==
    answer # Absent =>
        /\ answer \in [id : Nat, serial : Nat, kind : AllKinds, session : BOOLEAN]
        /\ Named(answer.serial, answer.id)

\* What is known of an invitation on its way through the overlay.
EntryInv(e) ==
    /\ e.id \in DOMAIN ids.server
    /\ ids.server[e.id] = e.row
    /\ Named(e.serial, e.row)

Known == {e \in Entry : EntryInv(e)}

ListInv ==
    /\ list \in Seq(Known)
    /\ news \in Seq(Known)
    /\ \A i, j \in DOMAIN list : list[i].id = list[j].id => i = j

CallInv ==
    ~Idle =>
        /\ call \in [id : Int, entry : Known, server : Nat, answered : {"not", "yes", "error"}]
        /\ call.server = call.entry.row
        /\ call.answered = "yes" => AcceptedFor(call.entry.row, call.entry.serial)

EventsInv ==
    /\ events \in Seq([serial : Nat, row : Nat, kind : AllKinds, session : BOOLEAN])
    /\ \A i \in DOMAIN events :
           HasPayload(events[i]) /\ AcceptedFor(events[i].row, events[i].serial)

OverlayInv == RowsInv /\ IdsInv /\ AnswerInv /\ ListInv /\ CallInv /\ EventsInv

-----------------------------------------------------------------------------
\* The server's rows.

\* A set of naturals with a member and a bound has a largest one, which is its Max.
LEMMA MaxFact ==
    ASSUME NEW n \in Nat, NEW S, S # {}, S \subseteq 0..n
    PROVE  Max(S) \in S /\ \A x \in S : x <= Max(S)
<1> DEFINE T == {n - x : x \in S}
<1>1. T \subseteq Nat /\ T # {}
  <2>1. ASSUME NEW x \in S PROVE n - x \in Nat
    <3>1. x \in 0..n
      OBVIOUS
    <3> QED
      BY <3>1
  <2>2. PICK x \in S : TRUE
    OBVIOUS
  <2>3. n - x \in T
    BY <2>2
  <2> QED
    BY <2>1, <2>3
<1>2. PICK t \in T : \A u \in T : ~(<<u, t>> \in OpToRel(<, Nat))
  BY <1>1, NatLessThanWellFounded, WFMin
<1>3. PICK x \in S : t = n - x
  OBVIOUS
<1>4. ASSUME NEW y \in S PROVE x >= y
  <2>1. n - y \in T /\ t \in T /\ n - y \in Nat /\ t \in Nat
    BY <1>1, <1>3
  <2>2. ~(n - y < t)
    BY <1>2, <2>1 DEF OpToRel
  <2> QED
    BY <1>3, <2>2
<1> QED
  BY <1>4 DEF Max

\* The server gives a new row an id that no other row has.
LEMMA NextRowIdFact ==
    ASSUME NEW n \in Nat, NEW rs, rs \subseteq Row, \A r \in rs : r.id <= n
    PROVE  /\ NextRowId(rs) \in Nat
           /\ NextRowId(rs) <= n + 1
           /\ \A r \in rs : r.id # NextRowId(rs)
<1> DEFINE I == {r.id : r \in rs}
<1>1. I \subseteq 0..n
  BY DEF Row
<1>2. CASE rs = {}
  BY <1>2 DEF NextRowId
<1>3. CASE rs # {}
  <2>1. Max(I) \in I /\ \A i \in I : i <= Max(I)
    BY <1>1, <1>3, MaxFact
  <2>2. NextRowId(rs) = Max(I) + 1
    BY <1>3 DEF NextRowId
  <2> HIDE DEF I
  <2>3. Max(I) \in 0..n
    BY <1>1, <2>1
  <2>4. ASSUME NEW r \in rs PROVE r.id # NextRowId(rs)
    <3>1. r.id \in I
      BY DEF I
    <3> QED
      BY <1>1, <2>1, <2>2, <2>3, <3>1
  <2> QED
    BY <2>2, <2>3, <2>4
<1> QED
  BY <1>2, <1>3

\* What may happen to the rows in a step: they go, stay what they are, or are new.
Moved ==
    /\ made \in Nat /\ made' \in Nat /\ made <= made'
    /\ \A r \in rows' :
          \/ r.serial > made
          \/ \E q \in rows : q.id = r.id /\ q.serial = r.serial

LEMMA SameRows == RowsInv /\ UNCHANGED <<rows, plan, made, published>> => RowsInv' /\ Moved
  BY DEF RowsInv, Moved

LEMMA MakeInviteRows == RowsInv /\ MakeInvite => RowsInv' /\ Moved
<1> SUFFICES ASSUME RowsInv, MakeInvite PROVE RowsInv' /\ Moved
  OBVIOUS
<1> DEFINE kind == plan[made + 1]
           kept == {r \in rows : r.kind \notin Lane(kind)}
           new  == [id |-> NextRowId(kept), serial |-> made + 1, kind |-> kind, accepted |-> FALSE]
<1>1. /\ made' = made + 1 /\ rows' = kept \cup {new} /\ UNCHANGED <<plan, published>>
      /\ made + 1 \in 1..Len(plan) /\ made \in Nat
  BY DEF MakeInvite, RowsInv
<1>2. kind \in AllKinds
  BY <1>1, ElementOfSeq DEF RowsInv
<1>3. kept \subseteq rows /\ kept \subseteq Row
  BY DEF RowsInv
<1>4. /\ NextRowId(kept) \in Nat /\ NextRowId(kept) <= made + 1
      /\ \A r \in kept : r.id # NextRowId(kept)
  BY <1>1, <1>3, NextRowIdFact DEF RowsInv
<1>5. new \in Row /\ new.id = NextRowId(kept) /\ new.serial = made + 1
  BY <1>1, <1>2, <1>4 DEF Row
<1> HIDE DEF kept, new
<1>6. \A r \in kept : r.serial \in Nat /\ r.serial <= made /\ r.id \in Nat /\ r.id <= made
  BY <1>3 DEF RowsInv, Row
<1>7. RowsInv'
  BY <1>1, <1>3, <1>4, <1>5, <1>6 DEF RowsInv
<1>8. Moved
  BY <1>1, <1>3, <1>5, <1>6 DEF Moved
<1> QED
  BY <1>7, <1>8

LEMMA AnswerRows == RowsInv /\ ServerAnswers => RowsInv' /\ Moved
<1> SUFFICES ASSUME RowsInv, ServerAnswers PROVE RowsInv' /\ Moved
  OBVIOUS
<1> DEFINE found == {r \in rows : r.id = call.server}
           Seen(r) == IF r \in found THEN [r EXCEPT !.accepted = TRUE] ELSE r
<1>1. /\ rows' = rows \/ rows' = {Seen(r) : r \in rows}
      /\ UNCHANGED <<plan, made, published>>
  BY DEF ServerAnswers
<1>2. ASSUME NEW r \in rows
      PROVE  Seen(r) \in Row /\ Seen(r).id = r.id /\ Seen(r).serial = r.serial
  BY DEF RowsInv, Row
<1>3. CASE rows' = rows
  BY <1>1, <1>3, SameRows
<1>4. CASE rows' = {Seen(r) : r \in rows}
  <2> HIDE DEF Seen
  <2>1. RowsInv'
    BY <1>1, <1>2, <1>4 DEF RowsInv
  <2>2. Moved
    BY <1>1, <1>2, <1>4 DEF RowsInv, Moved
  <2> QED
    BY <2>1, <2>2
<1> QED
  BY <1>1, <1>3, <1>4

LEMMA RowsStep == RowsInv /\ [Next]_vars => RowsInv' /\ Moved
<1> SUFFICES ASSUME RowsInv, [Next]_vars PROVE RowsInv' /\ Moved
  OBVIOUS
<1>1. CASE MakeInvite
  BY <1>1, MakeInviteRows
<1>2. ASSUME NEW r \in rows, InviteGoes(r) PROVE RowsInv' /\ Moved
  BY <1>2 DEF InviteGoes, RowsInv, Moved
<1>3. CASE SetGameSession \/ ClearGameSession \/ ServerGoes \/ ServerComes
  <2>1. rows' = rows /\ made' = made /\ plan' = plan
    BY <1>3 DEF SetGameSession, ClearGameSession, ServerGoes, ServerComes
  <2>2. published' \in BOOLEAN
    BY <1>3 DEF SetGameSession, ClearGameSession, ServerGoes, ServerComes, RowsInv
  <2>3. RowsInv'
    BY <2>1, <2>2 DEF RowsInv
  <2> QED
    BY <2>1, <2>3 DEF RowsInv, Moved
<1>4. CASE ServerAnswers
  BY <1>4, AnswerRows
<1>5. CASE UNCHANGED server
  BY <1>5, SameRows DEF server
<1>6. CASE UNCHANGED vars
  BY <1>5, <1>6 DEF vars
<1> QED
  BY <1>1, <1>2, <1>3, <1>4, <1>5, <1>6 DEF Next, PollReturns, PollArrives, PollFails, PressF5,
     FollowIsDue, Receive, EndAccept

-----------------------------------------------------------------------------
\* The table of ids.

\* Local ids are never taken back.
Grown ==
    \A l \in DOMAIN ids.server : l \in DOMAIN ids'.server /\ ids'.server[l] = ids.server[l]

\* A local id for the row is found or made.
LEMMA MapFact ==
    ASSUME IdsInv, NEW id \in Nat, ids' = MapServerEvent(ids, id)
    PROVE  /\ IdsInv' /\ Grown
           /\ LocalId(ids, id) \in DOMAIN ids'.server
           /\ ids'.server[LocalId(ids, id)] = id
<1> DEFINE old == {c \in ids.current : c.server # id}
           new == [server |-> id, local |-> ids.next, retired |-> FALSE]
<1>1. LocalId(ids, id) = (CHOOSE c \in ids'.current : c.server = id).local
  BY DEF LocalId
<1>2. CASE InUse(ids, id) # {}
  <2>1. ids' = ids
    BY <1>2 DEF MapServerEvent
  <2>2. \E c \in ids'.current : c.server = id
    BY <1>2, <2>1 DEF InUse
  <2> QED
    BY <1>1, <2>1, <2>2 DEF IdsInv, Grown
<1>3. CASE InUse(ids, id) = {}
  <2>1. ids' = [next |-> ids.next - 1, current |-> old \cup {new},
                server |-> [l \in DOMAIN ids.server \cup {ids.next} |->
                               IF l = ids.next THEN id ELSE ids.server[l]]]
    BY <1>3 DEF MapServerEvent
  <2>2. /\ DOMAIN ids'.server = DOMAIN ids.server \cup {ids.next}
        /\ ids'.server[ids.next] = id
        /\ \A l \in DOMAIN ids.server : ids'.server[l] = ids.server[l]
    <3>1. ids.next \notin DOMAIN ids.server
      BY DEF IdsInv
    <3> QED
      BY <2>1, <3>1
  <2>3. new \in Local /\ new.local = ids.next /\ new.server = id
    BY DEF Local, IdsInv
  <2> HIDE DEF new
  <2>4. LocalId(ids, id) = ids.next
    BY <1>1, <2>1, <2>3
  <2>5. IdsInv'
    BY <2>1, <2>2, <2>3 DEF IdsInv
  <2> QED
    BY <2>2, <2>4, <2>5 DEF Grown
<1> QED
  BY <1>2, <1>3

LEMMA RetireFact ==
    ASSUME IdsInv, NEW local, ids' = RetireLocal(ids, local)
    PROVE  IdsInv' /\ Grown
<1> DEFINE Retired(c) == IF c.local = local THEN [c EXCEPT !.retired = TRUE] ELSE c
<1>1. /\ ids'.current = {Retired(c) : c \in ids.current}
      /\ ids'.server = ids.server /\ ids'.next = ids.next
      /\ DOMAIN ids' = DOMAIN ids
  BY DEF RetireLocal, IdsInv
<1>2. \A c \in ids.current : Retired(c) \in Local /\ Retired(c).server = c.server
                             /\ Retired(c).local = c.local
  BY DEF IdsInv, Local
<1> HIDE DEF Retired
<1> QED
  BY <1>1, <1>2 DEF IdsInv, Grown

LEMMA IdsStep == IdsInv /\ AnswerInv /\ [Next]_vars => IdsInv' /\ Grown
<1> SUFFICES ASSUME IdsInv, AnswerInv, [Next]_vars PROVE IdsInv' /\ Grown
  OBVIOUS
<1>1. CASE PollArrives
  BY <1>1, MapFact DEF PollArrives, AnswerInv
<1>2. CASE EndAccept
  BY <1>2, RetireFact DEF EndAccept, IdsInv, Grown
<1>3. CASE UNCHANGED ids
  BY <1>3 DEF IdsInv, Grown
<1> QED
  BY <1>1, <1>2, <1>3 DEF Next, MakeInvite, InviteGoes, SetGameSession, ClearGameSession, ServerGoes,
     ServerComes, PollReturns, PollFails, PressF5, FollowIsDue, Receive, ServerAnswers, vars

-----------------------------------------------------------------------------
\* What is known of an invitation remains so.

LEMMA NamedKept ==
    ASSUME RowsInv', Moved, NEW serial \in Nat, NEW row, Named(serial, row)
    PROVE  Named(serial, row)'
<1>1. serial <= made'
  BY DEF Named, Moved
<1>2. ASSUME NEW r \in rows'
      PROVE  /\ r.id = row => r.serial >= serial
             /\ r.serial = serial => r.id = row
  <2>1. r.serial \in Nat
    BY DEF RowsInv, Row
  <2>2. CASE r.serial > made
    BY <2>1, <2>2 DEF Named, Moved
  <2>3. CASE \E q \in rows : q.id = r.id /\ q.serial = r.serial
    BY <2>3 DEF Named
  <2> QED
    BY <2>2, <2>3 DEF Moved
<1> QED
  BY <1>1, <1>2 DEF Named

LEMMA KnownKept ==
    ASSUME RowsInv', Moved, Grown
    PROVE  Known \subseteq Known'
<1> SUFFICES ASSUME NEW e \in Known PROVE e \in Known'
  OBVIOUS
<1>1. e \in Entry /\ EntryInv(e) /\ e.serial \in Nat
  BY DEF Known, Entry
<1>2. Named(e.serial, e.row)'
  BY <1>1, NamedKept DEF EntryInv
<1>3. e.id \in DOMAIN ids'.server /\ ids'.server[e.id] = e.row
  BY <1>1 DEF EntryInv, Grown
<1> QED
  BY <1>1, <1>2, <1>3 DEF Known, EntryInv

\* The server never takes an acceptance back.
LEMMA AcceptedKept ==
    ASSUME [Next]_vars, NEW row, NEW serial, AcceptedFor(row, serial)
    PROVE  AcceptedFor(row, serial)'
<1>1. accepted \subseteq accepted'
  BY DEF Next, MakeInvite, InviteGoes, SetGameSession, ClearGameSession, ServerGoes, ServerComes,
     PollReturns, PollArrives, PollFails, PressF5, FollowIsDue, Receive, ServerAnswers, EndAccept,
     vars, server
<1> QED
  BY <1>1 DEF AcceptedFor

-----------------------------------------------------------------------------
\* Sequences.

LEMMA SeqMono ==
    ASSUME NEW S, NEW T, S \subseteq T, NEW s \in Seq(S)
    PROVE  s \in Seq(T)
OBVIOUS

LEMMA PositionFact ==
    ASSUME NEW S, NEW es \in Seq(S), NEW id
    PROVE  /\ Position(es, id) \in 0..Len(es)
           /\ Position(es, id) # 0 => es[Position(es, id)].id = id
           /\ Position(es, id) = 0 => \A i \in 1..Len(es) : es[i].id # id
<1> DEFINE I == {i \in 1..Len(es) : es[i].id = id}
<1>1. Position(es, id) = IF I # {} THEN Min(I) ELSE 0
  BY DEF Position, SelectInSeq
<1>2. CASE I = {}
  BY <1>1, <1>2
<1>3. CASE I # {}
  <2>0. I \subseteq Nat
    OBVIOUS
  <2> HIDE DEF I
  <2>1. PICK x \in I : \A y \in I : ~(<<y, x>> \in OpToRel(<, Nat))
    BY <1>3, <2>0, NatLessThanWellFounded, WFMin
  <2>2. ASSUME NEW y \in I PROVE x <= y
    <3>1. x \in Nat /\ y \in Nat
      BY <2>0
    <3>2. ~(y < x)
      BY <2>1, <3>1 DEF OpToRel
    <3> QED
      BY <3>1, <3>2
  <2>3. Min(I) \in I
    BY <2>2 DEF Min
  <2> QED
    BY <1>1, <1>3, <2>3 DEF I
<1> QED
  BY <1>2, <1>3

\* The sequence without one of its members, or as it was.
LEMMA RemoveAtFact ==
    ASSUME NEW S, NEW s \in Seq(S), NEW n \in 0..Len(s)
    PROVE  /\ RemoveAt(s, n) \in Seq(S)
           /\ \E shift \in [1..Len(RemoveAt(s, n)) -> 1..Len(s)] :
                 /\ \A i, j \in DOMAIN shift : shift[i] = shift[j] => i = j
                 /\ \A i \in DOMAIN shift : RemoveAt(s, n)[i] = s[shift[i]]
<1> DEFINE before == SubSeq(s, 1, n - 1)
           after  == SubSeq(s, n + 1, Len(s))
           k      == IF n = 0 THEN 0 ELSE n - 1
           shift  == [i \in 1..Len(RemoveAt(s, n)) |-> IF i <= k THEN i ELSE i + n - k]
<1>0. Len(s) \in Nat /\ n \in Int /\ k \in Nat /\ k <= Len(s) /\ n - 1 \in Int /\ n + 1 \in Int
  OBVIOUS
<1>1. before \in Seq(S) /\ Len(before) = k /\ \A i \in 1..k : before[i] = s[i]
  <2>1. \A i \in 1..n - 1 : s[i] \in S
    BY <1>0, ElementOfSeq
  <2> QED
    BY <1>0, <2>1, SubSeqProperties
<1>2. /\ after \in Seq(S) /\ Len(after) = Len(s) - n
      /\ \A i \in 1..Len(s) - n : after[i] = s[n + i]
  <2>1. \A i \in n + 1..Len(s) : s[i] \in S
    BY <1>0, ElementOfSeq
  <2>2. /\ after \in Seq(S) /\ Len(after) = IF n + 1 <= Len(s) THEN Len(s) - (n + 1) + 1 ELSE 0
        /\ \A i \in 1..Len(s) - (n + 1) + 1 : after[i] = s[n + 1 + i - 1]
    BY <1>0, <2>1, SubSeqProperties
  <2> QED
    BY <1>0, <2>2
<1> HIDE DEF before, after
<1>3. /\ RemoveAt(s, n) \in Seq(S) /\ Len(RemoveAt(s, n)) = k + Len(s) - n
      /\ \A i \in 1..k + Len(s) - n :
            RemoveAt(s, n)[i] = IF i <= k THEN before[i] ELSE after[i - k]
  <2>1. RemoveAt(s, n) = before \o after
    BY DEF RemoveAt, before, after
  <2>2. Len(before) + Len(after) = k + Len(s) - n
    BY <1>0, <1>1, <1>2
  <2>3. /\ before \o after \in Seq(S) /\ Len(before \o after) = Len(before) + Len(after)
        /\ \A i \in 1..Len(before) + Len(after) :
              (before \o after)[i] = IF i <= Len(before) THEN before[i] ELSE after[i - Len(before)]
    BY <1>1, <1>2, ConcatProperties
  <2> HIDE DEF k
  <2> QED
    BY <1>1, <2>1, <2>2, <2>3
<1>4. shift \in [1..Len(RemoveAt(s, n)) -> 1..Len(s)]
  BY <1>0, <1>3
<1>5. \A i, j \in DOMAIN shift : shift[i] = shift[j] => i = j
  BY <1>0, <1>3
<1>6. ASSUME NEW i \in DOMAIN shift PROVE RemoveAt(s, n)[i] = s[shift[i]]
  <2>1. i \in 1..k + Len(s) - n
    BY <1>3
  <2>2. CASE i <= k
    BY <1>0, <1>1, <1>3, <2>1, <2>2
  <2>3. CASE i > k
    <3>1. i - k \in 1..Len(s) - n /\ ~(i <= k) /\ n + (i - k) = i + n - k
      BY <1>0, <2>1, <2>3
    <3>2. RemoveAt(s, n)[i] = s[n + (i - k)]
      BY <1>2, <1>3, <2>1, <3>1
    <3> QED
      BY <3>1, <3>2
  <2> QED
    BY <1>0, <2>1, <2>2, <2>3
<1> QED
  BY <1>3, <1>4, <1>5, <1>6

-----------------------------------------------------------------------------
\* The steps of the two threads.

LEMMA AnswerStep == OverlayInv /\ [Next]_vars /\ RowsInv' /\ Moved => AnswerInv'
<1> SUFFICES ASSUME OverlayInv, [Next]_vars, RowsInv', Moved, answer' # Absent PROVE AnswerInv'
  BY DEF AnswerInv
<1>1. ASSUME NEW r \in rows, PollReturns(r) PROVE AnswerInv'
  <2>1. rows' = rows /\ made' = made /\ answer' = Delivery(r)
    BY <1>1 DEF PollReturns, server
  <2>2. r \in Row /\ r.serial <= made /\ \A q \in rows : q.id = r.id \/ q.serial = r.serial => q = r
    BY DEF OverlayInv, RowsInv
  <2>3. /\ answer' \in [id : Nat, serial : Nat, kind : AllKinds, session : BOOLEAN]
        /\ answer'.id = r.id /\ answer'.serial = r.serial
    <3>1. (NeedsSession(r.kind) /\ published) \in BOOLEAN
      OBVIOUS
    <3> QED
      BY <2>1, <2>2, <3>1 DEF Delivery, Row
  <2>4. Named(answer.serial, answer.id)'
    BY <2>1, <2>2, <2>3 DEF Named, Row
  <2> QED
    BY <2>3, <2>4 DEF AnswerInv
<1>2. CASE UNCHANGED answer
  <2>1. /\ answer \in [id : Nat, serial : Nat, kind : AllKinds, session : BOOLEAN]
        /\ Named(answer.serial, answer.id)
    BY <1>2 DEF OverlayInv, AnswerInv
  <2>2. Named(answer.serial, answer.id)'
    BY <1>2, <2>1, NamedKept
  <2> QED
    BY <1>2, <2>1, <2>2 DEF AnswerInv
<1>3. CASE PollArrives
  BY <1>3 DEF PollArrives
<1> QED
  BY <1>1, <1>2, <1>3 DEF Next, MakeInvite, InviteGoes, SetGameSession, ClearGameSession, ServerGoes,
     ServerComes, PollFails, PressF5, FollowIsDue, Receive, ServerAnswers, EndAccept, vars, thread

\* The invitation that the updates-thread hands to the overlay.
LEMMA NewsFact ==
    ASSUME OverlayInv, PollArrives, RowsInv', Moved, IdsInv'
    PROVE  \E e \in Known' : news' = Append(news, e)
<1> DEFINE local == LocalId(ids, answer.id)
<1>0. PICK e : e = [id |-> local, serial |-> answer.serial, row |-> answer.id,
                    kind |-> answer.kind, session |-> answer.session]
  OBVIOUS
<1>1. /\ answer \in [id : Nat, serial : Nat, kind : AllKinds, session : BOOLEAN]
      /\ Named(answer.serial, answer.id)
  BY DEF OverlayInv, AnswerInv, PollArrives
<1>2. ids' = MapServerEvent(ids, answer.id) /\ news' = Append(news, e)
  BY <1>0 DEF PollArrives
<1>3. local \in DOMAIN ids'.server /\ ids'.server[local] = answer.id
  BY <1>1, <1>2, MapFact DEF OverlayInv
<1> HIDE DEF local
<1>4. e \in Entry
  BY <1>0, <1>1, <1>3 DEF Entry, IdsInv
<1>5. Named(e.serial, e.row)'
  <2>1. e.serial = answer.serial /\ e.row = answer.id /\ e.id = local
    BY <1>0
  <2>2. rows' = rows /\ made' = made
    BY DEF PollArrives, server
  <2> QED
    BY <1>1, <2>1, <2>2 DEF Named
<1>6. e \in Known'
  BY <1>0, <1>3, <1>4, <1>5 DEF Known, EntryInv
<1> QED
  BY <1>2, <1>6

Distinct(es) == \A i, j \in DOMAIN es : es[i].id = es[j].id => i = j

\* Showing an invitation keeps the local ids of the list apart.
LEMMA ListedFact ==
    ASSUME NEW S, NEW es \in Seq(S), NEW e \in S, Distinct(es)
    PROVE  Listed(es, e) \in Seq(S) /\ Distinct(Listed(es, e))
<1> DEFINE p == Position(es, e.id)
<1>1. /\ p \in 0..Len(es) /\ Len(es) \in Nat
      /\ p # 0 => es[p].id = e.id
      /\ p = 0 => \A i \in 1..Len(es) : es[i].id # e.id
  BY PositionFact
<1> HIDE DEF p
<1>2. CASE p = 0
  <2>1. Listed(es, e) = Append(es, e)
    BY <1>2 DEF Listed, p
  <2> QED
    BY <1>1, <1>2, <2>1, AppendProperties DEF Distinct
<1>3. CASE p # 0
  <2>1. Listed(es, e) = [es EXCEPT ![p] = e]
    BY <1>3 DEF Listed, p
  <2>2. p \in 1..Len(es)
    BY <1>1, <1>3
  <2>3. \A i \in 1..Len(es) : [es EXCEPT ![p] = e][i].id = es[i].id
    BY <1>1, <1>3, <2>2, ExceptSeq
  <2>4. [es EXCEPT ![p] = e] \in Seq(S) /\ DOMAIN [es EXCEPT ![p] = e] = 1..Len(es)
    BY <2>2, ExceptSeq
  <2> QED
    BY <2>1, <2>3, <2>4 DEF Distinct
<1> QED
  BY <1>2, <1>3

LEMMA ListStep ==
    ASSUME OverlayInv, [Next]_vars, RowsInv', Moved, IdsInv', Grown
    PROVE  ListInv'
<1>1. Known \subseteq Known'
  BY KnownKept
<1>2. /\ list \in Seq(Known') /\ news \in Seq(Known') /\ Distinct(list)
      /\ list \in Seq(Known) /\ news \in Seq(Known)
  BY <1>1, SeqMono DEF OverlayInv, ListInv, Distinct
<1>3. CASE UNCHANGED <<list, news>>
  BY <1>2, <1>3 DEF ListInv, Distinct
<1>4. CASE PollArrives
  <2>1. PICK e \in Known' : news' = Append(news, e)
    BY <1>4, NewsFact
  <2>2. news' \in Seq(Known') /\ list' = list
    BY <1>2, <1>4, <2>1, AppendProperties DEF PollArrives, overlay
  <2> QED
    BY <1>2, <2>2 DEF ListInv, Distinct
<1>5. CASE Receive
  <2>1. news' = Tail(news) /\ list' = Listed(list, Head(news)) /\ news # <<>>
    BY <1>5 DEF Receive, ShowInvite
  <2>2. Head(news) \in Known' /\ news' \in Seq(Known')
    BY <1>2, <2>1, HeadTailProperties
  <2>3. list' \in Seq(Known') /\ Distinct(list')
    BY <1>2, <2>1, <2>2, ListedFact
  <2> QED
    BY <2>2, <2>3 DEF ListInv, Distinct
<1>6. CASE EndAccept
  <2>1. news' = news /\ (list' = list \/ list' = RemoveAt(list, Position(list, call.id)))
    BY <1>6 DEF EndAccept
  <2>2. CASE list' = list
    BY <1>3, <2>1, <2>2
  <2>3. CASE list' = RemoveAt(list, Position(list, call.id))
    <3>1. Position(list, call.id) \in 0..Len(list)
      BY <1>2, PositionFact
    <3>2. list' \in Seq(Known')
      BY <1>2, <2>3, <3>1, RemoveAtFact
    <3>3. PICK shift \in [1..Len(list') -> 1..Len(list)] :
             /\ \A i, j \in DOMAIN shift : shift[i] = shift[j] => i = j
             /\ \A i \in DOMAIN shift : list'[i] = list[shift[i]]
      BY <1>2, <2>3, <3>1, RemoveAtFact
    <3>4. DOMAIN list' = 1..Len(list') /\ DOMAIN list = 1..Len(list)
      BY <1>2, <3>2
    <3>5. Distinct(list')
      BY <1>2, <3>3, <3>4 DEF Distinct
    <3> QED
      BY <1>2, <2>1, <3>2, <3>5 DEF ListInv, Distinct
  <2> QED
    BY <2>1, <2>2, <2>3
<1> QED
  BY <1>3, <1>4, <1>5, <1>6 DEF OverlayInv, Next, MakeInvite, InviteGoes, SetGameSession,
     ClearGameSession, ServerGoes, ServerComes, PollReturns, PollFails, PressF5, FollowIsDue,
     ServerAnswers, vars, overlay

-----------------------------------------------------------------------------
\* An acceptance and its event.

\* It starts for an invitation that is known.
LEMMA StartFact ==
    ASSUME OverlayInv, NEW e \in Known, StartAccept(e), UNCHANGED <<ids, rows, made>>
    PROVE  CallInv'
<1>1. e \in Entry /\ e.id \in Int /\ e.row \in Nat /\ ServerIdForLocal(ids, e.id) = e.row
  BY DEF Known, Entry, EntryInv, ServerIdForLocal
<1>2. Known' = Known
  BY DEF Known, EntryInv, Named
<1> QED
  BY <1>1, <1>2 DEF StartAccept, CallInv, Idle

LEMMA CallStep ==
    ASSUME OverlayInv, [Next]_vars, RowsInv', Moved, Grown
    PROVE  CallInv'
<1>1. Known \subseteq Known'
  BY KnownKept
<1>2. list \in Seq(Known) /\ news \in Seq(Known)
  BY DEF OverlayInv, ListInv
<1>3. CASE UNCHANGED call
  <2> SUFFICES ASSUME ~Idle, call' = call PROVE CallInv'
    BY <1>3 DEF CallInv, Idle
  <2>1. /\ call \in [id : Int, entry : Known, server : Nat, answered : {"not", "yes", "error"}]
        /\ call.server = call.entry.row
        /\ call.answered = "yes" => AcceptedFor(call.entry.row, call.entry.serial)
    BY DEF OverlayInv, CallInv, Known, Entry, EntryInv, Named
  <2>2. call.answered = "yes" => AcceptedFor(call.entry.row, call.entry.serial)'
    BY <2>1, AcceptedKept
  <2> QED
    BY <1>1, <2>1, <2>2 DEF CallInv, Idle
<1>4. CASE PressF5
  <2>1. Len(list) \in 1..Len(list)
    BY <1>2, <1>4, EmptySeq DEF PressF5
  <2>2. Last(list) \in Known
    BY <1>2, <2>1, ElementOfSeq DEF Last
  <2> QED
    BY <1>4, <2>2, StartFact DEF PressF5, server
<1>5. CASE FollowIsDue
  <2>1. CASE Position(list, schedule) # 0
    <3>1. Position(list, schedule) \in 1..Len(list)
      BY <1>2, <2>1, PositionFact
    <3>2. list[Position(list, schedule)] \in Known
      BY <1>2, <3>1, ElementOfSeq
    <3> QED
      BY <1>5, <2>1, <3>2, StartFact DEF FollowIsDue, server
  <2>2. CASE Position(list, schedule) = 0
    BY <1>3, <1>5, <2>2 DEF FollowIsDue
  <2> QED
    BY <2>1, <2>2
<1>6. CASE Receive
  <2>1. Head(news) \in Known
    BY <1>2, <1>6, HeadTailProperties DEF Receive
  <2>2. UNCHANGED call \/ StartAccept(Head(news))
    BY <1>6 DEF Receive, ShowInvite
  <2> QED
    BY <1>3, <1>6, <2>1, <2>2, StartFact DEF Receive, server
<1>7. CASE ServerAnswers
  <2> DEFINE found == {r \in rows : r.id = call.server}
  <2>1. /\ call \in [id : Int, entry : Known, server : Nat, answered : {"not", "yes", "error"}]
        /\ call.server = call.entry.row
        /\ \A r \in rows : r.id = call.entry.row => r.serial >= call.entry.serial
    BY <1>7 DEF ServerAnswers, OverlayInv, CallInv, Known, EntryInv, Named
  <2>2. CASE call' = [call EXCEPT !.answered = "error"]
    BY <1>1, <2>1, <2>2 DEF CallInv
  <2>3. CASE /\ call' = [call EXCEPT !.answered = "yes"]
             /\ found # {}
             /\ accepted' = accepted \cup {[row |-> r.id, serial |-> r.serial] : r \in found}
    <3>1. PICK r \in found : TRUE
      BY <2>3
    <3>2. r.id = call.entry.row /\ r.serial >= call.entry.serial
      BY <2>1, <3>1
    <3>3. PICK a : a = [row |-> r.id, serial |-> r.serial]
      OBVIOUS
    <3>4. a \in accepted' /\ a.row = call.entry.row /\ a.serial >= call.entry.serial
      BY <2>3, <3>2, <3>3
    <3>5. call'.entry = call.entry /\ call'.answered = "yes"
      BY <2>1, <2>3
    <3>6. AcceptedFor(call.entry.row, call.entry.serial)'
      BY <3>4, <3>5 DEF AcceptedFor
    <3> QED
      BY <1>1, <2>1, <2>3, <3>6 DEF CallInv
  <2> QED
    BY <1>7, <2>2, <2>3 DEF ServerAnswers
<1>8. CASE EndAccept
  BY <1>8 DEF EndAccept, CallInv, Idle
<1> QED
  BY <1>3, <1>4, <1>5, <1>6, <1>7, <1>8 DEF Next, MakeInvite, InviteGoes, SetGameSession,
     ClearGameSession, ServerGoes, ServerComes, PollReturns, PollArrives, PollFails, vars, overlay

LEMMA EventsStep ==
    ASSUME OverlayInv, [Next]_vars, RowsInv', Moved
    PROVE  EventsInv'
<1> DEFINE Event == [serial : Nat, row : Nat, kind : AllKinds, session : BOOLEAN]
           Told(e) == e \in Event /\ HasPayload(e) /\ AcceptedFor(e.row, e.serial)
<1>1. events \in Seq(Event) /\ \A i \in 1..Len(events) : Told(events[i])
  <2>1. events \in Seq(Event) /\ DOMAIN events = 1..Len(events)
    BY DEF OverlayInv, EventsInv
  <2>2. \A i \in 1..Len(events) : events[i] \in Event
    BY <2>1, ElementOfSeq
  <2> QED
    BY <2>1, <2>2 DEF OverlayInv, EventsInv
<1>2. ASSUME NEW e, Told(e) PROVE AcceptedFor(e.row, e.serial)'
  BY <1>2, AcceptedKept
<1>3. CASE UNCHANGED events
  BY <1>1, <1>2, <1>3 DEF EventsInv
<1>4. CASE EndAccept
  <2>1. CASE call.answered = "yes" /\ HasPayload(call.entry)
    <3>1. PICK e : e = GameEvent(call.entry)
      OBVIOUS
    <3>2. call.entry \in Entry /\ AcceptedFor(call.entry.row, call.entry.serial)
      BY <1>4, <2>1 DEF EndAccept, OverlayInv, CallInv, Known, EntryInv, Named
    <3>3. Told(e)
      BY <2>1, <3>1, <3>2 DEF GameEvent, Entry, HasPayload
    <3>4. events' = Append(events, e)
      BY <1>4, <2>1, <3>1 DEF EndAccept
    <3>5. events' \in Seq(Event) /\ Len(events') = Len(events) + 1
          /\ (\A i \in 1..Len(events) : events'[i] = events[i]) /\ events'[Len(events) + 1] = e
      BY <1>1, <3>3, <3>4, AppendProperties
    <3> HIDE DEF Told
    <3>6. ASSUME NEW i \in 1..Len(events') PROVE Told(events'[i])
      <4>1. Len(events) \in Nat
        BY <1>1
      <4>2. CASE i \in 1..Len(events)
        <5>1. events'[i] = events[i]
          BY <3>5, <4>2
        <5> QED
          BY <1>1, <4>2, <5>1
      <4>3. CASE i = Len(events) + 1
        BY <3>3, <3>5, <4>3
      <4> QED
        BY <3>5, <4>1, <4>2, <4>3
    <3>7. ASSUME NEW i \in DOMAIN events'
          PROVE  HasPayload(events'[i]) /\ AcceptedFor(events[i].row, events[i].serial)'
      BY <1>2, <3>5, <3>6 DEF Told
    <3> QED
      BY <3>5, <3>7 DEF EventsInv, HasPayload
  <2>2. CASE ~(call.answered = "yes" /\ HasPayload(call.entry))
    BY <1>3, <1>4, <2>2 DEF EndAccept
  <2> QED
    BY <2>1, <2>2
<1> QED
  BY <1>3, <1>4 DEF Next, MakeInvite, InviteGoes, SetGameSession, ClearGameSession, ServerGoes,
     ServerComes, PollReturns, PollArrives, PollFails, PressF5, FollowIsDue, Receive, ServerAnswers,
     vars, overlay

-----------------------------------------------------------------------------
LEMMA InitInv == Init => OverlayInv
<1> SUFFICES ASSUME Init PROVE OverlayInv
  OBVIOUS
<1>1. RowsInv
  BY InvitesAssumption DEF Init, RowsInv, AllKinds
<1>2. IdsInv /\ AnswerInv /\ CallInv
  BY DEF Init, IdsInv, AnswerInv, CallInv, Idle
<1>3. list = <<>> /\ news = <<>> /\ events = <<>>
  BY DEF Init
<1>4. \A S : <<>> \in Seq(S)
  BY EmptySeq
<1> QED
  BY <1>1, <1>2, <1>3, <1>4 DEF OverlayInv, ListInv, EventsInv

LEMMA StepInv == OverlayInv /\ [Next]_vars => OverlayInv'
<1> SUFFICES ASSUME OverlayInv, [Next]_vars PROVE OverlayInv'
  OBVIOUS
<1>1. RowsInv' /\ Moved
  BY RowsStep DEF OverlayInv
<1>2. IdsInv' /\ Grown
  BY IdsStep DEF OverlayInv
<1> QED
  BY <1>1, <1>2, AnswerStep, ListStep, CallStep, EventsStep DEF OverlayInv

\* The invariant that the theorems rest on.
THEOREM SpecInv == Spec => []OverlayInv
  BY InitInv, StepInv, PTL DEF Spec

\* However the two threads, the server and its rows go on, a local id on show
\* leads back to the row of its invitation, and only a later one can be in it
\* (server_id_for_local is given the id that map_server_event made).
THEOREM LocalIdsLeadBack == Spec => []IdsLeadBack
<1>1. OverlayInv => IdsLeadBack
  <2> SUFFICES ASSUME OverlayInv PROVE IdsLeadBack
    OBVIOUS
  <2>1. \A e \in Range(list) \cup Range(news) : e \in Known
    <3>1. list \in Seq(Known) /\ news \in Seq(Known)
      BY DEF OverlayInv, ListInv
    <3> QED
      BY <3>1, ElementOfSeq DEF Range
  <2>2. ~Idle => call.entry \in Known
    BY DEF OverlayInv, CallInv
  <2>3. ASSUME NEW e \in Known
        PROVE  /\ ServerIdForLocal(ids, e.id) = e.row
               /\ \A r \in rows : r.id = e.row => r.serial >= e.serial
    BY DEF Known, EntryInv, Named, ServerIdForLocal
  <2> QED
    BY <2>1, <2>2, <2>3 DEF OverlayInv, ListInv, IdsLeadBack
<1> QED
  BY <1>1, SpecInv, PTL

\* The game hears of an invitation only after the server has accepted it, or a
\* later one that was given its row, and of a private room or a follow only with
\* its session, though the answer may be lost and the row may be gone by then
\* (accept_invite_at sends the event after accept_invite_async has returned).
THEOREM OnlyAcceptedEvents == Spec => []EventsWereAccepted
<1>1. OverlayInv => EventsWereAccepted
  <2> SUFFICES ASSUME OverlayInv PROVE EventsWereAccepted
    OBVIOUS
  <2> QED
    BY DEF OverlayInv, EventsInv, EventsWereAccepted, Range
<1> QED
  BY <1>1, SpecInv, PTL
=============================================================================
