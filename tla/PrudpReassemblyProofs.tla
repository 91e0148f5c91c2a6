----------------------- MODULE PrudpReassemblyProofs -----------------------
(***************************************************************************)
(* What TLAPS proves of PrudpReassembly for every set of messages, every   *)
(* way to cut them and every byte limit: the handler is never given chunks *)
(* of two messages or a message with a hole in it, and the bytes kept for  *)
(* it are counted and bounded.                                             *)
(*                                                                         *)
(* DispatchedTails is not inductive.  The invariant that is says where the *)
(* cached group comes from: one message, the one whose last packet carries *)
(* the group's final sequence number, with every chunk under its own id;   *)
(* that number identifies the message because the client does not reuse a  *)
(* sequence number (WindowOK).                                             *)
(***************************************************************************)
EXTENDS PrudpReassembly, FiniteSetTheorems, TLAPS

\* The sequence number of the packet that carries the last chunk of m.
LastSeq(m) == (base[m] + (Chunks[m] - 1)) % SeqMod

IsSent(m) == m \in Messages /\ base[m] # Unsent

NetOK == net \subseteq Sent

WindowOK == \A p, q \in Sent : p.seq = q.seq => p.msg = q.msg

BaseOK == \A m \in Messages : base[m] # Unsent => base[m] \in Nat

\* The cached fragments are chunks of m, each under its own fragment id.
GroupOf(m) ==
    /\ IsSent(m)
    /\ finalSeq = LastSeq(m)
    /\ \A id \in DOMAIN frags : frags[id] = [msg |-> m, fid |-> id]

GroupOK ==
    /\ IsFiniteSet(DOMAIN frags)
    /\ DOMAIN frags # {} => \E m \in Messages : GroupOf(m)

ReassemblyInv ==
    /\ TypeOK
    /\ BaseOK
    /\ NetOK
    /\ WindowOK
    /\ GroupOK
    /\ DispatchedTails

-----------------------------------------------------------------------------
\* Sequence arithmetic.

\* wrapping_add of a u16 that already wrapped.
LEMMA WrappedAdd ==
    ASSUME NEW a \in Nat, NEW b \in Nat
    PROVE  ((a % SeqMod) + b) % SeqMod = (a + b) % SeqMod
  BY SMT DEF SeqMod

\* The packets of a message are well typed.
LEMMA PacketsFromFact ==
    ASSUME NEW m \in Messages, NEW first \in Nat, NEW p \in PacketsFrom(m, first)
    PROVE  /\ p \in PacketType
           /\ p.msg = m
           /\ p.fid <= Chunks[m] - 1
           /\ p.seq = (first + (Chunks[m] - 1 - p.fid)) % SeqMod
           /\ p.seq < SeqMod
  BY ChunksAssumption, SMT DEF PacketsFrom, Packet, PacketType, SeqMod

LEMMA SentFact ==
    ASSUME BaseOK, NEW p \in Sent
    PROVE  /\ p \in PacketType
           /\ IsSent(p.msg)
           /\ p.fid <= Chunks[p.msg] - 1
           /\ p.seq = (base[p.msg] + (Chunks[p.msg] - 1 - p.fid)) % SeqMod
           /\ p.seq < SeqMod
  <1>1. PICK m \in Messages : base[m] # Unsent /\ p \in PacketsFrom(m, base[m])
    BY DEF Sent
  <1>2. base[m] \in Nat
    BY <1>1 DEF BaseOK
  <1> QED BY <1>1, <1>2, PacketsFromFact DEF IsSent

\* sequence + fragment id names the last packet, for every packet of a message.
LEMMA FinalSequenceFact ==
    ASSUME BaseOK, NEW p \in Sent
    PROVE  FinalSequence(p) = LastSeq(p.msg)
  <1> DEFINE m == p.msg
  <1>1. p.fid \in Nat /\ Chunks[m] \in Nat /\ p.fid <= Chunks[m] - 1 /\ base[m] \in Nat /\ m \in Messages
    BY SentFact, ChunksAssumption DEF PacketType, IsSent, BaseOK
  <1> DEFINE a == base[m] + (Chunks[m] - 1 - p.fid)
  <1>2. a \in Nat /\ p.seq = a % SeqMod
    BY <1>1, SentFact
  <1>3. ((a % SeqMod) + p.fid) % SeqMod = (a + p.fid) % SeqMod
    BY <1>1, <1>2, WrappedAdd
  <1>4. a + p.fid = base[m] + (Chunks[m] - 1)
    BY <1>1
  <1> QED BY <1>2, <1>3, <1>4 DEF FinalSequence, LastSeq

\* The packet with the last chunk of m is one of the packets sent.
LEMMA LastPacketSent ==
    ASSUME NEW m \in Messages, base[m] # Unsent
    PROVE  Packet(m, 0, LastSeq(m)) \in Sent
  <1>1. Chunks[m] - 1 \in 0..Chunks[m] - 1
    BY ChunksAssumption
  <1>2. Packet(m, Chunks[m] - 1 - (Chunks[m] - 1), (base[m] + (Chunks[m] - 1)) % SeqMod)
            \in PacketsFrom(m, base[m])
    BY <1>1 DEF PacketsFrom
  <1>3. Chunks[m] - 1 - (Chunks[m] - 1) = 0
    BY ChunksAssumption
  <1> QED BY <1>2, <1>3 DEF Sent, LastSeq

\* The final sequence number identifies the message.
LEMMA LastSeqInjective ==
    ASSUME WindowOK, NEW m, NEW n, IsSent(m), IsSent(n), LastSeq(m) = LastSeq(n)
    PROVE  m = n
  <1>1. Packet(m, 0, LastSeq(m)) \in Sent /\ Packet(n, 0, LastSeq(n)) \in Sent
    BY LastPacketSent DEF IsSent
  <1>2. Packet(m, 0, LastSeq(m)).seq = Packet(n, 0, LastSeq(n)).seq
    BY DEF Packet
  <1>3. Packet(m, 0, LastSeq(m)).msg = Packet(n, 0, LastSeq(n)).msg
    BY <1>1, <1>2 DEF WindowOK
  <1> QED BY <1>3 DEF Packet
-----------------------------------------------------------------------------
\* The environment's actions.

LEMMA InitInv == Init => ReassemblyInv
  <1> SUFFICES ASSUME Init PROVE ReassemblyInv
    OBVIOUS
  <1> USE DEF Init
  <1>1. nextSeq \in Nat
    BY FirstSeqAssumption, SMT DEF SeqMod
  <1>2. DOMAIN frags = {}
    BY DEF NoFrags
  <1>3. TypeOK
    BY <1>1, <1>2 DEF TypeOK, NoFrags, Unsent, NoSeq
  <1>4. Sent = {}
    BY DEF Sent
  <1>5. DispatchedTails
    BY DEF DispatchedTails
  <1>6. GroupOK
    BY <1>2, FS_EmptySet DEF GroupOK
  <1> QED BY <1>3, <1>4, <1>5, <1>6 DEF ReassemblyInv, BaseOK, NetOK, WindowOK

\* Sending a message adds its packets and disturbs no earlier one.
LEMMA SendInv ==
    ASSUME ReassemblyInv, NEW m \in Messages, Send(m)
    PROVE  ReassemblyInv'
  <1> USE DEF ReassemblyInv
  <1>1. nextSeq \in Nat /\ Chunks[m] \in Nat /\ base \in [Messages -> Int]
    BY ChunksAssumption DEF TypeOK
  <1>2. /\ base' = [base EXCEPT ![m] = nextSeq]
        /\ net' = net \cup PacketsFrom(m, nextSeq)
        /\ UNCHANGED <<acked, frags, fragBytes, finalSeq, started, dispatched>>
    BY DEF Send, group
  <1>3. Sent' = Sent \cup PacketsFrom(m, nextSeq)
    <2>1. ASSUME NEW n \in Messages, n # m
          PROVE  base'[n] = base[n] /\ (PacketsFrom(n, base[n]))' = PacketsFrom(n, base[n])
      BY <1>1, <1>2, <2>1 DEF PacketsFrom, Packet
    <2>2. base'[m] = nextSeq /\ base'[m] # Unsent /\ base[m] = Unsent
      BY <1>1, <1>2 DEF Send, Unsent
    <2>3. (PacketsFrom(m, base[m]))' = PacketsFrom(m, nextSeq)
      BY <2>2 DEF PacketsFrom, Packet
    <2>4. ASSUME NEW p \in Sent' PROVE p \in Sent \cup PacketsFrom(m, nextSeq)
      <3>1. PICK n \in Messages : base'[n] # Unsent /\ p \in (PacketsFrom(n, base[n]))'
        BY DEF Sent
      <3> QED BY <2>1, <2>3, <3>1 DEF Sent
    <2>5. ASSUME NEW p \in Sent PROVE p \in Sent'
      <3>1. PICK n \in Messages : base[n] # Unsent /\ p \in PacketsFrom(n, base[n])
        BY DEF Sent
      <3>2. n # m
        BY <2>2, <3>1
      <3> QED BY <2>1, <3>1, <3>2 DEF Sent
    <2>6. PacketsFrom(m, nextSeq) \subseteq Sent'
      BY <2>2, <2>3 DEF Sent
    <2> QED BY <2>4, <2>5, <2>6
  <1>4. TypeOK'
    <2>1. nextSeq' \in Nat
      BY <1>1, SMT DEF Send, SeqMod
    <2>2. base' \in [Messages -> Int]
      BY <1>1, <1>2
    <2>3. net' \subseteq PacketType
      BY <1>1, <1>2, PacketsFromFact DEF TypeOK
    <2> QED BY <1>2, <2>1, <2>2, <2>3 DEF TypeOK
  <1>5. BaseOK'
    BY <1>1, <1>2 DEF BaseOK
  <1>6. NetOK'
    BY <1>2, <1>3 DEF NetOK
  <1>7. WindowOK'
    <2> SUFFICES ASSUME NEW p \in Sent', NEW q \in Sent', p.seq = q.seq
                 PROVE  p.msg = q.msg
      BY DEF WindowOK
    <2>1. \A a \in PacketsFrom(m, nextSeq), b \in Sent : a.seq # b.seq
      BY DEF Send
    <2>2. \A a \in PacketsFrom(m, nextSeq) : a.msg = m
      BY <1>1, PacketsFromFact
    <2> QED BY <1>3, <2>1, <2>2 DEF WindowOK
  <1>8. GroupOK'
    <2> SUFFICES ASSUME DOMAIN frags # {}
                 PROVE  \E n \in Messages : GroupOf(n)'
      BY <1>2 DEF GroupOK
    <2>1. PICK n \in Messages : GroupOf(n)
      BY DEF GroupOK
    <2>2. n # m
      BY <2>1 DEF GroupOf, IsSent, Send
    <2>3. base'[n] = base[n]
      BY <1>1, <1>2, <2>2
    <2> QED BY <1>2, <2>1, <2>3 DEF GroupOf, IsSent, LastSeq
  <1>9. DispatchedTails'
    BY <1>2 DEF DispatchedTails, IsMessageTail
  <1> QED BY <1>4, <1>5, <1>6, <1>7, <1>8, <1>9

GroupType ==
    /\ DOMAIN frags \subseteq Nat \ {0}
    /\ frags \in [DOMAIN frags -> ChunkType]
    /\ fragBytes \in Nat
    /\ finalSeq \in Int
    /\ started \in {"none", "fresh", "expired"}

HandledOK == dispatched \in Seq(Seq(ChunkType)) /\ DispatchedTails

\* What is left to show of a step that sends no message.
LEMMA FrameInv ==
    ASSUME ReassemblyInv, UNCHANGED <<base, nextSeq>>,
           net' \subseteq Sent, acked' \subseteq PacketType,
           GroupType', GroupOK', HandledOK'
    PROVE  ReassemblyInv'
  <1>1. Sent' = Sent
    BY DEF Sent, PacketsFrom, Packet
  <1>2. net' \subseteq PacketType
    BY SentFact DEF ReassemblyInv
  <1>3. TypeOK'
    BY <1>2 DEF ReassemblyInv, TypeOK, GroupType, HandledOK
  <1>4. BaseOK' /\ NetOK' /\ WindowOK'
    BY <1>1 DEF ReassemblyInv, BaseOK, NetOK, WindowOK
  <1> QED BY <1>3, <1>4 DEF ReassemblyInv, HandledOK

\* The group and the handled payloads are as they were.
LEMMA SameGroupFact ==
    ASSUME ReassemblyInv, UNCHANGED <<base, frags, fragBytes, finalSeq>>,
           started' \in {"none", "fresh", "expired"}
    PROVE  GroupType' /\ GroupOK'
  BY DEF ReassemblyInv, TypeOK, GroupType, GroupOK, GroupOf, IsSent, LastSeq

LEMMA SameHandledFact ==
    ASSUME ReassemblyInv, UNCHANGED dispatched
    PROVE  HandledOK'
  BY DEF ReassemblyInv, TypeOK, HandledOK, DispatchedTails, IsMessageTail

LEMMA ResetGroupFact ==
    ASSUME ResetGroup
    PROVE  GroupType' /\ GroupOK'
  <1>1. DOMAIN frags' = {}
    BY DEF ResetGroup, NoFrags
  <1>2. GroupType'
    BY <1>1 DEF ResetGroup, NoFrags, NoSeq, GroupType
  <1>3. GroupOK'
    BY <1>1, FS_EmptySet DEF GroupOK
  <1> QED BY <1>2, <1>3

-----------------------------------------------------------------------------
\* The server's steps.

\* cache_fragment keeps one message in the group.
LEMMA CacheFragmentFact ==
    ASSUME ReassemblyInv, NEW p \in Sent, UNCHANGED base, ~IsFinal(p), CacheFragment(p)
    PROVE  GroupType' /\ GroupOK'
  <1> USE DEF ReassemblyInv
  <1> DEFINE kept == IF SameGroup(p) THEN LiveFrags ELSE NoFrags
             total == (IF SameGroup(p) THEN fragBytes ELSE 0) + Bytes[p.msg]
  <1>1. CASE ResetGroup
    BY <1>1, ResetGroupFact
  <1>2. CASE UNCHANGED group
    BY <1>2, SameGroupFact DEF group, TypeOK
  <1>3. CASE /\ p.fid \notin DOMAIN kept
             /\ frags' = [id \in DOMAIN kept \cup {p.fid} |->
                              IF id = p.fid THEN Chunk(p) ELSE kept[id]]
             /\ fragBytes' = total
             /\ finalSeq' = FinalSequence(p)
             /\ started' = IF SameGroup(p) THEN started ELSE "fresh"
    <2>1. /\ p.msg \in Messages /\ base[p.msg] # Unsent
          /\ p.fid \in Nat \ {0} /\ p.seq \in Nat
          /\ Chunk(p) = [msg |-> p.msg, fid |-> p.fid] /\ Chunk(p) \in ChunkType
      BY SentFact DEF IsSent, IsFinal, PacketType, Chunk, ChunkType
    <2>2. ASSUME NEW id \in DOMAIN kept
          PROVE  id \in Nat \ {0} /\ kept[id] = [msg |-> p.msg, fid |-> id]
      <3>1. SameGroup(p) /\ kept = frags /\ id \in DOMAIN frags /\ finalSeq = FinalSequence(p)
        BY DEF LiveFrags, LiveFinalSeq, NoFrags, SameGroup, NoSeq
      <3>2. PICK m \in Messages : GroupOf(m)
        BY <3>1 DEF GroupOK
      <3>3. LastSeq(m) = LastSeq(p.msg) /\ IsSent(m) /\ IsSent(p.msg)
        BY <2>1, <3>1, <3>2, FinalSequenceFact DEF GroupOf, IsSent
      <3>4. m = p.msg
        BY <3>3, LastSeqInjective
      <3> QED BY <3>1, <3>2, <3>4 DEF GroupOf, TypeOK
    <2>3. DOMAIN frags' = DOMAIN kept \cup {p.fid}
      BY <1>3
    <2>4. \A id \in DOMAIN frags' : id \in Nat \ {0} /\ frags'[id] = [msg |-> p.msg, fid |-> id]
      <3> SUFFICES ASSUME NEW id \in DOMAIN frags'
                   PROVE  id \in Nat \ {0} /\ frags'[id] = [msg |-> p.msg, fid |-> id]
        OBVIOUS
      <3>1. CASE id = p.fid
        BY <1>3, <2>1, <2>3, <3>1
      <3>2. CASE id # p.fid
        <4>1. id \in DOMAIN kept /\ frags'[id] = kept[id]
          BY <1>3, <2>3, <3>2
        <4> QED BY <2>2, <4>1
      <3> QED BY <3>1, <3>2
    <2>5. frags' \in [DOMAIN frags' -> ChunkType]
      <3>1. \A id \in DOMAIN frags' : frags'[id] \in ChunkType
        BY <2>1, <2>4 DEF ChunkType
      <3>2. frags' = [id \in DOMAIN frags' |-> frags'[id]]
        BY <1>3
      <3> QED BY <3>1, <3>2
    <2>6. fragBytes' \in Nat
      BY <1>3, <2>1, BytesAssumption DEF TypeOK
    <2>7. finalSeq' \in Int
      BY <1>3, <2>1, SMT DEF FinalSequence, SeqMod
    <2>8. GroupType'
      BY <1>3, <2>4, <2>5, <2>6, <2>7 DEF GroupType, TypeOK
    <2>9. GroupOf(p.msg)'
      BY <1>3, <2>1, <2>4, FinalSequenceFact DEF GroupOf, IsSent, LastSeq
    <2>10. IsFiniteSet(DOMAIN frags')
      <3>1. IsFiniteSet(DOMAIN kept)
        BY FS_EmptySet DEF LiveFrags, NoFrags, GroupOK
      <3> HIDE DEF kept
      <3> QED BY <2>3, <3>1, FS_AddElement
    <2> QED BY <2>1, <2>8, <2>9, <2>10 DEF GroupOK
  <1> QED BY <1>1, <1>2, <1>3 DEF CacheFragment

\* A payload of one chunk, and a reassembled one, are tails of a message.
LEMMA AppendTail ==
    ASSUME ReassemblyInv, NEW d \in Seq(ChunkType), IsMessageTail(d),
           dispatched' = Append(dispatched, d)
    PROVE  HandledOK'
  <1>1. dispatched \in Seq(Seq(ChunkType))
    BY DEF ReassemblyInv, TypeOK
  <1>2. dispatched' \in Seq(Seq(ChunkType))
    BY <1>1
  <1>3. ASSUME NEW k \in 1..Len(dispatched') PROVE IsMessageTail(dispatched'[k])
    <2>1. CASE k = Len(dispatched) + 1
      BY <1>1, <2>1
    <2>2. CASE k # Len(dispatched) + 1
      <3>1. k \in 1..Len(dispatched) /\ dispatched'[k] = dispatched[k]
        BY <1>1, <1>3, <2>2
      <3> QED BY <3>1 DEF ReassemblyInv, DispatchedTails
    <2> QED BY <2>1, <2>2
  <1> QED BY <1>2, <1>3 DEF HandledOK, DispatchedTails, IsMessageTail

\* finish_fragmented_payload hands over the tail of a message or nothing.
LEMMA FinishMessageFact ==
    ASSUME ReassemblyInv, NEW p \in Sent, UNCHANGED base, IsFinal(p), FinishMessage(p)
    PROVE  GroupType' /\ GroupOK' /\ HandledOK'
  <1> USE DEF ReassemblyInv
  <1>0. /\ p.msg \in Messages /\ p.fid = 0 /\ p \in PacketType
        /\ Chunk(p) = [msg |-> p.msg, fid |-> 0] /\ Chunk(p) \in ChunkType
    BY SentFact DEF IsSent, IsFinal, PacketType, Chunk, ChunkType
  <1>1. CASE /\ dispatched' = Append(dispatched, <<Chunk(p)>>)
             /\ IF started = "expired" THEN ResetGroup ELSE UNCHANGED group
    <2>1. <<Chunk(p)>> \in Seq(ChunkType) /\ IsMessageTail(<<Chunk(p)>>)
      BY <1>0 DEF IsMessageTail
    <2>2. HandledOK'
      BY <1>1, <2>1, AppendTail
    <2>3. GroupType' /\ GroupOK'
      BY <1>1, ResetGroupFact, SameGroupFact DEF group, TypeOK
    <2> QED BY <2>2, <2>3
  <1>2. CASE /\ DOMAIN LiveFrags # {}
             /\ CompleteGroup(p)
             /\ dispatched' = Append(dispatched, Reassembled(Cardinality(DOMAIN frags), p))
             /\ ResetGroup
    <2> DEFINE highest == Cardinality(DOMAIN frags)
               d == Reassembled(highest, p)
    <2>1. DOMAIN frags # {} /\ finalSeq = p.seq /\ DOMAIN frags = 1..highest
      BY <1>2 DEF LiveFrags, LiveFinalSeq, NoFrags, CompleteGroup, NoSeq
    <2>2. highest \in Nat
      BY FS_CardinalityType DEF GroupOK
    <2>3. PICK m \in Messages : GroupOf(m)
      BY <2>1 DEF GroupOK
    <2>4. FinalSequence(p) = p.seq
      BY <1>0, SentFact, SMT DEF FinalSequence, PacketType, SeqMod
    <2>5. m = p.msg
      BY <2>1, <2>3, <2>4, SentFact, FinalSequenceFact, LastSeqInjective DEF GroupOf
    <2>6. d = [i \in 1..highest + 1 |-> [msg |-> m, fid |-> highest + 1 - i]]
      <3>1. ASSUME NEW i \in 1..highest + 1
            PROVE  (IF i <= highest THEN frags[highest + 1 - i] ELSE Chunk(p))
                       = [msg |-> m, fid |-> highest + 1 - i]
        <4>1. CASE i <= highest
          <5>1. highest + 1 - i \in DOMAIN frags
            BY <2>1, <2>2, <4>1
          <5> QED BY <2>3, <4>1, <5>1 DEF GroupOf
        <4>2. CASE ~(i <= highest)
          <5>1. highest + 1 - i = 0
            BY <2>2, <4>2
          <5> QED BY <1>0, <2>5, <4>2, <5>1
        <4> QED BY <4>1, <4>2
      <3> QED BY <3>1 DEF Reassembled
    <2>7. d \in Seq(ChunkType) /\ Len(d) = highest + 1
      <3>1. d \in [1..highest + 1 -> ChunkType]
        BY <2>2, <2>6, SMT DEF ChunkType
      <3> HIDE DEF d
      <3> QED BY <2>2, <3>1
    <2>8. IsMessageTail(d)
      BY <2>2, <2>6, <2>7 DEF IsMessageTail
    <2>9. HandledOK'
      <3> HIDE DEF d
      <3> QED BY <1>2, <2>7, <2>8, AppendTail DEF d
    <2> QED BY <1>2, <2>9, ResetGroupFact
  <1>3. CASE ResetGroup /\ UNCHANGED dispatched
    BY <1>3, ResetGroupFact, SameHandledFact
  <1> QED BY <1>1, <1>2, <1>3 DEF FinishMessage

\* A packet reaches the server: one case per kind of packet.
LEMMA HandleDataInv ==
    ASSUME ReassemblyInv, NEW p \in net, HandleData(p)
    PROVE  ReassemblyInv'
  <1>1. p \in Sent /\ p \in PacketType
    BY SentFact DEF ReassemblyInv, NetOK
  <1>2. /\ UNCHANGED <<base, nextSeq>>
        /\ net' \subseteq Sent
        /\ acked' \subseteq PacketType
    BY <1>1 DEF HandleData, ReassemblyInv, NetOK, TypeOK
  <1>3. CASE ~IsFinal(p) /\ CacheFragment(p) /\ UNCHANGED dispatched
    BY <1>1, <1>2, <1>3, CacheFragmentFact, SameHandledFact, FrameInv
  <1>4. CASE IsFinal(p) /\ FinishMessage(p)
    BY <1>1, <1>2, <1>4, FinishMessageFact, FrameInv
  <1> QED BY <1>3, <1>4 DEF HandleData

LEMMA NextInv == ReassemblyInv /\ [Next]_vars => ReassemblyInv'
  <1> SUFFICES ASSUME ReassemblyInv, [Next]_vars
               PROVE  ReassemblyInv'
    OBVIOUS
  <1>1. ASSUME NEW m \in Messages, Send(m) PROVE ReassemblyInv'
    BY <1>1, SendInv
  <1>2. ASSUME NEW p \in Sent, Retransmit(p) PROVE ReassemblyInv'
    BY <1>2, SameGroupFact, SameHandledFact, FrameInv
       DEF Retransmit, group, ReassemblyInv, TypeOK, NetOK
  <1>3. ASSUME NEW p \in net, Lose(p) PROVE ReassemblyInv'
    BY <1>3, SameGroupFact, SameHandledFact, FrameInv
       DEF Lose, group, ReassemblyInv, TypeOK, NetOK
  <1>4. ASSUME NEW p \in net, HandleData(p) PROVE ReassemblyInv'
    BY <1>4, HandleDataInv
  <1>5. CASE GroupTimesOut
    BY <1>5, SameGroupFact, SameHandledFact, FrameInv
       DEF GroupTimesOut, client, ReassemblyInv, TypeOK, NetOK
  <1>6. CASE UNCHANGED vars
    BY <1>6, SameGroupFact, SameHandledFact, FrameInv
       DEF vars, client, group, ReassemblyInv, TypeOK, NetOK
  <1> QED BY <1>1, <1>2, <1>3, <1>4, <1>5, <1>6 DEF Next

LEMMA SpecInv == Spec => []ReassemblyInv
  BY InitInv, NextInv, PTL DEF Spec

-----------------------------------------------------------------------------
\* The connection's reassembly state always has its type: in particular no
\* cached fragment ever carries the id zero (cache_fragment rejects it).
THEOREM TypeCorrect == Spec => []TypeOK
  <1>1. ReassemblyInv => TypeOK
    BY DEF ReassemblyInv
  <1> QED BY <1>1, SpecInv, PTL

\* packet_fragments never holds fragments of two messages, although
\* cache_fragment only compares final sequence numbers.
THEOREM GroupsAreNotMixed == Spec => []OneMessagePerGroup
  <1>1. ReassemblyInv => OneMessagePerGroup
    BY DEF ReassemblyInv, GroupOK, GroupOf, OneMessagePerGroup
  <1> QED BY <1>1, SpecInv, PTL

\* Whatever is lost, repeated or reordered, the RMC handler is only given
\* payloads finish_fragmented_payload put together from consecutive chunks of
\* one message, up to its last.
THEOREM HandledInOrder == Spec => []DispatchedTails
  <1>1. ReassemblyInv => DispatchedTails
    BY DEF ReassemblyInv
  <1> QED BY <1>1, SpecInv, PTL

-----------------------------------------------------------------------------
\* The bytes of the group.

LEMMA OneMore ==
    ASSUME NEW n \in Nat, NEW b \in Nat
    PROVE  n * b + b = (n + 1) * b
  OBVIOUS

LEMMA ResetIsAccounted == ResetGroup => FragmentAccounting'
  BY LimitsAssumption DEF ResetGroup, NoFrags, FragmentAccounting

\* cache_fragment counts the chunk it keeps, and nothing when it keeps none.
LEMMA CachedIsAccounted ==
    ASSUME ReassemblyInv, ReassemblyInv', FragmentAccounting,
           NEW p \in Sent, ~IsFinal(p), CacheFragment(p)
    PROVE  FragmentAccounting'
  <1> DEFINE kept == IF SameGroup(p) THEN LiveFrags ELSE NoFrags
             total == (IF SameGroup(p) THEN fragBytes ELSE 0) + Bytes[p.msg]
  <1>1. CASE ResetGroup
    BY <1>1, ResetIsAccounted
  <1>2. CASE UNCHANGED group
    BY <1>2 DEF group, FragmentAccounting
  <1>3. CASE /\ p.fid \notin DOMAIN kept
             /\ total <= MaxBytes
             /\ frags' = [id \in DOMAIN kept \cup {p.fid} |->
                              IF id = p.fid THEN Chunk(p) ELSE kept[id]]
             /\ fragBytes' = total
             /\ finalSeq' = FinalSequence(p)
             /\ started' = IF SameGroup(p) THEN started ELSE "fresh"
    <2>1. /\ p.msg \in Messages /\ Bytes[p.msg] \in Nat
          /\ FinalSequence(p) # NoSeq /\ Chunk(p).msg = p.msg
      <3>1. p \in PacketType
        BY SentFact DEF ReassemblyInv
      <3>2. FinalSequence(p) \in Nat
        BY <3>1, SMT DEF PacketType, FinalSequence, SeqMod
      <3> QED BY <3>1, <3>2, BytesAssumption DEF PacketType, Chunk, NoSeq
    <2>2. /\ IsFiniteSet(DOMAIN kept)
          /\ total = Cardinality(DOMAIN kept) * Bytes[p.msg] + Bytes[p.msg]
          /\ SameGroup(p) => started # "none"
      <3>1. CASE SameGroup(p)
        <4>1. kept = frags /\ DOMAIN frags # {} /\ finalSeq # NoSeq
          BY <2>1, <3>1 DEF SameGroup, LiveFinalSeq, LiveFrags, FragmentAccounting
        <4>2. frags[CHOOSE id \in DOMAIN frags : TRUE].msg = p.msg
          <5>1. PICK id \in DOMAIN frags : id = CHOOSE i \in DOMAIN frags : TRUE
            BY <4>1
          <5>2. id \in DOMAIN frags' /\ p.fid \in DOMAIN frags' /\ id # p.fid
                /\ frags'[id] = frags[id] /\ frags'[p.fid] = Chunk(p)
            BY <1>3, <4>1, <5>1
          <5>3. OneMessagePerGroup'
            BY DEF ReassemblyInv, GroupOK, GroupOf, OneMessagePerGroup
          <5>4. frags'[id].msg = frags'[p.fid].msg
            BY <5>2, <5>3 DEF OneMessagePerGroup
          <5> QED BY <2>1, <5>1, <5>2, <5>4
        <4>3. fragBytes = Cardinality(DOMAIN frags) * Bytes[p.msg]
          BY <4>1, <4>2 DEF FragmentAccounting
        <4> QED BY <3>1, <4>1, <4>3 DEF ReassemblyInv, GroupOK, FragmentAccounting
      <3>2. CASE ~SameGroup(p)
        <4>1. kept = NoFrags /\ DOMAIN kept = {} /\ total = 0 + Bytes[p.msg]
          BY <3>2 DEF NoFrags
        <4>2. Cardinality(DOMAIN kept) = 0 /\ IsFiniteSet(DOMAIN kept)
          BY <4>1, FS_EmptySet
        <4> HIDE DEF kept, total
        <4> QED BY <2>1, <3>2, <4>1, <4>2
      <3> QED BY <3>1, <3>2
    <2> HIDE DEF kept
    <2>3. /\ DOMAIN frags' = DOMAIN kept \cup {p.fid}
          /\ Cardinality(DOMAIN frags') = Cardinality(DOMAIN kept) + 1
          /\ Cardinality(DOMAIN kept) \in Nat
      BY <1>3, <2>2, FS_AddElement, FS_CardinalityType
    <2>4. fragBytes' = Cardinality(DOMAIN frags') * Bytes[p.msg]
      BY <1>3, <2>1, <2>2, <2>3, OneMore
    <2>5. \A id \in DOMAIN frags' : frags'[id].msg = p.msg
      <3>1. p.fid \in DOMAIN frags' /\ frags'[p.fid].msg = p.msg
        BY <1>3, <2>1, <2>3
      <3>2. OneMessagePerGroup'
        BY DEF ReassemblyInv, GroupOK, GroupOf, OneMessagePerGroup
      <3> QED BY <3>1, <3>2 DEF OneMessagePerGroup
    <2>6. DOMAIN frags' # {} /\ finalSeq' # NoSeq /\ started' # "none" /\ fragBytes' <= MaxBytes
      BY <1>3, <2>1, <2>2, <2>3
    <2> QED BY <2>4, <2>5, <2>6 DEF FragmentAccounting
  <1> QED BY <1>1, <1>2, <1>3 DEF CacheFragment

LEMMA StepIsAccounted ==
    ReassemblyInv /\ ReassemblyInv' /\ FragmentAccounting /\ [Next]_vars => FragmentAccounting'
  <1> SUFFICES ASSUME ReassemblyInv, ReassemblyInv', FragmentAccounting, [Next]_vars
               PROVE  FragmentAccounting'
    OBVIOUS
  <1>1. ASSUME NEW p \in net, HandleData(p) PROVE FragmentAccounting'
    <2>1. p \in Sent
      BY DEF ReassemblyInv, NetOK
    <2>2. CASE ~IsFinal(p) /\ CacheFragment(p)
      BY <2>1, <2>2, CachedIsAccounted
    <2>3. CASE IsFinal(p) /\ FinishMessage(p)
      <3>1. ResetGroup \/ UNCHANGED group
        BY <2>3 DEF FinishMessage
      <3> QED BY <3>1, ResetIsAccounted DEF group, FragmentAccounting
    <2> QED BY <1>1, <2>2, <2>3 DEF HandleData
  <1>2. CASE GroupTimesOut
    BY <1>2 DEF GroupTimesOut, FragmentAccounting
  <1>3. CASE UNCHANGED group
    BY <1>3 DEF group, FragmentAccounting
  <1> QED BY <1>1, <1>2, <1>3 DEF Next, Send, Retransmit, Lose, vars

\* packet_fragment_bytes stays exact and within MAX_INBOUND_MESSAGE_BYTES, and the
\* fields of a group are reset together, for every limit, size and order of packets.
THEOREM BytesAreCounted == Spec => []FragmentAccounting
  <1>1. Init => FragmentAccounting
    BY LimitsAssumption DEF Init, NoFrags, NoSeq, FragmentAccounting
  <1>2. ReassemblyInv /\ ReassemblyInv' /\ FragmentAccounting /\ [Next]_vars => FragmentAccounting'
    BY StepIsAccounted
  <1> QED BY <1>1, <1>2, SpecInv, PTL DEF Spec

=============================================================================
