-------------------------- MODULE PrudpReassembly --------------------------
(***************************************************************************)
(* Inbound DATA packets of one PRUDP connection: server/quazal/src/prudp.rs *)
(* keeps the fragments of the message being received in the ClientInfo of  *)
(* the connection, and hands a payload to the RMC handler when the final   *)
(* fragment (fragment id zero) arrives.                                    *)
(*                                                                         *)
(* The client and the network are the environment: a message is cut into   *)
(* chunks, the first chunk carries the highest fragment id, every chunk    *)
(* takes the next sequence number; packets are lost, duplicated, reordered *)
(* and retransmitted until an ACK for them is seen.                        *)
(***************************************************************************)
EXTENDS Integers, FiniteSets, Sequences

CONSTANTS
    Messages,     \* the messages the client sends on the connection
    Chunks,       \* [Messages -> Nat \ {0}]: how many chunks each is cut into
    Bytes,        \* [Messages -> Nat]: the size of each chunk of a message
    FirstSeq,     \* the client's sequence counter when the behaviour starts
    MaxBytes,     \* MAX_INBOUND_MESSAGE_BYTES
    MaxDispatch   \* bound: payloads handed to the handler in a behaviour

ASSUME ChunksAssumption == Chunks \in [Messages -> Nat \ {0}]
ASSUME BytesAssumption == Bytes \in [Messages -> Nat]
ASSUME FirstSeqAssumption == FirstSeq \in Nat
ASSUME LimitsAssumption == MaxBytes \in Nat /\ MaxDispatch \in Nat

VARIABLES
    base,        \* environment: first sequence number of a message, or Unsent
    nextSeq,     \* environment: the client's sequence counter
    net,         \* environment: packets in flight to the server
    acked,       \* environment: packets whose ACK reached the client
    frags,       \* packet_fragments: fragment id -> payload chunk
    fragBytes,   \* packet_fragment_bytes
    finalSeq,    \* packet_fragment_final_sequence, or NoSeq
    started,     \* packet_fragment_started_at against the assembly timeout
    dispatched   \* payloads handed to the handler, oldest first

client == <<base, nextSeq, net, acked>>
group  == <<frags, fragBytes, finalSeq, started>>
vars   == <<client, group, dispatched>>

SeqMod == 65536  \* sequence numbers are u16

Unsent == -1
NoSeq  == -1
NoFrags == [id \in {} |-> {}]

Packet(m, fid, seq) == [msg |-> m, fid |-> fid, seq |-> seq]

\* The payload of a packet: which chunk of which message it carries.
Chunk(p) == [msg |-> p.msg, fid |-> p.fid]

PacketsFrom(m, first) ==
    {Packet(m, Chunks[m] - 1 - k, (first + k) % SeqMod) : k \in 0..Chunks[m] - 1}

Sent == UNION {PacketsFrom(m, base[m]) : m \in {n \in Messages : base[n] # Unsent}}

Init ==
    /\ base = [m \in Messages |-> Unsent]
    /\ nextSeq = FirstSeq % SeqMod
    /\ net = {}
    /\ acked = {}
    /\ frags = NoFrags
    /\ fragBytes = 0
    /\ finalSeq = NoSeq
    /\ started = "none"
    /\ dispatched = <<>>

-----------------------------------------------------------------------------
\* The client and the network.

\* The client's window is much shorter than the sequence space: a number is
\* not reused while packets that carry it may still be in flight.
Send(m) ==
    /\ base[m] = Unsent
    /\ \A p \in PacketsFrom(m, nextSeq), q \in Sent : p.seq # q.seq
    /\ base' = [base EXCEPT ![m] = nextSeq]
    /\ nextSeq' = (nextSeq + Chunks[m]) % SeqMod
    /\ net' = net \cup PacketsFrom(m, nextSeq)
    /\ UNCHANGED <<acked, group, dispatched>>

Retransmit(p) ==
    /\ p \notin net \cup acked
    /\ net' = net \cup {p}
    /\ UNCHANGED <<base, nextSeq, acked, group, dispatched>>

Lose(p) ==
    /\ net' = net \ {p}
    /\ UNCHANGED <<base, nextSeq, acked, group, dispatched>>

\* More than FRAGMENT_ASSEMBLY_TIMEOUT passes since the group was started.
GroupTimesOut ==
    /\ started = "fresh"
    /\ started' = "expired"
    /\ UNCHANGED <<client, frags, fragBytes, finalSeq, dispatched>>

-----------------------------------------------------------------------------
\* The server.

FinalSequence(p) == (p.seq + p.fid) % SeqMod

IsFinal(p) == p.fid = 0

\* expire_fragment_state: what is left of the group once an expired one is reset.
LiveFrags    == IF started = "expired" THEN NoFrags ELSE frags
LiveFinalSeq == IF started = "expired" THEN NoSeq ELSE finalSeq

\* The packet belongs to the group being assembled. Mutant: any group will do.
SameGroup_Any(p) == LiveFinalSeq # NoSeq

SameGroup(p) == LiveFinalSeq = FinalSequence(p)

\* Mutant: the byte count survives the group.
ResetGroup_KeepsBytes ==
    /\ frags' = NoFrags
    /\ finalSeq' = NoSeq
    /\ started' = "none"
    /\ UNCHANGED fragBytes

ResetGroup ==
    /\ frags' = NoFrags
    /\ fragBytes' = 0
    /\ finalSeq' = NoSeq
    /\ started' = "none"

\* cache_fragment, and the reset the caller does when it returns an error.
CacheFragment(p) ==
    LET kept  == IF SameGroup(p) THEN LiveFrags ELSE NoFrags
        total == (IF SameGroup(p) THEN fragBytes ELSE 0) + Bytes[p.msg]
    IN  \/ /\ p.fid \in DOMAIN kept
           /\ kept[p.fid] = Chunk(p)
           /\ UNCHANGED group
        \/ /\ p.fid \in DOMAIN kept
           /\ kept[p.fid] # Chunk(p)
           /\ ResetGroup
        \/ /\ p.fid \notin DOMAIN kept
           /\ total > MaxBytes
           /\ ResetGroup
        \/ /\ p.fid \notin DOMAIN kept
           /\ total <= MaxBytes
           /\ frags' = [id \in DOMAIN kept \cup {p.fid} |->
                            IF id = p.fid THEN Chunk(p) ELSE kept[id]]
           /\ fragBytes' = total
           /\ finalSeq' = FinalSequence(p)
           /\ started' = IF SameGroup(p) THEN started ELSE "fresh"

\* Mutant: the cached chunks are joined from the lowest fragment id up.
Reassembled_Ascending(highest, p) ==
    [i \in 1..highest + 1 |-> IF i <= highest THEN frags[i] ELSE Chunk(p)]

\* The payload finish_fragmented_payload returns: the cached chunks from the
\* highest fragment id down, then the final one.
Reassembled(highest, p) ==
    [i \in 1..highest + 1 |-> IF i <= highest THEN frags[highest + 1 - i] ELSE Chunk(p)]

CompleteGroup(p) ==
    /\ LiveFinalSeq = p.seq
    /\ DOMAIN frags = 1..Cardinality(DOMAIN frags)
    /\ fragBytes + Bytes[p.msg] <= MaxBytes

\* finish_fragmented_payload, and the reset the caller does on an error.
FinishMessage(p) ==
    \/ /\ Bytes[p.msg] <= MaxBytes
       /\ DOMAIN LiveFrags = {}
       /\ dispatched' = Append(dispatched, <<Chunk(p)>>)
       /\ IF started = "expired" THEN ResetGroup ELSE UNCHANGED group
    \/ /\ Bytes[p.msg] <= MaxBytes
       /\ DOMAIN LiveFrags # {}
       /\ CompleteGroup(p)
       /\ dispatched' = Append(dispatched, Reassembled(Cardinality(DOMAIN frags), p))
       /\ ResetGroup
    \/ /\ \/ Bytes[p.msg] > MaxBytes
          \/ DOMAIN LiveFrags # {} /\ ~CompleteGroup(p)
       /\ ResetGroup
       /\ UNCHANGED dispatched

\* handle_data: the ACK is sent before the payload is looked at. The network
\* may keep a copy of the packet, and may lose the ACK.
HandleData(p) ==
    /\ Len(dispatched) < MaxDispatch
    /\ net' \in {net, net \ {p}}
    /\ acked' \in {acked, acked \cup {p}}
    /\ \/ ~IsFinal(p) /\ CacheFragment(p) /\ UNCHANGED dispatched
       \/ IsFinal(p) /\ FinishMessage(p)
    /\ UNCHANGED <<base, nextSeq>>

Next ==
    \/ \E m \in Messages : Send(m)
    \/ \E p \in Sent : Retransmit(p)
    \/ \E p \in net : Lose(p)
    \/ \E p \in net : HandleData(p)
    \/ GroupTimesOut

Spec == Init /\ [][Next]_vars

-----------------------------------------------------------------------------
\* Properties.

ChunkType == [msg : Messages, fid : Nat]

PacketType == [msg : Messages, fid : Nat, seq : Nat]

\* Type correctness of the connection's reassembly state and its environment.
TypeOK ==
    /\ base \in [Messages -> Int]
    /\ nextSeq \in Nat
    /\ net \subseteq PacketType
    /\ acked \subseteq PacketType
    /\ DOMAIN frags \subseteq Nat \ {0}
    /\ frags \in [DOMAIN frags -> ChunkType]
    /\ fragBytes \in Nat
    /\ finalSeq \in Int
    /\ started \in {"none", "fresh", "expired"}
    /\ dispatched \in Seq(Seq(ChunkType))

\* packet_fragment_bytes is what the cached fragments, which are of one message,
\* really occupy, and stays within the limit, whatever is duplicated, replaced or
\* rejected; the four fields of the group are reset together.
FragmentAccounting ==
    /\ DOMAIN frags = {} => fragBytes = 0
    /\ \A id \in DOMAIN frags :
           fragBytes = Cardinality(DOMAIN frags) * Bytes[frags[id].msg]
    /\ fragBytes <= MaxBytes
    /\ (DOMAIN frags = {}) <=> (finalSeq = NoSeq)
    /\ (DOMAIN frags = {}) <=> (started = "none")

\* Fragments of two messages are never cached together.
OneMessagePerGroup ==
    \A i, j \in DOMAIN frags : frags[i].msg = frags[j].msg

\* d is the tail of one message: its chunks in the order the client cut them,
\* with nothing missing between the first of them and the last chunk.
IsMessageTail(d) ==
    /\ Len(d) > 0
    /\ \A i \in 1..Len(d) : d[i] = [msg |-> d[1].msg, fid |-> Len(d) - i]

\* Whatever the network does to the packets, the handler is never given chunks
\* of two messages, chunks out of order, or a message with a hole in it.
DispatchedTails ==
    \A k \in 1..Len(dispatched) : IsMessageTail(dispatched[k])

\* What the reassembly tests state: a group with a missing fragment is
\* rejected, so the handler only sees whole messages.
OnlyWholeMessages ==
    \A k \in 1..Len(dispatched) : Len(dispatched[k]) = Chunks[dispatched[k][1].msg]
=============================================================================
