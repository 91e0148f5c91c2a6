---------------------------- MODULE WireCodecs -----------------------------
(***************************************************************************)
(* A call on the wire: the game sends a packet, the server reads it, sends *)
(* its acknowledgement and, to a call, the answer: the value the service   *)
(* returned, written as bytes, cut into chunks, one packet each.  The game *)
(* reads the packets, joins the chunks and reads the value.  Composes      *)
(* PrudpPacket and KerberosTickets as prudp.rs does; how values are        *)
(* written is a parameter, for which TLC is given RmcStreams.  The game    *)
(* reads with the same code.  Packets arrive in order and none is lost:    *)
(* what the server does otherwise is PrudpReassembly's.  The header of a   *)
(* call and an answer is RmcServer's.  The server stands for both: the     *)
(* one the game logs in to, and the one it shows its ticket.               *)
(***************************************************************************)
EXTENDS KerberosTickets

CONSTANTS
    GamePackets,     \* packets the game sends
    GameConnect,     \* its CONNECT, but for the payload
    Challenge,       \* and what it asks there
    Answers,         \* what the services return, as a sequence of [kind, value];
                     \* a login also has [user, password, ticket, nonce, at]: who
                     \* logged in, what he got and in which field of the value
    WriteValue(_, _),  \* to_stream of a kind of value
    ReadValue(_, _),   \* from_stream of a kind of value
    ServerSignature, \* what ClientInfo::new chose, and the game in its CONNECT
    ClientSignature,
    ServerSession,
    MaxPayloadSize,  \* MAX_PAYLOAD_SIZE, 1000 in the code
    MaxExchanges     \* bound: packets the game sends in a behaviour

\* An answer to a CONNECT takes one packet.
ASSUME ServerAssumption ==
    /\ MaxPayloadSize \in Nat /\ MaxPayloadSize >= 8
    /\ ServerSignature \in Four /\ ClientSignature \in Four /\ ServerSession \in Byte

\* The game's packets are those of its connection; its CONNECT is not compressed.
ASSUME GameAssumption ==
    /\ \A p \in GamePackets \cup {GameConnect} :
           WellFormed(p) /\ p.source.stream = "RVSec" /\ p.destination.stream = "RVSec"
    /\ GameConnect.type = "Connect" /\ ~GameConnect.compress
    /\ Fits(Challenge, 4)

\* A CONNECT that shows no ticket of a login has none: nobody else can seal one.
ASSUME NoForgedTickets ==
    \A p \in GamePackets : p.type = "Connect" /\ p.payload # <<>> => Connected(p.payload).users = {}

\* What a login returns is the ticket that was made for it.
IsLogin(login, value) ==
    LET t == login.ticket
    IN  /\ IsTicket(t, login.nonce) /\ t.user = login.user
        /\ login.password \in Seq(Seq(Byte))
        /\ value[login.at] = AsBytes(t, login.nonce, login.user, login.password)

ASSUME LoginsAssumption ==
    \A a \in DOMAIN Answers :
        "login" \in DOMAIN Answers[a] => IsLogin(Answers[a].login, Answers[a].value)

\* A sealed ticket, and the CONNECT that shows it, are of an allowed size.
ASSUME ConnectAssumption ==
    /\ NonceSize + SessionKeySize + 13 <= MaxCollectionItems /\ 12 <= MaxCollectionItems
    /\ NonceSize + SessionKeySize + 34 <= Len(KeyStream)

VARIABLES
    toServer,   \* datagrams to the server: the packet as it was sent, and its bytes
    toGame,     \* datagrams to the game
    exchanges,  \* packets the game has sent
    sequence,   \* server_sequence_id
    joined,     \* what the game has of an answer
    answer,     \* which of them the last call returned, or 0
    received,   \* the answers the game has read
    shown,      \* environment: the users whose tickets the game's CONNECT shows
    user        \* user_id of the connection: no user or one

vars == <<toServer, toGame, exchanges, sequence, joined, answer, received, shown, user>>

Init ==
    /\ toServer = <<>>
    /\ toGame = <<>>
    /\ exchanges = 0
    /\ sequence = 1
    /\ joined = <<>>
    /\ answer = 0
    /\ received = <<>>
    /\ shown = {}
    /\ user = {}

\* send_packet: data is compressed and has a fragment id, and everything has a size.
Sent(p) ==
    LET q == [p EXCEPT !.flags = @ \cup {"HasSize"}, !.compress = @ \/ p.type = "Data"]
    IN  [packet |-> q, bytes |-> ToBytes(q)]

\* What from_bytes and validate make of a datagram; it holds one packet.
Arrived(d) == FromBytes(d.bytes)

-----------------------------------------------------------------------------
\* The server.

\* What is in a field of a signature that nobody has.
NoSignature == <<0, 0, 0, 0>>

\* send_ack; handle_syn gives the connection's signature, handle_connect zero and the
\* payload of its reply.
Ack(p, payload) ==
    [p EXCEPT !.source = p.destination, !.destination = p.source, !.flags = {"Ack", "HasSize"},
              !.signature = IF p.type = "Syn" THEN NoSignature ELSE ClientSignature,
              !.session = IF p.type = "Syn" THEN 0 ELSE ServerSession,
              !.connSignature = IF p.type = "Syn" THEN ServerSignature
                                ELSE IF p.type = "Connect" THEN NoSignature ELSE @,
              !.payload = payload]

ChunkCount(payload) == (Len(payload) + MaxPayloadSize - 1) \div MaxPayloadSize

ChunkOf(payload, i) ==
    SubSeq(payload, (i - 1) * MaxPayloadSize + 1,
           IF i * MaxPayloadSize < Len(payload) THEN i * MaxPayloadSize ELSE Len(payload))

\* server_sequence_id, a u16: it wraps in a release build.
Wrapped(n) == n % 65536

\* handle_data and send_response: the packets of an answer to p.
Response(p, payload) ==
    [i \in 1..ChunkCount(payload) |->
        [p EXCEPT !.source = p.destination, !.destination = p.source,
                  !.flags = {"HasSize", "NeedAck", "Reliable"},
                  !.signature = ClientSignature, !.session = ServerSession,
                  !.sequence = Wrapped(sequence + i - 1),
                  !.fragment = (ChunkCount(payload) - i) % 256,
                  !.payload = ChunkOf(payload, i)]]

\* The game's packet arrives whole. A SYN and a CONNECT without a payload are
\* acknowledged without one.
ServerReads(ack, responses) ==
    /\ toGame' = <<Sent(ack)>> \o [i \in DOMAIN responses |-> Sent(responses[i])]
    /\ toServer' = <<>>
    /\ sequence' = Wrapped(sequence + Len(responses))

Readable == toServer # <<>> /\ Arrived(toServer[1]).ok

Read1 == Arrived(toServer[1]).packet

\* handle_syn, and a PING and a DISCONNECT of a client that is connected.
AckOnly ==
    /\ Readable
    /\ Read1.type \in {"Syn", "Ping", "Disconnect"}
    /\ ServerReads(Ack(Read1, <<>>), <<>>)
    /\ UNCHANGED <<exchanges, joined, answer, received, shown, user>>

\* handle_connect, of a new client.
Connect ==
    /\ Readable
    /\ Read1.type = "Connect"
    /\ LET c == IF Read1.payload = <<>> THEN [users |-> {}, reply |-> <<>>]
                                       ELSE Connected(Read1.payload)
       IN  ServerReads(Ack(Read1, c.reply), <<>>) /\ user' = c.users
    /\ UNCHANGED <<exchanges, joined, answer, received, shown>>

AnswerBytes(a) == WriteValue(Answers[a].kind, Answers[a].value)

\* A fragment id is a u8, and an answer of no bytes is not sent.
ASSUME AnswersAssumption ==
    \A a \in DOMAIN Answers :
        /\ a # 0
        /\ AnswerBytes(a) \in Seq(Byte) \ {<<>>} /\ ChunkCount(AnswerBytes(a)) <= 256

\* handle_data, of a call whose service returns answer a.
Call(a) ==
    /\ Readable
    /\ Read1.type = "Data"
    /\ ServerReads(Ack(Read1, <<>>), Response(Read1, AnswerBytes(a)))
    /\ answer' = a
    /\ UNCHANGED <<exchanges, joined, received, shown, user>>

-----------------------------------------------------------------------------
\* The game.

GameSends(p) ==
    /\ toServer = <<>>
    /\ toGame = <<>>
    /\ exchanges < MaxExchanges
    /\ toServer' = <<[packet |-> p, bytes |-> ToBytes(p)]>>
    /\ exchanges' = exchanges + 1
    /\ answer' = 0
    /\ received' = <<>>
    /\ shown' = {}
    /\ UNCHANGED <<toGame, sequence, joined, user>>

\* The game has the answer to a login and shows the secure server its ticket.
GameConnects ==
    /\ toServer = <<>> /\ toGame = <<>> /\ exchanges < MaxExchanges
    /\ received # <<>> /\ received[1].ok
    /\ "login" \in DOMAIN Answers[answer]
    /\ LET login == Answers[answer].login
           held  == GameReadsTicket(received[1].value[login.at], login.user, login.password)
           p     == [GameConnect EXCEPT !.payload =
                         ConnectPayload(held.value, login.user, 1, Challenge)]
       IN  /\ held.ok
           /\ toServer' = <<[packet |-> p, bytes |-> ToBytes(p)]>>
           /\ shown' = {login.user}
    /\ exchanges' = exchanges + 1
    /\ answer' = 0
    /\ received' = <<>>
    /\ UNCHANGED <<toGame, sequence, joined, user>>

\* An acknowledgement, or a chunk that is not the last.
GameReads ==
    /\ toGame # <<>>
    /\ LET r == Arrived(toGame[1])
       IN  /\ r.ok
           /\ \/ "Ack" \in r.packet.flags /\ UNCHANGED joined
              \/ /\ "Ack" \notin r.packet.flags
                 /\ r.packet.fragment # 0
                 /\ joined' = joined \o r.packet.payload
    /\ toGame' = Tail(toGame)
    /\ UNCHANGED <<toServer, exchanges, sequence, answer, received, shown, user>>

GameReadsAnswer ==
    /\ toGame # <<>>
    /\ LET r == Arrived(toGame[1])
       IN  /\ r.ok
           /\ "Ack" \notin r.packet.flags
           /\ r.packet.fragment = 0
           /\ received' = Append(received, ReadValue(Answers[answer].kind, joined \o r.packet.payload))
    /\ joined' = <<>>
    /\ toGame' = Tail(toGame)
    /\ UNCHANGED <<toServer, exchanges, sequence, answer, shown, user>>

Next ==
    \/ \E p \in GamePackets : GameSends(p)
    \/ GameConnects
    \/ AckOnly
    \/ Connect
    \/ \E a \in DOMAIN Answers : Call(a)
    \/ GameReads
    \/ GameReadsAnswer

Spec == Init /\ [][Next]_vars

-----------------------------------------------------------------------------
\* Properties.

InFlight == {toServer[i] : i \in DOMAIN toServer} \cup {toGame[i] : i \in DOMAIN toGame}

\* from_bytes(to_bytes(p)) = p for every packet the server and the game send, whatever
\* its payload: compressed to less or to more than it was, or not at all; and it ends
\* where the datagram ends.
PacketsArriveAsSent ==
    \A d \in InFlight :
        /\ WellFormed(d.packet) /\ d.bytes = ToBytes(d.packet)
        /\ ReadsBack(d.packet)

\* The caller reads exactly the value the service returned, with no byte left over,
\* however many packets it took.
AnswersArrive ==
    toServer = <<>> /\ toGame = <<>> /\ answer # 0 =>
        received = <<Got(Answers[answer].value, <<>>)>>

\* Who shows the ticket of a login is taken for the user who logged in, whichever login
\* and whatever password, and its challenge is answered; nobody else is taken for a user.
TicketHoldersConnect ==
    \A d \in {toGame[i] : i \in DOMAIN toGame} :
        d.packet.type = "Connect" =>
            /\ user = shown
            /\ shown # {} => d.packet.payload = Reply(Challenge)

\* The eight bits of calc_checksum_from_data notice one wrong bit in the next packet,
\* unless it is in the fields that say where the packet ends.
WrongBitsAreRefused ==
    \A d \in {toServer[i] : i \in DOMAIN toServer \cap {1}} \cup {toGame[i] : i \in DOMAIN toGame \cap {1}} :
        \A i \in DOMAIN d.bytes \ EndBytes(d.packet), w \in BitWeights : IsRefused(d.bytes, i, w)

-----------------------------------------------------------------------------
\* What the proofs ask of the library and of the values.

\* zlib gives back every payload that fits a packet, whose key stream is long enough.
CompressorIsFaithful ==
    \A payload \in Seq(Byte) :
        payload # <<>> /\ Len(payload) <= MaxPayloadSize =>
            Compressible(payload) /\ Len(Compress(payload)) < Len(KeyStream)

\* from_stream(to_stream(v)) = v for every value that is returned.
ValuesReadBack ==
    \A a \in DOMAIN Answers :
        ReadValue(Answers[a].kind, AnswerBytes(a)) = Got(Answers[a].value, <<>>)
=============================================================================
