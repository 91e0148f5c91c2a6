-------------------------- MODULE KerberosTickets --------------------------
(***************************************************************************)
(* A login's ticket as bytes: server/quazal/src/kerberos.rs makes it, the  *)
(* game reads its session key and hands the sealed part over in a CONNECT, *)
(* which handle_connect of prudp.rs opens and answers.  The key stream of  *)
(* Rc4 is any function of the key.  secretbox, Md5 and Hmac are libraries' *)
(* and stand for what they keep: who lacks the key cannot open or derive.  *)
(***************************************************************************)
EXTENDS PrudpPacket, RmcBasics

CONSTANTS
    Rc4(_, _),       \* the byte that Rc4 generates from a key at a place
    TicketKey,       \* Context::ticket_key
    NonceSize,       \* NONCEBYTES, 24 in the code
    SessionKeySize,  \* SESSION_KEY_SIZE, 16 in the code
    DummyPassword    \* UbiDummyPwd

ASSUME TicketsAssumption ==
    /\ NonceSize \in Nat /\ SessionKeySize \in Nat
    /\ TicketKey \in Seq(Byte) /\ DummyPassword \in Seq(Byte)

\* crypt_key.
CryptKey(key, bytes) == [i \in DOMAIN bytes |-> Xor(Rc4(key, i), bytes[i])]

-----------------------------------------------------------------------------
\* The sealed part.

\* A byte that only the holder of the key can make.
Tag(nonce, bytes) == SumOf(TicketKey \o nonce \o bytes) % 256

Box(nonce, bytes) == <<Tag(nonce, bytes)>> \o CryptKey(TicketKey \o nonce, bytes)

Unbox(nonce, box) ==
    LET bytes == CryptKey(TicketKey \o nonce, Tail(box))
    IN  IF box # <<>> /\ box[1] = Tag(nonce, bytes) THEN Got(bytes, <<>>) ELSE Fail

\* valid_until, u64::MAX in every ticket.
Forever == [i \in 1..8 |-> 255]

\* KerberosTicketInternal.
InternalBytes(user, session) == NumberBytes(user, 4) \o Forever \o session

ReadInternal(s) ==
    Then(ReadNumber(4, FALSE, s), LAMBDA user :
    Then(ReadBytes(8, user.rest), LAMBDA until :
    Then(ReadBytes(SessionKeySize, until.rest), LAMBDA session :
         Got([user |-> user.value, session |-> session.value], session.rest))))

\* Mutant: the ticket names the server it is for.
Seal_Server(t, nonce) == nonce \o Box(nonce, InternalBytes(t.server, t.session))

\* KerberosTicketInternal::seal.
Seal(t, nonce) == nonce \o Box(nonce, InternalBytes(t.user, t.session))

\* KerberosTicketInternal::open.
Open(data) ==
    IF Len(data) < NonceSize THEN Fail
    ELSE Then(Unbox(SubSeq(data, 1, NonceSize), SubSeq(data, NonceSize + 1, Len(data))),
              LAMBDA b : ReadInternal(b.value))

-----------------------------------------------------------------------------
\* The ticket.

\* derive_key; no password is <<>>, one is <<it>>. The id only says how often it hashes.
DeriveKey(pid, password) ==
    NumberBytes(pid % 1024, 2) \o (IF password = <<>> THEN DummyPassword ELSE password[1])

\* The Hmac behind a ticket: nobody checks it.
Mac(bytes) == <<SumOf(bytes) % 256>>

\* KerberosTicket::as_bytes, for the user who logged in.
AsBytes(t, nonce, pid, password) ==
    LET plain == t.session \o NumberBytes(t.server, 4) \o WriteBuffer(Seal(t, nonce))
        bytes == CryptKey(DeriveKey(pid, password), plain)
    IN  bytes \o Mac(bytes)

\* What the game makes of a ticket: its session key, and the sealed part, which it
\* cannot open.
GameReadsTicket(bytes, pid, password) ==
    Then(ReadBytes(SessionKeySize, CryptKey(DeriveKey(pid, password), Front(bytes))), LAMBDA session :
    Then(ReadNumber(4, FALSE, session.rest), LAMBDA server :
    Then(ReadBuffer(server.rest), LAMBDA sealed :
         Got([session |-> session.value, sealed |-> sealed.value], sealed.rest))))

-----------------------------------------------------------------------------
\* CONNECT.

\* ConnectData: the user's id, the connection's, and the challenge, which is all that
\* handle_connect looks at.
ConnectData(user, cid, challenge) ==
    NumberBytes(user, 4) \o NumberBytes(cid, 4) \o NumberBytes(challenge, 4)

ReadChallenge(s) ==
    Then(ReadBytes(8, s), LAMBDA ids : ReadNumber(4, FALSE, ids.rest))

\* The payload of the game's CONNECT.
ConnectPayload(held, user, cid, challenge) ==
    WriteBuffer(held.sealed)
        \o WriteBuffer(CryptKey(held.session, ConnectData(user, cid, challenge)))

\* The payload of the acknowledgement; the sum has the width of a number.
Reply(challenge) == WriteBuffer(NumberBytes(challenge + 1, 4))

\* What handle_connect makes of a payload: the user it sets, and the payload of the
\* acknowledgement. The user is set before the request data is read.
Connected(payload) ==
    LET ticket    == ReadBuffer(payload)
        request   == Then(ticket, LAMBDA t : ReadBuffer(t.rest))
        opened    == Then(request, LAMBDA r : Open(ticket.value))
        challenge == Then(opened, LAMBDA o :
                         ReadChallenge(CryptKey(o.value.session, request.value)))
    IN  [users |-> IF opened.ok THEN {opened.value.user} ELSE {},
         reply |-> IF challenge.ok THEN Reply(challenge.value) ELSE <<>>]

-----------------------------------------------------------------------------
\* What the library promises of the cipher.
CipherIsBytes == \A key \in Seq(Byte), i \in Nat : Rc4(key, i) \in Byte

\* A ticket as login and request_ticket make one.
IsTicket(t, nonce) ==
    /\ Fits(t.user, 4) /\ Fits(t.server, 4)
    /\ t.session \in Seq(Byte) /\ Len(t.session) = SessionKeySize
    /\ nonce \in Seq(Byte) /\ Len(nonce) = NonceSize
=============================================================================
