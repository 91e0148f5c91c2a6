--------------------------- MODULE MCWireCodecs ----------------------------
(* Instances of WireCodecs: the keys of the game (Context::default and        *)
(* splinter_cell_blacklist), its packets, and one answer of each kind of value, *)
(* written by RmcStreams.  zlib is a run-length code behind a header byte:      *)
(* like it, it makes some payloads shorter and others longer.                   *)
EXTENDS WireCodecs, RmcStreams, TLC

GameAccessKey == <<121, 108, 52, 78, 71, 55, 113, 90>>   \* yl4NG7qZ

\* The first bytes RC4 generates from CD&ML.
GameKeyStream ==
    <<15, 135, 68, 219, 19, 255, 44, 80, 5, 162, 97, 253, 42, 22, 242, 177, 255, 86, 230, 245,
      151, 86, 162, 28, 90, 239, 181, 7, 138, 218, 64, 14, 118, 124, 197, 4, 211, 155, 27, 165,
      148, 239, 171, 229, 60, 85, 155, 167, 2, 180, 145, 20, 187, 201, 156, 193, 18, 183, 226, 155,
      158, 121, 236, 61, 75, 184, 223, 91, 174, 93, 164, 202, 101, 247, 253, 41, 74, 4, 66, 201,
      227, 178, 206, 166, 230, 218, 168, 166, 186, 13, 160, 46, 160, 222, 200, 222, 124, 21, 86, 26,
      240, 120, 145, 255, 99, 86, 57, 11, 20, 91, 62, 169, 202, 189, 244, 67, 141, 241, 142, 48>>

Runs(bytes) ==
    FoldLeft(LAMBDA runs, b :
                 IF runs # <<>> /\ Last(runs) = b
                 THEN [runs EXCEPT ![Len(runs) - 1] = @ + 1]
                 ELSE runs \o <<1, b>>,
             <<>>, bytes)

MCCompress(bytes)     == <<120>> \o Runs(bytes)
MCIsCompressed(bytes) == bytes # <<>> /\ bytes[1] = 120 /\ Len(bytes) % 2 = 1
MCDecompress(bytes) ==
    FlattenSeq([r \in 1..Len(bytes) \div 2 |-> [k \in 1..bytes[2 * r] |-> bytes[2 * r + 1]]])

Port(n) == [port |-> n, stream |-> "RVSec"]

ServerBytes == <<54, 129, 3, 250>>
ClientBytes == <<55, 0, 186, 210>>

\* A packet of the game.
FromGame(type, flags, compress, payload) ==
    [source |-> Port(15), destination |-> Port(1), type |-> type, flags |-> flags,
     session |-> 167, signature |-> IF type = "Syn" THEN <<0, 0, 0, 0>> ELSE ServerBytes,
     sequence |-> 260,
     connSignature |-> CASE type = "Syn" -> <<0, 0, 0, 0>>
                         [] type = "Connect" -> ClientBytes
                         [] OTHER -> Absent,
     fragment |-> IF type = "Data" THEN 0 ELSE Absent,
     compress |-> compress, payload |-> payload]

Ordinary == <<14, 0, 0, 0, 167>>
Shrinks  == <<7, 7, 7, 7, 7, 7, 7, 7, 7>>

MCGamePackets ==
    {FromGame("Syn", {"NeedAck"}, FALSE, <<>>), FromGame("Ping", {"NeedAck"}, FALSE, <<>>),
     FromGame("Disconnect", {"NeedAck", "Reliable"}, FALSE, <<>>)}
    \cup {FromGame(type, {"NeedAck", "Reliable"} \cup size, compress, payload) :
              type \in {"Connect", "Data"}, size \in {{}, {"HasSize"}},
              compress \in BOOLEAN, payload \in {Ordinary, Shrinks}}
    \cup {FromGame("Connect", {"NeedAck", "Reliable"}, FALSE, <<>>)}

\* Key streams that tell keys apart.
MCRc4(key, i) ==
    LET seed == FoldLeft(LAMBDA h, b : (31 * h + b) % 65521, 7, key)
    IN  (seed \div (i + 1) + 37 * (seed % 4096) * i) % 256

MCTicketKey == <<9, 8, 7>>
Nonce       == <<51, 204>>

MCGameConnect == FromGame("Connect", {"NeedAck", "Reliable"}, FALSE, <<>>)

\* Texts: sam, aaaaaaaaaa, x=1.
Sam    == <<115, 97, 109>>
Long   == [i \in 1..10 |-> 97]
Equal  == <<120, 61, 49>>

Url  == [scheme |-> <<112, 114>>, address |-> <<49, 46, 50>>, port |-> 3074,
         params |-> (<<115, 105, 100>> :> <<49>>) @@ (<<80>> :> Equal)]
NoUrl == [scheme |-> <<>>, address |-> <<>>, port |-> 0, params |-> [k \in {} |-> k]]

ConnectionData == <<"fields", <<"url">>, <<"list", <<"unsigned", 1>>>>, <<"url">>>>

MCKnownErrors == {<<3, 0, 1, 128>>}

Ticket(session) == [session |-> session, server |-> 4096, user |-> 4097]

\* A LoginResponse, to the user who logged in with or without a password.
Login(session, password) ==
    [kind |-> <<"fields", <<"result">>, <<"unsigned", 4>>, <<"list", <<"unsigned", 1>>>>,
                ConnectionData, <<"text">>>>,
     value |-> << <<"Ok">>, 4097, AsBytes(Ticket(session), Nonce, 4097, password),
                  <<Url, <<>>, NoUrl>>, <<>> >>,
     login |-> [user |-> 4097, password |-> password, ticket |-> Ticket(session), nonce |-> Nonce,
                at |-> 3]]

\* A RequestTicketResponse.
RequestedTicket ==
    [kind |-> <<"fields", <<"result">>, <<"list", <<"unsigned", 1>>>>>>,
     value |-> << <<"Ok">>, AsBytes(Ticket(<<0, 77>>), Nonce, 4097, <<Sam>>)>>,
     login |-> [user |-> 4097, password |-> <<Sam>>, ticket |-> Ticket(<<0, 77>>), nonce |-> Nonce,
                at |-> 2]]

\* Logins; results and statistics; maps; LoginExRequest's custom data.
MCAnswers ==
    << Login(<<1, 255>>, <<Sam>>), Login(<<200, 3>>, <<>>), RequestedTicket,
       [kind |-> <<"list", <<"result">>>>,
        value |-> << <<"Error", <<3, 0, 1, 128>>>>, <<"Ok">>, <<"Unknown", <<0, 0, 0, 0>>>> >>],
       [kind |-> <<"qlist", <<"fields", <<"unsigned", 4>>, <<"variant">>>>>>,
        value |-> << <<1, <<1, <<>>>>>>, <<2, <<2, -300>>>>, <<3, <<3, <<0, 0, 0, 0, 0, 0, 240, 63>>>>>>,
                     <<4, <<4, TRUE>>>>, <<5, <<5, Sam>>>>, <<6, <<6, 65536>>>>, <<7, <<7, 0>>>> >>],
       [kind |-> <<"map", <<"text">>, <<"bool">>>>, value |-> (Sam :> TRUE) @@ (Long :> FALSE)],
       [kind |-> <<"map", <<"unsigned", 4>>, <<"text">>>>, value |-> [k \in {} |-> k]],
       [kind |-> <<"any", (Sam :> <<"fields", <<"fields">>, <<"text">>, <<"text">>>>)>>,
        value |-> <<Sam, << <<>>, Long, Equal>>>>],
       [kind |-> <<"fields", <<"signed", 2>>, <<"bytes", 4>>, <<"text">>>>,
        value |-> <<-2, <<0, 0, 9, 9>>, Long>>] >>

\* The packet the doc comment of parse gives, and what it says of it.
Documented ==
    <<63, 49, 50, 167, 145, 147, 146, 221, 4, 0, 0, 15, 137, 68, 219, 19, 88, 58, 80, 5, 162, 99,
      253, 42, 22, 241, 177, 155, 51, 230, 224>>

ASSUME DocumentedPacket ==
    FromBytes(Documented) =
        [ok |-> TRUE, length |-> 31, packet |->
            [source |-> Port(15), destination |-> Port(1), type |-> "Data",
             flags |-> {"Reliable", "NeedAck"}, session |-> 167,
             signature |-> <<145, 147, 146, 221>>, fragment |-> 0, connSignature |-> Absent,
             sequence |-> 4, compress |-> FALSE,
             payload |-> <<14, 0, 0, 0, 167, 22, 0, 0, 0, 2, 0, 0, 0, 3, 0, 100, 101, 0>>]]
=============================================================================
