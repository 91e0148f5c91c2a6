---------------------------- MODULE PrudpPacket ----------------------------
(***************************************************************************)
(* PRUDP packets on the wire: server/quazal/src/prudp/packet.rs.  A packet *)
(* is a record of its fields and the wire a sequence of bytes.  The 32-bit *)
(* fields the code only carries along (the signatures) are their four      *)
(* bytes.  The zlib compressor is a library's.                             *)
(***************************************************************************)
EXTENDS Integers, SequencesExt

CONSTANTS
    AccessKey,  \* Context::access_key, as bytes
    KeyStream,  \* what Rc4 generates from Context::crypto_key: every packet starts it again
    Compress(_),      \* compress_to_vec_zlib
    IsCompressed(_),  \* the streams that decompress_payload can read
    Decompress(_)     \* and what it makes of them

Byte == 0..255
Word == 0..65535

\* No payload needs a longer key stream.
ASSUME KeysAssumption ==
    AccessKey \in Seq(Byte) /\ KeyStream \in Seq(Byte) /\ Len(KeyStream) \in Word

\* Values 1 to 8, and 0 to 7.
StreamTypes == <<"DO", "RV", "RVSec", "SBMGMT", "NAT", "SessionDiscovery", "NATEcho", "Routing">>
PacketTypes == <<"Syn", "Connect", "Data", "Disconnect", "Ping", "User", "Route", "Raw">>

CodeIn(names, name) == CHOOSE i \in DOMAIN names : names[i] = name

\* PacketFlag, with the bit of each.
FlagBit == [Ack |-> 1, Reliable |-> 2, NeedAck |-> 4, HasSize |-> 8]

FlagsIn(bits)  == {f \in DOMAIN FlagBit : (bits \div FlagBit[f]) % 2 = 1}
FlagBits(flags) ==
    LET bit(f) == IF f \in flags THEN FlagBit[f] ELSE 0
    IN  bit("Ack") + bit("Reliable") + bit("NeedAck") + bit("HasSize")

\* A u16, little-endian; a value too large loses its upper part.
LittleEndian(n) == <<n % 256, (n \div 256) % 256>>

\* No field of the packet: an absent fragment id or connection signature.
Absent == <<>>

-----------------------------------------------------------------------------
\* Keys, checksum and cipher.

SumOf(bytes) ==
    LET sum[i \in 0..Len(bytes)] == IF i = 0 THEN 0 ELSE sum[i - 1] + bytes[i]
    IN  sum[Len(bytes)]

\* Context::key.
KeyOf(stream) == IF stream = "RVSec" THEN SumOf(AccessKey) ELSE 0

\* One bit of the byte that names the destination's stream takes the key in or out of
\* the checksum.  With these keys that could be what the bit itself adds to it, and the
\* wrong stream would go unseen; the bytes of the game's key add up to 176.
ASSUME AccessKeyAssumption == SumOf(AccessKey) % 256 \notin (64..66) \union (222..224) \union (238..240)

\* The wrapping sum of the 32-bit words of the bytes, as its own four bytes.
WordSum(bytes) ==
    LET column(c) == SumOf([w \in 1..Len(bytes) \div 4 |-> bytes[4 * (w - 1) + c]])
        low    == column(1)
        second == column(2) + low \div 256
        third  == column(3) + second \div 256
        high   == column(4) + third \div 256
    IN  <<low % 256, second % 256, third % 256, high % 256>>

\* calc_checksum_from_data.
Checksum(stream, bytes) ==
    LET whole == Len(bytes) - (Len(bytes) % 4)
    IN  (SumOf(WordSum(SubSeq(bytes, 1, whole))) + KeyOf(stream)
            + SumOf(SubSeq(bytes, whole + 1, Len(bytes)))) % 256

\* Exclusive-or of two bytes.
Xor(a, b) ==
    LET bit(w) == w * ((a \div w + b \div w) % 2)
    IN  bit(1) + bit(2) + bit(4) + bit(8) + bit(16) + bit(32) + bit(64) + bit(128)

\* crypt, for payloads no longer than the key stream that is given.
Crypt(bytes) == [i \in DOMAIN bytes |-> Xor(KeyStream[i], bytes[i])]

-----------------------------------------------------------------------------
\* Compression.

\* Mutant: the ratio is rounded down, so that a payload which did not shrink has none.
Ratio_RoundedDown(payload, compressed) == (Len(payload) \div Len(compressed)) % 256

\* The byte before a compressed payload, a u8.
Ratio(payload, compressed) == (Len(payload) \div Len(compressed) + 1) % 256

Marked(payload, compress) ==
    IF payload = <<>> THEN <<>>
    ELSE IF compress THEN <<Ratio(payload, Compress(payload))>> \o Compress(payload)
    ELSE <<0>> \o payload

\* The payload of a secure stream is enciphered, but for a SYN's.
IsSecret(type, source) == type # "Syn" /\ source.stream = "RVSec"

-----------------------------------------------------------------------------
\* Writing and reading a packet.

VPortByte(v) == v.port + 16 * CodeIn(StreamTypes, v.stream)

PayloadBytes(p) ==
    LET payload == Marked(p.payload, p.compress)
    IN  IF IsSecret(p.type, p.source) THEN Crypt(payload) ELSE payload

\* QPacket::to_data_bytes.
DataBytes(p) ==
    <<VPortByte(p.source), VPortByte(p.destination),
      (CodeIn(PacketTypes, p.type) - 1) + 8 * FlagBits(p.flags), p.session>>
        \o p.signature \o LittleEndian(p.sequence)
        \o (IF p.type \in {"Syn", "Connect"} THEN p.connSignature ELSE <<>>)
        \o (IF p.type = "Data" THEN <<p.fragment>> ELSE <<>>)
        \o (IF "HasSize" \in p.flags THEN LittleEndian(Len(PayloadBytes(p))) ELSE <<>>)
        \o PayloadBytes(p)

\* QPacket::to_bytes.
ToBytes(p) == Append(DataBytes(p), Checksum(p.destination.stream, DataBytes(p)))

Invalid(e) == [ok |-> FALSE, error |-> e]

\* What is left of a deciphered payload: decompressed, or without its first byte.
Unmarked(payload) ==
    IF payload = <<>> THEN <<>>
    ELSE IF payload[1] # 0 THEN Decompress(Tail(payload))
    ELSE Tail(payload)

\* Mutant: a packet is taken whatever its checksum.
Validates_Always(stream, bytes, checksum) == TRUE

\* QPacket::validate.
Validates(stream, bytes, checksum) == checksum = Checksum(stream, bytes)

\* from_reader, once the fields in front of the payload are known to be there: the
\* payload starts behind byte "start" and has "size" bytes.
ReadFrom(d, start, size) ==
    LET source  == [port |-> d[1] % 16, stream |-> StreamTypes[d[1] \div 16]]
        dest    == [port |-> d[2] % 16, stream |-> StreamTypes[d[2] \div 16]]
        type    == PacketTypes[(d[3] % 8) + 1]
        payload == SubSeq(d, start + 1, start + size)
        plain   == IF IsSecret(type, source) THEN Crypt(payload) ELSE payload
    IN  IF /\ IsSecret(type, source)
           /\ plain # <<>> /\ plain[1] # 0 /\ ~IsCompressed(Tail(plain))
        THEN Invalid("DecompressFailed")
        ELSE IF ~Validates(dest.stream, SubSeq(d, 1, start + size), d[start + size + 1])
        THEN Invalid("InvalidChecksum")
        ELSE [ok |-> TRUE, length |-> start + size + 1, packet |->
                 [source |-> source, destination |-> dest, type |-> type,
                  flags |-> FlagsIn(d[3] \div 8), session |-> d[4],
                  signature |-> SubSeq(d, 5, 8), sequence |-> d[9] + 256 * d[10],
                  connSignature |-> IF type \in {"Syn", "Connect"} THEN SubSeq(d, 11, 14) ELSE Absent,
                  fragment |-> IF type = "Data" THEN d[11] ELSE Absent,
                  payload |-> IF IsSecret(type, source) THEN Unmarked(plain) ELSE plain,
                  compress |-> IsSecret(type, source) /\ plain # <<>> /\ plain[1] # 0]]

\* The bytes in front of the size of a packet.
FixedBytes(type) ==
    IF type \in {"Syn", "Connect"} THEN 14 ELSE IF type = "Data" THEN 11 ELSE 10

\* QPacket::from_bytes and QPacket::validate: the packet at the start of the bytes.
\* Without a size the payload is all but the last byte of the datagram; when there is
\* not even that byte, the subtraction underflows.
FromBytes(d) ==
    IF Len(d) < 3 THEN Invalid("IO")
    ELSE IF ~{d[1] \div 16, d[2] \div 16} \subseteq DOMAIN StreamTypes THEN Invalid("InvalidStreamType")
    ELSE IF d[3] \div 8 > 15 THEN Invalid("InvalidFlag")
    ELSE LET fixed == FixedBytes(PacketTypes[(d[3] % 8) + 1])
             sized == "HasSize" \in FlagsIn(d[3] \div 8)
             start == IF sized THEN fixed + 2 ELSE fixed
             size  == IF sized THEN d[fixed + 1] + 256 * d[fixed + 2] ELSE Len(d) - start - 1
         IN  IF Len(d) < start THEN Invalid("IO")
             ELSE IF size < 0 THEN Invalid("underflow")
             ELSE IF Len(d) < start + size + 1 THEN Invalid("IO")
             ELSE ReadFrom(d, start, size)

-----------------------------------------------------------------------------
\* What the codec promises.

VPort == [port : 0..15, stream : {StreamTypes[i] : i \in DOMAIN StreamTypes}]
Four  == Byte \X Byte \X Byte \X Byte

\* The compressor gives back what it was given, and does not shrink it so much that
\* the ratio in a byte is the zero that stands for no compression.
Compressible(payload) ==
    LET compressed == Compress(payload)
    IN  /\ compressed \in Seq(Byte) \ {<<>>}
        /\ IsCompressed(compressed)
        /\ Decompress(compressed) = payload
        /\ (Len(payload) \div Len(compressed)) % 256 # 255

PacketFields ==
    {"source", "destination", "type", "flags", "session", "signature", "sequence",
     "connSignature", "fragment", "payload", "compress"}

\* The fields of a packet of its type.
FieldsFit(p) ==
    /\ p = [f \in PacketFields |-> p[f]]
    /\ p.source \in VPort /\ p.destination \in VPort
    /\ p.type \in {PacketTypes[i] : i \in DOMAIN PacketTypes}
    /\ p.flags \subseteq DOMAIN FlagBit
    /\ p.session \in Byte /\ p.signature \in Four /\ p.sequence \in Word
    /\ IF p.type \in {"Syn", "Connect"} THEN p.connSignature \in Four ELSE p.connSignature = Absent
    /\ IF p.type = "Data" THEN p.fragment \in Byte ELSE p.fragment = Absent

\* A packet that the format can carry: its size takes two bytes, and where the reader
\* would not strip the byte in front of it there is no payload.
WellFormed(p) ==
    /\ FieldsFit(p)
    /\ p.payload \in Seq(Byte) /\ p.compress \in BOOLEAN
    /\ p.payload # <<>> =>
           /\ IsSecret(p.type, p.source)
           /\ Len(PayloadBytes(p)) <= Len(KeyStream) /\ Len(PayloadBytes(p)) \in Word
           /\ p.compress => Compressible(p.payload)

\* The fields of a packet that are on the wire.
OnTheWire(p) ==
    [source |-> p.source, destination |-> p.destination, type |-> p.type, flags |-> p.flags,
     session |-> p.session, signature |-> p.signature, sequence |-> p.sequence,
     connSignature |-> p.connSignature, fragment |-> p.fragment, payload |-> p.payload,
     compress |-> p.compress /\ p.payload # <<>>]

\* from_bytes reads the packet, and its end, in what to_bytes wrote.
ReadsBack(p) ==
    FromBytes(ToBytes(p)) = [ok |-> TRUE, length |-> Len(ToBytes(p)), packet |-> OnTheWire(p)]

\* Byte b with the bit of weight w turned over.
Flip(b, w) == IF (b \div w) % 2 = 1 THEN b - w ELSE b + w

BitWeights == {1, 2, 4, 8, 16, 32, 64, 128}

\* The bytes that say where a packet ends: its type and flags, and its size if it has one.
EndBytes(p) ==
    {3} \union (IF "HasSize" \in p.flags
               THEN {FixedBytes(p.type) + 1, FixedBytes(p.type) + 2} ELSE {})

\* from_bytes and validate refuse a packet with this bit wrong.
IsRefused(bytes, i, w) == ~FromBytes([bytes EXCEPT ![i] = Flip(@, w)]).ok
=============================================================================
