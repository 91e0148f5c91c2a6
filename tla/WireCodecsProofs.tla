-------------------------- MODULE WireCodecsProofs --------------------------
(***************************************************************************)
(* The invariants of WireCodecs, for every packet the format can carry,    *)
(* every login and answer, every key and every length of an exchange.      *)
(* Packets are read as they were written, and one wrong bit is noticed;    *)
(* numbers, buffers and tickets are read as they were written; WireInv     *)
(* says which chunks are on their way and which the game has.              *)
(***************************************************************************)
EXTENDS WireCodecs, SequenceTheorems, WellFoundedInduction, TLAPS

-----------------------------------------------------------------------------
\* The cipher.

LEMMA BitsOfByte ==
    ASSUME NEW a \in Byte
    PROVE  \E a0, a1, a2, a3, a4, a5, a6, a7 \in 0..1 :
               a = a0 + 2 * a1 + 4 * a2 + 8 * a3 + 16 * a4 + 32 * a5 + 64 * a6 + 128 * a7
<1> DEFINE bit(w) == (a \div w) % 2
<1>1. /\ bit(1) \in 0..1 /\ bit(2) \in 0..1 /\ bit(4) \in 0..1 /\ bit(8) \in 0..1
      /\ bit(16) \in 0..1 /\ bit(32) \in 0..1 /\ bit(64) \in 0..1 /\ bit(128) \in 0..1
  BY DEF Byte
<1>2. a = bit(1) + 2 * bit(2) + 4 * bit(4) + 8 * bit(8) + 16 * bit(16) + 32 * bit(32)
            + 64 * bit(64) + 128 * bit(128)
  BY SMTT(60) DEF Byte
<1> HIDE DEF bit
<1> QED BY <1>1, <1>2

\* The bit of each weight in a byte put together from bits.
LEMMA BitAt ==
    ASSUME NEW a0 \in 0..1, NEW a1 \in 0..1, NEW a2 \in 0..1, NEW a3 \in 0..1,
           NEW a4 \in 0..1, NEW a5 \in 0..1, NEW a6 \in 0..1, NEW a7 \in 0..1, NEW a,
           a = a0 + 2 * a1 + 4 * a2 + 8 * a3 + 16 * a4 + 32 * a5 + 64 * a6 + 128 * a7
    PROVE  /\ a \in Byte
           /\ (a \div 1) % 2 = a0 /\ (a \div 2) % 2 = a1
           /\ (a \div 4) % 2 = a2 /\ (a \div 8) % 2 = a3
           /\ (a \div 16) % 2 = a4 /\ (a \div 32) % 2 = a5
           /\ (a \div 64) % 2 = a6 /\ (a \div 128) % 2 = a7
BY SMTT(60) DEF Byte

\* The bit of weight w in a byte.
BitOf(n, w) == (n \div w) % 2

\* The bits of Xor are the sums of the bits.
LEMMA ParityFact ==
    ASSUME NEW a \in Byte, NEW b \in Byte, NEW w \in BitWeights
    PROVE  /\ BitOf(a, w) \in 0..1
           /\ (a \div w + b \div w) % 2 = (BitOf(a, w) + BitOf(b, w)) % 2
<1>1. CASE w = 1    BY <1>1 DEF BitOf, Byte
<1>2. CASE w = 2    BY <1>2 DEF BitOf, Byte
<1>3. CASE w = 4    BY <1>3 DEF BitOf, Byte
<1>4. CASE w = 8    BY <1>4 DEF BitOf, Byte
<1>5. CASE w = 16   BY <1>5 DEF BitOf, Byte
<1>6. CASE w = 32   BY <1>6 DEF BitOf, Byte
<1>7. CASE w = 64   BY <1>7 DEF BitOf, Byte
<1>8. CASE w = 128  BY <1>8 DEF BitOf, Byte
<1> QED BY <1>1, <1>2, <1>3, <1>4, <1>5, <1>6, <1>7, <1>8 DEF BitWeights

LEMMA XorBits ==
    ASSUME NEW a \in Byte, NEW b \in Byte
    PROVE  /\ Xor(a, b) \in Byte
           /\ \A w \in BitWeights : BitOf(Xor(a, b), w) = (BitOf(a, w) + BitOf(b, w)) % 2
<1> DEFINE at(w) == (a \div w + b \div w) % 2
<1>1. ASSUME NEW w \in BitWeights
      PROVE  at(w) \in 0..1 /\ at(w) = (BitOf(a, w) + BitOf(b, w)) % 2
  <2>1. /\ BitOf(a, w) \in 0..1 /\ BitOf(b, w) \in 0..1
        /\ at(w) = (BitOf(a, w) + BitOf(b, w)) % 2
    BY ParityFact
  <2> HIDE DEF at
  <2> QED BY <2>1
<1>2. Xor(a, b) = 1 * at(1) + 2 * at(2) + 4 * at(4) + 8 * at(8)
          + 16 * at(16) + 32 * at(32) + 64 * at(64) + 128 * at(128)
  BY DEF Xor
<1> HIDE DEF at
<1>3. /\ at(1) \in 0..1 /\ at(2) \in 0..1 /\ at(4) \in 0..1 /\ at(8) \in 0..1
      /\ at(16) \in 0..1 /\ at(32) \in 0..1 /\ at(64) \in 0..1 /\ at(128) \in 0..1
  BY <1>1 DEF BitWeights
<1>4. Xor(a, b) = at(1) + 2 * at(2) + 4 * at(4) + 8 * at(8)
          + 16 * at(16) + 32 * at(32) + 64 * at(64) + 128 * at(128)
  BY <1>2, <1>3
<1>5. /\ Xor(a, b) \in Byte
      /\ \A w \in BitWeights : (Xor(a, b) \div w) % 2 = at(w)
  BY <1>3, <1>4, BitAt DEF BitWeights
<1> QED BY <1>1, <1>5 DEF BitOf

\* A byte is known by its bits.
LEMMA SameBits ==
    ASSUME NEW a \in Byte, NEW b \in Byte, \A w \in BitWeights : BitOf(a, w) = BitOf(b, w)
    PROVE  a = b
<1>1. /\ BitOf(a, 1) = BitOf(b, 1) /\ BitOf(a, 2) = BitOf(b, 2)
      /\ BitOf(a, 4) = BitOf(b, 4) /\ BitOf(a, 8) = BitOf(b, 8)
      /\ BitOf(a, 16) = BitOf(b, 16) /\ BitOf(a, 32) = BitOf(b, 32)
      /\ BitOf(a, 64) = BitOf(b, 64) /\ BitOf(a, 128) = BitOf(b, 128)
  BY DEF BitWeights
<1>2. ASSUME NEW c \in Byte
      PROVE  c = BitOf(c, 1) + 2 * BitOf(c, 2) + 4 * BitOf(c, 4) + 8 * BitOf(c, 8)
                 + 16 * BitOf(c, 16) + 32 * BitOf(c, 32) + 64 * BitOf(c, 64) + 128 * BitOf(c, 128)
  BY SMTT(60) DEF Byte, BitOf
<1> QED BY <1>1, <1>2

\* Exclusive-or makes a byte of two bytes; taken twice it gives back the other one.
LEMMA XorFact ==
    ASSUME NEW k \in Byte, NEW a \in Byte
    PROVE  Xor(k, a) \in Byte /\ Xor(k, Xor(k, a)) = a
<1>1. Xor(k, a) \in Byte /\ Xor(k, Xor(k, a)) \in Byte
  BY XorBits
<1>2. ASSUME NEW w \in BitWeights
      PROVE  BitOf(Xor(k, Xor(k, a)), w) = BitOf(a, w)
  <2>1. BitOf(Xor(k, Xor(k, a)), w) = (BitOf(k, w) + ((BitOf(k, w) + BitOf(a, w)) % 2)) % 2
    <3>1. BitOf(Xor(k, a), w) = (BitOf(k, w) + BitOf(a, w)) % 2
      BY XorBits
    <3>2. BitOf(Xor(k, Xor(k, a)), w) = (BitOf(k, w) + BitOf(Xor(k, a), w)) % 2
      BY <1>1, XorBits
    <3> QED BY <3>1, <3>2
  <2>2. BitOf(k, w) \in 0..1 /\ BitOf(a, w) \in 0..1
    BY ParityFact
  <2> QED BY <2>1, <2>2
<1> QED BY <1>1, <1>2, SameBits

\* crypt keeps the length of a payload, and taken twice gives it back.
LEMMA CryptFact ==
    ASSUME NEW s \in Seq(Byte), Len(s) <= Len(KeyStream)
    PROVE  Crypt(s) \in Seq(Byte) /\ Len(Crypt(s)) = Len(s) /\ Crypt(Crypt(s)) = s
<1>1. ASSUME NEW i \in DOMAIN s
      PROVE  /\ Xor(KeyStream[i], s[i]) \in Byte
             /\ Xor(KeyStream[i], Xor(KeyStream[i], s[i])) = s[i]
  <2>1. KeyStream[i] \in Byte /\ s[i] \in Byte
    BY KeysAssumption
  <2> QED BY <2>1, XorFact
<1>2. DOMAIN s = 1..Len(s) /\ Len(s) \in Nat
  OBVIOUS
<1>3. Crypt(s) \in [1..Len(s) -> Byte]
  BY <1>1, <1>2 DEF Crypt
<1>4. Crypt(s) \in Seq(Byte) /\ Len(Crypt(s)) = Len(s)
  BY <1>2, <1>3
<1>5. DOMAIN Crypt(s) = DOMAIN s
  BY DEF Crypt
<1>6. Crypt(Crypt(s)) = [i \in DOMAIN s |-> s[i]]
  BY <1>1, <1>5 DEF Crypt
<1> QED BY <1>4, <1>6

-----------------------------------------------------------------------------
\* Sequences in front of others, and in the middle.

Starts(s, d) == Len(s) <= Len(d) /\ \A i \in 1..Len(s) : d[i] = s[i]

LEMMA ConcatFact ==
    ASSUME NEW s \in Seq(Byte), NEW t \in Seq(Byte)
    PROVE  /\ s \o t \in Seq(Byte)
           /\ Len(s \o t) = Len(s) + Len(t)
           /\ Starts(s, s \o t)
           /\ \A i \in 1..Len(t) : (s \o t)[Len(s) + i] = t[i]
BY DEF Starts

LEMMA StartsFact ==
    ASSUME NEW s \in Seq(Byte), NEW t \in Seq(Byte), NEW d \in Seq(Byte), Starts(s, t), Starts(t, d)
    PROVE  Starts(s, d)
<1>1. Len(s) \in Nat /\ Len(t) \in Nat /\ Len(d) \in Nat
  OBVIOUS
<1>2. \A i \in 1..Len(s) : i \in 1..Len(t)
  BY <1>1 DEF Starts
<1> QED BY <1>1, <1>2 DEF Starts

\* What is known of the sequence at the end of s is known of this part of d.
LEMMA SubSeqFact ==
    ASSUME NEW s \in Seq(Byte), NEW t \in Seq(Byte), NEW d \in Seq(Byte), Starts(s \o t, d)
    PROVE  SubSeq(d, Len(s) + 1, Len(s) + Len(t)) = t
<1> DEFINE u == SubSeq(d, Len(s) + 1, Len(s) + Len(t))
<1>1. Len(s) \in Nat /\ Len(t) \in Nat /\ Len(d) \in Nat /\ Len(s) + Len(t) <= Len(d)
  BY ConcatFact DEF Starts
<1>2. u \in Seq(Byte) /\ Len(u) = Len(t)
  BY <1>1
<1>3. ASSUME NEW i \in 1..Len(t) PROVE u[i] = t[i]
  <2>1. u[i] = d[Len(s) + i]
    BY <1>1
  <2>2. Len(s) + i \in 1..Len(s \o t)
    BY <1>1, ConcatFact
  <2>3. d[Len(s) + i] = (s \o t)[Len(s) + i]
    BY <2>2 DEF Starts
  <2> QED BY <2>1, <2>3, ConcatFact
<1> QED BY <1>2, <1>3

-----------------------------------------------------------------------------
\* The fields in front of the payload.

LEMMA CodeFact ==
    /\ \A i \in DOMAIN StreamTypes : CodeIn(StreamTypes, StreamTypes[i]) = i
    /\ \A i \in DOMAIN PacketTypes : CodeIn(PacketTypes, PacketTypes[i]) = i
    /\ DOMAIN StreamTypes = 1..8 /\ DOMAIN PacketTypes = 1..8
<1>1. DOMAIN StreamTypes = 1..8 /\ DOMAIN PacketTypes = 1..8
  BY DEF StreamTypes, PacketTypes
<1>2. \A i, j \in 1..8 : StreamTypes[i] = StreamTypes[j] => i = j
  BY DEF StreamTypes
<1>3. \A i, j \in 1..8 : PacketTypes[i] = PacketTypes[j] => i = j
  BY DEF PacketTypes
<1> QED BY <1>1, <1>2, <1>3 DEF CodeIn

\* The byte of a port and stream.
LEMMA VPortFact ==
    ASSUME NEW v \in VPort
    PROVE  /\ VPortByte(v) \in 0..143
           /\ VPortByte(v) \div 16 \in DOMAIN StreamTypes
           /\ v = [port |-> VPortByte(v) % 16, stream |-> StreamTypes[VPortByte(v) \div 16]]
<1>1. PICK i \in DOMAIN StreamTypes : v.stream = StreamTypes[i]
  BY DEF VPort
<1>2. i \in 1..8 /\ CodeIn(StreamTypes, v.stream) = i
  BY <1>1, CodeFact
<1>3. v.port \in 0..15 /\ v = [port |-> v.port, stream |-> v.stream]
  BY DEF VPort
<1>4. VPortByte(v) = v.port + 16 * i
  BY <1>2 DEF VPortByte
<1>5. VPortByte(v) \div 16 = i /\ VPortByte(v) % 16 = v.port /\ VPortByte(v) \in 0..143
  BY <1>2, <1>3, <1>4
<1> QED BY <1>1, <1>3, <1>5

LEMMA FlagsFact ==
    ASSUME NEW flags \in SUBSET DOMAIN FlagBit
    PROVE  FlagBits(flags) \in 0..15 /\ FlagsIn(FlagBits(flags)) = flags
<1> DEFINE has(f) == IF f \in flags THEN 1 ELSE 0
           bits   == has("Ack") + 2 * has("Reliable") + 4 * has("NeedAck") + 8 * has("HasSize")
<1>1. DOMAIN FlagBit = {"Ack", "Reliable", "NeedAck", "HasSize"}
  BY DEF FlagBit
<1>2. FlagBits(flags) = bits
  BY DEF FlagBits, FlagBit
<1>3. \A f \in DOMAIN FlagBit : has(f) \in 0..1
  OBVIOUS
<1>4. /\ bits \in 0..15
      /\ (bits \div 1) % 2 = has("Ack") /\ (bits \div 2) % 2 = has("Reliable")
      /\ (bits \div 4) % 2 = has("NeedAck") /\ (bits \div 8) % 2 = has("HasSize")
  <2> HIDE DEF has
  <2> QED BY <1>1, <1>3
<1>5. /\ (bits \div FlagBit["Ack"]) % 2 = has("Ack")
      /\ (bits \div FlagBit["Reliable"]) % 2 = has("Reliable")
      /\ (bits \div FlagBit["NeedAck"]) % 2 = has("NeedAck")
      /\ (bits \div FlagBit["HasSize"]) % 2 = has("HasSize")
  <2> HIDE DEF bits
  <2> QED BY <1>4 DEF FlagBit
<1> HIDE DEF bits
<1>6. \A f \in DOMAIN FlagBit : (bits \div FlagBit[f]) % 2 = 1 <=> f \in flags
  BY <1>1, <1>5
<1> QED BY <1>1, <1>2, <1>4, <1>6 DEF FlagsIn

\* The byte of a type and flags.
LEMMA TypeFact ==
    ASSUME NEW type \in {PacketTypes[i] : i \in DOMAIN PacketTypes}, NEW bits \in 0..15
    PROVE  LET b == (CodeIn(PacketTypes, type) - 1) + 8 * bits
           IN  b \in Byte /\ b \div 8 = bits /\ PacketTypes[(b % 8) + 1] = type
<1>1. PICK i \in DOMAIN PacketTypes : type = PacketTypes[i]
  OBVIOUS
<1>2. i \in 1..8 /\ CodeIn(PacketTypes, type) = i
  BY <1>1, CodeFact
<1>3. LET b == (i - 1) + 8 * bits IN b \in Byte /\ b \div 8 = bits /\ (b % 8) + 1 = i
  BY <1>2 DEF Byte
<1> QED BY <1>1, <1>2, <1>3

LEMMA LittleEndianFact ==
    ASSUME NEW n \in Word
    PROVE  /\ LittleEndian(n) \in Seq(Byte) /\ Len(LittleEndian(n)) = 2
           /\ LittleEndian(n)[1] + 256 * LittleEndian(n)[2] = n
<1>1. /\ n % 256 \in Byte /\ (n \div 256) % 256 \in Byte
      /\ (n % 256) + 256 * ((n \div 256) % 256) = n
  <2>1. n \div 256 \in 0..255 /\ n % 256 \in 0..255 /\ n = (n % 256) + 256 * (n \div 256)
    BY DEF Word
  <2>2. ASSUME NEW q \in 0..255 PROVE q % 256 = q
    OBVIOUS
  <2>3. (n \div 256) % 256 = n \div 256
    BY <2>1, <2>2, Zenon
  <2> QED BY <2>1, <2>3 DEF Byte
<1>2. \A a, b \in Byte : <<a, b>> \in Seq(Byte) /\ Len(<<a, b>>) = 2
  OBVIOUS
<1> QED BY <1>1, <1>2 DEF LittleEndian

-----------------------------------------------------------------------------
\* The payload.

LEMMA MarkedFact ==
    ASSUME NEW p, WellFormed(p)
    PROVE  LET marked == Marked(p.payload, p.compress)
           IN  /\ marked \in Seq(Byte)
               /\ Unmarked(marked) = p.payload
               /\ marked # <<>> /\ marked[1] # 0 => IsCompressed(Tail(marked))
               /\ (marked # <<>> /\ marked[1] # 0) = (p.compress /\ p.payload # <<>>)
<1> DEFINE marked == Marked(p.payload, p.compress)
           ratio  == Ratio(p.payload, Compress(p.payload))
<1>0. p.payload \in Seq(Byte)
  BY DEF WellFormed
<1>1. CASE p.payload = <<>>
  BY <1>1 DEF Marked, Unmarked
<1>2. CASE p.payload # <<>> /\ p.compress
  <2>1. /\ Compress(p.payload) \in Seq(Byte) /\ Compress(p.payload) # <<>>
        /\ IsCompressed(Compress(p.payload))
        /\ Decompress(Compress(p.payload)) = p.payload
        /\ (Len(p.payload) \div Len(Compress(p.payload))) % 256 # 255
    <3>1. Compressible(p.payload)
      BY <1>2 DEF WellFormed
    <3> QED BY <3>1, Zenon DEF Compressible
  <2>2. marked = <<ratio>> \o Compress(p.payload)
    BY <1>2 DEF Marked
  <2>3. ratio \in Byte /\ ratio # 0
    <3>1. Len(Compress(p.payload)) \in Nat \ {0} /\ Len(p.payload) \in Nat
      BY <1>0, <2>1
    <3>2. \A q \in Nat : q % 256 # 255 => (q + 1) % 256 \in 1..255
      OBVIOUS
    <3>3. \A a \in Nat, b \in Nat \ {0} : a \div b \in Nat
      OBVIOUS
    <3> DEFINE q == Len(p.payload) \div Len(Compress(p.payload))
    <3>4. q \in Nat /\ q % 256 # 255
      BY <2>1, <3>1, <3>3
    <3>5. ratio = (q + 1) % 256
      BY DEF Ratio
    <3> HIDE DEF q, ratio
    <3> QED BY <3>2, <3>4, <3>5 DEF Byte
  <2> HIDE DEF ratio
  <2>4. /\ marked \in Seq(Byte) /\ marked # <<>> /\ marked[1] = ratio
        /\ Tail(marked) = Compress(p.payload)
    BY <2>1, <2>2, <2>3
  <2>5. (marked # <<>> /\ marked[1] # 0) = (p.compress /\ p.payload # <<>>)
    <3> HIDE DEF marked
    <3>1. (marked # <<>> /\ marked[1] # 0) <=> (p.compress /\ p.payload # <<>>)
      BY <1>2, <2>3, <2>4
    <3> QED BY <3>1, Zenon
  <2>6. Unmarked(marked) = p.payload
    BY <2>1, <2>3, <2>4 DEF Unmarked
  <2> QED BY <2>1, <2>4, <2>5, <2>6
<1>3. CASE p.payload # <<>> /\ ~p.compress
  <2>1. marked = <<0>> \o p.payload
    BY <1>3 DEF Marked
  <2>2. marked \in Seq(Byte) /\ marked # <<>> /\ marked[1] = 0 /\ Tail(marked) = p.payload
    BY <1>0, <2>1 DEF Byte
  <2>3. (marked # <<>> /\ marked[1] # 0) = (p.compress /\ p.payload # <<>>)
    <3> HIDE DEF marked
    <3>1. (marked # <<>> /\ marked[1] # 0) <=> (p.compress /\ p.payload # <<>>)
      BY <1>3, <2>2
    <3> QED BY <3>1, Zenon
  <2>4. Unmarked(marked) = p.payload
    BY <2>2 DEF Unmarked
  <2> QED BY <2>2, <2>3, <2>4
<1> QED BY <1>1, <1>2, <1>3

\* What the reader makes of the bytes of a payload.
Plain(p, bytes) == IF IsSecret(p.type, p.source) THEN Crypt(bytes) ELSE bytes

LEMMA PayloadFact ==
    ASSUME NEW p, WellFormed(p)
    PROVE  /\ PayloadBytes(p) \in Seq(Byte)
           /\ Len(PayloadBytes(p)) \in Word
           /\ Plain(p, PayloadBytes(p)) = Marked(p.payload, p.compress)
           /\ ~IsSecret(p.type, p.source) => Marked(p.payload, p.compress) = p.payload
<1> DEFINE marked == Marked(p.payload, p.compress)
<1>1. marked \in Seq(Byte)
  BY MarkedFact
<1>2. CASE p.payload = <<>>
  <2>1. marked = <<>>
    BY <1>2 DEF Marked
  <2>2. Crypt(<<>>) = <<>>
    BY DEF Crypt
  <2>3. PayloadBytes(p) = <<>>
    BY <2>1, <2>2 DEF PayloadBytes
  <2>4. 0 \in Word
    BY DEF Word
  <2> QED BY <1>2, <2>1, <2>2, <2>3, <2>4 DEF Plain
<1>3. CASE p.payload # <<>>
  <2>1. /\ IsSecret(p.type, p.source)
        /\ Len(PayloadBytes(p)) <= Len(KeyStream) /\ Len(PayloadBytes(p)) \in Word
    BY <1>3 DEF WellFormed
  <2>2. PayloadBytes(p) = Crypt(marked)
    BY <2>1 DEF PayloadBytes
  <2>3. DOMAIN Crypt(marked) = DOMAIN marked
    BY DEF Crypt
  <2>4. Len(marked) <= Len(KeyStream)
    <3>1. Len(Crypt(marked)) = Len(marked)
      BY <1>1, <2>3
    <3> QED BY <2>1, <2>2, <3>1
  <2>5. Crypt(marked) \in Seq(Byte) /\ Crypt(Crypt(marked)) = marked
    BY <1>1, <2>4, CryptFact
  <2>6. Plain(p, PayloadBytes(p)) = marked
    BY <2>1, <2>2, <2>5, Zenon DEF Plain
  <2>7. PayloadBytes(p) \in Seq(Byte) /\ Len(PayloadBytes(p)) \in Word
    BY <2>1, <2>2, <2>5
  <2> QED BY <2>1, <2>6, <2>7
<1>4. p.payload = <<>> \/ p.payload # <<>>
  OBVIOUS
<1> QED BY <1>2, <1>3, <1>4, Zenon

-----------------------------------------------------------------------------
\* Sums.  The partial sums of a sequence up to place n.

IsSums(f, s, n) == f = [i \in 0..n |-> IF i = 0 THEN 0 ELSE f[i - 1] + s[i]]

LEMMA SumsExist ==
    ASSUME NEW s \in Seq(Int), NEW n \in 0..Len(s)
    PROVE  \E f : IsSums(f, s, n) /\ f \in [0..n -> Int]
<1> DEFINE Has(m) == \E f : IsSums(f, s, m) /\ f \in [0..m -> Int]
           Without == {m \in 0..Len(s) : ~Has(m)}
<1>1. Has(0)
  <2> DEFINE f == [i \in 0..0 |-> 0]
  <2>1. f \in [0..0 -> Int]
    OBVIOUS
  <2>2. f = [i \in 0..0 |-> IF i = 0 THEN 0 ELSE f[i - 1] + s[i]]
    OBVIOUS
  <2> HIDE DEF f
  <2> QED BY <2>1, <2>2 DEF IsSums
<1>2. ASSUME NEW m \in 1..Len(s), Has(m - 1) PROVE Has(m)
  <2>1. PICK f : IsSums(f, s, m - 1) /\ f \in [0..(m - 1) -> Int]
    BY <1>2
  <2> DEFINE g == [i \in 0..m |-> IF i = m THEN f[m - 1] + s[m] ELSE f[i]]
  <2>2. m \in Nat /\ m - 1 \in Nat /\ m - 1 \in 0..(m - 1) /\ s[m] \in Int
    OBVIOUS
  <2>3. f[m - 1] \in Int /\ g \in [0..m -> Int]
    BY <2>1, <2>2
  <2>4. ASSUME NEW i \in 0..m PROVE g[i] = IF i = 0 THEN 0 ELSE g[i - 1] + s[i]
    <3>1. CASE i = m
      <4>1. g[i] = f[m - 1] + s[m] /\ i # 0 /\ m - 1 \in 0..m /\ m - 1 # m
        BY <2>2, <3>1
      <4>2. g[i - 1] = f[m - 1]
        BY <3>1, <4>1
      <4> QED BY <3>1, <4>1, <4>2
    <3>2. CASE i # m
      <4>1. i \in 0..(m - 1) /\ g[i] = f[i]
        BY <2>2, <3>2
      <4>2. f[i] = IF i = 0 THEN 0 ELSE f[i - 1] + s[i]
        BY <2>1, <4>1 DEF IsSums
      <4>3. i # 0 => i - 1 \in 0..m /\ i - 1 # m /\ g[i - 1] = f[i - 1]
        BY <2>2, <4>1
      <4> QED BY <4>1, <4>2, <4>3
    <3> QED BY <3>1, <3>2
  <2>5. g = [i \in 0..m |-> IF i = 0 THEN 0 ELSE g[i - 1] + s[i]]
    <3>1. g = [i \in 0..m |-> g[i]]
      OBVIOUS
    <3> HIDE DEF g
    <3> QED BY <2>4, <3>1
  <2> HIDE DEF g
  <2> QED BY <2>3, <2>5 DEF IsSums
<1> HIDE DEF Has
<1>3. Without = {}
  <2> SUFFICES ASSUME Without # {} PROVE FALSE
    OBVIOUS
  <2>1. Without \subseteq Nat
    OBVIOUS
  <2>2. PICK m \in Without : \A k \in Without : ~(<<k, m>> \in OpToRel(<, Nat))
    BY <2>1, NatLessThanWellFounded, WFMin
  <2>3. m # 0 /\ m \in 1..Len(s)
    BY <1>1
  <2>4. m - 1 \in 0..Len(s) /\ m - 1 \in Nat /\ m \in Nat /\ m - 1 < m
    BY <2>3
  <2>5. m - 1 \notin Without
    BY <2>2, <2>4 DEF OpToRel
  <2> QED BY <1>2, <2>3, <2>4, <2>5
<1> QED BY <1>3 DEF Has

\* The sum of a sequence is the last of its partial sums.
LEMMA SumFact ==
    ASSUME NEW s \in Seq(Int)
    PROVE  \E f \in [0..Len(s) -> Int] :
               /\ f[0] = 0
               /\ \A i \in 1..Len(s) : f[i] = f[i - 1] + s[i]
               /\ SumOf(s) = f[Len(s)]
<1> DEFINE n == Len(s)
           f == CHOOSE g : IsSums(g, s, n)
<1>1. n \in Nat /\ n \in 0..Len(s)
  OBVIOUS
<1>2. PICK g : IsSums(g, s, n) /\ g \in [0..n -> Int]
  BY <1>1, SumsExist
<1>3. IsSums(f, s, n)
  BY <1>2
<1>4. SumOf(s) = f[n]
  BY DEF SumOf, IsSums
<1> HIDE DEF f
<1>5. \A i \in 0..n : f[i] = IF i = 0 THEN 0 ELSE f[i - 1] + s[i]
  BY <1>3 DEF IsSums
<1>6. f = [i \in 0..n |-> f[i]]
  BY <1>3 DEF IsSums
<1>7. \A i \in 0..n : f[i] = g[i]
  <2> DEFINE Other == {i \in 0..n : f[i] # g[i]}
  <2> SUFFICES ASSUME Other # {} PROVE FALSE
    OBVIOUS
  <2>1. Other \subseteq Nat
    OBVIOUS
  <2>2. PICK i \in Other : \A k \in Other : ~(<<k, i>> \in OpToRel(<, Nat))
    BY <2>1, NatLessThanWellFounded, WFMin
  <2>3. \A j \in 0..n : g[j] = IF j = 0 THEN 0 ELSE g[j - 1] + s[j]
    BY <1>2 DEF IsSums
  <2>4. i # 0
    BY <1>1, <1>5, <2>3
  <2>5. i - 1 \in 0..n /\ i \in Nat /\ i - 1 \in Nat /\ i - 1 < i
    BY <1>1, <2>4
  <2>6. i - 1 \notin Other
    BY <2>2, <2>5 DEF OpToRel
  <2> QED BY <1>5, <2>3, <2>4, <2>5, <2>6
<1>8. f \in [0..n -> Int]
  BY <1>2, <1>6, <1>7
<1>9. f[0] = 0 /\ \A i \in 1..n : f[i] = f[i - 1] + s[i]
  BY <1>1, <1>5
<1> QED BY <1>4, <1>8, <1>9

\* Sequences that differ in one place have sums that differ by as much.
LEMMA SumChange ==
    ASSUME NEW s \in Seq(Int), NEW t \in Seq(Int), Len(s) = Len(t), NEW k \in 1..Len(s),
           \A i \in 1..Len(s) : i # k => s[i] = t[i]
    PROVE  SumOf(s) \in Int /\ SumOf(t) = SumOf(s) + (t[k] - s[k])
<1> DEFINE n == Len(s)
           delta == t[k] - s[k]
<1>1. PICK f \in [0..n -> Int] :
          f[0] = 0 /\ (\A i \in 1..n : f[i] = f[i - 1] + s[i]) /\ SumOf(s) = f[n]
  BY SumFact
<1>2. PICK g \in [0..n -> Int] :
          g[0] = 0 /\ (\A i \in 1..n : g[i] = g[i - 1] + t[i]) /\ SumOf(t) = g[n]
  BY SumFact
<1>3. n \in Nat /\ k \in 1..n /\ s[k] \in Int /\ t[k] \in Int /\ delta \in Int
  OBVIOUS
<1>7. /\ \A i \in 1..n : s[i] \in Int
      /\ \A i \in 1..n : t[i] \in Int
      /\ \A i \in 0..n : f[i] \in Int
  <2>1. \A i \in 1..n : s[i] \in Int
    OBVIOUS
  <2>2. \A i \in 1..n : t[i] \in Int
    OBVIOUS
  <2>3. \A i \in 0..n : f[i] \in Int
    OBVIOUS
  <2> QED BY <2>1, <2>2, <2>3
<1>4. \A i \in 0..n : g[i] = f[i] + (IF i >= k THEN delta ELSE 0)
  <2> DEFINE Other == {i \in 0..n : g[i] # f[i] + (IF i >= k THEN delta ELSE 0)}
  <2> SUFFICES ASSUME Other # {} PROVE FALSE
    OBVIOUS
  <2>1. Other \subseteq Nat
    OBVIOUS
  <2>2. PICK i \in Other : \A j \in Other : ~(<<j, i>> \in OpToRel(<, Nat))
    BY <2>1, NatLessThanWellFounded, WFMin
  <2>3. i # 0
    BY <1>1, <1>2, <1>3
  <2>4. i - 1 \in 0..n /\ i \in 1..n /\ i \in Nat /\ i - 1 \in Nat /\ i - 1 < i
    BY <1>3, <2>3
  <2>5. g[i - 1] = f[i - 1] + (IF i - 1 >= k THEN delta ELSE 0)
    BY <2>2, <2>4 DEF OpToRel
  <2>6. f[i] = f[i - 1] + s[i] /\ g[i] = g[i - 1] + t[i]
    BY <1>1, <1>2, <2>4
  <2>7. f[i - 1] \in Int /\ s[i] \in Int /\ t[i] \in Int
    BY <1>7, <2>4
  <2>8. CASE i = k
    <3>1. t[i] = s[i] + delta /\ ~(i - 1 >= k) /\ i >= k
      BY <1>3, <2>4, <2>8
    <3>2. g[i - 1] = f[i - 1]
      BY <2>5, <2>7, <3>1
    <3>3. delta \in Int
      BY <2>7, <2>8
    <3> HIDE DEF delta, Other
    <3>4. g[i] = f[i] + delta
      BY <2>6, <2>7, <3>1, <3>2, <3>3
    <3> QED BY <3>1, <3>4 DEF Other
  <2>9. CASE i # k
    <3>1. t[i] = s[i] /\ (i - 1 >= k <=> i >= k)
      BY <1>3, <2>4, <2>9
    <3> HIDE DEF delta
    <3>2. CASE i >= k
      BY <1>3, <2>5, <2>6, <2>7, <3>1, <3>2
    <3>3. CASE ~(i >= k)
      BY <1>3, <2>5, <2>6, <2>7, <3>1, <3>3
    <3> QED BY <3>2, <3>3
  <2> QED BY <2>8, <2>9
<1>5. g[n] = f[n] + delta
  BY <1>3, <1>4
<1>6. f[n] \in Int
  BY <1>3, <1>7
<1> QED BY <1>1, <1>2, <1>5, <1>6

\* The sum of a sequence of numbers is a number.
LEMMA SumType ==
    ASSUME NEW s \in Seq(Int)
    PROVE  SumOf(s) \in Int
<1>1. PICK f \in [0..Len(s) -> Int] : SumOf(s) = f[Len(s)]
  BY SumFact
<1>2. Len(s) \in 0..Len(s)
  OBVIOUS
<1> QED BY <1>1, <1>2

-----------------------------------------------------------------------------
\* The checksum.

LEMMA BytesAreNumbers == Byte \subseteq Int
BY DEF Byte

\* The bytes in column c of the words.
Column(bytes, c) == [w \in 1..Len(bytes) \div 4 |-> bytes[4 * (w - 1) + c]]

LEMMA ColumnFact ==
    ASSUME NEW s \in Seq(Byte), NEW c \in 1..4
    PROVE  /\ Column(s, c) \in Seq(Int)
           /\ Len(Column(s, c)) = Len(s) \div 4
           /\ SumOf(Column(s, c)) \in Int
<1> DEFINE n == Len(s) \div 4
<1>1. n \in Nat /\ 4 * n <= Len(s)
  OBVIOUS
<1>2. ASSUME NEW w \in 1..n PROVE s[4 * (w - 1) + c] \in Int
  <2>1. 4 * (w - 1) + c \in 1..Len(s)
    <3> HIDE DEF n
    <3> QED BY <1>1
  <2>2. \A i \in 1..Len(s) : s[i] \in Byte
    OBVIOUS
  <2> QED BY <2>1, <2>2, BytesAreNumbers
<1>3. Column(s, c) \in [1..n -> Int]
  BY <1>2 DEF Column
<1>4. Column(s, c) \in Seq(Int) /\ Len(Column(s, c)) = n
  <2> HIDE DEF n
  <2> QED BY <1>1, <1>3
<1> QED BY <1>4, SumType

LEMMA ByteSeq ==
    ASSUME NEW s \in Seq(Byte)
    PROVE  s \in Seq(Int) /\ SumOf(s) \in Int
<1>1. \A i \in 1..Len(s) : s[i] \in Byte
  OBVIOUS
<1>2. \A i \in 1..Len(s) : s[i] \in Int
  BY <1>1, BytesAreNumbers
<1>3. Len(s) \in Nat /\ s \in [1..Len(s) -> Int]
  BY <1>2
<1>4. s \in Seq(Int)
  BY <1>3
<1> QED BY <1>4, SumType

LEMMA KeyFact ==
    ASSUME NEW stream
    PROVE  KeyOf(stream) \in Int
BY KeysAssumption, ByteSeq DEF KeyOf

LEMMA WordSumFact ==
    ASSUME NEW s \in Seq(Byte)
    PROVE  WordSum(s) \in Seq(Int) /\ SumOf(WordSum(s)) \in Int
<1> DEFINE sum(c) == SumOf(Column(s, c))
           low    == sum(1)
           second == sum(2) + low \div 256
           third  == sum(3) + second \div 256
           high   == sum(4) + third \div 256
<1>1. WordSum(s) = <<low % 256, second % 256, third % 256, high % 256>>
  BY DEF WordSum, Column
<1>2. \A c \in 1..4 : sum(c) \in Int
  BY ColumnFact
<1> HIDE DEF sum
<1>3. low \in Int /\ second \in Int /\ third \in Int /\ high \in Int
  BY <1>2
<1> HIDE DEF low, second, third, high
<1>4. WordSum(s) \in Seq(Int)
  BY <1>1, <1>3
<1> QED BY <1>4, SumType

LEMMA ChecksumFact ==
    ASSUME NEW s \in Seq(Byte), NEW stream
    PROVE  Checksum(stream, s) \in Byte
<1> DEFINE whole == Len(s) - (Len(s) % 4)
           front == SubSeq(s, 1, whole)
           rest  == SubSeq(s, whole + 1, Len(s))
<1>1. whole \in 0..Len(s)
  OBVIOUS
<1> HIDE DEF whole
<1>2. front \in Seq(Byte) /\ rest \in Seq(Byte)
  BY <1>1
<1>3. Checksum(stream, s) = (SumOf(WordSum(front)) + KeyOf(stream) + SumOf(rest)) % 256
  BY DEF Checksum, whole
<1> HIDE DEF front, rest
<1>4. SumOf(WordSum(front)) \in Int /\ KeyOf(stream) \in Int /\ SumOf(rest) \in Int
  BY <1>2, WordSumFact, KeyFact, ByteSeq
<1>5. ASSUME NEW a \in Int, NEW b \in Int, NEW c \in Int PROVE (a + b + c) % 256 \in Byte
  BY DEF Byte
<1> QED BY <1>3, <1>4, <1>5

-----------------------------------------------------------------------------
\* The bytes of a packet: its fields one behind the other.

TypeByte(p) == (CodeIn(PacketTypes, p.type) - 1) + 8 * FlagBits(p.flags)

FirstBytes(p) ==
    <<VPortByte(p.source), VPortByte(p.destination), TypeByte(p), p.session>>

\* The fields that only some packets have are empty in the others.
ConnBytes(p) == IF p.type \in {"Syn", "Connect"} THEN p.connSignature ELSE <<>>
FragBytes(p) == IF p.type = "Data" THEN <<p.fragment>> ELSE <<>>
SizeBytes(p) == IF "HasSize" \in p.flags THEN LittleEndian(Len(PayloadBytes(p))) ELSE <<>>

\* Everything up to the sequence, the fragment, the size.
UpToSequence(p) == FirstBytes(p) \o p.signature \o LittleEndian(p.sequence)
UpToFragment(p) == UpToSequence(p) \o ConnBytes(p) \o FragBytes(p)
UpToSize(p)     == UpToFragment(p) \o SizeBytes(p)

LEMMA FourFact ==
    ASSUME NEW s \in Four
    PROVE  s \in Seq(Byte) /\ Len(s) = 4
<1>1. PICK a, b, c, d \in Byte : s = <<a, b, c, d>>
  BY DEF Four
<1> QED BY <1>1

\* What is known of the bytes of each field.
FieldBytes(p) ==
    /\ FirstBytes(p) \in Seq(Byte) /\ Len(FirstBytes(p)) = 4
    /\ p.signature \in Seq(Byte) /\ Len(p.signature) = 4
    /\ LittleEndian(p.sequence) \in Seq(Byte) /\ Len(LittleEndian(p.sequence)) = 2
    /\ ConnBytes(p) \in Seq(Byte)
    /\ Len(ConnBytes(p)) = IF p.type \in {"Syn", "Connect"} THEN 4 ELSE 0
    /\ FragBytes(p) \in Seq(Byte) /\ Len(FragBytes(p)) = IF p.type = "Data" THEN 1 ELSE 0
    /\ SizeBytes(p) \in Seq(Byte)
    /\ Len(SizeBytes(p)) = IF "HasSize" \in p.flags THEN 2 ELSE 0
    /\ PayloadBytes(p) \in Seq(Byte)

LEMMA FieldsFact ==
    ASSUME NEW p, WellFormed(p)
    PROVE  FieldBytes(p)
<1>1. FieldsFit(p)
  BY DEF WellFormed
<1>2. FirstBytes(p) \in Seq(Byte) /\ Len(FirstBytes(p)) = 4
  <2>1. VPortByte(p.source) \in Byte /\ VPortByte(p.destination) \in Byte
    <3>1. VPortByte(p.source) \in 0..143 /\ VPortByte(p.destination) \in 0..143
      BY <1>1, VPortFact DEF FieldsFit
    <3> QED BY <3>1 DEF Byte
  <2>2. FlagBits(p.flags) \in 0..15
    BY <1>1, FlagsFact DEF FieldsFit
  <2>3. TypeByte(p) \in Byte
    BY <1>1, <2>2, TypeFact DEF FieldsFit, TypeByte
  <2>4. p.session \in Byte
    BY <1>1 DEF FieldsFit
  <2> QED BY <2>1, <2>3, <2>4 DEF FirstBytes
<1>3. p.signature \in Seq(Byte) /\ Len(p.signature) = 4
  BY <1>1, FourFact DEF FieldsFit
<1>4. LittleEndian(p.sequence) \in Seq(Byte) /\ Len(LittleEndian(p.sequence)) = 2
  BY <1>1, LittleEndianFact DEF FieldsFit
<1>5. /\ ConnBytes(p) \in Seq(Byte)
      /\ Len(ConnBytes(p)) = IF p.type \in {"Syn", "Connect"} THEN 4 ELSE 0
  <2>1. CASE p.type \in {"Syn", "Connect"}
    BY <1>1, <2>1, FourFact DEF FieldsFit, ConnBytes
  <2>2. CASE p.type \notin {"Syn", "Connect"}
    BY <2>2 DEF ConnBytes
  <2> QED BY <2>1, <2>2
<1>6. FragBytes(p) \in Seq(Byte) /\ Len(FragBytes(p)) = IF p.type = "Data" THEN 1 ELSE 0
  BY <1>1 DEF FieldsFit, FragBytes
<1>7. PayloadBytes(p) \in Seq(Byte) /\ Len(PayloadBytes(p)) \in Word
  BY PayloadFact
<1>8. SizeBytes(p) \in Seq(Byte) /\ Len(SizeBytes(p)) = IF "HasSize" \in p.flags THEN 2 ELSE 0
  BY <1>7, LittleEndianFact DEF SizeBytes
<1> QED BY <1>2, <1>3, <1>4, <1>5, <1>6, <1>7, <1>8 DEF FieldBytes

\* The bytes in front of the payload.
StartOf(p) == FixedBytes(p.type) + (IF "HasSize" \in p.flags THEN 2 ELSE 0)

LEMMA PrefixFact ==
    ASSUME NEW p, WellFormed(p)
    PROVE  /\ UpToSequence(p) \in Seq(Byte) /\ Len(UpToSequence(p)) = 10
           /\ UpToFragment(p) \in Seq(Byte) /\ Len(UpToFragment(p)) = FixedBytes(p.type)
           /\ UpToSize(p) \in Seq(Byte) /\ Len(UpToSize(p)) = StartOf(p)
           /\ DataBytes(p) = UpToSize(p) \o PayloadBytes(p)
           /\ DataBytes(p) \in Seq(Byte)
           /\ Len(DataBytes(p)) = StartOf(p) + Len(PayloadBytes(p))
<1>0. \A s, t \in Seq(Byte) : s \o t \in Seq(Byte) /\ Len(s \o t) = Len(s) + Len(t)
  OBVIOUS
<1>a. FieldBytes(p)
  BY FieldsFact
<1>1. FirstBytes(p) \o p.signature \in Seq(Byte) /\ Len(FirstBytes(p) \o p.signature) = 8
  <2>1. FirstBytes(p) \in Seq(Byte) /\ Len(FirstBytes(p)) = 4
    BY <1>a DEF FieldBytes
  <2>2. p.signature \in Seq(Byte) /\ Len(p.signature) = 4
    BY <1>a DEF FieldBytes
  <2>3. /\ FirstBytes(p) \o p.signature \in Seq(Byte)
        /\ Len(FirstBytes(p) \o p.signature) = Len(FirstBytes(p)) + Len(p.signature)
    BY <1>0, <2>1, <2>2, Zenon
  <2> QED BY <2>1, <2>2, <2>3
<1>2. UpToSequence(p) \in Seq(Byte) /\ Len(UpToSequence(p)) = 10
  <2>1. LittleEndian(p.sequence) \in Seq(Byte) /\ Len(LittleEndian(p.sequence)) = 2
    BY <1>a DEF FieldBytes
  <2>2. /\ UpToSequence(p) \in Seq(Byte)
        /\ Len(UpToSequence(p))
               = Len(FirstBytes(p) \o p.signature) + Len(LittleEndian(p.sequence))
    BY <1>0, <1>1, <2>1, Zenon DEF UpToSequence
  <2> QED BY <1>1, <2>1, <2>2
<1>3. /\ UpToSequence(p) \o ConnBytes(p) \in Seq(Byte)
      /\ Len(UpToSequence(p) \o ConnBytes(p)) = IF p.type \in {"Syn", "Connect"} THEN 14 ELSE 10
  <2>1. /\ ConnBytes(p) \in Seq(Byte)
        /\ Len(ConnBytes(p)) = IF p.type \in {"Syn", "Connect"} THEN 4 ELSE 0
    BY <1>a DEF FieldBytes
  <2>2. /\ UpToSequence(p) \o ConnBytes(p) \in Seq(Byte)
        /\ Len(UpToSequence(p) \o ConnBytes(p)) = Len(UpToSequence(p)) + Len(ConnBytes(p))
    BY <1>0, <1>2, <2>1, Zenon
  <2> QED BY <1>2, <2>1, <2>2
<1>4. UpToFragment(p) \in Seq(Byte) /\ Len(UpToFragment(p)) = FixedBytes(p.type)
  <2>1. /\ UpToFragment(p) \in Seq(Byte)
        /\ Len(UpToFragment(p)) = (IF p.type \in {"Syn", "Connect"} THEN 14 ELSE 10)
                                      + (IF p.type = "Data" THEN 1 ELSE 0)
    BY <1>0, <1>3, <1>a DEF FieldBytes, UpToFragment
  <2> QED BY <2>1 DEF FixedBytes
<1>5. UpToSize(p) \in Seq(Byte) /\ Len(UpToSize(p)) = StartOf(p)
  BY <1>0, <1>4, <1>a DEF FieldBytes, UpToSize, StartOf
<1>6. DataBytes(p) = UpToSize(p) \o PayloadBytes(p)
  BY DEF DataBytes, UpToSize, UpToFragment, UpToSequence, FirstBytes, TypeByte, ConnBytes, FragBytes,
         SizeBytes
<1> QED BY <1>0, <1>2, <1>4, <1>5, <1>6, <1>a DEF FieldBytes

\* The bytes of a packet start with each of these.
FrontParts(p) ==
    {FirstBytes(p), FirstBytes(p) \o p.signature, UpToSequence(p),
     UpToSequence(p) \o ConnBytes(p), UpToFragment(p), UpToSize(p), DataBytes(p)}

LEMMA BytesFact ==
    ASSUME NEW p, WellFormed(p)
    PROVE  /\ ToBytes(p) \in Seq(Byte)
           /\ Len(ToBytes(p)) = StartOf(p) + Len(PayloadBytes(p)) + 1
           /\ ToBytes(p)[Len(ToBytes(p))] = Checksum(p.destination.stream, DataBytes(p))
           /\ \A s \in FrontParts(p) : s \in Seq(Byte) /\ Starts(s, ToBytes(p))
<1> DEFINE check == Checksum(p.destination.stream, DataBytes(p))
           d == ToBytes(p)
<1>1. DataBytes(p) \in Seq(Byte) /\ check \in Byte
  BY PrefixFact, ChecksumFact
<1>2. /\ d \in Seq(Byte) /\ Len(d) = Len(DataBytes(p)) + 1 /\ d[Len(d)] = check
      /\ Starts(DataBytes(p), d)
  <2>1. d = Append(DataBytes(p), check)
    BY DEF ToBytes
  <2> HIDE DEF d, check
  <2> QED BY <1>1, <2>1 DEF Starts
<1> HIDE DEF d, check
<1>3. \A s, t : s \in Seq(Byte) /\ t \in Seq(Byte) /\ s \o t \in Seq(Byte) /\ Starts(s \o t, d)
          => Starts(s, d)
  <2> SUFFICES ASSUME NEW s \in Seq(Byte), NEW t \in Seq(Byte), Starts(s \o t, d)
               PROVE  Starts(s, d)
    BY Zenon
  <2>1. s \o t \in Seq(Byte) /\ Starts(s, s \o t)
    BY ConcatFact
  <2> QED BY <1>2, <2>1, StartsFact
<1>4. /\ FirstBytes(p) \in Seq(Byte) /\ p.signature \in Seq(Byte)
      /\ LittleEndian(p.sequence) \in Seq(Byte) /\ ConnBytes(p) \in Seq(Byte)
      /\ FragBytes(p) \in Seq(Byte) /\ SizeBytes(p) \in Seq(Byte) /\ PayloadBytes(p) \in Seq(Byte)
  BY FieldsFact DEF FieldBytes
<1>5. /\ UpToSequence(p) \in Seq(Byte) /\ UpToFragment(p) \in Seq(Byte)
      /\ UpToSize(p) \in Seq(Byte) /\ DataBytes(p) = UpToSize(p) \o PayloadBytes(p)
  BY PrefixFact
<1>6. Starts(UpToSize(p), d)
  BY <1>1, <1>2, <1>3, <1>4, <1>5, Zenon
<1>7. Starts(UpToFragment(p), d)
  BY <1>3, <1>4, <1>5, <1>6, Zenon DEF UpToSize
<1>8. UpToSequence(p) \o ConnBytes(p) \in Seq(Byte) /\ FirstBytes(p) \o p.signature \in Seq(Byte)
  BY <1>4, <1>5, ConcatFact, Zenon
<1>9. Starts(UpToSequence(p) \o ConnBytes(p), d)
  BY <1>3, <1>4, <1>5, <1>7, <1>8, Zenon DEF UpToFragment
<1>10. Starts(UpToSequence(p), d)
  BY <1>3, <1>4, <1>5, <1>8, <1>9, Zenon
<1>11. Starts(FirstBytes(p) \o p.signature, d)
  BY <1>3, <1>4, <1>5, <1>8, <1>10, Zenon DEF UpToSequence
<1>12. Starts(FirstBytes(p), d)
  BY <1>3, <1>4, <1>8, <1>11, Zenon
<1>13. \A s \in FrontParts(p) : s \in Seq(Byte) /\ Starts(s, d)
  BY <1>1, <1>2, <1>4, <1>5, <1>6, <1>7, <1>8, <1>9, <1>10, <1>11, <1>12, Zenon DEF FrontParts
<1>14. Len(DataBytes(p)) = StartOf(p) + Len(PayloadBytes(p))
  BY PrefixFact
<1> QED BY <1>2, <1>13, <1>14 DEF d, check

\* Where the reader finds the fields in front of the size.
LEMMA FieldsAreFound ==
    ASSUME NEW p, WellFormed(p)
    PROVE  LET d == ToBytes(p)
           IN  /\ Len(d) >= 10
               /\ d[1] = VPortByte(p.source) /\ d[2] = VPortByte(p.destination)
               /\ d[3] = TypeByte(p) /\ d[4] = p.session
               /\ SubSeq(d, 5, 8) = p.signature
               /\ d[9] + 256 * d[10] = p.sequence
               /\ p.type \in {"Syn", "Connect"} => SubSeq(d, 11, 14) = p.connSignature
               /\ p.type = "Data" => d[11] = p.fragment
<1> DEFINE d == ToBytes(p)
<1>1. d \in Seq(Byte) /\ \A s \in FrontParts(p) : s \in Seq(Byte) /\ Starts(s, d)
  BY BytesFact
<1>2. FieldBytes(p) /\ FieldsFit(p)
  BY FieldsFact DEF WellFormed
<1>3. Starts(FirstBytes(p), d) /\ Starts(FirstBytes(p) \o p.signature, d)
  BY <1>1 DEF FrontParts
<1>4. Starts(UpToSequence(p), d) /\ Starts(UpToSequence(p) \o ConnBytes(p), d)
  BY <1>1 DEF FrontParts
<1>5. Starts(UpToFragment(p), d)
  BY <1>1 DEF FrontParts
<1> HIDE DEF d
<1>6. FirstBytes(p) \in Seq(Byte) /\ Len(FirstBytes(p)) = 4
  BY <1>2 DEF FieldBytes
<1>7. p.signature \in Seq(Byte) /\ Len(p.signature) = 4
  BY <1>2 DEF FieldBytes
<1>8. UpToSequence(p) \in Seq(Byte) /\ Len(UpToSequence(p)) = 10
  BY PrefixFact
<1>9. d[1] = VPortByte(p.source) /\ d[2] = VPortByte(p.destination)
      /\ d[3] = TypeByte(p) /\ d[4] = p.session
  <2>1. \A i \in 1..4 : d[i] = FirstBytes(p)[i]
    BY <1>3, <1>6 DEF Starts
  <2>2. d[1] = FirstBytes(p)[1] /\ d[2] = FirstBytes(p)[2]
        /\ d[3] = FirstBytes(p)[3] /\ d[4] = FirstBytes(p)[4]
    BY <2>1
  <2> QED BY <2>2 DEF FirstBytes
<1>10. SubSeq(d, 5, 8) = p.signature
  <2>1. SubSeq(d, Len(FirstBytes(p)) + 1, Len(FirstBytes(p)) + Len(p.signature)) = p.signature
    BY <1>1, <1>3, <1>6, <1>7, SubSeqFact, Zenon
  <2>2. Len(FirstBytes(p)) + 1 = 5 /\ Len(FirstBytes(p)) + Len(p.signature) = 8
    BY <1>6, <1>7
  <2> QED BY <2>1, <2>2, Zenon
<1>11. d[9] + 256 * d[10] = p.sequence
  <2>1. /\ LittleEndian(p.sequence) \in Seq(Byte) /\ Len(LittleEndian(p.sequence)) = 2
        /\ LittleEndian(p.sequence)[1] + 256 * LittleEndian(p.sequence)[2] = p.sequence
    BY <1>2, LittleEndianFact DEF FieldsFit
  <2>2. FirstBytes(p) \o p.signature \in Seq(Byte) /\ Len(FirstBytes(p) \o p.signature) = 8
    <3>1. /\ FirstBytes(p) \o p.signature \in Seq(Byte)
          /\ Len(FirstBytes(p) \o p.signature) = Len(FirstBytes(p)) + Len(p.signature)
      BY <1>6, <1>7, ConcatFact, Zenon
    <3> QED BY <1>6, <1>7, <3>1
  <2>3. \A i \in 1..2 : UpToSequence(p)[8 + i] = LittleEndian(p.sequence)[i]
    <3>1. \A i \in 1..Len(LittleEndian(p.sequence)) :
             (FirstBytes(p) \o p.signature \o LittleEndian(p.sequence))
                 [Len(FirstBytes(p) \o p.signature) + i] = LittleEndian(p.sequence)[i]
      BY <2>1, <2>2, ConcatFact, Zenon
    <3> QED BY <2>1, <2>2, <3>1, Zenon DEF UpToSequence
  <2>4. d[9] = UpToSequence(p)[9] /\ d[10] = UpToSequence(p)[10]
    BY <1>4, <1>8 DEF Starts
  <2>5. UpToSequence(p)[8 + 1] = LittleEndian(p.sequence)[1]
        /\ UpToSequence(p)[8 + 2] = LittleEndian(p.sequence)[2]
    BY <2>3
  <2> QED BY <2>1, <2>4, <2>5
<1>12. ASSUME p.type \in {"Syn", "Connect"}
       PROVE  SubSeq(d, 11, 14) = p.connSignature
  <2>1. ConnBytes(p) = p.connSignature
    BY <1>12 DEF ConnBytes
  <2>2. ConnBytes(p) \in Seq(Byte) /\ Len(ConnBytes(p)) = 4
    BY <1>2, <1>12 DEF FieldBytes
  <2>3. SubSeq(d, Len(UpToSequence(p)) + 1, Len(UpToSequence(p)) + Len(ConnBytes(p)))
            = ConnBytes(p)
    BY <1>1, <1>4, <1>8, <2>2, SubSeqFact, Zenon
  <2>4. Len(UpToSequence(p)) + 1 = 11 /\ Len(UpToSequence(p)) + Len(ConnBytes(p)) = 14
    BY <1>8, <2>2
  <2> QED BY <2>1, <2>3, <2>4, Zenon
<1>13. ASSUME p.type = "Data"
       PROVE  d[11] = p.fragment
  <2>1. ConnBytes(p) = <<>> /\ FragBytes(p) = <<p.fragment>> /\ p.fragment \in Byte
    BY <1>2, <1>13 DEF ConnBytes, FragBytes, FieldsFit
  <2>2. UpToSequence(p) \o <<>> = UpToSequence(p)
    BY <1>8
  <2>3. UpToFragment(p) = UpToSequence(p) \o FragBytes(p)
    BY <2>1, <2>2, Zenon DEF UpToFragment
  <2>4. FragBytes(p) \in Seq(Byte) /\ Len(FragBytes(p)) = 1 /\ FragBytes(p)[1] = p.fragment
    BY <2>1
  <2>5. /\ Len(UpToFragment(p)) = Len(UpToSequence(p)) + Len(FragBytes(p))
        /\ \A i \in 1..Len(FragBytes(p)) :
              UpToFragment(p)[Len(UpToSequence(p)) + i] = FragBytes(p)[i]
    <3>1. /\ Len(UpToSequence(p) \o FragBytes(p)) = Len(UpToSequence(p)) + Len(FragBytes(p))
          /\ \A i \in 1..Len(FragBytes(p)) :
                (UpToSequence(p) \o FragBytes(p))[Len(UpToSequence(p)) + i] = FragBytes(p)[i]
      BY <1>8, <2>4, ConcatFact, Zenon
    <3> QED BY <2>3, <3>1, Zenon
  <2>6. Len(UpToFragment(p)) = 11 /\ UpToFragment(p)[10 + 1] = p.fragment
    <3>1. 1 \in 1..1
      OBVIOUS
    <3>2. Len(UpToFragment(p)) = 10 + 1
      BY <1>8, <2>4, <2>5, Zenon
    <3>3. UpToFragment(p)[10 + 1] = p.fragment
      BY <1>8, <2>4, <2>5, <3>1, Zenon
    <3> QED BY <3>2, <3>3
  <2>7. d[11] = UpToFragment(p)[11]
    BY <1>5, <2>6 DEF Starts
  <2> QED BY <2>6, <2>7
<1>14. Len(d) >= 10
  BY <1>1, <1>4, <1>8 DEF Starts
<1> QED BY <1>9, <1>10, <1>11, <1>12, <1>13, <1>14 DEF d

\* Where the reader finds the size, the payload and the checksum.
LEMMA PayloadIsFound ==
    ASSUME NEW p, WellFormed(p)
    PROVE  LET d    == ToBytes(p)
               n    == FixedBytes(p.type)
               size == Len(PayloadBytes(p))
           IN  /\ "HasSize" \in p.flags => d[n + 1] + 256 * d[n + 2] = size
               /\ SubSeq(d, StartOf(p) + 1, StartOf(p) + size) = PayloadBytes(p)
               /\ SubSeq(d, 1, StartOf(p) + size) = DataBytes(p)
<1> DEFINE d    == ToBytes(p)
           n    == FixedBytes(p.type)
           size == Len(PayloadBytes(p))
<1>1. d \in Seq(Byte) /\ \A s \in FrontParts(p) : s \in Seq(Byte) /\ Starts(s, d)
  BY BytesFact
<1>2. Starts(UpToSize(p), d) /\ Starts(DataBytes(p), d)
  BY <1>1 DEF FrontParts
<1>3. /\ UpToFragment(p) \in Seq(Byte) /\ Len(UpToFragment(p)) = n
      /\ UpToSize(p) \in Seq(Byte) /\ Len(UpToSize(p)) = StartOf(p)
      /\ DataBytes(p) = UpToSize(p) \o PayloadBytes(p)
      /\ DataBytes(p) \in Seq(Byte) /\ Len(DataBytes(p)) = StartOf(p) + size
  BY PrefixFact
<1>4. PayloadBytes(p) \in Seq(Byte) /\ size \in Word
  BY PayloadFact
<1>5. n \in Nat /\ StartOf(p) \in Nat /\ size \in Nat
  <2>1. n \in Nat
    BY DEF FixedBytes
  <2>2. StartOf(p) \in Nat
    BY <2>1 DEF StartOf
  <2>3. Word \subseteq Nat
    BY DEF Word
  <2> QED BY <1>4, <2>1, <2>2, <2>3
<1> HIDE DEF d, n, size
<1>6. ASSUME "HasSize" \in p.flags
      PROVE  d[n + 1] + 256 * d[n + 2] = size
  <2>1. SizeBytes(p) = LittleEndian(size)
    BY <1>6 DEF SizeBytes, size
  <2>2. /\ SizeBytes(p) \in Seq(Byte) /\ Len(SizeBytes(p)) = 2
        /\ SizeBytes(p)[1] + 256 * SizeBytes(p)[2] = size
    BY <1>4, <2>1, LittleEndianFact
  <2>3. /\ Len(UpToSize(p)) = Len(UpToFragment(p)) + Len(SizeBytes(p))
        /\ \A i \in 1..Len(SizeBytes(p)) :
              UpToSize(p)[Len(UpToFragment(p)) + i] = SizeBytes(p)[i]
    BY <1>3, <2>2, ConcatFact, Zenon DEF UpToSize
  <2>4. UpToSize(p)[n + 1] = SizeBytes(p)[1] /\ UpToSize(p)[n + 2] = SizeBytes(p)[2]
    <3>1. 1 \in 1..2 /\ 2 \in 1..2
      OBVIOUS
    <3> QED BY <1>3, <2>2, <2>3, <3>1, Zenon
  <2>5. d[n + 1] = UpToSize(p)[n + 1] /\ d[n + 2] = UpToSize(p)[n + 2]
    <3>1. n + 1 \in 1..Len(UpToSize(p)) /\ n + 2 \in 1..Len(UpToSize(p))
      BY <1>3, <1>5, <2>2, <2>3
    <3> QED BY <1>2, <3>1, Zenon DEF Starts
  <2> QED BY <2>2, <2>4, <2>5, Zenon
<1>7. SubSeq(d, StartOf(p) + 1, StartOf(p) + size) = PayloadBytes(p)
  BY <1>1, <1>2, <1>3, <1>4, SubSeqFact, Zenon DEF size
<1>8. SubSeq(d, 1, StartOf(p) + size) = DataBytes(p)
  <2>1. <<>> \in Seq(Byte) /\ Len(<<>>) = 0 /\ <<>> \o DataBytes(p) = DataBytes(p)
    BY <1>3
  <2>2. SubSeq(d, Len(<<>>) + 1, Len(<<>>) + Len(DataBytes(p))) = DataBytes(p)
    BY <1>1, <1>2, <1>3, <2>1, SubSeqFact, Zenon
  <2>3. Len(<<>>) + 1 = 1 /\ Len(<<>>) + Len(DataBytes(p)) = StartOf(p) + size
    BY <1>3, <1>5
  <2> QED BY <2>2, <2>3, Zenon
<1> QED BY <1>6, <1>7, <1>8 DEF d, n, size

-----------------------------------------------------------------------------
\* Reading.

\* Bytes that agree with those of a packet on where it ends are read up to there.
LEMMA EndIsFound ==
    ASSUME NEW p, WellFormed(p), NEW e \in Seq(Byte), Len(e) = Len(ToBytes(p)),
           \A i \in EndBytes(p) : e[i] = ToBytes(p)[i]
    PROVE  FromBytes(e) =
               IF ~{e[1] \div 16, e[2] \div 16} \subseteq DOMAIN StreamTypes
               THEN Invalid("InvalidStreamType")
               ELSE ReadFrom(e, StartOf(p), Len(PayloadBytes(p)))
<1> DEFINE fixed == FixedBytes(PacketTypes[(e[3] % 8) + 1])
           sized == "HasSize" \in FlagsIn(e[3] \div 8)
           start == IF sized THEN fixed + 2 ELSE fixed
           size  == IF sized THEN e[fixed + 1] + 256 * e[fixed + 2] ELSE Len(e) - start - 1
           whole == Len(PayloadBytes(p))
<1>1. FieldsFit(p)
  BY DEF WellFormed
<1>2. e[3] = TypeByte(p)
  BY FieldsAreFound DEF EndBytes
<1>3. /\ FlagBits(p.flags) \in 0..15 /\ FlagsIn(FlagBits(p.flags)) = p.flags
      /\ TypeByte(p) \div 8 = FlagBits(p.flags)
      /\ PacketTypes[(TypeByte(p) % 8) + 1] = p.type
  BY <1>1, FlagsFact, TypeFact DEF FieldsFit, TypeByte
<1>4. fixed = FixedBytes(p.type) /\ (sized <=> "HasSize" \in p.flags) /\ ~(e[3] \div 8 > 15)
  <2>1. fixed = FixedBytes(p.type) /\ (sized <=> "HasSize" \in p.flags)
    BY <1>2, <1>3, Zenon
  <2>2. e[3] \div 8 \in 0..15
    BY <1>2, <1>3, Zenon
  <2> HIDE DEF fixed, sized
  <2> QED BY <2>1, <2>2
<1>5. /\ Len(e) = StartOf(p) + whole + 1
      /\ "HasSize" \in p.flags =>
             ToBytes(p)[FixedBytes(p.type) + 1] + 256 * ToBytes(p)[FixedBytes(p.type) + 2] = whole
  BY BytesFact, PayloadIsFound
<1>6. whole \in Nat /\ FixedBytes(p.type) \in {10, 11, 14}
  <2>1. whole \in Word
    BY PayloadFact
  <2>2. Word \subseteq Nat
    BY DEF Word
  <2> QED BY <2>1, <2>2 DEF FixedBytes
<1>7. start = StartOf(p)
  BY <1>4, <1>6 DEF StartOf
<1>8. size = whole
  <2>1. CASE "HasSize" \in p.flags
    <3>1. e[fixed + 1] = ToBytes(p)[fixed + 1] /\ e[fixed + 2] = ToBytes(p)[fixed + 2]
      BY <1>4, <2>1, Zenon DEF EndBytes
    <3> QED BY <1>4, <1>5, <2>1, <3>1, Zenon
  <2>2. CASE "HasSize" \notin p.flags
    <3>1. size = Len(e) - StartOf(p) - 1
      BY <1>4, <1>7, <2>2, Zenon
    <3>2. StartOf(p) \in Nat
      BY <1>6 DEF StartOf
    <3> HIDE DEF size, whole
    <3> QED BY <1>5, <1>6, <3>1, <3>2
  <2> QED BY <2>1, <2>2
<1>9. /\ ~(Len(e) < 3) /\ ~(Len(e) < StartOf(p)) /\ ~(whole < 0)
      /\ ~(Len(e) < StartOf(p) + whole + 1)
  <2>1. StartOf(p) \in Nat /\ StartOf(p) >= 10
    BY <1>6 DEF StartOf
  <2> HIDE DEF whole
  <2> QED BY <1>5, <1>6, <2>1
<1>10. FromBytes(e) =
           IF Len(e) < 3 THEN Invalid("IO")
           ELSE IF ~{e[1] \div 16, e[2] \div 16} \subseteq DOMAIN StreamTypes
           THEN Invalid("InvalidStreamType")
           ELSE IF e[3] \div 8 > 15 THEN Invalid("InvalidFlag")
           ELSE IF Len(e) < start THEN Invalid("IO")
           ELSE IF size < 0 THEN Invalid("underflow")
           ELSE IF Len(e) < start + size + 1 THEN Invalid("IO")
           ELSE ReadFrom(e, start, size)
  BY Zenon DEF FromBytes
<1> HIDE DEF fixed, sized, start, size, whole
<1>11. FromBytes(e) =
           IF ~{e[1] \div 16, e[2] \div 16} \subseteq DOMAIN StreamTypes
           THEN Invalid("InvalidStreamType")
           ELSE ReadFrom(e, StartOf(p), whole)
  BY <1>4, <1>7, <1>8, <1>9, <1>10, Zenon
<1> QED BY <1>11 DEF whole

\* A packet that was written is read again, whatever its fields, and ends where it did.
\* QPacket::to_bytes and from_bytes, for every access key and key stream.
THEOREM PacketsAreReadAsWritten ==
    ASSUME NEW p, WellFormed(p)
    PROVE  ReadsBack(p)
<1> DEFINE d == ToBytes(p)
           size == Len(PayloadBytes(p))
<1>1. FieldsFit(p)
  BY DEF WellFormed
<1>2. /\ d[1] = VPortByte(p.source) /\ d[2] = VPortByte(p.destination)
      /\ d[3] = TypeByte(p) /\ d[4] = p.session
      /\ SubSeq(d, 5, 8) = p.signature
      /\ d[9] + 256 * d[10] = p.sequence
      /\ p.type \in {"Syn", "Connect"} => SubSeq(d, 11, 14) = p.connSignature
      /\ p.type = "Data" => d[11] = p.fragment
  BY FieldsAreFound
<1>3. /\ d \in Seq(Byte) /\ Len(d) = StartOf(p) + size + 1
      /\ d[Len(d)] = Checksum(p.destination.stream, DataBytes(p))
  BY BytesFact
<1>4. /\ SubSeq(d, StartOf(p) + 1, StartOf(p) + size) = PayloadBytes(p)
      /\ SubSeq(d, 1, StartOf(p) + size) = DataBytes(p)
  BY PayloadIsFound
<1>5. /\ p.source = [port |-> d[1] % 16, stream |-> StreamTypes[d[1] \div 16]]
      /\ p.destination = [port |-> d[2] % 16, stream |-> StreamTypes[d[2] \div 16]]
      /\ d[1] \div 16 \in DOMAIN StreamTypes /\ d[2] \div 16 \in DOMAIN StreamTypes
  <2>1. p.source \in VPort /\ p.destination \in VPort
    BY <1>1 DEF FieldsFit
  <2> QED BY <1>2, <2>1, VPortFact, Zenon
<1>6. p.type = PacketTypes[(d[3] % 8) + 1] /\ p.flags = FlagsIn(d[3] \div 8)
  <2>1. /\ FlagBits(p.flags) \in 0..15 /\ FlagsIn(FlagBits(p.flags)) = p.flags
        /\ TypeByte(p) \div 8 = FlagBits(p.flags)
        /\ PacketTypes[(TypeByte(p) % 8) + 1] = p.type
    BY <1>1, FlagsFact, TypeFact DEF FieldsFit, TypeByte
  <2> QED BY <1>2, <2>1, Zenon
<1>7. FromBytes(d) = ReadFrom(d, StartOf(p), size)
  BY <1>3, <1>5, EndIsFound
<1> DEFINE plain == Plain(p, PayloadBytes(p))
<1>8. /\ (plain # <<>> /\ plain[1] # 0) = (p.compress /\ p.payload # <<>>)
      /\ Unmarked(plain) = p.payload
      /\ plain # <<>> /\ plain[1] # 0 => IsCompressed(Tail(plain))
      /\ ~IsSecret(p.type, p.source) => plain = p.payload
  <2>1. plain = Marked(p.payload, p.compress)
        /\ (~IsSecret(p.type, p.source) => Marked(p.payload, p.compress) = p.payload)
    BY PayloadFact
  <2>2. LET marked == Marked(p.payload, p.compress)
        IN  /\ Unmarked(marked) = p.payload
            /\ marked # <<>> /\ marked[1] # 0 => IsCompressed(Tail(marked))
            /\ (marked # <<>> /\ marked[1] # 0) = (p.compress /\ p.payload # <<>>)
    BY MarkedFact
  <2> HIDE DEF plain
  <2> QED BY <2>1, <2>2, Zenon
<1> HIDE DEF d, size
<1> DEFINE Result(source, dest, type, flags, session, signature, number, clear, data) ==
               IF /\ IsSecret(type, source)
                  /\ clear # <<>> /\ clear[1] # 0 /\ ~IsCompressed(Tail(clear))
               THEN Invalid("DecompressFailed")
               ELSE IF ~Validates(dest.stream, data, d[StartOf(p) + size + 1])
               THEN Invalid("InvalidChecksum")
               ELSE [ok |-> TRUE, length |-> StartOf(p) + size + 1, packet |->
                        [source |-> source, destination |-> dest, type |-> type,
                         flags |-> flags, session |-> session,
                         signature |-> signature, sequence |-> number,
                         connSignature |->
                             IF type \in {"Syn", "Connect"} THEN SubSeq(d, 11, 14) ELSE Absent,
                         fragment |-> IF type = "Data" THEN d[11] ELSE Absent,
                         payload |-> IF IsSecret(type, source) THEN Unmarked(clear) ELSE clear,
                         compress |-> IsSecret(type, source) /\ clear # <<>> /\ clear[1] # 0]]
<1>9. ReadFrom(d, StartOf(p), size) =
          Result(p.source, p.destination, p.type, p.flags, p.session, p.signature, p.sequence,
                 plain, DataBytes(p))
  <2> DEFINE source  == [port |-> d[1] % 16, stream |-> StreamTypes[d[1] \div 16]]
             dest    == [port |-> d[2] % 16, stream |-> StreamTypes[d[2] \div 16]]
             type    == PacketTypes[(d[3] % 8) + 1]
             flags   == FlagsIn(d[3] \div 8)
             payload == SubSeq(d, StartOf(p) + 1, StartOf(p) + size)
             clear   == IF IsSecret(type, source) THEN Crypt(payload) ELSE payload
             data    == SubSeq(d, 1, StartOf(p) + size)
  <2>1. ReadFrom(d, StartOf(p), size) =
            Result(source, dest, type, flags, d[4], SubSeq(d, 5, 8), d[9] + 256 * d[10], clear, data)
    BY Zenon DEF ReadFrom
  <2>2. source = p.source /\ dest = p.destination /\ type = p.type /\ flags = p.flags
        /\ payload = PayloadBytes(p) /\ data = DataBytes(p)
    BY <1>4, <1>5, <1>6, Zenon
  <2>3. clear = plain
    BY <2>2, Zenon DEF Plain
  <2> HIDE DEF source, dest, type, flags, payload, clear, data, plain, Result
  <2> QED BY <1>2, <2>1, <2>2, <2>3
<1>10. (IF p.type \in {"Syn", "Connect"} THEN SubSeq(d, 11, 14) ELSE Absent) = p.connSignature
  BY <1>1, <1>2 DEF FieldsFit
<1>11. (IF p.type = "Data" THEN d[11] ELSE Absent) = p.fragment
  BY <1>1, <1>2 DEF FieldsFit
<1>12. (IF IsSecret(p.type, p.source) THEN Unmarked(plain) ELSE plain) = p.payload
  BY <1>8, Zenon
<1>12a. (IsSecret(p.type, p.source) /\ plain # <<>> /\ plain[1] # 0) = (p.compress /\ p.payload # <<>>)
  <2>1. p.payload # <<>> => IsSecret(p.type, p.source)
    BY DEF WellFormed
  <2> QED BY <1>8, <2>1, Zenon
<1>13. Validates(p.destination.stream, DataBytes(p), d[StartOf(p) + size + 1])
  BY <1>3, Zenon DEF Validates
<1> HIDE DEF plain
<1>14. ReadFrom(d, StartOf(p), size) = [ok |-> TRUE, length |-> StartOf(p) + size + 1, packet |->
           [source |-> p.source, destination |-> p.destination, type |-> p.type,
            flags |-> p.flags, session |-> p.session,
            signature |-> p.signature, sequence |-> p.sequence,
            connSignature |-> p.connSignature, fragment |-> p.fragment, payload |-> p.payload,
            compress |-> p.compress /\ p.payload # <<>>]]
  BY <1>8, <1>9, <1>10, <1>11, <1>12, <1>12a, <1>13, Zenon
<1> HIDE DEF Result
<1>15. FromBytes(d) = [ok |-> TRUE, length |-> Len(d), packet |-> OnTheWire(p)]
  BY <1>3, <1>7, <1>14, Zenon DEF OnTheWire
<1> QED BY <1>15 DEF ReadsBack, d

-----------------------------------------------------------------------------
\* One wrong bit.  The sum of the words changes by what the bit adds to its byte, and by
\* one in each of the following columns up to where the carry ends.

\* What one byte can change by when a bit of it is wrong, or a carry comes in.
Steps == (-128)..128

\* What n columns can add when delta is carried into the first: nothing against its sign.
Carries(n, delta) == {k \in (-n)..n : (delta >= 0 => k >= 0) /\ (delta <= 0 => k <= 0)}

\* Adding delta to x carries e.
IsCarry(x, delta, e) ==
    /\ (x + delta) \div 256 = x \div 256 + e
    /\ (x + delta) % 256 = (x % 256) + delta - 256 * e

LEMMA CarryFact ==
    ASSUME NEW x \in Int, NEW delta \in Steps
    PROVE  \E e \in Carries(1, delta) : IsCarry(x, delta, e)
<1> DEFINE q == x \div 256
           r == x % 256
<1>1. q \in Int /\ r \in 0..255 /\ x = 256 * q + r
  OBVIOUS
<1> HIDE DEF q, r
<1>2. ASSUME NEW e \in (-1)..1, r + delta - 256 * e \in 0..255
      PROVE  (x + delta) \div 256 = q + e /\ (x + delta) % 256 = r + delta - 256 * e
  BY <1>1, <1>2 DEF Steps
<1>3. CASE r + delta < 0
  <2>1. -1 \in Carries(1, delta) /\ r + delta - 256 * (-1) \in 0..255
    BY <1>1, <1>3 DEF Carries, Steps
  <2> QED BY <1>2, <2>1 DEF q, r, IsCarry, Carries
<1>4. CASE r + delta \in 0..255
  <2>1. 0 \in Carries(1, delta) /\ r + delta - 256 * 0 \in 0..255
    BY <1>1, <1>4 DEF Carries, Steps
  <2> QED BY <1>2, <2>1 DEF q, r, IsCarry, Carries
<1>5. CASE r + delta > 255
  <2>1. 1 \in Carries(1, delta) /\ r + delta - 256 * 1 \in 0..255
    BY <1>1, <1>5 DEF Carries, Steps
  <2> QED BY <1>2, <2>1 DEF q, r, IsCarry, Carries
<1> QED BY <1>1, <1>3, <1>4, <1>5 DEF Steps, IsCarry

\* The sum of the bytes of a number whose columns hold a, b, c and d, lowest first.
Sum1(d)          == d % 256
Sum2(c, d)       == (c % 256) + Sum1(d + c \div 256)
Sum3(b, c, d)    == (b % 256) + Sum2(c + b \div 256, d)
Sum4(a, b, c, d) == (a % 256) + Sum3(b + a \div 256, c, d)

\* The sum of the bytes went from t to u when delta was added: with up to n carries, and
\* but for multiples of 256.
Changed(t, u, delta, n) == \E k \in Carries(n, delta), j \in Int : u = t + delta + k - 256 * j

LEMMA SumsAreNumbers ==
    /\ \A d \in Int : Sum1(d) \in Int
    /\ \A c, d \in Int : Sum2(c, d) \in Int
    /\ \A b, c, d \in Int : Sum3(b, c, d) \in Int
    /\ \A a, b, c, d \in Int : Sum4(a, b, c, d) \in Int
<1>1. \A x, y \in Int : x % 256 \in Int /\ x + y \div 256 \in Int
  OBVIOUS
<1>2. \A d \in Int : Sum1(d) \in Int
  BY <1>1 DEF Sum1
<1>3. \A c, d \in Int : Sum2(c, d) \in Int
  BY <1>1, <1>2 DEF Sum2
<1>4. \A b, c, d \in Int : Sum3(b, c, d) \in Int
  BY <1>1, <1>3 DEF Sum3
<1>5. ASSUME NEW a \in Int, NEW b \in Int, NEW c \in Int, NEW d \in Int
      PROVE  Sum4(a, b, c, d) \in Int
  <2>1. Sum3(b + a \div 256, c, d) \in Int
    BY <1>1, <1>4
  <2> QED BY <1>1, <2>1 DEF Sum4
<1> QED BY <1>2, <1>3, <1>4, <1>5

LEMMA Changed1 ==
    ASSUME NEW d \in Int, NEW delta \in Steps
    PROVE  Changed(Sum1(d), Sum1(d + delta), delta, 0)
<1>1. PICK e \in Carries(1, delta) : IsCarry(d, delta, e)
  BY CarryFact
<1>2. 0 \in Carries(0, delta) /\ e \in Int /\ d % 256 \in Int
  BY DEF Carries, Steps
<1>3. (d + delta) % 256 = (d % 256) + delta + 0 - 256 * e
  BY <1>1, <1>2 DEF Steps, IsCarry
<1> QED BY <1>2, <1>3 DEF Changed, Sum1

\* One column more, and one carry more.
LEMMA MoreCarries ==
    ASSUME NEW n \in Nat, NEW delta \in Steps, NEW e \in Carries(1, delta),
           NEW t \in Int, NEW u \in Int, Changed(t, u, e, n), NEW x \in Int
    PROVE  /\ e \in Steps
           /\ Changed(x + t, x + delta - 256 * e + u, delta, n + 1)
<1>1. PICK k \in Carries(n, e), j \in Int : u = t + e + k - 256 * j
  BY DEF Changed
<1>2. e \in Steps /\ e \in Int /\ k \in Int
  BY DEF Carries, Steps
<1>3. e + k \in Carries(n + 1, delta) /\ e + j \in Int
  BY <1>2 DEF Carries, Steps
<1>4. x + delta - 256 * e + u = (x + t) + delta + (e + k) - 256 * (e + j)
  BY <1>1, <1>2 DEF Steps
<1> DEFINE v == x + delta - 256 * e + u
<1>5. v = (x + t) + delta + (e + k) - 256 * (e + j)
  BY <1>4
<1> HIDE DEF v
<1>6. Changed(x + t, v, delta, n + 1)
  BY <1>3, <1>5, Zenon DEF Changed
<1> QED BY <1>2, <1>6 DEF v

LEMMA Changed2 ==
    ASSUME NEW c \in Int, NEW d \in Int, NEW delta \in Steps
    PROVE  Changed(Sum2(c, d), Sum2(c + delta, d), delta, 1)
<1>1. PICK e \in Carries(1, delta) : IsCarry(c, delta, e)
  BY CarryFact
<1> DEFINE y == d + c \div 256
<1>2. e \in Steps /\ y \in Int /\ c % 256 \in Int /\ d + (c + delta) \div 256 = y + e
  BY <1>1 DEF Carries, Steps, IsCarry
<1>3. Sum2(c, d) = (c % 256) + Sum1(y)
  BY DEF Sum2
<1>4. Sum2(c + delta, d) = (c % 256) + delta - 256 * e + Sum1(y + e)
  BY <1>1, <1>2, Zenon DEF Sum2, IsCarry
<1> HIDE DEF y
<1>5. Changed(Sum1(y), Sum1(y + e), e, 0) /\ Sum1(y) \in Int /\ Sum1(y + e) \in Int
  <2>1. y + e \in Int
    BY <1>2 DEF Steps
  <2>2. Sum1(y) \in Int /\ Sum1(y + e) \in Int
    BY <1>2, <2>1, SumsAreNumbers
  <2> QED BY <1>2, <2>2, Changed1, Zenon
<1>6. Changed((c % 256) + Sum1(y), (c % 256) + delta - 256 * e + Sum1(y + e), delta, 0 + 1)
  BY <1>2, <1>5, MoreCarries
<1> QED BY <1>3, <1>4, <1>6

LEMMA Changed3 ==
    ASSUME NEW b \in Int, NEW c \in Int, NEW d \in Int, NEW delta \in Steps
    PROVE  Changed(Sum3(b, c, d), Sum3(b + delta, c, d), delta, 2)
<1>1. PICK e \in Carries(1, delta) : IsCarry(b, delta, e)
  BY CarryFact
<1> DEFINE y == c + b \div 256
<1>2. e \in Steps /\ y \in Int /\ b % 256 \in Int /\ c + (b + delta) \div 256 = y + e
  BY <1>1 DEF Carries, Steps, IsCarry
<1>3. Sum3(b, c, d) = (b % 256) + Sum2(y, d)
  BY DEF Sum3
<1>4. Sum3(b + delta, c, d) = (b % 256) + delta - 256 * e + Sum2(y + e, d)
  BY <1>1, <1>2, Zenon DEF Sum3, IsCarry
<1> HIDE DEF y
<1>5. Changed(Sum2(y, d), Sum2(y + e, d), e, 1) /\ Sum2(y, d) \in Int /\ Sum2(y + e, d) \in Int
  <2>1. y + e \in Int
    BY <1>2 DEF Steps
  <2>2. Sum2(y, d) \in Int /\ Sum2(y + e, d) \in Int
    BY <1>2, <2>1, SumsAreNumbers
  <2> QED BY <1>2, <2>2, Changed2, Zenon
<1>6. Changed((b % 256) + Sum2(y, d), (b % 256) + delta - 256 * e + Sum2(y + e, d), delta, 1 + 1)
  BY <1>2, <1>5, MoreCarries
<1> QED BY <1>3, <1>4, <1>6

LEMMA Changed4 ==
    ASSUME NEW a \in Int, NEW b \in Int, NEW c \in Int, NEW d \in Int, NEW delta \in Steps
    PROVE  Changed(Sum4(a, b, c, d), Sum4(a + delta, b, c, d), delta, 3)
<1>1. PICK e \in Carries(1, delta) : IsCarry(a, delta, e)
  BY CarryFact
<1> DEFINE y == b + a \div 256
<1>2. e \in Steps /\ y \in Int /\ a % 256 \in Int /\ b + (a + delta) \div 256 = y + e
  BY <1>1 DEF Carries, Steps, IsCarry
<1>3. Sum4(a, b, c, d) = (a % 256) + Sum3(y, c, d)
  BY DEF Sum4
<1>4. Sum4(a + delta, b, c, d) = (a % 256) + delta - 256 * e + Sum3(y + e, c, d)
  BY <1>1, <1>2, Zenon DEF Sum4, IsCarry
<1> HIDE DEF y
<1>5. /\ Changed(Sum3(y, c, d), Sum3(y + e, c, d), e, 2)
      /\ Sum3(y, c, d) \in Int /\ Sum3(y + e, c, d) \in Int
  <2>1. y + e \in Int
    BY <1>2 DEF Steps
  <2>2. Sum3(y, c, d) \in Int /\ Sum3(y + e, c, d) \in Int
    BY <1>2, <2>1, SumsAreNumbers
  <2> QED BY <1>2, <2>2, Changed3, Zenon
<1>6. Changed((a % 256) + Sum3(y, c, d), (a % 256) + delta - 256 * e + Sum3(y + e, c, d), delta, 2 + 1)
  BY <1>2, <1>5, MoreCarries
<1> QED BY <1>3, <1>4, <1>6

LEMMA FourSum ==
    ASSUME NEW a \in Int, NEW b \in Int, NEW c \in Int, NEW d \in Int
    PROVE  SumOf(<<a, b, c, d>>) = a + b + c + d
<1> DEFINE s == <<a, b, c, d>>
<1>1. s \in Seq(Int) /\ Len(s) = 4 /\ s[1] = a /\ s[2] = b /\ s[3] = c /\ s[4] = d
  OBVIOUS
<1> HIDE DEF s
<1>2. PICK f \in [0..Len(s) -> Int] :
          f[0] = 0 /\ (\A i \in 1..Len(s) : f[i] = f[i - 1] + s[i]) /\ SumOf(s) = f[Len(s)]
  BY <1>1, SumFact
<1>3. f[1] = f[0] + s[1] /\ f[2] = f[1] + s[2] /\ f[3] = f[2] + s[3] /\ f[4] = f[3] + s[4]
  BY <1>1, <1>2
<1>4. SumOf(s) = a + b + c + d
  BY <1>1, <1>2, <1>3
<1> QED BY <1>4 DEF s

\* The sum of the words' sum, from the columns.
LEMMA WordsFact ==
    ASSUME NEW s \in Seq(Byte)
    PROVE  SumOf(WordSum(s)) = Sum4(SumOf(Column(s, 1)), SumOf(Column(s, 2)),
                                    SumOf(Column(s, 3)), SumOf(Column(s, 4)))
<1> DEFINE sum(c) == SumOf(Column(s, c))
           low    == sum(1)
           second == sum(2) + low \div 256
           third  == sum(3) + second \div 256
           high   == sum(4) + third \div 256
<1>1. WordSum(s) = <<low % 256, second % 256, third % 256, high % 256>>
  BY DEF WordSum, Column
<1>2. sum(1) \in Int /\ sum(2) \in Int /\ sum(3) \in Int /\ sum(4) \in Int
  BY ColumnFact
<1> DEFINE b1 == low % 256
           b2 == second % 256
           b3 == third % 256
           b4 == high % 256
<1> HIDE DEF sum
<1>3. Sum4(sum(1), sum(2), sum(3), sum(4)) = b1 + (b2 + (b3 + b4))
  <2>1. Sum1(high) = b4
    BY DEF Sum1
  <2>2. Sum2(third, sum(4)) = b3 + Sum1(high)
    BY DEF Sum2
  <2>3. Sum3(second, sum(3), sum(4)) = b2 + Sum2(third, sum(4))
    BY DEF Sum3
  <2>4. Sum4(sum(1), sum(2), sum(3), sum(4)) = b1 + Sum3(second, sum(3), sum(4))
    BY DEF Sum4
  <2> HIDE DEF b1, b2, b3, b4, low, second, third, high
  <2> QED BY <2>1, <2>2, <2>3, <2>4, Zenon
<1>4. low \in Int /\ second \in Int /\ third \in Int /\ high \in Int
  BY <1>2
<1> HIDE DEF low, second, third, high
<1>5. b1 \in Int /\ b2 \in Int /\ b3 \in Int /\ b4 \in Int
  BY <1>4
<1> HIDE DEF b1, b2, b3, b4
<1>6. SumOf(WordSum(s)) = b1 + b2 + b3 + b4
  <2>1. WordSum(s) = <<b1, b2, b3, b4>>
    BY <1>1 DEF b1, b2, b3, b4
  <2> QED BY <1>5, <2>1, FourSum
<1>7. SumOf(WordSum(s)) = Sum4(sum(1), sum(2), sum(3), sum(4))
  BY <1>3, <1>5, <1>6
<1> QED BY <1>7 DEF sum

\* Two sequences of bytes that differ in byte i alone, by delta.
Differ(s, t, i, delta) ==
    /\ s \in Seq(Byte) /\ t \in Seq(Byte) /\ Len(s) = Len(t)
    /\ i \in 1..Len(s) /\ delta \in Steps /\ t[i] = s[i] + delta
    /\ \A j \in 1..Len(s) : j # i => t[j] = s[j]

\* Only the column of that byte has another sum.
LEMMA ColumnChange ==
    ASSUME NEW s, NEW t, NEW i, NEW delta, Differ(s, t, i, delta),
           Len(s) % 4 = 0, NEW c \in 1..4, NEW w \in Int, i = 4 * (w - 1) + c
    PROVE  /\ SumOf(Column(t, c)) = SumOf(Column(s, c)) + delta
           /\ \A o \in 1..4 : o # c => SumOf(Column(t, o)) = SumOf(Column(s, o))
<1> DEFINE n == Len(s) \div 4
<1>1. /\ s \in Seq(Byte) /\ t \in Seq(Byte) /\ Len(s) = Len(t) /\ Len(s) \in Nat
      /\ i \in 1..Len(s) /\ t[i] = s[i] + delta
      /\ \A j \in 1..Len(s) : j # i => t[j] = s[j]
  BY DEF Differ
<1>2. n \in Nat /\ 4 * n = Len(s)
  BY <1>1
<1>3. Column(s, c) \in Seq(Int) /\ Column(t, c) \in Seq(Int)
      /\ Len(Column(s, c)) = n /\ Len(Column(t, c)) = n
  BY <1>1, ColumnFact
<1>4. \A o \in 1..4, v \in 1..n : Column(s, o)[v] = s[4 * (v - 1) + o]
                                  /\ Column(t, o)[v] = t[4 * (v - 1) + o]
  BY <1>1 DEF Column
<1>10. \A o \in 1..4 : Column(s, o) = [v \in 1..n |-> s[4 * (v - 1) + o]]
                       /\ Column(t, o) = [v \in 1..n |-> t[4 * (v - 1) + o]]
  BY <1>1 DEF Column
<1> HIDE DEF n
<1>5. w \in 1..n
  BY <1>1, <1>2
<1>6. \A o \in 1..4, v \in 1..n : 4 * (v - 1) + o \in 1..Len(s) /\ (4 * (v - 1) + o = i => v = w /\ o = c)
  BY <1>1, <1>2
<1>7. ASSUME NEW o \in 1..4, NEW v \in 1..n, v # w \/ o # c
      PROVE  t[4 * (v - 1) + o] = s[4 * (v - 1) + o]
  BY <1>1, <1>6, <1>7
<1>8. SumOf(Column(t, c)) = SumOf(Column(s, c)) + delta
  <2>1. Column(t, c)[w] = Column(s, c)[w] + delta
    BY <1>1, <1>4, <1>5
  <2>2. \A v \in 1..n : v # w => Column(s, c)[v] = Column(t, c)[v]
    BY <1>4, <1>7
  <2>3. /\ SumOf(Column(s, c)) \in Int
        /\ SumOf(Column(t, c))
               = SumOf(Column(s, c)) + (Column(t, c)[w] - Column(s, c)[w])
    BY <1>3, <1>5, <2>2, SumChange
  <2>4. Column(s, c)[w] \in Int /\ delta \in Int
    <3>1. \A v \in 1..Len(Column(s, c)) : Column(s, c)[v] \in Int
      BY <1>3
    <3> QED BY <1>3, <1>5, <3>1 DEF Differ, Steps
  <2> QED BY <2>1, <2>3, <2>4
<1>9. ASSUME NEW o \in 1..4, o # c PROVE SumOf(Column(t, o)) = SumOf(Column(s, o))
  <2>1. \A v \in 1..n : t[4 * (v - 1) + o] = s[4 * (v - 1) + o]
    BY <1>7, <1>9
  <2>2. Column(t, o) = Column(s, o)
    BY <1>10, <2>1
  <2> QED BY <2>2
<1> QED BY <1>8, <1>9

LEMMA ChangedFact ==
    ASSUME NEW t \in Int, NEW u \in Int, NEW delta \in Steps, NEW n \in Nat, Changed(t, u, delta, n)
    PROVE  /\ \A x \in Int : Changed(x + t, x + u, delta, n)
           /\ \A m \in Nat : m >= n => Changed(t, u, delta, m)
<1>1. PICK k \in Carries(n, delta), j \in Int : u = t + delta + k - 256 * j
  BY DEF Changed
<1>2. k \in Int /\ delta \in Int
  BY DEF Carries, Steps
<1>3. ASSUME NEW x \in Int PROVE Changed(x + t, x + u, delta, n)
  <2>1. x + u = (x + t) + delta + k - 256 * j
    BY <1>1, <1>2
  <2> QED BY <1>1, <2>1 DEF Changed
<1>4. ASSUME NEW m \in Nat, m >= n PROVE Changed(t, u, delta, m)
  <2>1. k \in Carries(m, delta)
    BY <1>4 DEF Carries
  <2> QED BY <1>1, <2>1 DEF Changed
<1> QED BY <1>3, <1>4

\* The same for the other columns of a sum: the fewer columns follow, the fewer carries.
LEMMA ColumnsFact ==
    ASSUME NEW a \in Int, NEW b \in Int, NEW c \in Int, NEW d \in Int, NEW delta \in Steps
    PROVE  /\ Changed(Sum4(a, b, c, d), Sum4(a, b + delta, c, d), delta, 2)
           /\ Changed(Sum4(a, b, c, d), Sum4(a, b, c + delta, d), delta, 1)
           /\ Changed(Sum4(a, b, c, d), Sum4(a, b, c, d + delta), delta, 0)
<1> DEFINE y == b + a \div 256
           z == c + y \div 256
           v == d + z \div 256
           x1 == a % 256
           x2 == y % 256
           x3 == z % 256
<1>1. delta \in Int
  BY DEF Steps
<1>2. /\ (b + delta) + a \div 256 = y + delta /\ y \in Int
      /\ Sum4(a, b, c, d) = x1 + Sum3(y, c, d)
      /\ Sum4(a, b, c + delta, d) = x1 + Sum3(y, c + delta, d)
      /\ Sum4(a, b, c, d + delta) = x1 + Sum3(y, c, d + delta)
      /\ x1 \in Int
  BY <1>1 DEF Sum4
<1>3. Sum4(a, b + delta, c, d) = x1 + Sum3(y + delta, c, d)
  BY <1>2, Zenon DEF Sum4
<1> HIDE DEF y, x1
<1>4. /\ (c + delta) + y \div 256 = z + delta /\ z \in Int
      /\ Sum3(y, c, d) = x2 + Sum2(z, d)
      /\ Sum3(y, c, d + delta) = x2 + Sum2(z, d + delta)
      /\ x2 \in Int
  BY <1>1, <1>2 DEF Sum3
<1>5. Sum3(y, c + delta, d) = x2 + Sum2(z + delta, d)
  BY <1>4, Zenon DEF Sum3
<1> HIDE DEF z, x2
<1>6. /\ (d + delta) + z \div 256 = v + delta /\ v \in Int
      /\ Sum2(z, d) = x3 + Sum1(v) /\ x3 \in Int
  BY <1>1, <1>4 DEF Sum2
<1>7. Sum2(z, d + delta) = x3 + Sum1(v + delta)
  BY <1>6, Zenon DEF Sum2
<1> HIDE DEF v, x3
<1>8. y + delta \in Int /\ z + delta \in Int /\ v + delta \in Int
      /\ c + delta \in Int /\ d + delta \in Int
  BY <1>1, <1>2, <1>4, <1>6
<1>9. /\ Sum3(y, c, d) \in Int /\ Sum3(y + delta, c, d) \in Int
      /\ Sum3(y, c + delta, d) \in Int /\ Sum3(y, c, d + delta) \in Int
      /\ Sum2(z, d) \in Int /\ Sum2(z + delta, d) \in Int /\ Sum2(z, d + delta) \in Int
      /\ Sum1(v) \in Int /\ Sum1(v + delta) \in Int
  BY <1>2, <1>4, <1>6, <1>8, SumsAreNumbers
<1>10. 0 \in Nat /\ 1 \in Nat /\ 2 \in Nat
  OBVIOUS
<1>11. Changed(Sum4(a, b, c, d), Sum4(a, b + delta, c, d), delta, 2)
  <2>1. Changed(Sum3(y, c, d), Sum3(y + delta, c, d), delta, 2)
    BY <1>2, Changed3
  <2>2. Changed(x1 + Sum3(y, c, d), x1 + Sum3(y + delta, c, d), delta, 2)
    BY <1>2, <1>9, <1>10, <2>1, ChangedFact
  <2> QED BY <1>2, <1>3, <2>2, Zenon
<1>12. Changed(Sum4(a, b, c, d), Sum4(a, b, c + delta, d), delta, 1)
  <2>1. Changed(Sum2(z, d), Sum2(z + delta, d), delta, 1)
    BY <1>4, Changed2
  <2>2. Changed(x2 + Sum2(z, d), x2 + Sum2(z + delta, d), delta, 1)
    BY <1>4, <1>9, <1>10, <2>1, ChangedFact
  <2>3. Changed(Sum3(y, c, d), Sum3(y, c + delta, d), delta, 1)
    BY <1>4, <1>5, <2>2, Zenon
  <2>4. Changed(x1 + Sum3(y, c, d), x1 + Sum3(y, c + delta, d), delta, 1)
    BY <1>2, <1>9, <1>10, <2>3, ChangedFact
  <2> QED BY <1>2, <2>4, Zenon
<1>13. Changed(Sum4(a, b, c, d), Sum4(a, b, c, d + delta), delta, 0)
  <2>1. Changed(Sum1(v), Sum1(v + delta), delta, 0)
    BY <1>6, Changed1
  <2>2. Changed(x3 + Sum1(v), x3 + Sum1(v + delta), delta, 0)
    BY <1>6, <1>9, <1>10, <2>1, ChangedFact
  <2>3. Changed(Sum2(z, d), Sum2(z, d + delta), delta, 0)
    BY <1>6, <1>7, <2>2, Zenon
  <2>4. Changed(x2 + Sum2(z, d), x2 + Sum2(z, d + delta), delta, 0)
    BY <1>4, <1>9, <1>10, <2>3, ChangedFact
  <2>5. Changed(Sum3(y, c, d), Sum3(y, c, d + delta), delta, 0)
    BY <1>4, <2>4, Zenon
  <2>6. Changed(x1 + Sum3(y, c, d), x1 + Sum3(y, c, d + delta), delta, 0)
    BY <1>2, <1>9, <1>10, <2>5, ChangedFact
  <2> QED BY <1>2, <2>6, Zenon
<1> QED BY <1>11, <1>12, <1>13

LEMMA WordChange ==
    ASSUME NEW s, NEW t, NEW i, NEW delta, Differ(s, t, i, delta), Len(s) % 4 = 0
    PROVE  /\ Changed(SumOf(WordSum(s)), SumOf(WordSum(t)), delta, 3)
           /\ i = 2 => Changed(SumOf(WordSum(s)), SumOf(WordSum(t)), delta, 2)
<1> DEFINE w == ((i - 1) \div 4) + 1
           from(c) == SumOf(Column(s, c))
           to(c)   == SumOf(Column(t, c))
           old == SumOf(WordSum(s))
           new == SumOf(WordSum(t))
<1>1. s \in Seq(Byte) /\ t \in Seq(Byte) /\ i \in 1..Len(s) /\ delta \in Steps
  BY DEF Differ
<1>2. w \in Int /\ \E c \in 1..4 : i = 4 * (w - 1) + c
  <2>1. i \in Nat /\ i >= 1
    BY <1>1
  <2>2. (i - 1) % 4 \in 0..3 /\ i = 4 * (w - 1) + ((i - 1) % 4) + 1 /\ w \in Int
    BY <2>1
  <2>3. ((i - 1) % 4) + 1 \in 1..4
    BY <2>2
  <2> QED BY <2>2, <2>3
<1>3. \A c \in 1..4 : from(c) \in Int /\ to(c) \in Int
  BY <1>1, ColumnFact
<1>4. ASSUME NEW c \in 1..4, i = 4 * (w - 1) + c
      PROVE  to(c) = from(c) + delta /\ \A o \in 1..4 : o # c => to(o) = from(o)
  <2> HIDE DEF w
  <2> QED BY <1>2, <1>4, ColumnChange
<1>5. old = Sum4(from(1), from(2), from(3), from(4)) /\ new = Sum4(to(1), to(2), to(3), to(4))
  BY <1>1, WordsFact
<1>6. old \in Int /\ new \in Int
  BY <1>1, WordSumFact
<1>7. i = 2 => i = 4 * (w - 1) + 2
  OBVIOUS
<1> HIDE DEF w, from, to, old, new
<1>8. from(1) \in Int /\ from(2) \in Int /\ from(3) \in Int /\ from(4) \in Int
  BY <1>3
<1>9. CASE i = 4 * (w - 1) + 1
  <2>1. to(1) = from(1) + delta /\ to(2) = from(2) /\ to(3) = from(3) /\ to(4) = from(4)
    BY <1>4, <1>9
  <2>2. Changed(old, new, delta, 3)
    BY <1>1, <1>5, <1>8, <2>1, Changed4, Zenon
  <2>3. i # 2
    BY <1>2, <1>7, <1>9
  <2> QED BY <2>2, <2>3 DEF old, new
<1>10. CASE i = 4 * (w - 1) + 2
  <2>1. to(1) = from(1) /\ to(2) = from(2) + delta /\ to(3) = from(3) /\ to(4) = from(4)
    BY <1>4, <1>10
  <2>2. Changed(old, new, delta, 2)
    BY <1>1, <1>5, <1>8, <2>1, ColumnsFact, Zenon
  <2>3. Changed(old, new, delta, 3)
    BY <1>1, <1>6, <2>2, ChangedFact
  <2> QED BY <2>2, <2>3 DEF old, new
<1>11. CASE i = 4 * (w - 1) + 3
  <2>1. to(1) = from(1) /\ to(2) = from(2) /\ to(3) = from(3) + delta /\ to(4) = from(4)
    BY <1>4, <1>11
  <2>2. Changed(old, new, delta, 1)
    BY <1>1, <1>5, <1>8, <2>1, ColumnsFact, Zenon
  <2>3. Changed(old, new, delta, 2) /\ Changed(old, new, delta, 3)
    BY <1>1, <1>6, <2>2, ChangedFact
  <2> QED BY <2>3 DEF old, new
<1>12. CASE i = 4 * (w - 1) + 4
  <2>1. to(1) = from(1) /\ to(2) = from(2) /\ to(3) = from(3) /\ to(4) = from(4) + delta
    BY <1>4, <1>12
  <2>2. Changed(old, new, delta, 0)
    BY <1>1, <1>5, <1>8, <2>1, ColumnsFact, Zenon
  <2>3. Changed(old, new, delta, 2) /\ Changed(old, new, delta, 3)
    BY <1>1, <1>6, <2>2, ChangedFact
  <2> QED BY <2>3 DEF old, new
<1> QED BY <1>2, <1>9, <1>10, <1>11, <1>12

\* The checksum before the key is added and the rest thrown away.
WholeWords(s) == SubSeq(s, 1, Len(s) - (Len(s) % 4))
Rest(s)       == SubSeq(s, Len(s) - (Len(s) % 4) + 1, Len(s))
Unkeyed(s)    == SumOf(WordSum(WholeWords(s))) + SumOf(Rest(s))

LEMMA UnkeyedFact ==
    ASSUME NEW s \in Seq(Byte), NEW stream
    PROVE  /\ WholeWords(s) \in Seq(Byte) /\ Rest(s) \in Seq(Byte)
           /\ Len(WholeWords(s)) = Len(s) - (Len(s) % 4) /\ Len(Rest(s)) = Len(s) % 4
           /\ \A i \in 1..Len(WholeWords(s)) : WholeWords(s)[i] = s[i]
           /\ \A i \in 1..Len(Rest(s)) : Rest(s)[i] = s[Len(WholeWords(s)) + i]
           /\ SumOf(WordSum(WholeWords(s))) \in Int /\ SumOf(Rest(s)) \in Int
           /\ Unkeyed(s) \in Int
           /\ Checksum(stream, s) = (Unkeyed(s) + KeyOf(stream)) % 256
<1> DEFINE whole == Len(s) - (Len(s) % 4)
<1>1. whole \in 0..Len(s) /\ Len(s) \in Nat /\ Len(s) % 4 = Len(s) - whole
  OBVIOUS
<1> HIDE DEF whole
<1>2. WholeWords(s) = SubSeq(s, 1, whole) /\ Rest(s) = SubSeq(s, whole + 1, Len(s))
  BY DEF WholeWords, Rest, whole
<1>3. /\ WholeWords(s) \in Seq(Byte) /\ Len(WholeWords(s)) = whole
      /\ \A i \in 1..whole : WholeWords(s)[i] = s[i]
  BY <1>1, <1>2
<1>4. /\ Rest(s) \in Seq(Byte) /\ Len(Rest(s)) = Len(s) - whole
      /\ \A i \in 1..(Len(s) - whole) : Rest(s)[i] = s[whole + i]
  <2>1. Rest(s) \in Seq(Byte) /\ Len(Rest(s)) = Len(s) - whole
    BY <1>1, <1>2
  <2>2. ASSUME NEW i \in 1..(Len(s) - whole) PROVE Rest(s)[i] = s[whole + i]
    <3>1. SubSeq(s, whole + 1, Len(s))[i] = s[whole + i]
      BY <1>1
    <3> QED BY <1>2, <3>1, Zenon
  <2> QED BY <2>1, <2>2
<1>5. SumOf(WordSum(WholeWords(s))) \in Int /\ SumOf(Rest(s)) \in Int /\ KeyOf(stream) \in Int
  BY <1>3, <1>4, WordSumFact, KeyFact, ByteSeq
<1>6. Checksum(stream, s)
          = (SumOf(WordSum(WholeWords(s))) + KeyOf(stream) + SumOf(Rest(s))) % 256
  BY DEF Checksum, WholeWords, Rest
<1>7. Checksum(stream, s) = (Unkeyed(s) + KeyOf(stream)) % 256
  <2> DEFINE a == SumOf(WordSum(WholeWords(s)))
             b == KeyOf(stream)
             c == SumOf(Rest(s))
  <2> HIDE DEF a, b, c
  <2>1. a \in Int /\ b \in Int /\ c \in Int
    BY <1>5 DEF a, b, c
  <2>2. (a + b + c) % 256 = ((a + c) + b) % 256
    BY <2>1
  <2> QED BY <1>6, <2>2 DEF a, b, c, Unkeyed
<1>8. Unkeyed(s) \in Int
  BY <1>5 DEF Unkeyed
<1> QED BY <1>1, <1>3, <1>4, <1>5, <1>7, <1>8 DEF whole

LEMMA UnkeyedChange ==
    ASSUME NEW s, NEW t, NEW i, NEW delta, Differ(s, t, i, delta)
    PROVE  /\ Changed(Unkeyed(s), Unkeyed(t), delta, 3)
           /\ i = 2 => Changed(Unkeyed(s), Unkeyed(t), delta, 2) \/ Len(s) < 4
<1> DEFINE whole == Len(WholeWords(s))
           w == SumOf(WordSum(WholeWords(s)))
           x == SumOf(WordSum(WholeWords(t)))
           r == SumOf(Rest(s))
           y == SumOf(Rest(t))
<1>1. /\ s \in Seq(Byte) /\ t \in Seq(Byte) /\ Len(s) = Len(t) /\ Len(s) \in Nat
      /\ i \in 1..Len(s) /\ delta \in Steps /\ t[i] = s[i] + delta
      /\ \A j \in 1..Len(s) : j # i => t[j] = s[j]
  BY DEF Differ
<1>2. /\ WholeWords(s) \in Seq(Byte) /\ Rest(s) \in Seq(Byte)
      /\ whole = Len(s) - (Len(s) % 4) /\ Len(Rest(s)) = Len(s) % 4
      /\ \A j \in 1..whole : WholeWords(s)[j] = s[j]
      /\ \A j \in 1..Len(Rest(s)) : Rest(s)[j] = s[whole + j]
      /\ w \in Int /\ r \in Int /\ Unkeyed(s) \in Int
  BY <1>1, UnkeyedFact
<1>3. /\ WholeWords(t) \in Seq(Byte) /\ Rest(t) \in Seq(Byte)
      /\ Len(WholeWords(t)) = Len(t) - (Len(t) % 4) /\ Len(Rest(t)) = Len(t) % 4
      /\ \A j \in 1..Len(WholeWords(t)) : WholeWords(t)[j] = t[j]
      /\ \A j \in 1..Len(Rest(t)) : Rest(t)[j] = t[Len(WholeWords(t)) + j]
      /\ x \in Int /\ y \in Int /\ Unkeyed(t) \in Int
  BY <1>1, UnkeyedFact
<1>4. /\ whole \in Nat /\ whole % 4 = 0 /\ whole <= Len(s) /\ whole + Len(Rest(s)) = Len(s)
      /\ Len(Rest(s)) \in Nat /\ (Len(s) >= 4 => whole >= 4)
  <2>1. \A n \in Nat : LET m == n - (n % 4)
                       IN  m \in Nat /\ m % 4 = 0 /\ m <= n /\ m + (n % 4) = n /\ n % 4 \in Nat
                           /\ (n >= 4 => m >= 4)
    OBVIOUS
  <2> HIDE DEF whole
  <2> QED BY <1>1, <1>2, <2>1
<1>5. Len(WholeWords(t)) = whole /\ Len(Rest(t)) = Len(Rest(s))
  BY <1>1, <1>2, <1>3, Zenon
<1>6. Unkeyed(s) = w + r /\ Unkeyed(t) = x + y
  BY DEF Unkeyed
<1> HIDE DEF whole, w, x, r, y
<1>7. CASE i <= whole
  <2>1. i \in 1..whole
    BY <1>1, <1>4, <1>7
  <2>2. \A j \in 1..whole : j \in 1..Len(s)
    BY <1>1, <1>4
  <2>3. Differ(WholeWords(s), WholeWords(t), i, delta)
    <3>1. WholeWords(t)[i] = WholeWords(s)[i] + delta
      BY <1>1, <1>2, <1>3, <1>5, <2>1
    <3>2. \A j \in 1..whole : j # i => WholeWords(t)[j] = WholeWords(s)[j]
      BY <1>1, <1>2, <1>3, <1>5, <2>2
    <3>3. Len(WholeWords(s)) = whole
      BY DEF whole
    <3> QED BY <1>1, <1>2, <1>3, <1>5, <2>1, <3>1, <3>2, <3>3 DEF Differ
  <2>4. Rest(t) = Rest(s)
    <3>1. \A j \in 1..Len(Rest(s)) : whole + j \in 1..Len(s) /\ whole + j # i
      BY <1>1, <1>4, <2>1
    <3>2. \A j \in 1..Len(Rest(s)) : Rest(t)[j] = Rest(s)[j]
      BY <1>1, <1>2, <1>3, <1>5, <3>1
    <3> QED BY <1>2, <1>3, <1>5, <3>2
  <2>5. Changed(w, x, delta, 3) /\ (i = 2 => Changed(w, x, delta, 2))
    <3>1. Len(WholeWords(s)) % 4 = 0
      BY <1>4 DEF whole
    <3> QED BY <2>3, <3>1, WordChange DEF w, x
  <2>6. y = r
    BY <2>4 DEF y, r
  <2>7. \A n \in Nat : Changed(w, x, delta, n) => Changed(r + w, r + x, delta, n)
    BY <1>1, <1>2, <1>3, ChangedFact
  <2>8. Unkeyed(s) = r + w /\ Unkeyed(t) = r + x
    BY <1>2, <1>3, <1>6, <2>6
  <2>9. 2 \in Nat /\ 3 \in Nat
    OBVIOUS
  <2> QED BY <2>5, <2>7, <2>8, <2>9, Zenon
<1>8. CASE i > whole
  <2> DEFINE k == i - whole
  <2>1. k \in 1..Len(Rest(s)) /\ whole + k = i
    BY <1>1, <1>4, <1>8
  <2> HIDE DEF k
  <2>2. \A j \in 1..Len(Rest(s)) : whole + j \in 1..Len(s) /\ (j # k => whole + j # i)
    BY <1>1, <1>4, <2>1
  <2>3. \A j \in 1..Len(Rest(s)) : j # k => Rest(s)[j] = Rest(t)[j]
    BY <1>1, <1>2, <1>3, <1>5, <2>2
  <2>4. Rest(t)[k] = Rest(s)[k] + delta
    BY <1>1, <1>2, <1>3, <1>5, <2>1
  <2>5. WholeWords(t) = WholeWords(s)
    <3>1. \A j \in 1..whole : j \in 1..Len(s) /\ j # i
      BY <1>1, <1>4, <1>8
    <3>2. \A j \in 1..whole : WholeWords(t)[j] = WholeWords(s)[j]
      BY <1>1, <1>2, <1>3, <1>5, <3>1
    <3>3. /\ Len(WholeWords(t)) = Len(WholeWords(s))
          /\ \A j \in 1..Len(WholeWords(s)) : WholeWords(t)[j] = WholeWords(s)[j]
      BY <1>5, <3>2 DEF whole
    <3>4. WholeWords(s) \in Seq(Byte) /\ WholeWords(t) \in Seq(Byte)
      BY <1>2, <1>3
    <3> QED BY <3>3, <3>4
  <2>6. Rest(s) \in Seq(Int) /\ Rest(t) \in Seq(Int) /\ Rest(s)[k] \in Int
    <3>1. Rest(s) \in Seq(Int) /\ Rest(t) \in Seq(Int)
      BY <1>2, <1>3, ByteSeq
    <3>2. \A j \in 1..Len(Rest(s)) : Rest(s)[j] \in Int
      BY <3>1
    <3> QED BY <2>1, <3>1, <3>2
  <2>7. y = r + (Rest(t)[k] - Rest(s)[k])
    BY <1>5, <2>1, <2>3, <2>6, SumChange DEF r, y
  <2>8. delta \in Int
    BY <1>1 DEF Steps
  <2>9. x = w
    BY <2>5 DEF x, w
  <2>10. Unkeyed(t) = Unkeyed(s) + delta + 0 - 256 * 0
    <3>1. y = r + delta
      BY <1>2, <2>4, <2>6, <2>7, <2>8
    <3> QED BY <1>2, <1>6, <2>8, <2>9, <3>1
  <2>11. Changed(Unkeyed(s), Unkeyed(t), delta, 0)
    <3>1. 0 \in Carries(0, delta) /\ 0 \in Int
      BY DEF Carries
    <3> QED BY <2>10, <3>1 DEF Changed
  <2>12. Changed(Unkeyed(s), Unkeyed(t), delta, 2) /\ Changed(Unkeyed(s), Unkeyed(t), delta, 3)
    <3>1. \A m \in Nat : m >= 0 => Changed(Unkeyed(s), Unkeyed(t), delta, m)
      BY <1>1, <1>2, <1>3, <2>11, ChangedFact
    <3> QED BY <3>1
  <2> QED BY <2>12
<1> QED BY <1>1, <1>4, <1>7, <1>8

\* A change that is no multiple of 256 shows in the checksum.
LEMMA ChangeShows ==
    ASSUME NEW x \in Int, NEW e \in Int, e % 256 # 0, NEW j \in Int
    PROVE  (x + e - 256 * j) % 256 # x % 256
<1> SUFFICES ASSUME (x + e - 256 * j) % 256 = x % 256 PROVE FALSE
  OBVIOUS
<1> DEFINE y == x + e - 256 * j
<1>1. x = 256 * (x \div 256) + (x % 256) /\ x \div 256 \in Int /\ x % 256 \in Int
  OBVIOUS
<1>2. y \in Int
  OBVIOUS
<1>3. y = 256 * (y \div 256) + (y % 256) /\ y \div 256 \in Int
  <2> HIDE DEF y
  <2> QED BY <1>2
<1>4. PICK m \in Int : e = 256 * m
  <2> DEFINE a == x \div 256
             b == y \div 256
  <2>1. a \in Int /\ b \in Int /\ x = 256 * a + (x % 256) /\ y = 256 * b + (x % 256)
    BY <1>1, <1>3
  <2>2. e = y - x + 256 * j
    OBVIOUS
  <2> HIDE DEF a, b, y
  <2>3. e = 256 * ((b - a) + j) /\ (b - a) + j \in Int
    BY <1>1, <1>2, <2>1, <2>2
  <2> QED BY <2>3
<1>5. (256 * m) % 256 = 0
  OBVIOUS
<1> QED BY <1>4, <1>5

LEMMA ChecksumChange ==
    ASSUME NEW s, NEW t, NEW i, NEW delta, Differ(s, t, i, delta), delta # 0, NEW stream
    PROVE  Checksum(stream, t) # Checksum(stream, s)
<1>1. Changed(Unkeyed(s), Unkeyed(t), delta, 3)
  BY UnkeyedChange
<1>2. PICK k \in Carries(3, delta), j \in Int : Unkeyed(t) = Unkeyed(s) + delta + k - 256 * j
  BY <1>1 DEF Changed
<1>3. s \in Seq(Byte) /\ t \in Seq(Byte) /\ delta \in Steps
  BY DEF Differ
<1> DEFINE key == KeyOf(stream)
<1>4. /\ Unkeyed(s) \in Int /\ Unkeyed(t) \in Int /\ key \in Int
      /\ Checksum(stream, s) = (Unkeyed(s) + key) % 256
      /\ Checksum(stream, t) = (Unkeyed(t) + key) % 256
  BY <1>3, UnkeyedFact, KeyFact
<1>5. delta + k \in Int /\ (delta + k) % 256 # 0
  <2>1. delta + k \in (-131)..131 /\ delta + k # 0
    BY <1>3 DEF Carries, Steps
  <2>2. ASSUME NEW e \in (-131)..131, e # 0 PROVE e % 256 # 0
    BY <2>2
  <2> QED BY <2>1, <2>2
<1> HIDE DEF key
<1>6. Unkeyed(t) + key = (Unkeyed(s) + key) + (delta + k) - 256 * j /\ Unkeyed(s) + key \in Int
  <2>1. k \in Int /\ delta \in Int
    BY <1>3 DEF Carries, Steps
  <2> QED BY <1>2, <1>4, <2>1
<1>7. ((Unkeyed(s) + key) + (delta + k) - 256 * j) % 256 # (Unkeyed(s) + key) % 256
  BY <1>5, <1>6, ChangeShows
<1> QED BY <1>4, <1>6, <1>7

-----------------------------------------------------------------------------

\* Turning a bit of a byte over adds its weight or takes it away.
LEMMA FlipFact ==
    ASSUME NEW b \in Byte, NEW w \in BitWeights
    PROVE  /\ Flip(b, w) \in Byte
           /\ Flip(b, w) - b \in {-w, w} /\ Flip(b, w) - b \in Steps /\ Flip(b, w) - b # 0
<1>1. CASE w = 1    BY <1>1 DEF Flip, Byte, Steps
<1>2. CASE w = 2    BY <1>2 DEF Flip, Byte, Steps
<1>3. CASE w = 4    BY <1>3 DEF Flip, Byte, Steps
<1>4. CASE w = 8    BY <1>4 DEF Flip, Byte, Steps
<1>5. CASE w = 16   BY <1>5 DEF Flip, Byte, Steps
<1>6. CASE w = 32   BY <1>6 DEF Flip, Byte, Steps
<1>7. CASE w = 64   BY <1>7 DEF Flip, Byte, Steps
<1>8. CASE w = 128  BY <1>8 DEF Flip, Byte, Steps
<1> QED BY <1>1, <1>2, <1>3, <1>4, <1>5, <1>6, <1>7, <1>8 DEF BitWeights

\* The key that the stream in byte b adds to the checksum.
StreamKey(b) == IF b \div 16 = 3 THEN SumOf(AccessKey) ELSE 0

LEMMA StreamKeyFact ==
    ASSUME NEW b \in Int, b \div 16 \in DOMAIN StreamTypes
    PROVE  KeyOf(StreamTypes[b \div 16]) = StreamKey(b) /\ StreamKey(b) \in Int
<1>1. SumOf(AccessKey) \in Int
  BY KeysAssumption, ByteSeq
<1>2. \A c \in 1..8 : StreamTypes[c] = "RVSec" <=> c = 3
  BY DEF StreamTypes
<1>3. DOMAIN StreamTypes = 1..8
  BY CodeFact
<1> DEFINE c == b \div 16
<1>4. StreamTypes[c] = "RVSec" <=> c = 3
  BY <1>2, <1>3
<1>5. KeyOf(StreamTypes[c]) = IF StreamTypes[c] = "RVSec" THEN SumOf(AccessKey) ELSE 0
  BY DEF KeyOf
<1> HIDE DEF c
<1> QED BY <1>1, <1>4, <1>5 DEF StreamKey, c

\* A bit of the byte that names the destination does not change the key by just what it
\* adds to the checksum itself.
LEMMA StreamBitShows ==
    ASSUME NEW b \in Byte, NEW w \in BitWeights, b \div 16 \in 1..8, Flip(b, w) \div 16 \in 1..8,
           NEW k \in Carries(2, Flip(b, w) - b)
    PROVE  LET e == (Flip(b, w) - b) + k + (StreamKey(Flip(b, w)) - StreamKey(b))
           IN  e \in Int /\ e % 256 # 0
<1> DEFINE key   == SumOf(AccessKey)
           delta == Flip(b, w) - b
           old   == b \div 16
           new   == Flip(b, w) \div 16
<1>1. key \in Int
  BY KeysAssumption, ByteSeq
<1>2. key % 256 \notin (64..66) \union (222..224) \union (238..240)
  BY AccessKeyAssumption
<1>3. /\ delta \in Int /\ delta # 0 /\ delta \in (-128)..128
      /\ k \in (-2)..2 /\ (delta > 0 => k >= 0) /\ (delta < 0 => k <= 0)
  BY FlipFact DEF Carries, Steps
<1>4. \/ (old = 3) <=> (new = 3)
      \/ old = 3 /\ new # 3 /\ delta \in {-16, -32, 64}
      \/ old # 3 /\ new = 3 /\ delta \in {16, 32, -64}
  <2>1. CASE w \in {1, 2, 4, 8}
    <3>1. CASE w = 1  BY <3>1 DEF Flip, Byte
    <3>2. CASE w = 2  BY <3>2 DEF Flip, Byte
    <3>3. CASE w = 4  BY <3>3 DEF Flip, Byte
    <3>4. CASE w = 8  BY <3>4 DEF Flip, Byte
    <3> QED BY <2>1, <3>1, <3>2, <3>3, <3>4
  <2>2. CASE w = 16   BY <2>2 DEF Flip, Byte
  <2>3. CASE w = 32   BY <2>3 DEF Flip, Byte
  <2>4. CASE w = 64   BY <2>4 DEF Flip, Byte
  <2>5. CASE w = 128  BY <2>5 DEF Flip, Byte
  <2> QED BY <2>1, <2>2, <2>3, <2>4, <2>5 DEF BitWeights
<1>5. StreamKey(b) = (IF old = 3 THEN key ELSE 0)
      /\ StreamKey(Flip(b, w)) = (IF new = 3 THEN key ELSE 0)
  BY DEF StreamKey
<1> DEFINE e == delta + k + (StreamKey(Flip(b, w)) - StreamKey(b))
           q == key \div 256
           r == key % 256
<1>6. q \in Int /\ r \in 0..255 /\ key = 256 * q + r
  BY <1>1
<1>7. r \notin (64..66) \union (222..224) \union (238..240)
  BY <1>2
<1> HIDE DEF key, delta, old, new, q, r
<1>8. CASE (old = 3) <=> (new = 3)
  <2>1. e = delta + k
    BY <1>1, <1>3, <1>5, <1>8
  <2>2. delta + k \in (-130)..130 /\ delta + k # 0
    BY <1>3
  <2>3. ASSUME NEW x \in (-130)..130, x # 0 PROVE x \in Int /\ x % 256 # 0
    BY <2>3
  <2> HIDE DEF e
  <2>4. e \in Int /\ e % 256 # 0
    BY <2>1, <2>2, <2>3
  <2> QED BY <2>4 DEF e, delta
<1>9. CASE old = 3 /\ new # 3 /\ delta \in {-16, -32, 64}
  <2>1. e = delta + k - 256 * q - r
    BY <1>1, <1>3, <1>5, <1>6, <1>9
  <2>2. delta + k - r \in (-289)..66 /\ delta + k - r # 0 /\ delta + k - r # -256
    BY <1>3, <1>6, <1>7, <1>9
  <2>3. ASSUME NEW x \in (-289)..66, x # 0, x # -256 PROVE (x + 256 * (-q)) % 256 # 0
    <3>1. (x + 256 * (-q)) % 256 = x % 256
      BY <1>6
    <3>2. x % 256 # 0
      BY <2>3
    <3> QED BY <3>1, <3>2
  <2> DEFINE x == delta + k - r
  <2>4. e = x + 256 * (-q) /\ x \in Int
    BY <1>3, <1>6, <2>1
  <2>5. (x + 256 * (-q)) % 256 # 0
    BY <2>2, <2>3
  <2> HIDE DEF e, x
  <2>6. e \in Int /\ e % 256 # 0
    BY <1>6, <2>4, <2>5
  <2> QED BY <2>6 DEF e, delta
<1>10. CASE old # 3 /\ new = 3 /\ delta \in {16, 32, -64}
  <2>1. e = delta + k + 256 * q + r
    BY <1>1, <1>3, <1>5, <1>6, <1>10
  <2>2. delta + k + r \in (-66)..289 /\ delta + k + r # 0 /\ delta + k + r # 256
    BY <1>3, <1>6, <1>7, <1>10
  <2>3. ASSUME NEW x \in (-66)..289, x # 0, x # 256 PROVE (x + 256 * q) % 256 # 0
    <3>1. (x + 256 * q) % 256 = x % 256
      BY <1>6
    <3>2. x % 256 # 0
      BY <2>3
    <3> QED BY <3>1, <3>2
  <2> DEFINE x == delta + k + r
  <2>4. e = x + 256 * q /\ x \in Int
    BY <1>3, <1>6, <2>1
  <2>5. (x + 256 * q) % 256 # 0
    BY <2>2, <2>3
  <2> HIDE DEF e, x
  <2>6. e \in Int /\ e % 256 # 0
    BY <1>6, <2>4, <2>5
  <2> QED BY <2>6 DEF e, delta
<1> QED BY <1>4, <1>8, <1>9, <1>10

LEMMA NoChecksumNoPacket ==
    ASSUME NEW e, NEW start, NEW size,
           ~Validates(StreamTypes[e[2] \div 16], SubSeq(e, 1, start + size), e[start + size + 1])
    PROVE  ~ReadFrom(e, start, size).ok
<1> DEFINE source  == [port |-> e[1] % 16, stream |-> StreamTypes[e[1] \div 16]]
           dest    == [port |-> e[2] % 16, stream |-> StreamTypes[e[2] \div 16]]
           type    == PacketTypes[(e[3] % 8) + 1]
           payload == SubSeq(e, start + 1, start + size)
           plain   == IF IsSecret(type, source) THEN Crypt(payload) ELSE payload
           data    == SubSeq(e, 1, start + size)
           packed  == /\ IsSecret(type, source)
                      /\ plain # <<>> /\ plain[1] # 0 /\ ~IsCompressed(Tail(plain))
           whole   == [ok |-> TRUE, length |-> start + size + 1, packet |->
                          [source |-> source, destination |-> dest, type |-> type,
                           flags |-> FlagsIn(e[3] \div 8), session |-> e[4],
                           signature |-> SubSeq(e, 5, 8), sequence |-> e[9] + 256 * e[10],
                           connSignature |->
                               IF type \in {"Syn", "Connect"} THEN SubSeq(e, 11, 14) ELSE Absent,
                           fragment |-> IF type = "Data" THEN e[11] ELSE Absent,
                           payload |-> IF IsSecret(type, source) THEN Unmarked(plain) ELSE plain]]
           valid   == Validates(dest.stream, data, e[start + size + 1])
<1>1. ReadFrom(e, start, size) = IF packed THEN Invalid("DecompressFailed")
                                 ELSE IF ~valid THEN Invalid("InvalidChecksum") ELSE whole
  BY Zenon DEF ReadFrom
<1>2. ~valid
  <2>1. dest.stream = StreamTypes[e[2] \div 16]
    OBVIOUS
  <2> HIDE DEF dest
  <2> QED BY <2>1, Zenon
<1> HIDE DEF packed, valid, whole
<1>3. ~Invalid("DecompressFailed").ok /\ ~Invalid("InvalidChecksum").ok
  BY DEF Invalid
<1>4. ReadFrom(e, start, size) \in {Invalid("DecompressFailed"), Invalid("InvalidChecksum")}
  BY <1>1, <1>2, Zenon
<1> QED BY <1>3, <1>4

\* A packet with one bit wrong is refused, whichever bit it is but for those that say
\* where the packet ends: QPacket::from_bytes and validate with calc_checksum_from_data.
THEOREM WrongBitsAreSeen ==
    ASSUME NEW p, WellFormed(p), NEW i \in DOMAIN ToBytes(p) \ EndBytes(p), NEW w \in BitWeights
    PROVE  IsRefused(ToBytes(p), i, w)
<1> DEFINE d     == ToBytes(p)
           e     == [d EXCEPT ![i] = Flip(@, w)]
           end   == StartOf(p) + Len(PayloadBytes(p))
           delta == Flip(d[i], w) - d[i]
<1>1. /\ d \in Seq(Byte) /\ Len(d) = end + 1 /\ DOMAIN d = 1..Len(d)
      /\ d[Len(d)] = Checksum(p.destination.stream, DataBytes(p))
  BY BytesFact
<1>2. SubSeq(d, 1, end) = DataBytes(p) /\ d[2] = VPortByte(p.destination) /\ Len(d) >= 10
  BY PayloadIsFound, FieldsAreFound
<1>3. p.destination.stream = StreamTypes[d[2] \div 16] /\ d[2] \div 16 \in DOMAIN StreamTypes
  <2>1. p.destination \in VPort
    BY DEF WellFormed, FieldsFit
  <2>2. /\ p.destination = [port |-> VPortByte(p.destination) % 16,
                            stream |-> StreamTypes[VPortByte(p.destination) \div 16]]
        /\ VPortByte(p.destination) \div 16 \in DOMAIN StreamTypes
    BY <2>1, VPortFact
  <2> DEFINE v == VPortByte(p.destination)
  <2> HIDE DEF v
  <2>3. p.destination.stream = StreamTypes[v \div 16]
    BY <2>2 DEF v
  <2> QED BY <1>2, <2>2, <2>3, Zenon DEF v
<1>0. end \in Nat
  <2>1. Len(PayloadBytes(p)) \in Nat /\ FixedBytes(p.type) \in Nat
    BY PayloadFact DEF FixedBytes
  <2> QED BY <2>1 DEF StartOf
<1> HIDE DEF d, end
<1>4. i \in 1..Len(d) /\ i \notin EndBytes(p) /\ Len(d) \in Nat
  BY <1>1 DEF d
<1>5. d[i] \in Byte /\ (\A j \in 1..Len(d) : d[j] \in Byte)
  BY <1>1, <1>4
<1>6. /\ Flip(d[i], w) \in Byte /\ delta \in Steps /\ delta # 0
      /\ Flip(d[i], w) = d[i] + delta /\ Flip(d[i], w) # d[i]
  <2>1. Flip(d[i], w) \in Byte /\ delta \in Steps /\ delta # 0
    BY <1>5, FlipFact
  <2>2. d[i] \in Int /\ Flip(d[i], w) \in Int
    BY <1>5, <2>1, BytesAreNumbers
  <2> QED BY <2>1, <2>2
<1>7. /\ e \in Seq(Byte) /\ Len(e) = Len(d) /\ e[i] = Flip(d[i], w)
      /\ \A j \in 1..Len(d) : j # i => e[j] = d[j]
  <2>1. e \in [1..Len(d) -> Byte]
    BY <1>1, <1>4, <1>5, <1>6
  <2>2. e[i] = Flip(d[i], w) /\ \A j \in 1..Len(d) : j # i => e[j] = d[j]
    BY <1>1, <1>4
  <2> HIDE DEF e
  <2> QED BY <1>4, <2>1, <2>2
<1> HIDE DEF e
<1>8. Len(d) = end + 1 /\ end \in Nat /\ end >= 9
  BY <1>0, <1>1, <1>2, <1>4
<1>9. \A j \in EndBytes(p) : e[j] = d[j]
  <2>1. \A j \in EndBytes(p) : j \in 1..Len(d)
    <3>1. FixedBytes(p.type) + 2 <= end \/ "HasSize" \notin p.flags
      <4>1. Len(PayloadBytes(p)) \in Nat
        BY PayloadFact
      <4>2. FixedBytes(p.type) \in Nat
        BY DEF FixedBytes
      <4> QED BY <4>1, <4>2 DEF end, StartOf
    <3>2. FixedBytes(p.type) \in Nat
      BY DEF FixedBytes
    <3> QED BY <1>8, <3>1, <3>2 DEF EndBytes
  <2> QED BY <1>4, <1>7, <2>1
<1>10. FromBytes(e) = IF ~{e[1] \div 16, e[2] \div 16} \subseteq DOMAIN StreamTypes
                      THEN Invalid("InvalidStreamType")
                      ELSE ReadFrom(e, StartOf(p), Len(PayloadBytes(p)))
  BY <1>7, <1>9, EndIsFound DEF d
<1>11. ASSUME e[2] \div 16 \in DOMAIN StreamTypes
       PROVE  ~Validates(StreamTypes[e[2] \div 16], SubSeq(e, 1, end), e[end + 1])
  <2>1. CASE i = Len(d)
    <3>1. \A j \in 1..end : j # i /\ j \in 1..Len(d)
      BY <1>8, <2>1
    <3>2. SubSeq(e, 1, end) = SubSeq(d, 1, end)
      <4>1. /\ SubSeq(e, 1, end) \in Seq(Byte) /\ SubSeq(d, 1, end) \in Seq(Byte)
            /\ Len(SubSeq(e, 1, end)) = end /\ Len(SubSeq(d, 1, end)) = end
            /\ \A j \in 1..end : SubSeq(e, 1, end)[j] = e[j] /\ SubSeq(d, 1, end)[j] = d[j]
        BY <1>1, <1>7, <1>8
      <4>2. \A j \in 1..end : e[j] = d[j]
        BY <1>7, <3>1
      <4> QED BY <4>1, <4>2
    <3>3. e[2] = d[2]
      BY <1>4, <1>7, <1>8, <2>1
    <3>4. e[end + 1] # d[end + 1]
      <4>1. e[i] # d[i] /\ i = end + 1
        BY <1>6, <1>7, <1>8, <2>1, Zenon
      <4> QED BY <4>1
    <3>5. Checksum(StreamTypes[e[2] \div 16], SubSeq(e, 1, end)) = d[end + 1]
      BY <1>1, <1>2, <1>3, <1>8, <3>2, <3>3
    <3> QED BY <3>4, <3>5 DEF Validates
  <2>2. CASE i # Len(d)
    <3>1. i \in 1..end
      BY <1>4, <1>8, <2>2
    <3>2. Differ(SubSeq(d, 1, end), SubSeq(e, 1, end), i, delta)
      <4>1. /\ SubSeq(e, 1, end) \in Seq(Byte) /\ SubSeq(d, 1, end) \in Seq(Byte)
            /\ Len(SubSeq(e, 1, end)) = end /\ Len(SubSeq(d, 1, end)) = end
            /\ \A j \in 1..end : SubSeq(e, 1, end)[j] = e[j] /\ SubSeq(d, 1, end)[j] = d[j]
        BY <1>1, <1>7, <1>8
      <4>2. \A j \in 1..end : j \in 1..Len(d)
        BY <1>8
      <4>3. e[i] = d[i] + delta
        BY <1>6, <1>7, Zenon
      <4>4. SubSeq(e, 1, end)[i] = SubSeq(d, 1, end)[i] + delta
        BY <3>1, <4>1, <4>3
      <4>5. \A j \in 1..end : j # i => SubSeq(e, 1, end)[j] = SubSeq(d, 1, end)[j]
        BY <1>7, <4>1, <4>2
      <4> QED BY <1>6, <3>1, <4>1, <4>4, <4>5 DEF Differ
    <3>3. e[end + 1] = Checksum(StreamTypes[d[2] \div 16], SubSeq(d, 1, end))
      <4>1. e[Len(d)] = d[Len(d)]
        BY <1>4, <1>7, <2>2
      <4>2. d[Len(d)] = Checksum(StreamTypes[d[2] \div 16], SubSeq(d, 1, end))
        BY <1>1, <1>2, <1>3, Zenon
      <4> QED BY <1>8, <4>1, <4>2, Zenon
    <3>4. CASE i # 2
      <4>1. e[2] = d[2]
        BY <1>4, <1>7, <1>8, <3>4
      <4>2. Checksum(StreamTypes[d[2] \div 16], SubSeq(e, 1, end))
                # Checksum(StreamTypes[d[2] \div 16], SubSeq(d, 1, end))
        BY <1>6, <3>2, ChecksumChange
      <4> QED BY <3>3, <4>1, <4>2 DEF Validates
    <3>5. CASE i = 2
      <4> DEFINE s == SubSeq(d, 1, end)
                 t == SubSeq(e, 1, end)
      <4>1. s \in Seq(Byte) /\ t \in Seq(Byte) /\ ~(Len(s) < 4)
        <5>1. Len(s) = end
          BY <1>1, <1>8
        <5> QED BY <1>8, <3>2, <5>1 DEF Differ
      <4>2. Changed(Unkeyed(s), Unkeyed(t), delta, 2)
        BY <3>2, <3>5, <4>1, UnkeyedChange
      <4> HIDE DEF s, t
      <4>3. PICK k \in Carries(2, delta), j \in Int : Unkeyed(t) = Unkeyed(s) + delta + k - 256 * j
        BY <4>2 DEF Changed
      <4>4. e[2] = Flip(d[2], w) /\ d[2] \in Byte /\ delta = Flip(d[2], w) - d[2]
        BY <1>5, <1>7, <3>5
      <4>5. d[2] \in Int /\ e[2] \in Int /\ DOMAIN StreamTypes = 1..8
        BY <1>6, <3>5, <4>4, CodeFact DEF Byte
      <4> DEFINE old == StreamKey(d[2])
                 new == StreamKey(e[2])
                 f   == delta + k + (new - old)
      <4>6. /\ KeyOf(StreamTypes[d[2] \div 16]) = old /\ old \in Int
            /\ KeyOf(StreamTypes[e[2] \div 16]) = new /\ new \in Int
        BY <1>3, <1>11, <4>5, StreamKeyFact
      <4>7. f \in Int /\ f % 256 # 0
        <5>1. d[2] \div 16 \in 1..8 /\ Flip(d[2], w) \div 16 \in 1..8
          BY <1>3, <1>11, <4>4, <4>5
        <5>2. k \in Carries(2, Flip(d[2], w) - d[2])
          BY <4>4
        <5>3. LET g == (Flip(d[2], w) - d[2]) + k + (StreamKey(Flip(d[2], w)) - StreamKey(d[2]))
              IN  g \in Int /\ g % 256 # 0
          BY <4>4, <5>1, <5>2, StreamBitShows
        <5> QED BY <4>4, <5>3
      <4>8. /\ Unkeyed(s) \in Int /\ Unkeyed(t) \in Int
            /\ Checksum(StreamTypes[d[2] \div 16], s) = (Unkeyed(s) + old) % 256
            /\ Checksum(StreamTypes[e[2] \div 16], t) = (Unkeyed(t) + new) % 256
        BY <4>1, <4>6, UnkeyedFact
      <4>9. delta \in Int /\ k \in Int
        BY <1>6 DEF Carries, Steps
      <4> HIDE DEF old, new, delta
      <4>10. Unkeyed(t) + new = (Unkeyed(s) + old) + f - 256 * j /\ Unkeyed(s) + old \in Int
        BY <4>3, <4>6, <4>8, <4>9
      <4>11. ((Unkeyed(s) + old) + f - 256 * j) % 256 # (Unkeyed(s) + old) % 256
        <5> HIDE DEF f
        <5> QED BY <4>7, <4>10, ChangeShows
      <4>12. Checksum(StreamTypes[e[2] \div 16], t) # Checksum(StreamTypes[d[2] \div 16], s)
        BY <4>8, <4>10, <4>11
      <4> QED BY <3>3, <4>12 DEF Validates, s, t
    <3> QED BY <3>4, <3>5
  <2> QED BY <2>1, <2>2
<1>12. ~FromBytes(e).ok
  <2>1. CASE ~{e[1] \div 16, e[2] \div 16} \subseteq DOMAIN StreamTypes
    <3>1. FromBytes(e) = Invalid("InvalidStreamType")
      BY <1>10, <2>1
    <3> QED BY <3>1 DEF Invalid
  <2>2. CASE {e[1] \div 16, e[2] \div 16} \subseteq DOMAIN StreamTypes
    <3>1. FromBytes(e) = ReadFrom(e, StartOf(p), Len(PayloadBytes(p)))
      BY <1>10, <2>2
    <3>2. ~Validates(StreamTypes[e[2] \div 16],
                     SubSeq(e, 1, StartOf(p) + Len(PayloadBytes(p))),
                     e[StartOf(p) + Len(PayloadBytes(p)) + 1])
      BY <1>11, <2>2 DEF end
    <3> QED BY <3>1, <3>2, NoChecksumNoPacket
  <2> QED BY <2>1, <2>2
<1> QED BY <1>12 DEF IsRefused, d, e

-----------------------------------------------------------------------------
\* Numbers.  What is left of a number after each byte, up to place w.

IsQuotients(f, n, w) == f = [i \in 0..w |-> IF i = 0 THEN n ELSE f[i - 1] \div 256]

LEMMA QuotientsExist ==
    ASSUME NEW n \in Nat, NEW w \in Nat
    PROVE  \E f : IsQuotients(f, n, w) /\ f \in [0..w -> Nat]
<1> DEFINE Has(m) == \E f : IsQuotients(f, n, m) /\ f \in [0..m -> Nat]
           Without == {m \in Nat : ~Has(m)}
<1>1. Has(0)
  <2> DEFINE f == [i \in 0..0 |-> n]
  <2>1. f \in [0..0 -> Nat]
    OBVIOUS
  <2>2. f = [i \in 0..0 |-> IF i = 0 THEN n ELSE f[i - 1] \div 256]
    OBVIOUS
  <2> HIDE DEF f
  <2> QED BY <2>1, <2>2 DEF IsQuotients
<1>2. ASSUME NEW m \in Nat \ {0}, Has(m - 1) PROVE Has(m)
  <2>1. PICK f : IsQuotients(f, n, m - 1) /\ f \in [0..(m - 1) -> Nat]
    BY <1>2
  <2> DEFINE g == [i \in 0..m |-> IF i = m THEN f[m - 1] \div 256 ELSE f[i]]
  <2>2. m \in Nat /\ m - 1 \in Nat /\ m - 1 \in 0..(m - 1)
    OBVIOUS
  <2>3. f[m - 1] \div 256 \in Nat /\ g \in [0..m -> Nat]
    <3>1. f[m - 1] \in Nat
      BY <2>1, <2>2
    <3>2. \A x \in Nat : x \div 256 \in Nat
      OBVIOUS
    <3>3. f[m - 1] \div 256 \in Nat
      BY <3>1, <3>2
    <3> QED BY <2>1, <2>2, <3>3
  <2>4. ASSUME NEW i \in 0..m PROVE g[i] = IF i = 0 THEN n ELSE g[i - 1] \div 256
    <3>1. CASE i = m
      <4>1. g[i] = f[m - 1] \div 256 /\ i # 0 /\ m - 1 \in 0..m /\ m - 1 # m
        BY <2>2, <3>1
      <4>2. g[i - 1] = f[m - 1]
        BY <3>1, <4>1
      <4> QED BY <3>1, <4>1, <4>2
    <3>2. CASE i # m
      <4>1. i \in 0..(m - 1) /\ g[i] = f[i]
        BY <2>2, <3>2
      <4>2. f[i] = IF i = 0 THEN n ELSE f[i - 1] \div 256
        BY <2>1, <4>1 DEF IsQuotients
      <4>3. i # 0 => i - 1 \in 0..m /\ i - 1 # m /\ g[i - 1] = f[i - 1]
        BY <2>2, <4>1
      <4> QED BY <4>1, <4>2, <4>3
    <3> QED BY <3>1, <3>2
  <2>5. g = [i \in 0..m |-> IF i = 0 THEN n ELSE g[i - 1] \div 256]
    <3>1. g = [i \in 0..m |-> g[i]]
      OBVIOUS
    <3> HIDE DEF g
    <3> QED BY <2>4, <3>1
  <2> HIDE DEF g
  <2> QED BY <2>3, <2>5 DEF IsQuotients
<1> HIDE DEF Has
<1>3. Without = {}
  <2> SUFFICES ASSUME Without # {} PROVE FALSE
    OBVIOUS
  <2>1. Without \subseteq Nat
    OBVIOUS
  <2>2. PICK m \in Without : \A k \in Without : ~(<<k, m>> \in OpToRel(<, Nat))
    BY <2>1, NatLessThanWellFounded, WFMin
  <2>3. m # 0 /\ m \in Nat \ {0}
    BY <1>1
  <2>4. m - 1 \in Nat /\ m \in Nat /\ m - 1 < m
    BY <2>3
  <2>5. m - 1 \notin Without
    BY <2>2, <2>4 DEF OpToRel
  <2> QED BY <1>2, <2>3, <2>4, <2>5
<1> QED BY <1>3 DEF Has

GoesDown(q, n, w) ==
    /\ q \in [0..w -> Nat] /\ q[0] = n
    /\ \A i \in 1..w : q[i] = q[i - 1] \div 256

LEMMA QuotientsFact ==
    ASSUME NEW n \in Nat, NEW w \in Nat
    PROVE  GoesDown(Quotients(n, w), n, w)
<1> DEFINE f == CHOOSE g : IsQuotients(g, n, w)
<1>1. PICK g : IsQuotients(g, n, w) /\ g \in [0..w -> Nat]
  BY QuotientsExist
<1>2. IsQuotients(f, n, w)
  BY <1>1
<1>3. Quotients(n, w) = f
  BY DEF Quotients, IsQuotients
<1> HIDE DEF f
<1>4. \A i \in 0..w : f[i] = IF i = 0 THEN n ELSE f[i - 1] \div 256
  BY <1>2 DEF IsQuotients
<1>5. f = [i \in 0..w |-> f[i]]
  BY <1>2 DEF IsQuotients
<1>6. \A i \in 0..w : f[i] = g[i]
  <2> DEFINE Other == {i \in 0..w : f[i] # g[i]}
  <2> SUFFICES ASSUME Other # {} PROVE FALSE
    OBVIOUS
  <2>1. Other \subseteq Nat
    OBVIOUS
  <2>2. PICK i \in Other : \A k \in Other : ~(<<k, i>> \in OpToRel(<, Nat))
    BY <2>1, NatLessThanWellFounded, WFMin
  <2>3. \A j \in 0..w : g[j] = IF j = 0 THEN n ELSE g[j - 1] \div 256
    BY <1>1 DEF IsQuotients
  <2>4. i # 0
    BY <1>4, <2>3
  <2>5. i - 1 \in 0..w /\ i \in Nat /\ i - 1 \in Nat /\ i - 1 < i
    BY <2>4
  <2>6. i - 1 \notin Other
    BY <2>2, <2>5 DEF OpToRel
  <2> QED BY <1>4, <2>3, <2>4, <2>5, <2>6
<1>7. f \in [0..w -> Nat]
  BY <1>1, <1>5, <1>6
<1>8. f[0] = n /\ \A i \in 1..w : f[i] = f[i - 1] \div 256
  BY <1>4
<1> QED BY <1>3, <1>7, <1>8 DEF GoesDown

LEMMA NumberBytesFact ==
    ASSUME NEW n \in Nat, NEW w \in Nat
    PROVE  NumberBytes(n, w) \in Seq(Byte) /\ Len(NumberBytes(n, w)) = w
<1> DEFINE q == Quotients(n, w)
<1>1. q \in [0..w -> Nat]
  BY QuotientsFact DEF GoesDown
<1>2. ASSUME NEW i \in 1..w PROVE q[i - 1] % 256 \in Byte
  <2>1. q[i - 1] \in Nat
    BY <1>1
  <2> HIDE DEF q
  <2> QED BY <2>1 DEF Byte
<1>3. NumberBytes(n, w) = [i \in 1..w |-> q[i - 1] % 256]
  BY DEF NumberBytes
<1> HIDE DEF q
<1> QED BY <1>2, <1>3

\* What the bytes of a number are worth from place i on is what is left of it there.
LEMMA NumberFact ==
    ASSUME NEW n, NEW w \in Nat \ {0}, Fits(n, w)
    PROVE  NumberIn(NumberBytes(n, w), FALSE) = n
<1> DEFINE q == Quotients(n, w)
           b == NumberBytes(n, w)
           IsValue(v) == v = [i \in 1..w |->
                                 IF i < w THEN b[i] + 256 * v[i + 1]
                                 ELSE IF FALSE /\ b[i] > 127 THEN b[i] - 256 ELSE b[i]]
           v0 == [i \in 1..w |-> q[i - 1]]
           v  == CHOOSE x : IsValue(x)
<1>1. n \in Nat /\ w \in Nat /\ q[w] = 0
  BY DEF Fits
<1>2. /\ q \in [0..w -> Nat] /\ q[0] = n
      /\ \A i \in 1..w : q[i] = q[i - 1] \div 256
  <2>1. GoesDown(q, n, w)
    BY <1>1, QuotientsFact
  <2> HIDE DEF q
  <2> QED BY <2>1 DEF GoesDown
<1>3. Len(b) = w /\ \A i \in 1..w : b[i] = q[i - 1] % 256
  <2>1. b = [i \in 1..w |-> q[i - 1] % 256]
    BY DEF NumberBytes
  <2>2. Len(b) = w
    BY <1>1, NumberBytesFact
  <2> QED BY <2>1, <2>2
<1> HIDE DEF q, b
<1>4. ASSUME NEW i \in 1..w
      PROVE  q[i - 1] = IF i < w THEN b[i] + 256 * q[i] ELSE b[i]
  <2>1. q[i - 1] \in Nat /\ q[i] = q[i - 1] \div 256 /\ b[i] = q[i - 1] % 256
    BY <1>2, <1>3
  <2>2. \A x \in Nat : x = (x % 256) + 256 * (x \div 256)
    OBVIOUS
  <2>3. q[i - 1] = b[i] + 256 * q[i]
    BY <2>1, <2>2
  <2>4. i = w \/ i < w
    OBVIOUS
  <2>5. b[i] \in Nat
    BY <2>1
  <2> QED BY <1>1, <2>3, <2>4, <2>5
<1>5. IsValue(v0)
  <2>1. ASSUME NEW i \in 1..w, i < w PROVE i + 1 \in 1..w /\ v0[i + 1] = q[i]
    <3>1. i + 1 \in 1..w /\ (i + 1) - 1 = i
      BY <2>1
    <3> QED BY <3>1
  <2>2. \A i \in 1..w : v0[i] = q[i - 1]
    OBVIOUS
  <2>3. v0 = [i \in 1..w |-> v0[i]]
    OBVIOUS
  <2> HIDE DEF v0
  <2>4. \A i \in 1..w : v0[i] = IF i < w THEN b[i] + 256 * v0[i + 1]
                                ELSE IF FALSE /\ b[i] > 127 THEN b[i] - 256 ELSE b[i]
    BY <1>4, <2>1, <2>2
  <2> QED BY <2>3, <2>4
<1>6. IsValue(v)
  BY <1>5
<1>7. NumberIn(b, FALSE) = v[1]
  BY <1>3 DEF NumberIn
<1> HIDE DEF v
<1>8. \A i \in 1..w : v[i] = IF i < w THEN b[i] + 256 * v[i + 1] ELSE b[i]
  BY <1>6
<1>9. \A j \in 0..(w - 1) : v[w - j] = q[w - j - 1]
  <2> DEFINE Other == {j \in 0..(w - 1) : v[w - j] # q[w - j - 1]}
  <2> SUFFICES ASSUME Other # {} PROVE FALSE
    OBVIOUS
  <2>1. Other \subseteq Nat
    OBVIOUS
  <2>2. PICK j \in Other : \A k \in Other : ~(<<k, j>> \in OpToRel(<, Nat))
    BY <2>1, NatLessThanWellFounded, WFMin
  <2>3. j \in 0..(w - 1) /\ v[w - j] # q[w - j - 1] /\ w - j \in 1..w
    OBVIOUS
  <2>4. j # 0
    BY <1>4, <1>8, <2>3
  <2>5. j - 1 \in 0..(w - 1) /\ j - 1 \in Nat /\ j \in Nat /\ j - 1 < j /\ w - j < w
        /\ w - (j - 1) = (w - j) + 1 /\ w - (j - 1) - 1 = w - j
    BY <2>3, <2>4
  <2>6. j - 1 \notin Other
    BY <2>2, <2>5 DEF OpToRel
  <2>7. v[(w - j) + 1] = q[w - j]
    BY <2>5, <2>6
  <2> QED BY <1>4, <1>8, <2>3, <2>5, <2>7
<1>10. w - 1 \in 0..(w - 1) /\ w - (w - 1) = 1 /\ w - (w - 1) - 1 = 0
  OBVIOUS
<1> QED BY <1>2, <1>7, <1>9, <1>10 DEF b

LEMMA WordFits ==
    ASSUME NEW n \in Word
    PROVE  Fits(n, 4)
<1> DEFINE q == Quotients(n, 4)
<1>1. n \in Nat /\ n \div 256 \in 0..255
  <2>1. n \div 256 \in 0..255 /\ n % 256 \in 0..255 /\ n = (n % 256) + 256 * (n \div 256)
    BY DEF Word
  <2>2. n \in Nat
    BY DEF Word
  <2> QED BY <2>1, <2>2
<1>2. q[0] = n /\ q[1] = q[0] \div 256 /\ q[2] = q[1] \div 256 /\ q[3] = q[2] \div 256 /\ q[4] = q[3] \div 256
  <2>1. 4 \in Nat
    OBVIOUS
  <2>2. GoesDown(q, n, 4)
    BY <1>1, <2>1, QuotientsFact
  <2> HIDE DEF q
  <2> QED BY <2>2 DEF GoesDown
<1> HIDE DEF q
<1>3. \A x \in 0..255 : x \div 256 = 0
  OBVIOUS
<1>4. q[2] = 0 /\ q[3] = 0 /\ q[4] = 0
  BY <1>1, <1>2, <1>3
<1> QED BY <1>1, <1>4 DEF Fits, q

-----------------------------------------------------------------------------
\* Fields, one after the other.

LEMMA SplitFact ==
    ASSUME NEW s \in Seq(Byte), NEW t \in Seq(Byte)
    PROVE  /\ ~(Len(s \o t) < Len(s))
           /\ SubSeq(s \o t, 1, Len(s)) = s /\ SubSeq(s \o t, Len(s) + 1, Len(s \o t)) = t
<1> DEFINE d == s \o t
<1>1. /\ d \in Seq(Byte) /\ Len(d) = Len(s) + Len(t)
      /\ Starts(s, d)
      /\ \A i \in 1..Len(t) : d[Len(s) + i] = t[i]
  BY ConcatFact
<1>2. Len(s) \in Nat /\ Len(t) \in Nat
  OBVIOUS
<1> HIDE DEF d
<1>3. SubSeq(d, 1, Len(s)) = s
  <2> DEFINE u == SubSeq(d, 1, Len(s))
  <2>1. u \in Seq(Byte) /\ Len(u) = Len(s) /\ \A i \in 1..Len(s) : u[i] = d[i]
    BY <1>1, <1>2
  <2>2. \A i \in 1..Len(s) : d[i] = s[i]
    BY <1>1 DEF Starts
  <2> HIDE DEF u
  <2>3. \A i \in 1..Len(s) : u[i] = s[i]
    BY <2>1, <2>2
  <2>4. u = s
    BY <2>1, <2>3
  <2> QED BY <2>4 DEF u
<1>4. SubSeq(d, Len(s) + 1, Len(d)) = t
  <2> DEFINE u == SubSeq(d, Len(s) + 1, Len(d))
  <2>1. u \in Seq(Byte) /\ Len(u) = Len(t) /\ \A i \in 1..Len(t) : u[i] = d[Len(s) + i]
    BY <1>1, <1>2
  <2> HIDE DEF u
  <2>2. \A i \in 1..Len(t) : u[i] = t[i]
    BY <1>1, <2>1
  <2>3. u = t
    BY <2>1, <2>2
  <2> QED BY <2>3 DEF u
<1>5. ~(Len(d) < Len(s))
  BY <1>1, <1>2
<1> QED BY <1>3, <1>4, <1>5 DEF d

LEMMA JoinFact ==
    ASSUME NEW s \in Seq(Byte), NEW t \in Seq(Byte), NEW u \in Seq(Byte)
    PROVE  (s \o t) \o u = s \o (t \o u)
OBVIOUS

LEMMA ReadBytesFact ==
    ASSUME NEW s \in Seq(Byte), NEW t \in Seq(Byte)
    PROVE  ReadBytes(Len(s), s \o t) = Got(s, t)
BY SplitFact, Zenon DEF ReadBytes

LEMMA WordRange == \E k \in Int : Word = 0..k
<1> DEFINE top == 65535
<1>1. top \in Int
  OBVIOUS
<1>2. Word = 0..top
  BY DEF Word
<1> HIDE DEF top
<1> QED BY <1>1, <1>2

LEMMA WordDown ==
    ASSUME NEW n \in Word, NEW k \in Nat, k <= n
    PROVE  k \in Word
<1>1. PICK top \in Int : Word = 0..top
  BY WordRange
<1> QED BY <1>1

LEMMA SmallWords == \A n \in Byte : n \in Word
BY DEF Byte, Word

LEMMA GotFact ==
    ASSUME NEW v, NEW s
    PROVE  Got(v, s).ok /\ Got(v, s).value = v /\ Got(v, s).rest = s
BY DEF Got

LEMMA ReadNumberFact ==
    ASSUME NEW w \in Nat \ {0}, NEW n, Fits(n, w), NEW t \in Seq(Byte)
    PROVE  ReadNumber(w, FALSE, NumberBytes(n, w) \o t) = Got(n, t)
<1> DEFINE b == NumberBytes(n, w)
<1>1. b \in Seq(Byte) /\ Len(b) = w
  BY NumberBytesFact DEF Fits
<1>2. NumberIn(b, FALSE) = n
  BY NumberFact
<1>3. ReadBytes(w, b \o t) = Got(b, t)
  BY <1>1, ReadBytesFact
<1> HIDE DEF b
<1>4. ReadNumber(w, FALSE, b \o t) = Got(n, t)
  <2>1. Got(b, t).ok /\ Got(b, t).value = b /\ Got(b, t).rest = t
    BY GotFact
  <2> QED BY <1>2, <1>3, <2>1, Zenon DEF ReadNumber, Then
<1> QED BY <1>4 DEF b

LEMMA BufferFact ==
    ASSUME NEW b \in Seq(Byte), Len(b) \in Word, NEW t \in Seq(Byte)
    PROVE  /\ WriteBuffer(b) \in Seq(Byte) /\ Len(WriteBuffer(b)) = 4 + Len(b)
           /\ Len(b) <= MaxCollectionItems => ReadBuffer(WriteBuffer(b) \o t) = Got(b, t)
<1> DEFINE n == NumberBytes(Len(b), 4)
<1>1. Fits(Len(b), 4) /\ 4 \in Nat \ {0} /\ Len(b) \in Nat
  BY WordFits
<1>2. n \in Seq(Byte) /\ Len(n) = 4
  BY <1>1, NumberBytesFact
<1>3. n \o b \in Seq(Byte) /\ Len(n \o b) = 4 + Len(b) /\ b \o t \in Seq(Byte)
  <2> HIDE DEF n
  <2>1. n \o b \in Seq(Byte) /\ Len(n \o b) = Len(n) + Len(b)
    BY <1>2, ConcatFact
  <2>2. b \o t \in Seq(Byte)
    BY ConcatFact
  <2> QED BY <1>2, <2>1, <2>2
<1>4. WriteBuffer(b) = n \o b
  BY DEF WriteBuffer
<1>5. (n \o b) \o t = n \o (b \o t)
  BY <1>2, JoinFact
<1>6. ReadNumber(4, FALSE, n \o (b \o t)) = Got(Len(b), b \o t)
  BY <1>1, <1>3, ReadNumberFact
<1>7. ReadBytes(Len(b), b \o t) = Got(b, t)
  BY ReadBytesFact
<1> HIDE DEF n
<1>8. ASSUME Len(b) <= MaxCollectionItems
      PROVE  ReadBuffer(WriteBuffer(b) \o t) = Got(b, t)
  <2>1. ~(Len(b) > MaxCollectionItems)
    BY <1>1, <1>8, LimitsAssumption
  <2>2. ReadNumber(4, FALSE, WriteBuffer(b) \o t) = Got(Len(b), b \o t)
    BY <1>4, <1>5, <1>6, Zenon
  <2> DEFINE c == Got(Len(b), b \o t)
  <2>3. c.ok /\ c.value = Len(b) /\ c.rest = b \o t
    BY GotFact
  <2> HIDE DEF c
  <2> QED BY <1>7, <2>1, <2>2, <2>3, Zenon DEF ReadBuffer, Then, c
<1> QED BY <1>3, <1>4, <1>8

-----------------------------------------------------------------------------
\* Tickets.

LEMMA CryptKeyFact ==
    ASSUME CipherIsBytes, NEW key \in Seq(Byte), NEW s \in Seq(Byte)
    PROVE  /\ CryptKey(key, s) \in Seq(Byte) /\ Len(CryptKey(key, s)) = Len(s)
           /\ CryptKey(key, CryptKey(key, s)) = s
<1>1. ASSUME NEW i \in DOMAIN s
      PROVE  /\ Xor(Rc4(key, i), s[i]) \in Byte
             /\ Xor(Rc4(key, i), Xor(Rc4(key, i), s[i])) = s[i]
  <2>1. i \in Nat /\ s[i] \in Byte
    OBVIOUS
  <2>2. Rc4(key, i) \in Byte
    BY <2>1 DEF CipherIsBytes
  <2> QED BY <2>1, <2>2, XorFact
<1>2. DOMAIN s = 1..Len(s) /\ Len(s) \in Nat
  OBVIOUS
<1>3. CryptKey(key, s) \in [1..Len(s) -> Byte]
  BY <1>1, <1>2 DEF CryptKey
<1>4. CryptKey(key, s) \in Seq(Byte) /\ Len(CryptKey(key, s)) = Len(s)
  BY <1>2, <1>3
<1>5. DOMAIN CryptKey(key, s) = DOMAIN s
  BY DEF CryptKey
<1>6. CryptKey(key, CryptKey(key, s)) = [i \in DOMAIN s |-> s[i]]
  BY <1>1, <1>5 DEF CryptKey
<1> QED BY <1>4, <1>6

LEMMA SumMod ==
    ASSUME NEW s \in Seq(Byte)
    PROVE  SumOf(s) % 256 \in Byte
<1>1. SumOf(s) \in Int
  BY ByteSeq
<1>2. \A x \in Int : x % 256 \in 0..255
  OBVIOUS
<1> QED BY <1>1, <1>2 DEF Byte

LEMMA OneByte ==
    ASSUME NEW b \in Byte, NEW s \in Seq(Byte)
    PROVE  /\ <<b>> \o s \in Seq(Byte) /\ Len(<<b>> \o s) = 1 + Len(s)
           /\ (<<b>> \o s) # <<>> /\ (<<b>> \o s)[1] = b /\ Tail(<<b>> \o s) = s
<1> DEFINE d == <<b>> \o s
<1>1. d \in Seq(Byte) /\ Len(d) = 1 + Len(s) /\ d[1] = b
  OBVIOUS
<1>2. d # <<>>
  BY <1>1
<1>3. Tail(d) = s
  OBVIOUS
<1> QED BY <1>1, <1>2, <1>3

\* What was boxed is found in the box.
LEMMA BoxFact ==
    ASSUME CipherIsBytes, NEW nonce \in Seq(Byte), NEW s \in Seq(Byte)
    PROVE  /\ Box(nonce, s) \in Seq(Byte) /\ Len(Box(nonce, s)) = 1 + Len(s)
           /\ Unbox(nonce, Box(nonce, s)) = Got(s, <<>>)
<1> DEFINE key == TicketKey \o nonce
           c   == CryptKey(key, s)
           tag == Tag(nonce, s)
           box == <<tag>> \o c
<1>1. key \in Seq(Byte)
  BY TicketsAssumption, ConcatFact
<1>2. c \in Seq(Byte) /\ Len(c) = Len(s) /\ CryptKey(key, c) = s
  BY <1>1, CryptKeyFact
<1>3. tag \in Byte
  <2>1. key \o s \in Seq(Byte)
    BY <1>1, ConcatFact
  <2>2. tag = SumOf(key \o s) % 256
    BY DEF Tag
  <2> HIDE DEF key, tag
  <2> QED BY <2>1, <2>2, SumMod
<1>4. Box(nonce, s) = box
  BY DEF Box
<1> HIDE DEF tag, c, key
<1>5. box \in Seq(Byte) /\ Len(box) = 1 + Len(c) /\ box # <<>> /\ box[1] = tag /\ Tail(box) = c
  BY <1>2, <1>3, OneByte
<1> HIDE DEF box
<1>6. Unbox(nonce, box) = Got(s, <<>>)
  <2>1. CryptKey(TicketKey \o nonce, Tail(box)) = s
    BY <1>2, <1>5 DEF key
  <2> QED BY <1>5, <2>1, Zenon DEF Unbox, tag
<1> QED BY <1>2, <1>4, <1>5, <1>6

LEMMA InternalFact ==
    ASSUME NEW id, Fits(id, 4), NEW session \in Seq(Byte), Len(session) = SessionKeySize
    PROVE  /\ InternalBytes(id, session) \in Seq(Byte)
           /\ Len(InternalBytes(id, session)) = 12 + SessionKeySize
           /\ ReadInternal(InternalBytes(id, session)) =
                  Got([user |-> id, session |-> session], <<>>)
<1> DEFINE n == NumberBytes(id, 4)
           f == Forever
<1>1. n \in Seq(Byte) /\ Len(n) = 4
  BY NumberBytesFact DEF Fits
<1>2. f \in Seq(Byte) /\ Len(f) = 8
  BY DEF Forever, Byte
<1>3. /\ f \o session \in Seq(Byte) /\ Len(f \o session) = 8 + SessionKeySize
      /\ n \o (f \o session) \in Seq(Byte) /\ Len(n \o (f \o session)) = 4 + (8 + SessionKeySize)
  <2> HIDE DEF n, f
  <2>1. f \o session \in Seq(Byte) /\ Len(f \o session) = 8 + SessionKeySize
    BY <1>2, ConcatFact
  <2>2. n \o (f \o session) \in Seq(Byte) /\ Len(n \o (f \o session)) = Len(n) + Len(f \o session)
    BY <1>1, <2>1, ConcatFact
  <2> QED BY <1>1, <2>1, <2>2
<1> DEFINE d == n \o (f \o session)
<1>4. ReadNumber(4, FALSE, d) = Got(id, f \o session)
  <2>1. 4 \in Nat \ {0}
    OBVIOUS
  <2> QED BY <1>3, <2>1, ReadNumberFact
<1> HIDE DEF n, f
<1>5. InternalBytes(id, session) = d
  <2>1. InternalBytes(id, session) = (n \o f) \o session
    BY DEF InternalBytes, n, f
  <2>2. (n \o f) \o session = d
    BY <1>1, <1>2, JoinFact
  <2> QED BY <2>1, <2>2
<1>6. ReadBytes(8, f \o session) = Got(f, session)
  BY <1>2, ReadBytesFact
<1>7. ReadBytes(SessionKeySize, session) = Got(session, <<>>)
  <2>1. <<>> \in Seq(Byte) /\ session \o <<>> = session
    OBVIOUS
  <2>2. ReadBytes(Len(session), session \o <<>>) = Got(session, <<>>)
    BY <2>1, ReadBytesFact
  <2> QED BY <2>1, <2>2
<1> HIDE DEF d
<1>8. ReadInternal(d) = Got([user |-> id, session |-> session], <<>>)
  <2> DEFINE a == Got(id, f \o session)
             b == Got(f, session)
             c == Got(session, <<>>)
  <2>1. a.ok /\ a.value = id /\ a.rest = f \o session
    BY GotFact
  <2>2. b.ok /\ b.value = f /\ b.rest = session
    BY GotFact
  <2>3. c.ok /\ c.value = session /\ c.rest = <<>>
    BY GotFact
  <2>4. ReadNumber(4, FALSE, d) = a
    BY <1>4
  <2>5. ReadBytes(8, a.rest) = b
    BY <1>6, <2>1
  <2>6. ReadBytes(SessionKeySize, b.rest) = c
    BY <1>7, <2>2
  <2> HIDE DEF a, b, c
  <2> QED BY <2>1, <2>2, <2>3, <2>4, <2>5, <2>6, Zenon DEF ReadInternal, Then
<1>9. SessionKeySize \in Nat /\ 4 + (8 + SessionKeySize) = 12 + SessionKeySize
  BY TicketsAssumption
<1> QED BY <1>3, <1>5, <1>8, <1>9 DEF d

\* What was sealed is found when the seal is opened.
LEMMA SealFact ==
    ASSUME CipherIsBytes, NEW t, NEW nonce, IsTicket(t, nonce)
    PROVE  /\ Seal(t, nonce) \in Seq(Byte) /\ Len(Seal(t, nonce)) = NonceSize + SessionKeySize + 13
           /\ Open(Seal(t, nonce)) = Got([user |-> t.user, session |-> t.session], <<>>)
<1> DEFINE inner == InternalBytes(t.user, t.session)
           box   == Box(nonce, inner)
           data  == nonce \o box
<1>1. /\ Fits(t.user, 4) /\ t.session \in Seq(Byte) /\ Len(t.session) = SessionKeySize
      /\ nonce \in Seq(Byte) /\ Len(nonce) = NonceSize
  BY DEF IsTicket
<1>2. /\ inner \in Seq(Byte) /\ Len(inner) = 12 + SessionKeySize
      /\ ReadInternal(inner) = Got([user |-> t.user, session |-> t.session], <<>>)
  BY <1>1, InternalFact
<1> HIDE DEF inner
<1>3. /\ box \in Seq(Byte) /\ Len(box) = 1 + Len(inner)
      /\ Unbox(nonce, box) = Got(inner, <<>>)
  BY <1>1, <1>2, BoxFact
<1>4. Seal(t, nonce) = data
  BY DEF Seal, inner
<1> HIDE DEF box
<1>5. data \in Seq(Byte) /\ Len(data) = NonceSize + Len(box)
  BY <1>1, <1>3, ConcatFact
<1>6. ~(Len(data) < NonceSize) /\ SubSeq(data, 1, NonceSize) = nonce
      /\ SubSeq(data, NonceSize + 1, Len(data)) = box
  BY <1>1, <1>3, SplitFact
<1> HIDE DEF data
<1>7. Open(data) = Got([user |-> t.user, session |-> t.session], <<>>)
  <2> DEFINE b == Got(inner, <<>>)
  <2>1. b.ok /\ b.value = inner
    BY GotFact
  <2>2. Unbox(SubSeq(data, 1, NonceSize), SubSeq(data, NonceSize + 1, Len(data))) = b
    BY <1>3, <1>6
  <2> HIDE DEF b
  <2> QED BY <1>2, <1>6, <2>1, <2>2, Zenon DEF Open, Then
<1>8. NonceSize + (1 + (12 + SessionKeySize)) = NonceSize + SessionKeySize + 13
  BY TicketsAssumption
<1> QED BY <1>2, <1>3, <1>4, <1>5, <1>7, <1>8

LEMMA KeyIsBytes ==
    ASSUME NEW pid \in Nat, NEW password \in Seq(Seq(Byte))
    PROVE  DeriveKey(pid, password) \in Seq(Byte)
<1> DEFINE word == IF password = <<>> THEN DummyPassword ELSE password[1]
<1>1. pid % 1024 \in Nat
  OBVIOUS
<1>2. NumberBytes(pid % 1024, 2) \in Seq(Byte)
  BY <1>1, NumberBytesFact
<1>3. word \in Seq(Byte)
  <2>1. CASE password = <<>>
    BY <2>1, TicketsAssumption
  <2>2. CASE password # <<>>
    <3>1. password[1] \in Seq(Byte)
      BY <2>2
    <3> QED BY <2>2, <3>1
  <2> QED BY <2>1, <2>2
<1> HIDE DEF word
<1>4. NumberBytes(pid % 1024, 2) \o word \in Seq(Byte)
  BY <1>2, <1>3, ConcatFact
<1> QED BY <1>4 DEF DeriveKey, word

\* What the game gets out of a ticket.
HeldOf(t, nonce) == [session |-> t.session, sealed |-> Seal(t, nonce)]

\* The game finds in a ticket its session key and the sealed part.
LEMMA TicketFact ==
    ASSUME CipherIsBytes, NonceSize + SessionKeySize + 13 <= MaxCollectionItems,
           NonceSize + SessionKeySize + 13 \in Word,
           NEW t, NEW nonce, IsTicket(t, nonce),
           NEW pid \in Nat, NEW password \in Seq(Seq(Byte))
    PROVE  GameReadsTicket(AsBytes(t, nonce, pid, password), pid, password) =
               Got(HeldOf(t, nonce), <<>>)
<1> DEFINE key    == DeriveKey(pid, password)
           sealed == Seal(t, nonce)
           server == NumberBytes(t.server, 4)
           buffer == WriteBuffer(sealed)
           plain  == t.session \o (server \o buffer)
           bytes  == CryptKey(key, plain)
           mac    == SumOf(bytes) % 256
<1>1. /\ t.session \in Seq(Byte) /\ Len(t.session) = SessionKeySize /\ Fits(t.server, 4)
  BY DEF IsTicket
<1>2. sealed \in Seq(Byte) /\ Len(sealed) \in Word /\ Len(sealed) <= MaxCollectionItems
  BY SealFact
<1>3. key \in Seq(Byte)
  BY KeyIsBytes
<1>4. server \in Seq(Byte)
  BY <1>1, NumberBytesFact DEF Fits
<1> HIDE DEF sealed
<1>5. /\ buffer \in Seq(Byte)
      /\ ReadBuffer(buffer) = Got(sealed, <<>>)
  <2>1. <<>> \in Seq(Byte)
    OBVIOUS
  <2>2. buffer \in Seq(Byte) /\ ReadBuffer(buffer \o <<>>) = Got(sealed, <<>>)
    BY <1>2, <2>1, BufferFact
  <2> QED BY <2>2
<1>6. ReadNumber(4, FALSE, server \o buffer) = Got(t.server, buffer)
  <2>1. 4 \in Nat \ {0}
    OBVIOUS
  <2> QED BY <1>1, <1>5, <2>1, ReadNumberFact
<1>7. (t.session \o server) \o buffer = plain
  BY <1>1, <1>4, <1>5, JoinFact
<1>8. AsBytes(t, nonce, pid, password) = bytes \o <<mac>>
  BY <1>7 DEF AsBytes, Mac, sealed
<1> HIDE DEF key, server, buffer
<1>9. server \o buffer \in Seq(Byte)
  BY <1>4, <1>5, ConcatFact
<1>10. plain \in Seq(Byte)
  BY <1>1, <1>9, ConcatFact
<1>11. ReadBytes(SessionKeySize, plain) = Got(t.session, server \o buffer)
  BY <1>1, <1>9, ReadBytesFact
<1> HIDE DEF plain
<1>12. bytes \in Seq(Byte) /\ CryptKey(key, bytes) = plain
  BY <1>3, <1>10, CryptKeyFact
<1>13. mac \in Byte
  BY <1>12, SumMod
<1> HIDE DEF bytes, mac
<1>14. Front(bytes \o <<mac>>) = bytes
  BY <1>12, <1>13 DEF Front
<1> DEFINE d == bytes \o <<mac>>
<1> HIDE DEF d
<1>15. CryptKey(DeriveKey(pid, password), Front(d)) = plain
  BY <1>12, <1>14 DEF key, d
<1>16. GameReadsTicket(d, pid, password) = Got([session |-> t.session, sealed |-> sealed], <<>>)
  <2> DEFINE a == Got(t.session, server \o buffer)
             b == Got(t.server, buffer)
             c == Got(sealed, <<>>)
  <2>1. a.ok /\ a.value = t.session /\ a.rest = server \o buffer
    BY GotFact
  <2>2. b.ok /\ b.rest = buffer
    BY GotFact
  <2>3. c.ok /\ c.value = sealed /\ c.rest = <<>>
    BY GotFact
  <2>4. ReadBytes(SessionKeySize, CryptKey(DeriveKey(pid, password), Front(d))) = a
    BY <1>11, <1>15
  <2>5. ReadNumber(4, FALSE, a.rest) = b
    BY <1>6, <2>1
  <2>6. ReadBuffer(b.rest) = c
    BY <1>5, <2>2
  <2> HIDE DEF a, b, c
  <2> QED BY <2>1, <2>2, <2>3, <2>4, <2>5, <2>6, Zenon DEF GameReadsTicket, Then
<1> QED BY <1>8, <1>16 DEF d, sealed, HeldOf

\* The server reads in the game's CONNECT whose ticket it is, and answers the challenge.
LEMMA ConnectFact ==
    ASSUME CipherIsBytes, NonceSize + SessionKeySize + 13 <= MaxCollectionItems,
           NonceSize + SessionKeySize + 13 \in Word, 12 <= MaxCollectionItems,
           NEW t, NEW nonce, IsTicket(t, nonce),
           NEW id, Fits(id, 4), NEW challenge, Fits(challenge, 4)
    PROVE  LET payload == ConnectPayload(HeldOf(t, nonce), id, 1, challenge)
           IN  /\ payload \in Seq(Byte) /\ Len(payload) = NonceSize + SessionKeySize + 33
               /\ Connected(payload).users = {t.user} /\ Connected(payload).reply = Reply(challenge)
<1> DEFINE held    == HeldOf(t, nonce)
           sealed  == Seal(t, nonce)
           ids     == NumberBytes(id, 4) \o NumberBytes(1, 4)
           last    == NumberBytes(challenge, 4)
           data    == ids \o last
           secret  == CryptKey(t.session, data)
           payload == WriteBuffer(sealed) \o WriteBuffer(secret)
           inner   == [user |-> t.user, session |-> t.session]
<1>1. t.session \in Seq(Byte)
  BY DEF IsTicket
<1>2. /\ sealed \in Seq(Byte) /\ Len(sealed) = NonceSize + SessionKeySize + 13
      /\ Open(sealed) = Got(inner, <<>>)
  BY SealFact
<1>3. ids \in Seq(Byte) /\ Len(ids) = 8
  <2> DEFINE first  == NumberBytes(id, 4)
             second == NumberBytes(1, 4)
  <2>1. first \in Seq(Byte) /\ Len(first) = 4
    BY NumberBytesFact DEF Fits
  <2>2. second \in Seq(Byte) /\ Len(second) = 4
    BY NumberBytesFact
  <2> HIDE DEF first, second
  <2>3. first \o second \in Seq(Byte) /\ Len(first \o second) = Len(first) + Len(second)
    BY <2>1, <2>2, ConcatFact
  <2>4. Len(first \o second) = 8
    BY <2>1, <2>2, <2>3
  <2> QED BY <2>3, <2>4 DEF first, second
<1>4. last \in Seq(Byte) /\ Len(last) = 4
  BY NumberBytesFact DEF Fits
<1>5. ReadChallenge(data) = Got(challenge, <<>>)
  <2>1. ReadBytes(8, data) = Got(ids, last)
    BY <1>3, <1>4, ReadBytesFact
  <2>2. ReadNumber(4, FALSE, last) = Got(challenge, <<>>)
    <3>1. 4 \in Nat \ {0} /\ <<>> \in Seq(Byte)
      OBVIOUS
    <3>2. last \o <<>> = last
      BY <1>4
    <3>3. ReadNumber(4, FALSE, last \o <<>>) = Got(challenge, <<>>)
      BY <3>1, ReadNumberFact
    <3> QED BY <3>2, <3>3
  <2> DEFINE a == Got(ids, last)
  <2>3. a.ok /\ a.rest = last
    BY GotFact
  <2> HIDE DEF a, last, data
  <2> QED BY <2>1, <2>2, <2>3, Zenon DEF ReadChallenge, Then, a
<1> HIDE DEF ids, last
<1>6. data \in Seq(Byte) /\ Len(data) = 12
  <2>1. data \in Seq(Byte) /\ Len(data) = Len(ids) + Len(last)
    BY <1>3, <1>4, ConcatFact
  <2> QED BY <1>3, <1>4, <2>1
<1>7. ConnectPayload(held, id, 1, challenge) = payload
  <2>1. ConnectData(id, 1, challenge) = data
    BY DEF ConnectData, ids, last
  <2>2. held.session = t.session /\ held.sealed = sealed
    BY DEF HeldOf
  <2> HIDE DEF data, held, sealed
  <2> QED BY <2>1, <2>2 DEF ConnectPayload
<1> HIDE DEF data
<1>8. secret \in Seq(Byte) /\ Len(secret) = 12 /\ CryptKey(t.session, secret) = data
  BY <1>1, <1>6, CryptKeyFact
<1> HIDE DEF secret, sealed
<1>9. /\ WriteBuffer(secret) \in Seq(Byte) /\ Len(WriteBuffer(secret)) = 16
      /\ ReadBuffer(WriteBuffer(secret)) = Got(secret, <<>>)
  <2>1. Len(secret) \in Word /\ <<>> \in Seq(Byte)
    BY <1>8, SmallWords DEF Byte
  <2>2. /\ WriteBuffer(secret) \in Seq(Byte) /\ Len(WriteBuffer(secret)) = 4 + Len(secret)
        /\ ReadBuffer(WriteBuffer(secret) \o <<>>) = Got(secret, <<>>)
    BY <1>8, <2>1, BufferFact
  <2> QED BY <1>8, <2>2
<1>10. /\ WriteBuffer(sealed) \in Seq(Byte) /\ Len(WriteBuffer(sealed)) = 4 + Len(sealed)
       /\ ReadBuffer(payload) = Got(sealed, WriteBuffer(secret))
  BY <1>2, <1>9, BufferFact
<1>11. payload \in Seq(Byte) /\ Len(payload) = NonceSize + SessionKeySize + 33
  <2>1. payload \in Seq(Byte) /\ Len(payload) = (4 + Len(sealed)) + 16
    BY <1>9, <1>10, ConcatFact
  <2> QED BY <1>2, <2>1, TicketsAssumption
<1> HIDE DEF payload, held, inner
<1>12. Connected(payload).users = {t.user} /\ Connected(payload).reply = Reply(challenge)
  <2> DEFINE a == Got(sealed, WriteBuffer(secret))
             b == Got(secret, <<>>)
             c == Got(inner, <<>>)
             e == Got(challenge, <<>>)
  <2>1. a.ok /\ a.value = sealed /\ a.rest = WriteBuffer(secret)
    BY GotFact
  <2>2. b.ok /\ b.value = secret
    BY GotFact
  <2>3. c.ok /\ c.value = inner
    BY GotFact
  <2>4. e.ok /\ e.value = challenge
    BY GotFact
  <2>5. inner.user = t.user /\ inner.session = t.session
    BY DEF inner
  <2>6. ReadBuffer(payload) = a
    BY <1>10
  <2>7. ReadBuffer(a.rest) = b
    BY <1>9, <2>1
  <2>8. Open(a.value) = c
    BY <1>2, <2>1
  <2>9. ReadChallenge(CryptKey(c.value.session, b.value)) = e
    BY <1>5, <1>8, <2>2, <2>3, <2>5
  <2> HIDE DEF a, b, c, e
  <2>10. Connected(payload) = [users |-> {c.value.user}, reply |-> Reply(e.value)]
    BY <2>1, <2>2, <2>3, <2>4, <2>6, <2>7, <2>8, <2>9, Zenon DEF Connected, Then
  <2> QED BY <2>3, <2>4, <2>5, <2>10
<1> QED BY <1>7, <1>11, <1>12 DEF held

-----------------------------------------------------------------------------
\* Exchanges.

IsSent(d) == WellFormed(d.packet) /\ d.bytes = ToBytes(d.packet)

\* What a CONNECT with this payload makes of the connection.
ShowsTickets(payload) ==
    /\ payload = <<>> => shown = {}
    /\ payload # <<>> =>
           /\ Connected(payload).users = shown
           /\ shown # {} => Connected(payload).reply = Reply(Challenge)

\* The server has the only packet in flight.
Asked ==
    /\ toServer = <<toServer[1]>>
    /\ toServer[1].packet.source.stream = "RVSec" /\ toServer[1].packet.destination.stream = "RVSec"
    /\ toServer[1].packet.type = "Connect" => ShowsTickets(toServer[1].packet.payload)
    /\ toGame = <<>> /\ answer = 0 /\ received = <<>>

\* The bytes of the first k chunks, of which none is the last.
UpTo(payload, k) == SubSeq(payload, 1, k * MaxPayloadSize)

\* Packet i of an answer, where packet 0 is the acknowledgement.
IsAnswerPacket(p, payload, i) ==
    IF i = 0 THEN "Ack" \in p.flags
    ELSE /\ "Ack" \notin p.flags
         /\ p.fragment = ChunkCount(payload) - i
         /\ p.payload = ChunkOf(payload, i)

\* No answer is on its way, or the game has the chunks in front of those in flight, or
\* the whole answer.
NoAnswer ==
    /\ joined = <<>> /\ received = <<>>
    /\ \A i \in DOMAIN toGame : "Ack" \in toGame[i].packet.flags

Answering ==
    LET payload == AnswerBytes(answer)
        n       == ChunkCount(payload)
        m       == Len(toGame)
    IN  /\ answer \in DOMAIN Answers
        /\ m <= n + 1
        /\ \A j \in 1..m : IsAnswerPacket(toGame[j].packet, payload, n - m + j)
        /\ joined = IF m \in 1..n THEN UpTo(payload, n - m) ELSE <<>>
        /\ received = IF m = 0 THEN <<Got(Answers[answer].value, <<>>)>> ELSE <<>>

WireInv ==
    /\ sequence \in Word
    /\ toGame \in Seq(Range(toGame))
    /\ \A d \in InFlight : IsSent(d)
    /\ toServer = <<>> \/ Asked
    /\ IF answer = 0 THEN NoAnswer ELSE Answering
    /\ TicketHoldersConnect

-----------------------------------------------------------------------------
\* Chunks.

LEMMA DivisionFact ==
    ASSUME NEW a \in Nat, NEW m \in Nat \ {0}
    PROVE  /\ a \div m \in Nat
           /\ (a \div m) * m <= a /\ a < (a \div m) * m + m
<1>1. a = m * (a \div m) + (a % m) /\ a \div m \in Int /\ a % m \in 0..(m - 1)
  OBVIOUS
<1>2. a \div m >= 0
  OBVIOUS
<1>3. m * (a \div m) = (a \div m) * m
  BY <1>1
<1> QED BY <1>1, <1>2, <1>3

LEMMA TimesFact ==
    ASSUME NEW m \in Nat
    PROVE  /\ \A i \in Nat : i * m \in Nat /\ (i + 1) * m = i * m + m
           /\ \A i, k \in Nat : i <= k => i * m <= k * m
<1>1. \A i \in Nat : i * m \in Nat /\ (i + 1) * m = i * m + m
  OBVIOUS
<1>2. ASSUME NEW i \in Nat, NEW k \in Nat, i <= k
      PROVE  i * m <= k * m
  <2>1. (k - i) * m >= 0 /\ k * m = i * m + (k - i) * m
    BY <1>2
  <2>2. i * m \in Nat /\ k * m \in Nat /\ (k - i) * m \in Int
    OBVIOUS
  <2> QED BY <2>1, <2>2
<1> QED BY <1>1, <1>2

\* Where chunk i of n ends.
EndOf(payload, i) ==
    IF i * MaxPayloadSize < Len(payload) THEN i * MaxPayloadSize ELSE Len(payload)

IsCut(payload, n) ==
    /\ n \in Nat \ {0}
    /\ EndOf(payload, n) = Len(payload)
    /\ \A i \in 1..n :
           /\ (i - 1) * MaxPayloadSize \in Nat /\ (i - 1) * MaxPayloadSize < EndOf(payload, i)
           /\ EndOf(payload, i) <= Len(payload)
           /\ EndOf(payload, i) - ((i - 1) * MaxPayloadSize) <= MaxPayloadSize
           /\ i < n => EndOf(payload, i) = i * MaxPayloadSize

LEMMA CutFact ==
    ASSUME NEW payload \in Seq(Byte), payload # <<>>
    PROVE  IsCut(payload, ChunkCount(payload))
<1> DEFINE m == MaxPayloadSize
           l == Len(payload)
           n == ChunkCount(payload)
           e(i) == EndOf(payload, i)
<1>1. m \in Nat /\ m >= 8 /\ l \in Nat /\ l >= 1
  BY ServerAssumption
<1>2. n = (l + m - 1) \div m /\ \A i : e(i) = IF i * m < l THEN i * m ELSE l
  BY DEF ChunkCount, EndOf
<1>3. l + m - 1 \in Nat /\ m \in Nat \ {0}
  BY <1>1
<1> HIDE DEF m, l, n, e
<1>4. n \in Nat /\ n * m <= l + m - 1 /\ l + m - 1 < n * m + m /\ n * m \in Nat
  BY <1>2, <1>3, DivisionFact, TimesFact
<1>5. l <= n * m
  BY <1>1, <1>4
<1>6. n # 0
  <2>1. n = 0 => n * m = 0
    BY <1>1
  <2> QED BY <1>1, <1>5, <2>1
<1>7. n - 1 \in Nat /\ (n - 1) * m \in Nat /\ n * m = (n - 1) * m + m
  <2>1. n - 1 \in Nat /\ (n - 1) + 1 = n
    BY <1>4, <1>6
  <2> QED BY <1>1, <2>1, TimesFact
<1>8. (n - 1) * m < l
  BY <1>1, <1>4, <1>7
<1>9. ASSUME NEW i \in 1..n
      PROVE  /\ (i - 1) * m \in Nat /\ (i - 1) * m < e(i)
             /\ e(i) <= l /\ e(i) - ((i - 1) * m) <= m
             /\ i < n => e(i) = i * m
  <2>1. i \in Nat /\ i - 1 \in Nat /\ (i - 1) + 1 = i /\ i - 1 <= n - 1
    BY <1>4
  <2>2. (i - 1) * m \in Nat /\ i * m = (i - 1) * m + m /\ i * m \in Nat
    BY <1>1, <2>1, TimesFact
  <2>3. (i - 1) * m <= (n - 1) * m
    BY <1>1, <1>7, <2>1, TimesFact
  <2>4. i < n => i * m <= (n - 1) * m
    <3>1. i < n => i <= n - 1
      BY <1>4, <2>1
    <3> QED BY <1>1, <1>7, <2>1, <3>1, TimesFact
  <2> QED BY <1>1, <1>2, <1>7, <1>8, <2>2, <2>3, <2>4
<1>10. e(n) = l
  BY <1>1, <1>2, <1>4, <1>5
<1> QED BY <1>4, <1>6, <1>9, <1>10 DEF IsCut, m, l, n, e

LEMMA CutAgain ==
    ASSUME NEW s \in Seq(Byte), NEW a \in Nat, NEW b \in Nat, a <= b, b <= Len(s)
    PROVE  /\ SubSeq(s, 1, a) \o SubSeq(s, a + 1, b) = SubSeq(s, 1, b)
           /\ SubSeq(s, a + 1, b) \in Seq(Byte) /\ Len(SubSeq(s, a + 1, b)) = b - a
           /\ SubSeq(s, 1, Len(s)) = s
<1>1. SubSeq(s, a + 1, b) \in Seq(Byte) /\ Len(SubSeq(s, a + 1, b)) = b - a
  OBVIOUS
<1>2. SubSeq(s, 1, a) \o SubSeq(s, a + 1, b) = SubSeq(s, 1, b)
  OBVIOUS
<1>3. SubSeq(s, 1, Len(s)) = s
  OBVIOUS
<1> QED BY <1>1, <1>2, <1>3

\* The chunks, joined one after the other.
LEMMA ChunksFact ==
    ASSUME NEW payload \in Seq(Byte), payload # <<>>
    PROVE  LET n == ChunkCount(payload)
           IN  /\ n \in Nat \ {0}
               /\ UpTo(payload, 0) = <<>>
               /\ \A i \in 1..n :
                      /\ ChunkOf(payload, i) \in Seq(Byte) \ {<<>>}
                      /\ Len(ChunkOf(payload, i)) <= MaxPayloadSize
                      /\ UpTo(payload, i - 1) \o ChunkOf(payload, i) =
                             IF i = n THEN payload ELSE UpTo(payload, i)
<1> DEFINE n == ChunkCount(payload)
           from(i) == (i - 1) * MaxPayloadSize
           to(i)   == EndOf(payload, i)
<1>1. IsCut(payload, n)
  BY CutFact
<1>2. n \in Nat \ {0}
  BY <1>1 DEF IsCut
<1>3. UpTo(payload, 0) = <<>>
  <2>1. 0 * MaxPayloadSize = 0
    BY ServerAssumption
  <2> QED BY <2>1 DEF UpTo
<1> HIDE DEF n
<1>4. ASSUME NEW i \in 1..n
      PROVE  /\ ChunkOf(payload, i) \in Seq(Byte) \ {<<>>}
             /\ Len(ChunkOf(payload, i)) <= MaxPayloadSize
             /\ UpTo(payload, i - 1) \o ChunkOf(payload, i) =
                    IF i = n THEN payload ELSE UpTo(payload, i)
  <2>1. /\ from(i) \in Nat /\ from(i) < to(i) /\ to(i) <= Len(payload)
        /\ to(i) - from(i) <= MaxPayloadSize
        /\ i < n => to(i) = i * MaxPayloadSize
        /\ to(n) = Len(payload)
    BY <1>1 DEF IsCut
  <2>2. ChunkOf(payload, i) = SubSeq(payload, from(i) + 1, to(i))
    BY DEF ChunkOf, EndOf
  <2>3. UpTo(payload, i - 1) = SubSeq(payload, 1, from(i))
    BY DEF UpTo
  <2>4. UpTo(payload, i) = SubSeq(payload, 1, i * MaxPayloadSize)
    BY DEF UpTo
  <2> DEFINE a == from(i)
             b == to(i)
  <2>5. Len(payload) \in Nat /\ b \in Nat
    <3>1. i * MaxPayloadSize \in Nat
      BY <1>2, TimesFact, ServerAssumption
    <3> QED BY <3>1 DEF EndOf
  <2> HIDE DEF from, to, a, b
  <2>6. a \in Nat /\ a < b /\ b <= Len(payload) /\ b - a <= MaxPayloadSize
    BY <2>1 DEF a, b
  <2>7. /\ SubSeq(payload, 1, a) \o SubSeq(payload, a + 1, b) = SubSeq(payload, 1, b)
        /\ SubSeq(payload, a + 1, b) \in Seq(Byte) /\ Len(SubSeq(payload, a + 1, b)) = b - a
        /\ SubSeq(payload, 1, Len(payload)) = payload
    BY <2>5, <2>6, CutAgain
  <2>8. SubSeq(payload, a + 1, b) # <<>>
    <3>1. b - a # 0
      BY <2>5, <2>6
    <3> QED BY <2>7, <3>1
  <2>9. SubSeq(payload, 1, b) = IF i = n THEN payload ELSE UpTo(payload, i)
    <3>1. CASE i = n
      BY <2>1, <2>7, <3>1 DEF b
    <3>2. CASE i # n
      <4>1. i < n
        BY <1>2, <3>2
      <4> QED BY <2>1, <2>4, <3>2, <4>1 DEF b
    <3> QED BY <3>1, <3>2
  <2> QED BY <2>2, <2>3, <2>6, <2>7, <2>8, <2>9 DEF a, b
<1> QED BY <1>2, <1>3, <1>4 DEF n

-----------------------------------------------------------------------------
\* Packets that are sent.

OfConnection(p) == p.source.stream = "RVSec" /\ p.destination.stream = "RVSec"

LEMMA ArrivedFact ==
    ASSUME NEW d, IsSent(d)
    PROVE  Arrived(d).ok /\ Arrived(d).packet = OnTheWire(d.packet)
<1>1. ReadsBack(d.packet) /\ d.bytes = ToBytes(d.packet)
  BY PacketsAreReadAsWritten DEF IsSent
<1>2. Arrived(d) = [ok |-> TRUE, length |-> Len(ToBytes(d.packet)), packet |-> OnTheWire(d.packet)]
  BY <1>1 DEF ReadsBack, Arrived
<1> QED BY <1>2

\* A payload of a packet of the connection fits when it is whole or compressed.
LEMMA PayloadFits ==
    ASSUME CompressorIsFaithful, NEW p, FieldsFit(p), p.compress \in BOOLEAN,
           p.payload \in Seq(Byte), p.payload # <<>> => IsSecret(p.type, p.source),
           \/ p.payload = <<>>
           \/ p.compress /\ Len(p.payload) <= MaxPayloadSize
           \/ ~p.compress /\ Len(p.payload) < Len(KeyStream)
    PROVE  WellFormed(p)
<1> SUFFICES ASSUME p.payload # <<>>
             PROVE  /\ Len(PayloadBytes(p)) <= Len(KeyStream) /\ Len(PayloadBytes(p)) \in Word
                    /\ p.compress => Compressible(p.payload)
  BY DEF WellFormed
<1> DEFINE s == p.payload
           k == Len(KeyStream)
           body == IF p.compress THEN Compress(s) ELSE s
           head == IF p.compress THEN Ratio(s, Compress(s)) ELSE 0
<1>1. p.compress => Compressible(s) /\ Len(Compress(s)) < k
  BY DEF CompressorIsFaithful
<1>2. body \in Seq(Byte) /\ Len(body) < k /\ k \in Nat
  <2>1. KeyStream \in Seq(Byte)
    BY KeysAssumption
  <2>2. p.compress => Compress(s) \in Seq(Byte)
    BY <1>1 DEF Compressible
  <2> QED BY <1>1, <2>1, <2>2
<1>3. Marked(p.payload, p.compress) = <<head>> \o body
  BY DEF Marked
<1> HIDE DEF body, head
<1>4. Len(<<head>> \o body) = 1 + Len(body) /\ 1 + Len(body) <= k /\ Len(body) \in Nat
  BY <1>2
<1>5. PayloadBytes(p) = Crypt(<<head>> \o body)
  BY <1>3 DEF PayloadBytes
<1>6. Len(PayloadBytes(p)) = 1 + Len(body)
  <2> DEFINE t == <<head>> \o body
  <2>1. DOMAIN t = 1..(1 + Len(body))
    BY <1>2
  <2> HIDE DEF t
  <2>2. Crypt(t) = [i \in 1..(1 + Len(body)) |-> Xor(KeyStream[i], t[i])]
    BY <2>1 DEF Crypt
  <2>3. 1 + Len(body) \in Nat
    BY <1>4
  <2>4. Len(Crypt(t)) = 1 + Len(body)
    BY <2>2, <2>3
  <2> QED BY <1>5, <2>4 DEF t
<1>7. 1 + Len(body) \in Word
  <2>1. k \in Word
    BY KeysAssumption
  <2> QED BY <1>4, <2>1, WordDown
<1> QED BY <1>1, <1>4, <1>6, <1>7

LEMMA OnTheWireFact ==
    ASSUME NEW p, WellFormed(p)
    PROVE  WellFormed(OnTheWire(p)) /\ (OfConnection(p) => OfConnection(OnTheWire(p)))
<1> DEFINE q == OnTheWire(p)
<1>1. /\ q.source = p.source /\ q.destination = p.destination /\ q.type = p.type
      /\ q.flags = p.flags /\ q.session = p.session /\ q.signature = p.signature
      /\ q.sequence = p.sequence /\ q.connSignature = p.connSignature
      /\ q.fragment = p.fragment /\ q.payload = p.payload
      /\ q.compress = (p.compress /\ p.payload # <<>>)
  BY DEF OnTheWire
<1>2. q = [f \in PacketFields |-> q[f]]
  BY DEF OnTheWire, PacketFields
<1> HIDE DEF q
<1>3. FieldsFit(q)
  BY <1>1, <1>2 DEF WellFormed, FieldsFit
<1>4. q.payload \in Seq(Byte) /\ q.compress \in BOOLEAN
  BY <1>1 DEF WellFormed
<1>5. ASSUME q.payload # <<>>
      PROVE  /\ IsSecret(q.type, q.source)
             /\ Len(PayloadBytes(q)) <= Len(KeyStream) /\ Len(PayloadBytes(q)) \in Word
             /\ q.compress => Compressible(q.payload)
  <2>1. q.compress = p.compress
    BY <1>1, <1>5 DEF WellFormed
  <2>2. PayloadBytes(q) = PayloadBytes(p)
    BY <1>1, <2>1 DEF PayloadBytes
  <2> QED BY <1>1, <1>5, <2>1, <2>2 DEF WellFormed
<1>6. WellFormed(q)
  BY <1>3, <1>4, <1>5 DEF WellFormed
<1> QED BY <1>1, <1>6 DEF OfConnection, q

\* The fields of the server's packets.
LEMMA SentFact ==
    ASSUME CompressorIsFaithful, NEW p, FieldsFit(p), p.compress \in BOOLEAN,
           p.payload \in Seq(Byte), p.source.stream = "RVSec",
           p.payload # <<>> => p.type \in {"Connect", "Data"} /\ Len(p.payload) <= MaxPayloadSize,
           p.payload # <<>> /\ p.type = "Connect" => Len(p.payload) < Len(KeyStream)
    PROVE  LET q == Sent(p).packet
           IN  /\ IsSent(Sent(p))
               /\ q.type = p.type /\ q.payload = p.payload /\ q.fragment = p.fragment
               /\ "Ack" \in q.flags <=> "Ack" \in p.flags
<1> DEFINE q == [p EXCEPT !.flags = @ \cup {"HasSize"}, !.compress = @ \/ p.type = "Data"]
<1>1. p = [f \in PacketFields |-> p[f]]
  BY DEF FieldsFit
<1>2. /\ q.source = p.source /\ q.destination = p.destination /\ q.type = p.type
      /\ q.flags = p.flags \cup {"HasSize"} /\ q.session = p.session /\ q.signature = p.signature
      /\ q.sequence = p.sequence /\ q.connSignature = p.connSignature
      /\ q.fragment = p.fragment /\ q.payload = p.payload
      /\ q.compress = (p.compress \/ p.type = "Data")
  BY <1>1 DEF PacketFields
<1>3. q = [f \in PacketFields |-> q[f]]
  BY <1>1 DEF PacketFields
<1>4. Sent(p) = [packet |-> q, bytes |-> ToBytes(q)]
  BY DEF Sent
<1> HIDE DEF q
<1>5. FieldsFit(q)
  <2>1. q.flags \subseteq DOMAIN FlagBit
    BY <1>2 DEF FieldsFit, FlagBit
  <2> QED BY <1>2, <1>3, <2>1 DEF FieldsFit
<1>6. q.compress \in BOOLEAN /\ q.payload \in Seq(Byte)
  BY <1>2
<1>7. q.payload # <<>> => IsSecret(q.type, q.source)
  BY <1>2 DEF IsSecret
<1>8. \/ q.payload = <<>>
      \/ q.compress /\ Len(q.payload) <= MaxPayloadSize
      \/ ~q.compress /\ Len(q.payload) < Len(KeyStream)
  BY <1>2
<1>9. WellFormed(q)
  BY <1>5, <1>6, <1>7, <1>8, PayloadFits
<1>10. Sent(p).packet = q /\ Sent(p).bytes = ToBytes(q)
  BY <1>4
<1>11. IsSent(Sent(p))
  BY <1>9, <1>10 DEF IsSent
<1> QED BY <1>2, <1>10, <1>11

LEMMA WrappedFact ==
    ASSUME NEW n \in Int
    PROVE  Wrapped(n) \in Word
BY DEF Wrapped, Word

LEMMA AckFact ==
    ASSUME CompressorIsFaithful, NEW p, WellFormed(p), OfConnection(p), NEW payload \in Seq(Byte),
           payload # <<>> => p.type = "Connect" /\ Len(payload) = 8
    PROVE  LET q == Sent(Ack(p, payload)).packet
           IN  /\ IsSent(Sent(Ack(p, payload)))
               /\ q.type = p.type /\ q.payload = payload /\ "Ack" \in q.flags
<1> DEFINE a == Ack(p, payload)
           signature == IF p.type = "Syn" THEN NoSignature ELSE ClientSignature
           session   == IF p.type = "Syn" THEN 0 ELSE ServerSession
           conn      == IF p.type = "Syn" THEN ServerSignature
                        ELSE IF p.type = "Connect" THEN NoSignature ELSE p.connSignature
<1>1. FieldsFit(p) /\ p.compress \in BOOLEAN
  BY DEF WellFormed
<1>2. p = [f \in PacketFields |-> p[f]]
  BY <1>1 DEF FieldsFit
<1>3. /\ a.source = p.destination /\ a.destination = p.source /\ a.type = p.type
      /\ a.flags = {"Ack", "HasSize"} /\ a.session = session /\ a.signature = signature
      /\ a.sequence = p.sequence /\ a.connSignature = conn
      /\ a.fragment = p.fragment /\ a.payload = payload /\ a.compress = p.compress
  <2> HIDE DEF session, signature
  <2>1. a = [p EXCEPT !.source = p.destination, !.destination = p.source,
                      !.flags = {"Ack", "HasSize"}, !.signature = signature, !.session = session,
                      !.connSignature = conn, !.payload = payload]
    BY <1>2 DEF Ack, signature, session, PacketFields
  <2> HIDE DEF a, conn
  <2> QED BY <1>2, <2>1 DEF PacketFields
<1>4. a = [f \in PacketFields |-> a[f]]
  BY <1>2 DEF Ack, PacketFields
<1>5. NoSignature \in Four /\ 0 \in Byte
  BY DEF NoSignature, Four, Byte
<1>6. signature \in Four /\ session \in Byte
  BY <1>5, ServerAssumption
<1>7. IF p.type \in {"Syn", "Connect"} THEN conn \in Four ELSE conn = Absent
  BY <1>1, <1>5, ServerAssumption DEF FieldsFit
<1> HIDE DEF signature, session, conn, a
<1>8. FieldsFit(a)
  <2>1. a.flags \subseteq DOMAIN FlagBit
    BY <1>3 DEF FlagBit
  <2> QED BY <1>1, <1>3, <1>4, <1>6, <1>7, <2>1 DEF FieldsFit
<1>9. 8 <= MaxPayloadSize /\ 8 < Len(KeyStream)
  <2>1. KeyStream \in Seq(Byte) /\ NonceSize \in Nat /\ SessionKeySize \in Nat
    BY KeysAssumption, TicketsAssumption
  <2>2. MaxPayloadSize \in Nat /\ MaxPayloadSize >= 8 /\ NonceSize + SessionKeySize + 34 <= Len(KeyStream)
    BY ServerAssumption, ConnectAssumption
  <2> QED BY <2>1, <2>2
<1>10. /\ a.compress \in BOOLEAN /\ a.payload \in Seq(Byte) /\ a.source.stream = "RVSec"
       /\ a.payload # <<>> => a.type \in {"Connect", "Data"} /\ Len(a.payload) <= MaxPayloadSize
       /\ a.payload # <<>> /\ a.type = "Connect" => Len(a.payload) < Len(KeyStream)
  BY <1>1, <1>3, <1>9 DEF OfConnection
<1>11. LET q == Sent(a).packet
       IN  /\ IsSent(Sent(a))
           /\ q.type = a.type /\ q.payload = a.payload /\ q.fragment = a.fragment
           /\ "Ack" \in q.flags <=> "Ack" \in a.flags
  BY <1>8, <1>10, SentFact
<1> QED BY <1>3, <1>11 DEF a

LEMMA ResponseFact ==
    ASSUME CompressorIsFaithful, NEW p, WellFormed(p), OfConnection(p), p.type = "Data",
           NEW payload \in Seq(Byte), payload # <<>>, ChunkCount(payload) <= 256,
           sequence \in Word, NEW i \in 1..ChunkCount(payload)
    PROVE  LET d == Sent(Response(p, payload)[i])
           IN  IsSent(d) /\ d.packet.type = "Data" /\ IsAnswerPacket(d.packet, payload, i)
<1> DEFINE a == Response(p, payload)[i]
           n == ChunkCount(payload)
           chunk == ChunkOf(payload, i)
           place == Wrapped(sequence + i - 1)
           left  == (n - i) % 256
<1>1. FieldsFit(p) /\ p.compress \in BOOLEAN
  BY DEF WellFormed
<1>2. p = [f \in PacketFields |-> p[f]]
  BY <1>1 DEF FieldsFit
<1>3. n \in Nat \ {0} /\ chunk \in Seq(Byte) /\ chunk # <<>> /\ Len(chunk) <= MaxPayloadSize
  BY ChunksFact
<1>4. left = n - i /\ left \in Byte
  <2> HIDE DEF n
  <2>1. i \in 1..n /\ n <= 256
    BY DEF n
  <2>2. n - i \in 0..255
    BY <1>3, <2>1
  <2>3. \A x \in 0..255 : x % 256 = x
    OBVIOUS
  <2> QED BY <2>2, <2>3 DEF Byte
<1>5. place \in Word
  <2>1. sequence \in Int
    <3>1. PICK top \in Int : Word = 0..top
      BY WordRange
    <3> QED BY <3>1
  <2>2. sequence + i - 1 \in Int
    BY <1>3, <2>1
  <2> QED BY <2>2, WrappedFact
<1> HIDE DEF n, chunk, place, left
<1>6. a = [p EXCEPT !.source = p.destination, !.destination = p.source,
                    !.flags = {"HasSize", "NeedAck", "Reliable"},
                    !.signature = ClientSignature, !.session = ServerSession,
                    !.sequence = place, !.fragment = left, !.payload = chunk]
  BY DEF Response, n, chunk, place, left
<1> HIDE DEF a
<1>7. /\ a.source = p.destination /\ a.destination = p.source /\ a.type = p.type
      /\ a.flags = {"HasSize", "NeedAck", "Reliable"} /\ a.session = ServerSession
      /\ a.signature = ClientSignature
      /\ a.sequence = place /\ a.connSignature = p.connSignature
      /\ a.fragment = left /\ a.payload = chunk /\ a.compress = p.compress
  BY <1>2, <1>6 DEF PacketFields
<1>8. a = [f \in PacketFields |-> a[f]]
  BY <1>2, <1>6 DEF PacketFields
<1>9. FieldsFit(a)
  <2>1. a.flags \subseteq DOMAIN FlagBit
    BY <1>7 DEF FlagBit
  <2>2. ClientSignature \in Four /\ ServerSession \in Byte
    BY ServerAssumption
  <2> QED BY <1>1, <1>4, <1>5, <1>7, <1>8, <2>1, <2>2 DEF FieldsFit
<1>10. /\ a.compress \in BOOLEAN /\ a.payload \in Seq(Byte) /\ a.source.stream = "RVSec"
       /\ a.payload # <<>> => a.type \in {"Connect", "Data"} /\ Len(a.payload) <= MaxPayloadSize
       /\ a.payload # <<>> /\ a.type = "Connect" => Len(a.payload) < Len(KeyStream)
  BY <1>1, <1>3, <1>7 DEF OfConnection
<1>11. LET q == Sent(a).packet
       IN  /\ IsSent(Sent(a))
           /\ q.type = a.type /\ q.payload = a.payload /\ q.fragment = a.fragment
           /\ "Ack" \in q.flags <=> "Ack" \in a.flags
  BY <1>9, <1>10, SentFact
<1>12. i # 0 /\ "Ack" \notin a.flags
  BY <1>7
<1>13. IsAnswerPacket(Sent(a).packet, payload, i)
  BY <1>4, <1>7, <1>11, <1>12 DEF IsAnswerPacket, n, chunk
<1> QED BY <1>7, <1>11, <1>13 DEF a

LEMMA ReplyFact == Reply(Challenge) \in Seq(Byte) /\ Len(Reply(Challenge)) = 8
<1> DEFINE b == NumberBytes(Challenge + 1, 4)
<1>1. Challenge + 1 \in Nat
  BY GameAssumption DEF Fits
<1>2. b \in Seq(Byte) /\ Len(b) = 4
  BY <1>1, NumberBytesFact
<1> HIDE DEF b
<1>3. Len(b) \in Word
  BY <1>2, SmallWords DEF Byte
<1>4. WriteBuffer(b) \in Seq(Byte) /\ Len(WriteBuffer(b)) = 4 + Len(b)
  BY <1>2, <1>3, BufferFact
<1>5. Reply(Challenge) = WriteBuffer(b)
  BY DEF Reply, b
<1> QED BY <1>2, <1>4, <1>5

\* Whose tickets a payload shows, and what it is answered.
LEMMA ShownFact ==
    ASSUME NEW payload
    PROVE  Connected(payload).users = {} => Connected(payload).reply = <<>>
<1> DEFINE ticket    == ReadBuffer(payload)
           request   == Then(ticket, LAMBDA t : ReadBuffer(t.rest))
           opened    == Then(request, LAMBDA r : Open(ticket.value))
           challenge == Then(opened, LAMBDA o :
                            ReadChallenge(CryptKey(o.value.session, request.value)))
<1>1. ~opened.ok => challenge = opened
  BY Zenon DEF Then
<1>2. Connected(payload) = [users |-> IF opened.ok THEN {opened.value.user} ELSE {},
                            reply |-> IF challenge.ok THEN Reply(challenge.value) ELSE <<>>]
  BY DEF Connected
<1> HIDE DEF opened, challenge
<1> QED BY <1>1, <1>2

-----------------------------------------------------------------------------
\* Steps.

IsList(s, n) == n \in Nat /\ s = [i \in 1..n |-> s[i]]

LEMMA OwnFact ==
    ASSUME NEW s, NEW n, IsList(s, n)
    PROVE  s \in Seq(Range(s)) /\ Len(s) = n /\ DOMAIN s = 1..n
<1>1. n \in Nat /\ s = [i \in 1..n |-> s[i]]
  BY DEF IsList
<1>2. DOMAIN s = 1..n
  BY <1>1
<1>3. \A i \in 1..n : s[i] \in Range(s)
  BY <1>2 DEF Range
<1> QED BY <1>1, <1>2, <1>3

LEMMA TailFact ==
    ASSUME NEW S, NEW s \in Seq(S), s # <<>>
    PROVE  /\ Len(s) \in Nat \ {0} /\ Len(Tail(s)) = Len(s) - 1
           /\ DOMAIN Tail(s) = 1..(Len(s) - 1) /\ DOMAIN s = 1..Len(s)
           /\ \A i \in 1..(Len(s) - 1) : Tail(s)[i] = s[i + 1] /\ i + 1 \in 1..Len(s)
           /\ Tail(s) \in Seq(Range(Tail(s)))
<1>1. Len(s) \in Nat \ {0} /\ DOMAIN s = 1..Len(s) /\ Tail(s) \in Seq(S) /\ Len(Tail(s)) = Len(s) - 1
  OBVIOUS
<1>2. \A i \in 1..(Len(s) - 1) : Tail(s)[i] = s[i + 1] /\ i + 1 \in 1..Len(s)
  OBVIOUS
<1> DEFINE t == Tail(s)
<1>3. IsList(t, Len(t))
  <2>1. t \in Seq(S)
    BY <1>1
  <2> HIDE DEF t
  <2> QED BY <2>1 DEF IsList
<1>4. t \in Seq(Range(t)) /\ DOMAIN t = 1..Len(t)
  BY <1>3, OwnFact
<1> QED BY <1>1, <1>2, <1>4

\* Packets on their way.
Datagrams(ack, responses) ==
    <<Sent(ack)>> \o [i \in DOMAIN responses |-> Sent(responses[i])]

LEMMA ListFact ==
    ASSUME NEW a, NEW f, NEW n, IsList(f, n)
    PROVE  /\ IsList(Datagrams(a, f), n + 1)
           /\ Datagrams(a, f)[1] = Sent(a)
           /\ \A i \in 1..n : Datagrams(a, f)[i + 1] = Sent(f[i])
<1> DEFINE h == [i \in DOMAIN f |-> Sent(f[i])]
           b == Sent(a)
           S == {b} \cup {Sent(f[i]) : i \in 1..n}
           g == <<b>> \o h
<1>1. n \in Nat /\ DOMAIN f = 1..n
  BY DEF IsList
<1>2. h = [i \in 1..n |-> Sent(f[i])]
  BY <1>1
<1>3. \A i \in 1..n : h[i] = Sent(f[i])
  BY <1>2
<1>4. b \in S /\ h = [i \in 1..n |-> h[i]] /\ \A i \in 1..n : h[i] \in S
  BY <1>2
<1> HIDE DEF h, b, S
<1>5. h \in Seq(S) /\ Len(h) = n
  BY <1>1, <1>4
<1>6. g \in Seq(S) /\ Len(g) = n + 1 /\ g[1] = b /\ \A i \in 1..n : g[i + 1] = h[i]
  BY <1>1, <1>4, <1>5
<1> HIDE DEF g
<1>7. IsList(g, n + 1)
  BY <1>1, <1>6 DEF IsList
<1>8. Datagrams(a, f) = g
  BY DEF Datagrams, g, h, b
<1> QED BY <1>3, <1>6, <1>7, <1>8 DEF b

\* What the server has read.
LEMMA ReadFact ==
    ASSUME WireInv, Readable
    PROVE  /\ Asked /\ answer = 0 /\ joined = <<>> /\ received = <<>>
           /\ WellFormed(Read1) /\ OfConnection(Read1)
           /\ Read1.type = "Connect" => ShowsTickets(Read1.payload)
<1>1. Asked /\ answer = 0 /\ received = <<>> /\ joined = <<>>
  BY DEF WireInv, Readable, Asked, NoAnswer
<1> DEFINE d == toServer[1]
<1>2. IsSent(d)
  <2>1. toServer = <<d>>
    BY <1>1 DEF Asked
  <2>2. d \in InFlight
    <3>1. 1 \in DOMAIN toServer
      BY <2>1
    <3> QED BY <3>1 DEF InFlight
  <2> QED BY <2>2 DEF WireInv
<1>3. OfConnection(d.packet)
  BY <1>1 DEF Asked, OfConnection
<1>4. Read1 = OnTheWire(d.packet)
  BY <1>2, ArrivedFact DEF Read1
<1>5. Read1.type = d.packet.type /\ Read1.payload = d.packet.payload
  BY <1>4 DEF OnTheWire
<1>6. WellFormed(Read1) /\ OfConnection(Read1)
  BY <1>2, <1>3, <1>4, OnTheWireFact DEF IsSent
<1> QED BY <1>1, <1>5, <1>6 DEF Asked

LEMMA ServerReadsFact ==
    ASSUME sequence \in Word, NEW ack, NEW f, NEW n, IsList(f, n),
           ServerReads(ack, f), IsSent(Sent(ack)), \A i \in 1..n : IsSent(Sent(f[i]))
    PROVE  /\ toServer' = <<>> /\ sequence' \in Word
           /\ IsList(toGame', n + 1)
           /\ \A d \in InFlight' : IsSent(d)
           /\ toGame'[1] = Sent(ack) /\ \A i \in 1..n : toGame'[i + 1] = Sent(f[i])
<1>1. toServer' = <<>>
  BY DEF ServerReads
<1>2. toGame' = Datagrams(ack, f)
  BY DEF ServerReads, Datagrams
<1>3. /\ IsList(toGame', n + 1)
      /\ toGame'[1] = Sent(ack) /\ \A i \in 1..n : toGame'[i + 1] = Sent(f[i])
  BY <1>2, ListFact
<1>4. DOMAIN toGame' = 1..(n + 1) /\ n \in Nat /\ Len(f) = n
  BY <1>3, OwnFact DEF IsList
<1>5. sequence' \in Word
  <2>1. PICK top \in Int : Word = 0..top
    BY WordRange
  <2>2. sequence + Len(f) \in Int
    BY <1>4, <2>1
  <2>3. sequence' = Wrapped(sequence + Len(f))
    BY DEF ServerReads
  <2> QED BY <2>2, <2>3, WrappedFact
<1>6. ASSUME NEW d \in InFlight' PROVE IsSent(d)
  <2>1. PICK i \in DOMAIN toGame' : d = toGame'[i]
    BY <1>1 DEF InFlight
  <2>2. i \in 1..(n + 1)
    BY <1>4, <2>1
  <2>3. CASE i = 1
    BY <1>3, <2>1, <2>3
  <2>4. CASE i # 1
    <3>1. i - 1 \in 1..n /\ i = (i - 1) + 1
      BY <1>4, <2>2, <2>4
    <3> QED BY <1>3, <2>1, <3>1
  <2> QED BY <2>3, <2>4
<1> QED BY <1>1, <1>3, <1>5, <1>6

LEMMA AcksFact ==
    ASSUME sequence \in Word, NEW ack, ServerReads(ack, <<>>), IsSent(Sent(ack))
    PROVE  /\ toServer' = <<>> /\ sequence' \in Word
           /\ toGame' \in Seq(Range(toGame'))
           /\ \A d \in InFlight' : IsSent(d)
           /\ \A i \in DOMAIN toGame' : toGame'[i] = Sent(ack)
<1> DEFINE f == <<>>
           n == 0
<1>1. IsList(f, n) /\ \A i \in 1..n : IsSent(Sent(f[i]))
  BY DEF IsList
<1>2. ServerReads(ack, f)
  OBVIOUS
<1> HIDE DEF f, n
<1>3. /\ toServer' = <<>> /\ sequence' \in Word
      /\ IsList(toGame', n + 1)
      /\ \A d \in InFlight' : IsSent(d)
      /\ toGame'[1] = Sent(ack)
  BY <1>1, <1>2, ServerReadsFact
<1>4. toGame' \in Seq(Range(toGame')) /\ DOMAIN toGame' = 1..(n + 1)
  BY <1>3, OwnFact
<1>5. \A i \in DOMAIN toGame' : i = 1
  BY <1>4 DEF n
<1> QED BY <1>3, <1>4, <1>5

LEMMA AckOnlyStep ==
    ASSUME CompressorIsFaithful, WireInv, AckOnly
    PROVE  WireInv'
<1> DEFINE ack == Ack(Read1, <<>>)
<1>1. /\ Readable /\ Read1.type \in {"Syn", "Ping", "Disconnect"}
      /\ ServerReads(ack, <<>>) /\ answer' = answer /\ joined' = joined /\ received' = received
  BY DEF AckOnly
<1>2. WellFormed(Read1) /\ OfConnection(Read1) /\ answer = 0 /\ joined = <<>> /\ received = <<>>
  BY <1>1, ReadFact
<1>3. /\ IsSent(Sent(ack)) /\ Sent(ack).packet.type = Read1.type
      /\ "Ack" \in Sent(ack).packet.flags
  <2>1. <<>> \in Seq(Byte)
    OBVIOUS
  <2> QED BY <1>2, <2>1, AckFact
<1> HIDE DEF ack
<1>4. /\ toServer' = <<>> /\ sequence' \in Word
      /\ toGame' \in Seq(Range(toGame'))
      /\ \A d \in InFlight' : IsSent(d)
      /\ \A i \in DOMAIN toGame' : toGame'[i] = Sent(ack)
  BY <1>1, <1>3, AcksFact DEF WireInv
<1>5. NoAnswer'
  BY <1>1, <1>2, <1>3, <1>4 DEF NoAnswer
<1>6. TicketHoldersConnect'
  <2>1. Sent(ack).packet.type # "Connect"
    BY <1>1, <1>3
  <2> QED BY <1>4, <2>1 DEF TicketHoldersConnect
<1> QED BY <1>1, <1>2, <1>4, <1>5, <1>6 DEF WireInv

LEMMA ConnectStep ==
    ASSUME CompressorIsFaithful, WireInv, Connect
    PROVE  WireInv'
<1> DEFINE c == IF Read1.payload = <<>> THEN [users |-> {}, reply |-> <<>>]
                                        ELSE Connected(Read1.payload)
           ack == Ack(Read1, c.reply)
<1>1. /\ Readable /\ Read1.type = "Connect"
      /\ ServerReads(ack, <<>>) /\ user' = c.users /\ shown' = shown
      /\ answer' = answer /\ joined' = joined /\ received' = received
  BY DEF Connect
<1>2. /\ WellFormed(Read1) /\ OfConnection(Read1) /\ answer = 0 /\ joined = <<>> /\ received = <<>>
      /\ ShowsTickets(Read1.payload)
  BY <1>1, ReadFact
<1>3. c.users = shown /\ (shown = {} => c.reply = <<>>) /\ (shown # {} => c.reply = Reply(Challenge))
  <2>1. CASE Read1.payload = <<>>
    BY <1>2, <2>1 DEF ShowsTickets
  <2>2. CASE Read1.payload # <<>>
    <3>1. Connected(Read1.payload).users = {} => Connected(Read1.payload).reply = <<>>
      BY ShownFact
    <3> QED BY <1>2, <2>2, <3>1 DEF ShowsTickets
  <2> QED BY <2>1, <2>2
<1>4. c.reply \in Seq(Byte) /\ (c.reply # <<>> => Len(c.reply) = 8)
  <2>1. CASE shown = {}
    <3>1. <<>> \in Seq(Byte)
      OBVIOUS
    <3> QED BY <1>3, <2>1, <3>1
  <2>2. CASE shown # {}
    BY <1>3, <2>2, ReplyFact
  <2> QED BY <2>1, <2>2
<1> HIDE DEF c
<1>5. /\ IsSent(Sent(ack)) /\ Sent(ack).packet.payload = c.reply
      /\ "Ack" \in Sent(ack).packet.flags
  BY <1>1, <1>2, <1>4, AckFact
<1> HIDE DEF ack
<1>6. /\ toServer' = <<>> /\ sequence' \in Word
      /\ toGame' \in Seq(Range(toGame'))
      /\ \A d \in InFlight' : IsSent(d)
      /\ \A i \in DOMAIN toGame' : toGame'[i] = Sent(ack)
  BY <1>1, <1>5, AcksFact DEF WireInv
<1>7. NoAnswer'
  BY <1>1, <1>2, <1>5, <1>6 DEF NoAnswer
<1>8. TicketHoldersConnect'
  BY <1>1, <1>3, <1>5, <1>6 DEF TicketHoldersConnect
<1> QED BY <1>1, <1>2, <1>6, <1>7, <1>8 DEF WireInv

LEMMA CallStep ==
    ASSUME CompressorIsFaithful, WireInv, NEW a \in DOMAIN Answers, Call(a)
    PROVE  WireInv'
<1> DEFINE payload == AnswerBytes(a)
           n   == ChunkCount(payload)
           ack == Ack(Read1, <<>>)
           f   == Response(Read1, payload)
<1>1. /\ Readable /\ Read1.type = "Data" /\ ServerReads(ack, f)
      /\ answer' = a /\ joined' = joined /\ received' = received
  BY DEF Call
<1>2. WellFormed(Read1) /\ OfConnection(Read1) /\ joined = <<>> /\ received = <<>>
  BY <1>1, ReadFact
<1>3. a # 0 /\ payload \in Seq(Byte) /\ payload # <<>> /\ n <= 256
  BY AnswersAssumption
<1>4. n \in Nat \ {0}
  BY <1>3, ChunksFact
<1>5. /\ IsSent(Sent(ack)) /\ Sent(ack).packet.type = "Data" /\ "Ack" \in Sent(ack).packet.flags
  <2>1. <<>> \in Seq(Byte)
    OBVIOUS
  <2> QED BY <1>1, <1>2, <2>1, AckFact
<1> HIDE DEF ack, payload
<1>6. sequence \in Word
  BY DEF WireInv
<1>7. ASSUME NEW i \in 1..n
      PROVE  /\ IsSent(Sent(f[i])) /\ Sent(f[i]).packet.type = "Data"
             /\ IsAnswerPacket(Sent(f[i]).packet, payload, i)
  BY <1>1, <1>2, <1>3, <1>6, ResponseFact
<1>8. IsList(f, n)
  BY <1>4 DEF IsList, Response
<1> HIDE DEF f, n
<1>9. /\ toServer' = <<>> /\ sequence' \in Word
      /\ IsList(toGame', n + 1)
      /\ \A d \in InFlight' : IsSent(d)
      /\ toGame'[1] = Sent(ack) /\ \A i \in 1..n : toGame'[i + 1] = Sent(f[i])
  BY <1>1, <1>5, <1>6, <1>7, <1>8, ServerReadsFact
<1>10. toGame' \in Seq(Range(toGame')) /\ Len(toGame') = n + 1 /\ DOMAIN toGame' = 1..(n + 1)
  BY <1>9, OwnFact
<1>11. ASSUME NEW j \in 1..(n + 1)
       PROVE  /\ IsAnswerPacket(toGame'[j].packet, payload, j - 1)
              /\ toGame'[j].packet.type = "Data"
  <2>1. CASE j = 1
    <3>1. IsAnswerPacket(Sent(ack).packet, payload, 0)
      BY <1>5 DEF IsAnswerPacket
    <3> QED BY <1>5, <1>9, <2>1, <3>1
  <2>2. CASE j # 1
    <3>1. j - 1 \in 1..n /\ j = (j - 1) + 1
      BY <1>4, <2>2
    <3> QED BY <1>7, <1>9, <3>1
  <2> QED BY <2>1, <2>2
<1>12. Answering'
  <2> DEFINE m == Len(toGame')
  <2>1. m = n + 1 /\ m # 0 /\ m \notin 1..n /\ m <= n + 1
    BY <1>4, <1>10
  <2>2. \A j \in 1..m : n - m + j = j - 1 /\ j \in 1..(n + 1)
    BY <1>4, <2>1
  <2>3. \A j \in 1..m : IsAnswerPacket(toGame'[j].packet, payload, n - m + j)
    BY <1>11, <2>2
  <2>4. /\ joined' = IF m \in 1..n THEN UpTo(payload, n - m) ELSE <<>>
        /\ received' = IF m = 0 THEN <<Got(Answers[a].value, <<>>)>> ELSE <<>>
    BY <1>1, <1>2, <2>1
  <2>5. AnswerBytes(a) = payload /\ ChunkCount(AnswerBytes(a)) = n
    BY DEF payload, n
  <2>6. AnswerBytes(answer') = payload /\ answer' = a
    BY <1>1, <2>5
  <2> QED BY <2>1, <2>3, <2>4, <2>5, <2>6 DEF Answering
<1>13. TicketHoldersConnect'
  BY <1>10, <1>11 DEF TicketHoldersConnect
<1> QED BY <1>1, <1>3, <1>9, <1>10, <1>12, <1>13 DEF WireInv

\* What the game has sent, when nothing else was on its way.
LEMMA SendsFact ==
    ASSUME WireInv, toServer = <<>>, toGame = <<>>, NEW p, WellFormed(p), OfConnection(p),
           toServer' = <<[packet |-> p, bytes |-> ToBytes(p)]>>,
           p.type = "Connect" => ShowsTickets(p.payload)',
           answer' = 0, received' = <<>>,
           UNCHANGED <<toGame, sequence, joined, user>>
    PROVE  WireInv'
<1> DEFINE d == [packet |-> p, bytes |-> ToBytes(p)]
<1>1. d.packet = p /\ IsSent(d)
  BY DEF IsSent
<1> HIDE DEF d
<1>2. toServer' = <<d>> /\ toServer'[1] = d
  BY DEF d
<1>3. Asked'
  <2>1. p.type = "Connect" => ShowsTickets(d.packet.payload)'
    BY <1>1
  <2> QED BY <1>1, <1>2, <2>1 DEF Asked, OfConnection
<1>4. \A e \in InFlight' : e = d
  BY <1>2 DEF InFlight
<1>5. joined = <<>>
  <2>1. CASE answer = 0
    BY <2>1 DEF WireInv, NoAnswer
  <2>2. CASE answer # 0
    <3>1. Answering
      BY <2>2 DEF WireInv
    <3>2. Len(toGame) = 0
      OBVIOUS
    <3>3. \A n : 0 \notin 1..n
      OBVIOUS
    <3> QED BY <3>1, <3>2, <3>3 DEF Answering
  <2> QED BY <2>1, <2>2
<1>6. NoAnswer' /\ TicketHoldersConnect'
  BY <1>5 DEF NoAnswer, TicketHoldersConnect
<1>7. sequence' \in Word /\ toGame' \in Seq(Range(toGame'))
  BY DEF WireInv
<1> QED BY <1>1, <1>3, <1>4, <1>6, <1>7 DEF WireInv

LEMMA GameSendsStep ==
    ASSUME WireInv, NEW p \in GamePackets, GameSends(p)
    PROVE  WireInv'
<1>1. WellFormed(p) /\ OfConnection(p)
  BY GameAssumption DEF OfConnection
<1>2. p.type = "Connect" /\ p.payload # <<>> => Connected(p.payload).users = {}
  BY NoForgedTickets
<1>3. p.type = "Connect" => ShowsTickets(p.payload)'
  BY <1>2 DEF GameSends, ShowsTickets
<1> QED BY <1>1, <1>3, SendsFact DEF GameSends

\* The ticket of a login gets its holder connected.
LEMMA LoginFact ==
    ASSUME CipherIsBytes, CompressorIsFaithful, NEW login, NEW value, IsLogin(login, value)
    PROVE  LET held    == GameReadsTicket(value[login.at], login.user, login.password)
               payload == ConnectPayload(held.value, login.user, 1, Challenge)
               p       == [GameConnect EXCEPT !.payload = payload]
           IN  /\ WellFormed(p) /\ OfConnection(p) /\ p.type = "Connect" /\ p.payload = payload
               /\ payload # <<>> /\ Connected(payload).users = {login.user}
               /\ Connected(payload).reply = Reply(Challenge)
<1> DEFINE t       == login.ticket
           sealed  == HeldOf(t, login.nonce)
           ticket  == GameReadsTicket(value[login.at], login.user, login.password)
           payload == ConnectPayload(sealed, login.user, 1, Challenge)
           p       == [GameConnect EXCEPT !.payload = payload]
           n       == NonceSize + SessionKeySize
<1>1. /\ IsTicket(t, login.nonce) /\ t.user = login.user /\ login.password \in Seq(Seq(Byte))
      /\ value[login.at] = AsBytes(t, login.nonce, login.user, login.password)
  BY DEF IsLogin
<1>2. Fits(login.user, 4) /\ login.user \in Nat
  BY <1>1 DEF IsTicket, Fits
<1>3. n \in Nat /\ n + 34 <= Len(KeyStream) /\ Len(KeyStream) \in Word /\ Len(KeyStream) \in Nat
  BY TicketsAssumption, ConnectAssumption, KeysAssumption
<1>4. n + 13 \in Word
  <2> HIDE DEF n
  <2>1. n + 13 \in Nat /\ n + 13 <= Len(KeyStream)
    BY <1>3
  <2> QED BY <1>3, <2>1, WordDown
<1>5. n + 13 <= MaxCollectionItems /\ 12 <= MaxCollectionItems
  BY ConnectAssumption
<1>6. ticket.value = sealed
  <2>1. ticket = Got(sealed, <<>>)
    BY <1>1, <1>2, <1>4, <1>5, TicketFact
  <2> HIDE DEF ticket, sealed
  <2> QED BY <2>1, GotFact
<1>7. Fits(Challenge, 4)
  BY GameAssumption
<1>8. /\ payload \in Seq(Byte) /\ Len(payload) = n + 33
      /\ Connected(payload).users = {t.user} /\ Connected(payload).reply = Reply(Challenge)
  <2> HIDE DEF t
  <2>1. IsTicket(t, login.nonce)
    BY <1>1
  <2> QED BY <1>2, <1>4, <1>5, <1>7, <2>1, ConnectFact
<1> HIDE DEF payload, t, sealed, ticket, n
<1>9. /\ WellFormed(GameConnect) /\ OfConnection(GameConnect)
      /\ GameConnect.type = "Connect" /\ ~GameConnect.compress
  BY GameAssumption DEF OfConnection
<1>10. FieldsFit(GameConnect) /\ GameConnect.compress \in BOOLEAN
  BY <1>9 DEF WellFormed
<1>11. GameConnect = [f \in PacketFields |-> GameConnect[f]]
  BY <1>10 DEF FieldsFit
<1>12. /\ p.source = GameConnect.source /\ p.destination = GameConnect.destination
       /\ p.type = GameConnect.type /\ p.flags = GameConnect.flags
       /\ p.session = GameConnect.session /\ p.signature = GameConnect.signature
       /\ p.sequence = GameConnect.sequence /\ p.connSignature = GameConnect.connSignature
       /\ p.fragment = GameConnect.fragment /\ p.compress = GameConnect.compress
       /\ p.payload = payload
  BY <1>11 DEF PacketFields
<1>13. p = [f \in PacketFields |-> p[f]]
  BY <1>11 DEF PacketFields
<1> HIDE DEF p
<1>14. FieldsFit(p)
  BY <1>10, <1>12, <1>13 DEF FieldsFit
<1>15. /\ p.compress \in BOOLEAN /\ p.payload \in Seq(Byte) /\ OfConnection(p)
       /\ p.payload # <<>> => IsSecret(p.type, p.source)
       /\ ~p.compress /\ Len(p.payload) < Len(KeyStream)
  BY <1>3, <1>8, <1>9, <1>10, <1>12 DEF OfConnection, IsSecret
<1>16. WellFormed(p)
  BY <1>14, <1>15, PayloadFits
<1>17. payload # <<>>
  <2>1. n + 33 # 0
    BY <1>3
  <2> QED BY <1>8, <2>1
<1>18. Connected(payload).users = {login.user} /\ Connected(payload).reply = Reply(Challenge)
  BY <1>1, <1>8 DEF t
<1>19. ConnectPayload(ticket.value, login.user, 1, Challenge) = payload
  BY <1>6 DEF payload
<1> QED BY <1>9, <1>12, <1>15, <1>16, <1>17, <1>18, <1>19 DEF p, ticket

\* What the game has received when nothing is on its way.
LEMMA ReceivedFact ==
    ASSUME WireInv, toGame = <<>>, received # <<>>
    PROVE  answer \in DOMAIN Answers /\ received = <<Got(Answers[answer].value, <<>>)>>
<1>1. answer # 0 /\ Answering
  BY DEF WireInv, NoAnswer
<1>2. Len(toGame) = 0
  OBVIOUS
<1> QED BY <1>1, <1>2 DEF Answering

LEMMA GameConnectsStep ==
    ASSUME CipherIsBytes, CompressorIsFaithful, WireInv, GameConnects
    PROVE  WireInv'
<1> DEFINE Held(login) == GameReadsTicket(received[1].value[login.at], login.user, login.password)
           Shown(login) == [GameConnect EXCEPT !.payload =
                                ConnectPayload(Held(login).value, login.user, 1, Challenge)]
<1>1. PICK login : login = Answers[answer].login
  OBVIOUS
<1>2. PICK p : p = Shown(login)
  OBVIOUS
<1>3. /\ toServer = <<>> /\ toGame = <<>> /\ received # <<>>
      /\ "login" \in DOMAIN Answers[answer]
      /\ toServer' = <<[packet |-> p, bytes |-> ToBytes(p)]>>
      /\ shown' = {login.user} /\ answer' = 0 /\ received' = <<>>
      /\ UNCHANGED <<toGame, sequence, joined, user>>
  BY <1>1, <1>2 DEF GameConnects
<1>4. answer \in DOMAIN Answers /\ received[1].value = Answers[answer].value
  <2>1. answer \in DOMAIN Answers /\ received = <<Got(Answers[answer].value, <<>>)>>
    BY <1>3, ReceivedFact
  <2>2. received[1] = Got(Answers[answer].value, <<>>)
    BY <2>1
  <2> QED BY <2>1, <2>2, GotFact
<1>5. IsLogin(login, received[1].value)
  BY <1>1, <1>3, <1>4, LoginsAssumption
<1>6. /\ WellFormed(p) /\ OfConnection(p)
      /\ p.payload # <<>> /\ Connected(p.payload).users = {login.user}
      /\ Connected(p.payload).reply = Reply(Challenge)
  BY <1>2, <1>5, LoginFact
<1>7. p.type = "Connect" => ShowsTickets(p.payload)'
  BY <1>3, <1>6 DEF ShowsTickets
<1> QED BY <1>3, <1>6, <1>7, SendsFact

\* What the game has read.
LEMMA GameReadFact ==
    ASSUME WireInv, toGame # <<>>
    PROVE  LET p == Arrived(toGame[1]).packet
               q == toGame[1].packet
           IN  /\ toServer = <<>>
               /\ p.flags = q.flags /\ p.fragment = q.fragment /\ p.payload = q.payload
<1>1. toServer = <<>>
  BY DEF WireInv, Asked
<1>2. IsSent(toGame[1])
  <2>1. toGame \in Seq(Range(toGame))
    BY DEF WireInv
  <2>2. 1 \in DOMAIN toGame
    BY <2>1, TailFact
  <2>3. toGame[1] \in InFlight
    BY <2>2 DEF InFlight
  <2> QED BY <2>3 DEF WireInv
<1>3. Arrived(toGame[1]).packet = OnTheWire(toGame[1].packet)
  BY <1>2, ArrivedFact
<1> QED BY <1>1, <1>3 DEF OnTheWire

LEMMA TailStep ==
    ASSUME WireInv, toGame # <<>>, toGame' = Tail(toGame),
           UNCHANGED <<toServer, sequence, shown, user>>
    PROVE  /\ toServer' = <<>> /\ sequence' \in Word
           /\ toGame' \in Seq(Range(toGame')) /\ \A d \in InFlight' : IsSent(d)
           /\ TicketHoldersConnect'
           /\ Len(toGame) \in Nat \ {0} /\ Len(toGame') = Len(toGame) - 1
           /\ DOMAIN toGame' = 1..(Len(toGame) - 1) /\ DOMAIN toGame = 1..Len(toGame)
           /\ \A i \in 1..(Len(toGame) - 1) : toGame'[i] = toGame[i + 1] /\ i + 1 \in 1..Len(toGame)
<1>1. toServer' = <<>> /\ sequence' \in Word
  BY DEF WireInv, Asked
<1>2. toGame \in Seq(Range(toGame))
  BY DEF WireInv
<1>3. /\ Len(toGame) \in Nat \ {0} /\ Len(toGame') = Len(toGame) - 1
      /\ DOMAIN toGame' = 1..(Len(toGame) - 1) /\ DOMAIN toGame = 1..Len(toGame)
      /\ \A i \in 1..(Len(toGame) - 1) : toGame'[i] = toGame[i + 1] /\ i + 1 \in 1..Len(toGame)
      /\ toGame' \in Seq(Range(toGame'))
  BY <1>2, TailFact
<1>4. ASSUME NEW i \in DOMAIN toGame' PROVE \E j \in DOMAIN toGame : toGame'[i] = toGame[j]
  BY <1>3
<1>5. ASSUME NEW d \in InFlight' PROVE IsSent(d)
  <2>1. PICK i \in DOMAIN toGame' : d = toGame'[i]
    BY <1>1 DEF InFlight
  <2>2. PICK j \in DOMAIN toGame : d = toGame[j]
    BY <1>4, <2>1
  <2>3. d \in InFlight
    BY <2>2 DEF InFlight
  <2> QED BY <2>3 DEF WireInv
<1>6. TicketHoldersConnect'
  <2>1. TicketHoldersConnect
    BY DEF WireInv
  <2> QED BY <1>4, <2>1 DEF TicketHoldersConnect
<1> QED BY <1>1, <1>3, <1>5, <1>6

\* The answer goes on: the game has one chunk more, or the whole of it.
LEMMA AnswerGoesOn ==
    ASSUME WireInv, answer # 0, toGame # <<>>
    PROVE  LET payload == AnswerBytes(answer)
               n == ChunkCount(payload)
               m == Len(toGame)
           IN  /\ answer \in DOMAIN Answers /\ payload \in Seq(Byte) /\ payload # <<>>
               /\ n \in Nat \ {0} /\ m \in 1..(n + 1)
               /\ \A j \in 1..m : IsAnswerPacket(toGame[j].packet, payload, n - m + j)
               /\ joined = IF m = n + 1 THEN <<>> ELSE UpTo(payload, n - m)
               /\ received = <<>>
<1>1. Answering
  BY DEF WireInv
<1>2. answer \in DOMAIN Answers
  BY <1>1 DEF Answering
<1> DEFINE payload == AnswerBytes(answer)
           n == ChunkCount(payload)
           m == Len(toGame)
<1>3. payload \in Seq(Byte) /\ payload # <<>>
  BY <1>2, AnswersAssumption
<1>4. n \in Nat \ {0}
  BY <1>3, ChunksFact
<1>5. m \in Nat \ {0}
  BY TailFact DEF WireInv
<1>6. /\ m <= n + 1
      /\ \A j \in 1..m : IsAnswerPacket(toGame[j].packet, payload, n - m + j)
      /\ joined = IF m \in 1..n THEN UpTo(payload, n - m) ELSE <<>>
      /\ received = IF m = 0 THEN <<Got(Answers[answer].value, <<>>)>> ELSE <<>>
  BY <1>1 DEF Answering
<1> HIDE DEF payload, n, m
<1>7. m \in 1..(n + 1) /\ (m \in 1..n <=> m # n + 1) /\ m # 0
  BY <1>4, <1>5, <1>6
<1>8. /\ joined = IF m = n + 1 THEN <<>> ELSE UpTo(payload, n - m)
      /\ received = <<>>
  BY <1>6, <1>7
<1> QED BY <1>2, <1>3, <1>4, <1>6, <1>7, <1>8 DEF payload, n, m

LEMMA GameReadsStep ==
    ASSUME WireInv, GameReads
    PROVE  WireInv'
<1> DEFINE p == Arrived(toGame[1]).packet
           q == toGame[1].packet
<1>1. /\ toGame # <<>> /\ toGame' = Tail(toGame)
      /\ UNCHANGED <<toServer, sequence, answer, received, shown, user>>
      /\ \/ "Ack" \in p.flags /\ joined' = joined
         \/ /\ "Ack" \notin p.flags /\ p.fragment # 0
            /\ joined' = joined \o p.payload
  BY DEF GameReads
<1>2. p.flags = q.flags /\ p.fragment = q.fragment /\ p.payload = q.payload
  BY <1>1, GameReadFact
<1> HIDE DEF p
<1>3. /\ toServer' = <<>> /\ sequence' \in Word
      /\ toGame' \in Seq(Range(toGame')) /\ \A d \in InFlight' : IsSent(d)
      /\ TicketHoldersConnect'
      /\ Len(toGame) \in Nat \ {0} /\ Len(toGame') = Len(toGame) - 1
      /\ DOMAIN toGame' = 1..(Len(toGame) - 1) /\ DOMAIN toGame = 1..Len(toGame)
      /\ \A i \in 1..(Len(toGame) - 1) : toGame'[i] = toGame[i + 1] /\ i + 1 \in 1..Len(toGame)
  BY <1>1, TailStep
<1>4. CASE answer = 0
  <2>1. NoAnswer
    BY <1>4 DEF WireInv
  <2>2. 1 \in DOMAIN toGame
    BY <1>3
  <2>3. joined' = joined
    BY <1>1, <1>2, <2>1, <2>2 DEF NoAnswer
  <2>4. NoAnswer'
    BY <1>1, <1>3, <2>1, <2>3 DEF NoAnswer
  <2> QED BY <1>1, <1>3, <1>4, <2>4 DEF WireInv
<1>5. CASE answer # 0
  <2> DEFINE payload == AnswerBytes(answer)
             n == ChunkCount(payload)
             m == Len(toGame)
  <2>1. /\ answer \in DOMAIN Answers /\ payload \in Seq(Byte) /\ payload # <<>>
        /\ n \in Nat \ {0} /\ m \in 1..(n + 1)
        /\ \A j \in 1..m : IsAnswerPacket(toGame[j].packet, payload, n - m + j)
        /\ joined = IF m = n + 1 THEN <<>> ELSE UpTo(payload, n - m)
        /\ received = <<>>
    BY <1>1, <1>5, AnswerGoesOn
  <2>2. /\ UpTo(payload, 0) = <<>>
        /\ \A i \in 1..n : UpTo(payload, i - 1) \o ChunkOf(payload, i) =
                               IF i = n THEN payload ELSE UpTo(payload, i)
    BY <2>1, ChunksFact
  <2>3. answer' = answer /\ AnswerBytes(answer') = payload
    BY <1>1
  <2>4. ChunkCount(AnswerBytes(answer')) = n
    BY <2>3
  <2> DEFINE k == n - m + 1
  <2> HIDE DEF payload, n, m, k
  <2>5. IsAnswerPacket(q, payload, k)
    <3>1. 1 \in 1..m
      BY <2>1
    <3> QED BY <2>1, <3>1 DEF k
  <2>6. k \in 0..n /\ m - 1 = n - k /\ n - (m - 1) = k /\ n - m = k - 1
    BY <2>1 DEF k
  <2>7. m - 1 # 0 /\ joined' = UpTo(payload, n - (m - 1))
    <3>1. CASE k = 0
      <4>1. "Ack" \in q.flags
        BY <2>5, <3>1 DEF IsAnswerPacket
      <4>2. m = n + 1 /\ m - 1 # 0
        BY <2>1, <2>6, <3>1
      <4>3. joined' = <<>>
        BY <1>1, <1>2, <2>1, <4>1, <4>2
      <4> QED BY <2>2, <2>6, <3>1, <4>2, <4>3
    <3>2. CASE k # 0
      <4>1. "Ack" \notin q.flags /\ q.fragment = n - k /\ q.payload = ChunkOf(payload, k)
        BY <2>5, <3>2 DEF IsAnswerPacket, n
      <4>2. joined' = joined \o q.payload /\ n - k # 0
        BY <1>1, <1>2, <4>1
      <4>3. k \in 1..n /\ k # n /\ m # n + 1
        BY <2>1, <2>6, <3>2, <4>2
      <4>4. joined = UpTo(payload, k - 1)
        BY <2>1, <2>6, <4>3
      <4>5. joined' = UpTo(payload, k)
        BY <2>2, <4>1, <4>2, <4>3, <4>4
      <4> QED BY <2>6, <4>2, <4>5
    <3> QED BY <3>1, <3>2
  <2>8. Len(toGame') = m - 1
    BY <1>3 DEF m
  <2>9. m - 1 \in 1..n /\ m - 1 <= n + 1
    BY <2>1, <2>7
  <2>10. ASSUME NEW j \in 1..(m - 1)
         PROVE  IsAnswerPacket(toGame'[j].packet, payload, n - (m - 1) + j)
    <3>1. j + 1 \in 1..m /\ n - m + (j + 1) = n - (m - 1) + j
      BY <2>1
    <3>2. toGame'[j] = toGame[j + 1]
      BY <1>3 DEF m
    <3> QED BY <2>1, <3>1, <3>2
  <2>11. received' = <<>> /\ answer' \in DOMAIN Answers
    BY <1>1, <2>1
  <2>12. Answering'
    BY <2>3, <2>4, <2>7, <2>8, <2>9, <2>10, <2>11 DEF Answering
  <2> QED BY <1>3, <1>5, <2>3, <2>12 DEF WireInv
<1> QED BY <1>4, <1>5

LEMMA GameReadsAnswerStep ==
    ASSUME ValuesReadBack, WireInv, GameReadsAnswer
    PROVE  WireInv'
<1> DEFINE p == Arrived(toGame[1]).packet
           q == toGame[1].packet
<1>1. /\ toGame # <<>> /\ toGame' = Tail(toGame)
      /\ UNCHANGED <<toServer, sequence, answer, shown, user>>
      /\ "Ack" \notin p.flags /\ p.fragment = 0
      /\ received' = Append(received, ReadValue(Answers[answer].kind, joined \o p.payload))
      /\ joined' = <<>>
  BY DEF GameReadsAnswer
<1>2. p.flags = q.flags /\ p.fragment = q.fragment /\ p.payload = q.payload
  BY <1>1, GameReadFact
<1> HIDE DEF p
<1>3. /\ toServer' = <<>> /\ sequence' \in Word
      /\ toGame' \in Seq(Range(toGame')) /\ \A d \in InFlight' : IsSent(d)
      /\ TicketHoldersConnect'
      /\ Len(toGame) \in Nat \ {0} /\ Len(toGame') = Len(toGame) - 1
      /\ DOMAIN toGame = 1..Len(toGame)
  BY <1>1, TailStep
<1>4. answer # 0
  <2>1. 1 \in DOMAIN toGame
    BY <1>3
  <2> QED BY <1>1, <1>2, <2>1 DEF WireInv, NoAnswer
<1> DEFINE payload == AnswerBytes(answer)
           n == ChunkCount(payload)
           m == Len(toGame)
<1>5. /\ answer \in DOMAIN Answers /\ payload \in Seq(Byte) /\ payload # <<>>
      /\ n \in Nat \ {0} /\ m \in 1..(n + 1)
      /\ \A j \in 1..m : IsAnswerPacket(toGame[j].packet, payload, n - m + j)
      /\ joined = IF m = n + 1 THEN <<>> ELSE UpTo(payload, n - m)
      /\ received = <<>>
  BY <1>1, <1>4, AnswerGoesOn
<1>6. \A i \in 1..n : UpTo(payload, i - 1) \o ChunkOf(payload, i) =
                          IF i = n THEN payload ELSE UpTo(payload, i)
  BY <1>5, ChunksFact
<1>7. ReadValue(Answers[answer].kind, payload) = Got(Answers[answer].value, <<>>)
  BY <1>5 DEF ValuesReadBack
<1> DEFINE k == n - m + 1
<1> HIDE DEF payload, n, m, k
<1>8. IsAnswerPacket(q, payload, k)
  <2>1. 1 \in 1..m
    BY <1>5
  <2> QED BY <1>5, <2>1 DEF k
<1>9. k \in 0..n /\ n - m = k - 1
  BY <1>5 DEF k
<1>10. k # 0
  BY <1>1, <1>2, <1>8 DEF IsAnswerPacket
<1>11. q.fragment = n - k /\ q.payload = ChunkOf(payload, k)
  BY <1>8, <1>10 DEF IsAnswerPacket, n
<1>12. k = n /\ m = 1 /\ m # n + 1 /\ k \in 1..n
  BY <1>1, <1>2, <1>5, <1>9, <1>10, <1>11 DEF k
<1>13. joined \o p.payload = payload
  <2>1. joined = UpTo(payload, k - 1)
    BY <1>5, <1>9, <1>12
  <2> QED BY <1>2, <1>6, <1>11, <1>12, <2>1
<1>14. received' = <<Got(Answers[answer].value, <<>>)>>
  <2>1. received' = Append(<<>>, Got(Answers[answer].value, <<>>))
    BY <1>1, <1>5, <1>7, <1>13
  <2> QED BY <2>1
<1>15. Len(toGame') = 0
  BY <1>3, <1>12 DEF m
<1>16. Answering'
  <2>1. answer' = answer /\ answer' \in DOMAIN Answers
    BY <1>1, <1>5
  <2>2. 0 <= ChunkCount(AnswerBytes(answer')) + 1
    <3>1. ChunkCount(AnswerBytes(answer')) = n
      BY <2>1 DEF n, payload
    <3> QED BY <1>5, <3>1
  <2>3. \A x : 0 \notin 1..x
    OBVIOUS
  <2>4. \A x, j : j \notin 1..0
    OBVIOUS
  <2> QED BY <1>1, <1>14, <1>15, <2>1, <2>2, <2>3, <2>4 DEF Answering
<1> QED BY <1>1, <1>3, <1>4, <1>16 DEF WireInv

LEMMA InitFact == Init => WireInv
<1> SUFFICES ASSUME Init PROVE WireInv
  OBVIOUS
<1>1. 1 \in Word
  BY SmallWords DEF Byte
<1>2. toGame \in Seq(Range(toGame)) /\ DOMAIN toGame = {}
  BY DEF Init
<1>3. InFlight = {}
  BY DEF Init, InFlight
<1> QED BY <1>1, <1>2, <1>3 DEF Init, WireInv, NoAnswer, TicketHoldersConnect

LEMMA NextFact ==
    ASSUME CipherIsBytes, CompressorIsFaithful, ValuesReadBack, WireInv, [Next]_vars
    PROVE  WireInv'
<1>1. CASE \E p \in GamePackets : GameSends(p)
  BY <1>1, GameSendsStep
<1>2. CASE GameConnects
  BY <1>2, GameConnectsStep
<1>3. CASE AckOnly
  BY <1>3, AckOnlyStep
<1>4. CASE Connect
  BY <1>4, ConnectStep
<1>5. CASE \E a \in DOMAIN Answers : Call(a)
  BY <1>5, CallStep
<1>6. CASE GameReads
  BY <1>6, GameReadsStep
<1>7. CASE GameReadsAnswer
  BY <1>7, GameReadsAnswerStep
<1>8. CASE UNCHANGED vars
  BY <1>8 DEF vars, WireInv, InFlight, Asked, ShowsTickets, NoAnswer, Answering,
              TicketHoldersConnect
<1> QED BY <1>1, <1>2, <1>3, <1>4, <1>5, <1>6, <1>7, <1>8 DEF Next

\* Whatever the game sends and however often, each of the four properties of the
\* exchanges holds, of a library that keeps its promises.
THEOREM ExchangesAreSound ==
    ASSUME CipherIsBytes, CompressorIsFaithful, ValuesReadBack
    PROVE  Spec => []WireInv
<1>1. Init => WireInv
  BY InitFact
<1>2. WireInv /\ [Next]_vars => WireInv'
  BY NextFact
<1> QED BY <1>1, <1>2, PTL DEF Spec

\* Every packet in flight is read as it was sent.
THEOREM PacketsAlwaysArrive ==
    ASSUME CipherIsBytes, CompressorIsFaithful, ValuesReadBack
    PROVE  Spec => []PacketsArriveAsSent
<1>1. WireInv => PacketsArriveAsSent
  BY PacketsAreReadAsWritten DEF WireInv, IsSent, PacketsArriveAsSent
<1> QED BY <1>1, ExchangesAreSound, PTL

\* One wrong bit in the packet that is next is refused.
THEOREM WrongBitsAlwaysRefused ==
    ASSUME CipherIsBytes, CompressorIsFaithful, ValuesReadBack
    PROVE  Spec => []WrongBitsAreRefused
<1>1. WireInv => WrongBitsAreRefused
  <2> SUFFICES ASSUME WireInv,
                      NEW d \in {toServer[i] : i \in DOMAIN toServer \cap {1}}
                                    \cup {toGame[i] : i \in DOMAIN toGame \cap {1}},
                      NEW i \in DOMAIN d.bytes \ EndBytes(d.packet), NEW w \in BitWeights
               PROVE  IsRefused(d.bytes, i, w)
    BY DEF WrongBitsAreRefused
  <2>1. d \in InFlight
    BY DEF InFlight
  <2>2. WellFormed(d.packet) /\ d.bytes = ToBytes(d.packet)
    BY <2>1 DEF WireInv, IsSent
  <2> QED BY <2>2, WrongBitsAreSeen
<1> QED BY <1>1, ExchangesAreSound, PTL

\* The caller has the value that the service returned, however many packets it took.
THEOREM AnswersAlwaysArrive ==
    ASSUME CipherIsBytes, CompressorIsFaithful, ValuesReadBack
    PROVE  Spec => []AnswersArrive
<1>1. WireInv => AnswersArrive
  <2> SUFFICES ASSUME WireInv, toGame = <<>>, answer # 0
               PROVE  received = <<Got(Answers[answer].value, <<>>)>>
    BY DEF AnswersArrive
  <2>1. Answering /\ Len(toGame) = 0
    BY DEF WireInv
  <2> QED BY <2>1 DEF Answering
<1> QED BY <1>1, ExchangesAreSound, PTL

\* Who shows a login's ticket is connected as who logged in, and nobody else as anyone.
THEOREM TicketHoldersAlwaysConnect ==
    ASSUME CipherIsBytes, CompressorIsFaithful, ValuesReadBack
    PROVE  Spec => []TicketHoldersConnect
<1>1. WireInv => TicketHoldersConnect
  BY DEF WireInv
<1> QED BY <1>1, ExchangesAreSound, PTL
=============================================================================
