----------------------------- MODULE RmcBasics -----------------------------
(***************************************************************************)
(* The building blocks of the values of calls, answers and tickets:        *)
(* numbers, buffers and texts of server/quazal/src/rmc/basic.rs.  Reading  *)
(* gives the value and the bytes left over, or an error.                   *)
(***************************************************************************)
EXTENDS Integers, SequencesExt

CONSTANTS
    TextLengths,        \* 2^16 in the code: the values of a text's length prefix
    MaxCollectionItems  \* MAX_COLLECTION_ITEMS

ASSUME LimitsAssumption == TextLengths \in Nat \ {0} /\ MaxCollectionItems \in Nat

Fail      == [ok |-> FALSE]
Panic     == [ok |-> FALSE, panicked |-> TRUE]
Got(v, s) == [ok |-> TRUE, value |-> v, rest |-> s]

\* The ? operator: what follows a value that was read.
Then(r, Op(_)) == IF r.ok THEN Op(r) ELSE r

Positions(t, c) == {i \in DOMAIN t : t[i] = c}

\* What is left of a number after each of its bytes.
Quotients(n, w) ==
    LET quotient[i \in 0..w] == IF i = 0 THEN n ELSE quotient[i - 1] \div 256
    IN  quotient

\* w bytes, lowest first; a negative number in two's complement.
NumberBytes(n, w) == [i \in 1..w |-> Quotients(n, w)[i - 1] % 256]

NumberIn(bytes, signed) ==
    LET top == Len(bytes)
        value[i \in 1..top] ==
            IF i < top THEN bytes[i] + 256 * value[i + 1]
            ELSE IF signed /\ bytes[i] > 127 THEN bytes[i] - 256 ELSE bytes[i]
    IN  value[1]

\* read_n_bytes.
ReadBytes(n, s) ==
    IF Len(s) < n THEN Fail ELSE Got(SubSeq(s, 1, n), SubSeq(s, n + 1, Len(s)))

ReadNumber(w, signed, s) ==
    Then(ReadBytes(w, s), LAMBDA r : Got(NumberIn(r.value, signed), r.rest))

\* A Vec<u8>: its length and its bytes.
WriteBuffer(bytes) == NumberBytes(Len(bytes), 4) \o bytes

ReadBuffer(s) ==
    Then(ReadNumber(4, FALSE, s), LAMBDA count :
        IF count.value > MaxCollectionItems THEN Fail ELSE ReadBytes(count.value, count.rest))

\* Mutant: the prefix of a text does not count its final NUL.
WriteText_WithoutNul(t) ==
    IF t = <<>> THEN NumberBytes(0, 2)
    ELSE NumberBytes(Len(t) % TextLengths, 2) \o t \o <<0>>

\* String::to_stream, CString::to_stream.
WriteText(t) ==
    IF t = <<>> THEN NumberBytes(0, 2)
    ELSE NumberBytes((Len(t) + 1) % TextLengths, 2) \o t \o <<0>>

\* CString::from_stream: the bytes have one NUL, the last one.
ReadText(s) ==
    Then(ReadNumber(2, FALSE, s), LAMBDA len :
        IF len.value = 0 THEN Got(<<>>, len.rest)
        ELSE Then(ReadBytes(len.value, len.rest), LAMBDA data :
            IF Positions(data.value, 0) = {len.value} THEN Got(Front(data.value), data.rest) ELSE Fail))

-----------------------------------------------------------------------------
\* The numbers that fit w bytes.
Fits(n, w) == n \in Nat /\ Quotients(n, w)[w] = 0
=============================================================================
