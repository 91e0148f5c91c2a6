---------------------------- MODULE RmcStreams -----------------------------
(***************************************************************************)
(* How the values of calls and answers are written and read:               *)
(* server/quazal/src/rmc/basic.rs and rmc/types.rs.  A kind is a tuple that *)
(* begins with the kind's name; a text is the sequence of its characters'  *)
(* codes.  32-bit codes (QResult) are their four bytes.                    *)
(***************************************************************************)
EXTENDS RmcBasics, FiniteSets

CONSTANT KnownErrors  \* the codes result::Error::try_from knows

\* A HashMap, from its entries: of two with one key the later counts.
KeysOf(entries)     == {entries[i][1] : i \in DOMAIN entries}
ValueOf(entries, k) == Last(SelectSeq(entries, LAMBDA e : e[1] = k))[2]
MapOf(entries)      == [k \in KeysOf(entries) |-> ValueOf(entries, k)]

\* Its entries, in the order they happen to be written.
EntriesOf(map) == SetToSeq({<<k, map[k]>> : k \in DOMAIN map})

-----------------------------------------------------------------------------
\* StationURL: scheme:/address=a;port=p;key=value;...

Equals    == 61
Semicolon == 59
ColonSlash == <<58, 47>>
AddressKey == <<97>>   \* "address", and "port" below, by their initials
PortKey    == <<112>>

SplitAt(t, c) ==
    FoldLeft(LAMBDA parts, x : IF x = c THEN Append(parts, <<>>)
                               ELSE [parts EXCEPT ![Len(parts)] = Append(@, x)],
             << <<>> >>, t)

\* split_once, when c is in t.
First(S)        == CHOOSE i \in S : \A j \in S : i <= j
Before(t, c)    == SubSeq(t, 1, First(Positions(t, c)) - 1)
After(t, c)     == SubSeq(t, First(Positions(t, c)) + 1, Len(t))

RECURSIVE Decimal(_)
Decimal(n) == IF n < 10 THEN <<48 + n>> ELSE Append(Decimal(n \div 10), 48 + (n % 10))

Number(t) == FoldLeft(LAMBDA n, c : 10 * n + c - 48, 0, t)

IsPort(t) == t # <<>> /\ (\A i \in DOMAIN t : t[i] \in 48..57) /\ Number(t) < 65536

\* Display: the address and the port first, then the parameters in any order.
UrlText(u) ==
    LET params == <<AddressKey \o <<Equals>> \o u.address, PortKey \o <<Equals>> \o Decimal(u.port)>>
                      \o [i \in DOMAIN EntriesOf(u.params) |->
                              EntriesOf(u.params)[i][1] \o <<Equals>> \o EntriesOf(u.params)[i][2]]
    IN  u.scheme \o ColonSlash \o
            FoldLeft(LAMBDA text, p : IF text = <<>> THEN p ELSE text \o <<Semicolon>> \o p, <<>>, params)

\* Where the scheme of a text ends.
SchemeEnds(t) == {i \in 1..Len(t) - 1 : SubSeq(t, i, i + 1) = ColonSlash}

ParamOf(p) == <<Before(p, Equals), After(p, Equals)>>

\* from_str.
UrlIn(t) ==
    LET parts  == SplitAt(SubSeq(t, First(SchemeEnds(t)) + 2, Len(t)), Semicolon)
        params == [i \in DOMAIN parts |-> ParamOf(parts[i])]
    IN  IF SchemeEnds(t) = {} THEN Fail
        ELSE IF \E i \in DOMAIN parts : Positions(parts[i], Equals) = {} THEN Fail
        ELSE IF ~{AddressKey, PortKey} \subseteq KeysOf(params) THEN Fail
        ELSE IF ~IsPort(ValueOf(params, PortKey)) THEN Fail
        ELSE Got([scheme |-> SubSeq(t, 1, First(SchemeEnds(t)) - 1), 
                  address |-> ValueOf(params, AddressKey), port |-> Number(ValueOf(params, PortKey)),
                  params |-> MapOf(SelectSeq(params, LAMBDA p : p[1] \notin {AddressKey, PortKey}))], <<>>)

-----------------------------------------------------------------------------
\* Values. Kinds: <<"unsigned", w>>, <<"signed", w>>, <<"bool">>, <<"bytes", w>>,
\* <<"text">>, <<"url">>, <<"result">>, <<"variant">>, <<"list", kind>>,
\* <<"qlist", kind>>, <<"map", kind, kind>>, <<"fields", kind, ..., kind>>,
\* <<"any", [class name -> kind]>>.

Ok == NumberBytes(65537, 4)

\* The content of each Variant, in the order of their tags.
VariantKinds ==
    << <<"fields">>, <<"signed", 8>>, <<"bytes", 8>>, <<"bool">>, <<"text">>,
       <<"unsigned", 8>>, <<"unsigned", 8>> >>

RECURSIVE Write(_, _)

WriteAll(kind, values) == FlattenSeq([i \in DOMAIN values |-> Write(kind, values[i])])

\* to_stream of each kind. An Any is its class name and the object.
Write(kind, v) ==
    CASE kind[1] \in {"unsigned", "signed"} -> NumberBytes(v, kind[2])
      [] kind[1] = "bool"    -> <<IF v THEN 1 ELSE 0>>
      [] kind[1] = "bytes"   -> v
      [] kind[1] = "text"    -> WriteText(v)
      [] kind[1] = "url"     -> WriteText(UrlText(v))
      [] kind[1] = "result"  -> IF v[1] = "Ok" THEN Ok ELSE v[2]
      [] kind[1] = "variant" -> <<v[1] - 1>> \o Write(VariantKinds[v[1]], v[2])
      [] kind[1] \in {"list", "qlist"} -> NumberBytes(Len(v), 4) \o WriteAll(kind[2], v)
      [] kind[1] = "map"     -> NumberBytes(Cardinality(DOMAIN v), 4)
                                    \o WriteAll(<<"fields", kind[2], kind[3]>>, EntriesOf(v))
      [] kind[1] = "fields"  -> FlattenSeq([i \in DOMAIN v |-> Write(kind[i + 1], v[i])])
      [] kind[1] = "any"     ->
             WriteText(v[1]) \o WriteBuffer(WriteBuffer(Write(kind[2][v[1]], v[2])))

RECURSIVE Read(_, _)

\* The values of the kinds, one after the other.
RECURSIVE ReadEach(_, _)
ReadEach(kinds, s) ==
    IF kinds = <<>> THEN Got(<<>>, s)
    ELSE Then(Read(Head(kinds), s), LAMBDA one :
         Then(ReadEach(Tail(kinds), one.rest), LAMBDA more :
              Got(<<one.value>> \o more.value, more.rest)))

\* Vec::from_stream and HashMap::from_stream; a QList has no limit of items.
ReadItems(kind, limited, s) ==
    Then(ReadNumber(4, FALSE, s), LAMBDA count :
        IF limited /\ count.value > MaxCollectionItems THEN Fail
        ELSE ReadEach([i \in 1..count.value |-> kind], count.rest))

\* QResult::from_stream.
ResultOf(code) ==
    CASE code = Ok -> <<"Ok">>
      [] code \in KnownErrors \ {Ok} -> <<"Error", code>>
      [] OTHER -> <<"Unknown", code>>

\* Any::from_stream and into_inner: the bytes of the object are in a buffer of their own
\* inside one. A class that is not registered is a panic.
ReadAny(classes, s) ==
    Then(ReadText(s), LAMBDA name :
    Then(ReadBuffer(name.rest), LAMBDA outer :
    Then(ReadBuffer(outer.value), LAMBDA data :
        IF name.value \notin DOMAIN classes THEN Panic
        ELSE Then(Read(classes[name.value], data.value),
                  LAMBDA v : Got(<<name.value, v.value>>, outer.rest)))))

\* Variant::from_stream.
ReadVariant(s) ==
    Then(ReadNumber(1, FALSE, s), LAMBDA tag :
        IF tag.value \notin 0..6 THEN Fail
        ELSE Then(Read(VariantKinds[tag.value + 1], tag.rest),
                  LAMBDA v : Got(<<tag.value + 1, v.value>>, v.rest)))

\* from_stream of each kind.
Read(kind, s) ==
    CASE kind[1] = "unsigned" -> ReadNumber(kind[2], FALSE, s)
      [] kind[1] = "signed"   -> ReadNumber(kind[2], TRUE, s)
      [] kind[1] = "bool"     -> Then(ReadNumber(1, FALSE, s), LAMBDA r : Got(r.value # 0, r.rest))
      [] kind[1] = "bytes"    -> ReadBytes(kind[2], s)
      [] kind[1] = "text"     -> ReadText(s)
      [] kind[1] = "url"      -> Then(ReadText(s), LAMBDA t :
                                     Then(UrlIn(t.value), LAMBDA u : Got(u.value, t.rest)))
      [] kind[1] = "result"   -> Then(ReadBytes(4, s), LAMBDA r : Got(ResultOf(r.value), r.rest))
      [] kind[1] = "variant"  -> ReadVariant(s)
      [] kind[1] = "list"     -> ReadItems(kind[2], TRUE, s)
      [] kind[1] = "qlist"    -> ReadItems(kind[2], FALSE, s)
      [] kind[1] = "map"      -> Then(ReadItems(<<"fields", kind[2], kind[3]>>, TRUE, s),
                                      LAMBDA m : Got(MapOf(m.value), m.rest))
      [] kind[1] = "fields"   -> ReadEach(Tail(kind), s)
      [] kind[1] = "any"      -> ReadAny(kind[2], s)
=============================================================================
