------------------------------- MODULE Codec -------------------------------
(***************************************************************************)
(* Values on the wire (proto.go, ValueCodec.java, Protocol.java): what     *)
(* each side writes for a value and what it reads back.  A payload is a    *)
(* sequence of fields: a tag, a length, a number, a character.             *)
(*                                                                         *)
(* A value is [kind, data], with the kinds of its side; its data is a      *)
(* sequence of numbers, of a time <<at, off>>: the nanoseconds since the   *)
(* epoch and the zone in whole minutes.                                    *)
(***************************************************************************)
EXTENDS Integers, Sequences

CONSTANTS
    MsPerSec, NsPerMs,   \* 1000 and 1000000 in the code
    MaxInt64             \* 2^63 - 1 in the code

ASSUME CodecAssumption ==
    MsPerSec \in Nat \ {0} /\ NsPerMs \in Nat \ {0} /\ MaxInt64 \in Nat \ {0}

NsPerSec == MsPerSec * NsPerMs

Value(k, d) == [kind |-> k, data |-> d]

-----------------------------------------------------------------------------
(* Layout *)

Tag == [Null |-> 0, Bool |-> 1, Int64 |-> 2, Float64 |-> 3, Decimal |-> 4,
        String |-> 5, Bytes |-> 6, Datetime |-> 7, Date |-> 8, Time |-> 9]

\* Kinds that carry their length.
Counted == {Tag.Decimal, Tag.String, Tag.Bytes, Tag.Date, Tag.Time}

\* Fields of the value whose tag is b[i], once they are known to be there.
Size(b, i) ==
    CASE b[i] = Tag.Null     -> 1
      [] b[i] = Tag.Datetime -> 4
      [] b[i] \in Counted    -> 2 + b[i + 1]
      [] OTHER               -> 2

\* Seeded faults for the mutation runs.
SubMilliWhole(ns)    == ns
BodyWithLength(b, i) == SubSeq(b, i + 1, i + Size(b, i) - 1)

\* Both sides split a time into milliseconds, zone, and the nanoseconds of
\* the second: the milliseconds travel twice.
TimeFields(d) == <<d[1] \div NsPerMs, d[2], d[1] % NsPerSec>>

Encode(tag, d) ==
    CASE tag = Tag.Datetime -> <<tag>> \o TimeFields(d)
      [] tag \in Counted    -> <<tag, Len(d)>> \o d
      [] OTHER              -> <<tag>> \o d

\* The values a side has, by the tag of each kind: numbers of their own, or as many
\* as their length says.
Values(tags) ==
    {v \in [kind : DOMAIN tags, data : Seq(Int)] :
        CASE tags[v.kind] = Tag.Null     -> Len(v.data) = 0
          [] tags[v.kind] = Tag.Datetime -> Len(v.data) = 2
          [] tags[v.kind] \in Counted    -> TRUE
          [] OTHER                       -> Len(v.data) = 1}

\* The value at field i is of a kind there is, and all there.
Whole(b, i) ==
    /\ b[i] \in Tag.Null..Tag.Time
    /\ b[i] \in Counted => i < Len(b) /\ b[i + 1] \in Nat
    /\ i + Size(b, i) - 1 <= Len(b)

\* For each field, where the values of b from it on start; a value that is cut
\* off or unknown makes the whole an error.
Starts(b) ==
    LET from[i \in 1..(Len(b) + 1)] ==
            IF i = Len(b) + 1 THEN [ok |-> TRUE, at |-> <<>>]
            ELSE IF ~Whole(b, i) THEN [ok |-> FALSE, at |-> <<>>]
            ELSE [from[i + Size(b, i)] EXCEPT !.at = <<i>> \o @]
    IN  from

Body(b, i) ==
    IF b[i] \in Counted THEN SubSeq(b, i + 2, i + 1 + b[i + 1])
    ELSE SubSeq(b, i + 1, i + Size(b, i) - 1)

-----------------------------------------------------------------------------
(* Go: encodeValue, decodeValue *)

GoTag == [nil |-> Tag.Null, bool |-> Tag.Bool, int64 |-> Tag.Int64, float64 |-> Tag.Float64,
          string |-> Tag.String, bytes |-> Tag.Bytes, time |-> Tag.Datetime]

encodeValue(v) == Encode(GoTag[v.kind], v.data)

GoKind(tag) ==
    CASE tag = Tag.Null -> "nil" [] tag = Tag.Bool -> "bool" [] tag = Tag.Int64 -> "int64"
      [] tag = Tag.Float64 -> "float64" [] tag = Tag.Bytes -> "bytes" [] tag = Tag.Datetime -> "time"
      [] OTHER -> "string"

\* int64 arithmetic.
Wrap(n) == ((n + MaxInt64 + 1) % (2 * (MaxInt64 + 1))) - (MaxInt64 + 1)

\* What the nanosecond field adds to the milliseconds, on both sides.
SubMilli(ns) == ns % NsPerMs

\* time.Unix(0, ms*1e6 + nanos%1e6).
ToTime(b, i) == <<Wrap(Wrap(b[i + 1] * NsPerMs) + SubMilli(b[i + 3])), b[i + 2]>>

decodeValue(b, i) ==
    Value(GoKind(b[i]), IF b[i] = Tag.Datetime THEN ToTime(b, i) ELSE Body(b, i))

\* One row per batch; were there more, the first would take all values.
EncodeRowBatch(conn, id, values) == <<conn, id, 1>> \o values
decodeRowBatch(b) ==
    LET found == Starts(b)[4]
    IN  [ok  |-> found.ok /\ Len(b) >= 3,
         row |-> [n \in DOMAIN found.at |-> decodeValue(b, found.at[n])]]

-----------------------------------------------------------------------------
(* Java: ValueCodec.encodeValue, Protocol.decodeValue *)

JavaTag == [null |-> Tag.Null, Boolean |-> Tag.Bool, Integer |-> Tag.Int64, Long |-> Tag.Int64,
            Float |-> Tag.Float64, Double |-> Tag.Float64, BigDecimal |-> Tag.Decimal,
            Timestamp |-> Tag.Datetime, Date |-> Tag.Datetime, Time |-> Tag.Time,
            Clob |-> Tag.String, Blob |-> Tag.Bytes, bytes |-> Tag.Bytes, Object |-> Tag.String]

JavaKind(tag) ==
    CASE tag = Tag.Null -> "null" [] tag = Tag.Bool -> "Boolean" [] tag = Tag.Int64 -> "Long"
      [] tag = Tag.Float64 -> "Double" [] tag = Tag.Bytes -> "bytes" [] tag = Tag.Datetime -> "DateTimeValue"
      [] OTHER -> "Object"

\* new Timestamp(millis), then setNanos, which replaces the whole fraction of
\* the second by what is below a millisecond.
ToTimestamp(b, i) ==
    <<(b[i + 1] \div MsPerSec) * NsPerSec + SubMilli(b[i + 3]), b[i + 2]>>

decodeArg(b, i) ==
    Value(JavaKind(b[i]), IF b[i] = Tag.Datetime THEN ToTimestamp(b, i) ELSE Body(b, i))

\* Java reads an unknown tag as null, but Go sends none.
decodeArgs(b) ==
    LET found == Starts(b)[1]
    IN  [ok |-> found.ok, row |-> [n \in DOMAIN found.at |-> decodeArg(b, found.at[n])]]

\* The mysql family takes numbers, times and long texts as the driver renders
\* them; binary columns are read as bytes everywhere.
columnValue(family, v) ==
    IF v.kind = "Blob" THEN Value("bytes", v.data)
    ELSE IF family = "mysql" /\ v.kind \in {"BigDecimal", "Float", "Double", "Timestamp",
                                            "Date", "Time", "Clob"}
         THEN Value("Object", v.data)
    ELSE v

encodeColumn(family, v) ==
    LET c == columnValue(family, v) IN Encode(JavaTag[c.kind], c.data)
=============================================================================
