----------------------------- MODULE WireFormat -----------------------------
(***************************************************************************)
(* The protobuf decoder of internal/remotewrite/handler.go, as operators on *)
(* sequences of bytes, and the encoder that Prometheus applies.             *)
(*                                                                          *)
(* Scale.  A byte carries GroupBits bits of a varint and a continuation bit *)
(* (7 in protobuf), integers have Width bits (64), a double Double bytes    *)
(* (8) and a fixed32 Single bytes (4).  The code's limit of 10 bytes is the *)
(* least number of groups that hold Width bits, here too.                   *)
(*                                                                          *)
(* Outcomes.  "ok", "error" (ServeHTTP answers 400) or "abort": a slice     *)
(* expression out of range, which net/http turns into a closed connection.  *)
(***************************************************************************)
EXTENDS Integers, SequencesExt

CONSTANTS GroupBits, Width, Double, Single

ASSUME ScaleAssumption ==
    /\ GroupBits \in 4..7
    /\ Width \in Nat /\ Width > GroupBits
    /\ Double \in Nat \ {0} /\ Single \in Nat \ {0}

Half == 2^GroupBits                            \* 0x80
MaxBytes == (Width + GroupBits - 1) \div GroupBits   \* 10

From(data, n) == SubSeq(data, n + 1, Len(data))     \* data[n:]
Prefix(data, n) == SubSeq(data, 1, n)               \* data[:n]

\* int(v): the same bits, signed.
Signed(v) == IF v >= 2^(Width - 1) THEN v - 2^Width ELSE v

Bug_VarintOneByteShort(data) ==
    LET n == SelectInSeq(data, LAMBDA b : b < Half)
        group(i) == (data[i] % Half) * 2^(GroupBits * (i - 1))
    IN  IF n = 0 \/ n >= MaxBytes THEN [val |-> 0, n |-> 0]
        ELSE [val |-> MapThenSumSet(group, 1..n) % 2^Width, n |-> n]

\* The first byte without a continuation bit ends the number; n = 0 if there
\* is none among the first MaxBytes.  Shifts beyond Width lose bits.
decodeVarint(data) ==
    LET n == SelectInSeq(data, LAMBDA b : b < Half)
        group(i) == (data[i] % Half) * 2^(GroupBits * (i - 1))
    IN  IF n = 0 \/ n > MaxBytes THEN [val |-> 0, n |-> 0]
        ELSE [val |-> MapThenSumSet(group, 1..n) % 2^Width, n |-> n]

TagOf(v) == [num |-> v.val \div 8, wire |-> v.val % 8, n |-> v.n]
decodeTag(data) == TagOf(decodeVarint(data))

\* How many bytes a field takes after its tag: [out, n], where v is the varint
\* that data begins with.  A length is added as a signed number and compared
\* with nothing.
SkipBy(wire, v, data) ==
    LET fixed(k) == [out |-> IF Len(data) < k THEN "error" ELSE "ok", n |-> k]
        varint(n) == [out |-> IF v.n = 0 THEN "error" ELSE "ok", n |-> n]
    IN  CASE wire = 0 -> varint(v.n)
          [] wire = 1 -> fixed(Double)
          [] wire = 2 -> varint(v.n + Signed(v.val))
          [] wire = 5 -> fixed(Single)
          [] OTHER -> [out |-> "error", n |-> 0]

skipField(wire, data) == SkipBy(wire, decodeVarint(data), data)

\* data[n:] and data[:n] with n out of range.
Outside(n, data) == n < 0 \/ n > Len(data)

Bug_DelimitedUnchecked(v, data) ==
    LET rest == From(data, v.n)
        len == IF v.val > Len(rest) THEN Len(rest) ELSE v.val
    IN  IF v.n = 0 THEN [out |-> "error"]
        ELSE [out |-> "ok", payload |-> Prefix(rest, len), n |-> v.n + len]

\* A field of length v, the varint that data begins with: [out, payload, n].
Delimited(v, data) ==
    LET rest == From(data, v.n)
        len == Signed(v.val)
    IN  IF v.n = 0 \/ len > Len(rest) THEN [out |-> "error"]
        ELSE IF len < 0 THEN [out |-> "abort"]
        ELSE [out |-> "ok", payload |-> Prefix(rest, len), n |-> v.n + len]

-----------------------------------------------------------------------------
(* The loop that the four parsers share: read a tag, then take the field if *)
(* its <<number, wire type>> is known, or skip it.  The result has the      *)
(* fields taken before the end or the first failure.                        *)

\* A field that is used: [out, payload, n].
TakeBy(wire, v, data) ==
    CASE wire = 2 -> Delimited(v, data)
      [] wire = 1 -> IF Len(data) < Double THEN [out |-> "error"]
                     ELSE [out |-> "ok", payload |-> Prefix(data, Double), n |-> Double]
      [] wire = 0 -> IF v.n = 0 THEN [out |-> "error"]
                     ELSE [out |-> "ok", payload |-> Signed(v.val), n |-> v.n]

\* data[skip:] aborts if skip is out of range.
Sliced(skip, data) ==
    IF skip.out = "ok" /\ Outside(skip.n, data) THEN [out |-> "abort"] ELSE skip

\* The field at data[i:], after its tag: where the next one is, and what is
\* kept of this one.
Field(i, tag, used, got) ==
    IF tag.n = 0 THEN [out |-> "error"]
    ELSE IF got.out # "ok" THEN [out |-> got.out]
    ELSE [out |-> "ok", next |-> i + tag.n + got.n,
          kept |-> IF used THEN <<[num |-> tag.num, payload |-> got.payload]>> ELSE <<>>]

ReadField(i, tag, data, known) ==
    LET used == <<tag.num, tag.wire>> \in known
    IN  Field(i, tag, used,
              IF used THEN TakeBy(tag.wire, decodeVarint(data), data)
              ELSE Sliced(skipField(tag.wire, data), data))

FieldAt(data, i, tag, known) == ReadField(i, tag, From(data, i + tag.n), known)

Prepend(kept, later) == [later EXCEPT !.fields = kept \o @]

Loop(data, known) ==
    LET from[i \in 0..Len(data)] ==
            LET after(f) == IF f.out # "ok" THEN [out |-> f.out, fields |-> <<>>]
                            ELSE Prepend(f.kept, from[f.next])
            IN  IF i = Len(data) THEN [out |-> "ok", fields |-> <<>>]
                ELSE after(FieldAt(data, i, decodeTag(From(data, i)), known))
    IN  from[0]

\* Of a field that is not repeated the last occurrence counts.
LastOf(fields, num, default) ==
    LET at == SelectLastInSeq(fields, LAMBDA f : f.num = num)
    IN  IF at = 0 THEN default ELSE fields[at].payload

\* The embedded messages are parsed as they come: the first failure is the
\* result, and one of theirs comes before a later one of the loop.
Outcome(parts, loop) ==
    LET bad == SelectInSeq(parts, LAMBDA p : p.out # "ok")
    IN  IF bad = 0 THEN loop.out ELSE parts[bad].out

AnyDelimited == Nat \X {2}

LabelOf(l) ==
    IF l.out # "ok" THEN [out |-> l.out]
    ELSE [out |-> "ok", val |-> [name |-> LastOf(l.fields, 1, <<>>),
                                 value |-> LastOf(l.fields, 2, <<>>)]]

parseLabel(data) == LabelOf(Loop(data, AnyDelimited))

ZeroDouble == [i \in 1..Double |-> 0]

SampleOf(l) ==
    IF l.out # "ok" THEN [out |-> l.out]
    ELSE [out |-> "ok", val |-> [value |-> LastOf(l.fields, 1, ZeroDouble),
                                 ts |-> LastOf(l.fields, 2, 0)]]

parseSample(data) == SampleOf(Loop(data, {<<1, 1>>, <<2, 0>>}))

\* A time series' fields, parsed one by one.
Parts(l) ==
    [i \in 1..Len(l.fields) |->
       CASE l.fields[i].num = 1 -> parseLabel(l.fields[i].payload)
         [] l.fields[i].num = 2 -> parseSample(l.fields[i].payload)
         [] OTHER -> [out |-> "ok"]]

SeriesOf(l, parts) ==
    LET out == Outcome(parts, l)
        of(num) == FlattenSeq([i \in 1..Len(parts) |->
                                 IF l.fields[i].num = num THEN <<parts[i].val>> ELSE <<>>])
    IN  IF out # "ok" THEN [out |-> out]
        ELSE [out |-> "ok", val |-> [labels |-> of(1), samples |-> of(2)]]

SeriesIn(l) == SeriesOf(l, Parts(l))
parseTimeSeries(data) == SeriesIn(Loop(data, AnyDelimited))

RequestOf(l, parts) ==
    LET out == Outcome(parts, l)
    IN  IF out # "ok" THEN [out |-> out]
        ELSE [out |-> "ok", val |-> [i \in 1..Len(parts) |-> parts[i].val]]

RequestIn(l) ==
    RequestOf(l, [i \in 1..Len(l.fields) |-> parseTimeSeries(l.fields[i].payload)])

\* [out |-> "ok", val |-> the series], or [out |-> "error" or "abort"].
parseWriteRequest(data) == RequestIn(Loop(data, {<<1, 2>>}))

-----------------------------------------------------------------------------
(* The sender's side: proto3, where zero values are not sent.               *)

EncodeVarint(v) ==
    LET n == CHOOSE k \in 1..MaxBytes : v < Half^k /\ (k > 1 => v >= Half^(k - 1))
    IN  [i \in 1..n |-> ((v \div Half^(i - 1)) % Half) + (IF i < n THEN Half ELSE 0)]

EncodeDelimited(num, bytes) ==
    EncodeVarint(8 * num + 2) \o EncodeVarint(Len(bytes)) \o bytes

EncodeLabel(l) ==
    (IF l.name = <<>> THEN <<>> ELSE EncodeDelimited(1, l.name))
    \o (IF l.value = <<>> THEN <<>> ELSE EncodeDelimited(2, l.value))

EncodeSample(s) ==
    (IF s.value = ZeroDouble THEN <<>> ELSE EncodeVarint(9) \o s.value)
    \o (IF s.ts = 0 THEN <<>> ELSE EncodeVarint(16) \o EncodeVarint(s.ts % 2^Width))

\* extra: encoded fields the receiver does not know (exemplars, histograms).
EncodeSeries(ts, extra) ==
    FlattenSeq([i \in 1..Len(ts.labels) |-> EncodeDelimited(1, EncodeLabel(ts.labels[i]))])
    \o extra
    \o FlattenSeq([i \in 1..Len(ts.samples) |-> EncodeDelimited(2, EncodeSample(ts.samples[i]))])

\* extra: likewise (metadata).
EncodeRequest(series, inner, extra) ==
    extra
    \o FlattenSeq([i \in 1..Len(series) |-> EncodeDelimited(1, EncodeSeries(series[i], inner))])
    \o extra
=============================================================================
