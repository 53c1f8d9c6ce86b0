------------------------------ MODULE Parsers ------------------------------
(***************************************************************************)
(* The decoders at the two edges of the sidecar, fed by their peers: a      *)
(* write request as Prometheus encodes it, cut short at any byte, and the   *)
(* answers of a Netdata agent, rendered from what the agent knows.  A step  *)
(* is one input; the properties compare what comes out with what went in.   *)
(***************************************************************************)
EXTENDS WireFormat, Collector

CONSTANTS
    Messages,     \* write requests: sequences of [labels, samples]
    Extras,       \* encoded fields that the receiver does not know
    LabelKeys, LabelValues,   \* what an agent's labels may be made of
    Names,        \* contexts an agent has, as sequences of words
    UnitWords,    \* the units it reports them in
    Dims          \* the dimensions of the polled context, a sequence

\* No unit of an agent is called like an aggregation.
ASSUME NamesAssumption ==
    /\ Names \subseteq Seq(STRING)
    /\ \A u \in UnitWords : u \in STRING /\ ~Contains(Aggregations, u)

\* The code does not handle a "}" in a value; a key has none of the characters
\* that mean something in the format.  A line has two labels.
ASSUME LabelsAssumption ==
    /\ \A k \in LabelKeys :
        k \in Seq(STRING) /\ \A i \in 1..Len(k) : k[i] \notin {",", "=", "\"", "\\", CloseBrace}
    /\ \A v \in LabelValues :
        v \in Seq(STRING) /\ \A i \in 1..Len(v) : v[i] # CloseBrace
    /\ \E k1, k2 \in LabelKeys : k1 # k2 /\ LabelKeys = {k1, k2}

\* The context "c", which is enabled, is polled.  Its dimensions have names,
\* different ones, without characters that have to be escaped or split at.
\* "2" is a time.
ASSUME DimsAssumption ==
    /\ Dims \in Seq(Seq(STRING) \ {<<>>})
    /\ \A i, j \in 1..Len(Dims) : Dims[i] = Dims[j] => i = j
    /\ \A i \in 1..Len(Dims) : \A k \in 1..Len(Dims[i]) :
          Dims[i][k] \notin {",", "\"", "\\", CloseBrace}
    /\ <<"c">> \in Contexts
    /\ "2" \in Numbers

None == [kind |-> "none"]

VARIABLES input, output

vars == <<input, output>>

Init == input = None /\ output = None

\* One request body, of which the first len bytes arrive.
Receive(msg, inner, extra) ==
    LET bytes == EncodeRequest(msg, inner, extra)
    IN  \E len \in 0..Len(bytes) :
          /\ input' = [kind |-> "write", msg |-> msg, len |-> len,
                       whole |-> len = Len(bytes), plain |-> inner \o extra = <<>>]
          /\ output' = parseWriteRequest(Prefix(bytes, len))

\* The exposition format: quotes and backslashes in a value are escaped.
EscapeValue(v) ==
    FlattenSeq([i \in 1..Len(v) |-> IF v[i] \in {"\"", "\\"} THEN <<"\\", v[i]>>
                                    ELSE <<v[i]>>])

LabelPair(k, v) == k \o <<"=", "\"">> \o EscapeValue(v) \o <<"\"">>

LabelText(keys, labels) ==
    FlattenSeq([i \in 1..Len(keys) |->
                  (IF i > 1 THEN <<",">> ELSE <<>>) \o LabelPair(keys[i], labels[keys[i]])])

\* One line of allmetrics: its labels in some order, a number and a timestamp.
ReadLine(keys, labels) ==
    /\ input' = [kind |-> "line", labels |-> labels]
    /\ output' = parsePrometheusLine(
                   [name |-> <<"netdata", "x", "average">>, labelled |-> TRUE,
                    rest |-> LabelText(keys, labels) \o <<CloseBrace, "0", "2">>])

\* A context as allmetrics names it with source=average.
MetricName(name, unit) == <<"netdata">> \o name \o <<unit, "average">>

ReadName(name, unit) ==
    /\ input' = [kind |-> "name", name |-> name, unit |-> unit]
    /\ output' = parsePrometheusResponse(
                   <<[name |-> MetricName(name, unit), labelled |-> FALSE,
                      rest |-> <<"0">>]>>)

Empty == [result |-> <<>>, labels |-> <<>>, data |-> <<>>, objects |-> <<>>]

\* One context in the three shapes; "other" is a body of none of them.
Body(values, shape) ==
    CASE shape = "grouped" ->
            [Empty EXCEPT !.result = [i \in 1..Len(Dims) |->
               [key |-> <<<<"c">>, Dims[i], <<"n">>, <<"i">>>>, point |-> <<values[i]>>]]]
      [] shape = "flat" ->
            [Empty EXCEPT !.labels = <<<<"time">>>> \o Dims, !.data = <<<<"2">> \o values>>]
      [] shape = "objects" ->
            [Empty EXCEPT !.objects = [i \in 1..Len(Dims) |->
               [context |-> <<"c">>, dimension |-> Dims[i], value |-> values[i]]]]
      [] OTHER -> Empty

\* The same as lines of text; a dimension without a value has none.
Lines(values) ==
    LET line(i) == [name |-> <<"netdata", "c", "average">>, labelled |-> TRUE,
                    rest |-> LabelPair(Dimension, Dims[i]) \o <<CloseBrace, values[i], "2">>]
    IN  FlattenSeq([i \in 1..Len(Dims) |->
                      IF values[i] \in Numbers THEN <<line(i)>> ELSE <<>>])

\* One poll; the JSON endpoint may have a null where the agent has a value.
Poll(values, gaps, shape, status, promStatus) ==
    LET json == [i \in 1..Len(Dims) |-> IF i \in gaps THEN NotANumber ELSE values[i]]
    IN  /\ input' = [kind |-> "poll", values |-> values, json |-> json,
                     shape |-> IF status = 200 THEN shape ELSE "other",
                     promUp |-> promStatus = 200]
        /\ output' = Collect([status |-> status, body |-> Body(json, shape)],
                             [status |-> promStatus, lines |-> Lines(values)])

Idle == input # None /\ input' = None /\ output' = None

Feed ==
    \/ \E msg \in Messages, inner \in Extras, extra \in Extras :
          Receive(msg, inner, extra)
    \/ \E labels \in [LabelKeys -> LabelValues] :
          \E keys \in {k \in [1..2 -> LabelKeys] : k[1] # k[2]} : ReadLine(keys, labels)
    \/ \E name \in Names, unit \in UnitWords : ReadName(name, unit)
    \/ \E values \in [1..Len(Dims) -> Numbers \cup {NotANumber}],
          gaps \in SUBSET (1..Len(Dims)),
          shape \in {"grouped", "flat", "objects", "other"},
          status \in {0, 200, 503}, promStatus \in {0, 200, 503} :
          Poll(values, gaps, shape, status, promStatus)

Next == (input = None /\ Feed) \/ Idle

Spec == Init /\ [][Next]_vars

-----------------------------------------------------------------------------
(* A whole request decodes to what was encoded: timestamps over the full    *)
(* width, negative ones and zeros that are not on the wire included, and    *)
(* fields the receiver does not know skipped at every level.                *)
RoundTrip ==
    input.kind = "write" /\ input.whole
      => output = [out |-> "ok", val |-> input.msg]

(* A body that was cut is refused, or, if the cut fell between two series,  *)
(* decodes to the series before it: no series is ever half read, and none   *)
(* of the parsers runs off the end of a known field.                        *)
TruncationDetected ==
    input.kind = "write" /\ ~input.whole
      => \/ output.out = "error"
         \/ output.out = "abort" /\ ~input.plain
         \/ output.out = "ok" /\ IsPrefix(output.val, input.msg)

(* Commas, equal signs, quotes and backslashes in a label's value neither   *)
(* add nor lose a label nor spill into another: every key is found, with    *)
(* its value as it was escaped, except that a value which ends in a quote   *)
(* loses it.  (A value with a "}" is not handled by the code.)              *)
LabelsSurvive ==
    input.kind = "line"
      => /\ output.ok
         /\ DOMAIN output.labels = LabelKeys
         /\ \A k \in LabelKeys :
              LET v == input.labels[k] IN
              v = <<>> \/ v[Len(v)] # "\"" => output.labels[k] = EscapeValue(v)

(* The filter keeps every enabled context, whatever its unit and however    *)
(* its own words look like a unit or an aggregation, and everything whose   *)
(* name goes on from there; a context without a dot may also be written as  *)
(* allmetrics writes it, with "netdata" in front.  The filter keeps nothing *)
(* else if the unit is one that prometheusNameToContext knows.              *)
FilterExact ==
    input.kind = "name"
      => LET wanted == \/ \E ctx \in Contexts : HasPrefix(input.name, ctx)
                       \/ \E ctx \in Undotted : HasPrefix(<<"netdata">> \o input.name, ctx)
         IN  /\ wanted => output # <<>>
             /\ Contains(Units, input.unit) /\ output # <<>> => wanted

(* Collect reports every value under its own dimension and none twice: all  *)
(* that the JSON endpoint has, and if it has nothing, fails or makes no     *)
(* sense, all that the Prometheus endpoint has.  It invents nothing, save   *)
(* for the zero that the object shape gives to a missing value, dates the   *)
(* values of the flat shape as the agent does, and fails only if both       *)
(* endpoints do.                                                            *)
Pairs(values) == {<<Dims[i], values[i]>> : i \in {j \in 1..Len(Dims) : values[j] \in Numbers}}
Zeroed(values) == [i \in 1..Len(Dims) |-> IF values[i] \in Numbers THEN values[i] ELSE "0"]

Due(shape, json) ==
    CASE shape = "other" -> {}
      [] shape = "objects" -> Pairs(Zeroed(json))
      [] OTHER -> Pairs(json)
Told(s) == [i \in 1..Len(s) |-> <<s[i].dimension, s[i].value>>]

CollectsTruth ==
    input.kind = "poll"
      => LET told == Told(output.samples)
             json == Due(input.shape, input.json)
             due == IF json # {} THEN json
                    ELSE IF input.promUp THEN Pairs(input.values) ELSE {}
         IN  /\ ToSet(told) = due /\ Len(told) = Cardinality(due)
             /\ output.err <=> json = {} /\ ~input.promUp
             /\ input.shape = "flat" /\ json # {}
                  => \A i \in 1..Len(output.samples) : output.samples[i].at = "2"
=============================================================================
