----------------------------- MODULE Collector -----------------------------
(***************************************************************************)
(* What internal/collector/collector.go makes of an agent's answers: the    *)
(* JSON endpoint with its three response shapes, the Prometheus endpoint it *)
(* falls back to, and the text parser of the latter.                        *)
(*                                                                          *)
(* Data.  A metric name or context is the sequence of its words, which the  *)
(* code keeps as one string joined by "_" or ".".  Label text is a sequence *)
(* of characters, in which a number is one character; NotANumber stands for *)
(* a JSON null or string, Special for NaN and the infinities of the text.   *)
(***************************************************************************)
EXTENDS Naturals, SequencesExt

CONSTANTS
    Contexts,     \* c.contexts, sequences of words
    Undotted,     \* those without a dot: of one word, or joined by "_"
    Longer,       \* Longer[w]: words that begin with the word w
    Numbers,      \* the numbers that occur, "0" among them
    NotANumber,
    Special

ASSUME NumbersAssumption == "0" \in Numbers /\ Special \notin Numbers

\* An empty string among the contexts would enable every metric.
ASSUME ContextsAssumption ==
    /\ Contexts \subseteq Seq(STRING) \ {<<>>}
    /\ Undotted \subseteq Contexts
    /\ \A ctx \in Contexts : Len(ctx) = 1 => ctx \in Undotted

\* strings.HasPrefix on names: the last word may be cut short.
HasPrefix(name, prefix) ==
    LET n == Len(prefix)
    IN  /\ n <= Len(name)
        /\ SubSeq(name, 1, n - 1) = SubSeq(prefix, 1, n - 1)
        /\ name[n] \in Longer[prefix[n]] \cup {prefix[n]}

-----------------------------------------------------------------------------
(* The text format.                                                         *)

TrimWord(name, word) ==
    IF Len(name) > 1 /\ name[Len(name)] = word THEN Front(name) ELSE name

Aggregations == <<"average", "total", "sum">>
Units == <<"percentage", "bytes", "kilobytes", "megabytes", "seconds",
           "operations", "requests", "count">>

\* Each aggregation is trimmed in turn.
Bare(name) ==
    TrimWord(TrimWord(TrimWord(name, Aggregations[1]), Aggregations[2]), Aggregations[3])

Bug_TrimsEveryUnit(name) == FoldLeft(TrimWord, Bare(name), Units)

\* And then at most one unit.
prometheusNameToContext(name) ==
    LET bare == Bare(name)
        unit == SelectInSeq(Units, LAMBDA u : TrimWord(bare, u) # bare)
    IN  IF unit = 0 THEN bare ELSE TrimWord(bare, Units[unit])

Bug_QuotesIgnored(text) ==
    LET step(st, ch) ==
            IF ch = "," THEN [done |-> Append(st.done, st.cur), cur |-> <<>>]
            ELSE [st EXCEPT !.cur = Append(@, ch)]
        end == FoldLeft(step, [done |-> <<>>, cur |-> <<>>], text)
    IN  IF end.cur = <<>> THEN end.done ELSE Append(end.done, end.cur)

\* The variables of the loop in splitLabels, and one pass of it: a comma
\* splits unless it is between quotes; a backslash hides the next character
\* from both rules; empty pieces are dropped.
Scanner(done, cur, inQuote, escaped) ==
    [done |-> done, cur |-> cur, inQuote |-> inQuote, escaped |-> escaped]

Push(st) ==
    IF st.cur = <<>> THEN st
    ELSE Scanner(Append(st.done, st.cur), <<>>, st.inQuote, st.escaped)

ScanChar(st, ch) ==
    LET write(inQuote, escaped) == Scanner(st.done, Append(st.cur, ch), inQuote, escaped)
    IN  IF st.escaped THEN write(st.inQuote, FALSE)
        ELSE IF ch = "\\" THEN write(st.inQuote, TRUE)
        ELSE IF ch = "\"" THEN write(~st.inQuote, FALSE)
        ELSE IF ch = "," /\ ~st.inQuote THEN Push(st)
        ELSE write(st.inQuote, FALSE)

splitLabels(text) ==
    LET after[i \in 0..Len(text)] ==
            IF i = 0 THEN Scanner(<<>>, <<>>, FALSE, FALSE)
            ELSE ScanChar(after[i - 1], text[i])
    IN  Push(after[Len(text)]).done

\* strings.Trim(v, "\"")
TrimQuotes(v) ==
    LET first == SelectInSeq(v, LAMBDA ch : ch # "\"")
        last == SelectLastInSeq(v, LAMBDA ch : ch # "\"")
    IN  IF first = 0 THEN <<>> ELSE SubSeq(v, first, last)

\* The label "dimension", which becomes a column as the labels chart, family,
\* instance and units do.
Dimension == <<"d">>

\* The map sample.Labels: a pair without "=" is dropped, a later one wins.
EqualSign(piece) == SelectInSeq(piece, LAMBDA ch : ch = "=")
LabelKey(piece) == SubSeq(piece, 1, EqualSign(piece) - 1)
LabelValue(piece) == TrimQuotes(SubSeq(piece, EqualSign(piece) + 1, Len(piece)))

LabelMap(text) ==
    LET piece == splitLabels(text)
        pairs == {i \in 1..Len(piece) : Contains(piece[i], "=")}
        last(k) == Max({i \in pairs : LabelKey(piece[i]) = k})
    IN  [k \in {LabelKey(piece[i]) : i \in pairs} |-> LabelValue(piece[last(k)])]

\* A special value is refused only if it stands alone: with a timestamp after
\* it, Sscanf reads it.  Sscanf ignores what follows a number.
parseFloat(value) ==
    /\ value # <<>> /\ value # <<Special>>
    /\ value[1] \in Numbers \cup {Special}

\* A line that is not blank and no comment is [name, labelled, rest].  After
\* "{" come the label text, the first "}", the value and maybe a timestamp;
\* without labels only the word after the name is read.
CloseBrace == "}"

parsePrometheusLine(line) ==
    LET end == SelectInSeq(line.rest, LAMBDA ch : ch = CloseBrace)
        labels == IF line.labelled THEN LabelMap(SubSeq(line.rest, 1, end - 1))
                  ELSE <<>>
        value == IF line.labelled THEN SubSeq(line.rest, end + 1, Len(line.rest))
                 ELSE SubSeq(line.rest, 1, 1)
        named == line.labelled /\ Dimension \in DOMAIN labels
                               /\ labels[Dimension] # <<>>
    IN  IF ~parseFloat(value) THEN [ok |-> FALSE]
        ELSE [ok |-> TRUE,
              context |-> prometheusNameToContext(line.name),
              labels |-> labels,
              dimension |-> IF named THEN labels[Dimension] ELSE line.name,
              value |-> value[1]]

\* The set enabledSet, tried as prefixes of the sample's context: of each
\* context its normalized form and itself, which no Prometheus name begins
\* with if it has a dot.
Enabled(context) ==
    \/ \E ctx \in Contexts : HasPrefix(context, <<"netdata">> \o ctx)
    \/ \E ctx \in Undotted : HasPrefix(context, ctx)

parsePrometheusResponse(lines) ==
    LET kept(s) == IF s.ok /\ Enabled(s.context) THEN <<s>> ELSE <<>>
    IN  FlattenSeq([i \in 1..Len(lines) |-> kept(parsePrometheusLine(lines[i]))])

-----------------------------------------------------------------------------
(* The JSON endpoint.  A body is what each of the three Unmarshal calls     *)
(* makes of it: result (entries of the grouped map), labels and data (the   *)
(* flat table), objects; a sequence is empty where the call fails.          *)

IsNumber(v) == v \in Numbers                                \* toFloat64

\* Strategy 1: the entry's key is split at commas.
GroupedSamples(body) ==
    LET usable(e) == e.point # <<>> /\ IsNumber(e.point[1]) /\ Len(e.key) >= 2
                     /\ e.key[1] # <<>> /\ e.key[2] # <<>>
        sample(e) == [context |-> e.key[1], dimension |-> e.key[2],
                      value |-> e.point[1], at |-> "now"]
        kept(e) == IF usable(e) THEN <<sample(e)>> ELSE <<>>
    IN  FlattenSeq([i \in 1..Len(body.result) |-> kept(body.result[i])])

\* Strategy 2: a row is a timestamp and one value per label after the first.
Cell(labels, row, i) ==
    [context |-> <<"unknown">>, dimension |-> labels[i], value |-> row[i],
     at |-> IF IsNumber(row[1]) /\ row[1] # "0" THEN row[1] ELSE "now"]

FlatSamples(body) ==
    LET cells(row) == [i \in 1..Len(row) |->
                         IF 1 < i /\ i <= Len(body.labels) /\ IsNumber(row[i])
                         THEN <<Cell(body.labels, row, i)>> ELSE <<>>]
    IN  FlattenSeq([r \in 1..Len(body.data) |-> FlattenSeq(cells(body.data[r]))])

\* Strategy 3: objects; a value that is not a number leaves the zero value.
ObjectSamples(body) ==
    LET sample(o) == [context |-> o.context, dimension |-> o.dimension,
                      value |-> IF IsNumber(o.value) THEN o.value ELSE "0",
                      at |-> "now"]
        kept(o) == IF o.context # <<>> /\ o.dimension # <<>> THEN <<sample(o)>> ELSE <<>>
    IN  FlattenSeq([i \in 1..Len(body.objects) |-> kept(body.objects[i])])

Failure == [err |-> TRUE, samples |-> <<>>]

\* The first strategy that finds its shape decides, even if it finds nothing
\* usable in it.
parseJSONResponse(body) ==
    IF body.result # <<>> THEN [err |-> FALSE, samples |-> GroupedSamples(body)]
    ELSE IF body.data # <<>> /\ body.labels # <<>>
    THEN [err |-> FALSE, samples |-> FlatSamples(body)]
    ELSE IF body.objects # <<>> THEN [err |-> FALSE, samples |-> ObjectSamples(body)]
    ELSE Failure

\* An answer is [status, body or lines]; status 0: the request failed.
doGet(answer) == answer.status = 200

collectJSON(answer) ==
    IF doGet(answer) THEN parseJSONResponse(answer.body) ELSE Failure

collectPrometheus(answer) ==
    IF doGet(answer) THEN [err |-> FALSE, samples |-> parsePrometheusResponse(answer.lines)]
    ELSE Failure

Bug_NoFallbackWhenEmpty(json, prom) ==
    LET first == collectJSON(json)
    IN  IF first.err THEN collectPrometheus(prom) ELSE first

\* The Prometheus endpoint is asked if the JSON one fails or yields nothing.
Collect(json, prom) ==
    LET first == collectJSON(json)
    IN  IF first.err \/ first.samples = <<>> THEN collectPrometheus(prom) ELSE first
=============================================================================
