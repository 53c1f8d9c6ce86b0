----------------------------- MODULE MCParsers -----------------------------
(* Bytes of six bits, five of them payload; integers of eleven bits, so     *)
(* that a varint takes one to three bytes and the last group has a bit that *)
(* does not fit, as the tenth byte of a 64-bit number has.                  *)
EXTENDS Parsers

Stamps == {0, 31, 32, 1023, -1, -1024}
MCSamples == [value : {<<0, 0>>, <<1, 63>>}, ts : Stamps]
MCLabels == [name : {<<1, 40>>}, value : {<<>>, <<2>>}]
Series == [labels : {<<>>} \cup {<<l>> : l \in MCLabels},
           samples : {<<>>} \cup {<<s>> : s \in MCSamples}]
Second == [labels |-> <<[name |-> <<3>>, value |-> <<4>>]>>,
           samples |-> <<[value |-> <<5, 6>>, ts |-> 7], [value |-> <<0, 0>>, ts |-> -2]>>]
MCMessages == {<<>>} \cup {<<s>> : s \in Series} \cup {<<s, Second>> : s \in Series}
              \cup {<<Second, s>> : s \in Series}

\* A varint, a double, a fixed32 and a message with a two-byte tag (number 7).
MCExtras == {<<>>,
             EncodeVarint(32) \o EncodeVarint(2047) \o EncodeVarint(33) \o <<7, 8>>
               \o EncodeVarint(37) \o <<9>> \o EncodeDelimited(7, <<33, 32>>)}

Ch == {"x", ",", "=", "\"", "\\"}
MCLabelKeys == {Dimension, <<"k">>}
MCLabelValues == {<<>>} \cup {<<a>> : a \in Ch} \cup {<<a, b>> : a \in Ch, b \in Ch}

Words == {"c", "io", "iotime", "bytes", "total", "average"}
MCNames == {<<w>> : w \in Words} \cup {<<w, v>> : w \in Words, v \in Words}
MCContexts == {<<"c">>, <<"io", "io">>, <<"io", "bytes">>, <<"total", "average">>,
               <<"bytes", "total">>, <<"netdata", "average">>}
MCUndotted == {<<"c">>, <<"netdata", "average">>}
MCLonger == [w \in Words \cup {"netdata"} |-> IF w = "io" THEN {"iotime"} ELSE {}]
MCDims == <<<<"u">>, <<"v", "=">>>>
=============================================================================
