--------------------------- MODULE MCStreamBuffer ---------------------------
\* StreamBuffer with two tool calls cut into fragments, and other lines.
EXTENDS StreamBuffer

MCTexts == {"", "c0", "c1", "d0", "bash", "read", "web", "{", "}"}

Delta(index, id, name, args) == [index |-> index, id |-> id, name |-> name, args |-> args]
Data(info, choices) == [kind |-> "data", size |-> 1, info |-> info, choices |-> choices]
Other(kind, size) == [NoLine EXCEPT !.kind = kind, !.size = size]

MCLines ==
  { Data("model" :> "m", <<<<Delta(0, "c0", "bash", <<"{">>)>>>>),
    Data(<<>>, <<<<Delta(1, "c1", "read", <<"{", "}">>), Delta(0, "", "", <<"}">>)>>>>),
    Data("finish" :> "stop", <<<<>>, <<Delta(0, "d0", "web", <<"{">>)>>>>),
    Other("bad", 1), Other("skip", 2) }

MCValidArgs == {<<"{", "}">>}
=============================================================================
