------------------------------ MODULE MCProxy -------------------------------
(***************************************************************************)
(* Instances of Proxy for TLC: models m and n, two tools in categories A   *)
(* and B or B and A, and requests that offer none or both of them.         *)
(***************************************************************************)
EXTENDS Proxy

BlockA == [block |-> {"A"}, warn |-> {"n"}]
BlockB == [block |-> {"B"}, warn |-> {}]
BlockM == [block |-> {"m"}, warn |-> {}]
TwoRuleSets == {BlockA, BlockB}
ModelRules == {BlockM, BlockA}

ToolA == [tool |-> "A", other |-> "B"]
ToolB == [tool |-> "B", other |-> "A"]
TwoClassifiers == {ToolA, ToolB}
OnlyToolA == {ToolA}

Request(model, tools, stream) == [model |-> model, tools |-> tools, stream |-> stream]
SomeRequests == {Request("m", <<"tool", "other">>, FALSE), Request("n", <<>>, TRUE)}
PlainRequest == {Request("n", <<>>, FALSE)}

Response(ok, kind, model, tools, fault) ==
  [ok |-> ok, kind |-> kind, model |-> model, tools |-> tools, fault |-> fault]

\* Every kind of answer and every fault.
SomeResponses ==
  {Response(TRUE, "sse", "m", {"tool"}, f) : f \in {"none", "stream", "write"}} \cup
  {Response(TRUE, "json", NoModel, {"tool"}, f) :
     f \in {"stream", "extract", "map", "write", "error_field"}} \cup
  {Response(TRUE, "json", NoModel, {"tool", "other"}, "none")} \cup
  {Response(FALSE, "json", "m", {}, "none")} \cup
  {Response(TRUE, "other", NoModel, {"tool"}, "none")} \cup
  {Response(TRUE, "empty", NoModel, {}, f) : f \in {"none", "read"}}

CallsA == {{"A"}}

ToolAnswers ==
  {Response(TRUE, k, NoModel, {"tool"}, "none") : k \in {"json", "sse"}}
=============================================================================
