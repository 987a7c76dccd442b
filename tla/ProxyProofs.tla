----------------------------- MODULE ProxyProofs ----------------------------
(***************************************************************************)
(* Theorems about Proxy: what is forwarded and delivered was allowed, and  *)
(* every request is reported once and truly, for any number of requests    *)
(* and reloads, any rule sets, classifiers and upstream answers, and any   *)
(* capacity of the event channel; and about ProxyEdge: certificates are    *)
(* shared, for any number of connections and hosts and any cache.          *)
(***************************************************************************)
EXTENDS Proxy, ProxyEdge, SequenceTheorems, FiniteSetTheorems, TLAPS

Points == {"idle", "read", "preflight", "send", "answer", "tools", "classify", "deliver",
           "emit_tool", "emit", "emit403", "done"}

Models == {q.model : q \in Requests} \cup {a.model : a \in Responses}
Categories == UNION {{C[t] : t \in DOMAIN C} : C \in Classifiers}
Facts == Models \cup Categories \cup UNION GateCalls

Items == [req : Reqs \cup {"gate"}, kind : {"ai_request", "tool_call", "gate"},
          facts : SUBSET Facts, outcome : Outcomes]

TypeOK ==
  /\ evaluator \in RuleSets /\ classifier \in Classifiers
  /\ job \in [Reloaders -> [at : {"idle", "install", "logger", "set_logger", "proxy",
                                  "set_proxy", "classifier"},
                            rules : RuleSets, classes : Classifiers, arg : RuleSets]]
  /\ commandments \in RuleSets /\ loggerRules \in RuleSets /\ gateRules \in RuleSets
  /\ gate \in [at : {"idle", "emit"}, facts : SUBSET Facts]
  /\ pc \in [Reqs -> Points]
  /\ req \in [Reqs -> Requests \cup {NoRequest}]
  /\ resp \in [Reqs -> Responses \cup {NoResponse}]
  /\ event \in [Reqs -> [facts : SUBSET Facts, outcome : Outcomes]]
  /\ read \in [Reqs -> RuleSets]
  /\ reply \in [Reqs -> {"none", "4xx", "403", "502", "upstream"}]
  /\ chan \in Seq(Items)
  /\ recorded \in SUBSET [req : Reqs \cup {"gate"}, kind : {"ai_request", "tool_call", "gate"},
                          outcome : Outcomes]
  /\ forwarded \in SUBSET Reqs
  /\ rulesSeen \in [Reqs -> SUBSET RuleSets] /\ classesSeen \in [Reqs -> SUBSET Classifiers]

\* The request was allowed by rules and a classification it has seen in force.
Allowed(r) ==
  \E R \in rulesSeen[r], C \in classesSeen[r] : ~Blocks(R, RequestFacts(C, req[r]))

CallsAllowed(r) ==
  \E R \in rulesSeen[r], C \in classesSeen[r] :
    \A t \in ToolBlocks(r) : ~Blocks(R, CallFacts(C, r, t))

\* What the outcome o says of request r agrees with what the agent got.
Truth(o, r) ==
  /\ reply[r] = "403" => o = "blocked"
  /\ reply[r] = "502" => o \in {"failure", "blocked"}
  /\ o = "success" => reply[r] = "upstream" /\ resp[r].ok

\* What a handler knows at each of its program points.
RulesInv(r) ==
  /\ Active(r) => evaluator \in rulesSeen[r] /\ classifier \in classesSeen[r]
  /\ pc[r] \in {"idle", "read"} => event[r].facts = {}
  /\ pc[r] = "preflight" => \E C \in classesSeen[r] : event[r].facts = RequestFacts(C, req[r])
  /\ pc[r] \in {"idle", "read", "preflight"} => r \notin forwarded
  /\ pc[r] = "send" \/ r \in forwarded => Allowed(r)
  /\ pc[r] = "classify" => read[r] \in rulesSeen[r]
  /\ (pc[r] = "deliver" \/ reply[r] = "upstream") /\ Inspected(r) => CallsAllowed(r)

ReplyInv(r) ==
  /\ pc[r] \notin {"emit", "emit403", "done"} => reply[r] = "none" /\ event[r].outcome = "success"
  /\ pc[r] = "emit403" => reply[r] = "none" /\ event[r].outcome = "blocked"
  /\ pc[r] = "emit" => Truth(event[r].outcome, r)

HandlerInv == \A r \in Reqs : RulesInv(r) /\ ReplyInv(r)

\* The event of a request is nowhere, in the channel, or recorded.
Nowhere(r) == EventsOf(r) = {} /\ RecordsOf(r) = {}
Somewhere(r) ==
  \/ (\E i \in 1..Len(chan) : EventsOf(r) = {i}) /\ RecordsOf(r) = {}
  \/ EventsOf(r) = {} /\ \E e \in recorded : RecordsOf(r) = {e}

Placed(r) ==
  /\ Nowhere(r) \/ Somewhere(r)
  /\ pc[r] # "done" => Nowhere(r)
  /\ pc[r] = "done" => Somewhere(r) \/ (r \notin forwarded /\ reply[r] \in {"4xx", "502"})

Truthful ==
  /\ \A i \in 1..Len(chan) :
       chan[i].kind = "ai_request" => chan[i].req \in Reqs /\ Truth(chan[i].outcome, chan[i].req)
  /\ \A e \in recorded : e.kind = "ai_request" => e.req \in Reqs /\ Truth(e.outcome, e.req)

EventInv == (\A r \in Reqs : Placed(r)) /\ Truthful

Inv == TypeOK /\ HandlerInv /\ EventInv

(***************************************************************************)
(* Operators                                                               *)
(***************************************************************************)
\* Judging again yields an outcome that is at least as grave.
LEMMA RaisedNeverLower ==
  ASSUME NEW o \in Outcomes, NEW T \in SUBSET Enforcements
  PROVE  /\ RaisedOutcome(o, "proxy", T) \in Outcomes
         /\ OutcomeRank(o) <= OutcomeRank(RaisedOutcome(o, "proxy", T))
<1> DEFINE cand == {o} \cup {OutcomeForEnforcement(t, "proxy") : t \in T}
           Top(x) == \A p \in cand : OutcomeRank(p) <= OutcomeRank(x)
<1>1. \A t \in T : OutcomeForEnforcement(t, "proxy") = (IF t = "warn" THEN "warned" ELSE "blocked")
  BY DEF OutcomeForEnforcement, Enforcements
<1>2. cand \subseteq Outcomes /\ o \in cand
  BY <1>1 DEF Outcomes
<1>3. \E x \in cand : Top(x)
  <2>1. CASE "block" \in T
    <3>1. "blocked" \in cand
      BY <1>1, <2>1
    <3> QED BY <1>2, <3>1 DEF Outcomes, OutcomeRank
  <2>2. CASE "block" \notin T /\ o # "success"
    <3>1. \A p \in cand : p = o \/ p = "warned"
      BY <1>1, <2>2 DEF Enforcements
    <3> QED BY <1>2, <2>2, <3>1 DEF Outcomes, OutcomeRank
  <2>3. CASE "block" \notin T /\ "warn" \in T /\ o = "success"
    <3>1. "warned" \in cand /\ \A p \in cand : p = o \/ p = "warned"
      BY <1>1, <2>3 DEF Enforcements
    <3> QED BY <2>3, <3>1 DEF OutcomeRank
  <2>4. CASE T = {}
    BY <1>2, <2>4 DEF Outcomes, OutcomeRank
  <2> QED BY <2>1, <2>2, <2>3, <2>4 DEF Enforcements
<1>4. RaisedOutcome(o, "proxy", T) = CHOOSE x \in cand : Top(x)
  BY DEF RaisedOutcome
<1>5. RaisedOutcome(o, "proxy", T) \in cand /\ Top(RaisedOutcome(o, "proxy", T))
  BY <1>3, <1>4
<1> QED BY <1>2, <1>5

\* What the judgement finds is a set of enforcements.
LEMMA TriggeredTypes ==
  ASSUME NEW R, NEW F  PROVE Triggered(R, F) \in SUBSET Enforcements
BY DEF Triggered, Enforcements

\* The facts of requests and answers are known facts.
LEMMA FactTypes ==
  /\ \A C \in Classifiers, q \in Requests \cup {NoRequest} : RequestFacts(C, q) \in SUBSET Facts
  /\ \A C \in Classifiers : RequestFacts(C, NoRequest) = {}
  /\ \A a \in Responses \cup {NoResponse} : a.model = NoModel \/ a.model \in Facts
<1>1. \A q \in Requests : q.model \in Facts
  BY DEF Facts, Models
<1>2. \A a \in Responses : a.model \in Facts
  BY DEF Facts, Models
<1>3. ASSUME NEW C \in Classifiers, NEW t \in DOMAIN C  PROVE C[t] \in Facts
  <2> DEFINE Image(D) == {D[u] : u \in DOMAIN D}
  <2>1. C[t] \in Image(C) /\ Image(C) \in {Image(D) : D \in Classifiers}
    OBVIOUS
  <2>2. C[t] \in Categories
    BY <2>1 DEF Categories
  <2> QED BY <2>2 DEF Facts
<1>4. ASSUME NEW C \in Classifiers, NEW q \in Requests  PROVE RequestFacts(C, q) \in SUBSET Facts
  <2>1. q.tools \in Seq(DOMAIN C)
    BY ProxyAssumption
  <2>2. \A i \in DOMAIN q.tools : C[q.tools[i]] \in Facts
    BY <1>3, <2>1
  <2> QED BY <1>1, <2>2 DEF RequestFacts, ModelFact
<1>5. \A C \in Classifiers : RequestFacts(C, NoRequest) = {}
  <2>1. NoRequest.model = NoModel /\ DOMAIN NoRequest.tools = {}
    BY DEF NoRequest
  <2> QED BY <2>1 DEF RequestFacts, ModelFact
<1>6. NoResponse.model = NoModel
  BY DEF NoResponse
<1> QED BY <1>2, <1>4, <1>5, <1>6

(***************************************************************************)
(* Types                                                                   *)
(***************************************************************************)
LEMMA TypeInit == Init => TypeOK
<1> SUFFICES ASSUME Init PROVE TypeOK
  OBVIOUS
<1>1. evaluator \in RuleSets /\ classifier \in Classifiers /\ commandments \in RuleSets
      /\ loggerRules \in RuleSets /\ gateRules \in RuleSets
  BY DEF Init
<1>2. job \in [Reloaders -> [at : {"idle", "install", "logger", "set_logger", "proxy",
                                  "set_proxy", "classifier"},
                            rules : RuleSets, classes : Classifiers, arg : RuleSets]]
  BY <1>1 DEF Init
<1>3. event \in [Reqs -> [facts : SUBSET Facts, outcome : Outcomes]]
  BY DEF Init, NoEvent, Outcomes
<1>4. gate \in [at : {"idle", "emit"}, facts : SUBSET Facts]
  BY DEF Init
<1> QED BY <1>1, <1>2, <1>3, <1>4 DEF Init, TypeOK, Points

\* What a handler's step may touch.
HandlerType ==
  /\ pc \in [Reqs -> Points]
  /\ req \in [Reqs -> Requests \cup {NoRequest}]
  /\ resp \in [Reqs -> Responses \cup {NoResponse}]
  /\ event \in [Reqs -> [facts : SUBSET Facts, outcome : Outcomes]]
  /\ read \in [Reqs -> RuleSets]
  /\ reply \in [Reqs -> {"none", "4xx", "403", "502", "upstream"}]
  /\ forwarded \in SUBSET Reqs

\* What a reload's step may touch.
ReloadType ==
  /\ evaluator \in RuleSets /\ classifier \in Classifiers
  /\ job \in [Reloaders -> [at : {"idle", "install", "logger", "set_logger", "proxy",
                                  "set_proxy", "classifier"},
                            rules : RuleSets, classes : Classifiers, arg : RuleSets]]
  /\ commandments \in RuleSets /\ loggerRules \in RuleSets

ChannelType ==
  /\ chan \in Seq(Items)
  /\ recorded \in SUBSET [req : Reqs \cup {"gate"}, kind : {"ai_request", "tool_call", "gate"},
                          outcome : Outcomes]

SeenType ==
  rulesSeen \in [Reqs -> SUBSET RuleSets] /\ classesSeen \in [Reqs -> SUBSET Classifiers]

GateType == gateRules \in RuleSets /\ gate \in [at : {"idle", "emit"}, facts : SUBSET Facts]

LEMMA TypeParts ==
  /\ TypeOK <=> HandlerType /\ ReloadType /\ ChannelType /\ SeenType /\ GateType
  /\ TypeOK' <=> HandlerType' /\ ReloadType' /\ ChannelType' /\ SeenType' /\ GateType'
BY DEF TypeOK, HandlerType, ReloadType, ChannelType, SeenType, GateType

\* The steps of the handler of r.
Step(r) == (\E q \in Requests : Arrive(r, q)) \/ Handle(r)

LEMMA HandlerMoves ==
  ASSUME HandlerType, NEW r \in Reqs, NEW p \in Points, Goto(r, p)
  PROVE  /\ pc' = [pc EXCEPT ![r] = p] /\ pc' \in [Reqs -> Points] /\ pc'[r] = p
         /\ \A o \in Reqs \ {r} : pc'[o] = pc[o]
BY DEF HandlerType, Goto

LEMMA AnswerMoves ==
  ASSUME HandlerType, NEW r \in Reqs, NEW a \in {"4xx", "403", "502", "upstream"}, Answer(r, a)
  PROVE  /\ reply' \in [Reqs -> {"none", "4xx", "403", "502", "upstream"}] /\ reply'[r] = a
         /\ \A o \in Reqs \ {r} : reply'[o] = reply[o]
BY DEF HandlerType, Answer

LEMMA JudgedMoves ==
  ASSUME HandlerType, NEW r \in Reqs, NEW o \in Outcomes, Judged(r, o)
  PROVE  /\ event' \in [Reqs -> [facts : SUBSET Facts, outcome : Outcomes]]
         /\ event'[r].outcome = o /\ event'[r].facts = event[r].facts
         /\ \A u \in Reqs \ {r} : event'[u] = event[u]
BY DEF HandlerType, Judged

LEMMA AnsweredTypes ==
  ASSUME HandlerType, NEW r \in Reqs
  PROVE  AnsweredFacts(r) \in SUBSET Facts
<1>1. event[r].facts \in SUBSET Facts /\ resp[r] \in Responses \cup {NoResponse}
  BY DEF HandlerType
<1> QED BY <1>1, FactTypes DEF AnsweredFacts

LEMMA EmitTypes ==
  ASSUME ChannelType, NEW s \in Reqs \cup {"gate"}, NEW k \in {"ai_request", "tool_call", "gate"},
         NEW F \in SUBSET Facts, NEW o \in Outcomes, Emit(s, k, F, o)
  PROVE  /\ chan' \in Seq(Items) /\ Len(chan') = Len(chan) + 1
         /\ chan'[Len(chan) + 1] = [req |-> s, kind |-> k, facts |-> F, outcome |-> o]
         /\ \A i \in 1..Len(chan) : chan'[i] = chan[i]
<1> DEFINE e == [req |-> s, kind |-> k, facts |-> F, outcome |-> o]
<1>1. e \in Items
  BY DEF Items
<1>2. chan \in Seq(Items) /\ chan' = Append(chan, e)
  BY DEF ChannelType, Emit
<1> HIDE DEF e
<1>3. chan' \in Seq(Items) /\ Len(chan') = Len(chan) + 1 /\ chan'[Len(chan) + 1] = e
      /\ \A i \in 1..Len(chan) : chan'[i] = chan[i]
  BY <1>1, <1>2
<1> QED BY <1>3 DEF e

LEMMA HandlerTypes ==
  ASSUME HandlerType, evaluator \in RuleSets, classifier \in Classifiers, NEW r \in Reqs, Step(r)
  PROVE  HandlerType'
<1> USE DEF HandlerType
<1>0. /\ {"read", "preflight", "send", "answer", "tools", "classify", "deliver", "emit_tool",
           "emit", "emit403", "done"} \subseteq Points
      /\ {"success", "failure", "blocked"} \subseteq Outcomes
  BY DEF Points, Outcomes
<1>1. ASSUME NEW q \in Requests, Arrive(r, q)  PROVE HandlerType'
  BY <1>0, <1>1, HandlerMoves DEF Arrive
<1>2. CASE Reject(r)
  BY <1>0, <1>2, HandlerMoves, AnswerMoves DEF Reject
<1>3. CASE Normalize(r)
  <2>1. RequestFacts(classifier, req[r]) \in SUBSET Facts
    BY FactTypes
  <2>2. pc' \in [Reqs -> Points]
    BY <1>0, <1>3, HandlerMoves DEF Normalize
  <2>3. reply' \in [Reqs -> {"none", "4xx", "403", "502", "upstream"}]
    BY <1>3, AnswerMoves DEF Normalize
  <2>4. event' \in [Reqs -> [facts : SUBSET Facts, outcome : Outcomes]]
    BY <1>3, <2>1 DEF Normalize
  <2>5. req' \in [Reqs -> Requests \cup {NoRequest}]
    BY <1>3 DEF Normalize
  <2> QED BY <1>3, <2>2, <2>3, <2>4, <2>5 DEF Normalize
<1>4. CASE Preflight(r)
  <2>1. pc' \in [Reqs -> Points]
    BY <1>0, <1>4, HandlerMoves DEF Preflight
  <2>2. event' \in [Reqs -> [facts : SUBSET Facts, outcome : Outcomes]]
    BY <1>0, <1>4, JudgedMoves DEF Preflight
  <2> QED BY <1>4, <2>1, <2>2 DEF Preflight
<1>5. ASSUME NEW a \in Responses, SendUpstream(r, a)  PROVE HandlerType'
  BY <1>0, <1>5, HandlerMoves DEF SendUpstream
<1>6. Fail(r) => /\ pc' \in [Reqs -> Points]
                 /\ event' \in [Reqs -> [facts : SUBSET Facts, outcome : Outcomes]]
                 /\ reply' \in [Reqs -> {"none", "4xx", "403", "502", "upstream"}]
  BY <1>0, HandlerMoves, AnswerMoves, JudgedMoves DEF Fail
<1>7. CASE UpstreamError(r)
  BY <1>6, <1>7 DEF UpstreamError
<1>8. CASE ReadAnswer(r)
  <2>1. CASE Unreadable(r)
    BY <1>6, <1>8, <2>1 DEF ReadAnswer
  <2>2. CASE ~Unreadable(r)
    <3>1. PICK p \in {"tools", "deliver"} : Goto(r, p)
      BY <1>8, <2>2 DEF ReadAnswer
    <3>2. pc' \in [Reqs -> Points]
      BY <1>0, <3>1, HandlerMoves
    <3> QED BY <1>8, <2>2, <3>2 DEF ReadAnswer
  <2> QED BY <2>1, <2>2
<1>9. CASE ReadEvaluator(r)
  BY <1>0, <1>9, HandlerMoves DEF ReadEvaluator
<1>10. CASE JudgeTools(r)
  <2>1. PICK p \in {"emit_tool", "deliver"} : Goto(r, p)
    BY <1>10 DEF JudgeTools
  <2> QED BY <1>0, <1>10, <2>1, HandlerMoves DEF JudgeTools
<1>11. CASE EmitTool(r)
  BY <1>0, <1>11, HandlerMoves, AnswerMoves, JudgedMoves DEF EmitTool
<1>12. CASE Deliver(r)
  <2>1. pc' \in [Reqs -> Points]
    BY <1>0, <1>12, HandlerMoves DEF Deliver
  <2>2. reply' \in [Reqs -> {"none", "4xx", "403", "502", "upstream"}]
    <3>1. PICK a \in {"502", "upstream"} : Answer(r, a)
      BY <1>12 DEF Deliver
    <3> QED BY <3>1, AnswerMoves
  <2>3. event' \in [Reqs -> [facts : SUBSET Facts, outcome : Outcomes]]
    <3>1. AnsweredFacts(r) \in SUBSET Facts
      BY AnsweredTypes
    <3> QED BY <1>0, <1>12, <3>1 DEF Deliver
  <2> QED BY <1>12, <2>1, <2>2, <2>3 DEF Deliver
<1>13. CASE EmitEvent(r)
  <2>1. pc' \in [Reqs -> Points]
    BY <1>0, <1>13, HandlerMoves DEF EmitEvent
  <2>2. reply' \in [Reqs -> {"none", "4xx", "403", "502", "upstream"}]
    BY <1>13, AnswerMoves DEF EmitEvent
  <2> QED BY <1>13, <2>1, <2>2 DEF EmitEvent
<1> QED BY <1>1, <1>2, <1>3, <1>4, <1>5, <1>7, <1>8, <1>9, <1>10, <1>11, <1>12, <1>13
        DEF Step, Handle

\* A handler changes nothing of another request.
Kept(o) == /\ UNCHANGED <<pc[o], req[o], resp[o], event[o], read[o], reply[o]>>
           /\ o \in forwarded' <=> o \in forwarded
           /\ rulesSeen'[o] = rulesSeen[o] /\ classesSeen'[o] = classesSeen[o]

LEMMA HandlerFrame ==
  ASSUME HandlerType, SeenType, NEW r \in Reqs, Step(r)
  PROVE  /\ \A o \in Reqs \ {r} : Kept(o)
         /\ UNCHANGED <<strict, config, gating, job, reloads, stopping, recorded>>
<1> USE DEF Kept, HandlerType, SeenType, Goto, Answer, Judged, Fail
<1>1. ASSUME NEW q \in Requests, Arrive(r, q)
      PROVE  \A o \in Reqs \ {r} : Kept(o)
  BY <1>1 DEF Arrive
<1>2. CASE Reject(r)
  BY <1>2 DEF Reject, seen
<1>3. CASE Normalize(r)
  BY <1>3 DEF Normalize, seen
<1>4. CASE Preflight(r)
  BY <1>4 DEF Preflight, seen
<1>5. ASSUME NEW a \in Responses, SendUpstream(r, a)
      PROVE  \A o \in Reqs \ {r} : Kept(o)
  BY <1>5 DEF SendUpstream, seen
<1>6. CASE UpstreamError(r)
  BY <1>6 DEF UpstreamError, seen
<1>7. CASE ReadAnswer(r)
  BY <1>7 DEF ReadAnswer, seen
<1>8. CASE ReadEvaluator(r)
  BY <1>8 DEF ReadEvaluator, seen
<1>9. CASE JudgeTools(r)
  BY <1>9 DEF JudgeTools, seen
<1>10. CASE EmitTool(r)
  BY <1>10 DEF EmitTool, seen
<1>11. CASE Deliver(r)
  BY <1>11 DEF Deliver, seen
<1>12. CASE EmitEvent(r)
  BY <1>12 DEF EmitEvent, seen
<1>13. UNCHANGED <<strict, config, gating, job, reloads, stopping, recorded>>
  BY DEF Step, Handle, Arrive, Reject, Normalize, Preflight, SendUpstream, UpstreamError,
     ReadAnswer, ReadEvaluator, JudgeTools, EmitTool, Deliver, EmitEvent
<1> QED BY <1>1, <1>2, <1>3, <1>4, <1>5, <1>6, <1>7, <1>8, <1>9, <1>10, <1>11, <1>12, <1>13
        DEF Step, Handle

\* A handler's step on the channel and on what it has seen.
LEMMA HandlerOthers ==
  ASSUME HandlerType, ChannelType, SeenType, evaluator \in RuleSets, classifier \in Classifiers,
         NEW r \in Reqs, Step(r)
  PROVE  ChannelType' /\ SeenType'
<1>1. recorded' = recorded
  BY HandlerFrame
<1>2. CASE EmitTool(r)
  <2>1. Emit(r, "tool_call", {}, "blocked") /\ "blocked" \in Outcomes /\ {} \in SUBSET Facts
    BY <1>2 DEF EmitTool, Outcomes
  <2>2. chan' \in Seq(Items)
    BY <2>1, EmitTypes
  <2> QED BY <1>1, <1>2, <2>2 DEF EmitTool, ChannelType, SeenType, seen
<1>3. CASE EmitEvent(r)
  <2>1. Emit(r, "ai_request", event[r].facts, event[r].outcome)
        /\ event[r].facts \in SUBSET Facts /\ event[r].outcome \in Outcomes
    BY <1>3 DEF EmitEvent, HandlerType
  <2>2. chan' \in Seq(Items)
    BY <2>1, EmitTypes
  <2> QED BY <1>1, <1>3, <2>2 DEF EmitEvent, ChannelType, SeenType, seen
<1>4. ASSUME ~EmitTool(r), ~EmitEvent(r)  PROVE chan' = chan /\ SeenType'
  <2>1. ASSUME NEW q \in Requests, Arrive(r, q)  PROVE chan' = chan /\ SeenType'
    BY <2>1 DEF Arrive, SeenType
  <2>2. CASE Handle(r)
    BY <1>4, <2>2 DEF Handle, Reject, Normalize, Preflight, SendUpstream, UpstreamError,
       ReadAnswer, ReadEvaluator, JudgeTools, Deliver, SeenType, seen
  <2> QED BY <2>1, <2>2 DEF Step
<1> QED BY <1>1, <1>2, <1>3, <1>4 DEF ChannelType

\* A reload replaces rules and classifiers by ones the files hold, and every
\* request that is handled sees them.
LEMMA ReloadMoves ==
  ASSUME ReloadType, SeenType, NEW x \in Reloaders, Reload(x)
  PROVE  /\ ReloadType' /\ SeenType'
         /\ UNCHANGED <<strict, gating, handler, chan, stopping, recorded, forwarded>>
         /\ \A r \in Reqs :
              /\ rulesSeen[r] \subseteq rulesSeen'[r] /\ classesSeen[r] \subseteq classesSeen'[r]
              /\ Active(r) /\ evaluator \in rulesSeen[r] => evaluator' \in rulesSeen'[r]
              /\ Active(r) /\ classifier \in classesSeen[r] => classifier' \in classesSeen'[r]
<1>0. UNCHANGED <<strict, gating, handler, chan, stopping, recorded, forwarded>>
  BY DEF Reload, ReloadLoad, ReloadInstall, ReloadRead, SetLoggerRules, SetEvaluator, SetClassifier
<1>1. job[x].rules \in RuleSets /\ job[x].classes \in Classifiers /\ job[x].arg \in RuleSets
  BY DEF ReloadType
<1> DEFINE Jobs == [at : {"idle", "install", "logger", "set_logger", "proxy",
                         "set_proxy", "classifier"},
                    rules : RuleSets, classes : Classifiers, arg : RuleSets]
<1>2. ASSUME NEW at \in {"idle", "logger", "proxy", "classifier"}, job' = [job EXCEPT ![x].at = at]
      PROVE  job' \in [Reloaders -> Jobs]
  BY <1>2 DEF ReloadType
<1>3. CASE ReloadLoad(x)
  <2>1. job' \in [Reloaders -> Jobs]
    <3>1. CASE UNCHANGED job
      BY <3>1 DEF ReloadType
    <3>2. ASSUME NEW R \in RuleSets, NEW C \in Classifiers,
                 job' = [job EXCEPT ![x] = [at |-> "install", rules |-> R, classes |-> C, arg |-> R]]
          PROVE  job' \in [Reloaders -> Jobs]
      BY <3>2 DEF ReloadType
    <3> QED BY <1>3, <3>1, <3>2 DEF ReloadLoad
  <2> QED BY <1>0, <1>3, <2>1 DEF ReloadLoad, ReloadType, SeenType, config, seen
<1>4. CASE ReloadInstall(x)
  BY <1>0, <1>1, <1>2, <1>4 DEF ReloadInstall, ReloadType, SeenType
<1>5. CASE ReloadRead(x)
  <2>1. job' \in [Reloaders -> Jobs]
    BY <1>5 DEF ReloadRead, ReloadType
  <2> QED BY <1>0, <1>5, <2>1 DEF ReloadRead, ReloadType, SeenType, config, seen
<1>6. CASE SetLoggerRules(x)
  BY <1>0, <1>1, <1>2, <1>6 DEF SetLoggerRules, ReloadType, SeenType, seen
<1>7. CASE SetEvaluator(x)
  BY <1>0, <1>1, <1>2, <1>7 DEF SetEvaluator, ReloadType, SeenType, Watch
<1>8. CASE SetClassifier(x)
  BY <1>0, <1>1, <1>2, <1>8 DEF SetClassifier, ReloadType, SeenType, Watch
<1> QED BY <1>3, <1>4, <1>5, <1>6, <1>7, <1>8 DEF Reload

\* The gate, the logger and the shutdown.
Gating == (\E facts \in GateCalls : GateEvaluate(facts)) \/ GateEmit

LEMMA GateMoves ==
  ASSUME GateType, ChannelType, Gating
  PROVE  /\ GateType' /\ ChannelType'
         /\ UNCHANGED <<strict, config, job, reloads, handler, recorded, forwarded, seen>>
         /\ \/ chan' = chan
            \/ \E F \in SUBSET Facts : Emit("gate", "gate", F, "blocked")
<1>0. ASSUME NEW facts \in GateCalls  PROVE facts \in SUBSET Facts
  <2>1. \A f \in facts : f \in UNION GateCalls
    OBVIOUS
  <2>2. UNION GateCalls \subseteq Facts
    BY DEF Facts
  <2> QED BY <2>1, <2>2
<1>1. ASSUME NEW facts \in GateCalls, GateEvaluate(facts)
      PROVE  /\ GateType' /\ chan' = chan
             /\ UNCHANGED <<strict, config, job, reloads, handler, recorded, forwarded, seen>>
  BY <1>0, <1>1 DEF GateEvaluate, GateType
<1>2. CASE GateEmit
  <2>1. gate.facts \in SUBSET Facts /\ "blocked" \in Outcomes
    BY DEF GateType, Outcomes
  <2>2. Emit("gate", "gate", gate.facts, "blocked")
    BY <1>2 DEF GateEmit
  <2>3. chan' \in Seq(Items)
    BY <2>1, <2>2, EmitTypes
  <2>4. GateType'
    BY <1>2 DEF GateEmit, GateType
  <2> QED BY <1>2, <2>1, <2>2, <2>3, <2>4 DEF GateEmit, ChannelType
<1> QED BY <1>1, <1>2 DEF Gating, ChannelType

LEMMA RecordMoves ==
  ASSUME ChannelType, Record
  PROVE  /\ ChannelType' /\ chan # <<>> /\ Head(chan) \in Items
         /\ Len(chan') = Len(chan) - 1 /\ \A i \in 1..Len(chan') : chan'[i] = chan[i + 1]
         /\ \E o \in Outcomes :
              /\ OutcomeRank(Head(chan).outcome) <= OutcomeRank(o)
              /\ recorded' = recorded \cup {[req |-> Head(chan).req, kind |-> Head(chan).kind,
                                             outcome |-> o]}
<1> DEFINE e == Head(chan)
           o == RaisedOutcome(e.outcome, "proxy", Triggered(loggerRules, e.facts))
<1>1. chan \in Seq(Items) /\ chan # <<>> /\ chan' = Tail(chan)
  BY DEF ChannelType, Record
<1>2. e \in Items /\ chan' \in Seq(Items) /\ Len(chan') = Len(chan) - 1
      /\ \A i \in 1..Len(chan') : chan'[i] = chan[i + 1]
  BY <1>1
<1>3. e.outcome \in Outcomes /\ e.req \in Reqs \cup {"gate"}
      /\ e.kind \in {"ai_request", "tool_call", "gate"}
  BY <1>2 DEF Items
<1>4. o \in Outcomes /\ OutcomeRank(e.outcome) <= OutcomeRank(o)
  <2>1. Triggered(loggerRules, e.facts) \in SUBSET Enforcements
    BY TriggeredTypes
  <2> QED BY <1>3, <2>1, RaisedNeverLower
<1>5. recorded' = recorded \cup {[req |-> e.req, kind |-> e.kind, outcome |-> o]}
  BY DEF Record
<1>6. ChannelType'
  <2> HIDE DEF o
  <2> QED BY <1>2, <1>3, <1>4, <1>5 DEF ChannelType
<1> QED BY <1>1, <1>2, <1>4, <1>5, <1>6

LEMMA Steps ==
  ASSUME [Next]_vars
  PROVE  \/ \E r \in Reqs : Step(r)
         \/ \E x \in Reloaders : Reload(x)
         \/ Gating
         \/ Record
         \/ UNCHANGED <<strict, config, gating, job, reloads, handler, chan, recorded, forwarded, seen>>
BY DEF Next, vars, Step, Gating, Shutdown, Quiet

LEMMA TypeStep ==
  ASSUME TypeOK, [Next]_vars
  PROVE  TypeOK'
<1>0. HandlerType /\ ReloadType /\ ChannelType /\ SeenType /\ GateType
  BY TypeParts
<1>1. ASSUME NEW r \in Reqs, Step(r)  PROVE TypeOK'
  <2>1. HandlerType' /\ ChannelType' /\ SeenType'
    BY <1>0, <1>1, HandlerTypes, HandlerOthers DEF ReloadType
  <2>2. ReloadType' /\ GateType'
    BY <1>0, <1>1, HandlerFrame DEF ReloadType, GateType, config, gating
  <2> QED BY <2>1, <2>2, TypeParts
<1>2. ASSUME NEW x \in Reloaders, Reload(x)  PROVE TypeOK'
  BY <1>0, <1>2, ReloadMoves, TypeParts DEF HandlerType, ChannelType, GateType, handler, gating
<1>3. CASE Gating
  BY <1>0, <1>3, GateMoves, TypeParts DEF HandlerType, ReloadType, SeenType, handler, config, seen
<1>4. CASE Record
  BY <1>0, <1>4, RecordMoves, TypeParts
     DEF Record, HandlerType, ReloadType, SeenType, GateType, handler, config, seen, gating
<1>5. CASE UNCHANGED <<strict, config, gating, job, reloads, handler, chan, recorded, forwarded, seen>>
  BY <1>0, <1>5, TypeParts
     DEF HandlerType, ReloadType, ChannelType, SeenType, GateType, handler, config, seen, gating
<1> QED BY Steps, <1>1, <1>2, <1>3, <1>4, <1>5

(***************************************************************************)
(* What a handler knows                                                    *)
(***************************************************************************)
\* A request whose handler does not move keeps what it knows, for the rules and
\* classifiers it has seen only grow in number.
LEMMA KnowledgeKept ==
  ASSUME NEW o \in Reqs, RulesInv(o), ReplyInv(o),
         UNCHANGED <<pc[o], req[o], resp[o], event[o], read[o], reply[o]>>,
         o \in forwarded' <=> o \in forwarded,
         rulesSeen[o] \subseteq rulesSeen'[o], classesSeen[o] \subseteq classesSeen'[o],
         Active(o) /\ evaluator \in rulesSeen[o] => evaluator' \in rulesSeen'[o],
         Active(o) /\ classifier \in classesSeen[o] => classifier' \in classesSeen'[o]
  PROVE  RulesInv(o)' /\ ReplyInv(o)'
<1>1. Active(o)' <=> Active(o)
  BY DEF Active
<1>2. /\ Inspected(o)' <=> Inspected(o)
      /\ ToolBlocks(o)' = ToolBlocks(o)
      /\ \A C, t : CallFacts(C, o, t)' = CallFacts(C, o, t)
  BY DEF Inspected, Streamed, ToolBlocks, CallFacts
<1>3. Allowed(o) => Allowed(o)'
  BY DEF Allowed
<1>4. CallsAllowed(o) => CallsAllowed(o)'
  BY <1>2 DEF CallsAllowed
<1>5. RulesInv(o)'
  BY <1>1, <1>2, <1>3, <1>4 DEF RulesInv
<1>6. ReplyInv(o)'
  BY DEF ReplyInv, Truth
<1> QED BY <1>5, <1>6

\* Each step of a handler keeps what it knows of its own request.
LEMMA HandlerKnows ==
  ASSUME TypeOK, NEW r \in Reqs, RulesInv(r), ReplyInv(r), Step(r)
  PROVE  RulesInv(r)' /\ ReplyInv(r)'
<1>0. HandlerType /\ SeenType /\ ReloadType
  BY TypeParts
<1>1. evaluator' = evaluator /\ classifier' = classifier
  BY <1>0, HandlerFrame DEF config
<1>c. Points = {"idle", "read", "preflight", "send", "answer", "tools", "classify", "deliver",
                "emit_tool", "emit", "emit403", "done"}
  BY DEF Points
<1>2. ASSUME NEW q \in Requests, Arrive(r, q)  PROVE RulesInv(r)' /\ ReplyInv(r)'
  <2>1. pc[r] = "idle" /\ pc'[r] = "read" /\ UNCHANGED <<event, reply, forwarded>>
    BY <1>0, <1>2, <1>c, HandlerMoves DEF Arrive
  <2>2. rulesSeen'[r] = {evaluator} /\ classesSeen'[r] = {classifier}
    BY <1>0, <1>2 DEF Arrive, SeenType
  <2> QED BY <1>1, <2>1, <2>2 DEF RulesInv, ReplyInv, Active
<1>3. ASSUME ~(\E q \in Requests : Arrive(r, q))
      PROVE  /\ Active(r) /\ UNCHANGED seen /\ Handle(r)
             /\ evaluator \in rulesSeen[r] /\ classifier \in classesSeen[r]
  <2>1. Handle(r)
    BY <1>3 DEF Step
  <2>2. Active(r)
    BY <2>1 DEF Handle, Active, Reject, Normalize, Preflight, SendUpstream, UpstreamError,
       ReadAnswer, ReadEvaluator, JudgeTools, EmitTool, Deliver, EmitEvent
  <2>3. UNCHANGED seen
    BY <2>1 DEF Handle, Reject, Normalize, Preflight, SendUpstream, UpstreamError,
       ReadAnswer, ReadEvaluator, JudgeTools, EmitTool, Deliver, EmitEvent
  <2> QED BY <2>1, <2>2, <2>3 DEF RulesInv
<1>4. ASSUME ~(\E q \in Requests : Arrive(r, q))  PROVE RulesInv(r)' /\ ReplyInv(r)'
  <2>0. /\ rulesSeen' = rulesSeen /\ classesSeen' = classesSeen
        /\ evaluator' \in rulesSeen'[r] /\ classifier' \in classesSeen'[r]
    BY <1>1, <1>3, <1>4 DEF seen
  <2>a. UNCHANGED req => (Allowed(r) => Allowed(r)')
    BY <2>0 DEF Allowed
  <2>b. UNCHANGED <<req, resp>> => /\ Inspected(r)' <=> Inspected(r)
                                   /\ CallsAllowed(r) => CallsAllowed(r)'
    BY <2>0 DEF Inspected, Streamed, CallsAllowed, ToolBlocks, CallFacts
  <2>c. Fail(r) => /\ pc'[r] = "emit" /\ reply'[r] = "502" /\ event'[r].outcome = "failure"
                   /\ Truth(event[r].outcome, r)'
    <3>1. "failure" \in Outcomes
      BY DEF Outcomes
    <3>2. Fail(r) => /\ pc'[r] = "emit" /\ reply'[r] = "502" /\ event'[r].outcome = "failure"
      BY <1>0, <1>c, <3>1, HandlerMoves, AnswerMoves, JudgedMoves DEF Fail
    <3> QED BY <3>2 DEF Truth
  <2>1. CASE Reject(r)
    <3>1. pc[r] = "read" /\ pc'[r] = "done" /\ reply'[r] = "4xx" /\ UNCHANGED <<req, resp, event, read, forwarded>>
      BY <1>0, <1>c, <2>1, HandlerMoves, AnswerMoves DEF Reject
    <3> QED BY <2>0, <3>1 DEF RulesInv, ReplyInv, Active
  <2>2. CASE Normalize(r)
    <3>0. pc[r] = "read" /\ UNCHANGED <<resp, read, forwarded>> /\ r \notin forwarded
          /\ reply[r] = "none" /\ event[r].outcome = "success" /\ event[r].facts = {}
      BY <2>2 DEF Normalize, RulesInv, ReplyInv
    <3>1. CASE Goto(r, "done") /\ Answer(r, "502")
      <4>1. pc'[r] = "done" /\ reply'[r] = "502"
        BY <1>0, <1>c, <3>1, HandlerMoves, AnswerMoves
      <4> QED BY <2>0, <3>0, <4>1 DEF RulesInv, ReplyInv, Active
    <3>2. CASE Goto(r, "preflight") /\ UNCHANGED reply
      <4>1. pc'[r] = "preflight" /\ reply'[r] = "none" /\ r \notin forwarded'
        BY <1>0, <1>c, <3>0, <3>2, HandlerMoves
      <4>2. event'[r].outcome = "success" /\ event'[r].facts = RequestFacts(classifier, req'[r])
        <5>1. CASE event' = [event EXCEPT ![r].facts = RequestFacts(classifier, req[r])] /\ req' = req
          BY <1>0, <3>0, <5>1 DEF HandlerType
        <5>2. CASE req' = [req EXCEPT ![r] = NoRequest] /\ event' = event
          <6>1. req'[r] = NoRequest
            BY <1>0, <5>2 DEF HandlerType
          <6> QED BY <1>0, <3>0, <5>2, <6>1, FactTypes DEF ReloadType
        <5>3. pc'[r] # "done"
          BY <4>1
        <5>4. Goto(r, "done") => pc'[r] = "done"
          BY <1>0, <1>c, HandlerMoves
        <5> QED BY <2>2, <5>1, <5>2, <5>3, <5>4 DEF Normalize
      <4> QED BY <1>1, <2>0, <4>1, <4>2 DEF RulesInv, ReplyInv, Active
    <3> QED BY <2>2, <3>1, <3>2 DEF Normalize
  <2>3. CASE Preflight(r)
    <3>0. pc[r] = "preflight" /\ UNCHANGED <<req, resp, read, reply, forwarded>>
          /\ r \notin forwarded /\ reply[r] = "none" /\ event[r].outcome = "success"
      BY <2>3 DEF Preflight, RulesInv, ReplyInv
    <3>1. CASE Blocks(evaluator, event[r].facts)
      <4>0. "blocked" \in Outcomes
        BY DEF Outcomes
      <4>1. pc'[r] = "emit403" /\ event'[r].outcome = "blocked"
        BY <1>0, <1>c, <2>3, <3>1, <4>0, HandlerMoves, JudgedMoves DEF Preflight
      <4> QED BY <2>0, <3>0, <4>1 DEF RulesInv, ReplyInv, Active
    <3>2. CASE ~Blocks(evaluator, event[r].facts)
      <4>1. pc'[r] = "send" /\ event' = event
        BY <1>0, <1>c, <2>3, <3>2, HandlerMoves DEF Preflight
      <4>2. Allowed(r)
        BY <1>3, <1>4, <3>0, <3>2 DEF RulesInv, Allowed
      <4> QED BY <2>0, <2>a, <3>0, <4>1, <4>2 DEF RulesInv, ReplyInv, Active
    <3> QED BY <3>1, <3>2
  <2>4. ASSUME NEW a \in Responses, SendUpstream(r, a)  PROVE RulesInv(r)' /\ ReplyInv(r)'
    <3>1. pc[r] = "send" /\ pc'[r] = "answer" /\ UNCHANGED <<req, event, read, reply>>
      BY <1>0, <1>c, <2>4, HandlerMoves DEF SendUpstream
    <3> QED BY <2>0, <2>a, <3>1 DEF RulesInv, ReplyInv, Active
  <2>5. CASE UpstreamError(r)
    <3>1. pc[r] = "send" /\ UNCHANGED <<req, resp, read>> /\ Fail(r)
      BY <2>5 DEF UpstreamError
    <3> QED BY <2>0, <2>a, <2>c, <3>1 DEF RulesInv, ReplyInv, Active
  <2>6. CASE ReadAnswer(r)
    <3>0. pc[r] = "answer" /\ UNCHANGED <<req, resp, read, forwarded>>
      BY <2>6 DEF ReadAnswer
    <3>1. CASE Fail(r)
      BY <2>0, <2>a, <2>c, <3>0, <3>1 DEF RulesInv, ReplyInv, Active
    <3>2. CASE Goto(r, IF Inspected(r) THEN "tools" ELSE "deliver") /\ UNCHANGED <<event, reply>>
      <4>1. pc'[r] = (IF Inspected(r) THEN "tools" ELSE "deliver")
        BY <1>0, <1>c, <3>2, HandlerMoves
      <4> QED BY <2>0, <2>a, <2>b, <3>0, <3>2, <4>1 DEF RulesInv, ReplyInv, Active
    <3> QED BY <2>6, <3>1, <3>2 DEF ReadAnswer
  <2>7. CASE ReadEvaluator(r)
    <3>1. pc[r] = "tools" /\ pc'[r] = "classify" /\ read'[r] = evaluator
          /\ UNCHANGED <<req, resp, event, reply, forwarded>>
      BY <1>0, <1>c, <2>7, HandlerMoves DEF ReadEvaluator, HandlerType
    <3> QED BY <1>1, <2>0, <2>a, <3>1 DEF RulesInv, ReplyInv, Active
  <2>8. CASE JudgeTools(r)
    <3>0. pc[r] = "classify" /\ UNCHANGED <<req, resp, event, read, reply, forwarded>>
      BY <2>8 DEF JudgeTools
    <3>1. CASE \E t \in ToolBlocks(r) : Blocks(read[r], CallFacts(classifier, r, t))
      <4>1. pc'[r] = "emit_tool"
        BY <1>0, <1>c, <2>8, <3>1, HandlerMoves DEF JudgeTools
      <4> QED BY <2>0, <2>a, <3>0, <4>1 DEF RulesInv, ReplyInv, Active
    <3>2. CASE ~(\E t \in ToolBlocks(r) : Blocks(read[r], CallFacts(classifier, r, t)))
      <4>1. pc'[r] = "deliver"
        BY <1>0, <1>c, <2>8, <3>2, HandlerMoves DEF JudgeTools
      <4>2. CallsAllowed(r)
        BY <1>3, <1>4, <3>0, <3>2 DEF CallsAllowed, RulesInv
      <4> QED BY <2>0, <2>a, <2>b, <3>0, <4>1, <4>2 DEF RulesInv, ReplyInv, Active
    <3> QED BY <3>1, <3>2
  <2>9. CASE EmitTool(r)
    <3>0. "blocked" \in Outcomes
      BY DEF Outcomes
    <3>1. pc[r] = "emit_tool" /\ pc'[r] = "emit" /\ reply'[r] = "403" /\ event'[r].outcome = "blocked"
          /\ UNCHANGED <<req, resp, read, forwarded>>
      BY <1>0, <1>c, <2>9, <3>0, HandlerMoves, AnswerMoves, JudgedMoves DEF EmitTool
    <3> QED BY <2>0, <2>a, <3>1 DEF RulesInv, ReplyInv, Active, Truth
  <2>10. CASE Deliver(r)
    <3>1. pc[r] = "deliver" /\ pc'[r] = "emit" /\ UNCHANGED <<req, resp, read, forwarded>>
      BY <1>0, <1>c, <2>10, HandlerMoves DEF Deliver
    <3>2. reply'[r] = IF Unmapped(r) /\ strict THEN "502" ELSE "upstream"
      BY <1>0, <2>10, AnswerMoves DEF Deliver
    <3>3. event'[r].outcome = IF ~resp[r].ok \/ ErrorType(r) THEN "failure" ELSE event[r].outcome
      BY <1>0, <2>10 DEF Deliver, HandlerType
    <3>4. Truth(event[r].outcome, r)'
      <4>1. Unmapped(r) => ErrorType(r)
        BY DEF ErrorType
      <4>2. event[r].outcome = "success"
        BY <3>1 DEF ReplyInv
      <4> QED BY <3>1, <3>2, <3>3, <4>1, <4>2 DEF Truth
    <3>5. ReplyInv(r)'
      BY <3>1, <3>4 DEF ReplyInv
    <3> QED BY <2>0, <2>a, <2>b, <3>1, <3>5 DEF RulesInv, Active
  <2>11. CASE EmitEvent(r)
    <3>1. pc[r] \in {"emit", "emit403"} /\ pc'[r] = "done" /\ UNCHANGED <<req, resp, event, read, forwarded>>
      BY <1>0, <1>c, <2>11, HandlerMoves DEF EmitEvent
    <3>2. reply'[r] \in {"403", reply[r]}
      BY <1>0, <2>11, AnswerMoves DEF EmitEvent
    <3> QED BY <2>0, <2>a, <2>b, <3>1, <3>2 DEF RulesInv, ReplyInv, Active
  <2> QED BY <1>3, <1>4, <2>1, <2>2, <2>3, <2>4, <2>5, <2>6, <2>7, <2>8, <2>9, <2>10, <2>11 DEF Handle
<1> QED BY <1>2, <1>4

(***************************************************************************)
(* The events                                                              *)
(***************************************************************************)
\* A step that leaves the recorded events and the events of o in the channel alone,
\* and does not move o, leaves o's event where it is.
LEMMA PlaceKept ==
  ASSUME NEW o \in Reqs, Placed(o), EventsOf(o)' = EventsOf(o), Len(chan) \in Nat,
         UNCHANGED <<pc[o], reply[o], recorded>>, o \in forwarded' <=> o \in forwarded
  PROVE  Placed(o)'
<1>1. RecordsOf(o)' = RecordsOf(o)
  BY DEF RecordsOf
<1>2. EventsOf(o) \subseteq 1..Len(chan) /\ EventsOf(o)' \subseteq 1..Len(chan')
  BY DEF EventsOf
<1>3. (Nowhere(o) => Nowhere(o)') /\ (Somewhere(o) => Somewhere(o)')
  BY <1>1, <1>2 DEF Nowhere, Somewhere
<1> QED BY <1>3 DEF Placed

\* An event that is emitted goes to the end of the channel.
LEMMA EmitPlaces ==
  ASSUME ChannelType, NEW s \in Reqs \cup {"gate"}, NEW k \in {"ai_request", "tool_call", "gate"},
         NEW F \in SUBSET Facts, NEW u \in Outcomes, Emit(s, k, F, u), NEW r \in Reqs
  PROVE  /\ s = r /\ k = "ai_request" => EventsOf(r)' = EventsOf(r) \cup {Len(chan) + 1}
         /\ s # r \/ k # "ai_request" => EventsOf(r)' = EventsOf(r)
<1>1. /\ Len(chan') = Len(chan) + 1
      /\ chan'[Len(chan) + 1] = [req |-> s, kind |-> k, facts |-> F, outcome |-> u]
      /\ \A i \in 1..Len(chan) : chan'[i] = chan[i]
  BY EmitTypes
<1>2. Len(chan) \in Nat
  BY DEF ChannelType
<1>3. 1..(Len(chan) + 1) = (1..Len(chan)) \cup {Len(chan) + 1}
  BY <1>2
<1> DEFINE n == Len(chan)
<1>4. EventsOf(r)' = {i \in 1..(n + 1) : chan'[i].req = r /\ chan'[i].kind = "ai_request"}
  BY <1>1 DEF EventsOf
<1>5. chan'[n + 1].req = s /\ chan'[n + 1].kind = k
  BY <1>1
<1> QED BY <1>1, <1>2, <1>3, <1>4, <1>5 DEF EventsOf

\* An emitted event of another kind keeps every event and what it says true.
LEMMA OtherEmitted ==
  ASSUME ChannelType, NEW s \in Reqs \cup {"gate"}, NEW k \in {"ai_request", "tool_call", "gate"}, k # "ai_request",
         NEW F \in SUBSET Facts, NEW u \in Outcomes, Emit(s, k, F, u)
  PROVE  /\ \A r \in Reqs : EventsOf(r)' = EventsOf(r)
         /\ \A i \in 1..Len(chan') : chan'[i].kind = "ai_request" =>
              i \in 1..Len(chan) /\ chan'[i] = chan[i]
<1>1. \A r \in Reqs : EventsOf(r)' = EventsOf(r)
  BY EmitPlaces
<1>2. /\ Len(chan') = Len(chan) + 1
      /\ chan'[Len(chan) + 1] = [req |-> s, kind |-> k, facts |-> F, outcome |-> u]
      /\ \A i \in 1..Len(chan) : chan'[i] = chan[i]
  BY EmitTypes
<1>3. Len(chan) \in Nat
  BY DEF ChannelType
<1> QED BY <1>1, <1>2, <1>3

\* The events in the channel and in the log are of requests that are done.
LEMMA ReportedIsDone ==
  ASSUME ChannelType, EventInv
  PROVE  /\ \A i \in 1..Len(chan) : chan[i].kind = "ai_request" => pc[chan[i].req] = "done"
         /\ \A e \in recorded : e.kind = "ai_request" => pc[e.req] = "done"
<1>1. ASSUME NEW i \in 1..Len(chan), chan[i].kind = "ai_request"  PROVE pc[chan[i].req] = "done"
  <2>1. chan[i].req \in Reqs /\ i \in EventsOf(chan[i].req)
    BY <1>1 DEF EventInv, Truthful, EventsOf
  <2> QED BY <2>1 DEF EventInv, Placed, Nowhere
<1>2. ASSUME NEW e \in recorded, e.kind = "ai_request"  PROVE pc[e.req] = "done"
  <2>1. e.req \in Reqs /\ e \in RecordsOf(e.req)
    BY <1>2 DEF EventInv, Truthful, RecordsOf
  <2> QED BY <2>1 DEF EventInv, Placed, Nowhere
<1> QED BY <1>1, <1>2

\* A step of r's handler leaves the events of the others where they are and true.
LEMMA HandlerEvents ==
  ASSUME TypeOK, HandlerInv, EventInv, NEW r \in Reqs, Step(r)
  PROVE  EventInv'
<1>0. HandlerType /\ SeenType /\ ChannelType
  BY TypeParts
<1>1. /\ \A o \in Reqs \ {r} : Kept(o)
      /\ recorded' = recorded /\ Len(chan) \in Nat
  BY <1>0, HandlerFrame DEF ChannelType
<1>2. pc[r] # "done" /\ Nowhere(r)
  <2>1. pc[r] # "done"
    BY DEF Step, Handle, Arrive, Reject, Normalize, Preflight, SendUpstream, UpstreamError,
       ReadAnswer, ReadEvaluator, JudgeTools, EmitTool, Deliver, EmitEvent
  <2> QED BY <2>1 DEF EventInv, Placed
<1>3. /\ \A i \in 1..Len(chan) : chan[i].kind = "ai_request" =>
           chan[i].req \in Reqs \ {r} /\ Truth(chan[i].outcome, chan[i].req)
      /\ \A e \in recorded : e.kind = "ai_request" =>
           e.req \in Reqs \ {r} /\ Truth(e.outcome, e.req)
  BY <1>0, <1>2, ReportedIsDone DEF EventInv, Truthful
<1>4. \A o \in Reqs \ {r} : UNCHANGED <<pc[o], reply[o], resp[o]>> /\ (o \in forwarded' <=> o \in forwarded)
  BY <1>1 DEF Kept
<1>t. ASSUME NEW o \in Reqs \ {r}, NEW u, Truth(u, o)
      PROVE  /\ reply'[o] = "403" => u = "blocked"
             /\ reply'[o] = "502" => u \in {"failure", "blocked"}
             /\ u = "success" => reply'[o] = "upstream" /\ resp'[o].ok
  BY <1>4, <1>t DEF Truth
<1>5. \A e \in recorded' : e.kind = "ai_request" =>
        /\ e.req \in Reqs
        /\ reply'[e.req] = "403" => e.outcome = "blocked"
        /\ reply'[e.req] = "502" => e.outcome \in {"failure", "blocked"}
        /\ e.outcome = "success" => reply'[e.req] = "upstream" /\ resp'[e.req].ok
  BY <1>1, <1>3, <1>t
<1>6a. ASSUME NEW i \in 1..Len(chan), chan[i].kind = "ai_request"
       PROVE  /\ chan[i].req \in Reqs
              /\ reply'[chan[i].req] = "403" => chan[i].outcome = "blocked"
              /\ reply'[chan[i].req] = "502" => chan[i].outcome \in {"failure", "blocked"}
              /\ chan[i].outcome = "success" =>
                   reply'[chan[i].req] = "upstream" /\ resp'[chan[i].req].ok
  BY <1>3, <1>6a, <1>t
<1>6. CASE EmitEvent(r)
  <2>0. event[r].facts \in SUBSET Facts /\ event[r].outcome \in Outcomes
    BY <1>0 DEF HandlerType
  <2>1. Emit(r, "ai_request", event[r].facts, event[r].outcome)
    BY <1>6 DEF EmitEvent
  <2>2. /\ EventsOf(r)' = {Len(chan) + 1} /\ Len(chan') = Len(chan) + 1
        /\ \A o \in Reqs \ {r} : EventsOf(o)' = EventsOf(o)
    <3>1. EventsOf(r)' = EventsOf(r) \cup {Len(chan) + 1} /\ \A o \in Reqs \ {r} : EventsOf(o)' = EventsOf(o)
      BY <1>0, <2>0, <2>1, EmitPlaces
    <3>2. Len(chan') = Len(chan) + 1
      BY <1>0, <2>0, <2>1, EmitTypes
    <3> QED BY <1>2, <3>1, <3>2 DEF Nowhere
  <2>3. pc'[r] = "done" /\ UNCHANGED <<resp, event, forwarded>>
    <3>1. "done" \in Points
      BY DEF Points
    <3> QED BY <1>0, <1>6, <3>1, HandlerMoves DEF EmitEvent
  <2>4. Placed(r)'
    <3>1. RecordsOf(r)' = {}
      BY <1>1, <1>2 DEF RecordsOf, Nowhere
    <3>2. Somewhere(r)'
      BY <1>1, <2>2, <3>1 DEF Somewhere
    <3> QED BY <2>3, <3>2 DEF Placed
  <2>5. \A o \in Reqs : Placed(o)'
    BY <1>1, <1>4, <2>2, <2>4, PlaceKept DEF EventInv
  <2>6. Truth(event[r].outcome, r)'
    <3>1. CASE pc[r] = "emit"
      BY <1>6, <2>3, <3>1 DEF EmitEvent, HandlerInv, ReplyInv, Truth
    <3>2. CASE pc[r] = "emit403"
      <4>1. reply'[r] = "403"
        BY <1>0, <1>6, <3>2, AnswerMoves DEF EmitEvent
      <4>2. event[r].outcome = "blocked"
        BY <3>2 DEF HandlerInv, ReplyInv
      <4> QED BY <2>3, <4>1, <4>2 DEF Truth
    <3> QED BY <1>6, <3>1, <3>2 DEF EmitEvent
  <2>7. /\ chan'[Len(chan) + 1] = [req |-> r, kind |-> "ai_request", facts |-> event[r].facts,
                                    outcome |-> event[r].outcome]
        /\ \A i \in 1..Len(chan) : chan'[i] = chan[i]
    BY <1>0, <2>0, <2>1, EmitTypes
  <2>8. ASSUME NEW i \in 1..Len(chan'), chan'[i].kind = "ai_request"
        PROVE  /\ chan'[i].req \in Reqs
               /\ reply'[chan'[i].req] = "403" => chan'[i].outcome = "blocked"
               /\ reply'[chan'[i].req] = "502" => chan'[i].outcome \in {"failure", "blocked"}
               /\ chan'[i].outcome = "success" =>
                    reply'[chan'[i].req] = "upstream" /\ resp'[chan'[i].req].ok
    <3>1. CASE i \in 1..Len(chan)
      BY <1>6a, <2>7, <2>8, <3>1
    <3>2. CASE i = Len(chan) + 1
      <4>1. chan'[i].req = r /\ chan'[i].outcome = event'[r].outcome
        BY <2>3, <2>7, <3>2
      <4> QED BY <2>6, <4>1 DEF Truth
    <3> QED BY <1>1, <2>2, <3>1, <3>2
  <2> QED BY <1>5, <2>5, <2>8 DEF EventInv, Truthful, Truth
<1>7. CASE ~EmitEvent(r)
  <2>1. /\ \A o \in Reqs : EventsOf(o)' = EventsOf(o)
        /\ \A i \in 1..Len(chan') : chan'[i].kind = "ai_request" =>
             i \in 1..Len(chan) /\ chan'[i] = chan[i]
    <3>1. CASE EmitTool(r)
      <4>1. Emit(r, "tool_call", {}, "blocked") /\ "blocked" \in Outcomes /\ {} \in SUBSET Facts
        BY <3>1 DEF EmitTool, Outcomes
      <4> QED BY <1>0, <4>1, OtherEmitted
    <3>2. CASE chan' = chan
      BY <3>2 DEF EventsOf
    <3>3. EmitTool(r) \/ chan' = chan
      BY <1>7 DEF Step, Handle, Arrive, Reject, Normalize, Preflight, SendUpstream, UpstreamError,
         ReadAnswer, ReadEvaluator, JudgeTools, Deliver
    <3> QED BY <3>1, <3>2, <3>3
  <2>2. Nowhere(r)'
    BY <1>1, <1>2, <2>1 DEF Nowhere, RecordsOf
  <2>3. pc'[r] = "done" => r \notin forwarded' /\ reply'[r] \in {"4xx", "502"}
    <3>0. Points = {"idle", "read", "preflight", "send", "answer", "tools", "classify", "deliver",
                    "emit_tool", "emit", "emit403", "done"}
      BY DEF Points
    <3>1. CASE Reject(r) \/ Normalize(r)
      <4>1. pc[r] = "read" /\ r \notin forwarded /\ forwarded' = forwarded
        BY <3>1 DEF Reject, Normalize, HandlerInv, RulesInv
      <4>2. CASE Goto(r, "preflight")
        BY <1>0, <3>0, <4>2, HandlerMoves
      <4>3. CASE \E a \in {"4xx", "502"} : Answer(r, a)
        BY <1>0, <4>1, <4>3, AnswerMoves
      <4> QED BY <3>1, <4>2, <4>3 DEF Reject, Normalize
    <3>2. CASE ~Reject(r) /\ ~Normalize(r)
      <4>1. \E p \in Points \ {"done"} : Goto(r, p)
        BY <1>7, <3>0, <3>2 DEF Step, Handle, Arrive, Preflight, SendUpstream, UpstreamError, Fail,
           ReadAnswer, ReadEvaluator, JudgeTools, EmitTool, Deliver
      <4> QED BY <1>0, <4>1, HandlerMoves
    <3> QED BY <3>1, <3>2
  <2>4. \A o \in Reqs : Placed(o)'
    <3>1. Placed(r)'
      BY <2>2, <2>3 DEF Placed
    <3> QED BY <1>1, <1>4, <2>1, <3>1, PlaceKept DEF EventInv
  <2>5. ASSUME NEW i \in 1..Len(chan'), chan'[i].kind = "ai_request"
        PROVE  /\ chan'[i].req \in Reqs
               /\ reply'[chan'[i].req] = "403" => chan'[i].outcome = "blocked"
               /\ reply'[chan'[i].req] = "502" => chan'[i].outcome \in {"failure", "blocked"}
               /\ chan'[i].outcome = "success" =>
                    reply'[chan'[i].req] = "upstream" /\ resp'[chan'[i].req].ok
    BY <1>6a, <2>1, <2>5
  <2> QED BY <1>5, <2>4, <2>5 DEF EventInv, Truthful, Truth
<1> QED BY <1>6, <1>7

\* The logger takes the first event out of the channel, and judging it again keeps
\* what it says true.
LEMMA RecordEvents ==
  ASSUME TypeOK, EventInv, Record
  PROVE  EventInv'
<1>0. ChannelType
  BY TypeParts
<1> DEFINE e == Head(chan)
<1>1. PICK o \in Outcomes :
        /\ OutcomeRank(e.outcome) <= OutcomeRank(o)
        /\ recorded' = recorded \cup {[req |-> e.req, kind |-> e.kind, outcome |-> o]}
  BY <1>0, RecordMoves
<1> DEFINE d == [req |-> e.req, kind |-> e.kind, outcome |-> o]
<1>2. /\ Len(chan) \in Nat /\ Len(chan) >= 1 /\ e = chan[1] /\ e \in Items
      /\ Len(chan') = Len(chan) - 1 /\ \A i \in 1..Len(chan') : chan'[i] = chan[i + 1]
  <2>1. chan \in Seq(Items) /\ chan # <<>>
    BY <1>0, RecordMoves DEF ChannelType
  <2>2. Len(chan) \in Nat /\ Len(chan) >= 1 /\ e = chan[1]
    BY <2>1
  <2> QED BY <1>0, <2>2, RecordMoves
<1>3. UNCHANGED <<pc, reply, resp, forwarded>>
  BY DEF Record, handler
<1> HIDE DEF e
<1>4. ASSUME NEW r \in Reqs  PROVE Placed(r)'
  <2>1. /\ \A i \in EventsOf(r)' : i \in 1..Len(chan') /\ i + 1 \in EventsOf(r)
        /\ \A i \in EventsOf(r) : i = 1 \/ i - 1 \in EventsOf(r)'
    <3>1. ASSUME NEW i \in EventsOf(r)'  PROVE i \in 1..Len(chan') /\ i + 1 \in EventsOf(r)
      <4>1. i \in 1..Len(chan') /\ chan'[i].req = r /\ chan'[i].kind = "ai_request"
        BY <3>1 DEF EventsOf
      <4>2. chan'[i] = chan[i + 1] /\ i + 1 \in 1..Len(chan)
        BY <1>2, <4>1
      <4> QED BY <4>1, <4>2 DEF EventsOf
    <3>2. ASSUME NEW i \in EventsOf(r), i # 1  PROVE i - 1 \in EventsOf(r)'
      <4>1. i \in 1..Len(chan) /\ chan[i].req = r /\ chan[i].kind = "ai_request"
        BY <3>2 DEF EventsOf
      <4>2. i - 1 \in 1..Len(chan') /\ (i - 1) + 1 = i
        BY <1>2, <3>2, <4>1
      <4>3. chan'[i - 1] = chan[i]
        BY <1>2, <4>2
      <4> QED BY <4>1, <4>2, <4>3 DEF EventsOf
    <3> QED BY <3>1, <3>2
  <2>2. CASE e.kind = "ai_request" /\ e.req = r
    <3>1. 1 \in EventsOf(r)
      BY <1>2, <2>2 DEF EventsOf
    <3>2. EventsOf(r) = {1} /\ RecordsOf(r) = {}
      BY <3>1 DEF EventInv, Placed, Nowhere, Somewhere
    <3>3. EventsOf(r)' = {}
      <4>1. ASSUME NEW i \in EventsOf(r)'  PROVE FALSE
        <5>1. i \in 1..Len(chan') /\ i + 1 = 1
          BY <2>1, <3>2
        <5> QED BY <1>2, <5>1
      <4> QED BY <4>1
    <3>4. d.req = r /\ d.kind = "ai_request" /\ recorded' = recorded \cup {d}
      BY <1>1, <2>2
    <3>5. RecordsOf(r)' = {d} /\ d \in recorded'
      <4> HIDE DEF d
      <4> QED BY <3>2, <3>4 DEF RecordsOf
    <3>6. Somewhere(r)'
      BY <3>3, <3>5 DEF Somewhere
    <3>7. pc[r] = "done"
      BY <3>1 DEF EventInv, Placed, Nowhere
    <3> QED BY <1>3, <3>6, <3>7 DEF Placed
  <2>3. CASE ~(e.kind = "ai_request" /\ e.req = r)
    <3>1. RecordsOf(r)' = RecordsOf(r)
      <4>1. recorded' = recorded \cup {d} /\ ~(d.req = r /\ d.kind = "ai_request")
        BY <1>1, <2>3
      <4> HIDE DEF d
      <4> QED BY <4>1 DEF RecordsOf
    <3>2. 1 \notin EventsOf(r)
      BY <1>2, <2>3 DEF EventsOf
    <3>3. EventsOf(r) = {} => EventsOf(r)' = {}
      BY <2>1
    <3>4. ASSUME NEW j \in 1..Len(chan), EventsOf(r) = {j}
          PROVE  \E i \in 1..Len(chan') : EventsOf(r)' = {i}
      <4>1. j - 1 \in EventsOf(r)' /\ j - 1 \in 1..Len(chan')
        BY <2>1, <3>2, <3>4
      <4>2. \A i \in EventsOf(r)' : i = j - 1
        BY <1>2, <2>1, <3>4
      <4> QED BY <4>1, <4>2
    <3>5. (Nowhere(r) => Nowhere(r)') /\ (Somewhere(r) => Somewhere(r)')
      BY <1>1, <3>1, <3>3, <3>4 DEF Nowhere, Somewhere
    <3> QED BY <1>3, <3>5 DEF EventInv, Placed
  <2> QED BY <2>2, <2>3
<1>5. e.kind = "ai_request" => e.req \in Reqs /\ Truth(o, e.req)
  <2>1. e.outcome \in Outcomes
    BY <1>2 DEF Items
  <2>2. e.kind = "ai_request" => e.req \in Reqs /\ Truth(e.outcome, e.req)
    BY <1>2 DEF EventInv, Truthful
  <2>3. /\ e.outcome = "blocked" => o = "blocked"
        /\ e.outcome = "failure" => o \in {"failure", "blocked"}
        /\ o = "success" => e.outcome = "success"
    BY <1>1, <2>1 DEF OutcomeRank, Outcomes
  <2> QED BY <2>2, <2>3 DEF Truth
<1>6. Truthful'
  <2>1. \A i \in 1..Len(chan') : chan'[i].kind = "ai_request" =>
          chan'[i].req \in Reqs /\ Truth(chan'[i].outcome, chan'[i].req)
    <3>1. ASSUME NEW i \in 1..Len(chan')  PROVE i + 1 \in 1..Len(chan) /\ chan'[i] = chan[i + 1]
      BY <1>2
    <3> QED BY <3>1 DEF EventInv, Truthful
  <2>2. \A x \in recorded' : x.kind = "ai_request" => x.req \in Reqs /\ Truth(x.outcome, x.req)
    <3>1. d.kind = "ai_request" => d.req \in Reqs /\ Truth(d.outcome, d.req)
      BY <1>5
    <3>2. recorded' = recorded \cup {d}
      BY <1>1
    <3> HIDE DEF d
    <3> QED BY <3>1, <3>2 DEF EventInv, Truthful
  <2> QED BY <1>3, <2>1, <2>2 DEF Truthful, Truth
<1> QED BY <1>4, <1>6 DEF EventInv

(***************************************************************************)
(* The inductive invariant                                                 *)
(***************************************************************************)
LEMMA InvInit == Init => Inv
<1> SUFFICES ASSUME Init PROVE Inv
  OBVIOUS
<1>1. \A r \in Reqs : RulesInv(r) /\ ReplyInv(r)
  BY DEF Init, RulesInv, ReplyInv, Active, NoEvent
<1>2. \A r \in Reqs : EventsOf(r) = {} /\ RecordsOf(r) = {} /\ pc[r] = "idle"
  BY DEF Init, EventsOf, RecordsOf
<1>3. Truthful
  BY DEF Init, Truthful
<1> QED BY <1>1, <1>2, <1>3, TypeInit DEF Inv, HandlerInv, EventInv, Placed, Nowhere

LEMMA InvStep == Inv /\ [Next]_vars => Inv'
<1> SUFFICES ASSUME Inv, [Next]_vars PROVE Inv'
  OBVIOUS
<1>0. /\ TypeOK /\ HandlerInv /\ EventInv
      /\ HandlerType /\ ReloadType /\ ChannelType /\ SeenType /\ GateType
  BY TypeParts DEF Inv
<1>1. TypeOK'
  BY <1>0, TypeStep
<1>2. ASSUME NEW r \in Reqs, Step(r)  PROVE HandlerInv' /\ EventInv'
  <2>1. RulesInv(r)' /\ ReplyInv(r)'
    BY <1>0, <1>2, HandlerKnows DEF HandlerInv
  <2>2. ASSUME NEW o \in Reqs \ {r}  PROVE RulesInv(o)' /\ ReplyInv(o)'
    <3>1. Kept(o) /\ evaluator' = evaluator /\ classifier' = classifier
      BY <1>0, <1>2, HandlerFrame DEF config
    <3> QED BY <1>0, <3>1, KnowledgeKept DEF HandlerInv, Kept
  <2> QED BY <1>0, <1>2, <2>1, <2>2, HandlerEvents DEF HandlerInv
\* The other steps leave the handlers alone; all but Record leave the events alone.
<1>3. ASSUME UNCHANGED <<handler, forwarded>>,
             \A r \in Reqs :
               /\ rulesSeen[r] \subseteq rulesSeen'[r] /\ classesSeen[r] \subseteq classesSeen'[r]
               /\ Active(r) /\ evaluator \in rulesSeen[r] => evaluator' \in rulesSeen'[r]
               /\ Active(r) /\ classifier \in classesSeen[r] => classifier' \in classesSeen'[r]
      PROVE  HandlerInv'
  BY <1>0, <1>3, KnowledgeKept DEF HandlerInv, handler
<1>4. ASSUME UNCHANGED <<handler, forwarded, recorded>>,
             \A r \in Reqs : EventsOf(r)' = EventsOf(r),
             \A i \in 1..Len(chan') : chan'[i].kind = "ai_request" =>
               i \in 1..Len(chan) /\ chan'[i] = chan[i]
      PROVE  EventInv'
  <2>1. Len(chan) \in Nat
    BY <1>0 DEF ChannelType
  <2>2. \A r \in Reqs : Placed(r)'
    BY <1>0, <1>4, <2>1, PlaceKept DEF EventInv, handler
  <2>3. Truthful'
    BY <1>0, <1>4 DEF EventInv, Truthful, Truth, handler
  <2> QED BY <2>2, <2>3 DEF EventInv
<1>5. chan' = chan => /\ \A r \in Reqs : EventsOf(r)' = EventsOf(r)
                      /\ \A i \in 1..Len(chan') : chan'[i].kind = "ai_request" =>
                           i \in 1..Len(chan) /\ chan'[i] = chan[i]
  BY DEF EventsOf
<1>6. ASSUME NEW x \in Reloaders, Reload(x)  PROVE HandlerInv' /\ EventInv'
  <2>1. /\ UNCHANGED <<handler, forwarded, recorded, chan>>
        /\ \A r \in Reqs :
             /\ rulesSeen[r] \subseteq rulesSeen'[r] /\ classesSeen[r] \subseteq classesSeen'[r]
             /\ Active(r) /\ evaluator \in rulesSeen[r] => evaluator' \in rulesSeen'[r]
             /\ Active(r) /\ classifier \in classesSeen[r] => classifier' \in classesSeen'[r]
    BY <1>0, <1>6, ReloadMoves
  <2> QED BY <1>3, <1>4, <1>5, <2>1
<1>7. ASSUME Gating  PROVE HandlerInv' /\ EventInv'
  <2>1. /\ UNCHANGED <<handler, forwarded, recorded, config, seen>>
        /\ chan' = chan \/ \E F \in SUBSET Facts : Emit("gate", "gate", F, "blocked")
    BY <1>0, <1>7, GateMoves
  <2>2. HandlerInv'
    BY <1>3, <2>1 DEF config, seen
  <2>3. "blocked" \in Outcomes
    BY DEF Outcomes
  <2>4. EventInv'
    <3>1. CASE chan' = chan
      BY <1>4, <1>5, <2>1, <3>1
    <3>2. ASSUME NEW F \in SUBSET Facts, Emit("gate", "gate", F, "blocked")  PROVE EventInv'
      BY <1>0, <1>4, <2>1, <2>3, <3>2, OtherEmitted
    <3> QED BY <2>1, <3>1, <3>2
  <2> QED BY <2>2, <2>4
<1>8. ASSUME Record  PROVE HandlerInv' /\ EventInv'
  <2>1. UNCHANGED <<handler, forwarded, config, seen>>
    BY <1>8 DEF Record
  <2>2. HandlerInv'
    BY <1>3, <2>1 DEF config, seen
  <2> QED BY <1>0, <1>8, <2>2, RecordEvents
<1>9. ASSUME UNCHANGED <<strict, config, gating, job, reloads, handler, chan, recorded, forwarded, seen>>
      PROVE  HandlerInv' /\ EventInv'
  <2>1. HandlerInv'
    BY <1>3, <1>9 DEF config, seen
  <2> QED BY <1>4, <1>5, <1>9, <2>1
<1>10. HandlerInv' /\ EventInv'
  BY Steps, <1>2, <1>6, <1>7, <1>8, <1>9
<1> QED BY <1>1, <1>10 DEF Inv

\* The inductive invariant holds of every reachable state.
THEOREM InvAlways == Spec => []Inv
BY InvInit, InvStep, PTL DEF Spec

\* The model and the first tool of what went upstream were allowed by rules and a
\* classification in force while the request was handled, however the reloads
\* interleave (handleProxy, buildAuditEvent).
THEOREM ForwardedAlwaysAllowed == Spec => []ForwardedWasAllowed
<1>1. ASSUME NEW q \in Requests \cup {NoRequest}, NEW C \in Classifiers, q.tools # <<>>
      PROVE  C[Head(q.tools)] \in RequestFacts(C, q)
  <2>1. q \in Requests
    BY <1>1 DEF NoRequest
  <2>2. q.tools \in Seq(DOMAIN C)
    BY <2>1, ProxyAssumption
  <2>3. 1 \in DOMAIN q.tools /\ Head(q.tools) = q.tools[1]
    BY <1>1, <2>2
  <2> QED BY <2>3 DEF RequestFacts
<1>2. ASSUME Inv, NEW r \in forwarded
      PROVE  \E R \in rulesSeen[r], C \in classesSeen[r] :
               /\ req[r].model # NoModel => req[r].model \notin R.block
               /\ req[r].tools # <<>> => C[Head(req[r].tools)] \notin R.block
  <2>1. /\ r \in Reqs /\ req[r] \in Requests \cup {NoRequest}
        /\ classesSeen[r] \subseteq Classifiers
    BY <1>2 DEF Inv, TypeOK
  <2>2. PICK R \in rulesSeen[r], C \in classesSeen[r] : ~Blocks(R, RequestFacts(C, req[r]))
    BY <1>2, <2>1 DEF Inv, HandlerInv, RulesInv, Allowed
  <2>3. req[r].model # NoModel => req[r].model \notin R.block
    BY <2>2 DEF Blocks, RequestFacts, ModelFact
  <2>4. req[r].tools # <<>> => C[Head(req[r].tools)] \notin R.block
    BY <1>1, <2>1, <2>2 DEF Blocks
  <2> QED BY <2>1, <2>3, <2>4
<1>3. Inv => ForwardedWasAllowed
  BY <1>2 DEF ForwardedWasAllowed
<1> QED BY <1>3, InvAlways, PTL

\* No tool call of an inspected answer reaches the agent unless one rule set and one
\* classifier that were in force allow them all (evaluateToolUseBlocks).
THEOREM DeliveredAlwaysAllowed == Spec => []DeliveredWasAllowed
<1>1. Inv => DeliveredWasAllowed
  BY DEF Inv, HandlerInv, RulesInv, CallsAllowed, DeliveredWasAllowed
<1> QED BY <1>1, InvAlways, PTL

\* A request has one event at most, none before its handler is through, exactly one
\* if it was forwarded or refused, and what is recorded agrees with what the agent
\* got, on every return path of handleProxy.
THEOREM AlwaysOneTrueEvent == Spec => []OneTrueEvent
<1>1. ASSUME Inv  PROVE OneEvent
  <2>1. ASSUME NEW r \in Reqs
        PROVE  /\ Nowhere(r) => Cardinality(EventsOf(r)) + Cardinality(RecordsOf(r)) = 0
               /\ Somewhere(r) => Cardinality(EventsOf(r)) + Cardinality(RecordsOf(r)) = 1
    <3>1. Cardinality({}) = 0 /\ \A x : Cardinality({x}) = 1
      BY FS_EmptySet, FS_Singleton
    <3>2. \A A : (A = {} => Cardinality(A) = 0) /\ \A x : A = {x} => Cardinality(A) = 1
      BY <3>1, Zenon
    <3>3. /\ EventsOf(r) = {} => Cardinality(EventsOf(r)) = 0
          /\ RecordsOf(r) = {} => Cardinality(RecordsOf(r)) = 0
          /\ \A x : EventsOf(r) = {x} => Cardinality(EventsOf(r)) = 1
          /\ \A x : RecordsOf(r) = {x} => Cardinality(RecordsOf(r)) = 1
      BY <3>2, Zenon
    <3>4. Nowhere(r) => Cardinality(EventsOf(r)) = 0 /\ Cardinality(RecordsOf(r)) = 0
      BY <3>3, Zenon DEF Nowhere
    <3>5. Somewhere(r) => \/ Cardinality(EventsOf(r)) = 1 /\ Cardinality(RecordsOf(r)) = 0
                          \/ Cardinality(EventsOf(r)) = 0 /\ Cardinality(RecordsOf(r)) = 1
      BY <3>3, Zenon DEF Somewhere
    <3> QED BY <3>4, <3>5
  <2>2. ASSUME NEW r \in Reqs, NEW n, n = Cardinality(EventsOf(r)) + Cardinality(RecordsOf(r))
        PROVE  /\ n <= 1
               /\ pc[r] # "done" => n = 0
               /\ pc[r] = "done" /\ r \in forwarded => n = 1
               /\ pc[r] = "done" /\ reply[r] = "403" => n = 1
    <3>1. Placed(r)
      BY <1>1 DEF Inv, EventInv
    <3>2. (Nowhere(r) => n = 0) /\ (Somewhere(r) => n = 1)
      BY <2>1, <2>2
    <3> QED BY <3>1, <3>2 DEF Placed
  <2> QED BY <2>2 DEF OneEvent
<1>2. Inv => OutcomeMatchesReply
  BY DEF Inv, EventInv, Truthful, Truth, OutcomeMatchesReply
<1>3. Inv => OneTrueEvent
  BY <1>1, <1>2 DEF OneTrueEvent
<1> QED BY <1>3, InvAlways, PTL

(***************************************************************************)
(* The front of the same proxy, ProxyEdge: what it promises about          *)
(* certificates does not depend on what becomes of a request behind it.    *)
(***************************************************************************)
Attempts == [host : Hosts, ok : BOOLEAN]

\* A connection that was shown a certificate was shown one for its host; a
\* certificate in the cache is for the host it is kept under.
CertInv ==
  /\ made \in Seq(Attempts)
  /\ \A c \in Conns :
       /\ conn[c].cert \in 0..Len(made)
       /\ conn[c].cert > 0 => made[conn[c].cert].host = conn[c].host
       /\ conn[c].at \in {"idle", "plain", "connect", "lookup", "create"} => conn[c].cert = 0
       /\ conn[c].at \in {"connect", "lookup", "create"} => conn[c].host \in Hosts
  /\ \A h \in DOMAIN certs : certs[h] \in 1..Len(made) /\ made[certs[h]].host = h

\* conn is a function to records that have all their fields.
ConnShape ==
  /\ conn = [c \in Conns |-> conn[c]]
  /\ \A c \in Conns : DOMAIN conn[c] = DOMAIN Idle

\* A host is in the cache from its certificate on until an attempt for another.
KeptInv ==
  \A i \in DOMAIN made : made[i].ok =>
    \/ made[i].host \in DOMAIN certs
    \/ \E k \in (i + 1)..Len(made) : made[k].host # made[i].host

FrontInv == ConnShape /\ CertInv /\ KeptInv /\ CertificatesShared

\* A step that moves one connection and leaves its certificate and host, or
\* forgets both, keeps the invariant.
LEMMA EdgeQuiet ==
  ASSUME FrontInv, NEW c \in Conns, NEW r,
         conn' = [conn EXCEPT ![c] = r], UNCHANGED <<certs, made>>,
         DOMAIN r = DOMAIN Idle,
         \/ r.cert = 0
         \/ r.cert = conn[c].cert /\ r.host = conn[c].host
            /\ r.at \notin {"idle", "plain", "connect", "lookup", "create"}
         \/ r.cert \in 1..Len(made) /\ made[r.cert].host = r.host
            /\ r.at \notin {"idle", "plain", "connect", "lookup", "create"},
         r.at \in {"connect", "lookup", "create"} => r.host \in Hosts
  PROVE  FrontInv'
<1> USE DEF FrontInv, ConnShape, CertInv
<1>1. \A d \in Conns : conn'[d] = IF d = c THEN r ELSE conn[d]
  OBVIOUS
<1>2. conn' = [d \in Conns |-> conn'[d]]
  OBVIOUS
<1>3. ConnShape'
  BY <1>1, <1>2
<1>4. CertInv'
  BY <1>1
<1>5. KeptInv'
  BY DEF KeptInv
<1>6. CertificatesShared'
  BY <1>1, <1>4 DEF CertificatesShared
<1> QED BY <1>3, <1>4, <1>5, <1>6

\* A new certificate: the host was not in the cache, so that its last
\* certificate, if any, is separated from this one by an attempt for another.
LEMMA EdgeCreates ==
  ASSUME FrontInv, NEW c \in Conns, conn[c].at = "create", ~Cached(c), GenerateCert(c)
  PROVE  FrontInv'
<1> USE DEF FrontInv, ConnShape, CertInv
<1> DEFINE h == conn[c].host
           n == Len(made) + 1
<1>1. PICK ok \in BOOLEAN :
        /\ made' = Append(made, [host |-> h, ok |-> ok])
        /\ certs' = IF ok THEN [g \in DOMAIN MakeRoom \cup {h} |->
                               IF g = h THEN Len(made') ELSE MakeRoom[g]]
                  ELSE MakeRoom
        /\ IF ok THEN Present(c, Len(made')) ELSE Close(c)
  BY DEF GenerateCert
<1>2. h \in Hosts /\ h \notin DOMAIN certs
  BY DEF Cached
<1>3. /\ Len(made') = n /\ made' \in Seq(Attempts) /\ n \in Nat \ {0}
      /\ made'[n] = [host |-> h, ok |-> ok]
      /\ \A i \in 1..Len(made) : made'[i] = made[i]
  BY <1>1, <1>2 DEF Attempts
<1>4. MakeRoom = certs \/ DOMAIN MakeRoom = {}
  BY DEF MakeRoom
<1>5. \A g \in DOMAIN MakeRoom : g \in DOMAIN certs /\ MakeRoom[g] = certs[g]
  BY <1>4
<1>6. /\ ok => DOMAIN certs' = DOMAIN MakeRoom \cup {h} /\ certs'[h] = n
      /\ \A g \in DOMAIN certs' : g # h =>
           g \in DOMAIN MakeRoom /\ certs'[g] = MakeRoom[g]
      /\ ~ok => certs' = MakeRoom
  BY <1>1, <1>3
<1>7. \A g \in DOMAIN certs' :
        (g = h /\ ok /\ certs'[g] = n) \/ (g \in DOMAIN certs /\ certs'[g] = certs[g])
  BY <1>5, <1>6
<1>8. \E r : /\ conn' = [conn EXCEPT ![c] = r]
             /\ DOMAIN r = DOMAIN Idle
             /\ \/ ok /\ r.cert = n /\ r.host = h /\ r.at = "handshake"
                \/ r.cert = 0 /\ r.at = "ended"
  <2>1. CASE ok
    <3> DEFINE r == [conn[c] EXCEPT !.at = "handshake", !.cert = n]
    <3>1. conn' = [conn EXCEPT ![c] = r]
      BY <1>1, <1>3, <2>1 DEF Present
    <3>2. DOMAIN r = DOMAIN Idle /\ r.cert = n /\ r.host = h /\ r.at = "handshake"
      BY DEF Idle
    <3> HIDE DEF r
    <3> QED BY <2>1, <3>1, <3>2
  <2>2. CASE ~ok
    <3>1. conn' = [conn EXCEPT ![c] = Ended(conn[c].handler)]
      BY <1>1, <2>2 DEF Close
    <3>2. /\ DOMAIN Ended(conn[c].handler) = DOMAIN Idle
          /\ Ended(conn[c].handler).cert = 0 /\ Ended(conn[c].handler).at = "ended"
      BY DEF Ended, Idle
    <3> QED BY <3>1, <3>2
  <2> QED BY <2>1, <2>2
<1>9. PICK r : /\ conn' = [conn EXCEPT ![c] = r]
               /\ DOMAIN r = DOMAIN Idle
               /\ \/ ok /\ r.cert = n /\ r.host = h /\ r.at = "handshake"
                  \/ r.cert = 0 /\ r.at = "ended"
  BY <1>8
<1>10. \A d \in Conns : conn'[d] = IF d = c THEN r ELSE conn[d]
  BY <1>9
<1>11. ConnShape'
  <2>1. conn' = [d \in Conns |-> conn'[d]]
    BY <1>9
  <2> QED BY <1>9, <1>10, <2>1
<1>12. CertInv'
  <2>1. \A d \in Conns :
          /\ conn'[d].cert \in 0..n
          /\ conn'[d].cert > 0 => made'[conn'[d].cert].host = conn'[d].host
          /\ conn'[d].at \in {"idle", "plain", "connect", "lookup", "create"} => conn'[d].cert = 0
          /\ conn'[d].at \in {"connect", "lookup", "create"} => conn'[d].host \in Hosts
    <3>1. TAKE d \in Conns
    <3>2. CASE d = c
      BY <1>3, <1>9, <1>10, <3>2
    <3>3. CASE d # c
      BY <1>3, <1>10, <3>3
    <3> QED BY <3>2, <3>3
  <2>2. \A g \in DOMAIN certs' : certs'[g] \in 1..n /\ made'[certs'[g]].host = g
    <3>1. TAKE g \in DOMAIN certs'
    <3>2. CASE g = h /\ ok /\ certs'[g] = n
      BY <1>3, <3>2
    <3>3. CASE g \in DOMAIN certs /\ certs'[g] = certs[g]
      <4>1. certs[g] \in 1..Len(made) /\ made[certs[g]].host = g
        BY <3>3
      <4> HIDE DEF CertInv
      <4> QED BY <1>3, <3>3, <4>1
    <3> QED BY <1>7, <3>2, <3>3
  <2> QED BY <1>3, <2>1, <2>2
<1>13. \A i \in 1..Len(made) : made[i].ok /\ made[i].host = h =>
          \E k \in (i + 1)..Len(made) : made[k].host # h
  BY <1>2 DEF KeptInv
<1>14. KeptInv'
  <2>1. SUFFICES ASSUME NEW i \in 1..n, made'[i].ok
                 PROVE  \/ made'[i].host \in DOMAIN certs'
                        \/ \E k \in (i + 1)..n : made'[k].host # made'[i].host
    BY <1>3 DEF KeptInv
  <2>2. CASE i = n
    BY <1>3, <1>6, <2>1, <2>2
  <2>3. CASE i # n /\ made[i].host = h
    <3>1. PICK k \in (i + 1)..Len(made) : made[k].host # h
      BY <1>3, <1>13, <2>1, <2>3
    <3> QED BY <1>3, <2>3, <3>1
  <2>4. CASE i # n /\ made[i].host # h
    <3>1. n \in (i + 1)..n /\ made'[n].host # made'[i].host
      BY <1>3, <2>4
    <3> QED BY <3>1
  <2> QED BY <2>2, <2>3, <2>4
<1>15. CertificatesShared'
  <2>1. SUFFICES ASSUME NEW i \in 1..n, NEW j \in 1..n, i < j, made'[i].ok,
                        made'[i].host = made'[j].host
                 PROVE  \E k \in (i + 1)..(j - 1) : made'[k].host # made'[i].host
    BY <1>3, <1>12 DEF CertificatesShared
  <2>2. CASE j = n
    <3>1. PICK k \in (i + 1)..Len(made) : made[k].host # h
      BY <1>3, <1>13, <2>1, <2>2
    <3> QED BY <1>3, <2>1, <2>2, <3>1
  <2>3. CASE j # n
    <3>1. PICK k \in (i + 1)..(j - 1) : made[k].host # made[i].host
      <4>1. i \in DOMAIN made /\ j \in DOMAIN made /\ made[i].ok /\ made[i].host = made[j].host
        BY <1>3, <2>1, <2>3
      <4> QED BY <2>1, <4>1 DEF CertificatesShared
    <3>2. k \in 1..Len(made) /\ i \in 1..Len(made)
      BY <1>3, <2>1, <2>3, <3>1
    <3> QED BY <1>3, <3>1, <3>2
  <2> QED BY <2>2, <2>3
<1> QED BY <1>11, <1>12, <1>14, <1>15

\* Every step of a connection keeps the invariant.
LEMMA EdgeStep ==
  ASSUME FrontInv, EdgeNext
  PROVE  FrontInv'
<1> USE DEF FrontInv, ConnShape, CertInv
<1>1. ASSUME UNCHANGED <<conn, certs, made>>
      PROVE  FrontInv'
  BY <1>1 DEF KeptInv, CertificatesShared
<1>2. CASE Stop
  BY <1>1, <1>2 DEF Stop, edge
<1>3. ASSUME NEW c \in Conns, NEW h \in Hosts, Connect(c, h)
      PROVE  FrontInv'
  <2> DEFINE r == [conn[c] EXCEPT !.at = "connect", !.host = h]
  <2>1. conn' = [conn EXCEPT ![c] = r] /\ UNCHANGED <<certs, made>>
    BY <1>3 DEF Connect, edge
  <2>2. DOMAIN r = DOMAIN Idle /\ r.cert = 0 /\ r.host = h
    BY <1>3 DEF Connect, At, Idle
  <2> HIDE DEF r
  <2> QED BY <2>1, <2>2, EdgeQuiet
<1>4. ASSUME NEW c \in Conns, PlainRequest(c)
      PROVE  FrontInv'
  <2> DEFINE r == [conn[c] EXCEPT !.at = "plain", !.handler = "read"]
  <2>1. conn' = [conn EXCEPT ![c] = r] /\ UNCHANGED <<certs, made>>
    BY <1>4 DEF PlainRequest, edge
  <2>2. DOMAIN r = DOMAIN Idle /\ r.cert = 0 /\ r.at = "plain"
    BY <1>4 DEF PlainRequest, At, Idle
  <2> HIDE DEF r
  <2> QED BY <2>1, <2>2, EdgeQuiet
\* What closes a connection forgets its certificate.
<1>5. ASSUME NEW c \in Conns, Close(c), UNCHANGED <<certs, made>>
      PROVE  FrontInv'
  <2> DEFINE r == Ended(conn[c].handler)
  <2>1. conn' = [conn EXCEPT ![c] = r]
    BY <1>5 DEF Close
  <2>2. DOMAIN r = DOMAIN Idle /\ r.cert = 0 /\ r.at = "ended"
    BY DEF Ended, Idle
  <2> HIDE DEF r
  <2> QED BY <1>5, <2>1, <2>2, EdgeQuiet
\* A step from one program point to the next leaves certificate and host.
<1>6. ASSUME NEW c \in Conns, NEW p, Go(c, p), UNCHANGED <<certs, made>>,
             \/ p \in {"lookup", "create"} /\ conn[c].at \in {"connect", "lookup"}
             \/ p \in {"dial", "tunnel", "accept"}
      PROVE  FrontInv'
  <2> DEFINE r == [conn[c] EXCEPT !.at = p]
  <2>1. conn' = [conn EXCEPT ![c] = r]
    BY <1>6 DEF Go
  <2>2. DOMAIN r = DOMAIN Idle /\ r.at = p /\ r.cert = conn[c].cert /\ r.host = conn[c].host
    BY DEF Idle
  <2>3. \/ r.cert = 0 /\ r.host \in Hosts
        \/ r.at \notin {"idle", "plain", "connect", "lookup", "create"}
    BY <1>6, <2>2
  <2> HIDE DEF r
  <2> QED BY <1>6, <2>1, <2>2, <2>3, EdgeQuiet
\* So does a step of its handler or of its tunnel.
<1>7. ASSUME NEW c \in Conns, NEW r, conn' = [conn EXCEPT ![c] = r], UNCHANGED <<certs, made>>,
             DOMAIN r = DOMAIN conn[c], r.at = conn[c].at \/ r.at = "accept_again",
             r.cert = conn[c].cert, r.host = conn[c].host
      PROVE  FrontInv'
  <2>1. DOMAIN r = DOMAIN Idle
    BY <1>7
  <2>2. \/ r.cert = 0
        \/ r.at \notin {"idle", "plain", "connect", "lookup", "create"}
    BY <1>7
  <2>3. r.at \in {"connect", "lookup", "create"} => r.host \in Hosts
    BY <1>7
  <2> QED BY <1>7, <2>1, <2>2, <2>3, EdgeQuiet
\* A certificate from the cache is for the host.
<1>8. ASSUME NEW c \in Conns, Cached(c), Present(c, certs[conn[c].host]),
             UNCHANGED <<certs, made>>
      PROVE  FrontInv'
  <2> DEFINE r == [conn[c] EXCEPT !.at = "handshake", !.cert = certs[conn[c].host]]
  <2>1. conn' = [conn EXCEPT ![c] = r]
    BY <1>8 DEF Present
  <2>2. /\ DOMAIN r = DOMAIN Idle /\ r.at = "handshake" /\ r.host = conn[c].host
        /\ r.cert = certs[conn[c].host]
    BY DEF Idle
  <2>3. r.cert \in 1..Len(made) /\ made[r.cert].host = r.host
    BY <1>8, <2>2 DEF Cached
  <2> HIDE DEF r
  <2> QED BY <1>8, <2>1, <2>2, <2>3, EdgeQuiet
<1>9. ASSUME NEW c \in Conns, HandleConn(c)
      PROVE  FrontInv'
  <2> USE DEF edge, At
  <2>1. CASE HandleConnect(c)
    BY <1>5, <1>6, <2>1 DEF HandleConnect
  <2>2. CASE Lookup(c)
    BY <1>6, <1>8, <2>2 DEF Lookup
  <2>3. CASE Create(c)
    BY <1>8, <2>3, EdgeCreates DEF Create
  <2>4. CASE Handshake(c)
    BY <1>5, <1>6, <2>4 DEF Handshake
  <2>5. CASE AcceptFirst(c)
    <3> DEFINE r == [conn[c] EXCEPT !.at = "accept_again", !.handler = "read"]
    <3>1. conn' = [conn EXCEPT ![c] = r] /\ UNCHANGED <<certs, made>>
      BY <2>5 DEF AcceptFirst
    <3>2. /\ DOMAIN r = DOMAIN conn[c] /\ r.at = "accept_again"
          /\ r.cert = conn[c].cert /\ r.host = conn[c].host
      BY DEF Idle
    <3> HIDE DEF r
    <3> QED BY <1>7, <3>1, <3>2
  <2>6. CASE AcceptSecond(c)
    BY <1>5, <2>6 DEF AcceptSecond
  <2>7. ASSUME NEW p, Handler(c, p), UNCHANGED <<certs, made>>
        PROVE  FrontInv'
    <3> DEFINE r == [conn[c] EXCEPT !.handler = p]
    <3>1. conn' = [conn EXCEPT ![c] = r]
      BY <2>7 DEF Handler
    <3>2. /\ DOMAIN r = DOMAIN conn[c] /\ r.at = conn[c].at
          /\ r.cert = conn[c].cert /\ r.host = conn[c].host
      BY DEF Idle
    <3> HIDE DEF r
    <3> QED BY <1>7, <2>7, <3>1, <3>2
  <2>8. ASSUME NEW p, NEW q, NEW t, UNCHANGED <<certs, made>>,
               conn' = [conn EXCEPT ![c] = [conn[c] EXCEPT !.handler = p, !.ask = q, !.route = t]]
        PROVE  FrontInv'
    <3> DEFINE r == [conn[c] EXCEPT !.handler = p, !.ask = q, !.route = t]
    <3>1. /\ DOMAIN r = DOMAIN conn[c] /\ r.at = conn[c].at
          /\ r.cert = conn[c].cert /\ r.host = conn[c].host
      BY DEF Idle
    <3>2. conn' = [conn EXCEPT ![c] = r]
      BY <2>8
    <3> HIDE DEF r
    <3> QED BY <1>7, <2>8, <3>1, <3>2
  <2>9. CASE CloseConn(c)
    <3>1. CASE conn[c].at = "plain"
      <4> DEFINE r == Ended("closed")
      <4>1. conn' = [conn EXCEPT ![c] = r] /\ UNCHANGED <<certs, made>>
        BY <2>9, <3>1 DEF CloseConn
      <4>2. DOMAIN r = DOMAIN Idle /\ r.cert = 0 /\ r.at = "ended"
        BY DEF Ended, Idle
      <4> HIDE DEF r
      <4> QED BY <4>1, <4>2, EdgeQuiet
    <3>2. CASE conn[c].at # "plain"
      BY <2>7, <2>9, <3>2 DEF CloseConn, Handler
    <3> QED BY <3>1, <3>2
  <2>10. CASE ReadRequest(c)
    <3>1. CASE Handler(c, "close")
      BY <2>7, <2>10, <3>1 DEF ReadRequest
    <3>2. CASE ~Handler(c, "close")
      <4>1. PICK q \in Asks : conn' = [conn EXCEPT ![c].handler = "resolve", ![c].ask = q]
        BY <2>10, <3>2 DEF ReadRequest
      <4>2. conn' = [conn EXCEPT ![c] =
                       [conn[c] EXCEPT !.handler = "resolve", !.ask = q, !.route = conn[c].route]]
        BY <4>1 DEF Idle
      <4> QED BY <2>8, <2>10, <4>2 DEF ReadRequest
    <3> QED BY <3>1, <3>2
  <2>11. CASE RouteRequest(c)
    <3>1. CASE Handler(c, "close")
      BY <2>7, <2>11, <3>1 DEF RouteRequest
    <3>2. CASE ~Handler(c, "close")
      <4>1. PICK p \in Resolve(conn[c].ask) :
              conn' = [conn EXCEPT ![c].handler = "serve", ![c].route = p]
        BY <2>11, <3>2 DEF RouteRequest
      <4>2. conn' = [conn EXCEPT ![c] =
                       [conn[c] EXCEPT !.handler = "serve", !.ask = conn[c].ask, !.route = p]]
        BY <4>1 DEF Idle
      <4> QED BY <2>8, <2>11, <4>2 DEF RouteRequest
    <3> QED BY <3>1, <3>2
  <2>12. CASE ServeRequest(c)
    BY <2>8, <2>12 DEF ServeRequest
  <2>13. CASE Dial(c)
    BY <1>5, <1>6, <2>13 DEF Dial
  <2>14. CASE TunnelEnds(c)
    BY <1>5, <2>14 DEF TunnelEnds
  <2> QED
    BY <1>9, <2>1, <2>2, <2>3, <2>4, <2>5, <2>6, <2>9, <2>10, <2>11, <2>12, <2>13, <2>14
    DEF HandleConn
\* The two copies of a tunnel.
<1>10. ASSUME NEW c \in Conns, NEW k, NEW cl, NEW eof, UNCHANGED <<certs, made>>,
              conn' = [conn EXCEPT ![c] =
                         [conn[c] EXCEPT !.copying = k, !.closed = cl, !.eof = eof]]
       PROVE  FrontInv'
  <2> DEFINE r == [conn[c] EXCEPT !.copying = k, !.closed = cl, !.eof = eof]
  <2>1. /\ DOMAIN r = DOMAIN conn[c] /\ r.at = conn[c].at
        /\ r.cert = conn[c].cert /\ r.host = conn[c].host
    BY DEF Idle
  <2>2. conn' = [conn EXCEPT ![c] = r]
    BY <1>10
  <2> HIDE DEF r
  <2> QED BY <1>7, <1>10, <2>1, <2>2
<1>11. ASSUME NEW c \in Conns, NEW s \in Sides,
              PeerCloses(c, s) \/ CopyEnds(c, s) \/ CopyFails(c, s)
       PROVE  FrontInv'
  <2>1. CASE PeerCloses(c, s)
    <3>1. conn' = [conn EXCEPT ![c] = [conn[c] EXCEPT
                     !.copying = conn[c].copying, !.closed = conn[c].closed \cup {s},
                     !.eof = conn[c].eof]]
      BY <2>1 DEF PeerCloses, Idle
    <3>2. UNCHANGED <<certs, made>>
      BY <2>1 DEF PeerCloses, edge
    <3> QED BY <1>10, <3>1, <3>2
  <2>2. CASE CopyEnds(c, s) \/ CopyFails(c, s)
    <3>1. EndsCopying(c, s) /\ UNCHANGED <<certs, made>>
      BY <2>2 DEF CopyEnds, CopyFails, edge
    <3>2. conn' = [conn EXCEPT ![c] = [conn[c] EXCEPT
                     !.copying = conn[c].copying \ {s}, !.closed = conn[c].closed,
                     !.eof = conn[c].eof \cup (Sides \ {s})]]
      BY <3>1 DEF EndsCopying, Idle
    <3> QED BY <1>10, <3>1, <3>2
  <2> QED BY <1>11, <2>1, <2>2
<1> QED BY <1>2, <1>3, <1>4, <1>9, <1>11 DEF EdgeNext

LEMMA FrontAlways == EdgeSpec => []FrontInv
<1>1. EdgeInit => FrontInv
  <2> SUFFICES ASSUME EdgeInit PROVE FrontInv
    OBVIOUS
  <2>1. \A c \in Conns : conn[c] = Idle
    BY DEF EdgeInit
  <2>2. Idle.cert = 0 /\ Idle.at = "idle"
    BY DEF Idle
  <2>3. ConnShape
    BY <2>1 DEF ConnShape, EdgeInit
  <2>4. CertInv
    BY <2>1, <2>2 DEF CertInv, EdgeInit
  <2> QED BY <2>1, <2>2, <2>3, <2>4 DEF FrontInv, KeptInv, CertificatesShared, EdgeInit
<1>2. FrontInv /\ [EdgeNext]_edgeVars => FrontInv'
  <2>1. ASSUME FrontInv, UNCHANGED edgeVars
        PROVE  FrontInv'
    BY <2>1 DEF FrontInv, ConnShape, CertInv, KeptInv, CertificatesShared, edgeVars, edge
  <2> QED BY <2>1, EdgeStep
<1> QED BY <1>1, <1>2, PTL DEF EdgeSpec

\* A client is shown a certificate for its host, and connections that miss the
\* cache together share the one that is made: for any number of connections and
\* hosts and any size of the cache (CertCache.GetOrCreate).
THEOREM CertificatesAlwaysShared == EdgeSpec => []CertificatesShared
<1>1. FrontInv => CertificatesShared
  BY DEF FrontInv
<1> QED BY <1>1, FrontAlways, PTL

\* No request is being served before the connection was accepted, nor any more
\* once it has ended.
ServeInv ==
  \A c \in Conns :
    /\ conn[c].at \notin {"plain", "accept_again", "ended"} => conn[c].handler = "none"
    /\ conn[c].at = "ended" => conn[c].handler \in {"none", "closed"}

LEMMA ServeStep ==
  ASSUME ConnShape, ServeInv, EdgeNext
  PROVE  ServeInv'
<1> USE DEF ConnShape, ServeInv, At, Idle
<1>1. CASE Stop
  BY <1>1 DEF Stop
<1>2. ASSUME NEW c \in Conns, NEW r, conn' = [conn EXCEPT ![c] = r],
             r.at \notin {"plain", "accept_again", "ended"} => r.handler = "none",
             r.at = "ended" => r.handler \in {"none", "closed"}
      PROVE  ServeInv'
  <2>1. \A d \in Conns : conn'[d] = IF d = c THEN r ELSE conn[d]
    BY <1>2
  <2> QED BY <1>2, <2>1
<1>3. ASSUME NEW c \in Conns, NEW h \in Hosts, Connect(c, h) PROVE ServeInv'
  BY <1>3 DEF Connect
<1>4. ASSUME NEW c \in Conns, PlainRequest(c) PROVE ServeInv'
  BY <1>4 DEF PlainRequest
<1>5. ASSUME NEW c \in Conns, Close(c), conn[c].handler \in {"none", "closed"} PROVE ServeInv'
  <2>1. /\ Ended(conn[c].handler).at = "ended"
        /\ Ended(conn[c].handler).handler = conn[c].handler
    BY DEF Ended
  <2> QED BY <1>2, <1>5, <2>1 DEF Close
<1>6. ASSUME NEW c \in Conns, NEW p, Go(c, p), conn[c].handler = "none" PROVE ServeInv'
  BY <1>6 DEF Go
<1>7. ASSUME NEW c \in Conns, NEW p, Handler(c, p), conn[c].handler \notin {"none", "closed"}
      PROVE  ServeInv'
  BY <1>7 DEF Handler
<1>8. ASSUME NEW c \in Conns, HandleConn(c) PROVE ServeInv'
  <2>1. CASE HandleConnect(c)
    BY <1>5, <1>6, <2>1 DEF HandleConnect
  <2>2. ASSUME NEW n, Present(c, n), conn[c].handler = "none" PROVE ServeInv'
    BY <2>2 DEF Present
  <2>3. CASE Lookup(c)
    BY <1>6, <2>2, <2>3 DEF Lookup
  <2>4. CASE Create(c)
    BY <1>5, <2>2, <2>4 DEF Create, GenerateCert
  <2>5. CASE Handshake(c)
    BY <1>5, <1>6, <2>5 DEF Handshake
  <2>6. CASE AcceptFirst(c)
    BY <2>6 DEF AcceptFirst
  <2>7. CASE AcceptSecond(c)
    BY <1>5, <2>7 DEF AcceptSecond
  <2>8. CASE CloseConn(c)
    <3>1. CASE At(c, "plain")
      <4>1. Ended("closed").at = "ended" /\ Ended("closed").handler = "closed"
        BY DEF Ended
      <4> QED BY <1>2, <2>8, <3>1, <4>1 DEF CloseConn
    <3>2. CASE ~At(c, "plain")
      BY <1>7, <2>8, <3>2 DEF CloseConn, Handler
    <3> QED BY <3>1, <3>2
  <2>9. CASE ReadRequest(c)
    BY <1>7, <2>9 DEF ReadRequest
  <2>10. CASE RouteRequest(c)
    BY <1>7, <2>10 DEF RouteRequest
  <2>11. CASE ServeRequest(c)
    BY <2>11 DEF ServeRequest
  <2>12. CASE Dial(c)
    BY <1>5, <1>6, <2>12 DEF Dial
  <2>13. CASE TunnelEnds(c)
    BY <1>5, <2>13 DEF TunnelEnds
  <2> QED
    BY <1>8, <2>1, <2>3, <2>4, <2>5, <2>6, <2>7, <2>8, <2>9, <2>10, <2>11, <2>12, <2>13
    DEF HandleConn
<1>9. ASSUME NEW c \in Conns, NEW s \in Sides,
             PeerCloses(c, s) \/ CopyEnds(c, s) \/ CopyFails(c, s)
      PROVE  ServeInv'
  BY <1>9 DEF PeerCloses, CopyEnds, CopyFails, EndsCopying
<1> QED BY <1>1, <1>3, <1>4, <1>8, <1>9 DEF EdgeNext

\* The server of an intercepted connection does not return, and so its connection
\* is not closed, while the request is still served: "ensuring http.Server.Serve
\* does not return while the handler is still running" (connect.go), for any
\* number of connections.
THEOREM AlwaysServedFirst == EdgeSpec => []ServedFirst
<1>1. EdgeInit => ServeInv
  BY DEF EdgeInit, ServeInv, Idle
<1>2. FrontInv /\ ServeInv /\ [EdgeNext]_edgeVars => ServeInv'
  <2>1. ASSUME ServeInv, UNCHANGED edgeVars PROVE ServeInv'
    BY <2>1 DEF ServeInv, edgeVars
  <2> QED BY <2>1, ServeStep DEF FrontInv
<1>3. ServeInv => ServedFirst
  BY DEF ServeInv, ServedFirst, At
<1> QED BY <1>1, <1>2, <1>3, FrontAlways, PTL DEF EdgeSpec
=============================================================================
