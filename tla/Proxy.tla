------------------------------- MODULE Proxy --------------------------------
(***************************************************************************)
(* The enforcing proxy of internal/adapter/proxy, the gate.evaluate call   *)
(* of internal/daemon/gate.go, the reload of their rules                   *)
(* (reloadRuntime in internal/daemon/daemon.go) and the audit logger that  *)
(* judges the proxy's events once more.  One goroutine per request runs    *)
(* handleProxy; a reload replaces the logger's rules, the proxy's rules    *)
(* and the proxy's classifier one after the other.                         *)
(*                                                                         *)
(* A rule set is [block |-> S, warn |-> W], sets of the facts (a model, a  *)
(* tool category) its rules match.  A classifier maps tools to categories. *)
(* The event channel, the queue and the logger's batch are one channel.    *)
(***************************************************************************)
EXTENDS Judgement, Sequences, FiniteSets

CONSTANTS
  Reqs,         \* requests (one handler goroutine each)
  Reloaders,    \* goroutines that may run reloadRuntime: SIGHUP, IPC
  RuleSets,     \* rule sets the commandments file may hold
  Classifiers,  \* tool registries: functions from tools to categories
  Requests,     \* requests the agents make
  Responses,    \* what the upstream provider may answer
  GateCalls,    \* facts of the tool calls agents submit to gate.evaluate
  StrictModes,  \* values of mapping_strict_mode
  Capacity,     \* capacity of the event channel (1000)
  MaxReloads    \* bound: number of reloads

Faults == {"none", "stream", "extract", "map", "read", "write", "error_field"}
Kinds == {"sse", "json", "other", "empty"}

NoModel == "no_model"

ASSUME ProxyAssumption ==
  /\ \A R \in RuleSets : DOMAIN R = {"block", "warn"}
  /\ \A q \in Requests :
       /\ DOMAIN q = {"model", "tools", "stream"} /\ q.stream \in BOOLEAN
       /\ \A C \in Classifiers : q.tools \in Seq(DOMAIN C)
  /\ \A a \in Responses :
       /\ DOMAIN a = {"ok", "kind", "model", "tools", "fault"}
       /\ a.ok \in BOOLEAN /\ a.kind \in Kinds /\ a.fault \in Faults
       /\ \A C \in Classifiers : a.tools \subseteq DOMAIN C
  /\ StrictModes \subseteq BOOLEAN
  /\ Capacity \in Nat \ {0}
  /\ MaxReloads \in Nat

VARIABLES
  strict,          \* cfg.MappingStrictMode
  commandments,    \* Daemon.commandments
  loggerRules,     \* Logger.evaluator
  evaluator,       \* Proxy.evaluator
  classifier,      \* Proxy.classifier
  gateRules,       \* the service the gate handler was registered with
  gate,            \* the gate handler: program point, facts of the call
  verdict,         \* history: "outdated" if the gate's last answer, given while no
                   \* reload ran, was not that of the daemon's rules
  job,             \* each reloader: program point, new rules and classifier, argument
  reloads,         \* number of reloads begun
  pc,              \* program point of each request's handler
  req, resp,       \* the request and the upstream's answer
  event,           \* the audit event of the request: facts, outcome
  read,            \* the evaluator evaluateToolUseBlocks has read
  reply,           \* what the agent was sent
  chan,            \* events on their way to the logger
  stopping,        \* the daemon's context is cancelled
  recorded,        \* history: what the logger recorded
  forwarded,       \* history: requests that were sent upstream
  rulesSeen,       \* history: values of evaluator since the request arrived
  classesSeen      \* history: values of classifier since the request arrived

config  == <<commandments, loggerRules, evaluator, classifier>>
handler == <<pc, req, resp, event, read, reply>>
seen    == <<rulesSeen, classesSeen>>
gating  == <<gateRules, gate, verdict>>
vars    == <<strict, config, gating, job, reloads, handler, chan, stopping, recorded,
             forwarded, seen>>

NoResponse == [ok |-> TRUE, kind |-> "empty", model |-> NoModel, tools |-> {},
               fault |-> "none"]
NoRequest == [model |-> NoModel, tools |-> <<>>, stream |-> FALSE]
NoEvent == [facts |-> {}, outcome |-> "success"]

Active(r) == pc[r] \notin {"idle", "done"}

Blocks(R, facts) == R.block \cap facts # {}
Triggered(R, facts) ==
  (IF Blocks(R, facts) THEN {"block"} ELSE {}) \cup
  (IF R.warn \cap facts # {} THEN {"warn"} ELSE {})

ModelFact(m) == {m} \ {NoModel}

\* Mutant: the last of the request's tools is judged.
LastToolFacts(C, q) ==
  ModelFact(q.model) \cup {C[q.tools[i]] : i \in {Len(q.tools)} \ {0}}

\* buildAuditEvent: what the rules judge a request by, its model and the first of
\* its tools.  The other tools are only listed in the event's arguments.
RequestFacts(C, q) ==
  ModelFact(q.model) \cup {C[q.tools[i]] : i \in {1} \cap DOMAIN q.tools}

Init ==
  /\ strict \in StrictModes
  /\ commandments \in RuleSets
  /\ loggerRules = commandments /\ evaluator = commandments
  /\ classifier \in Classifiers
  /\ gateRules = commandments
  /\ gate = [at |-> "idle", facts |-> {}]
  /\ verdict = "none"
  /\ job = [x \in Reloaders |-> [at |-> "idle", rules |-> commandments,
                                 classes |-> classifier, arg |-> commandments]]
  /\ reloads = 0
  /\ pc = [r \in Reqs |-> "idle"]
  /\ req = [r \in Reqs |-> NoRequest] /\ resp = [r \in Reqs |-> NoResponse]
  /\ event = [r \in Reqs |-> NoEvent]
  /\ read = [r \in Reqs |-> commandments]
  /\ reply = [r \in Reqs |-> "none"]
  /\ chan = <<>> /\ stopping = FALSE /\ recorded = {}
  /\ forwarded = {}
  /\ rulesSeen = [r \in Reqs |-> {}] /\ classesSeen = [r \in Reqs |-> {}]

(***************************************************************************)
(* handleProxy: arrival, routing, normalization, preflight                 *)
(***************************************************************************)
Goto(r, p) == pc' = [pc EXCEPT ![r] = p]
Answer(r, status) == reply' = [reply EXCEPT ![r] = status]
Judged(r, outcome) == event' = [event EXCEPT ![r].outcome = outcome]

Arrive(r, q) ==
  /\ pc[r] = "idle"
  /\ Goto(r, "read")
  /\ req' = [req EXCEPT ![r] = q]
  /\ rulesSeen' = [rulesSeen EXCEPT ![r] = {evaluator}]
  /\ classesSeen' = [classesSeen EXCEPT ![r] = {classifier}]
  /\ UNCHANGED <<strict, gating, config, job, reloads, resp, event, read, reply, chan,
                 stopping, recorded, forwarded>>

\* The body exceeds the limit, or no provider matches: an error, no event.
Reject(r) ==
  /\ pc[r] = "read"
  /\ Goto(r, "done") /\ Answer(r, "4xx")
  /\ UNCHANGED <<strict, gating, config, job, reloads, req, resp, event, read, chan,
                 stopping, recorded, forwarded, seen>>

\* normalizeRequest classifies the request's tools.  A body it cannot map is an
\* error in strict mode; otherwise the event knows neither model nor tool.
Normalize(r) ==
  /\ pc[r] = "read"
  /\ \/ /\ Goto(r, "preflight")
        /\ event' = [event EXCEPT ![r].facts = RequestFacts(classifier, req[r])]
        /\ UNCHANGED <<req, reply>>
     \/ /\ ~strict
        /\ Goto(r, "preflight")
        /\ req' = [req EXCEPT ![r] = NoRequest]
        /\ UNCHANGED <<event, reply>>
     \/ /\ strict
        /\ Goto(r, "done") /\ Answer(r, "502")
        /\ UNCHANGED <<req, event>>
  /\ UNCHANGED <<strict, gating, config, job, reloads, resp, read, chan, stopping,
                 recorded, forwarded, seen>>


\* shouldBlock.  A blocked request is recorded first and answered then.
Preflight(r) ==
  /\ pc[r] = "preflight"
  /\ IF Blocks(evaluator, event[r].facts)
     THEN Judged(r, "blocked") /\ Goto(r, "emit403")
     ELSE Goto(r, "send") /\ UNCHANGED event
  /\ UNCHANGED <<strict, gating, config, job, reloads, req, resp, read, reply, chan,
                 stopping, recorded, forwarded, seen>>

(***************************************************************************)
(* handleProxy: the upstream                                               *)
(***************************************************************************)

\* Mutant: the error path returns without an event.
FailSilently(r) ==
  /\ Answer(r, "502") /\ Judged(r, "failure") /\ Goto(r, "done")

\* An error answer is written first and recorded then.
Fail(r) ==
  /\ Answer(r, "502") /\ Judged(r, "failure") /\ Goto(r, "emit")

SendUpstream(r, a) ==
  /\ pc[r] = "send"
  /\ Goto(r, "answer")
  /\ resp' = [resp EXCEPT ![r] = a]
  /\ forwarded' = forwarded \cup {r}
  /\ UNCHANGED <<strict, gating, config, job, reloads, req, event, read, reply, chan,
                 stopping, recorded, seen>>

\* The request cannot be built or authorised, or the upstream cannot be reached
\* (it may have got the request nevertheless).
UpstreamError(r) ==
  /\ pc[r] = "send"
  /\ Fail(r)
  /\ forwarded' \in {forwarded, forwarded \cup {r}}
  /\ UNCHANGED <<strict, gating, config, job, reloads, req, resp, read, chan, stopping,
                 recorded, seen>>

Streamed(r) == req[r].stream \/ resp[r].kind = "sse"
Inspected(r) == Streamed(r) \/ (resp[r].ok /\ resp[r].kind = "json")

\* bufferSSEStream and ExtractToolUseBlocks: what they find, and their errors.
ToolBlocks(r) ==
  IF Streamed(r) /\ resp[r].kind # "sse" THEN {} ELSE resp[r].tools

Unreadable(r) ==
  \/ Streamed(r) /\ resp[r].fault = "stream"
  \/ ~Streamed(r) /\ Inspected(r) /\ resp[r].fault = "extract"

\* Mutant: the tool calls of an answer are not looked at.
ReadAnswerOnly(r) ==
  /\ pc[r] = "answer"
  /\ IF Unreadable(r) THEN Fail(r)
     ELSE Goto(r, "deliver") /\ UNCHANGED <<event, reply>>
  /\ UNCHANGED <<strict, gating, config, job, reloads, req, resp, read, chan, stopping,
                 recorded, forwarded, seen>>

ReadAnswer(r) ==
  /\ pc[r] = "answer"
  /\ IF Unreadable(r) THEN Fail(r)
     ELSE /\ Goto(r, IF Inspected(r) THEN "tools" ELSE "deliver")
          /\ UNCHANGED <<event, reply>>
  /\ UNCHANGED <<strict, gating, config, job, reloads, req, resp, read, chan, stopping,
                 recorded, forwarded, seen>>

(***************************************************************************)
(* evaluateToolUseBlocks: the evaluator is read, then the classifier.      *)
(***************************************************************************)
ReadEvaluator(r) ==
  /\ pc[r] = "tools"
  /\ read' = [read EXCEPT ![r] = evaluator]
  /\ Goto(r, "classify")
  /\ UNCHANGED <<strict, gating, config, job, reloads, req, resp, event, reply, chan,
                 stopping, recorded, forwarded, seen>>

\* The event evaluateToolUseBlocks judges: the tool, and the requested model.
CallFacts(C, r, t) == {C[t]} \cup ModelFact(req[r].model)

JudgeTools(r) ==
  /\ pc[r] = "classify"
  /\ Goto(r, IF \E t \in ToolBlocks(r) : Blocks(read[r], CallFacts(classifier, r, t))
             THEN "emit_tool" ELSE "deliver")
  /\ UNCHANGED <<strict, gating, config, job, reloads, req, resp, event, read, reply,
                 chan, stopping, recorded, forwarded, seen>>

\* emit blocks while the channel is full.
Emit(r, kind, facts, outcome) ==
  /\ Len(chan) < Capacity
  /\ chan' = Append(chan, [req |-> r, kind |-> kind, facts |-> facts,
                           outcome |-> outcome])

\* Mutant: the loop stays at the blocked tool call.
EmitToolRepeats(r) ==
  /\ pc[r] = "emit_tool"
  /\ Emit(r, "tool_call", {}, "blocked")
  /\ UNCHANGED <<strict, gating, config, job, reloads, handler, stopping, recorded,
                 forwarded, seen>>

\* The event of the blocked tool call, whose outcome no rule can raise further;
\* then the answer.
EmitTool(r) ==
  /\ pc[r] = "emit_tool"
  /\ Emit(r, "tool_call", {}, "blocked")
  /\ Answer(r, "403") /\ Judged(r, "blocked") /\ Goto(r, "emit")
  /\ UNCHANGED <<strict, gating, config, job, reloads, req, resp, read, stopping,
                 recorded, forwarded, seen>>

(***************************************************************************)
(* handleProxy: the answer goes to the agent, the event to the logger      *)
(***************************************************************************)
HasBody(r) == resp[r].kind # "empty"
Unmapped(r) == ~Streamed(r) /\ HasBody(r) /\ resp[r].fault = "map"

\* A read error counts only when nothing was read: NormalizeResponse of what was
\* read replaces it.
ErrorType(r) ==
  \/ Unmapped(r)
  \/ HasBody(r) /\ resp[r].fault = "write"
  \/ ~Streamed(r) /\ HasBody(r) /\ resp[r].fault = "error_field"
  \/ ~Streamed(r) /\ ~HasBody(r) /\ resp[r].fault = "read"

\* The model the answer names replaces the one that was requested.
AnsweredFacts(r) ==
  IF Unmapped(r) \/ (Streamed(r) /\ resp[r].kind # "sse") \/ resp[r].model = NoModel
  THEN event[r].facts
  ELSE (event[r].facts \ ModelFact(req[r].model)) \cup {resp[r].model}

Deliver(r) ==
  /\ pc[r] = "deliver"
  /\ Answer(r, IF Unmapped(r) /\ strict THEN "502" ELSE "upstream")
  /\ event' = [event EXCEPT
       ![r] = [facts |-> AnsweredFacts(r),
               outcome |-> IF ~resp[r].ok \/ ErrorType(r) THEN "failure" ELSE @.outcome]]
  /\ Goto(r, "emit")
  /\ UNCHANGED <<strict, gating, config, job, reloads, req, resp, read, chan, stopping,
                 recorded, forwarded, seen>>

EmitEvent(r) ==
  /\ pc[r] \in {"emit", "emit403"}
  /\ Emit(r, "ai_request", event[r].facts, event[r].outcome)
  /\ IF pc[r] = "emit403" THEN Answer(r, "403") ELSE UNCHANGED reply
  /\ Goto(r, "done")
  /\ UNCHANGED <<strict, gating, config, job, reloads, req, resp, event, read,
                 stopping, recorded, forwarded, seen>>

(***************************************************************************)
(* gate.evaluate: a blocked call is emitted first and answered then.       *)
(***************************************************************************)
Settled == \A x \in Reloaders : job[x].at = "idle"

Decide(decision, facts) ==
  verdict' = IF Settled /\ (decision = "block") # Blocks(commandments, facts)
             THEN "outdated" ELSE "none"

GateEvaluate(facts) ==
  /\ gate.at = "idle"
  /\ IF Blocks(gateRules, facts)
     THEN gate' = [at |-> "emit", facts |-> facts] /\ UNCHANGED verdict
     ELSE Decide("pass", facts) /\ UNCHANGED gate
  /\ UNCHANGED <<strict, config, gateRules, job, reloads, handler, chan, stopping,
                 recorded, forwarded, seen>>

GateEmit ==
  /\ gate.at = "emit"
  /\ Emit("gate", "gate", gate.facts, "blocked")
  /\ Decide("block", gate.facts)
  /\ gate' = [gate EXCEPT !.at = "idle"]
  /\ UNCHANGED <<strict, config, gateRules, job, reloads, handler, stopping,
                 recorded, forwarded, seen>>

(***************************************************************************)
(* The logger judges the event with its own rules.                         *)
(***************************************************************************)
Record ==
  /\ chan # <<>> /\ ~stopping
  /\ LET e == Head(chan)
     IN  recorded' = recorded \cup
           {[req |-> e.req, kind |-> e.kind,
             outcome |-> RaisedOutcome(e.outcome, "proxy",
                                       Triggered(loggerRules, e.facts))]}
  /\ chan' = Tail(chan)
  /\ UNCHANGED <<strict, gating, config, job, reloads, handler, stopping, forwarded, seen>>

\* The forwarder and the logger end with the context; requests may go on.
Shutdown ==
  /\ ~stopping /\ stopping' = TRUE
  /\ UNCHANGED <<strict, gating, config, job, reloads, handler, chan, recorded,
                 forwarded, seen>>

(***************************************************************************)
(* reloadRuntime: both files are loaded and compiled first; the four       *)
(* assignments follow, each reading Daemon.commandments anew.  What else a *)
(* reload replaces (the redactor, the log watcher's classifier, the        *)
(* provider mappings, the notifier) does not decide what is blocked.       *)
(***************************************************************************)
Watch(history, value) ==
  [r \in Reqs |-> IF Active(r) THEN history[r] \cup {value} ELSE history[r]]

ReloadLoad(x) ==
  /\ job[x].at = "idle" /\ reloads < MaxReloads
  /\ reloads' = reloads + 1
  /\ \/ \E R \in RuleSets, C \in Classifiers :
          job' = [job EXCEPT ![x] = [at |-> "install", rules |-> R, classes |-> C,
                                     arg |-> R]]
     \/ UNCHANGED job   \* one of the files is invalid: everything stays
  /\ UNCHANGED <<strict, gating, config, handler, chan, stopping, recorded, forwarded, seen>>

ReloadInstall(x) ==
  /\ job[x].at = "install"
  /\ commandments' = job[x].rules
  /\ job' = [job EXCEPT ![x].at = "logger"]
  /\ UNCHANGED <<strict, gating, loggerRules, evaluator, classifier, reloads, handler,
                 chan, stopping, recorded, forwarded, rulesSeen, classesSeen>>

\* The argument of a Set call is evaluated before the call.
ReloadRead(x) ==
  /\ job[x].at \in {"logger", "proxy"}
  /\ job' = [job EXCEPT ![x].arg = commandments,
                        ![x].at = IF @ = "logger" THEN "set_logger" ELSE "set_proxy"]
  /\ UNCHANGED <<strict, gating, config, reloads, handler, chan, stopping, recorded,
                 forwarded, seen>>

SetLoggerRules(x) ==
  /\ job[x].at = "set_logger"
  /\ loggerRules' = job[x].arg
  /\ job' = [job EXCEPT ![x].at = "proxy"]
  /\ UNCHANGED <<strict, gating, commandments, evaluator, classifier, reloads, handler,
                 chan, stopping, recorded, forwarded, seen>>

SetEvaluator(x) ==
  /\ job[x].at = "set_proxy"
  /\ evaluator' = job[x].arg
  /\ rulesSeen' = Watch(rulesSeen, job[x].arg)
  /\ job' = [job EXCEPT ![x].at = "classifier"]
  /\ UNCHANGED <<strict, gating, commandments, loggerRules, classifier, reloads, handler,
                 chan, stopping, recorded, forwarded,
                 classesSeen>>

SetClassifier(x) ==
  /\ job[x].at = "classifier"
  /\ classifier' = job[x].classes
  /\ classesSeen' = Watch(classesSeen, job[x].classes)
  /\ job' = [job EXCEPT ![x].at = "idle"]
  /\ UNCHANGED <<strict, gating, commandments, loggerRules, evaluator, reloads, handler,
                 chan, stopping, recorded, forwarded, rulesSeen>>

Handle(r) ==
  \/ Reject(r) \/ Normalize(r) \/ Preflight(r)
  \/ (\E a \in Responses : SendUpstream(r, a)) \/ UpstreamError(r)
  \/ ReadAnswer(r) \/ ReadEvaluator(r) \/ JudgeTools(r) \/ EmitTool(r)
  \/ Deliver(r) \/ EmitEvent(r)

Reload(x) ==
  \/ ReloadLoad(x) \/ ReloadInstall(x) \/ ReloadRead(x)
  \/ SetLoggerRules(x) \/ SetEvaluator(x) \/ SetClassifier(x)

\* Every request was handled, or waits for a logger that has ended.
Quiet ==
  /\ \A r \in Reqs : \/ pc[r] = "done"
                     \/ /\ pc[r] \in {"emit", "emit403", "emit_tool"}
                        /\ stopping /\ Len(chan) = Capacity
  /\ UNCHANGED vars

Next ==
  \/ \E r \in Reqs : (\E q \in Requests : Arrive(r, q)) \/ Handle(r)
  \/ \E x \in Reloaders : Reload(x)
  \/ (\E facts \in GateCalls : GateEvaluate(facts)) \/ GateEmit
  \/ Record \/ Shutdown
  \/ Quiet

Spec == Init /\ [][Next]_vars

\* The upstream answers or the connection breaks; handlers and the logger run.
\* A full Go channel serves the goroutines parked on it first in, first out, so
\* no sender is passed over for ever.
FairSpec ==
  /\ Spec
  /\ WF_vars(Record)
  /\ \A r \in Reqs : WF_vars(Handle(r)) /\ SF_vars(EmitEvent(r)) /\ SF_vars(EmitTool(r))

-----------------------------------------------------------------------------
(***************************************************************************)
(* Properties                                                              *)
(***************************************************************************)
\* What a forwarded request is judged by, its model and the first of its tools, was
\* allowed by rules and a classification that were in force while it was handled,
\* however a reload interleaves ("the request is never forwarded upstream",
\* commandments/README.md).  A forbidden tool further down the list goes upstream
\* unjudged (buildAuditEvent takes Tools[0]); a call of it is judged when the answer
\* makes it.  A request that could not be mapped has no facts to judge.
ForwardedWasAllowed ==
  \A r \in forwarded :
    LET q == req[r]
    IN  \E R \in rulesSeen[r], C \in classesSeen[r] :
          /\ q.model # NoModel => q.model \notin R.block
          /\ q.tools # <<>> => C[Head(q.tools)] \notin R.block

\* Whatever passes the inspection does so under one rule set and one classifier
\* that were in force: no tool call is judged by anything else, and none of an
\* answer's tool calls reaches the agent unjudged (evaluateToolUseBlocks; answers
\* with an error status, in another format, or in JSON to a streaming request are
\* not inspected).
DeliveredWasAllowed ==
  \A r \in Reqs :
    reply[r] = "upstream" /\ Inspected(r) =>
      \E R \in rulesSeen[r], C \in classesSeen[r] :
        \A t \in ToolBlocks(r) : ~Blocks(R, CallFacts(C, r, t))

EventsOf(r) ==
  {i \in 1..Len(chan) : chan[i].req = r /\ chan[i].kind = "ai_request"}
RecordsOf(r) == {e \in recorded : e.req = r /\ e.kind = "ai_request"}

OneEvent ==
  \A r \in Reqs :
    LET n == Cardinality(EventsOf(r)) + Cardinality(RecordsOf(r))
    IN  /\ n <= 1
        /\ pc[r] # "done" => n = 0
        /\ pc[r] = "done" /\ r \in forwarded => n = 1
        /\ pc[r] = "done" /\ reply[r] = "403" => n = 1

OutcomeMatchesReply ==
  \A e \in recorded :
    e.kind = "ai_request" =>
      /\ reply[e.req] = "403" => e.outcome = "blocked"
      /\ reply[e.req] = "502" => e.outcome \in {"failure", "blocked"}
      /\ e.outcome = "success" => reply[e.req] = "upstream" /\ resp[e.req].ok

\* Every return path of handleProxy reports once and truly.  A request has at most
\* one event, none before the handler is through with it, and exactly one if it
\* was forwarded or refused; and what is recorded agrees with what the agent got:
\* a refusal is recorded as blocked, an error never as a success, and a success
\* means that the upstream's own answer was delivered.
OneTrueEvent == OneEvent /\ OutcomeMatchesReply

\* A handler never waits for ever while the logger runs.
RequestsEnd ==
  \A r \in Reqs : (pc[r] # "idle") ~> (pc[r] = "done" \/ stopping)

\* commandments/README.md: "After editing the YAML file, reload rules without
\* restarting the daemon".  While no reload is running, the gate decides by the
\* rules the daemon has loaded.
GateCurrent == verdict # "outdated"
=============================================================================
