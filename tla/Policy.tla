------------------------------- MODULE Policy -------------------------------
(***************************************************************************)
(* What decides about a tool call: the commandments and the tool registry, *)
(* read from two files at the daemon's start and at every reload           *)
(* (Daemon.Run, Daemon.reloadRuntime, internal/commandments,               *)
(* internal/classify).                                                     *)
(*                                                                         *)
(* A file is [kind, doc]: missing, unreadable (an error that is not        *)
(* IsNotExist), broken (not YAML of the right shape) or a document.        *)
(* Compiled rules are kept with the document they were compiled from.      *)
(* Reloads run concurrently: nothing serialises the one of SIGHUP and      *)
(* those of the IPC connections.  Proxy models how requests read the       *)
(* policy while it is being replaced.                                      *)
(***************************************************************************)
EXTENDS Rules, Registry

CONSTANTS
  RuleDocs,         \* what the commandments file may hold
  RegistryDocs,     \* what the registry file may hold
  DefaultRules,     \* the embedded commandments
  DefaultRegistry,  \* the embedded registry
  Reloaders,        \* goroutines that may run reloadRuntime: SIGHUP, IPC
  Calls,            \* tool calls [provider, tool, keys, model, tokens]
  MaxEdits,         \* bound: edits of the two files
  MaxRestarts       \* bound: restarts of the daemon

NoDoc == [version |-> "none", rules |-> <<>>]

\* The fields of a rule that it is sorted and selected by.
RuleList(rs) ==
  /\ rs \in Seq(Range(rs))
  /\ \A r \in Range(rs) : r.priority \in Int /\ r.name \in Nat /\ r.enabled \in BOOLEAN

ASSUME PolicyAssumption ==
  /\ Validate(DefaultRules) /\ Compiles(DefaultRules)
  /\ ValidRegistry(DefaultRegistry)
  /\ NoDoc \notin RuleDocs /\ MaxEdits \in Nat /\ MaxRestarts \in Nat
  /\ \A d \in RuleDocs \cup {DefaultRules} : RuleList(d.rules)
  /\ \A c \in Calls : {"provider", "tool", "keys", "model", "tokens"} \subseteq DOMAIN c

VARIABLES
  ruleFile, regFile, \* the two files
  rules,             \* the commandments in force [doc, order]
  registry,          \* the registry in force [doc, compiled]
  pc,                \* where Run is
  job,               \* each reloader: where it is in reloadRuntime, what it has loaded,
                     \* and, as history, the documents it has read together and
                     \* whether nobody else has installed since it began to
  loaded,            \* history: what the start or reload that ended last had read
  crossed,           \* history: another reload installed while that one did
  edits, restarts    \* edits and restarts so far

vars == <<ruleFile, regFile, rules, registry, pc, job, loaded, crossed, edits, restarts>>
files == <<ruleFile, regFile, edits>>
inForce == <<rules, registry>>
history == <<loaded, crossed>>

Files(docs) ==
  {[kind |-> k, doc |-> NoDoc] : k \in {"missing", "unreadable", "broken"}}
    \cup {[kind |-> "doc", doc |-> d] : d \in docs}

\* The document a file stands for, or none: the embedded one is used only
\* when there is no file.
Source(file, default) ==
  CASE file.kind = "doc" -> {file.doc}
    [] file.kind = "missing" -> {default}
    [] OTHER -> {}

NewEngine(file) ==
  {[doc |-> d, order |-> CompileRules(d.rules)] :
     d \in {x \in Source(file, DefaultRules) : Validate(x) /\ Compiles(x)}}

LoadRegistry(file) ==
  UNION {{[doc |-> d, compiled |-> c] : c \in NewRegistry(d)} :
           d \in {x \in Source(file, DefaultRegistry) : ValidRegistry(x)}}

Embedded == [kind |-> "missing", doc |-> NoDoc]

\* noopCommandmentsService: no rules, every event passes.
NoopService == [doc |-> NoDoc, order |-> <<>>]

Job(at, newRules, newRegistry, read) ==
  [at |-> at, rules |-> newRules, registry |-> newRegistry, read |-> read, alone |-> FALSE]
Idle == Job("idle", {}, {}, <<>>)

Init ==
  /\ ruleFile \in Files(RuleDocs) /\ regFile \in Files(RegistryDocs)
  /\ rules = NoopService
  /\ registry \in LoadRegistry(Embedded)
  /\ pc = "startRules"
  /\ job = [x \in Reloaders |-> Idle]
  /\ loaded = <<NoDoc, DefaultRegistry>> /\ crossed = FALSE
  /\ edits = 0 /\ restarts = 0

(***************************************************************************)
(* The operator                                                            *)
(***************************************************************************)
EditRules ==
  /\ edits < MaxEdits
  /\ \E f \in Files(RuleDocs) \ {ruleFile} : ruleFile' = f
  /\ edits' = edits + 1
  /\ UNCHANGED <<regFile, inForce, pc, job, history, restarts>>

EditRegistry ==
  /\ edits < MaxEdits
  /\ \E f \in Files(RegistryDocs) \ {regFile} : regFile' = f
  /\ edits' = edits + 1
  /\ UNCHANGED <<ruleFile, inForce, pc, job, history, restarts>>

(***************************************************************************)
(* Start: whatever the files hold, the daemon runs.                        *)
(***************************************************************************)
\* The process ends and is started again.  The log watcher's classifier is
\* the embedded registry until Run has loaded one.
Restart ==
  /\ restarts < MaxRestarts
  /\ restarts' = restarts + 1
  /\ pc' = "startRules"
  /\ rules' = NoopService
  /\ \E g \in LoadRegistry(Embedded) : registry' = g
  /\ job' = [x \in Reloaders |-> Idle]
  /\ UNCHANGED <<files, history>>

StartRules ==
  /\ pc = "startRules"
  /\ LET got == NewEngine(ruleFile)
     IN  rules' \in IF got = {} THEN {NoopService} ELSE got
  /\ pc' = "startRegistry"
  /\ UNCHANGED <<files, registry, job, history, restarts>>

StartRegistry ==
  /\ pc = "startRegistry"
  /\ LET got == LoadRegistry(regFile)
     IN  registry' \in IF got = {} THEN LoadRegistry(Embedded) ELSE got
  /\ loaded' = <<rules.doc, registry'.doc>> /\ crossed' = FALSE
  /\ pc' = "run"
  /\ UNCHANGED <<files, rules, job, restarts>>

(***************************************************************************)
(* reloadRuntime: load both, then install both or neither.  No lock keeps  *)
(* two reloads apart.                                                      *)
(***************************************************************************)
BeginReload(x) ==
  /\ pc = "run" /\ job[x].at = "idle"
  /\ job' = [job EXCEPT ![x] = Job("loadRules", {}, {}, <<>>)]
  /\ UNCHANGED <<files, inForce, pc, history, restarts>>

\* Mutant: the service in force reloads itself, which the noop service
\* answers with success and no rules.
LoadRulesInPlace(x) ==
  /\ job[x].at = "loadRules"
  /\ LET got == IF rules = NoopService THEN {NoopService} ELSE NewEngine(ruleFile)
     IN  job' = [job EXCEPT ![x] = Job("loadRegistry", got, {}, <<>>)]
  /\ UNCHANGED <<files, inForce, pc, history, restarts>>

LoadRules(x) ==
  /\ job[x].at = "loadRules"
  /\ job' = [job EXCEPT ![x] = Job("loadRegistry", NewEngine(ruleFile), {}, <<>>)]
  /\ UNCHANGED <<files, inForce, pc, history, restarts>>

\* Mutant: rules that load are installed although the registry does not.
LoadClassifierLenient(x) ==
  /\ job[x].at = "loadRegistry"
  /\ LET got == LoadRegistry(regFile)
     IN  \/ job[x].rules = {} /\ job' = [job EXCEPT ![x] = Idle]
         \/ \E g \in IF got = {} THEN {registry} ELSE got, n \in job[x].rules :
              job' = [job EXCEPT ![x] =
                        Job("installRules", job[x].rules, {g},
                            IF got = {} THEN <<>> ELSE <<n.doc, g.doc>>)]
  /\ UNCHANGED <<files, inForce, pc, history, restarts>>

LoadClassifier(x) ==
  /\ job[x].at = "loadRegistry"
  /\ LET got == LoadRegistry(regFile)
     IN  \/ (job[x].rules = {} \/ got = {}) /\ job' = [job EXCEPT ![x] = Idle]
         \/ \E g \in got, n \in job[x].rules :
              job' = [job EXCEPT ![x] =
                        Job("installRules", job[x].rules, {g}, <<n.doc, g.doc>>)]
  /\ UNCHANGED <<files, inForce, pc, history, restarts>>

Installing(x) == job[x].at = "installRegistry"

InstallRules(x) ==
  /\ job[x].at = "installRules"
  /\ rules' \in job[x].rules
  /\ LET alone == \A y \in Reloaders : ~Installing(y)
     IN  job' = [y \in Reloaders |->
                   IF y = x THEN [job[y] EXCEPT !.at = "installRegistry", !.rules = {},
                                                !.alone = alone]
                            ELSE [job[y] EXCEPT !.alone = FALSE]]
  /\ UNCHANGED <<files, registry, pc, history, restarts>>

InstallRegistry(x) ==
  /\ job[x].at = "installRegistry"
  /\ registry' \in job[x].registry
  /\ loaded' = job[x].read /\ crossed' = ~job[x].alone
  /\ job' = [job EXCEPT ![x] = Idle]
  /\ UNCHANGED <<files, rules, pc, restarts>>

Load(x) == LoadRules(x) \/ LoadClassifier(x) \/ InstallRules(x) \/ InstallRegistry(x)

Next ==
  \/ EditRules \/ EditRegistry
  \/ Restart \/ StartRules \/ StartRegistry
  \/ \E x \in Reloaders : BeginReload(x) \/ Load(x)

Spec == Init /\ [][Next]_vars

\* The goroutines that start or reload run; nobody is obliged to reload.
FairSpec ==
  /\ Spec
  /\ WF_vars(StartRules \/ StartRegistry)
  /\ \A x \in Reloaders : WF_vars(Load(x))

(***************************************************************************)
(* Judging a call with the policy in force                                 *)
(***************************************************************************)
Classified(c) == Classify(registry.compiled, c.provider, c.tool, c.keys)

ToolEvent(c) ==
  [provider |-> c.provider, model |-> c.model, tool_name |-> c.tool,
   tool_category |-> Classified(c).category, input_tokens |-> c.tokens]

(***************************************************************************)
(* Properties                                                              *)
(***************************************************************************)
\* What the document in force says of an event: enabled rules all of whose
\* fields are there and match.
Wanted(e) ==
  {r \in Range(rules.doc.rules) :
     r.enabled /\ \A f \in DOMAIN r.match :
                    f \in DOMAIN e /\ e[f] # "" /\ Match(r.match[f], e[f])}

\* Engine.Evaluate, after sorting and compiling, triggers exactly the rules
\* that the document in force calls for, each once, and no rule comes after
\* one of lower priority or after one of its own priority with a later name.
EvaluationExact ==
  \A c \in Calls :
    LET e == ToolEvent(c)
        t == Evaluate(rules.order, e).triggered
    IN  /\ Range(t) = Wanted(e) /\ Len(t) = Cardinality(Range(t))
        /\ \A i, j \in 1..Len(t) :
             i < j => /\ t[i].priority >= t[j].priority
                      /\ t[i].priority = t[j].priority => t[i].name < t[j].name

\* Unless two reloads have installed their halves at the same time (reloadRuntime
\* has no lock, so SIGHUP's rules may meet the IPC call's registry until a reload
\* installs alone), and when nobody is about to install the other half, the rules
\* and the registry in force were read together, by the start or reload that ended
\* last.  A reload that fails on one file (reloadRuntime's early return) leaves both
\* as they were, and reloads may overlap in any other way.
PolicyFromOneLoad ==
  pc = "run" /\ ~crossed /\ (\A x \in Reloaders : ~Installing(x))
    => loaded = <<rules.doc, registry.doc>>

\* A reload that finds two valid files, and is not overtaken by an edit, puts
\* them into force, also when the daemon was started without rules.  No other
\* reload may have read a file before: it could install the old one afterwards.
ReloadTakesEffect ==
  \A n \in 0..MaxEdits, x \in Reloaders :
    (/\ job[x].at = "loadRules" /\ NewEngine(ruleFile) # {} /\ LoadRegistry(regFile) # {}
     /\ \A y \in Reloaders : job[y].at \in {"idle", "loadRules"}
     /\ [](edits = n))
      ~> (/\ rules.doc \in Source(ruleFile, DefaultRules)
          /\ registry.doc \in Source(regFile, DefaultRegistry))

CaseBlind ==
  (\A p \in DOMAIN registry.compiled.providers :
     \A t \in DOMAIN registry.compiled.providers[p].tools : Lower(t) = t)
    => \A c \in Calls :
         Classified(c) = Classified([c EXCEPT !.provider = Lower(@), !.tool = Lower(@)])

ArgsNeverOverrideName ==
  \A c \in Calls : Classified(c).source = "exact" =>
    \A keys \in {d.keys : d \in Calls} : Classified([c EXCEPT !.keys = keys]) = Classified(c)

\* What Classify says does not depend on what it should not depend on: a call
\* found by its name is classified the same whatever arguments it has (their keys
\* decide only about names nobody listed), and if the names in the registry are in
\* lower case, neither the case of the provider nor that of the tool matters.
ClassificationSound == CaseBlind /\ ArgsNeverOverrideName
=============================================================================
