---------------------------- MODULE PolicyProofs ----------------------------
(***************************************************************************)
(* The rules and the registry in force were read together, for any         *)
(* documents, defaults, reloaders and numbers of edits and restarts, until *)
(* two reloads install at the same time; what Classify says depends        *)
(* neither on letter case nor, once a name is found, on the arguments of   *)
(* the call; and Evaluate, after sorting and compiling, triggers exactly   *)
(* the rules that the document in force calls for.                         *)
(***************************************************************************)
EXTENDS Policy, FiniteSetTheorems, WellFoundedInduction, TLAPS

\* The fields of a job, whatever they hold.
JobShape(j) ==
  j = [at |-> j.at, rules |-> j.rules, registry |-> j.registry, read |-> j.read,
       alone |-> j.alone]

\* What a reload has loaded is what it has read together; while nobody else has
\* installed since it did, its rules are in force.
JobInv(j) ==
  /\ JobShape(j)
  /\ \A m, n \in j.rules : m.doc = n.doc
  /\ j.at = "installRules" => \A n \in j.rules : n.doc = j.read[1]
  /\ j.at = "installRegistry" /\ j.alone => rules.doc = j.read[1]
  /\ j.at \in {"installRules", "installRegistry"} =>
       /\ j.read = <<j.read[1], j.read[2]>>
       /\ \A g \in j.registry : g.doc = j.read[2]

LoadInv ==
  /\ job = [x \in Reloaders |-> job[x]]
  /\ \A x \in Reloaders : JobInv(job[x])
  /\ pc # "run" => \A x \in Reloaders : job[x] = Idle

\* NewEngine compiles at most one document.
LEMMA OneDocument ==
  ASSUME NEW file, NEW m \in NewEngine(file), NEW n \in NewEngine(file)
  PROVE  m.doc = n.doc
<1> DEFINE D == {x \in Source(file, DefaultRules) : Validate(x) /\ Compiles(x)}
<1>1. PICK d \in D : m = [doc |-> d, order |-> CompileRules(d.rules)]
  BY DEF NewEngine
<1>2. PICK e \in D : n = [doc |-> e, order |-> CompileRules(e.rules)]
  BY DEF NewEngine
<1>3. \A x, y \in Source(file, DefaultRules) : x = y
  BY DEF Source
<1>4. d = e
  BY <1>3
<1> QED BY <1>1, <1>2, <1>4

LEMMA IdleJob == JobInv(Idle) /\ (JobInv(Idle))'
<1>1. /\ Idle.at = "idle" /\ Idle.rules = {} /\ JobShape(Idle)
  BY DEF Idle, Job, JobShape
<1> QED BY <1>1 DEF JobInv

\* A reload that changes only its own job, and nothing in force, keeps LoadInv.
LEMMA OwnJob ==
  ASSUME LoadInv, NEW x \in Reloaders, NEW j, pc = "run" \/ j = Idle, JobInv(j),
         job' = [job EXCEPT ![x] = j], UNCHANGED <<rules, pc>>
  PROVE  LoadInv' /\ \A y \in Reloaders : job'[y] = IF y = x THEN j ELSE job[y]
<1>1. \A y \in Reloaders : job'[y] = IF y = x THEN j ELSE job[y]
  BY DEF LoadInv
<1>2. job' = [y \in Reloaders |-> job'[y]]
  BY DEF LoadInv
<1>3. \A y \in Reloaders : JobInv(job[y]) => (JobInv(job[y])')  \/ y = x
  <2>1. TAKE y \in Reloaders
  <2>2. CASE y # x
    BY <1>1, <2>2 DEF JobInv, JobShape
  <2> QED BY <2>2
<1>4. JobInv(job'[x])
  BY <1>1
<1>5. (JobInv(job[x]))'
  BY <1>4 DEF JobInv, JobShape
<1>6. \A y \in Reloaders : (JobInv(job[y]))'
  BY <1>3, <1>5 DEF LoadInv
<1> QED BY <1>1, <1>2, <1>6 DEF LoadInv

\* Every step keeps the two invariants together.
LEMMA LoadStep ==
  ASSUME LoadInv, PolicyFromOneLoad, [Next]_vars
  PROVE  LoadInv' /\ PolicyFromOneLoad'
<1>1. ASSUME UNCHANGED <<inForce, pc, job, history>>  PROVE LoadInv' /\ PolicyFromOneLoad'
  BY <1>1 DEF LoadInv, JobInv, JobShape, PolicyFromOneLoad, Installing, inForce, history
<1>2. CASE EditRules
  BY <1>1, <1>2 DEF EditRules
<1>3. CASE EditRegistry
  BY <1>1, <1>3 DEF EditRegistry
<1>4. CASE UNCHANGED vars
  BY <1>1, <1>4 DEF vars, inForce, history
<1>5. ASSUME job' = [x \in Reloaders |-> Idle]  PROVE LoadInv'
  BY <1>5, IdleJob DEF LoadInv
<1>6. CASE Restart
  BY <1>5, <1>6 DEF Restart, PolicyFromOneLoad
<1>7. ASSUME pc # "run", UNCHANGED job  PROVE LoadInv'
  <2>1. job' = [x \in Reloaders |-> Idle]
    BY <1>7 DEF LoadInv
  <2> QED BY <1>5, <2>1
<1>8. CASE StartRules
  BY <1>7, <1>8 DEF StartRules, PolicyFromOneLoad
<1>9. CASE StartRegistry
  BY <1>7, <1>9 DEF StartRegistry, PolicyFromOneLoad
<1>10. ASSUME NEW x \in Reloaders, NEW j, pc = "run" \/ j = Idle, JobInv(j),
              job[x].at # "installRegistry", j.at # "installRegistry",
              job' = [job EXCEPT ![x] = j], UNCHANGED <<inForce, pc, history>>
       PROVE  LoadInv' /\ PolicyFromOneLoad'
  <2>1. LoadInv' /\ \A y \in Reloaders : job'[y] = IF y = x THEN j ELSE job[y]
    BY <1>10, OwnJob DEF inForce
  <2>2. \A y \in Reloaders : Installing(y)' <=> Installing(y)
    BY <1>10, <2>1 DEF Installing
  <2> QED BY <1>10, <2>1, <2>2 DEF PolicyFromOneLoad, inForce, history
<1>11. ASSUME NEW x \in Reloaders, BeginReload(x)  PROVE LoadInv' /\ PolicyFromOneLoad'
  <2> DEFINE j == Job("loadRules", {}, {}, <<>>)
  <2>1. j.at = "loadRules" /\ j.rules = {} /\ JobShape(j)
    BY DEF Job, JobShape
  <2>2. /\ JobInv(j) /\ j.at # "installRegistry"
    BY <2>1 DEF JobInv
  <2>3. job' = [job EXCEPT ![x] = j]
    BY <1>11 DEF BeginReload, LoadInv
  <2> HIDE DEF j
  <2> QED BY <1>10, <1>11, <2>2, <2>3 DEF BeginReload
<1>12. ASSUME NEW x \in Reloaders, LoadRules(x)  PROVE LoadInv' /\ PolicyFromOneLoad'
  <2> DEFINE N == NewEngine(ruleFile)
             j == Job("loadRegistry", N, {}, <<>>)
  <2>1. pc = "run"
    BY <1>12 DEF LoadRules, LoadInv, Idle, Job
  <2>2. \A m, n \in N : m.doc = n.doc
    BY OneDocument
  <2>3. job' = [job EXCEPT ![x] = j]
    BY <1>12 DEF LoadRules, LoadInv
  <2>4. JobInv(j) /\ j.at # "installRegistry"
    <3> HIDE DEF N
    <3>1. j.at = "loadRegistry" /\ j.rules = N /\ JobShape(j)
      BY DEF Job, JobShape
    <3> HIDE DEF j
    <3> QED BY <2>2, <3>1 DEF JobInv
  <2> HIDE DEF j
  <2> QED BY <1>10, <1>12, <2>1, <2>3, <2>4 DEF LoadRules
<1>13. ASSUME NEW x \in Reloaders, LoadClassifier(x)  PROVE LoadInv' /\ PolicyFromOneLoad'
  <2>1. CASE job' = [job EXCEPT ![x] = Idle]
    BY <1>10, <1>13, <2>1, IdleJob DEF LoadClassifier, Idle, Job
  <2>2. ASSUME NEW g \in LoadRegistry(regFile), NEW n \in job[x].rules,
               job' = [job EXCEPT ![x] =
                         Job("installRules", job[x].rules, {g}, <<n.doc, g.doc>>)]
        PROVE  LoadInv' /\ PolicyFromOneLoad'
    <3> DEFINE j == Job("installRules", job[x].rules, {g}, <<n.doc, g.doc>>)
    <3>0. job[x].at = "loadRegistry"
      BY <1>13 DEF LoadClassifier
    <3>1. JobInv(job[x]) /\ pc = "run"
      BY <3>0 DEF LoadInv, Idle, Job
    <3>2. job' = [job EXCEPT ![x] = j]
      BY <2>2 DEF LoadInv
    <3>3. /\ j.at = "installRules" /\ j.rules = job[x].rules /\ j.registry = {g}
          /\ j.read = <<n.doc, g.doc>> /\ JobShape(j)
      BY DEF Job, JobShape
    <3>4. j.read[1] = n.doc /\ j.read[2] = g.doc
      BY <3>3
    <3> HIDE DEF j
    <3>5. JobInv(j)
      BY <3>1, <3>3, <3>4 DEF JobInv
    <3> QED BY <1>10, <1>13, <3>1, <3>2, <3>3, <3>5 DEF LoadClassifier
  <2> QED BY <1>13, <2>1, <2>2 DEF LoadClassifier
<1>14. ASSUME NEW x \in Reloaders, InstallRules(x)  PROVE LoadInv' /\ PolicyFromOneLoad'
  <2>1. PICK b \in BOOLEAN :
          job' = [y \in Reloaders |->
                    IF y = x THEN [job[y] EXCEPT !.at = "installRegistry", !.rules = {}, !.alone = b]
                             ELSE [job[y] EXCEPT !.alone = FALSE]]
    BY <1>14 DEF InstallRules
  <2>2. /\ \A y \in Reloaders : job'[y] =
             IF y = x THEN [job[y] EXCEPT !.at = "installRegistry", !.rules = {}, !.alone = b]
                      ELSE [job[y] EXCEPT !.alone = FALSE]
        /\ job' = [y \in Reloaders |-> job'[y]]
    BY <2>1
  <2>3. rules' \in job[x].rules /\ job[x].at = "installRules"
    BY <1>14 DEF InstallRules
  <2>4. ASSUME NEW y \in Reloaders  PROVE (JobInv(job[y]))'
    <3>1. JobInv(job[y])
      BY DEF LoadInv
    <3>2. CASE y = x
      <4>1. rules'.doc = job[x].read[1]
        BY <2>3, <3>1, <3>2 DEF JobInv
      <4>2. job'[y] = [job[y] EXCEPT !.at = "installRegistry", !.rules = {}, !.alone = b]
        BY <2>2, <3>2
      <4>3. /\ job'[y].at = "installRegistry" /\ job'[y].rules = {}
            /\ job'[y].registry = job[y].registry /\ job'[y].read = job[y].read
            /\ JobShape(job'[y])
        BY <3>1, <4>2 DEF JobInv, JobShape
      <4> QED BY <2>3, <3>1, <3>2, <4>1, <4>3 DEF JobInv, JobShape
    <3>3. CASE y # x
      <4>1. job'[y] = [job[y] EXCEPT !.alone = FALSE]
        BY <2>2, <3>3
      <4>2. /\ job'[y].at = job[y].at /\ job'[y].rules = job[y].rules
            /\ job'[y].registry = job[y].registry /\ job'[y].read = job[y].read
            /\ job'[y].alone = FALSE /\ JobShape(job'[y])
        BY <3>1, <4>1 DEF JobInv, JobShape
      <4> QED BY <3>1, <4>2 DEF JobInv, JobShape
    <3> QED BY <3>2, <3>3
  <2>5. pc' = "run" /\ Installing(x)'
    <3>1. pc = "run"
      BY <2>3 DEF LoadInv, Idle, Job
    <3>2. JobInv(job[x])
      BY DEF LoadInv
    <3> QED BY <1>14, <2>2, <3>1, <3>2 DEF InstallRules, Installing, JobInv, JobShape
  <2> QED BY <2>2, <2>4, <2>5 DEF LoadInv, PolicyFromOneLoad
<1>15. ASSUME NEW x \in Reloaders, InstallRegistry(x)  PROVE LoadInv' /\ PolicyFromOneLoad'
  <2>1. /\ job[x].at = "installRegistry" /\ registry' \in job[x].registry
        /\ loaded' = job[x].read /\ crossed' = ~job[x].alone
        /\ job' = [job EXCEPT ![x] = Idle] /\ UNCHANGED <<rules, pc>>
    BY <1>15 DEF InstallRegistry
  <2>2. LoadInv'
    BY <2>1, OwnJob, IdleJob
  <2>3. JobInv(job[x])
    BY DEF LoadInv
  <2>4. job[x].alone => loaded' = <<rules.doc, registry'.doc>>
    BY <2>1, <2>3 DEF JobInv
  <2> QED BY <2>1, <2>2, <2>4 DEF PolicyFromOneLoad
<1>16. ASSUME NEW x \in Reloaders, BeginReload(x) \/ Load(x)  PROVE LoadInv' /\ PolicyFromOneLoad'
  BY <1>11, <1>12, <1>13, <1>14, <1>15, <1>16 DEF Load
<1> QED BY <1>2, <1>3, <1>4, <1>6, <1>8, <1>9, <1>16 DEF Next

\* Whenever no start or reload is installing, rules and registry in force come
\* from one load unless the last reload to end had installed across another: a
\* reload that fails on one file changes neither, whatever the files hold, however
\* often they are edited and however many reloads run (reloadRuntime, Daemon.Run).
THEOREM PolicyAlwaysFromOneLoad == Spec => []PolicyFromOneLoad
<1>1. Init => LoadInv /\ PolicyFromOneLoad
  <2>1. SUFFICES ASSUME Init  PROVE LoadInv /\ PolicyFromOneLoad
    OBVIOUS
  <2>2. job = [x \in Reloaders |-> Idle] /\ pc = "startRules"
    BY <2>1 DEF Init
  <2> QED BY <2>2, IdleJob DEF LoadInv, PolicyFromOneLoad
<1>2. LoadInv /\ PolicyFromOneLoad /\ [Next]_vars => LoadInv' /\ PolicyFromOneLoad'
  BY LoadStep
<1> QED BY <1>1, <1>2, PTL DEF Spec

(***************************************************************************)
(* Classification                                                          *)
(***************************************************************************)
Only(found, source) == [category |-> found[1], source |-> source]
Fallback == [category |-> "other", source |-> "fallback"]

\* The six lookups of Classify, in their order.
Lookups(a1, a2, a3, a4, a5, a6) ==
  FirstFound(<<a1, a2, a3, a4, a5, a6>>,
             <<"exact", "exact", "exact", "pattern", "pattern", "heuristic">>)

\* The least index among the hits is the one that Min yields.
LEMMA LeastHit ==
  ASSUME NEW S \in SUBSET (1..6), NEW m \in S, \A y \in S : m <= y
  PROVE  Min(S) = m
<1>1. \A x \in S : (\A y \in S : x <= y) => x = m
  OBVIOUS
<1> QED BY <1>1 DEF Min

\* FirstFound takes the first lookup that found something, with its source.
LEMMA FirstOfSix ==
  ASSUME NEW a1, NEW a2, NEW a3, NEW a4, NEW a5, NEW a6
  PROVE  Lookups(a1, a2, a3, a4, a5, a6) =
           IF a1 # <<>> THEN Only(a1, "exact") ELSE
           IF a2 # <<>> THEN Only(a2, "exact") ELSE
           IF a3 # <<>> THEN Only(a3, "exact") ELSE
           IF a4 # <<>> THEN Only(a4, "pattern") ELSE
           IF a5 # <<>> THEN Only(a5, "pattern") ELSE
           IF a6 # <<>> THEN Only(a6, "heuristic") ELSE Fallback
<1> DEFINE f == <<a1, a2, a3, a4, a5, a6>>
           s == <<"exact", "exact", "exact", "pattern", "pattern", "heuristic">>
           hits == {i \in 1..Len(f) : f[i] # <<>>}
           Found(n) == [category |-> f[n][1], source |-> s[n]]
<1>1. /\ Len(f) = 6
      /\ f[1] = a1 /\ f[2] = a2 /\ f[3] = a3 /\ f[4] = a4 /\ f[5] = a5 /\ f[6] = a6
      /\ s[1] = "exact" /\ s[2] = "exact" /\ s[3] = "exact"
      /\ s[4] = "pattern" /\ s[5] = "pattern" /\ s[6] = "heuristic"
  OBVIOUS
<1>2. FirstFound(f, s) = IF hits = {} THEN Fallback ELSE Found(Min(hits))
  BY DEF FirstFound, Fallback
<1> HIDE DEF f, s
<1>3. hits = {i \in 1..6 : f[i] # <<>>}
  BY <1>1
<1> HIDE DEF hits
<1>4. hits \in SUBSET (1..6)
  BY <1>3
<1>5. \A n \in 1..6 : f[n] # <<>> /\ (\A i \in 1..6 : i < n => f[i] = <<>>)
                      => FirstFound(f, s) = Found(n)
  <2>1. TAKE n \in 1..6
  <2>2. HAVE f[n] # <<>> /\ \A i \in 1..6 : i < n => f[i] = <<>>
  <2>3. n \in hits /\ \A y \in hits : n <= y
    BY <1>3, <2>2
  <2>4. Min(hits) = n
    BY <1>4, <2>3, LeastHit
  <2> QED BY <1>2, <2>3, <2>4
<1>6. (\A n \in 1..6 : f[n] = <<>>) => FirstFound(f, s) = Fallback
  BY <1>2, <1>3
<1>7. \A n \in 1..6 : n = 1 \/ n = 2 \/ n = 3 \/ n = 4 \/ n = 5 \/ n = 6
  OBVIOUS
<1>8. FirstFound(f, s) =
        IF a1 # <<>> THEN Only(a1, "exact") ELSE
        IF a2 # <<>> THEN Only(a2, "exact") ELSE
        IF a3 # <<>> THEN Only(a3, "exact") ELSE
        IF a4 # <<>> THEN Only(a4, "pattern") ELSE
        IF a5 # <<>> THEN Only(a5, "pattern") ELSE
        IF a6 # <<>> THEN Only(a6, "heuristic") ELSE Fallback
  <2>1. CASE a1 # <<>>
    BY <1>1, <1>5, <2>1 DEF Only
  <2>2. CASE a1 = <<>> /\ a2 # <<>>
    BY <1>1, <1>5, <1>7, <2>2 DEF Only
  <2>3. CASE a1 = <<>> /\ a2 = <<>> /\ a3 # <<>>
    BY <1>1, <1>5, <1>7, <2>3 DEF Only
  <2>4. CASE a1 = <<>> /\ a2 = <<>> /\ a3 = <<>> /\ a4 # <<>>
    BY <1>1, <1>5, <1>7, <2>4 DEF Only
  <2>5. CASE a1 = <<>> /\ a2 = <<>> /\ a3 = <<>> /\ a4 = <<>> /\ a5 # <<>>
    BY <1>1, <1>5, <1>7, <2>5 DEF Only
  <2>6. CASE a1 = <<>> /\ a2 = <<>> /\ a3 = <<>> /\ a4 = <<>> /\ a5 = <<>> /\ a6 # <<>>
    BY <1>1, <1>5, <1>7, <2>6 DEF Only
  <2>7. CASE a1 = <<>> /\ a2 = <<>> /\ a3 = <<>> /\ a4 = <<>> /\ a5 = <<>> /\ a6 = <<>>
    BY <1>1, <1>6, <1>7, <2>7
  <2> QED BY <2>1, <2>2, <2>3, <2>4, <2>5, <2>6, <2>7
<1> QED BY <1>8 DEF f, s, Lookups

\* Lowering twice is lowering once, for names and for providers.
LEMMA LowerTwice ==
  ASSUME NEW n
  PROVE  /\ Lower(Lower(n)) = Lower(n)
         /\ NormalizeProvider(Lower(n)) = NormalizeProvider(n)
<1>1. Lower(Lower(n)) = Lower(n) /\ (Lower(n) = "" <=> n = "")
  BY LowerCaseAssumption DEF Lower
<1> QED BY <1>1 DEF NormalizeProvider

\* The keys of the arguments decide nothing once a name was found.
LEMMA NamesBeforeArgs ==
  ASSUME NEW reg, NEW p, NEW tool, NEW k, NEW l,
         Classify(reg, p, tool, k).source = "exact"
  PROVE  Classify(reg, p, tool, l) = Classify(reg, p, tool, k)
<1> DEFINE own    == ProviderOf(reg, NormalizeProvider(p))
           shared == ProviderOf(reg, DefaultProvider)
           low    == Lower(tool)
           e1 == Exact(own, tool)
           e2 == Exact(own, low)
           e3 == Exact(shared, low)
           P(keys) == FirstMatch(own.patterns, low, keys)
           Q(keys) == FirstMatch(shared.patterns, low, keys)
           H(keys) == FirstMatch(reg.heuristics, low, keys)
<1>1. \A keys : Classify(reg, p, tool, keys) =
        Lookups(e1, e2, e3, P(keys), Q(keys), H(keys))
  BY DEF Classify, Lookups
<1> HIDE DEF e1, e2, e3, P, Q, H
<1>2. \A keys : Classify(reg, p, tool, keys) =
        IF e1 # <<>> THEN Only(e1, "exact") ELSE
        IF e2 # <<>> THEN Only(e2, "exact") ELSE
        IF e3 # <<>> THEN Only(e3, "exact") ELSE
        IF P(keys) # <<>> THEN Only(P(keys), "pattern") ELSE
        IF Q(keys) # <<>> THEN Only(Q(keys), "pattern") ELSE
        IF H(keys) # <<>> THEN Only(H(keys), "heuristic") ELSE Fallback
  BY <1>1, FirstOfSix
<1>3. e1 # <<>> \/ e2 # <<>> \/ e3 # <<>>
  BY <1>2 DEF Only, Fallback
<1> QED BY <1>2, <1>3

\* In a registry of lower-case names neither the case of the provider nor that
\* of the tool matters: a name with capitals is in no table, and the lowered one
\* is looked up next.
LEMMA CaseMattersNot ==
  ASSUME NEW reg, NEW p, NEW tool, NEW keys,
         \A q \in DOMAIN reg.providers :
           \A n \in DOMAIN reg.providers[q].tools : Lower(n) = n
  PROVE  Classify(reg, Lower(p), Lower(tool), keys) = Classify(reg, p, tool, keys)
<1> DEFINE own    == ProviderOf(reg, NormalizeProvider(p))
           shared == ProviderOf(reg, DefaultProvider)
           low    == Lower(tool)
           e1 == Exact(own, tool)
           e2 == Exact(own, low)
           e3 == Exact(shared, low)
           P == FirstMatch(own.patterns, low, keys)
           Q == FirstMatch(shared.patterns, low, keys)
           H == FirstMatch(reg.heuristics, low, keys)
<1>1. Classify(reg, p, tool, keys) = Lookups(e1, e2, e3, P, Q, H)
  BY DEF Classify, Lookups
<1>2. Classify(reg, Lower(p), Lower(tool), keys) =
        Lookups(e2, e2, e3, P, Q, H)
  <2>1. NormalizeProvider(Lower(p)) = NormalizeProvider(p) /\ Lower(Lower(tool)) = Lower(tool)
    BY LowerTwice
  <2> QED BY <2>1 DEF Classify, Lookups
<1>3. e1 = <<>> \/ e1 = e2
  <2>1. CASE tool \in DOMAIN own.tools
    <3>1. DOMAIN (<<>>) = {}
      OBVIOUS
    <3>2. NormalizeProvider(p) \in DOMAIN reg.providers
      BY <2>1, <3>1 DEF ProviderOf
    <3>3. Lower(tool) = tool
      BY <2>1, <3>2 DEF ProviderOf
    <3> QED BY <3>3
  <2>2. CASE tool \notin DOMAIN own.tools
    BY <2>2 DEF Exact
  <2> QED BY <2>1, <2>2
<1> HIDE DEF e1, e2, e3, P, Q, H
<1>4. /\ Lookups(e1, e2, e3, P, Q, H) =
           IF e1 # <<>> THEN Only(e1, "exact") ELSE
           IF e2 # <<>> THEN Only(e2, "exact") ELSE
           IF e3 # <<>> THEN Only(e3, "exact") ELSE
           IF P # <<>> THEN Only(P, "pattern") ELSE
           IF Q # <<>> THEN Only(Q, "pattern") ELSE
           IF H # <<>> THEN Only(H, "heuristic") ELSE Fallback
      /\ Lookups(e2, e2, e3, P, Q, H) =
           IF e2 # <<>> THEN Only(e2, "exact") ELSE
           IF e2 # <<>> THEN Only(e2, "exact") ELSE
           IF e3 # <<>> THEN Only(e3, "exact") ELSE
           IF P # <<>> THEN Only(P, "pattern") ELSE
           IF Q # <<>> THEN Only(Q, "pattern") ELSE
           IF H # <<>> THEN Only(H, "heuristic") ELSE Fallback
  BY FirstOfSix
<1> QED BY <1>1, <1>2, <1>3, <1>4

\* Classify depends on neither argument keys, once a name is found, nor on letter
\* case, in a registry without capitals: for any registry and any calls
\* (Registry.Classify).
THEOREM ClassificationAlwaysSound == Spec => []ClassificationSound
<1>1. CaseBlind
  <2>1. SUFFICES ASSUME \A p \in DOMAIN registry.compiled.providers :
                          \A t \in DOMAIN registry.compiled.providers[p].tools : Lower(t) = t,
                        NEW c \in Calls
                 PROVE  Classified(c) =
                          Classified([c EXCEPT !.provider = Lower(@), !.tool = Lower(@)])
    BY DEF CaseBlind
  <2> DEFINE d == [c EXCEPT !.provider = Lower(@), !.tool = Lower(@)]
  <2>2. d.provider = Lower(c.provider) /\ d.tool = Lower(c.tool) /\ d.keys = c.keys
    BY PolicyAssumption
  <2>3. Classify(registry.compiled, Lower(c.provider), Lower(c.tool), c.keys)
          = Classify(registry.compiled, c.provider, c.tool, c.keys)
    BY <2>1, CaseMattersNot
  <2> QED BY <2>2, <2>3 DEF Classified
<1>2. ArgsNeverOverrideName
  <2>1. SUFFICES ASSUME NEW c \in Calls, Classified(c).source = "exact", NEW keys
                 PROVE  Classified([c EXCEPT !.keys = keys]) = Classified(c)
    BY DEF ArgsNeverOverrideName
  <2> DEFINE e == [c EXCEPT !.keys = keys]
  <2>2. e.provider = c.provider /\ e.tool = c.tool /\ e.keys = keys
    BY PolicyAssumption
  <2>3. Classify(registry.compiled, c.provider, c.tool, keys)
          = Classify(registry.compiled, c.provider, c.tool, c.keys)
    BY <2>1, NamesBeforeArgs DEF Classified
  <2> QED BY <2>2, <2>3 DEF Classified
<1>3. ClassificationSound
  BY <1>1, <1>2 DEF ClassificationSound
<1> QED BY <1>3, PTL

(***************************************************************************)
(* Induction over numbers, in the form of sets                             *)
(***************************************************************************)
Less == {ss \in Nat \X Nat : ss[1] < ss[2]}

\* A nonempty set of numbers has a least one.
LEMMA Least ==
  ASSUME NEW S \in SUBSET Nat, S # {}
  PROVE  \E m \in S : \A n \in S : m <= n
<1>1. IsWellFoundedOn(Less, Nat)
  <2>1. OpToRel(<, Nat) = Less
    BY DEF OpToRel, Less
  <2> QED BY <2>1, NatLessThanWellFounded
<1>2. PICK m \in S : \A n \in S : ~(<<n, m>> \in Less)
  BY <1>1, WFMin
<1>3. \A n \in S : ~(n < m)
  BY <1>2 DEF Less
<1> QED BY <1>3

\* Induction: a set of numbers with 0 and every successor holds every number.
LEMMA Induct ==
  ASSUME NEW T \in SUBSET Nat, 0 \in T, \A n \in T : n + 1 \in T
  PROVE  T = Nat
<1> DEFINE S == Nat \ T
<1>1. SUFFICES ASSUME S # {}  PROVE FALSE
  OBVIOUS
<1>2. PICK m \in S : \A n \in S : m <= n
  <2> HIDE DEF S
  <2> QED
    <3>1. S \in SUBSET Nat
      BY DEF S
    <3> QED BY <1>1, <3>1, Least
<1>3. m # 0 /\ m \in Nat /\ m \notin T
  BY <1>2
<1>4. m - 1 \in Nat /\ ~(m <= m - 1) /\ (m - 1) + 1 = m
  BY <1>3
<1>5. m - 1 \in T
  BY <1>2, <1>4
<1> QED BY <1>3, <1>4, <1>5

\* The values of a loop: h[i] is the value after i steps.
Iterates(h, V, v0, len, step) ==
  /\ h \in [0..len -> V] /\ h[0] = v0
  /\ \A i \in 1..len : h[i] = step[<<h[i - 1], i>>]

\* A recursive function whose step keeps a set has a value.
LEMMA Iteration ==
  ASSUME NEW V, NEW v0 \in V, NEW len \in Nat, NEW step \in [V \X (1..len) -> V]
  PROVE  \E h : Iterates(h, V, v0, len, step)
<1> DEFINE Up(n, h) == h[0] = v0 /\ \A i \in 1..n : h[i] = step[<<h[i - 1], i>>]
           T == {n \in Nat : n <= len => \E h \in [0..n -> V] : Up(n, h)}
<1>1. 0 \in T
  <2> DEFINE h == [i \in 0..0 |-> v0]
  <2>1. h \in [0..0 -> V] /\ Up(0, h)
    OBVIOUS
  <2> QED BY <2>1
<1>2. ASSUME NEW n \in T  PROVE n + 1 \in T
  <2>1. n \in Nat /\ (n <= len => \E h \in [0..n -> V] : Up(n, h))
    OBVIOUS
  <2>2. SUFFICES ASSUME n + 1 <= len  PROVE \E h \in [0..(n + 1) -> V] : Up(n + 1, h)
    BY <2>1
  <2>3. PICK g \in [0..n -> V] : Up(n, g)
    BY <2>1, <2>2
  <2> DEFINE h == [i \in 0..(n + 1) |-> IF i <= n THEN g[i] ELSE step[<<g[n], n + 1>>]]
  <2>4. g[n] \in V /\ n + 1 \in 1..len
    BY <2>1, <2>2, <2>3
  <2>5. h \in [0..(n + 1) -> V]
    BY <2>1, <2>3, <2>4
  <2>6. h[0] = v0
    BY <2>1, <2>3
  <2>7. ASSUME NEW i \in 1..(n + 1)  PROVE h[i] = step[<<h[i - 1], i>>]
    <3>1. CASE i = n + 1
      <4>1. n + 1 \in 0..(n + 1) /\ n \in 0..(n + 1) /\ n <= n /\ ~(n + 1 <= n) /\ (n + 1) - 1 = n
        BY <2>1
      <4>2. h[n + 1] = step[<<g[n], n + 1>>] /\ h[n] = g[n]
        BY <4>1
      <4> QED BY <3>1, <4>1, <4>2
    <3>2. CASE i # n + 1
      <4>1. i \in 1..n /\ i - 1 <= n /\ i <= n /\ i - 1 \in 0..(n + 1) /\ i \in 0..(n + 1)
        BY <2>1, <3>2
      <4>2. h[i] = g[i] /\ h[i - 1] = g[i - 1]
        BY <4>1
      <4> QED BY <2>3, <4>1, <4>2
    <3> QED BY <3>1, <3>2
  <2>8. Up(n + 1, h)
    BY <2>6, <2>7
  <2> HIDE DEF h, Up
  <2> QED BY <2>5, <2>8
<1>3. T = Nat
  <2>1. T \in SUBSET Nat
    OBVIOUS
  <2> HIDE DEF T
  <2> QED BY <1>1, <1>2, <2>1, Induct
<1>4. PICK h \in [0..len -> V] : Up(len, h)
  <2>1. len \in T
    BY <1>3
  <2> QED BY <2>1
<1> QED BY <1>4 DEF Iterates

(***************************************************************************)
(* Evaluation                                                              *)
(***************************************************************************)
\* The first k entries of f are in the order of compileRules.
Sorted(f, k) == \A i, j \in 1..k : i < j => Before(f[i], f[j])

\* Of two rules with different names one comes before the other.
LEMMA BeforeOrders ==
  ASSUME NEW R, \A r \in R : r.priority \in Int /\ r.name \in Nat
  PROVE  /\ \A r, s \in R : r.name # s.name => Before(r, s) \/ Before(s, r)
         /\ \A r, s, t \in R : Before(r, s) /\ Before(s, t) => Before(r, t)
         /\ \A r \in R : ~Before(r, r)
BY DEF Before

\* Insertion of r at q keeps a list sorted.
LEMMA Insertion ==
  ASSUME NEW R, \A r \in R : r.priority \in Int /\ r.name \in Nat,
         NEW k \in Nat, NEW f \in [1..k -> R], Sorted(f, k), NEW r \in R,
         \A i \in 1..k : f[i].name # r.name
  PROVE  \E g \in [1..(k + 1) -> {f[i] : i \in 1..k} \cup {r}] : Sorted(g, k + 1)
<1> DEFINE S == {i \in 1..(k + 1) : i = k + 1 \/ Before(r, f[i])}
<1>1. S \in SUBSET Nat /\ k + 1 \in S
  OBVIOUS
<1>2. PICK q \in S : \A n \in S : q <= n
  <2> HIDE DEF S
  <2> QED BY <1>1, Least
<1>3. q \in 1..(k + 1) /\ (q <= k => Before(r, f[q]))
  BY <1>2
<1>4. \A i \in 1..k : i < q => Before(f[i], r)
  <2>1. TAKE i \in 1..k
  <2>2. HAVE i < q
  <2>3. ~Before(r, f[i])
    <3>1. ~(q <= i)
      BY <1>3, <2>2
    <3>2. i \notin S
      BY <1>2, <3>1
    <3> QED BY <3>2
  <2>4. f[i] \in R
    OBVIOUS
  <2> QED BY <2>3, <2>4, BeforeOrders
<1> HIDE DEF S
<1> DEFINE g == [i \in 1..(k + 1) |-> IF i < q THEN f[i] ELSE IF i = q THEN r ELSE f[i - 1]]
<1>5. /\ \A i \in 1..(k + 1) : i < q => i \in 1..k /\ g[i] = f[i]
      /\ g[q] = r
      /\ \A i \in 1..(k + 1) : q < i => i - 1 \in 1..k /\ q <= i - 1 /\ g[i] = f[i - 1]
  BY <1>3
<1>6. g \in [1..(k + 1) -> {f[i] : i \in 1..k} \cup {r}]
  <2>1. \A i \in 1..(k + 1) : g[i] \in {f[m] : m \in 1..k} \cup {r}
    <3>1. TAKE i \in 1..(k + 1)
    <3>2. i < q \/ i = q \/ q < i
      BY <1>3
    <3> HIDE DEF g
    <3> QED BY <1>5, <3>2
  <2> QED BY <2>1
<1> HIDE DEF g
<1>7. ASSUME NEW i \in 1..(k + 1), NEW j \in 1..(k + 1), i < j  PROVE Before(g[i], g[j])
  <2>1. CASE j < q
    <3>1. i < q
      BY <1>3, <1>7, <2>1
    <3> QED BY <1>5, <1>7, <2>1, <3>1 DEF Sorted
  <2>2. CASE j = q
    BY <1>4, <1>5, <1>7, <2>2
  <2>3. CASE q < j /\ i < q
    <3>1. i \in 1..k /\ j - 1 \in 1..k /\ i < j - 1 /\ g[i] = f[i] /\ g[j] = f[j - 1]
      BY <1>3, <1>5, <1>7, <2>3
    <3> QED BY <3>1 DEF Sorted
  <2>4. CASE i = q
    <3>1. j - 1 \in 1..k /\ q <= j - 1 /\ q <= k /\ q \in 1..k /\ g[j] = f[j - 1] /\ g[i] = r
      BY <1>3, <1>5, <1>7, <2>4
    <3>2. q = j - 1 \/ Before(f[q], f[j - 1])
      BY <3>1 DEF Sorted
    <3>3. Before(r, f[q]) /\ f[q] \in R /\ f[j - 1] \in R
      BY <1>3, <3>1
    <3>4. Before(r, f[j - 1])
      BY <3>2, <3>3, BeforeOrders
    <3> QED BY <3>1, <3>4
  <2>5. CASE q < i
    <3>1. /\ i - 1 \in 1..k /\ j - 1 \in 1..k /\ i - 1 < j - 1
          /\ g[i] = f[i - 1] /\ g[j] = f[j - 1]
      BY <1>3, <1>5, <1>7, <2>5
    <3> QED BY <3>1 DEF Sorted
  <2> QED BY <1>3, <1>7, <2>1, <2>2, <2>3, <2>4, <2>5
<1>8. Sorted(g, k + 1)
  BY <1>7 DEF Sorted
<1> QED BY <1>6, <1>8

Named(rs) ==
  /\ RuleList(rs)
  /\ \A i, j \in 1..Len(rs) : rs[i].name = rs[j].name => i = j

\* sort.Slice has an answer: the rules can be put in order.
LEMMA Sortable ==
  ASSUME NEW rs, Named(rs)
  PROVE  \E f \in [1..Len(rs) -> Range(rs)] : Sorted(f, Len(rs))
<1> DEFINE n == Len(rs)
           R == Range(rs)
           Upto(k) == {rs[i] : i \in 1..k}
           Has(k) == \E f \in [1..k -> Upto(k)] : Sorted(f, k)
           T == {k \in Nat : k <= n => Has(k)}
<1>1. /\ n \in Nat /\ \A i \in 1..n : rs[i] \in R
      /\ \A r \in R : r.priority \in Int /\ r.name \in Nat
      /\ \A i, j \in 1..n : rs[i].name = rs[j].name => i = j
  BY DEF Named, RuleList, Range
<1> HIDE DEF n, R
<1>2. 0 \in T
  <2>1. \A U : \E f \in [1..0 -> U] : Sorted(f, 0)
    <3>1. TAKE U
    <3> DEFINE none == [i \in 1..0 |-> 0]
    <3>2. none \in [1..0 -> U] /\ Sorted(none, 0)
      BY DEF Sorted
    <3> HIDE DEF none
    <3> QED BY <3>2
  <2>2. Has(0)
    <3> HIDE DEF Upto
    <3> QED BY <2>1
  <2> HIDE DEF Has
  <2> QED BY <2>2
<1> HIDE DEF Upto, Has
<1>3. ASSUME NEW k \in T  PROVE k + 1 \in T
  <2>1. k \in Nat /\ (k <= n => Has(k))
    OBVIOUS
  <2>2. SUFFICES ASSUME k + 1 <= n  PROVE Has(k + 1)
    BY <2>1
  <2>3. PICK f \in [1..k -> Upto(k)] : Sorted(f, k)
    <3>1. Has(k)
      BY <1>1, <2>1, <2>2
    <3> QED BY <3>1 DEF Has
  <2>4. k + 1 \in 1..n /\ \A i \in 1..k : i \in 1..n /\ i # k + 1
    BY <1>1, <2>1, <2>2
  <2>5. Upto(k) \subseteq R
    BY <1>1, <2>4 DEF Upto
  <2>6. f \in [1..k -> R] /\ rs[k + 1] \in R
    BY <1>1, <2>4, <2>5
  <2>7. \A i \in 1..k : f[i].name # rs[k + 1].name
    <3>1. TAKE i \in 1..k
    <3>2. f[i] \in Upto(k)
      OBVIOUS
    <3>3. PICK m \in 1..k : f[i] = rs[m]
      BY <3>2 DEF Upto
    <3> QED BY <1>1, <2>4, <3>3
  <2>8. PICK g \in [1..(k + 1) -> {f[i] : i \in 1..k} \cup {rs[k + 1]}] : Sorted(g, k + 1)
    BY <1>1, <2>1, <2>3, <2>6, <2>7, Insertion
  <2>9. {f[i] : i \in 1..k} \cup {rs[k + 1]} \subseteq Upto(k + 1)
    <3>1. Upto(k) \subseteq Upto(k + 1) /\ rs[k + 1] \in Upto(k + 1)
      BY <2>1 DEF Upto
    <3>2. {f[i] : i \in 1..k} \subseteq Upto(k)
      OBVIOUS
    <3> QED BY <3>1, <3>2
  <2>10. g \in [1..(k + 1) -> Upto(k + 1)]
    BY <2>8, <2>9
  <2> QED BY <2>8, <2>10 DEF Has
<1>4. T = Nat
  <2>1. T \in SUBSET Nat
    OBVIOUS
  <2> HIDE DEF T
  <2> QED BY <1>2, <1>3, <2>1, Induct
<1>5. PICK f \in [1..n -> Upto(n)] : Sorted(f, n)
  <2>1. n \in T /\ n <= n
    BY <1>1, <1>4
  <2> QED BY <2>1 DEF Has
<1>6. Upto(n) \subseteq R
  BY <1>1 DEF Upto
<1>7. f \in [1..n -> R]
  BY <1>5, <1>6
<1> QED BY <1>5, <1>7 DEF n, R

\* What compileRules leaves: every rule of the document, once, in order.
Compiled(s) ==
  /\ s.order \in Seq(Range(s.doc.rules)) /\ Range(s.order) = Range(s.doc.rules)
  /\ Sorted(s.order, Len(s.order))
  /\ RuleList(s.doc.rules)

\* A sorted list has no rule twice, and as many rules as the list it was made from.
LEMMA CompileRulesSorts ==
  ASSUME NEW rs, Named(rs)
  PROVE  LET order == CompileRules(rs)
         IN  /\ order \in [1..Len(rs) -> Range(rs)] /\ Sorted(order, Len(rs))
             /\ Range(order) = Range(rs)
<1> DEFINE n == Len(rs)
           R == Range(rs)
           order == CompileRules(rs)
<1>1. order \in [1..n -> R] /\ Sorted(order, n)
  BY Sortable DEF CompileRules, Sorted
<1>2. /\ n \in Nat /\ DOMAIN rs = 1..n /\ rs \in [1..n -> R]
      /\ \A r \in R : r.priority \in Int /\ r.name \in Nat
  BY DEF Named, RuleList, Range
<1>3. rs \in Surjection(1..n, R)
  <2>1. \A r \in R : \E i \in 1..n : rs[i] = r
    BY <1>2 DEF Range
  <2> QED BY <1>2, <2>1 DEF Surjection
<1> HIDE DEF n, R, order
<1>4. \A i, j \in 1..n : order[i] = order[j] => i = j
  <2>1. SUFFICES ASSUME NEW i \in 1..n, NEW j \in 1..n, order[i] = order[j], i < j
                 PROVE  FALSE
    BY <1>2
  <2>2. Before(order[i], order[i]) /\ order[i] \in R
    BY <1>1, <2>1 DEF Sorted
  <2> QED BY <1>2, <2>2, BeforeOrders
<1>5. IsFiniteSet(1..n) /\ Cardinality(1..n) = n
  BY <1>2, FS_Interval
<1>6. IsFiniteSet(R) /\ Cardinality(R) <= n
  BY <1>3, <1>5, FS_Surjection
<1>7. order \in Injection(1..n, R)
  BY <1>1, <1>4 DEF Injection, IsInjective
<1>8. n <= Cardinality(R) /\ (n = Cardinality(R) <=> order \in Surjection(1..n, R))
  BY <1>5, <1>6, <1>7, FS_Injection
<1>9. order \in Surjection(1..n, R)
  <2>1. Cardinality(R) \in Nat
    BY <1>6, FS_CardinalityType
  <2> QED BY <1>2, <1>6, <1>8, <2>1
<1>10. Range(order) = R
  <2>1. DOMAIN order = 1..n
    BY <1>1
  <2>2. \A i \in 1..n : order[i] \in R
    BY <1>1
  <2>3. \A r \in R : \E i \in 1..n : order[i] = r
    BY <1>9 DEF Surjection
  <2> QED BY <2>1, <2>2, <2>3 DEF Range
<1> QED BY <1>1, <1>10 DEF n, R, order

\* The values of the loop of Evaluate, and its first.
Results(R) == [evaluated : Seq(R), triggered : Seq(R)]
NothingYet == [evaluated |-> <<>>, triggered |-> <<>>]

\* What the loop of Evaluate has found after i rules: those of the first i that
\* are enabled and match, in order.
FoundUpto(t, order, i, e) ==
  /\ \A a \in 1..Len(t) : \E j \in 1..i :
       t[a] = order[j] /\ order[j].enabled /\ Matches(order[j], e)
  /\ \A j \in 1..i : order[j].enabled /\ Matches(order[j], e) => \E a \in 1..Len(t) : t[a] = order[j]
  /\ \A a, b \in 1..Len(t) : a < b => Before(t[a], t[b])

\* One rule, in its turn.
LEMMA EvaluateRuleStep ==
  ASSUME NEW R, NEW order \in Seq(R), NEW e, Sorted(order, Len(order)),
         NEW done \in Results(R), NEW i \in Nat, i + 1 <= Len(order),
         FoundUpto(done.triggered, order, i, e)
  PROVE  FoundUpto(EvaluateRule(done, order[i + 1], e).triggered, order, i + 1, e)
<1> DEFINE t == done.triggered
           r == order[i + 1]
           u == EvaluateRule(done, r, e).triggered
<1>1. t \in Seq(R) /\ i + 1 \in 1..Len(order) /\ r \in R
  BY DEF Results
<1>2. \A j \in 1..(i + 1) : j \in 1..i \/ j = i + 1
  OBVIOUS
<1>3. \A j \in 1..i : j \in 1..(i + 1) /\ Before(order[j], r)
  BY <1>1 DEF Sorted
<1>4. CASE r.enabled /\ Matches(r, e)
  <2>1. u = Append(t, r)
    BY <1>4 DEF EvaluateRule
  <2>2. /\ Len(u) = Len(t) + 1 /\ u[Len(t) + 1] = r /\ Len(t) \in Nat
        /\ \A a \in 1..Len(t) : u[a] = t[a]
    BY <1>1, <2>1
  <2> HIDE DEF u, t, r
  <2>3. \A a \in 1..Len(u) : a \in 1..Len(t) \/ a = Len(t) + 1
    BY <2>2
  <2>4. \A a \in 1..Len(u) : \E j \in 1..(i + 1) :
          u[a] = order[j] /\ order[j].enabled /\ Matches(order[j], e)
    <3>1. TAKE a \in 1..Len(u)
    <3>2. CASE a \in 1..Len(t)
      BY <1>3, <2>2, <3>2 DEF FoundUpto, t
    <3>3. CASE a = Len(t) + 1
      <4>1. i + 1 \in 1..(i + 1)
        OBVIOUS
      <4> QED BY <1>4, <2>2, <3>3, <4>1 DEF r
    <3> QED BY <2>3, <3>2, <3>3
  <2>5. \A j \in 1..(i + 1) : order[j].enabled /\ Matches(order[j], e) => \E a \in 1..Len(u) : u[a] = order[j]
    <3>1. TAKE j \in 1..(i + 1)
    <3>2. HAVE order[j].enabled /\ Matches(order[j], e)
    <3>3. CASE j \in 1..i
      <4>1. PICK a \in 1..Len(t) : t[a] = order[j]
        BY <3>2, <3>3 DEF FoundUpto, t
      <4>2. a \in 1..Len(u)
        BY <2>2
      <4> QED BY <2>2, <4>1, <4>2
    <3>4. CASE j = i + 1
      <4>1. Len(t) + 1 \in 1..Len(u)
        BY <2>2
      <4> QED BY <2>2, <3>4, <4>1 DEF r
    <3> QED BY <1>2, <3>3, <3>4
  <2>6. \A a, b \in 1..Len(u) : a < b => Before(u[a], u[b])
    <3>1. TAKE a, b \in 1..Len(u)
    <3>2. HAVE a < b
    <3>3. a \in 1..Len(t)
      BY <2>2, <3>2
    <3>4. CASE b \in 1..Len(t)
      BY <2>2, <3>2, <3>3, <3>4 DEF FoundUpto, t
    <3>5. CASE b = Len(t) + 1
      <4>1. PICK j \in 1..i : t[a] = order[j]
        BY <3>3 DEF FoundUpto, t
      <4> QED BY <1>3, <2>2, <3>3, <3>5, <4>1
    <3> QED BY <2>3, <3>4, <3>5
  <2> QED BY <2>4, <2>5, <2>6 DEF FoundUpto, u, r
<1>5. CASE ~(r.enabled /\ Matches(r, e))
  <2>1. u = t
    BY <1>5 DEF EvaluateRule
  <2>2. \A a \in 1..Len(t) : \E j \in 1..(i + 1) :
          t[a] = order[j] /\ order[j].enabled /\ Matches(order[j], e)
    BY <1>3 DEF FoundUpto
  <2>3. \A j \in 1..(i + 1) : order[j].enabled /\ Matches(order[j], e) => \E a \in 1..Len(t) : t[a] = order[j]
    BY <1>2, <1>5 DEF FoundUpto
  <2>4. \A a, b \in 1..Len(t) : a < b => Before(t[a], t[b])
    BY DEF FoundUpto
  <2> HIDE DEF u, t, r
  <2> QED BY <2>1, <2>2, <2>3, <2>4 DEF FoundUpto, u, r
<1> QED BY <1>4, <1>5

\* Evaluate finds exactly the rules that an event has to trigger, in order.
LEMMA EvaluateIs ==
  ASSUME NEW R, NEW order \in Seq(R), NEW e, Sorted(order, Len(order))
  PROVE  LET t == Evaluate(order, e).triggered
         IN  t \in Seq(R) /\ FoundUpto(t, order, Len(order), e)
<1> DEFINE n == Len(order)
           V == Results(R)
           Loop(after) == after = [i \in 0..n |->
             IF i = 0 THEN NothingYet ELSE EvaluateRule(after[i - 1], order[i], e)]
           after == CHOOSE h : Loop(h)
           step == [x \in V \X (1..n) |-> EvaluateRule(x[1], order[x[2]], e)]
<1>1. n \in Nat /\ \A i \in 1..n : order[i] \in R
  OBVIOUS
<1>2. NothingYet \in V
  BY DEF NothingYet, Results
<1>3. \A x \in V, r \in R : EvaluateRule(x, r, e) \in V
  <2>1. TAKE x \in V, r \in R
  <2>2. x.evaluated \in Seq(R) /\ x.triggered \in Seq(R)
    BY DEF Results
  <2>3. Append(x.evaluated, r) \in Seq(R) /\ Append(x.triggered, r) \in Seq(R)
    BY <2>2
  <2> QED BY <2>2, <2>3 DEF EvaluateRule, Results
<1>4. Evaluate(order, e) = after[n]
  BY DEF Evaluate, NothingYet
<1>5. \A x \in V, i \in 1..n : step[<<x, i>>] = EvaluateRule(x, order[i], e)
  OBVIOUS
<1>6. step \in [V \X (1..n) -> V]
  <2>1. \A p \in V \X (1..n) : EvaluateRule(p[1], order[p[2]], e) \in V
    BY <1>1, <1>3
  <2> HIDE DEF V
  <2> QED BY <2>1
<1> HIDE DEF n, V, step
<1>7. PICK h : Iterates(h, V, NothingYet, n, step)
  BY <1>1, <1>2, <1>6, Iteration
<1>8. Loop(h)
  <2>1. h \in [0..n -> V] /\ h[0] = NothingYet
    BY <1>7 DEF Iterates
  <2>2. \A i \in 1..n : h[i] = EvaluateRule(h[i - 1], order[i], e)
    <3>1. TAKE i \in 1..n
    <3>2. i - 1 \in 0..n
      BY <1>1
    <3>3. h[i - 1] \in V
      BY <2>1, <3>2
    <3>4. h[i] = step[<<h[i - 1], i>>]
      BY <1>7 DEF Iterates
    <3> QED BY <1>5, <3>3, <3>4
  <2>3. \A i \in 0..n : i # 0 => i \in 1..n
    BY <1>1
  <2>4. \A i \in 0..n : h[i] = IF i = 0 THEN NothingYet ELSE EvaluateRule(h[i - 1], order[i], e)
    BY <2>1, <2>2, <2>3
  <2> QED BY <2>1, <2>4
<1>9. Loop(after)
  <2> HIDE DEF Loop
  <2> QED BY <1>8
<1>10. /\ after[0] = NothingYet
       /\ \A i \in 1..n : after[i] = EvaluateRule(after[i - 1], order[i], e)
  <2> HIDE DEF after
  <2>1. 0 \in 0..n /\ \A i \in 1..n : i \in 0..n /\ i # 0
    BY <1>1
  <2> QED BY <1>9, <2>1
<1> HIDE DEF after, Loop
<1> DEFINE P(i) == after[i] \in V /\ FoundUpto(after[i].triggered, order, i, e)
           T == {i \in Nat : i <= n => P(i)}
<1>11. 0 \in T
  <2>1. NothingYet.triggered = <<>>
    BY DEF NothingYet
  <2>2. FoundUpto(<<>>, order, 0, e)
    BY DEF FoundUpto
  <2> QED BY <1>2, <1>10, <2>1, <2>2
<1>12. ASSUME NEW i \in T  PROVE i + 1 \in T
  <2>1. i \in Nat /\ (i <= n => P(i))
    OBVIOUS
  <2>2. SUFFICES ASSUME i + 1 <= n  PROVE P(i + 1)
    BY <2>1
  <2>3. P(i) /\ i + 1 \in 1..n /\ (i + 1) - 1 = i
    BY <1>1, <2>1, <2>2
  <2>4. after[i + 1] = EvaluateRule(after[i], order[i + 1], e)
    BY <1>10, <2>3
  <2>5. after[i + 1] \in V
    BY <1>1, <1>3, <2>3, <2>4
  <2>6. FoundUpto(EvaluateRule(after[i], order[i + 1], e).triggered, order, i + 1, e)
    BY <2>1, <2>2, <2>3, EvaluateRuleStep DEF n, V
  <2> QED BY <2>4, <2>5, <2>6
<1>13. T = Nat
  <2>1. T \in SUBSET Nat
    OBVIOUS
  <2> HIDE DEF T
  <2> QED BY <1>11, <1>12, <2>1, Induct
<1>14. P(n)
  <2>1. n \in T /\ n <= n
    BY <1>1, <1>13
  <2> QED BY <2>1
<1>15. after[n].triggered \in Seq(R)
  BY <1>14 DEF V, Results
<1> QED BY <1>4, <1>14, <1>15 DEF n

\* An event has these fields and no others.
LEMMA MatchesReads ==
  ASSUME NEW c, NEW r
  PROVE  Matches(r, ToolEvent(c)) <=>
           \A f \in DOMAIN r.match : f \in DOMAIN ToolEvent(c) /\ ToolEvent(c)[f] # ""
                                       /\ Match(r.match[f], ToolEvent(c)[f])
<1>1. DOMAIN ToolEvent(c) = EventFields
  BY DEF ToolEvent, EventFields
<1>2. \A f : EventFieldValue(ToolEvent(c), f) # Blank
               <=> f \in EventFields /\ ToolEvent(c)[f] # ""
  BY DEF EventFieldValue, Blank
<1>3. \A f \in EventFields : EventFieldValue(ToolEvent(c), f) = ToolEvent(c)[f]
  BY DEF EventFieldValue
<1> QED BY <1>1, <1>2, <1>3 DEF Matches

\* What EvaluationExact says of an event and of the rules it has triggered.
Exactly(e, t) ==
  /\ Range(t) = Wanted(e) /\ Len(t) = Cardinality(Range(t))
  /\ \A i, j \in 1..Len(t) :
       i < j => /\ t[i].priority >= t[j].priority
                /\ t[i].priority = t[j].priority => t[i].name < t[j].name

\* Rules compiled from a document judge as the document says.
LEMMA CompiledIsExact ==
  ASSUME Compiled(rules)
  PROVE  EvaluationExact
<1> DEFINE order == rules.order
           R == Range(rules.doc.rules)
           n == Len(order)
<1>1. /\ order \in Seq(R) /\ Range(order) = R /\ Sorted(order, n)
      /\ \A r \in R : r.priority \in Int /\ r.name \in Nat /\ r.enabled \in BOOLEAN
  BY DEF Compiled, RuleList
<1>2. \A r \in R : \E j \in 1..n : order[j] = r
  <2>1. DOMAIN order = 1..n
    BY <1>1
  <2> QED BY <1>1, <2>1 DEF Range
<1> SUFFICES ASSUME NEW c \in Calls
             PROVE  Exactly(ToolEvent(c), Evaluate(rules.order, ToolEvent(c)).triggered)
  BY DEF EvaluationExact, Exactly
<1> DEFINE e == ToolEvent(c)
           t == Evaluate(order, e).triggered
           Q == Range(t)
<1> HIDE DEF order, R
<1>3. t \in Seq(R) /\ FoundUpto(t, order, n, e)
  BY <1>1, EvaluateIs
<1>4. Wanted(e) = {r \in R : r.enabled /\ Matches(r, e)}
  BY MatchesReads DEF Wanted, R
<1> HIDE DEF t, e
<1>5. DOMAIN t = 1..Len(t) /\ Len(t) \in Nat /\ \A i \in 1..Len(t) : t[i] \in R
  BY <1>3
<1>6. \A i \in 1..Len(t) : t[i].enabled /\ Matches(t[i], e)
  BY <1>3 DEF FoundUpto
<1>7. \A r \in R : r.enabled /\ Matches(r, e) => \E i \in 1..Len(t) : t[i] = r
  BY <1>2, <1>3 DEF FoundUpto
<1>8. Q = {r \in R : r.enabled /\ Matches(r, e)}
  BY <1>5, <1>6, <1>7 DEF Range
<1>9. \A i, j \in 1..Len(t) : i < j => Before(t[i], t[j])
  BY <1>3 DEF FoundUpto
<1>10. \A i, j \in 1..Len(t) : t[i] = t[j] => i = j
  <2>1. SUFFICES ASSUME NEW i \in 1..Len(t), NEW j \in 1..Len(t), t[i] = t[j], i < j
                 PROVE  FALSE
    BY <1>5
  <2>2. Before(t[i], t[i]) /\ t[i] \in R
    BY <1>5, <1>9, <2>1
  <2> QED BY <1>1, <2>2, BeforeOrders
<1>11. Len(t) = Cardinality(Q)
  <2> DEFINE D == 1..Len(t)
  <2>1. IsFiniteSet(D) /\ Cardinality(D) = Len(t)
    BY <1>5, FS_Interval
  <2>2. t \in [D -> Q] /\ \A r \in Q : \E i \in D : t[i] = r
    <3>1. \A i \in D : t[i] \in Q
      BY <1>5 DEF Range
    <3>2. \A r \in Q : \E i \in D : t[i] = r
      BY <1>5 DEF Range
    <3>3. t = [i \in D |-> t[i]]
      BY <1>3
    <3> HIDE DEF D, Q
    <3> QED BY <3>1, <3>2, <3>3
  <2> HIDE DEF D, Q
  <2>3. t \in Surjection(D, Q)
    BY <2>2 DEF Surjection
  <2>4. t \in Injection(D, Q)
    BY <1>10, <2>2 DEF Injection, IsInjective, D
  <2> QED BY <2>1, <2>3, <2>4, FS_Surjection
<1>12. \A i, j \in 1..Len(t) :
         i < j => /\ t[i].priority >= t[j].priority
                  /\ t[i].priority = t[j].priority => t[i].name < t[j].name
  BY <1>1, <1>5, <1>9 DEF Before
<1>13. Exactly(e, t)
  BY <1>4, <1>8, <1>11, <1>12 DEF Exactly
<1> QED BY <1>13 DEF t, e, order

\* Whatever engine is in force or loaded was compiled from a valid document.
EngineInv ==
  /\ ruleFile \in Files(RuleDocs)
  /\ Compiled(rules)
  /\ job = [x \in Reloaders |-> job[x]]
  /\ \A x \in Reloaders : JobShape(job[x]) /\ \A n \in job[x].rules : Compiled(n)

\* NewEngine compiles what it has found valid.
LEMMA NewEngineCompiles ==
  ASSUME NEW file \in Files(RuleDocs), NEW n \in NewEngine(file)
  PROVE  Compiled(n)
<1>1. PICK d \in Source(file, DefaultRules) :
        Validate(d) /\ n = [doc |-> d, order |-> CompileRules(d.rules)]
  BY DEF NewEngine
<1>2. d \in RuleDocs \cup {DefaultRules}
  BY <1>1 DEF Source, Files
<1>3. Named(d.rules)
  BY <1>1, <1>2, PolicyAssumption DEF Validate, Named
<1>4. LET order == n.order
      IN  /\ order \in [1..Len(d.rules) -> Range(d.rules)] /\ Sorted(order, Len(d.rules))
          /\ Range(order) = Range(d.rules)
  BY <1>1, <1>3, CompileRulesSorts
<1>5. Len(d.rules) \in Nat
  BY <1>3 DEF Named, RuleList
<1>6. n.order \in Seq(Range(d.rules)) /\ Len(n.order) = Len(d.rules)
  BY <1>4, <1>5
<1> QED BY <1>1, <1>3, <1>4, <1>6 DEF Compiled, Named

LEMMA NoopCompiled == Compiled(NoopService)
<1>1. NoopService.order = <<>> /\ NoopService.doc.rules = <<>>
  BY DEF NoopService, NoDoc
<1>2. Range(<<>>) = {} /\ <<>> \in Seq(Range(<<>>)) /\ Len(<<>>) = 0
  BY DEF Range
<1> QED BY <1>1, <1>2 DEF Compiled, Sorted, RuleList

\* A reload that changes only jobs keeps EngineInv.
LEMMA EngineJobs ==
  ASSUME EngineInv, UNCHANGED <<ruleFile, rules>>, job' = [x \in Reloaders |-> job'[x]],
         \A x \in Reloaders : /\ JobShape(job'[x])
                              /\ \/ job'[x].rules \subseteq job[x].rules
                                 \/ job'[x].rules = NewEngine(ruleFile)
  PROVE  EngineInv'
<1>1. \A x \in Reloaders : \A n \in job'[x].rules : Compiled(n)
  BY NewEngineCompiles DEF EngineInv
<1>2. \A x \in Reloaders : (JobShape(job[x]))'
  BY DEF JobShape
<1>3. \A n : Compiled(n) => (Compiled(n))'
  BY DEF Compiled
<1> QED BY <1>1, <1>2, <1>3 DEF EngineInv, Compiled

\* Every step keeps EngineInv.
LEMMA EngineStep ==
  ASSUME EngineInv, [Next]_vars
  PROVE  EngineInv'
<1>1. CASE EditRules
  BY <1>1 DEF EditRules, EngineInv, inForce, JobShape, Compiled
<1>2. CASE EditRegistry
  BY <1>2 DEF EditRegistry, EngineInv, inForce, JobShape, Compiled
<1>3. CASE Restart
  <2>1. job' = [x \in Reloaders |-> Idle] /\ rules' = NoopService /\ ruleFile' = ruleFile
    BY <1>3 DEF Restart, files
  <2>2. (\A x \in Reloaders : job'[x] = Idle) /\ job' = [x \in Reloaders |-> job'[x]]
    BY <2>1
  <2>3. JobShape(Idle) /\ Idle.rules = {}
    BY DEF JobShape, Idle, Job
  <2> QED BY <2>1, <2>2, <2>3, NoopCompiled DEF EngineInv, JobShape
<1>4. CASE StartRules
  <2>1. rules' = NoopService \/ rules' \in NewEngine(ruleFile)
    BY <1>4 DEF StartRules
  <2>2. Compiled(rules')
    BY <2>1, NoopCompiled, NewEngineCompiles DEF EngineInv
  <2>3. ruleFile' = ruleFile /\ job' = job
    BY <1>4 DEF StartRules, files
  <2> QED BY <2>2, <2>3 DEF EngineInv, Compiled, JobShape
<1>5. CASE StartRegistry
  BY <1>5 DEF StartRegistry, files, EngineInv, JobShape, Compiled
<1>6. ASSUME NEW x \in Reloaders, BeginReload(x)  PROVE EngineInv'
  <2>1. \A y \in Reloaders : job'[y] = IF y = x THEN Job("loadRules", {}, {}, <<>>) ELSE job[y]
    BY <1>6 DEF BeginReload, EngineInv
  <2>2. job' = [y \in Reloaders |-> job'[y]]
    BY <1>6 DEF BeginReload, EngineInv
  <2>3. \A y \in Reloaders : JobShape(job'[y]) /\ job'[y].rules \subseteq job[y].rules
    BY <2>1 DEF EngineInv, JobShape, Job
  <2> QED BY <1>6, <2>2, <2>3, EngineJobs DEF BeginReload, files, inForce
<1>7. ASSUME NEW x \in Reloaders, LoadRules(x)  PROVE EngineInv'
  <2>1. \A y \in Reloaders : job'[y] =
          IF y = x THEN Job("loadRegistry", NewEngine(ruleFile), {}, <<>>) ELSE job[y]
    BY <1>7 DEF LoadRules, EngineInv
  <2>2. job' = [y \in Reloaders |-> job'[y]]
    BY <1>7 DEF LoadRules, EngineInv
  <2>3. \A y \in Reloaders : /\ JobShape(job'[y])
                             /\ job'[y].rules = IF y = x THEN NewEngine(ruleFile) ELSE job[y].rules
    BY <2>1 DEF EngineInv, JobShape, Job
  <2> QED BY <1>7, <2>2, <2>3, EngineJobs DEF LoadRules, files, inForce
<1>8. ASSUME NEW x \in Reloaders, LoadClassifier(x)  PROVE EngineInv'
  <2>1. PICK j : /\ job' = [job EXCEPT ![x] = j]
                 /\ JobShape(j) /\ j.rules \subseteq job[x].rules
    <3>1. CASE job' = [job EXCEPT ![x] = Idle]
      <4>1. JobShape(Idle) /\ Idle.rules \subseteq job[x].rules
        BY DEF JobShape, Idle, Job
      <4> QED BY <3>1, <4>1
    <3>2. ASSUME NEW g, NEW n,
                 job' = [job EXCEPT ![x] =
                           Job("installRules", job[x].rules, {g}, <<n.doc, g.doc>>)]
          PROVE  \E j : /\ job' = [job EXCEPT ![x] = j]
                        /\ JobShape(j) /\ j.rules \subseteq job[x].rules
      <4> DEFINE j == Job("installRules", job[x].rules, {g}, <<n.doc, g.doc>>)
      <4>1. JobShape(j) /\ j.rules = job[x].rules
        BY DEF JobShape, Job
      <4> HIDE DEF j
      <4> QED BY <3>2, <4>1 DEF j
    <3> QED BY <1>8, <3>1, <3>2 DEF LoadClassifier
  <2>2. /\ \A y \in Reloaders : job'[y] = IF y = x THEN j ELSE job[y]
        /\ job' = [y \in Reloaders |-> job'[y]]
    BY <2>1 DEF EngineInv
  <2>3. \A y \in Reloaders : JobShape(job'[y]) /\ job'[y].rules \subseteq job[y].rules
    BY <2>1, <2>2 DEF EngineInv
  <2> QED BY <1>8, <2>2, <2>3, EngineJobs DEF LoadClassifier, files, inForce
<1>9. ASSUME NEW x \in Reloaders, InstallRules(x)  PROVE EngineInv'
  <2>1. PICK b \in BOOLEAN :
          job' = [y \in Reloaders |->
                    IF y = x THEN [job[y] EXCEPT !.at = "installRegistry", !.rules = {}, !.alone = b]
                             ELSE [job[y] EXCEPT !.alone = FALSE]]
    BY <1>9 DEF InstallRules
  <2>2. /\ \A y \in Reloaders : job'[y] =
             IF y = x THEN [job[y] EXCEPT !.at = "installRegistry", !.rules = {}, !.alone = b]
                      ELSE [job[y] EXCEPT !.alone = FALSE]
        /\ job' = [y \in Reloaders |-> job'[y]]
    BY <2>1
  <2>3. \A y \in Reloaders : JobShape(job'[y]) /\ job'[y].rules \subseteq job[y].rules
    BY <2>2 DEF EngineInv, JobShape
  <2>4. ruleFile' = ruleFile /\ Compiled(rules')
    BY <1>9 DEF InstallRules, files, EngineInv
  <2> QED BY <2>2, <2>3, <2>4 DEF EngineInv, Compiled, JobShape
<1>10. ASSUME NEW x \in Reloaders, InstallRegistry(x)  PROVE EngineInv'
  <2>1. /\ \A y \in Reloaders : job'[y] = IF y = x THEN Idle ELSE job[y]
        /\ job' = [y \in Reloaders |-> job'[y]]
    BY <1>10 DEF InstallRegistry, EngineInv
  <2>2. \A y \in Reloaders : JobShape(job'[y]) /\ job'[y].rules \subseteq job[y].rules
    BY <2>1 DEF EngineInv, JobShape, Idle, Job
  <2> QED BY <1>10, <2>1, <2>2, EngineJobs DEF InstallRegistry, files
<1>11. CASE UNCHANGED vars
  BY <1>11 DEF vars, EngineInv, JobShape, Compiled
<1> QED
  BY <1>1, <1>2, <1>3, <1>4, <1>5, <1>6, <1>7, <1>8, <1>9, <1>10, <1>11 DEF Next, Load

\* Engine.Evaluate judges every call as the document in force says.
THEOREM EvaluationAlwaysExact == Spec => []EvaluationExact
<1>1. Init => EngineInv
  <2>1. SUFFICES ASSUME Init  PROVE EngineInv
    OBVIOUS
  <2>2. /\ job = [x \in Reloaders |-> Idle] /\ ruleFile \in Files(RuleDocs)
        /\ rules = NoopService
    BY <2>1 DEF Init
  <2>3. JobShape(Idle) /\ Idle.rules = {}
    BY DEF JobShape, Idle, Job
  <2> QED BY <2>2, <2>3, NoopCompiled DEF EngineInv
<1>2. EngineInv /\ [Next]_vars => EngineInv'
  BY EngineStep
<1>3. EngineInv => EvaluationExact
  BY CompiledIsExact DEF EngineInv
<1> QED BY <1>1, <1>2, <1>3, PTL DEF Spec
=============================================================================
