------------------------------ MODULE Registry ------------------------------
(***************************************************************************)
(* The tool registry (internal/classify): compiling a registry document    *)
(* and classifying a tool call, as operators.                              *)
(*                                                                         *)
(* A document is [providers, heuristics]; a provider is [tools, patterns], *)
(* tools a function from names to categories; a pattern is [named, names,  *)
(* keys, set]: whether it has name globs, the (lower-case) names they      *)
(* match, the argument keys of which one must be present, the category.  A *)
(* category stands for category and effect; a blank one is incomplete.     *)
(* Argument keys are normalized: NormalizeArgKeys trims and folds them.    *)
(***************************************************************************)
EXTENDS Naturals, Sequences, FiniteSets, FiniteSetsExt, Functions

CONSTANTS
  LowerCase   \* the names with capitals, with their lower-case form

\* strings.ToLower: what is lowered is in lower case, and no name becomes empty.
ASSUME LowerCaseAssumption ==
  \A n \in DOMAIN LowerCase : n # "" /\ LowerCase[n] \notin DOMAIN LowerCase \cup {""}

DefaultProvider == "_default"
NoCategory == ""
NoToolName == ""

Lower(name) == IF name \in DOMAIN LowerCase THEN LowerCase[name] ELSE name

NormalizeProvider(p) == IF p = "" THEN DefaultProvider ELSE Lower(p)

(***************************************************************************)
(* NewRegistry                                                             *)
(***************************************************************************)
ValidPattern(r) == r.set # NoCategory /\ (r.named \/ r.keys # {})

ValidPatterns(rules) == \A i \in 1..Len(rules) : ValidPattern(rules[i])

ValidRegistry(doc) ==
  /\ \A p \in DOMAIN doc.providers :
       LET tools == doc.providers[p].tools
       IN  /\ \A t \in DOMAIN tools \ {NoToolName} : tools[t] # NoCategory
           /\ ValidPatterns(doc.providers[p].patterns)
  /\ ValidPatterns(doc.heuristics)

CompileProvider(p) ==
  [tools |-> Restrict(p.tools, DOMAIN p.tools \ {NoToolName}), patterns |-> p.patterns]

\* Providers whose names are the same when normalized overwrite each other in
\* the order in which Go walks the map: any one of them may remain.
NewRegistry(doc) ==
  LET keys  == {NormalizeProvider(p) : p \in DOMAIN doc.providers}
      picks == {pick \in [keys -> DOMAIN doc.providers] :
                  \A k \in keys : NormalizeProvider(pick[k]) = k}
  IN  {[providers |-> [k \in keys |-> CompileProvider(doc.providers[pick[k]])],
        heuristics |-> doc.heuristics] : pick \in picks}

(***************************************************************************)
(* Classify                                                                *)
(***************************************************************************)
MatchesPattern(r, tool, keys) ==
  (r.named => tool \in r.names) /\ (r.keys # {} => r.keys \cap keys # {})

\* A lookup yields a category or nothing, as a sequence of at most one.
FirstMatch(rules, tool, keys) ==
  LET hits == {i \in 1..Len(rules) : MatchesPattern(rules[i], tool, keys)}
  IN  IF hits = {} THEN <<>> ELSE <<rules[Min(hits)].set>>

Exact(provider, tool) ==
  IF tool \in DOMAIN provider.tools THEN <<provider.tools[tool]>> ELSE <<>>

ProviderOf(registry, key) ==
  IF key \in DOMAIN registry.providers THEN registry.providers[key]
  ELSE [tools |-> <<>>, patterns |-> <<>>]

FirstFound(found, sources) ==
  LET hits == {i \in 1..Len(found) : found[i] # <<>>}
  IN  IF hits = {} THEN [category |-> "other", source |-> "fallback"]
      ELSE [category |-> found[Min(hits)][1], source |-> sources[Min(hits)]]

\* Mutant: the name is not folded to lower case.
ClassifyVerbatim(registry, provider, tool, keys) ==
  LET own    == ProviderOf(registry, NormalizeProvider(provider))
      shared == ProviderOf(registry, DefaultProvider)
  IN  FirstFound(<<Exact(own, tool), Exact(shared, tool), FirstMatch(own.patterns, tool, keys),
                   FirstMatch(shared.patterns, tool, keys),
                   FirstMatch(registry.heuristics, tool, keys)>>,
                 <<"exact", "exact", "pattern", "pattern", "heuristic">>)

Classify(registry, provider, tool, keys) ==
  LET own    == ProviderOf(registry, NormalizeProvider(provider))
      shared == ProviderOf(registry, DefaultProvider)
      low    == Lower(tool)
  IN  FirstFound(<<Exact(own, tool), Exact(own, low), Exact(shared, low),
                   FirstMatch(own.patterns, low, keys), FirstMatch(shared.patterns, low, keys),
                   FirstMatch(registry.heuristics, low, keys)>>,
                 <<"exact", "exact", "exact", "pattern", "pattern", "heuristic">>)
=============================================================================
