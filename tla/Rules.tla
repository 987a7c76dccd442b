------------------------------- MODULE Rules --------------------------------
(***************************************************************************)
(* The commandments engine (internal/commandments): validation, compiling  *)
(* and evaluation of a rule document, as operators.                        *)
(*                                                                         *)
(* A document is [version, rules]; a rule is [name, priority, enforcement, *)
(* enabled, match], with match a function from event fields to conditions. *)
(* Names are numbers in the order of their text, 0 is blank.  A condition  *)
(* is [type, padded, lang, count, op, value, ok]: its type (padded when    *)
(* written with blanks around it), the texts its patterns or values match, *)
(* their number, operator and number for comparisons, and whether patterns *)
(* and number are there, short enough and well-formed.                     *)
(***************************************************************************)
EXTENDS Integers, Sequences, FiniteSets, FiniteSetsExt, Functions, Judgement

CONSTANTS
  MaxRules,            \* MaxRules (100)
  MaxCompiledPatterns, \* MaxCompiledPatterns (200)
  Numeric              \* the texts ParseFloat accepts, with their values

Blank == ""
NoName == 0

ASSUME RulesAssumption ==
  /\ MaxRules \in Nat /\ MaxCompiledPatterns \in Nat
  /\ \A v \in DOMAIN Numeric : Numeric[v] \in Nat

(***************************************************************************)
(* Validate                                                                *)
(***************************************************************************)
NumericOps == {"gt", "lt", "eq", "gte", "lte"}
ListOps == {"in", "not_in"}

ValidCondition(c) ==
  /\ c.ok
  /\ \/ c.type \in {"exact", "regex", "glob"}
     \/ c.type = "numeric" /\ c.op \in NumericOps
     \/ c.type = "list" /\ c.op \in ListOps

PatternCount(c) ==
  CASE c.type = "numeric" -> 0
    [] c.type \in {"glob", "list"} -> c.count
    [] OTHER -> 1

TotalPatterns(rules) ==
  MapThenSumSet(LAMBDA p : PatternCount(rules[p[1]].match[p[2]]),
                UNION {{i} \X DOMAIN rules[i].match : i \in 1..Len(rules)})

ValidRule(r) ==
  /\ r.name # NoName
  /\ r.enforcement \in Enforcements
  /\ DOMAIN r.match # {} /\ Blank \notin DOMAIN r.match
  /\ \A f \in DOMAIN r.match : ValidCondition(r.match[f])

Validate(doc) ==
  /\ doc.version = "1"
  /\ Len(doc.rules) <= MaxRules
  /\ \A i \in 1..Len(doc.rules) : ValidRule(doc.rules[i])
  /\ \A i, j \in 1..Len(doc.rules) :
       doc.rules[i].name = doc.rules[j].name => i = j
  /\ TotalPatterns(doc.rules) <= MaxCompiledPatterns

(***************************************************************************)
(* Matchers                                                                *)
(***************************************************************************)
Compare(op, n, target) ==
  CASE op = "gt"  -> n > target
    [] op = "lt"  -> n < target
    [] op = "eq"  -> n = target
    [] op = "gte" -> n >= target
    [] op = "lte" -> n <= target

Match(c, value) ==
  CASE c.type = "numeric" ->
         value \in DOMAIN Numeric /\ Compare(c.op, Numeric[value], c.value)
    [] c.type = "list" -> IF c.op = "not_in" THEN value \notin c.lang ELSE value \in c.lang
    [] OTHER -> value \in c.lang

\* CompileMatcher looks at the type as it is written, Validate trims it.
Compiles(doc) ==
  /\ \A i \in 1..Len(doc.rules) :
       \A f \in DOMAIN doc.rules[i].match : ~doc.rules[i].match[f].padded
  /\ TotalPatterns(doc.rules) <= MaxCompiledPatterns

(***************************************************************************)
(* compileRules and Evaluate                                               *)
(***************************************************************************)
Before(r, s) ==
  r.priority > s.priority \/ (r.priority = s.priority /\ r.name < s.name)

CompileRules(rules) ==
  CHOOSE order \in [1..Len(rules) -> Range(rules)] :
    \A i, j \in 1..Len(rules) : i < j => Before(order[i], order[j])

EventFields == {"provider", "model", "tool_category", "tool_name", "input_tokens"}

EventFieldValue(e, field) == IF field \in EventFields THEN e[field] ELSE Blank

\* Mutant: an absent value is given to the matcher.
MatchesAbsent(r, e) ==
  \A f \in DOMAIN r.match : Match(r.match[f], EventFieldValue(e, f))

Matches(r, e) ==
  \A f \in DOMAIN r.match :
    EventFieldValue(e, f) # Blank /\ Match(r.match[f], EventFieldValue(e, f))

\* The loop of Evaluate: one rule, in its turn.
EvaluateRule(done, r, e) ==
  IF ~r.enabled THEN done
  ELSE [evaluated |-> Append(done.evaluated, r),
        triggered |-> IF Matches(r, e) THEN Append(done.triggered, r) ELSE done.triggered]

Evaluate(order, e) ==
  LET after[i \in 0..Len(order)] ==
        IF i = 0 THEN [evaluated |-> <<>>, triggered |-> <<>>]
        ELSE EvaluateRule(after[i - 1], order[i], e)
  IN  after[Len(order)]
=============================================================================
