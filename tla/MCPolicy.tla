------------------------------ MODULE MCPolicy ------------------------------
\* Policy with a handful of rule documents and registries, valid and not.
EXTENDS Policy, TLC

MCNumeric == ("0" :> 0) @@ ("5" :> 5)
MCLowerCase == ("Bash" :> "bash") @@ ("OpenAI" :> "openai")

Cond(type, lang) ==
  [type |-> type, padded |-> FALSE, lang |-> lang, count |-> Cardinality(lang),
   op |-> "", value |-> 0, ok |-> TRUE]
NotIn(lang) == [Cond("list", lang) EXCEPT !.op = "not_in"]
AtLeast(n) == [Cond("numeric", {}) EXCEPT !.op = "gte", !.value = n]
Rule(name, priority, enforcement, enabled, match) ==
  [name |-> name, priority |-> priority, enforcement |-> enforcement,
   enabled |-> enabled, match |-> match]
Doc(rs) == [version |-> "1", rules |-> rs]

Shell == Rule(2, 10, "block", TRUE, "tool_category" :> Cond("exact", {"shell"}))
Models == Rule(1, 10, "warn", TRUE, "model" :> NotIn({"m"}))
Large == Rule(3, 90, "warn", TRUE,
              ("input_tokens" :> AtLeast(5)) @@ ("provider" :> Cond("glob", {"openai"})))
Tokens(name) == Rule(name, 0, "warn", TRUE, "input_tokens" :> AtLeast(5))
Unknown == Rule(4, 50, "block", TRUE, "colour" :> NotIn({"m"}))
Off == [Shell EXCEPT !.name = 5, !.enabled = FALSE]
Wide == Rule(6, -1, "warn", TRUE, "model" :> Cond("glob", {"m", "n"}))
Padded == Rule(7, 0, "warn", TRUE, "model" :> [Cond("exact", {"m"}) EXCEPT !.padded = TRUE])

MCDefaultRules == Doc(<<Shell>>)
MCRuleDocs ==
  { Doc(<<Shell, Models, Large>>), Doc(<<Off, Unknown, Wide>>),
    Doc(<<Shell, Models, Tokens(8), Tokens(9)>>), \* more than MaxRules
    Doc(<<Shell, Shell>>),                  \* a name twice
    Doc(<<Wide, [Wide EXCEPT !.name = 8]>>), \* too many patterns
    Doc(<<Padded>>),                        \* valid, does not compile
    [version |-> "", rules |-> <<>>] }      \* an empty file

Provider(tools, patterns) == [tools |-> tools, patterns |-> patterns]
Pattern(names, keys, set) ==
  [named |-> names # {}, names |-> names, keys |-> keys, set |-> set]
Registered(providers, heuristics) == [providers |-> providers, heuristics |-> heuristics]
RunsCommands == Pattern({}, {"command"}, "shell")

MCDefaultRegistry ==
  Registered(("openai" :> Provider("bash" :> "shell", <<Pattern({"web"}, {}, "network")>>))
               @@ ("_default" :> Provider("bash" :> "code", <<>>)), <<RunsCommands>>)
MCRegistryDocs ==
  { \* the names of the two providers are the same when normalized
    Registered(("openai" :> Provider("bash" :> "code", <<Pattern({}, {"command"}, "network")>>))
                 @@ ("OpenAI" :> Provider("Bash" :> "shell", <<>>)), <<>>),
    Registered("" :> Provider(("" :> "") @@ ("web" :> "network"), <<>>),
               <<Pattern({"bash", "web"}, {"command"}, "shell"), Pattern({"web"}, {}, "code")>>),
    Registered(<<>>, <<>>),                      \* an empty file
    Registered(<<>>, <<Pattern({}, {}, "code")>>),   \* matches nothing
    Registered(<<>>, <<Pattern({"web"}, {}, "")>>) } \* no category

MCCalls ==
  {c \in [provider : {"openai", "OpenAI", ""}, tool : {"Bash", "bash", "web"},
          keys : SUBSET {"command"}, model : {"", "n"}, tokens : {"0", "5"}] :
     c.model = "n" <=> c.tokens = "0"}
=============================================================================
