\* Two files of every kind, one edited once, with starts and reloads.
CONSTANTS
  MaxRules = 3
  MaxCompiledPatterns = 3
  Reloaders = {sighup, ipc}
  MaxEdits = 1
  MaxRestarts = 1
  Numeric <- MCNumeric
  LowerCase <- MCLowerCase
  DefaultRules <- MCDefaultRules
  DefaultRegistry <- MCDefaultRegistry
  RuleDocs <- MCRuleDocs
  RegistryDocs <- MCRegistryDocs
  Calls <- MCCalls
SPECIFICATION FairSpec
INVARIANTS
  EvaluationExact
  PolicyFromOneLoad
  ClassificationSound
PROPERTIES
  ReloadTakesEffect
