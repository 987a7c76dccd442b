SPECIFICATION Spec
CONSTANTS
  Reqs = {}
  Reloaders = {sighup}
  RuleSets <- TwoRuleSets
  Classifiers <- OnlyToolA
  Requests <- PlainRequest
  Responses <- ToolAnswers
  GateCalls <- CallsA
  StrictModes = {FALSE}
  Capacity = 1
  MaxReloads = 1
INVARIANT GateCurrent
