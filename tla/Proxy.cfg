SPECIFICATION FairSpec
CONSTANTS
  Reqs = {r1}
  Reloaders = {sighup}
  RuleSets <- ModelRules
  Classifiers <- TwoClassifiers
  Requests <- SomeRequests
  Responses <- SomeResponses
  GateCalls <- CallsA
  StrictModes = {TRUE, FALSE}
  Capacity = 1
  MaxReloads = 1
INVARIANTS ForwardedWasAllowed DeliveredWasAllowed OneTrueEvent
PROPERTY RequestsEnd
