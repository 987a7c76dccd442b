SPECIFICATION FairEdgeSpec
CONSTANTS
  Conns = {c1, c2}
  Providers <- TwoProviders
  DomainOf <- TwoDomains
  RoutesOf <- TwoRoutes
  defaultProvider = "openai"
  Hosts <- ThreeHosts
  Asks <- SomeRequests
  None = "none"
  maxSize = 1
INVARIANT CertificatesShared
PROPERTY ConnectionsEnd
CHECK_DEADLOCK FALSE
