SPECIFICATION FairSpec
CONSTANTS
  Conns = {c1}
  MaxRequests = 2
  None = None
  plain = plain
  wild = wild
  path = path
  cred = cred
  both = both
  other = other
  Hosts <- MCHosts
  ExactHosts <- MCExactHosts
  WildHosts <- MCWildHosts
  PathHosts <- MCPathHosts
  CredHosts <- MCCredHosts
  Injects = TRUE
INVARIANTS TypeOK OnlyAllowedTraffic BlockedAddressesUnreached SecretsStayHome SummaryAddsUp
PROPERTIES HungUpClientsEnd
CHECK_DEADLOCK FALSE
