SPECIFICATION Spec
CONSTANTS
  Conns = {c1}
  MaxRequests = 1
  None = None
  plain = plain
  wild = wild
  path = path
  cred = cred
  both = both
  other = other
  Hosts <- MCHosts
  ExactHosts <- MCExactHosts
  WildHosts <- MCWildHosts
  PathHosts <- MCPathHosts
  CredHosts <- MCCredHosts
  Injects = TRUE
INVARIANTS EveryAttemptIsLogged
CHECK_DEADLOCK FALSE
