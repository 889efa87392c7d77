CONSTANTS
  Threads = {t1}
  Auths = {empty, a1, a2}
  NoAuth = empty
  Addresses = {ip1, ip2}
  NoAddress = NoAddress
  Tries = 2
SPECIFICATION FairSpec
INVARIANTS
  AuthServed
PROPERTIES
  TaskEnds
