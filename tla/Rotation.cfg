CONSTANTS
  Threads = {t1, t2}
  Auths = {empty, a1}
  NoAuth = empty
  Addresses = {ip1, ip2}
  NoAddress = NoAddress
  Tries = 2
SPECIFICATION Spec
SYMMETRY RotationSymmetry
INVARIANTS
  TypeOK
  QuietIsServed
  TunnelMatchesInstance
