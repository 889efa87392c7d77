CONSTANTS
  Configs = {c1, c2}
  Threads = {t1, t2}
  s1 = s1
  s2 = s2
  Junk = Junk
  Anywhere = Anywhere
  Sources <- MCSources
  Whitelists <- MCWhitelists
SPECIFICATION Spec
SYMMETRY FirewallSymmetry
CONSTRAINT Uncrossed
INVARIANTS
  TypeOK
  WhitelistEnforced
  NeverLockedOut
PROPERTIES
  OwnRulesOnly
