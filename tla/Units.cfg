CONSTANTS
  aws = aws
  aws_us = aws_us
  awsDOT1 = awsDOT1
  Names <- MCNames
  Underscored = {aws_us}
  Dotted = {awsDOT1}
  First <- MCFirst
  MaxSections = 2
SPECIFICATION Spec
CONSTRAINT OneSpoiled
INVARIANTS
  TypeOK
  NoPortClash
  TunnelFollowsUnit
