SPECIFICATION Spec
CONSTANTS
  l1 = l1
  l2 = l2
  s1 = s1
  b1 = b1
  d1 = d1
  Calls = {l1, l2, s1, b1, d1}
  Method <- MethodOf
  Consumer <- ConsumerOf
  NoConsumer = NoConsumer
  ACL <- MCACL
  Regexp <- MCRegexp
  Window = 1
  MaxCalls = 3
  Shutdown = "never"
INVARIANTS
  TypeOK
  LogStreamsComplete
  StatsConserved
PROPERTIES
  ImplementsBus
