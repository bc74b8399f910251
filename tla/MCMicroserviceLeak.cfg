SPECIFICATION Spec
CONSTANTS
  l1 = l1
  l2 = l2
  s1 = s1
  b1 = b1
  d1 = d1
  Calls = {s1}
  Method <- MethodOf
  Consumer <- ConsumerOf
  NoConsumer = NoConsumer
  ACL <- MCACL
  Regexp <- MCRegexp
  Window = 1
  MaxCalls = 1
  Shutdown = "quiet"
PROPERTIES
  EveryGoroutineEnds
