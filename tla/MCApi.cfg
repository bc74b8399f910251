SPECIFICATION Spec
CONSTANTS
  c1 = c1
  c2 = c2
  c3 = c3
  p1 = p1
  bad = bad
  unauth = unauth
  Requests = {c1, c2, c3, p1, bad, unauth}
  Logins = {"mr.moderator", "new_moderator3", "rvasily", "bad_username"}
  Login <- MCLogin
  Creates = {c1, c2, c3, bad, unauth}
  Verdict <- MCVerdict
  BadUser = "bad_user"
  BadUsername = "bad_username"
  Initial <- MCInitial
  FirstID = 43
INVARIANTS
  TypeOK
  NoConcurrentMapWrite
  OneIDPerLogin
PROPERTIES
  EveryRequestAnswered
  ImplementsRegistry
