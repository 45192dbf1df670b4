SPECIFICATION Spec
CONSTANTS
  p1 = p1
  p2 = p2
  n1 = n1
  k1 = k1
  r1 = r1
  r2 = r2
  r3 = r3
  r4 = r4
  None = None
  Namespace = {n1}
  Key = {k1}
  Recipient = {r1, r2, r3, r4}
  Calls <- ASetSecret
  MaxCalls = 1
  Existing <- Unhashed
  Person = {p1, p2}
  Maintainer = {p1}
  Identity <- Identities
  Adds <- TwoAdds
  Policies <- NoEdits
  FirstPolicy <- Either
  Stops = TRUE
  MaxPrepares = 2
  MaxVersion = 3
INVARIANTS
  SpentOnce
  EventsNameSigners
  ChallengesMatchMeta
