SPECIFICATION Spec
CONSTANTS
  p1 = p1
  p2 = p2
  n1 = n1
  k1 = k1
  r1 = r1
  r2 = r2
  r3 = r3
  r4 = r4
  None = None
  Namespace = {n1}
  Key = {k1}
  Recipient = {r1, r2, r3, r4}
  Calls <- NobodyElse
  MaxCalls = 1
  Existing <- OneRecipient
  Person = {p1, p2}
  Maintainer = {p1, p2}
  Identity <- Identities
  Adds <- EveryWay
  Policies <- SomeEdits
  FirstPolicy <- Both
  Stops = FALSE
  MaxPrepares = 1
  MaxVersion = 2
INVARIANTS
  TypeOK
  QuorumHolds
