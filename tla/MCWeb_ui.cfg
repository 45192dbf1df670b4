SPECIFICATION FairSpec
CONSTANTS
  h1 = h1
  h2 = h2
  cli = cli
  team = team
  web = web
  other = other
  Nil = Nil
  Handler = {h1, h2}
  Process = {cli}
  Actor = {h1, h2, cli}
  Store = {team, web, other}
  Managed = {team, web}
  Parent <- Below
  Authorities <- Loopback
  Requests <- Sent
  Starts <- Found
  WritesFail = TRUE
  MaxRotations = 2
  MaxRequests = 3
INVARIANTS
  TypeOK
  LastPrintedIsCurrent
  ActivityReachesTimer
PROPERTIES
  SessionsAreEarned
  EffectsAreAuthorised
  CreateKeepsNamespaces
  ActiveIsUsable
  ActsOnAnActiveStore
  IdleSessionsEnd
