SPECIFICATION FairSpec
CONSTANTS
  a = a
  b = b
  pa = pa
  pb = pb
  pq = pq
  n1 = n1
  Nil = Nil
  Leader = {a, b}
  Proc = {pa, pb, pq}
  Home <- HomeOf
  Name = {n1}
  Commands <- Typed
  MaxCommands = 2
  Older = 1
  Starts <- StoresAtStart
  Lists <- ListsAtStart
  WritesFail = TRUE
INVARIANTS
  TypeOK
  ReadableIsCommitted
  UndisturbedPushMirrors
  DoctorTellsLastContact
  FailedCommandsDoNotPush
PROPERTIES
  PrivateFilesStay
  
  OnlyPeersAreAwaited
