SPECIFICATION Spec
CONSTANTS
  a = a
  b = b
  pa = pa
  pb = pb
  pq = pq
  n1 = n1
  Nil = Nil
  Leader = {a, b}
  Proc = {pa, pb}
  Home <- HomeOf
  Name = {n1}
  Commands <- Setting
  MaxCommands = 2
  Older = 1
  Starts <- AtBoth
  Lists <- EachOther
  WritesFail = TRUE
PROPERTIES
  EntriesGrow
