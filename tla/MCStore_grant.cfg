SPECIFICATION Spec
CONSTANTS
  p1 = p1
  p2 = p2
  n1 = n1
  n2 = n2
  k1 = k1
  k2 = k2
  r1 = r1
  r2 = r2
  Nil = Nil
  Proc = {p1}
  Namespace = {n1}
  Key = {k1, k2}
  Recipient = {r1, r2}
  Calls <- OneGrant
  MaxCalls = 1
  Existing <- AllProvisioned
  Identity <- SharedIdentity
  Faults = {"manifest"}
  Crashes = FALSE
INVARIANTS
  FilesInSync
