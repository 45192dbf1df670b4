SPECIFICATION Spec
CONSTANTS
  p1 = p1
  p2 = p2
  n1 = n1
  n2 = n2
  k1 = k1
  k2 = k2
  r1 = r1
  r2 = r2
  Nil = Nil
  Proc = {p1, p2}
  Namespace = {n1}
  Key = {k1, k2}
  Recipient = {r1, r2}
  Calls <- RollingBack
  MaxCalls = 3
  Existing <- AllProvisioned
  Identity <- SharedIdentity
  Faults = {"read", "bundle", "origins", "manifest", "audit"}
  Crashes = FALSE
SYMMETRY ProcSymmetry
INVARIANTS
  FilesInSync
