------------------------------ MODULE MCStore ------------------------------
(***************************************************************************)
(* Instances of Store for TLC.                                             *)
(***************************************************************************)
EXTENDS StoreProperties, TLC, FiniteSets

CONSTANTS p1, p2, n1, n2, k1, k2, r1, r2

\* Contents found on disk: a namespace nobody has initialised, one older than
\* K-21/K-22 (no version, no hash, no origins file), and a current one in which
\* every key, or one of them, was provisioned.
Missing == [version |-> 0, recipients |-> {}, values |-> NoValues,
            origins |-> NoOrigins]
OldEntry == [version |-> 0, recipients |-> {r1, r2},
             values |-> [k \in Key |-> 1], origins |-> NoOrigins]
Provisioned == [version |-> 1, recipients |-> {r1, r2},
                values |-> [k \in Key |-> 1],
                origins |-> [k \in Key |-> "provision"]]
HalfFull == [version |-> 1, recipients |-> {r1, r2},
             values |-> [k \in Key |-> IF k = k1 THEN 1 ELSE Absent],
             origins |-> [k \in Key |-> IF k = k1 THEN "provision" ELSE NoOrigin]]

AllProvisioned == [ns \in Namespace |-> Provisioned]
OldAndMissing  == [ns \in Namespace |-> IF ns = n1 THEN OldEntry ELSE Missing]
FullAndMissing == [ns \in Namespace |-> IF ns = n1 THEN HalfFull ELSE Missing]

\* Everybody holds the same identity.
SharedIdentity == [p \in Proc |-> r1]

Call(kind, ns) == [kind |-> kind, ns |-> ns]
Value(kind, ns, keys, origin) ==
    [kind |-> kind, ns |-> ns, keys |-> keys, origin |-> origin]
Who(kind, ns, r) == [kind |-> kind, ns |-> ns, who |-> r]

-----------------------------------------------------------------------------
\* Calls that commit, of every way a bundle is rewritten, on one namespace, and
\* the creation of another.
Committing ==
    {Value("create", n1, {k2}, "provision"), Value("set", n1, {k1, k2}, "and-set"),
     Value("delete", n1, {k1}, "set"),
     Who("recipientAdd", n1, r2), Who("recipientRemove", n1, r1),
     Who("recipientDrop", n1, r1), Who("recipientRotate", n1, r2),
     [kind |-> "init", ns |-> n2, recipients |-> {r1}]}

\* The calls that roll back (K-37), on a namespace of which every key was
\* provisioned: provisioning again, typing in, deletion, removal of either
\* recipient with rotation, and a reader of what they leave.
RollingBack ==
    {Value("set", n1, {k1}, "provision"), Value("update", n1, {k2}, "set"),
     Value("delete", n1, {k1}, "set"),
     Who("recipientRotate", n1, r1), Who("recipientRotate", n1, r2),
     Call("read", n1)}

\* A batch (SetSecrets), a creation, changes of recipients and readers.
SomeOfEach ==
    {Value("set", n1, {k1, k2}, "set"), Who("recipientAdd", n1, r2),
     Who("recipientRemove", n1, r2),
     [kind |-> "init", ns |-> n2, recipients |-> {r1}],
     Call("read", n1), Call("verify", n1)}

\* The smallest sets of calls that show a behaviour.
OneGrant   == {Who("recipientAdd", n1, r2)}
TwoWriters == {Value("set", n1, {k1, k2}, "set"), Value("set", n1, {k2}, "set")}

ProcSymmetry == Permutations(Proc)
=============================================================================
