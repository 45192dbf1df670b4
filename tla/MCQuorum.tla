------------------------------ MODULE MCQuorum ------------------------------
(***************************************************************************)
(* Instances of QuorumGate for TLC.                                        *)
(***************************************************************************)
EXTENDS QuorumProperties, TLC

CONSTANTS p1, p2, n1, k1, r1, r2, r3, r4

\* p1 and p2 hold the identities of two operators.
Identities == [p \in Person |-> IF p = p2 THEN r2 ELSE r1]

Contents(R) == [version |-> 1, recipients |-> R,
                values |-> [k \in Key |-> 1], origins |-> [k \in Key |-> "set"]]
OneRecipient  == [ns \in Namespace |-> Contents({r1})]
TwoRecipients == [ns \in Namespace |-> Contents({r1, r2})]

\* An entry older than hashes, which somebody has to write before anyone can prepare.
Unhashed == [ns \in Namespace |-> [Contents({r1, r2}) EXCEPT !.version = 0]]

Both   == [m |-> 2, operators |-> {r1, r2}]
Either == [m |-> 1, operators |-> {r1, r2}]
First  == [m |-> 1, operators |-> {r1}]
Second == [m |-> 1, operators |-> {r2}]

\* What validatePolicy refuses.
TooMany == [m |-> 3, operators |-> {r1, r2}]

NoEdits     == {}
SomeEdits   == {None, Both, Either, TooMany}
ChangeOfWho == {Second}

Add(ns, r, how) == [ns |-> ns, who |-> r, how |-> how]
OneAdd     == {Add(n1, r4, "add")}
TwoAdds    == {Add(n1, r3, "add"), Add(n1, r4, "add")}
EveryWay   == {Add(n1, r4, "add"), Add(n1, r4, "bootstrap"), Add(n1, r4, "web")}

NobodyElse == {}
ASetSecret == {[kind |-> "set", ns |-> n1, keys |-> {k1}, origin |-> "set"]}
=============================================================================
