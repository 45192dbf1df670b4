------------------------------- MODULE MCPeer -------------------------------
(***************************************************************************)
(* Instances of PeerSync for TLC.                                          *)
(***************************************************************************)
EXTENDS PeerProperties, TLC

CONSTANTS a, b, pa, pb, pq, n1

HomeOf == [p \in Proc |-> IF p = pb THEN b ELSE a]

None  == [n \in Name |-> Nil]
To(l) == [n \in Name |-> l]

Command(k, opt, n, t) == [kind |-> k, opt |-> opt, name |-> n, target |-> t]
Set     == Command("set", TRUE, Nil, Nil)
List    == Command("list", TRUE, Nil, Nil)
PingAll == Command("ping", FALSE, Nil, Nil)
Replace == Command("join", TRUE, Nil, a)

-----------------------------------------------------------------------------
(* peer_sync *)

\* b has the leader's store, or none.
StoresAtStart == {s \in [Leader -> 0..1] : s[a] = 1}
ListsAtStart == [l \in Leader |-> IF l = a THEN {None, To(b)} ELSE {To(a)}]

\* A join without --replace is this one, or is refused.
AtHome  == {Set, PingAll, Command("add", FALSE, n1, b),
           Command("remove", FALSE, n1, Nil)}
Away    == {Set, List, Replace}
Typed   == [p \in Proc |-> IF p = pb THEN Away ELSE IF p = pa THEN AtHome ELSE {PingAll}]

-----------------------------------------------------------------------------
(* peer_drop: each leader has the other one for its peer. *)

EachOther == [l \in Leader |-> {To(IF l = a THEN b ELSE a)}]
AtBoth    == {[l \in Leader |-> 1]}
Setting   == [p \in Proc |-> {Set}]
=============================================================================
