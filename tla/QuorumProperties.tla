-------------------------- MODULE QuorumProperties --------------------------
(***************************************************************************)
(* What the quorum gate is for (docs/recipient-quorum.md), and what its    *)
(* comments and its document say of it that the code does not do.          *)
(***************************************************************************)
EXTENDS QuorumGate

Gated == {g \in grants : g.how = "quorum"}

-----------------------------------------------------------------------------
\* A file of the pending directory, as the clearing lists it.
FileName == {<<"meta">>} \union ({"challenge", "sig"} \X Recipient)

\* Every variable has its type; a policy that a call has loaded is valid.
TypeOK ==
    /\ \A ns \in Namespace : entry[ns].version \in Nat /\ entry[ns].recipients # {}
    /\ policy \in Policies \union {FirstPolicy}
    /\ pending \in BOOLEAN
    /\ meta \in MetaType \union {None}
    /\ \A r \in Recipient :
          /\ challenges[r] \in MessageType \union {None}
          /\ sigs[r] \in SigType \union {None}
    /\ \A p \in Person :
          /\ local[p].call \in CallInProgress \union {None}
          /\ (local[p].call = None) = (pc[p] = "idle")
          /\ local[p].policy # None =>
                local[p].policy.m \in 1..Cardinality(local[p].policy.operators)
          /\ local[p].meta \in MetaType \union {None}
          /\ local[p].signers \subseteq Recipient
          /\ local[p].todo \subseteq Recipient \union FileName
    /\ nonce \in Nat
    /\ \A s \in signed : s[1] \in Recipient /\ s[2] \in MessageType

\* The point of K-36: an addition that went through the gate was signed, for
\* that very recipient and namespace, by as many of the listed operators as the
\* policy that the adding command loaded asks for, however the steps of the
\* maintainers and the operators interleave, whatever dies and whatever is edited.
QuorumHolds ==
    \A g \in Gated :
        LET message == MessageOf(g.meta) IN
        /\ message.ns = g.ns /\ message.who = g.who
        /\ Cardinality({o \in g.meta.operators : <<o, message>> \in signed}) >= g.policy.m

\* The auditor's anchor: an operator whom an event names as a signer did sign for
\* that recipient and that namespace, though the event is written last and the
\* files it rests on can change in between.
EventsNameSigners ==
    \A e \in audit : \A o \in e.signers :
        \E s \in signed : s[1] = o /\ s[2].ns = e.ns /\ s[2].who = e.who

\* One set of signatures admits one addition (docs/recipient-quorum.md:78-80:
\* once committed the SHA changes, "invalidating any unspent signatures").
SpentOnce ==
    \A g, h \in Gated : g.meta.nonce = h.meta.nonce => g = h

\* A challenge that meta.json announces is for the message it announces, so that
\* the operators it lists can sign (prepare.go:31-34).
ChallengesMatchMeta ==
    meta # None =>
        \A o \in meta.operators :
            challenges[o] \in {None, MessageOf(meta)}

-----------------------------------------------------------------------------
(* What is said of the gate and does not hold *)

\* meta.go:36-37: the snapshot of the operators is "captured to detect
\* post-prepare policy edits"; those who vouch are operators of the policy that
\* the adding command loaded.
SignersAreListed ==
    \A g \in Gated : g.signers \subseteq g.policy.operators

\* docs/recipient-quorum.md:224-225: after a concurrent re-encrypt "meta is
\* invalidated; maintainer must re-prepare".
Stale == meta # None /\ meta.sha # Sha(meta.ns)
StaleIsReplaced == Stale ~> ~Stale
=============================================================================
