-------------------------- MODULE QuorumInvariant --------------------------
(***************************************************************************)
(* The inductive invariants behind the theorems about QuorumGate: the one  *)
(* that holds of any number of maintainers, and what one alone adds.       *)
(***************************************************************************)
EXTENDS QuorumProperties

\* The steps of `recipient add`, and of `recipient sign-add`.
PolicyStep == {"meta", "prepare", "challenge", "verify", "check", "collect"}
CommitStep == {"apply", "record"}
AddStep    == PolicyStep \union CommitStep \union {"count", "list", "remove"}
SignStep   == {"signMeta", "decryptChallenge", "writeSig"}
Step       == AddStep \union SignStep \union {"idle"}

Local ==
    [call:    CallInProgress \union {None},
     policy:  Policies \union {FirstPolicy, None},
     meta:    MetaType \union {None},
     sha:     Nat,
     todo:    SUBSET (Recipient \union FileName),
     signers: SUBSET Recipient]

\* A call that has to go through the gate, and the meta.json it has checked.
GatedCall(l) == l.policy # None /\ l.call.how \notin {"web", "bootstrap"}
Checked(l) ==
    /\ l.meta # None
    /\ l.meta.ns = l.call.ns /\ l.meta.who = l.call.who
    /\ l.meta.m = l.policy.m

\* What the locals of a command are good for at each of its steps.
WellFormed(step, l) ==
    /\ (l.call = None) = (step = "idle")
    /\ l.policy # None => l.policy.m \in 1..Cardinality(l.policy.operators)
    /\ step \in PolicyStep => l.policy # None /\ l.call.how = "add"
    /\ step = "count" => l.policy # None /\ l.call.how = "bootstrap" /\ l.signers = {}
    /\ step \in {"challenge", "decryptChallenge", "writeSig"} => l.meta # None
    /\ step = "challenge" => l.todo \subseteq Recipient
    /\ step = "collect" => Checked(l)
    /\ step \in CommitStep =>
          IF GatedCall(l)
          THEN /\ Checked(l)
               /\ l.signers \subseteq l.meta.operators
               /\ Cardinality(l.signers) >= l.policy.m
          ELSE l.signers = {}

StateType ==
    /\ entry = [ns \in Namespace |-> entry[ns]]
    /\ \A ns \in Namespace : entry[ns].version \in Nat /\ entry[ns].recipients # {}
    /\ policy \in Policies \union {FirstPolicy}
    /\ pending \in BOOLEAN
    /\ meta \in MetaType \union {None}
    /\ challenges \in [Recipient -> MessageType \union {None}]
    /\ sigs \in [Recipient -> SigType \union {None}]
    /\ nonce \in Nat
    /\ signed \subseteq Recipient \X MessageType

ControlInv ==
    /\ pc \in [Person -> Step]
    /\ local \in [Person -> Local]
    /\ \A p \in Person : WellFormed(pc[p], local[p])

TypeInv == StateType /\ ControlInv

-----------------------------------------------------------------------------
\* Every signature file was written by the operator it is named after.
SigInv == \A o \in Recipient : sigs[o] # None => <<o, sigs[o].message>> \in signed

\* Whoever is counted has signed what the command has checked.
VouchedInv ==
    \A p \in Person :
        pc[p] \in CommitStep =>
            \A o \in local[p].signers : <<o, MessageOf(local[p].meta)>> \in signed

\* A gated addition keeps the evidence it was made on.
Evidence(g) ==
    /\ g.meta \in MetaType
    /\ g.meta.ns = g.ns /\ g.meta.who = g.who
    /\ g.policy.m \in Nat
    /\ g.signers \subseteq g.meta.operators
    /\ Cardinality(g.signers) >= g.policy.m
    /\ \A o \in g.signers : <<o, MessageOf(g.meta)>> \in signed
GrantInv == \A g \in Gated : Evidence(g)

GateInv == SigInv /\ VouchedInv /\ GrantInv /\ EventsNameSigners

-----------------------------------------------------------------------------
(* One command per identity *)

\* No two people run `recipient add` with the same identity.
OneCommandPerIdentity == \A p, q \in Maintainer : Identity[p] = Identity[q] => p = q

AddersInv == \A p \in Person : pc[p] \in AddStep => p \in Maintainer

\* A nonce names one meta.json.
KnownMeta == ({meta} \union {local[p].meta : p \in Person} \union {g.meta : g \in Gated}) \ {None}
NonceInv ==
    /\ \A x \in KnownMeta : x.nonce <= nonce
    /\ \A x, y \in KnownMeta : x.nonce = y.nonce => x = y

\* Signatures are for whoever prepared the set, and nobody else can count them.
VerifierInv ==
    /\ \A o \in Recipient :
          sigs[o] # None =>
              /\ sigs[o].message.nonce <= nonce
              /\ \A x \in KnownMeta :
                    x.nonce = sigs[o].message.nonce => x.verifier = sigs[o].to
    /\ \A p \in Person :
          pc[p] \in CommitStep /\ GatedCall(local[p]) => local[p].meta.verifier = Identity[p]

\* The hash a gated call compares, or has compared.
Compared(p) ==
    \/ pc[p] = "check" \/ pc[p] = "collect"
    \/ pc[p] = "apply" /\ GatedCall(local[p])

\* It is not newer than the namespace, and newer than what the caller ever spent on it.
SpentInv ==
    /\ \A g \in Gated : g.ns \in Namespace /\ g.meta.sha < Sha(g.ns)
    /\ \A p \in Person :
          Compared(p) =>
              /\ local[p].sha <= Sha(TheCall(p).ns)
              /\ \A g \in Gated :
                    g.ns = TheCall(p).ns /\ g.meta.verifier = Identity[p]
                      => g.meta.sha < local[p].sha
              /\ pc[p] # "check" => local[p].meta.sha = local[p].sha

SpendInv == AddersInv /\ NonceInv /\ VerifierInv /\ SpentInv /\ SpentOnce

-----------------------------------------------------------------------------
(* One maintainer *)

OneMaintainer == \A p, q \in Maintainer : p = q

\* While challenges are written there is no meta.json, and they are its.
AnnounceInv ==
    /\ \A p \in Person : pc[p] \in {"prepare", "challenge"} => meta = None
    /\ \A p \in Person :
          pc[p] = "challenge" =>
              \A o \in local[p].meta.operators \ local[p].todo :
                  challenges[o] \in {None, MessageOf(local[p].meta)}

SerialInv == AddersInv /\ AnnounceInv /\ ChallengesMatchMeta
=============================================================================
