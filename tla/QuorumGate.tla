---------------------------- MODULE QuorumGate ----------------------------
(***************************************************************************)
(* The quorum gate over recipient additions (K-36): internal/quorum and    *)
(* the gate in internal/store.  A maintainer runs `recipient add`, which   *)
(* writes one challenge per operator and meta.json; operators run          *)
(* `recipient sign-add`; the maintainer runs `recipient add` again.        *)
(*                                                                         *)
(* The gate takes no lock: a call reads and writes the pending directory   *)
(* file by file, and between any two of those steps the others move.  The  *)
(* store beneath it is AtomicStore, which Store is shown to implement; a   *)
(* bundle's SHA-256 changes with every commit, as its version does, and is *)
(* represented by that version.                                            *)
(***************************************************************************)
EXTENDS Naturals, FiniteSets

CONSTANTS Namespace, Key, Recipient, Calls, MaxCalls, Existing,
          Person,       \* who runs commands
          Maintainer,   \* those among them who run `recipient add`
          Identity,     \* person -> the recipient of the identity they hold
          Adds,         \* the additions asked for
          Policies,     \* what recipients.signed.toml is edited to, by hand
          FirstPolicy,  \* what it holds at first
          Stops,        \* whether a command may fail or die where it stands
          MaxPrepares,  \* bound on the challenge sets
          MaxVersion,   \* bound on the versions of a namespace
          None

-----------------------------------------------------------------------------
(* Data *)

\* [ns, who, how]: `recipient add`, the same with --bootstrap, and the web
\* UI's AddRecipient, which does not look at the policy.
AddCall == [ns: Namespace, who: Recipient, how: {"add", "bootstrap", "web"}]

\* `recipient sign-add`, and any call that is in progress.
SignCall       == [ns: Namespace, who: Recipient, how: {"sign"}]
CallInProgress == AddCall \union SignCall

\* The canonical message, meta.json and a signature file.
MessageType == [ns: Namespace, who: Recipient, sha: Nat, nonce: Nat]
MetaType ==
    [ns: Namespace, who: Recipient, sha: Nat, nonce: Nat, verifier: Recipient,
     operators: SUBSET Recipient, m: Nat]
SigType == [message: MessageType, to: Recipient]

ASSUME PeopleAssumption ==
    /\ IsFiniteSet(Recipient)
    /\ Maintainer \subseteq Person
    /\ Identity \in [Person -> Recipient]
ASSUME AddsAssumption == Adds \subseteq AddCall
\* Whatever number a hand-edited policy asks for.
ASSUME PolicyAssumption ==
    \A q \in (Policies \union {FirstPolicy}) \ {None} : q.operators \subseteq Recipient
\* The namespaces are those the manifest lists.
ASSUME ExistingAssumption ==
    /\ Existing = [ns \in Namespace |-> Existing[ns]]
    /\ \A ns \in Namespace : Existing[ns].version \in Nat /\ Existing[ns].recipients # {}
ASSUME NoneAssumption ==
    None \notin CallInProgress \union MessageType \union MetaType \union SigType

-----------------------------------------------------------------------------
VARIABLES
    entry,        \* AtomicStore's state
    policy,       \* recipients.signed.toml
    pending,      \* whether .pending-recipient-adds exists
    meta,         \* its meta.json
    challenges,   \* operator -> the message in their .challenge file
    sigs,         \* operator -> the message in their .sig file, and its reader
    audit,        \* the recipient_add events
    pc, local,    \* what each person's command does next, and its locals
    nonce,        \* the last nonce drawn
    \* Observations, read by properties only.
    grants,       \* the additions that took place
    signed        \* <<operator, message>> for every signature ever written

\* The (app, env) bundles, and every other command that rewrites them.
Env == INSTANCE AtomicStore

dir  == <<pending, meta, challenges, sigs>>
vars == <<entry, policy, dir, audit, pc, local, nonce, grants, signed>>

\* Mutant: quorum_m is not compared with the number of operators.
NonEmptyPolicy(q) == q.m >= 1 /\ q.operators # {}

\* validatePolicy.
ValidPolicy(q) == q.m \in 1..Cardinality(q.operators)

\* CanonicalMessage; no two prepares draw the same nonce.
Message(ns, who, sha, n) == [ns |-> ns, who |-> who, sha |-> sha, nonce |-> n]
MessageOf(m) == Message(m.ns, m.who, m.sha, m.nonce)

\* Version 0 is that of an entry older than versions and hashes: it has no hash.
NoSha   == 0
Sha(ns) == entry[ns].version

NoCall == [call |-> None, policy |-> None, meta |-> None, sha |-> 0,
           todo |-> {}, signers |-> {}]

Init ==
    /\ entry = Existing
    /\ policy = FirstPolicy
    /\ pending = FALSE
    /\ meta = None
    /\ challenges = [r \in Recipient |-> None]
    /\ sigs = [r \in Recipient |-> None]
    /\ audit = {}
    /\ pc = [p \in Person |-> "idle"]
    /\ local = [p \in Person |-> NoCall]
    /\ nonce = 0
    /\ grants = {}
    /\ signed = {}

-----------------------------------------------------------------------------
(* Control *)

Goto(p, step) == pc' = [pc EXCEPT ![p] = step]

Return(p) ==
    /\ Goto(p, "idle")
    /\ local' = [local EXCEPT ![p] = NoCall]

\* Keep the loaded record in the locals and go on, or return an error.
OrRefuse(p, ok, step, field, value) ==
    IF ok THEN Goto(p, step) /\ local' = [local EXCEPT ![p][field] = value]
          ELSE Return(p)

TheCall(p) == local[p].call

\* matchesPending and checkSignMatchesMeta.
MatchesPending(m, c) == m.who = c.who /\ m.ns = c.ns

-----------------------------------------------------------------------------
(* recipient add: the way to the gate *)

\* AddRecipientV2: the policy, if any, decides the path.  The bounds limit the
\* calls that begin; one that has begun always runs on.
StartAdd(p, c) ==
    /\ pc[p] = "idle"
    /\ Sha(c.ns) < MaxVersion
    /\ nonce < MaxPrepares \/ meta # None \/ c.how # "add"
    /\ LET q == policy IN
       IF c.how = "web" \/ q = None
       THEN /\ Goto(p, "apply")
            /\ local' = [local EXCEPT ![p] = [NoCall EXCEPT !.call = c]]
       ELSE /\ ValidPolicy(q)
            /\ Goto(p, IF c.how = "bootstrap" THEN "count" ELSE "meta")
            /\ local' = [local EXCEPT ![p] =
                            [NoCall EXCEPT !.call = c, !.policy = q]]
    /\ UNCHANGED <<entry, policy, dir, audit, nonce, grants, signed>>

\* bootstrapAdd: fewer than two recipients, counted before the rewrite.
Count(p) ==
    /\ pc[p] = "count"
    /\ OrRefuse(p, Cardinality(entry[TheCall(p).ns].recipients) < 2, "apply", "todo", {})
    /\ UNCHANGED <<entry, policy, dir, audit, nonce, grants, signed>>

\* quorumAdd: no pending set means prepare, a matching one means verify.
LoadMeta(p) ==
    /\ pc[p] = "meta"
    /\ IF meta = None
       THEN Goto(p, "prepare") /\ UNCHANGED local
       ELSE OrRefuse(p, MatchesPending(meta, TheCall(p)), "verify", "todo", {})
    /\ UNCHANGED <<entry, policy, dir, audit, nonce, grants, signed>>

-----------------------------------------------------------------------------
(* recipient add, first time: prepare *)

\* preparePhase and PrepareAdd up to the first challenge: there must be a hash to
\* sign, and nobody may sign for the recipient they are about to become.
Prepare(p) ==
    /\ pc[p] = "prepare"
    /\ LET c == TheCall(p)
           q == local[p].policy
       IN  IF Sha(c.ns) = NoSha \/ c.who \in q.operators
           THEN Return(p) /\ UNCHANGED <<pending, nonce>>
           ELSE /\ nonce' = nonce + 1
                /\ pending' = TRUE
                /\ Goto(p, "challenge")
                /\ local' = [local EXCEPT
                      ![p].todo = q.operators,
                      ![p].meta = [ns |-> c.ns, who |-> c.who, sha |-> Sha(c.ns),
                                   nonce |-> nonce + 1, verifier |-> Identity[p],
                                   operators |-> q.operators, m |-> q.m]]
    /\ UNCHANGED <<entry, policy, meta, challenges, sigs, audit, grants, signed>>

\* One challenge after the other, in the order of the policy file; writing
\* fails when someone has removed the directory meanwhile.
WriteChallenge(p) ==
    /\ pc[p] = "challenge"
    /\ \E o \in local[p].todo :
          IF pending
          THEN /\ challenges' = [challenges EXCEPT ![o] = MessageOf(local[p].meta)]
               /\ local' = [local EXCEPT ![p].todo = @ \ {o}]
               /\ UNCHANGED pc
          ELSE Return(p) /\ UNCHANGED challenges
    /\ UNCHANGED <<entry, policy, pending, meta, sigs, audit, nonce, grants, signed>>

\* Mutant: meta.json is written before all the challenges are.
SaveMetaEarly(p) ==
    /\ pc[p] = "challenge"
    /\ pending' = TRUE
    /\ meta' = local[p].meta
    /\ Return(p)
    /\ UNCHANGED <<entry, policy, challenges, sigs, audit, nonce, grants, signed>>

\* SaveMeta, which makes the directory again if it has to.
SaveMeta(p) ==
    /\ pc[p] = "challenge"
    /\ local[p].todo = {}
    /\ pending' = TRUE
    /\ meta' = local[p].meta
    /\ Return(p)
    /\ UNCHANGED <<entry, policy, challenges, sigs, audit, nonce, grants, signed>>

-----------------------------------------------------------------------------
(* recipient sign-add *)

\* SignAddRecipient: the operator's identity must be in the policy.
StartSign(p, ns, who) ==
    /\ pc[p] = "idle"
    /\ policy # None /\ ValidPolicy(policy)
    /\ Identity[p] \in policy.operators
    /\ Goto(p, "signMeta")
    /\ local' = [local EXCEPT ![p] = [NoCall EXCEPT !.call =
                    [ns |-> ns, who |-> who, how |-> "sign"]]]
    /\ UNCHANGED <<entry, policy, dir, audit, nonce, grants, signed>>

\* SignAdd: load meta.json; the operator was eligible at prepare time.
LoadMetaToSign(p) ==
    /\ pc[p] = "signMeta"
    /\ OrRefuse(p, meta # None /\ MatchesPending(meta, TheCall(p))
                     /\ Identity[p] \in meta.operators,
                "decryptChallenge", "meta", meta)
    /\ UNCHANGED <<entry, policy, dir, audit, nonce, grants, signed>>

\* The challenge exists, and decrypts to the canonical message of meta.json.
ChallengeMatches(p) == challenges[Identity[p]] = MessageOf(local[p].meta)

DecryptChallenge(p) ==
    /\ pc[p] = "decryptChallenge"
    /\ OrRefuse(p, ChallengeMatches(p), "writeSig", "todo", {})
    /\ UNCHANGED <<entry, policy, dir, audit, nonce, grants, signed>>

\* The decrypted message, re-encrypted to the verifier of the meta.json that was loaded.
WriteSig(p) ==
    LET m == local[p].meta IN
    /\ pc[p] = "writeSig"
    /\ IF pending
       THEN /\ sigs' = [sigs EXCEPT ![Identity[p]] =
                           [message |-> MessageOf(m), to |-> m.verifier]]
            /\ signed' = signed \union {<<Identity[p], MessageOf(m)>>}
       ELSE UNCHANGED <<sigs, signed>>
    /\ Return(p)
    /\ UNCHANGED <<entry, policy, pending, meta, challenges, audit, nonce, grants>>

-----------------------------------------------------------------------------
(* recipient add, second time: verify and commit *)

\* verifyPhase: the entry as Find returns it, under a shared lock that is
\* released at once.
FindToVerify(p) ==
    /\ pc[p] = "verify"
    /\ Goto(p, "check")
    /\ local' = [local EXCEPT ![p].sha = Sha(TheCall(p).ns)]
    /\ UNCHANGED <<entry, policy, dir, audit, nonce, grants, signed>>

\* Mutant: the quorum of the policy is not compared.
MetaMatchesOld(p) ==
    MatchesPending(meta, TheCall(p)) /\ meta.sha = local[p].sha

\* Mutant: the bundle's hash is not compared.
MetaMatchesAnyBundle(p) ==
    MatchesPending(meta, TheCall(p)) /\ meta.m = local[p].policy.m

\* checkMetaMatches: namespace, recipient, bundle hash and quorum_m.  The
\* operators of the policy are not compared with the snapshot.
MetaMatches(p) ==
    /\ MatchesPending(meta, TheCall(p))
    /\ meta.sha = local[p].sha
    /\ meta.m = local[p].policy.m

\* Verify loads meta.json again.
CheckMeta(p) ==
    /\ pc[p] = "check"
    /\ OrRefuse(p, meta # None /\ MetaMatches(p), "collect", "meta", meta)
    /\ UNCHANGED <<entry, policy, dir, audit, nonce, grants, signed>>

\* Mutant: a signature counts whatever it decrypts to.
AnySignature(p) ==
    {o \in local[p].meta.operators : sigs[o] # None /\ sigs[o].to = Identity[p]}

\* collectValidSignatures: of the operators in the snapshot, those whose file
\* the maintainer can decrypt and whose text is the canonical message.
ValidSigners(p) ==
    {o \in local[p].meta.operators :
        sigs[o] = [message |-> MessageOf(local[p].meta), to |-> Identity[p]]}

Collect(p) ==
    /\ pc[p] = "collect"
    /\ OrRefuse(p, Cardinality(ValidSigners(p)) >= local[p].meta.m,
                "apply", "signers", ValidSigners(p))
    /\ UNCHANGED <<entry, policy, dir, audit, nonce, grants, signed>>

\* How the call got past the gate.
Path(p) ==
    IF TheCall(p).how = "web" THEN "web"
    ELSE IF local[p].policy = None THEN "legacy"
    ELSE IF TheCall(p).how = "bootstrap" THEN "bootstrap"
    ELSE "quorum"

\* applyAdd: rewriteEnv on the namespace as it is now, whatever was verified.  Its
\* errors are Stop's.
ApplyAdd(p) ==
    LET c == TheCall(p)
        rewrite == [kind |-> "recipientAdd", ns |-> c.ns, who |-> c.who]
    IN
    /\ pc[p] = "apply"
    /\ Env!Apply(rewrite, 1)
    /\ grants' = grants \union
          {[ns |-> c.ns, who |-> c.who, at |-> Sha(c.ns), how |-> Path(p),
            before |-> entry[c.ns].recipients, policy |-> local[p].policy,
            meta |-> local[p].meta, signers |-> local[p].signers]}
    /\ Goto(p, "record")
    /\ UNCHANGED <<policy, dir, audit, local, nonce, signed>>

\* recordEventWithSigners, whose failure stops nothing; only the gated path has something to clear.
Record(p) ==
    /\ pc[p] = "record"
    /\ \/ audit' = audit \union
             {[ns |-> TheCall(p).ns, who |-> TheCall(p).who,
               signers |-> local[p].signers, bootstrap |-> TheCall(p).how = "bootstrap"]}
       \/ Stops /\ UNCHANGED audit
    /\ IF Path(p) = "quorum" THEN Goto(p, "list") /\ UNCHANGED local
                             ELSE Return(p)
    /\ UNCHANGED <<entry, policy, dir, nonce, grants, signed>>

\* ClearPending is one RemoveAll: it lists the directory, removes what it has
\* listed, file by file, and then the directory, unless that has filled again.
ListPending(p) ==
    /\ pc[p] = "list"
    /\ Goto(p, "remove")
    /\ local' = [local EXCEPT ![p].todo =
          {<<"meta">> : m \in {meta} \ {None}}
             \union {<<"challenge", o>> : o \in {r \in Recipient : challenges[r] # None}}
             \union {<<"sig", o>> : o \in {r \in Recipient : sigs[r] # None}}]
    /\ UNCHANGED <<entry, policy, dir, audit, nonce, grants, signed>>

RemoveFile(p, f) ==
    /\ pc[p] = "remove"
    /\ f \in local[p].todo
    /\ meta' = IF f = <<"meta">> THEN None ELSE meta
    /\ challenges' = [r \in Recipient |-> IF f = <<"challenge", r>> THEN None ELSE challenges[r]]
    /\ sigs' = [r \in Recipient |-> IF f = <<"sig", r>> THEN None ELSE sigs[r]]
    /\ local' = [local EXCEPT ![p].todo = @ \ {f}]
    /\ UNCHANGED <<entry, policy, pending, audit, pc, nonce, grants, signed>>

Empty == meta = None /\ \A r \in Recipient : challenges[r] = None /\ sigs[r] = None

RemoveDir(p) ==
    /\ pc[p] = "remove"
    /\ local[p].todo = {}
    /\ pending' = (pending /\ ~Empty)
    /\ Return(p)
    /\ UNCHANGED <<entry, policy, meta, challenges, sigs, audit, nonce, grants, signed>>

ClearPending(p) ==
    \/ ListPending(p)
    \/ \E f \in local[p].todo : RemoveFile(p, f)
    \/ RemoveDir(p)

-----------------------------------------------------------------------------
(* The environment *)

\* A file cannot be written, age fails, the command is interrupted: it ends
\* where it is.  writePending truncates first, and a truncated file is none.
\* An addition may also be refused in the end because another command has
\* committed since the rewrite loaded the entry (the version conflict of Store).
Stop(p) ==
    /\ Stops \/ pc[p] = "apply"
    /\ pc[p] # "idle"
    /\ Return(p)
    /\ \/ UNCHANGED <<challenges, sigs>>
       \/ /\ pc[p] = "challenge"
          /\ \E o \in local[p].todo : challenges' = [challenges EXCEPT ![o] = None]
          /\ UNCHANGED sigs
       \/ /\ pc[p] = "writeSig"
          /\ sigs' = [sigs EXCEPT ![Identity[p]] = None]
          /\ UNCHANGED challenges
    /\ UNCHANGED <<entry, policy, pending, meta, audit, nonce, grants, signed>>

\* Another command rewrites a namespace (the bound leaves room for an addition), or the policy is edited by hand.
OtherCommand ==
    /\ \E c \in Calls : Sha(c.ns) + 1 < MaxVersion /\ Env!Apply(c, 1)
    /\ UNCHANGED <<policy, dir, audit, pc, local, nonce, grants, signed>>

EditPolicy ==
    /\ policy' \in Policies \ {policy}
    /\ UNCHANGED <<entry, dir, audit, pc, local, nonce, grants, signed>>

\* Nobody runs anything.
Rest == (\A p \in Person : pc[p] = "idle") /\ UNCHANGED vars

-----------------------------------------------------------------------------
Adding(p) ==
    \/ Count(p) \/ LoadMeta(p) \/ Prepare(p) \/ WriteChallenge(p) \/ SaveMeta(p)
    \/ FindToVerify(p) \/ CheckMeta(p) \/ Collect(p)
    \/ ApplyAdd(p) \/ Record(p) \/ ClearPending(p)

Signing(p) == LoadMetaToSign(p) \/ DecryptChallenge(p) \/ WriteSig(p)

RunAdd(p)  == \E c \in Adds : StartAdd(p, c)
RunSign(p) == \E c \in Adds : StartSign(p, c.ns, c.who)

Next ==
    \/ \E p \in Maintainer : RunAdd(p)
    \/ \E p \in Person : RunSign(p) \/ Adding(p) \/ Signing(p) \/ Stop(p)
    \/ OtherCommand
    \/ EditPolicy
    \/ Rest

Spec == Init /\ [][Next]_vars

\* A command that runs keeps running, and people run theirs again and again.
Fairness ==
    /\ \A p \in Person : WF_vars(Adding(p) \/ Signing(p))
    /\ \A p \in Maintainer, c \in Adds : SF_vars(StartAdd(p, c))
    /\ \A p \in Person, c \in Adds : SF_vars(StartSign(p, c.ns, c.who))

FairSpec == Spec /\ Fairness
=============================================================================
