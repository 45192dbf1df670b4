---------------------------- MODULE QuorumProofs ----------------------------
(***************************************************************************)
(* Theorems about QuorumGate: for any number of people, maintainers,       *)
(* operators, namespaces and additions, whatever the policy is edited to,  *)
(* whichever other commands rewrite the namespaces and whatever stops.     *)
(***************************************************************************)
EXTENDS QuorumInvariant, FiniteSetTheorems, TLAPS

USE PeopleAssumption, AddsAssumption, PolicyAssumption, ExistingAssumption,
    NoneAssumption

-----------------------------------------------------------------------------
(* Operators of the model *)

\* A set of operators has a number, and a larger one no fewer.
LEMMA OperatorsAreFinite ==
    ASSUME NEW S \in SUBSET Recipient
    PROVE  /\ IsFiniteSet(S)
           /\ Cardinality(S) \in Nat
           /\ \A T \in SUBSET S : Cardinality(T) <= Cardinality(S)
<1>1. IsFiniteSet(S)
  BY FS_Subset
<1>2. \A T \in SUBSET S : Cardinality(T) <= Cardinality(S)
  BY <1>1, FS_Subset
<1> QED  BY <1>1, <1>2, FS_CardinalityType

LEMMA MessageTypes ==
    ASSUME NEW m \in MetaType
    PROVE  /\ MessageOf(m) \in MessageType
           /\ MessageOf(m).ns = m.ns /\ MessageOf(m).who = m.who
           /\ MessageOf(m).sha = m.sha /\ MessageOf(m).nonce = m.nonce
  BY DEF MetaType, MessageType, MessageOf, Message

LEMMA NoCallType ==
    /\ NoCall \in Local
    /\ WellFormed("idle", NoCall)
  BY DEF NoCall, Local, WellFormed, PolicyStep, CommitStep, GatedCall

\* A call that begins: its locals are blank but for the call and the policy.
LEMMA BegunType ==
    ASSUME NEW c \in CallInProgress, NEW q \in Policies \union {FirstPolicy, None}
    PROVE  /\ [NoCall EXCEPT !.call = c, !.policy = q] \in Local
           /\ [NoCall EXCEPT !.call = c] \in Local
  BY DEF NoCall, Local

LEMMA CallKinds ==
    /\ AddCall \subseteq CallInProgress
    /\ None \notin CallInProgress
    /\ \A c \in CallInProgress :
          c.ns \in Namespace /\ c.who \in Recipient
    /\ \A ns \in Namespace, who \in Recipient :
          [ns |-> ns, who |-> who, how |-> "sign"] \in CallInProgress
  BY DEF CallInProgress, AddCall, SignCall

\* What is known of the locals of a person.
LEMMA Locals ==
    ASSUME ControlInv, NEW p \in Person
    PROVE  /\ pc[p] \in Step
           /\ local[p] \in Local
           /\ WellFormed(pc[p], local[p])
           /\ pc[p] # "idle" => local[p].call \in CallInProgress
  BY DEF ControlInv, WellFormed, Local

-----------------------------------------------------------------------------
(* Types and control *)

LEMMA InitType == Init => TypeInv
<1> SUFFICES ASSUME Init PROVE TypeInv
  OBVIOUS
<1>1. StateType
  BY DEF Init, StateType
<1>2. ControlInv
  BY NoCallType DEF Init, ControlInv, Step
<1> QED  BY <1>1, <1>2 DEF TypeInv

\* A step that takes p to a place for which its new locals are good.
LEMMA ControlStep ==
    ASSUME ControlInv, NEW p \in Person, NEW step \in Step, NEW new \in Local,
           pc' = [pc EXCEPT ![p] = step],
           local' = [local EXCEPT ![p] = new],
           WellFormed(step, new)
    PROVE  ControlInv'
<1>1. pc' \in [Person -> Step] /\ local' \in [Person -> Local]
  BY DEF ControlInv
<1>2. ASSUME NEW q \in Person PROVE WellFormed(pc'[q], local'[q])
  <2>1. CASE q = p
    BY <2>1 DEF ControlInv
  <2>2. CASE q # p
    <3>1. pc'[q] = pc[q] /\ local'[q] = local[q]
      BY <2>2 DEF ControlInv
    <3>2. QED  BY <3>1 DEF ControlInv
  <2>3. QED  BY <2>1, <2>2
<1>3. QED  BY <1>1, <1>2 DEF ControlInv

\* One that keeps the locals as they are, and one that keeps the place.
LEMMA GotoStep ==
    ASSUME ControlInv, NEW p \in Person, NEW step \in Step,
           Goto(p, step), UNCHANGED local, WellFormed(step, local[p])
    PROVE  ControlInv'
<1>1. local' = [local EXCEPT ![p] = local[p]] /\ local[p] \in Local
  BY DEF ControlInv
<1>2. QED  BY <1>1, ControlStep DEF Goto

LEMMA ReturnStep ==
    ASSUME ControlInv, NEW p \in Person, Return(p)
    PROVE  ControlInv'
  BY NoCallType, ControlStep DEF Return, Goto, Step

\* The environment moves nobody.
LEMMA ControlSame == ControlInv /\ UNCHANGED <<pc, local>> => ControlInv'
  BY DEF ControlInv

LEMMA StateSame ==
    StateType /\ UNCHANGED <<entry, policy, dir, nonce, signed>> => StateType'
  BY DEF StateType, dir

\* What a step that may be refused does to the control.
LEMMA OrRefuseStep ==
    ASSUME ControlInv, NEW p \in Person, NEW ok \in BOOLEAN, NEW step \in Step,
           NEW new \in Local, ok => WellFormed(step, new),
           IF ok THEN Goto(p, step) /\ local' = [local EXCEPT ![p] = new]
                 ELSE Return(p)
    PROVE  ControlInv'
<1>1. CASE ok
  BY <1>1, ControlStep DEF Goto
<1>2. CASE ~ok
  BY <1>2, ReturnStep
<1> QED  BY <1>1, <1>2

LEMMA StartAddType ==
    ASSUME TypeInv, NEW p \in Person, NEW c \in Adds, StartAdd(p, c)
    PROVE  TypeInv'
<1> USE DEF TypeInv
<1>1. c \in CallInProgress /\ c \in AddCall
  BY CallKinds
<1>2. policy \in Policies \union {FirstPolicy, None}
  BY DEF StateType
<1>3. StateType'
  BY StateSame DEF StartAdd
<1>4. CASE c.how = "web" \/ policy = None
  <2> DEFINE new == [NoCall EXCEPT !.call = c]
  <2>1. new \in Local /\ new.call = c /\ new.policy = None /\ new.signers = {}
    BY <1>1, <1>2, BegunType DEF NoCall
  <2>2. WellFormed("apply", new)
    BY <2>1, <1>1, CallKinds DEF WellFormed, GatedCall, PolicyStep, CommitStep
  <2>3. QED  BY <2>1, <2>2, <1>3, <1>4, ControlStep DEF StartAdd, Goto, Step, AddStep, CommitStep
<1>5. CASE ~(c.how = "web" \/ policy = None)
  <2> DEFINE new  == [NoCall EXCEPT !.call = c, !.policy = policy]
             step == IF c.how = "bootstrap" THEN "count" ELSE "meta"
  <2>1. new \in Local /\ new.call = c /\ new.policy = policy /\ new.signers = {}
    BY <1>1, <1>2, BegunType DEF NoCall
  <2>2. policy # None /\ policy.m \in 1..Cardinality(policy.operators)
    BY <1>5 DEF StartAdd, ValidPolicy
  <2>3. WellFormed(step, new)
    BY <2>1, <2>2, <1>1, <1>5, CallKinds DEF WellFormed, PolicyStep, CommitStep, AddCall
  <2>4. step \in Step
    BY DEF Step, AddStep, PolicyStep
  <2>5. pc' = [pc EXCEPT ![p] = step] /\ local' = [local EXCEPT ![p] = new]
    BY <1>5 DEF StartAdd, Goto
  <2> HIDE DEF new, step
  <2>6. QED  BY <2>1, <2>3, <2>4, <2>5, <1>3, ControlStep
<1> QED  BY <1>4, <1>5

LEMMA StartSignType ==
    ASSUME TypeInv, NEW p \in Person, NEW c \in Adds, StartSign(p, c.ns, c.who)
    PROVE  TypeInv'
<1> USE DEF TypeInv
<1> DEFINE call == [ns |-> c.ns, who |-> c.who, how |-> "sign"]
           new  == [NoCall EXCEPT !.call = call]
<1>1. call \in CallInProgress
  BY CallKinds
<1> HIDE DEF call
<1>2. new \in Local /\ new.call = call /\ new.policy = None
  BY <1>1, BegunType DEF NoCall
<1>3. WellFormed("signMeta", new)
  BY <1>1, <1>2, CallKinds DEF WellFormed, PolicyStep, CommitStep
<1>4. StateType'
  BY StateSame DEF StartSign
<1>5. QED
  BY <1>2, <1>3, <1>4, ControlStep DEF StartSign, Goto, Step, SignStep, call

LEMMA CountType ==
    ASSUME TypeInv, NEW p \in Person, Count(p)
    PROVE  TypeInv'
<1> USE DEF TypeInv
<1> DEFINE new == [local[p] EXCEPT !.todo = {}]
           ok  == Cardinality(entry[TheCall(p).ns].recipients) < 2
<1>1. new \in Local
  BY Locals DEF Local
<1>2. WellFormed("apply", new)
  <2>1. /\ pc[p] = "count" /\ WellFormed("count", local[p])
        /\ new.call = local[p].call /\ new.policy = local[p].policy
        /\ new.signers = local[p].signers
    BY Locals DEF Count, Local
  <2> HIDE DEF new
  <2> QED
    BY <2>1 DEF WellFormed, GatedCall, PolicyStep, CommitStep
<1>3. StateType'
  BY StateSame DEF Count
<1> QED
  BY <1>1, <1>2, <1>3, OrRefuseStep DEF Count, OrRefuse, Step, AddStep, CommitStep

\* Keeping one value in the locals leaves the rest of them alone.
LEMMA KeepTodo ==
    ASSUME NEW l \in Local, NEW T \in SUBSET (Recipient \union FileName)
    PROVE  LET new == [l EXCEPT !.todo = T] IN
           /\ new \in Local /\ new.todo = T
           /\ new.call = l.call /\ new.policy = l.policy /\ new.meta = l.meta
           /\ new.sha = l.sha /\ new.signers = l.signers
  BY DEF Local

LEMMA KeepMeta ==
    ASSUME NEW l \in Local, NEW m \in MetaType
    PROVE  LET new == [l EXCEPT !.meta = m] IN
           /\ new \in Local /\ new.meta = m
           /\ new.call = l.call /\ new.policy = l.policy /\ new.todo = l.todo
           /\ new.sha = l.sha /\ new.signers = l.signers
  BY DEF Local

LEMMA KeepSha ==
    ASSUME NEW l \in Local, NEW n \in Nat
    PROVE  LET new == [l EXCEPT !.sha = n] IN
           /\ new \in Local /\ new.sha = n
           /\ new.call = l.call /\ new.policy = l.policy /\ new.todo = l.todo
           /\ new.meta = l.meta /\ new.signers = l.signers
  BY DEF Local

LEMMA KeepSigners ==
    ASSUME NEW l \in Local, NEW S \in SUBSET Recipient
    PROVE  LET new == [l EXCEPT !.signers = S] IN
           /\ new \in Local /\ new.signers = S
           /\ new.call = l.call /\ new.policy = l.policy /\ new.todo = l.todo
           /\ new.meta = l.meta /\ new.sha = l.sha
  BY DEF Local

LEMMA LoadMetaType ==
    ASSUME TypeInv, NEW p \in Person, LoadMeta(p)
    PROVE  TypeInv'
<1> USE DEF TypeInv
<1>1. /\ local[p] \in Local
      /\ WellFormed("meta", local[p])
  BY Locals DEF LoadMeta
<1>2. StateType'
  BY StateSame DEF LoadMeta
<1>3. CASE meta = None
  <2>1. WellFormed("prepare", local[p])
    BY <1>1 DEF WellFormed, PolicyStep, CommitStep
  <2> QED  BY <2>1, <1>2, <1>3, GotoStep DEF LoadMeta, Step, AddStep, PolicyStep
<1>4. CASE meta # None
  <2> DEFINE new == [local[p] EXCEPT !.todo = {}]
  <2>1. /\ new \in Local /\ new.call = local[p].call
        /\ new.policy = local[p].policy
    BY <1>1, KeepTodo
  <2> HIDE DEF new
  <2>2. WellFormed("verify", new)
    BY <1>1, <2>1 DEF WellFormed, PolicyStep, CommitStep
  <2>3. IF MatchesPending(meta, TheCall(p))
        THEN Goto(p, "verify") /\ local' = [local EXCEPT ![p] = new]
        ELSE Return(p)
    BY <1>4 DEF LoadMeta, OrRefuse, new
  <2>4. MatchesPending(meta, TheCall(p)) \in BOOLEAN
    BY DEF MatchesPending
  <2> QED  BY <2>1, <2>2, <2>3, <2>4, <1>2, OrRefuseStep DEF Step, AddStep, PolicyStep
<1> QED  BY <1>3, <1>4

\* The set of challenges that a command prepares.
LEMMA PreparedType ==
    ASSUME TypeInv, NEW p \in Person, pc[p] = "prepare"
    PROVE  /\ local[p].policy.operators \subseteq Recipient
           /\ [ns |-> TheCall(p).ns, who |-> TheCall(p).who, sha |-> Sha(TheCall(p).ns),
               nonce |-> nonce + 1, verifier |-> Identity[p],
               operators |-> local[p].policy.operators,
               m |-> local[p].policy.m] \in MetaType
<1>1. /\ local[p] \in Local
      /\ WellFormed("prepare", local[p])
      /\ TheCall(p) \in CallInProgress
  BY Locals DEF TypeInv, TheCall
<1>2. local[p].policy # None
  BY <1>1 DEF WellFormed, PolicyStep
<1>3. local[p].policy.operators \in SUBSET Recipient
  BY <1>1, <1>2 DEF Local
<1>4. local[p].policy.m \in Nat
  BY <1>1, <1>2 DEF WellFormed
<1>5. Sha(TheCall(p).ns) \in Nat /\ nonce + 1 \in Nat
  BY <1>1, CallKinds DEF TypeInv, StateType, Sha
<1> QED  BY <1>1, <1>3, <1>4, <1>5, CallKinds DEF MetaType

LEMMA PrepareType ==
    ASSUME TypeInv, NEW p \in Person, Prepare(p)
    PROVE  TypeInv'
<1> USE DEF TypeInv
<1> DEFINE q == local[p].policy
           m == [ns |-> TheCall(p).ns, who |-> TheCall(p).who, sha |-> Sha(TheCall(p).ns),
                 nonce |-> nonce + 1, verifier |-> Identity[p],
                 operators |-> q.operators, m |-> q.m]
<1>1. /\ pc[p] = "prepare"
      /\ local[p] \in Local
      /\ WellFormed("prepare", local[p])
  BY Locals DEF Prepare
<1>2. StateType'
  <2>1. nonce' \in {nonce, nonce + 1} /\ pending' \in {pending, TRUE}
    BY DEF Prepare
  <2>2. UNCHANGED <<entry, policy, meta, challenges, sigs, signed>>
    BY DEF Prepare
  <2>3. nonce' \in Nat
    BY <2>1 DEF StateType
  <2>4. pending' \in BOOLEAN
    BY <2>1, Zenon DEF StateType
  <2> QED  BY <2>2, <2>3, <2>4 DEF StateType
<1>3. CASE Sha(TheCall(p).ns) = NoSha \/ TheCall(p).who \in q.operators
  BY <1>2, <1>3, ReturnStep DEF Prepare
<1>4. CASE ~(Sha(TheCall(p).ns) = NoSha \/ TheCall(p).who \in q.operators)
  <2>1. q.operators \subseteq Recipient /\ m \in MetaType
    BY <1>1, PreparedType
  <2> DEFINE new == [local[p] EXCEPT !.todo = q.operators, !.meta = m]
  <2>2. Goto(p, "challenge") /\ local' = [local EXCEPT ![p] = new]
    BY <1>4 DEF Prepare
  <2> HIDE DEF m
  <2>3. /\ new \in Local /\ new.call = local[p].call
        /\ new.policy = local[p].policy
        /\ new.meta = m /\ new.todo = q.operators
    BY <1>1, <2>1 DEF Local
  <2> HIDE DEF new
  <2>4. WellFormed("challenge", new)
    BY <1>1, <2>1, <2>3 DEF WellFormed, PolicyStep, CommitStep
  <2> QED  BY <2>2, <2>3, <2>4, <1>2, ControlStep DEF Goto, Step, AddStep, PolicyStep
<1> QED  BY <1>3, <1>4

LEMMA WriteChallengeType ==
    ASSUME TypeInv, NEW p \in Person, WriteChallenge(p)
    PROVE  TypeInv'
<1> USE DEF TypeInv
<1>1. /\ pc[p] = "challenge"
      /\ local[p] \in Local
      /\ WellFormed("challenge", local[p])
  BY Locals DEF WriteChallenge
<1>2. local[p].todo \in SUBSET Recipient /\ local[p].meta \in MetaType
  BY <1>1 DEF WellFormed, Local
<1>3. PICK o \in local[p].todo :
          IF pending
          THEN /\ challenges' = [challenges EXCEPT ![o] = MessageOf(local[p].meta)]
               /\ local' = [local EXCEPT ![p].todo = @ \ {o}]
               /\ UNCHANGED pc
          ELSE Return(p) /\ UNCHANGED challenges
  BY DEF WriteChallenge
<1>4. UNCHANGED <<entry, policy, pending, meta, sigs, nonce, signed>>
  BY DEF WriteChallenge
<1>5. CASE pending
  <2>1. MessageOf(local[p].meta) \in MessageType
    BY <1>2, MessageTypes
  <2>2. challenges' = [challenges EXCEPT ![o] = MessageOf(local[p].meta)]
    BY <1>3, <1>5
  <2>3. challenges' \in [Recipient -> MessageType \union {None}]
    BY <2>1, <2>2, <1>2 DEF StateType
  <2>4. StateType'
    BY <2>3, <1>4 DEF StateType
  <2> DEFINE T == local[p].todo \ {o}
             new == [local[p] EXCEPT !.todo = T]
  <2>5. /\ new \in Local /\ new.call = local[p].call
        /\ new.policy = local[p].policy
        /\ new.meta = local[p].meta /\ new.todo \subseteq Recipient
    <3>1. local[p] \in Local /\ T \in SUBSET (Recipient \union FileName) /\ T \subseteq Recipient
      BY <1>1, <1>2
    <3> HIDE DEF T
    <3> QED  BY ONLY <3>1, KeepTodo
  <2>6. local' = [local EXCEPT ![p] = new] /\ UNCHANGED pc
    BY <1>3, <1>5
  <2> HIDE DEF new
  <2>7. WellFormed("challenge", new)
    BY <1>1, <2>5 DEF WellFormed, PolicyStep, CommitStep
  <2>8. pc' = [pc EXCEPT ![p] = "challenge"]
    BY <2>6, <1>1 DEF ControlInv
  <2> QED  BY <2>4, <2>5, <2>6, <2>7, <2>8, ControlStep DEF Step, AddStep, PolicyStep
<1>6. CASE ~pending
  <2>1. StateType'
    BY <1>3, <1>4, <1>6 DEF StateType
  <2> QED  BY <2>1, <1>3, <1>6, ReturnStep
<1> QED  BY <1>5, <1>6

LEMMA SaveMetaType ==
    ASSUME TypeInv, NEW p \in Person, SaveMeta(p)
    PROVE  TypeInv'
<1> USE DEF TypeInv
<1>1. local[p].meta \in MetaType
  BY Locals DEF SaveMeta, WellFormed, Local
<1>2. /\ meta' = local[p].meta /\ pending' = TRUE
      /\ UNCHANGED <<entry, policy, challenges, sigs, nonce, signed>>
  BY DEF SaveMeta
<1>3. StateType'
  BY <1>1, <1>2 DEF StateType
<1> QED  BY <1>3, ReturnStep DEF SaveMeta

LEMMA LoadMetaToSignType ==
    ASSUME TypeInv, NEW p \in Person, LoadMetaToSign(p)
    PROVE  TypeInv'
<1> USE DEF TypeInv
<1> DEFINE ok  == meta # None /\ MatchesPending(meta, TheCall(p))
                    /\ Identity[p] \in meta.operators
           new == [local[p] EXCEPT !.meta = meta]
<1>1. /\ local[p] \in Local
      /\ WellFormed("signMeta", local[p])
  BY Locals DEF LoadMetaToSign
<1>2. StateType'
  BY StateSame DEF LoadMetaToSign
<1>3. IF ok THEN Goto(p, "decryptChallenge") /\ local' = [local EXCEPT ![p] = new]
            ELSE Return(p)
  BY DEF LoadMetaToSign, OrRefuse
<1>4. ok \in BOOLEAN /\ (ok => meta \in MetaType)
  BY DEF StateType
<1> HIDE DEF ok
<1>5. CASE ok
  <2>1. /\ new \in Local /\ new.call = local[p].call /\ new.meta # None
        /\ new.policy = local[p].policy
    BY <1>1, <1>4, <1>5, KeepMeta
  <2> HIDE DEF new
  <2>2. WellFormed("decryptChallenge", new)
    BY <1>1, <2>1 DEF WellFormed, PolicyStep, CommitStep
  <2> QED  BY <1>2, <1>3, <1>5, <2>1, <2>2, ControlStep DEF Goto, Step, SignStep
<1>6. CASE ~ok
  BY <1>2, <1>3, <1>6, ReturnStep
<1> QED  BY <1>4, <1>5, <1>6

LEMMA DecryptChallengeType ==
    ASSUME TypeInv, NEW p \in Person, DecryptChallenge(p)
    PROVE  TypeInv'
<1> USE DEF TypeInv
<1> DEFINE new == [local[p] EXCEPT !.todo = {}]
<1>1. /\ local[p] \in Local
      /\ WellFormed("decryptChallenge", local[p])
  BY Locals DEF DecryptChallenge
<1>2. StateType'
  BY StateSame DEF DecryptChallenge
<1>3. IF ChallengeMatches(p)
      THEN Goto(p, "writeSig") /\ local' = [local EXCEPT ![p] = new]
      ELSE Return(p)
  BY DEF DecryptChallenge, OrRefuse
<1>4. ChallengeMatches(p) \in BOOLEAN
  BY DEF ChallengeMatches
<1>5. /\ new \in Local /\ new.call = local[p].call
      /\ new.policy = local[p].policy /\ new.meta = local[p].meta
  BY <1>1, KeepTodo
<1> HIDE DEF new
<1>6. WellFormed("writeSig", new)
  BY <1>1, <1>5 DEF WellFormed, PolicyStep, CommitStep
<1> QED  BY <1>2, <1>3, <1>4, <1>5, <1>6, OrRefuseStep DEF Step, SignStep

LEMMA WriteSigType ==
    ASSUME TypeInv, NEW p \in Person, WriteSig(p)
    PROVE  TypeInv'
<1> USE DEF TypeInv
<1> DEFINE m == local[p].meta
           sig == [message |-> MessageOf(m), to |-> m.verifier]
<1>1. m \in MetaType
  BY Locals DEF WriteSig, WellFormed, Local
<1>2. /\ MessageOf(m) \in MessageType /\ sig \in SigType
      /\ Identity[p] \in Recipient
  BY <1>1, MessageTypes DEF MetaType, SigType
<1>3. UNCHANGED <<entry, policy, pending, meta, challenges, nonce>>
  BY DEF WriteSig
<1>4. CASE pending
  <2>1. /\ sigs' = [sigs EXCEPT ![Identity[p]] = sig]
        /\ signed' = signed \union {<<Identity[p], MessageOf(m)>>}
    BY <1>4 DEF WriteSig
  <2> HIDE DEF sig
  <2>2. sigs' \in [Recipient -> SigType \union {None}]
    BY <2>1, <1>2 DEF StateType
  <2>3. signed' \subseteq Recipient \X MessageType
    BY <2>1, <1>2 DEF StateType
  <2>4. StateType'
    BY <2>2, <2>3, <1>3 DEF StateType
  <2> QED  BY <2>4, ReturnStep DEF WriteSig
<1>5. CASE ~pending
  <2>1. UNCHANGED <<sigs, signed>>
    BY <1>5 DEF WriteSig
  <2>2. StateType'
    BY <2>1, <1>3 DEF StateType
  <2> QED  BY <2>2, ReturnStep DEF WriteSig
<1> QED  BY <1>4, <1>5

LEMMA FindToVerifyType ==
    ASSUME TypeInv, NEW p \in Person, FindToVerify(p)
    PROVE  TypeInv'
<1> USE DEF TypeInv
<1> DEFINE n   == Sha(TheCall(p).ns)
           new == [local[p] EXCEPT !.sha = n]
<1>1. /\ local[p] \in Local
      /\ WellFormed("verify", local[p])
      /\ TheCall(p).ns \in Namespace
  BY Locals, CallKinds DEF FindToVerify, TheCall
<1>2. StateType'
  BY StateSame DEF FindToVerify
<1>3. n \in Nat
  BY <1>1 DEF StateType, Sha
<1>4. Goto(p, "check") /\ local' = [local EXCEPT ![p] = new]
  BY DEF FindToVerify
<1> HIDE DEF n
<1>5. /\ new \in Local /\ new.call = local[p].call
      /\ new.policy = local[p].policy
  BY <1>1, <1>3, KeepSha
<1> HIDE DEF new
<1>6. WellFormed("check", new)
  BY <1>1, <1>5 DEF WellFormed, PolicyStep, CommitStep
<1> QED  BY <1>2, <1>4, <1>5, <1>6, ControlStep DEF Goto, Step, AddStep, PolicyStep

LEMMA CheckMetaType ==
    ASSUME TypeInv, NEW p \in Person, CheckMeta(p)
    PROVE  TypeInv'
<1> USE DEF TypeInv
<1> DEFINE ok  == meta # None /\ MetaMatches(p)
           new == [local[p] EXCEPT !.meta = meta]
<1>1. /\ local[p] \in Local
      /\ WellFormed("check", local[p])
  BY Locals DEF CheckMeta
<1>2. StateType'
  BY StateSame DEF CheckMeta
<1>3. IF ok THEN Goto(p, "collect") /\ local' = [local EXCEPT ![p] = new]
            ELSE Return(p)
  BY DEF CheckMeta, OrRefuse
<1>4. CASE ok
  <2>1. meta \in MetaType /\ meta # None
    BY <1>4 DEF StateType
  <2>2. /\ new \in Local /\ new.call = local[p].call
        /\ new.policy = local[p].policy /\ new.meta = meta
    BY <1>1, <2>1, KeepMeta
  <2>3. /\ meta.who = local[p].call.who /\ meta.ns = local[p].call.ns
        /\ meta.m = local[p].policy.m
    BY <1>4 DEF MetaMatches, MatchesPending, TheCall
  <2> HIDE DEF new
  <2>4. WellFormed("collect", new)
    BY <1>1, <2>1, <2>2, <2>3 DEF WellFormed, PolicyStep, CommitStep, Checked
  <2> QED  BY <1>2, <1>3, <1>4, <2>2, <2>4, ControlStep DEF Goto, Step, AddStep, PolicyStep
<1>5. CASE ~ok
  BY <1>2, <1>3, <1>5, ReturnStep
<1> QED  BY <1>4, <1>5

LEMMA CollectType ==
    ASSUME TypeInv, NEW p \in Person, Collect(p)
    PROVE  TypeInv'
<1> USE DEF TypeInv
<1> DEFINE S   == ValidSigners(p)
           ok  == Cardinality(S) >= local[p].meta.m
           new == [local[p] EXCEPT !.signers = S]
<1>1. /\ local[p] \in Local
      /\ WellFormed("collect", local[p])
      /\ Checked(local[p])
  BY Locals DEF Collect, WellFormed
<1>2. StateType'
  BY StateSame DEF Collect
<1>3. IF ok THEN Goto(p, "apply") /\ local' = [local EXCEPT ![p] = new]
            ELSE Return(p)
  BY DEF Collect, OrRefuse
<1>4. local[p].meta \in MetaType
  BY <1>1 DEF Local, Checked
<1>5. S \subseteq local[p].meta.operators /\ local[p].meta.operators \subseteq Recipient
  BY <1>4 DEF ValidSigners, MetaType
<1> HIDE DEF S
<1>6. /\ new \in Local /\ new.call = local[p].call
      /\ new.policy = local[p].policy /\ new.meta = local[p].meta
      /\ new.signers = S
  BY <1>1, <1>5, KeepSigners
<1>7. CASE ok
  <2>1. Cardinality(S) >= local[p].policy.m
    BY <1>7, <1>1 DEF Checked
  <2> HIDE DEF new
  <2>2. WellFormed("apply", new)
    <3>1. GatedCall(new) /\ Checked(new)
      BY <1>1, <1>6 DEF WellFormed, GatedCall, Checked, PolicyStep
    <3>2. new.signers \subseteq new.meta.operators /\ Cardinality(new.signers) >= new.policy.m
      BY <1>5, <1>6, <2>1
    <3> QED  BY <1>1, <1>6, <3>1, <3>2 DEF WellFormed, PolicyStep, CommitStep
  <2> QED  BY <1>2, <1>3, <1>6, <1>7, <2>2, ControlStep DEF Goto, Step, AddStep, CommitStep
<1>8. CASE ~ok
  BY <1>2, <1>3, <1>8, ReturnStep
<1> QED  BY <1>7, <1>8

\* What a commit to a namespace does to it.
LEMMA ApplyEffect ==
    ASSUME StateType, NEW c, NEW v, Env!Apply(c, v)
    PROVE  /\ entry' = [ns \in Namespace |-> entry'[ns]]
           /\ \A ns \in Namespace :
                 /\ entry'[ns].version \in {Sha(ns), Sha(ns) + 1}
                 /\ entry'[ns].version \in Nat
                 /\ entry'[ns].recipients # {}
           /\ c.ns \in Namespace => entry'[c.ns].version = Sha(c.ns) + 1
<1> DEFINE content == Env!Edited(c, Env!ContentOf(c.ns), v)
<1>1. entry' = [entry EXCEPT ![c.ns] =
                   [version    |-> entry[c.ns].version + 1,
                    recipients |-> content.recipients,
                    values     |-> content.values,
                    origins    |-> content.origins]]
  BY DEF Env!Apply, Env!Commit
<1>2. content.recipients = Env!EditedRecipients(c, Env!ContentOf(c.ns))
  BY DEF Env!Edited
<1>3. /\ entry[c.ns].recipients # {}
      /\ Env!EditAllowed(c, Env!ContentOf(c.ns))
      /\ Env!ContentOf(c.ns).recipients = entry[c.ns].recipients
  BY DEF Env!Apply, Env!Initialised, Env!ContentOf
<1>4. Env!EditedRecipients(c, Env!ContentOf(c.ns)) # {}
  BY <1>3 DEF Env!EditedRecipients, Env!EditAllowed, Env!DropKind
<1> HIDE DEF content
<1>5. entry = [ns \in Namespace |-> entry[ns]]
  BY DEF StateType
<1>6. ASSUME NEW ns \in Namespace
      PROVE  /\ entry'[ns].version \in {Sha(ns), Sha(ns) + 1}
             /\ entry'[ns].version \in Nat
             /\ entry'[ns].recipients # {}
             /\ c.ns = ns => entry'[ns].version = Sha(ns) + 1
  <2>1. CASE ns = c.ns
    BY <1>1, <1>2, <1>4, <1>5, <2>1 DEF StateType, Sha
  <2>2. CASE ns # c.ns
    BY <1>1, <1>5, <2>2 DEF StateType, Sha
  <2> QED  BY <2>1, <2>2
<1>7. entry' = [ns \in Namespace |-> entry'[ns]]
  BY <1>1, <1>5
<1> QED  BY <1>6, <1>7

LEMMA CommittedType ==
    ASSUME StateType, NEW c, NEW v, Env!Apply(c, v),
           UNCHANGED <<policy, dir, nonce, signed>>
    PROVE  StateType'
  BY ApplyEffect DEF StateType, dir

LEMMA ApplyAddType ==
    ASSUME TypeInv, NEW p \in Person, ApplyAdd(p)
    PROVE  TypeInv'
<1> USE DEF TypeInv
<1>1. WellFormed("apply", local[p])
  BY Locals DEF ApplyAdd
<1>2. WellFormed("record", local[p])
  BY <1>1 DEF WellFormed, PolicyStep, CommitStep
<1>3. ControlInv'
  BY <1>2, GotoStep DEF ApplyAdd, Step, AddStep, CommitStep
<1>4. StateType'
  BY CommittedType DEF ApplyAdd
<1> QED  BY <1>3, <1>4

LEMMA RecordType ==
    ASSUME TypeInv, NEW p \in Person, Record(p)
    PROVE  TypeInv'
<1> USE DEF TypeInv
<1>1. WellFormed("record", local[p])
  BY Locals DEF Record
<1>2. WellFormed("list", local[p])
  BY <1>1 DEF WellFormed, PolicyStep, CommitStep
<1>3. StateType'
  BY StateSame DEF Record
<1>4. CASE Path(p) = "quorum"
  BY <1>2, <1>3, <1>4, GotoStep DEF Record, Step, AddStep
<1>5. CASE Path(p) # "quorum"
  BY <1>3, <1>5, ReturnStep DEF Record
<1> QED  BY <1>4, <1>5

LEMMA ListPendingType ==
    ASSUME TypeInv, NEW p \in Person, ListPending(p)
    PROVE  TypeInv'
<1> USE DEF TypeInv
<1> DEFINE T == {<<"meta">> : m \in {meta} \ {None}}
                  \union {<<"challenge", o>> : o \in {r \in Recipient : challenges[r] # None}}
                  \union {<<"sig", o>> : o \in {r \in Recipient : sigs[r] # None}}
           new == [local[p] EXCEPT !.todo = T]
<1>1. /\ local[p] \in Local
      /\ WellFormed("list", local[p])
  BY Locals DEF ListPending
<1>2. StateType'
  BY StateSame DEF ListPending
<1>3. T \in SUBSET (Recipient \union FileName)
  BY DEF FileName
<1>4. Goto(p, "remove") /\ local' = [local EXCEPT ![p] = new]
  BY DEF ListPending
<1> HIDE DEF T
<1>5. /\ new \in Local /\ new.call = local[p].call
      /\ new.policy = local[p].policy
  BY <1>1, <1>3, KeepTodo
<1> HIDE DEF new
<1>6. WellFormed("remove", new)
  BY <1>1, <1>5 DEF WellFormed, PolicyStep, CommitStep
<1> QED  BY <1>2, <1>4, <1>5, <1>6, ControlStep DEF Goto, Step, AddStep

LEMMA RemoveFileType ==
    ASSUME TypeInv, NEW p \in Person, NEW f, RemoveFile(p, f)
    PROVE  TypeInv'
<1> USE DEF TypeInv
<1> DEFINE T   == local[p].todo \ {f}
           new == [local[p] EXCEPT !.todo = T]
<1>1. /\ pc[p] = "remove"
      /\ local[p] \in Local
      /\ WellFormed("remove", local[p])
  BY Locals DEF RemoveFile
<1>2. StateType'
  <2>1. meta' \in MetaType \union {None}
    BY DEF RemoveFile, StateType
  <2>2. challenges' \in [Recipient -> MessageType \union {None}]
    BY DEF RemoveFile, StateType
  <2>3. sigs' \in [Recipient -> SigType \union {None}]
    BY DEF RemoveFile, StateType
  <2>4. UNCHANGED <<entry, policy, pending, nonce, signed>>
    BY DEF RemoveFile
  <2> QED  BY <2>1, <2>2, <2>3, <2>4 DEF StateType
<1>3. T \in SUBSET (Recipient \union FileName)
  BY <1>1 DEF Local
<1>4. UNCHANGED pc /\ local' = [local EXCEPT ![p] = new]
  BY DEF RemoveFile
<1> HIDE DEF T
<1>5. /\ new \in Local /\ new.call = local[p].call
      /\ new.policy = local[p].policy
  BY <1>1, <1>3, KeepTodo
<1> HIDE DEF new
<1>6. WellFormed("remove", new)
  BY <1>1, <1>5 DEF WellFormed, PolicyStep, CommitStep
<1>7. pc' = [pc EXCEPT ![p] = "remove"]
  BY <1>1, <1>4 DEF ControlInv
<1> QED  BY <1>2, <1>4, <1>5, <1>6, <1>7, ControlStep DEF Step, AddStep

LEMMA RemoveDirType ==
    ASSUME TypeInv, NEW p \in Person, RemoveDir(p)
    PROVE  TypeInv'
<1> USE DEF TypeInv
<1>1. pending' = (pending /\ ~Empty) /\ Return(p)
      /\ UNCHANGED <<entry, policy, meta, challenges, sigs, nonce, signed>>
  BY DEF RemoveDir
<1>2. pending' \in BOOLEAN
  BY <1>1, Zenon
<1>3. StateType'
  BY <1>1, <1>2 DEF StateType
<1> QED  BY <1>1, <1>3, ReturnStep

LEMMA StopType ==
    ASSUME TypeInv, NEW p \in Person, Stop(p)
    PROVE  TypeInv'
<1> USE DEF TypeInv
<1>1. UNCHANGED <<entry, policy, pending, meta, nonce, signed>>
  BY DEF Stop
<1>2. /\ challenges' \in [Recipient -> MessageType \union {None}]
      /\ sigs' \in [Recipient -> SigType \union {None}]
  BY DEF Stop, StateType
<1>3. StateType'
  BY <1>1, <1>2 DEF StateType
<1> QED  BY <1>3, ReturnStep DEF Stop

LEMMA EnvironmentType ==
    ASSUME TypeInv, OtherCommand \/ EditPolicy \/ Rest \/ UNCHANGED vars
    PROVE  TypeInv'
<1> USE DEF TypeInv
<1>1. ControlInv'
  BY ControlSame DEF OtherCommand, EditPolicy, Rest, vars
<1>2. CASE OtherCommand
  BY <1>1, <1>2, CommittedType DEF OtherCommand
<1>3. CASE EditPolicy
  BY <1>1, <1>3 DEF EditPolicy, StateType, dir
<1>4. CASE Rest \/ UNCHANGED vars
  BY <1>1, <1>4, StateSame DEF Rest, vars
<1> QED  BY <1>2, <1>3, <1>4

LEMMA StepType ==
    ASSUME TypeInv, [Next]_vars
    PROVE  TypeInv'
<1>1. ASSUME NEW p \in Maintainer, RunAdd(p) PROVE TypeInv'
  BY <1>1, StartAddType DEF RunAdd
<1>2. ASSUME NEW p \in Person, RunSign(p) PROVE TypeInv'
  BY <1>2, StartSignType DEF RunSign
<1>3. ASSUME NEW p \in Person, Adding(p) PROVE TypeInv'
  BY <1>3, CountType, LoadMetaType, PrepareType, WriteChallengeType, SaveMetaType,
     FindToVerifyType, CheckMetaType, CollectType, ApplyAddType, RecordType,
     ListPendingType, RemoveFileType, RemoveDirType
     DEF Adding, ClearPending
<1>4. ASSUME NEW p \in Person, Signing(p) PROVE TypeInv'
  BY <1>4, LoadMetaToSignType, DecryptChallengeType, WriteSigType DEF Signing
<1>5. ASSUME NEW p \in Person, Stop(p) PROVE TypeInv'
  BY <1>5, StopType
<1> QED  BY <1>1, <1>2, <1>3, <1>4, <1>5, EnvironmentType DEF Next

LEMMA TypeInvImplies == TypeInv => TypeOK
<1> SUFFICES ASSUME TypeInv PROVE TypeOK
  OBVIOUS
<1>1. ASSUME NEW p \in Person
      PROVE  /\ local[p].call \in CallInProgress \union {None}
             /\ (local[p].call = None) = (pc[p] = "idle")
             /\ local[p].policy # None =>
                   local[p].policy.m \in 1..Cardinality(local[p].policy.operators)
             /\ local[p].meta \in MetaType \union {None}
             /\ local[p].signers \subseteq Recipient
             /\ local[p].todo \subseteq Recipient \union FileName
  BY Locals DEF TypeInv, WellFormed, Local
<1>2. \A s \in signed : s[1] \in Recipient /\ s[2] \in MessageType
  BY DEF TypeInv, StateType
<1> QED  BY <1>1, <1>2 DEF TypeInv, StateType, TypeOK

-----------------------------------------------------------------------------
(* What the gate lets through *)

LEMMA InitGate == Init => GateInv
<1> SUFFICES ASSUME Init PROVE GateInv
  OBVIOUS
<1>1. SigInv /\ VouchedInv
  BY DEF Init, SigInv, VouchedInv, CommitStep
<1>2. GrantInv /\ EventsNameSigners
  BY DEF Init, GrantInv, Gated, EventsNameSigners
<1> QED  BY <1>1, <1>2 DEF GateInv

\* What has been signed stays signed.
LEMMA EvidenceStays ==
    ASSUME signed \subseteq signed', NEW g, Evidence(g)
    PROVE  Evidence(g)'
  BY DEF Evidence

LEMMA EventsStay ==
    ASSUME EventsNameSigners, signed \subseteq signed', UNCHANGED audit
    PROVE  EventsNameSigners'
  BY DEF EventsNameSigners

\* A step that makes no addition, writes no event and forges no signature.
LEMMA GateStep ==
    ASSUME GateInv, NEW p \in Person,
           \A q \in Person \ {p} : pc'[q] = pc[q] /\ local'[q] = local[q],
           pc'[p] \in CommitStep =>
               \A o \in local'[p].signers :
                   <<o, MessageOf(local'[p].meta)>> \in signed',
           signed \subseteq signed',
           \A o \in Recipient :
               sigs'[o] # None => <<o, sigs'[o].message>> \in signed',
           UNCHANGED <<grants, audit>>
    PROVE  GateInv'
<1>1. SigInv'
  BY DEF SigInv
<1>2. VouchedInv'
  <2> SUFFICES ASSUME NEW q \in Person, pc'[q] \in CommitStep, NEW o \in local'[q].signers
               PROVE  <<o, MessageOf(local'[q].meta)>> \in signed'
    BY DEF VouchedInv, MessageOf, Message
  <2>1. CASE q = p
    BY <2>1
  <2>2. CASE q # p
    BY <2>2 DEF GateInv, VouchedInv
  <2> QED  BY <2>1, <2>2
<1>3. GrantInv'
  BY EvidenceStays DEF GateInv, GrantInv, Gated
<1>4. EventsNameSigners'
  BY EventsStay DEF GateInv
<1> QED  BY <1>1, <1>2, <1>3, <1>4 DEF GateInv

\* One that only moves p, to a place where nobody is counted.
LEMMA QuietStep ==
    ASSUME ControlInv, GateInv, NEW p \in Person, NEW step, NEW new,
           step \in CommitStep => new.signers = {},
           \/ pc' = [pc EXCEPT ![p] = step]
           \/ UNCHANGED pc /\ pc[p] = step,
           \/ local' = [local EXCEPT ![p] = new]
           \/ UNCHANGED local /\ local[p] = new,
           \A o \in Recipient : sigs'[o] \in {None, sigs[o]},
           UNCHANGED <<signed, grants, audit>>
    PROVE  GateInv'
<1>1. /\ pc'[p] = step /\ local'[p] = new
      /\ \A q \in Person \ {p} : pc'[q] = pc[q] /\ local'[q] = local[q]
  BY DEF ControlInv
<1>2. \A o \in Recipient : sigs'[o] # None => <<o, sigs'[o].message>> \in signed'
  BY DEF GateInv, SigInv
<1> QED  BY <1>1, <1>2, GateStep

LEMMA QuietReturn ==
    ASSUME ControlInv, GateInv, NEW p \in Person, Return(p),
           \A o \in Recipient : sigs'[o] \in {None, sigs[o]},
           UNCHANGED <<signed, grants, audit>>
    PROVE  GateInv'
  BY QuietStep DEF Return, Goto, CommitStep

LEMMA StartAddGate ==
    ASSUME TypeInv, GateInv, NEW p \in Person, NEW c \in Adds, StartAdd(p, c)
    PROVE  GateInv'
<1> DEFINE open   == [NoCall EXCEPT !.call = c]
           gated  == [NoCall EXCEPT !.call = c, !.policy = policy]
<1>1. UNCHANGED <<sigs, signed, grants, audit>>
  BY DEF StartAdd, dir
<1>2. open.signers = {} /\ gated.signers = {}
  BY DEF NoCall
<1>3. \/ pc' = [pc EXCEPT ![p] = "apply"] /\ local' = [local EXCEPT ![p] = open]
      \/ pc' = [pc EXCEPT ![p] = "count"] /\ local' = [local EXCEPT ![p] = gated]
      \/ pc' = [pc EXCEPT ![p] = "meta"] /\ local' = [local EXCEPT ![p] = gated]
  BY DEF StartAdd, Goto
<1> HIDE DEF open, gated
<1> QED  BY <1>1, <1>2, <1>3, QuietStep DEF TypeInv

\* The steps that go on, to a place where nobody is counted, or return.
LEMMA PassOrReturn ==
    ASSUME ControlInv, GateInv, NEW p \in Person, NEW step, NEW new,
           step \in CommitStep => new.signers = {},
           \/ /\ Goto(p, step)
              /\ \/ local' = [local EXCEPT ![p] = new]
                 \/ UNCHANGED local /\ local[p] = new
           \/ Return(p),
           UNCHANGED <<sigs, signed, grants, audit>>
    PROVE  GateInv'
<1>1. CASE Return(p)
  BY <1>1, QuietReturn
<1>2. CASE ~Return(p)
  <2>1. /\ pc' = [pc EXCEPT ![p] = step]
        /\ \/ local' = [local EXCEPT ![p] = new]
           \/ UNCHANGED local /\ local[p] = new
    BY <1>2 DEF Goto
  <2> QED  BY <2>1, QuietStep
<1> QED  BY <1>1, <1>2

\* The steps before the commit, of both commands.
LEMMA BeforeCommitGate ==
    ASSUME TypeInv, GateInv, NEW p \in Person,
           \/ Count(p) \/ LoadMeta(p) \/ Prepare(p) \/ SaveMeta(p)
           \/ FindToVerify(p) \/ CheckMeta(p)
           \/ LoadMetaToSign(p) \/ DecryptChallenge(p)
           \/ \E c \in Adds : StartSign(p, c.ns, c.who)
    PROVE  GateInv'
<1> USE DEF TypeInv
<1>0. /\ "prepare" \notin CommitStep /\ "verify" \notin CommitStep
      /\ "challenge" \notin CommitStep /\ "check" \notin CommitStep
      /\ "collect" \notin CommitStep /\ "signMeta" \notin CommitStep
      /\ "decryptChallenge" \notin CommitStep /\ "writeSig" \notin CommitStep
  BY DEF CommitStep
<1>1. CASE Count(p)
  <2> DEFINE new == [local[p] EXCEPT !.todo = {}]
  <2>1. local[p] \in Local /\ local[p].signers = {}
    BY <1>1, Locals DEF Count, WellFormed
  <2>2. new.signers = {}
    BY <2>1, KeepTodo
  <2>3. \/ Goto(p, "apply") /\ local' = [local EXCEPT ![p] = new]
        \/ Return(p)
    BY <1>1 DEF Count, OrRefuse
  <2>4. UNCHANGED <<sigs, signed, grants, audit>>
    BY <1>1 DEF Count, dir
  <2> HIDE DEF new
  <2> QED  BY <2>2, <2>3, <2>4, PassOrReturn
<1>2. CASE LoadMeta(p)
  <2> DEFINE new == [local[p] EXCEPT !.todo = {}]
  <2>1. \/ Goto(p, "prepare") /\ UNCHANGED local
        \/ Goto(p, "verify") /\ local' = [local EXCEPT ![p] = new]
        \/ Return(p)
    BY <1>2 DEF LoadMeta, OrRefuse
  <2>2. UNCHANGED <<sigs, signed, grants, audit>>
    BY <1>2 DEF LoadMeta, dir
  <2> HIDE DEF new
  <2> QED  BY <1>0, <2>1, <2>2, PassOrReturn
<1>3. CASE Prepare(p)
  <2>1. PICK new : \/ Goto(p, "challenge") /\ local' = [local EXCEPT ![p] = new]
                   \/ Return(p)
    BY <1>3 DEF Prepare
  <2>2. UNCHANGED <<sigs, signed, grants, audit>>
    BY <1>3 DEF Prepare
  <2> QED  BY <1>0, <2>1, <2>2, PassOrReturn
<1>4. CASE SaveMeta(p)
  BY <1>4, QuietReturn DEF SaveMeta
<1>5. CASE FindToVerify(p)
  <2>1. PICK new : Goto(p, "check") /\ local' = [local EXCEPT ![p] = new]
    BY <1>5 DEF FindToVerify
  <2>2. UNCHANGED <<sigs, signed, grants, audit>>
    BY <1>5 DEF FindToVerify, dir
  <2> QED  BY <1>0, <2>1, <2>2, PassOrReturn
<1>6. CASE CheckMeta(p)
  <2>1. PICK new : \/ Goto(p, "collect") /\ local' = [local EXCEPT ![p] = new]
                   \/ Return(p)
    BY <1>6 DEF CheckMeta, OrRefuse
  <2>2. UNCHANGED <<sigs, signed, grants, audit>>
    BY <1>6 DEF CheckMeta, dir
  <2> QED  BY <1>0, <2>1, <2>2, PassOrReturn
<1>7. CASE LoadMetaToSign(p)
  <2>1. PICK new : \/ Goto(p, "decryptChallenge") /\ local' = [local EXCEPT ![p] = new]
                   \/ Return(p)
    BY <1>7 DEF LoadMetaToSign, OrRefuse
  <2>2. UNCHANGED <<sigs, signed, grants, audit>>
    BY <1>7 DEF LoadMetaToSign, dir
  <2> QED  BY <1>0, <2>1, <2>2, PassOrReturn
<1>8. CASE DecryptChallenge(p)
  <2>1. PICK new : \/ Goto(p, "writeSig") /\ local' = [local EXCEPT ![p] = new]
                   \/ Return(p)
    BY <1>8 DEF DecryptChallenge, OrRefuse
  <2>2. UNCHANGED <<sigs, signed, grants, audit>>
    BY <1>8 DEF DecryptChallenge, dir
  <2> QED  BY <1>0, <2>1, <2>2, PassOrReturn
<1>9. ASSUME NEW c \in Adds, StartSign(p, c.ns, c.who) PROVE GateInv'
  <2>1. PICK new : Goto(p, "signMeta") /\ local' = [local EXCEPT ![p] = new]
    BY <1>9 DEF StartSign
  <2>2. UNCHANGED <<sigs, signed, grants, audit>>
    BY <1>9 DEF StartSign, dir
  <2> QED  BY <1>0, <2>1, <2>2, PassOrReturn
<1> QED  BY <1>1, <1>2, <1>3, <1>4, <1>5, <1>6, <1>7, <1>8, <1>9

LEMMA WriteChallengeGate ==
    ASSUME TypeInv, GateInv, NEW p \in Person, WriteChallenge(p)
    PROVE  GateInv'
<1>1. PICK new : \/ UNCHANGED pc /\ local' = [local EXCEPT ![p] = new]
                 \/ Return(p)
  BY DEF WriteChallenge
<1>2. pc[p] = "challenge" /\ UNCHANGED <<sigs, signed, grants, audit>>
  BY DEF WriteChallenge
<1>3. CASE Return(p)
  BY <1>2, <1>3, QuietReturn DEF TypeInv
<1>4. CASE UNCHANGED pc /\ local' = [local EXCEPT ![p] = new]
  BY <1>2, <1>4, QuietStep DEF TypeInv, CommitStep
<1> QED  BY <1>1, <1>3, <1>4

\* The signatures that count are those whose file says what the command checked.
LEMMA CollectGate ==
    ASSUME TypeInv, GateInv, NEW p \in Person, Collect(p)
    PROVE  GateInv'
<1> DEFINE S   == ValidSigners(p)
           new == [local[p] EXCEPT !.signers = S]
<1>1. UNCHANGED <<sigs, signed, grants, audit>>
  BY DEF Collect, dir
<1>2. CASE Return(p)
  BY <1>1, <1>2, QuietReturn DEF TypeInv
<1>3. CASE ~Return(p)
  <2>1. /\ local[p] \in Local /\ pc[p] = "collect"
        /\ local[p].meta \in MetaType
    BY Locals DEF Collect, TypeInv, WellFormed, Checked, Local
  <2>2. \A o \in S : o \in Recipient
                      /\ sigs[o] = [message |-> MessageOf(local[p].meta), to |-> Identity[p]]
    BY <2>1 DEF ValidSigners, MetaType
  <2>3. \A o \in S : <<o, MessageOf(local[p].meta)>> \in signed
    <3> SUFFICES ASSUME NEW o \in S PROVE <<o, MessageOf(local[p].meta)>> \in signed
      OBVIOUS
    <3>1. MessageOf(local[p].meta) \in MessageType /\ Identity[p] \in Recipient
      BY <2>1, MessageTypes
    <3>2. sigs[o] \in SigType
      BY <2>2, <3>1 DEF SigType
    <3>3. o \in Recipient /\ sigs[o] # None /\ sigs[o].message = MessageOf(local[p].meta)
      BY <2>2, <3>2
    <3> QED  BY <3>3 DEF GateInv, SigInv
  <2> HIDE DEF S
  <2>4. pc' = [pc EXCEPT ![p] = "apply"] /\ local' = [local EXCEPT ![p] = new]
    BY <1>3 DEF Collect, OrRefuse, Goto, S
  <2>5. new.signers = S /\ new.meta = local[p].meta
    BY <2>1 DEF Local
  <2> HIDE DEF new
  <2>6. /\ local'[p] = new
        /\ \A q \in Person \ {p} : pc'[q] = pc[q] /\ local'[q] = local[q]
    BY <2>4 DEF TypeInv, ControlInv
  <2>7. \A o \in local'[p].signers : <<o, MessageOf(local'[p].meta)>> \in signed'
    BY <1>1, <2>3, <2>5, <2>6
  <2>8. \A o \in Recipient : sigs'[o] # None => <<o, sigs'[o].message>> \in signed'
    BY <1>1 DEF GateInv, SigInv
  <2> QED  BY <1>1, <2>6, <2>7, <2>8, GateStep
<1> QED  BY <1>2, <1>3

LEMMA WriteSigGate ==
    ASSUME TypeInv, GateInv, NEW p \in Person, WriteSig(p)
    PROVE  GateInv'
<1> DEFINE m   == local[p].meta
           sig == [message |-> MessageOf(m), to |-> m.verifier]
<1>1. UNCHANGED <<grants, audit>> /\ Return(p)
  BY DEF WriteSig
<1>2. /\ pc'[p] = "idle"
      /\ \A q \in Person \ {p} : pc'[q] = pc[q] /\ local'[q] = local[q]
  BY <1>1 DEF Return, Goto, TypeInv, ControlInv
<1>3. \/ UNCHANGED <<sigs, signed>>
      \/ /\ sigs' = [sigs EXCEPT ![Identity[p]] = sig]
         /\ signed' = signed \union {<<Identity[p], MessageOf(m)>>}
  BY DEF WriteSig
<1>4. sig.message = MessageOf(m)
  OBVIOUS
<1> HIDE DEF sig
<1>5. signed \subseteq signed'
  BY <1>3
<1>6. \A o \in Recipient : sigs'[o] # None => <<o, sigs'[o].message>> \in signed'
  BY <1>3, <1>4, <1>5 DEF GateInv, SigInv, TypeInv, StateType
<1> QED  BY <1>1, <1>2, <1>5, <1>6, GateStep DEF CommitStep

\* The path a call took says whether it had to be vouched for.
LEMMA PathIsGated ==
    ASSUME NEW p \in Person
    PROVE  (Path(p) = "quorum") <=> GatedCall(local[p])
  BY DEF Path, GatedCall, TheCall

\* An addition is made on what the command has checked and counted.
LEMMA ApplyAddGate ==
    ASSUME TypeInv, GateInv, NEW p \in Person, ApplyAdd(p)
    PROVE  GateInv'
<1> DEFINE l == local[p]
           g == [ns |-> TheCall(p).ns, who |-> TheCall(p).who, at |-> Sha(TheCall(p).ns),
                 how |-> Path(p), before |-> entry[TheCall(p).ns].recipients,
                 policy |-> l.policy, meta |-> l.meta, signers |-> l.signers]
<1>1. /\ grants' = grants \union {g}
      /\ Goto(p, "record") /\ pc[p] = "apply"
      /\ UNCHANGED <<sigs, audit, local, signed>>
  BY DEF ApplyAdd, dir
<1>2. l \in Local /\ WellFormed("apply", l)
  BY <1>1, Locals DEF TypeInv
<1>3. \A o \in l.signers : <<o, MessageOf(l.meta)>> \in signed
  BY <1>1 DEF GateInv, VouchedInv, CommitStep
<1>4. SigInv'
  BY <1>1 DEF GateInv, SigInv
<1>5. VouchedInv'
  <2> SUFFICES ASSUME NEW q \in Person, pc'[q] \in CommitStep, NEW o \in local[q].signers
               PROVE  <<o, MessageOf(local[q].meta)>> \in signed
    BY <1>1 DEF VouchedInv, MessageOf, Message
  <2>1. pc[q] \in CommitStep
    BY <1>1 DEF Goto, TypeInv, ControlInv, CommitStep
  <2> QED  BY <2>1 DEF GateInv, VouchedInv
<1>6. g.how = "quorum" => Evidence(g)
  <2> SUFFICES ASSUME GatedCall(l) PROVE Evidence(g)
    BY PathIsGated
  <2>1. /\ Checked(l) /\ l.signers \subseteq l.meta.operators
        /\ Cardinality(l.signers) >= l.policy.m
        /\ l.policy.m \in Nat
    BY <1>2 DEF WellFormed, CommitStep, GatedCall
  <2>2. l.meta \in MetaType /\ l.meta.ns = TheCall(p).ns /\ l.meta.who = TheCall(p).who
    BY <1>2, <2>1 DEF Local, Checked, TheCall
  <2> QED  BY <1>3, <2>1, <2>2 DEF Evidence
<1> HIDE DEF g
<1>7. GrantInv'
  <2> SUFFICES ASSUME NEW h \in grants', h.how = "quorum" PROVE Evidence(h)'
    BY DEF GrantInv, Gated
  <2>1. Evidence(h)
    BY <1>1, <1>6 DEF GateInv, GrantInv, Gated
  <2> QED  BY <1>1, <2>1, EvidenceStays
<1>8. EventsNameSigners'
  BY <1>1, EventsStay DEF GateInv
<1> QED  BY <1>4, <1>5, <1>7, <1>8 DEF GateInv

\* The event names those who were counted, for the call they were counted for.
LEMMA RecordGate ==
    ASSUME TypeInv, GateInv, NEW p \in Person, Record(p)
    PROVE  GateInv'
<1> DEFINE l == local[p]
           e == [ns |-> TheCall(p).ns, who |-> TheCall(p).who,
                 signers |-> l.signers, bootstrap |-> TheCall(p).how = "bootstrap"]
<1>1. /\ pc[p] = "record"
      /\ audit' \in {audit, audit \union {e}}
      /\ UNCHANGED <<sigs, grants, signed>>
      /\ (Goto(p, "list") /\ UNCHANGED local) \/ Return(p)
  BY DEF Record, dir
<1>2. l \in Local /\ WellFormed("record", l)
  BY <1>1, Locals DEF TypeInv
<1>3. \A o \in l.signers : <<o, MessageOf(l.meta)>> \in signed
  BY <1>1 DEF GateInv, VouchedInv, CommitStep
<1>4. \A o \in e.signers : \E s \in signed : s[1] = o /\ s[2].ns = e.ns /\ s[2].who = e.who
  <2> SUFFICES ASSUME NEW o \in l.signers
               PROVE  \E s \in signed : s[1] = o /\ s[2].ns = TheCall(p).ns /\ s[2].who = TheCall(p).who
    OBVIOUS
  <2>1. Checked(l)
    BY <1>2 DEF WellFormed, CommitStep
  <2>2. l.meta \in MetaType /\ l.meta.ns = TheCall(p).ns /\ l.meta.who = TheCall(p).who
    BY <1>2, <2>1 DEF Local, Checked, TheCall
  <2>3. MessageOf(l.meta).ns = TheCall(p).ns /\ MessageOf(l.meta).who = TheCall(p).who
    BY <2>2, MessageTypes
  <2> QED  BY <1>3, <2>3
<1> HIDE DEF e
<1>5. EventsNameSigners'
  BY <1>1, <1>4 DEF GateInv, EventsNameSigners
<1>6. SigInv' /\ GrantInv'
  BY <1>1, EvidenceStays DEF GateInv, SigInv, GrantInv, Gated
<1>7. VouchedInv'
  <2> SUFFICES ASSUME NEW q \in Person, pc'[q] \in CommitStep, NEW o \in local'[q].signers
               PROVE  <<o, MessageOf(local'[q].meta)>> \in signed
    BY <1>1 DEF VouchedInv, MessageOf, Message
  <2>1. pc[q] \in CommitStep /\ local'[q] = local[q]
    BY <1>1 DEF Goto, Return, TypeInv, ControlInv, CommitStep
  <2> QED  BY <2>1 DEF GateInv, VouchedInv
<1> QED  BY <1>5, <1>6, <1>7 DEF GateInv

\* Clearing the directory, and stopping, takes files away and adds none.
LEMMA ClearGate ==
    ASSUME TypeInv, GateInv, NEW p \in Person, ClearPending(p) \/ Stop(p)
    PROVE  GateInv'
<1> USE DEF TypeInv
<1>1. CASE ListPending(p)
  <2>1. PICK new : Goto(p, "remove") /\ local' = [local EXCEPT ![p] = new]
    BY <1>1 DEF ListPending
  <2>2. "remove" \notin CommitStep /\ UNCHANGED <<sigs, signed, grants, audit>>
    BY <1>1 DEF ListPending, dir, CommitStep
  <2> QED  BY <2>1, <2>2, PassOrReturn
<1>2. ASSUME NEW f \in local[p].todo, RemoveFile(p, f) PROVE GateInv'
  <2>1. PICK new : local' = [local EXCEPT ![p] = new]
    BY <1>2 DEF RemoveFile
  <2>2. "remove" \notin CommitStep /\ pc[p] = "remove" /\ UNCHANGED <<pc, signed, grants, audit>>
    BY <1>2 DEF RemoveFile, CommitStep
  <2>3. \A o \in Recipient : sigs'[o] \in {None, sigs[o]}
    BY <1>2 DEF RemoveFile
  <2> QED  BY <2>1, <2>2, <2>3, QuietStep
<1>3. CASE RemoveDir(p)
  <2>1. Return(p) /\ UNCHANGED <<sigs, signed, grants, audit>>
    BY <1>3 DEF RemoveDir
  <2> QED  BY <2>1, QuietReturn
<1>4. CASE Stop(p)
  <2>1. Return(p) /\ UNCHANGED <<signed, grants, audit>>
    BY <1>4 DEF Stop
  <2>2. \A o \in Recipient : sigs'[o] \in {None, sigs[o]}
    BY <1>4 DEF Stop, StateType
  <2> QED  BY <2>1, <2>2, QuietReturn
<1> QED  BY <1>1, <1>2, <1>3, <1>4 DEF ClearPending

LEMMA EnvironmentGate ==
    ASSUME GateInv, OtherCommand \/ EditPolicy \/ Rest \/ UNCHANGED vars
    PROVE  GateInv'
<1>1. UNCHANGED <<sigs, audit, pc, local, grants, signed>>
  BY DEF OtherCommand, EditPolicy, Rest, vars, dir
<1>2. SigInv' /\ VouchedInv'
  BY <1>1 DEF GateInv, SigInv, VouchedInv, MessageOf, Message
<1>3. GrantInv' /\ EventsNameSigners'
  BY <1>1, EvidenceStays, EventsStay DEF GateInv, GrantInv, Gated
<1> QED  BY <1>2, <1>3 DEF GateInv

LEMMA StepGate ==
    ASSUME TypeInv, GateInv, [Next]_vars
    PROVE  GateInv'
<1>1. ASSUME NEW p \in Maintainer, RunAdd(p) PROVE GateInv'
  BY <1>1, StartAddGate DEF RunAdd
<1>2. ASSUME NEW p \in Person, RunSign(p) PROVE GateInv'
  BY <1>2, BeforeCommitGate DEF RunSign
<1>3. ASSUME NEW p \in Person, Adding(p) PROVE GateInv'
  BY <1>3, BeforeCommitGate, WriteChallengeGate, CollectGate, ApplyAddGate, RecordGate,
     ClearGate DEF Adding
<1>4. ASSUME NEW p \in Person, Signing(p) PROVE GateInv'
  BY <1>4, BeforeCommitGate, WriteSigGate DEF Signing
<1>5. ASSUME NEW p \in Person, Stop(p) PROVE GateInv'
  BY <1>5, ClearGate
<1> QED  BY <1>1, <1>2, <1>3, <1>4, <1>5, EnvironmentGate DEF Next

\* What every gated addition was made on is a quorum of signatures.
LEMMA EvidenceIsAQuorum == GrantInv => QuorumHolds
<1> SUFFICES ASSUME GrantInv, NEW g \in Gated
             PROVE  LET message == MessageOf(g.meta) IN
                    /\ message.ns = g.ns /\ message.who = g.who
                    /\ Cardinality({o \in g.meta.operators : <<o, message>> \in signed})
                          >= g.policy.m
  BY DEF QuorumHolds
<1> DEFINE message == MessageOf(g.meta)
           vouching == {o \in g.meta.operators : <<o, message>> \in signed}
<1>1. Evidence(g)
  BY DEF GrantInv
<1>2. message.ns = g.ns /\ message.who = g.who
  BY <1>1, MessageTypes DEF Evidence
<1>3. vouching \in SUBSET Recipient /\ g.signers \in SUBSET vouching
  BY <1>1 DEF Evidence, MetaType
<1>4. /\ Cardinality(g.signers) <= Cardinality(vouching)
      /\ Cardinality(vouching) \in Nat /\ Cardinality(g.signers) \in Nat
  <2>1. g.signers \in SUBSET Recipient
    BY <1>3
  <2> HIDE DEF vouching
  <2> QED  BY <1>3, <2>1, OperatorsAreFinite
<1>5. Cardinality(vouching) >= g.policy.m
  <2> HIDE DEF vouching
  <2> QED  BY <1>1, <1>4 DEF Evidence
<1> QED  BY <1>2, <1>5

\* The inductive invariant holds throughout: types, signatures that were really
\* written, and every gated addition with the evidence it was made on.
THEOREM GateInvariant == Spec => [](TypeInv /\ GateInv)
<1>1. Init => TypeInv /\ GateInv
  BY InitType, InitGate
<1>2. TypeInv /\ GateInv /\ [Next]_vars => (TypeInv /\ GateInv)'
  BY StepType, StepGate
<1> QED  BY <1>1, <1>2, PTL DEF Spec

\* Every variable keeps its type, and no command loads a policy whose quorum
\* its operators cannot reach.
THEOREM TypeCorrect == Spec => []TypeOK
  BY GateInvariant, TypeInvImplies, PTL

\* What goes through the gate has been signed by a quorum of the operators that
\* meta.json listed, for the very recipient and namespace that are added.
THEOREM AdditionsAreVouchedFor == Spec => []QuorumHolds
<1>1. GateInv => QuorumHolds
  BY EvidenceIsAQuorum DEF GateInv
<1> QED  BY <1>1, GateInvariant, PTL

\* Whoever the audit log names as a signer of an addition has signed it.
THEOREM EventsAreTrue == Spec => []EventsNameSigners
<1>1. GateInv => EventsNameSigners
  BY DEF GateInv
<1> QED  BY <1>1, GateInvariant, PTL
=============================================================================
