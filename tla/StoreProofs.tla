---------------------------- MODULE StoreProofs ----------------------------
(***************************************************************************)
(* Theorems about Store, for every set of processes, calls, namespaces,    *)
(* keys and recipients, every number of calls, and whatever fails or dies. *)
(***************************************************************************)
EXTENDS StoreInvariant, TLAPS

(***************************************************************************)
(* What a call's record holds, by its kind.                                *)
(***************************************************************************)
LEMMA CallFields ==
    ASSUME NEW c \in CallType
    PROVE  /\ c.ns \in Namespace
           /\ c.kind \in ValueKind => c.keys \in SUBSET Key /\ c.origin \in Origin
           /\ c.kind \in RecipientKind \union DropKind => c.who \in Recipient
           /\ c.kind = "init" => c.recipients \in (SUBSET Recipient) \ {{}}
           /\ c.kind \in RewriteKind \union ReadKind \union {"init"}
  BY DEF CallType, ValueCall, RecipientCall, InitCall, ReadCall, ValueKind,
         RecipientKind, DropKind, OriginKind, RewriteKind, ReadKind

(***************************************************************************)
(* An edit of typed contents gives typed contents.                         *)
(***************************************************************************)
LEMMA EditedType ==
    ASSUME NEW c \in CallType, c.kind \in RewriteKind,
           NEW e \in Content, NEW v \in Nat
    PROVE  Edited(c, e, v) \in Content
<1>1. EditedRecipients(c, e) \in SUBSET Recipient
  BY CallFields DEF EditedRecipients, Content, RecipientKind, DropKind
<1>2. EditedValues(c, e, v) \in [Key -> Nat]
  BY DEF EditedValues, Content, Absent
<1>3. EditedOrigins(c, e, v) \in [Key -> Origin \union {NoOrigin}]
  <2>1. \A k \in Stamped(c) : c.origin \in Origin
    BY CallFields DEF Stamped, ValueKind
  <2>2. QED  BY <2>1 DEF EditedOrigins, Content
<1>4. QED  BY <1>1, <1>2, <1>3 DEF Edited, Content

USE CallsAssumption, ExistingAssumption, IdentityAssumption, FaultAssumption,
    NilAssumption

LEMMA LocalTypes ==
    /\ NoEntry \in ManifestEntry
    /\ NoLocal \in Local
    /\ NoValues \in [Key -> Nat]
    /\ NoOrigins \in [Key -> Origin \union {NoOrigin}]
  BY DEF NoEntry, NoLocal, NoValues, NoOrigins, ManifestEntry, Local, Sha,
         NoCallNo, Absent

-----------------------------------------------------------------------------
(* Types *)

LEMMA InitType == Init => TypeInv
<1> SUFFICES ASSUME Init PROVE TypeInv
  OBVIOUS
<1> USE DEF Init
<1>1. manifest \in [Namespace -> ManifestEntry]
  BY DEF EntryType, ManifestEntry, ExistingSha, Sha, CallNo, NoCallNo
<1>2. bundle \in [Namespace -> Sha]
  BY DEF HasBundle, Sha, CallNo, NoCallNo
<1>3. origins \in [Namespace -> [Key -> Origin \union {NoOrigin}]]
  BY DEF EntryType
<1>4. cipher \in [Namespace -> [CallNo -> Ciphertext]]
  BY DEF EntryType, Ciphertext
<1>5. local \in [Proc -> Local]
  BY LocalTypes
<1>6. /\ pc \in [Proc -> Step]
      /\ begun \in CallNo
      /\ outcome \in [CallNo -> Outcome]
  BY DEF Step, CallNo, Outcome
<1>7. CallInv
  BY DEF CallInv
<1> QED  BY <1>1, <1>2, <1>3, <1>4, <1>5, <1>6, <1>7 DEF TypeInv, TypeOK

\* A step of p that gives p a typed step, and locals that keep the call, keeps
\* the control part of the invariant.
LEMMA ControlType ==
    ASSUME TypeInv, NEW p \in Proc, NEW step \in Step, NEW new \in Local,
           pc' = [pc EXCEPT ![p] = step],
           local' = [local EXCEPT ![p] = new],
           step # "idle" => /\ new.call \in Calls
                            /\ new.call.kind \in KindsAt(step)
                            /\ new.no \in CallNo
    PROVE  /\ pc' \in [Proc -> Step]
           /\ local' \in [Proc -> Local]
           /\ CallInv'
<1>1. pc' \in [Proc -> Step] /\ local' \in [Proc -> Local]
  BY DEF TypeInv, TypeOK
<1>2. CallInv'
  <2> SUFFICES ASSUME NEW q \in Proc, pc'[q] # "idle"
               PROVE  /\ local'[q].call \in Calls
                      /\ local'[q].call.kind \in KindsAt(pc'[q])
                      /\ local'[q].no \in CallNo
    BY DEF CallInv
  <2>1. CASE q = p
    BY <2>1 DEF TypeInv, TypeOK
  <2>2. CASE q # p
    <3>1. pc'[q] = pc[q] /\ local'[q] = local[q]
      BY <2>2 DEF TypeInv, TypeOK
    <3>2. QED  BY <3>1 DEF TypeInv, CallInv
  <2>3. QED  BY <2>1, <2>2
<1>3. QED  BY <1>1, <1>2

LEMMA ReturnType ==
    ASSUME TypeInv, NEW p \in Proc, NEW how \in Outcome, Return(p, how)
    PROVE  /\ pc' \in [Proc -> Step]
           /\ local' \in [Proc -> Local]
           /\ outcome' \in [CallNo -> Outcome]
           /\ CallInv'
<1>1. pc' \in [Proc -> Step] /\ local' \in [Proc -> Local] /\ CallInv'
  <2>1. "idle" \in Step /\ NoLocal \in Local
    BY LocalTypes DEF Step
  <2>2. QED  BY <2>1, ControlType DEF Return, Goto
<1>2. outcome' \in [CallNo -> Outcome]
  BY DEF Return, TypeInv, TypeOK
<1>3. QED  BY <1>1, <1>2

LEMMA UnlockType ==
    ASSUME TypeInv, NEW p \in Proc, Unlock(p)
    PROVE  lock' \in Proc \union {Nil}
  BY DEF Unlock, TypeInv, TypeOK

\* The locals of a running call.
LEMMA CallType1 ==
    ASSUME TypeInv, NEW p \in Proc, pc[p] # "idle"
    PROVE  /\ TheCall(p) \in CallType
           /\ TheCall(p) \in Calls
           /\ NsOf(p) \in Namespace
           /\ local[p] \in Local
           /\ local[p].no \in CallNo
           /\ TheCall(p).kind \in KindsAt(pc[p])
  BY CallFields DEF TypeInv, TypeOK, CallInv, TheCall, NsOf

\* The same for a step within a call.
LEMMA MoveType ==
    ASSUME TypeInv, NEW p \in Proc, pc[p] # "idle",
           NEW step \in Step, NEW new \in Local,
           pc' = [pc EXCEPT ![p] = step],
           local' = [local EXCEPT ![p] = new],
           new.call = TheCall(p), new.no = local[p].no,
           TheCall(p).kind \in KindsAt(step)
    PROVE  /\ pc' \in [Proc -> Step]
           /\ local' \in [Proc -> Local]
           /\ CallInv'
<1>1. new.call \in Calls /\ new.call.kind \in KindsAt(step) /\ new.no \in CallNo
  BY CallType1
<1>2. QED  BY <1>1, ControlType

LEMMA LoadType ==
    ASSUME TypeInv, NEW p \in Proc, NEW c \in Calls, Load(p, c)
    PROVE  TypeInv'
<1> USE DEF Load
<1>1. c \in CallType /\ c.ns \in Namespace
  BY CallFields
<1>2. CASE Listed(c.ns)
  <2> DEFINE new == [NoLocal EXCEPT !.call = c, !.no = begun + 1,
                                    !.meta = manifest[c.ns], !.values = NoValues]
  <2>1. begun + 1 \in CallNo /\ begun' = begun + 1
    BY <1>2 DEF Begin, CallNo, TypeInv, TypeOK
  <2>2. manifest[c.ns] \in ManifestEntry
    BY <1>1 DEF TypeInv, TypeOK
  <2>3. new \in Local
    BY <2>1, <2>2, LocalTypes DEF Local, NoLocal, Sha, NoCallNo
  <2>4. new.call = c /\ new.no = begun + 1
    BY DEF NoLocal
  <2>5. /\ pc' = [pc EXCEPT ![p] = "hash"]
        /\ local' = [local EXCEPT ![p] = new]
        /\ outcome' = outcome
    BY <1>2 DEF Begin, Goto
  <2>6. "hash" \in Step /\ c.kind \in KindsAt("hash")
    BY DEF Step, KindsAt
  <2> HIDE DEF new
  <2>7. /\ pc' \in [Proc -> Step]
        /\ local' \in [Proc -> Local]
        /\ CallInv'
    BY <2>1, <2>3, <2>4, <2>5, <2>6, ControlType
  <2>8. QED  BY <2>1, <2>5, <2>7 DEF TypeInv, TypeOK, disk
<1>3. CASE ~Listed(c.ns)
  <2>1. begun + 1 \in CallNo
    BY <1>3 DEF CallNo, TypeInv, TypeOK
  <2>2. QED  BY <1>3, <2>1 DEF TypeInv, TypeOK, CallInv, disk, Outcome
<1>4. QED  BY <1>2, <1>3

LEMMA LockForInitType ==
    ASSUME TypeInv, NEW p \in Proc, NEW c \in Calls, LockForInit(p, c)
    PROVE  TypeInv'
<1> USE DEF LockForInit
<1>1. c \in CallType /\ c.ns \in Namespace /\ c.recipients \in SUBSET Recipient
  BY CallFields
<1>2. CASE ~Listed(c.ns)
  <2> DEFINE entry == [NoEntry EXCEPT !.recipients = c.recipients]
             new == [NoLocal EXCEPT !.call = c, !.no = begun + 1,
                                    !.meta = entry, !.values = NoValues]
  <2>1. begun + 1 \in CallNo /\ begun' = begun + 1
    BY <1>2 DEF Begin, CallNo, TypeInv, TypeOK
  <2>2. entry \in ManifestEntry
    BY <1>1 DEF NoEntry, ManifestEntry, Sha, NoCallNo
  <2>3. new \in Local
    BY <2>1, <2>2, LocalTypes DEF Local, NoLocal, Sha, NoCallNo
  <2>4. new.call = c /\ new.no = begun + 1
    BY DEF NoLocal
  <2>5. /\ pc' = [pc EXCEPT ![p] = "saveBundle"]
        /\ local' = [local EXCEPT ![p] = new]
        /\ outcome' = outcome
        /\ lock' = p
    BY <1>2 DEF Begin, Goto
  <2>6. "saveBundle" \in Step /\ c.kind \in KindsAt("saveBundle")
    BY DEF Step, KindsAt
  <2> HIDE DEF new
  <2>7. /\ pc' \in [Proc -> Step]
        /\ local' \in [Proc -> Local]
        /\ CallInv'
    BY <2>1, <2>3, <2>4, <2>5, <2>6, ControlType
  <2>8. QED  BY <2>1, <2>5, <2>7 DEF TypeInv, TypeOK, disk
<1>3. CASE Listed(c.ns)
  <2>1. begun + 1 \in CallNo
    BY <1>3 DEF CallNo, TypeInv, TypeOK
  <2>2. QED  BY <1>3, <2>1 DEF TypeInv, TypeOK, CallInv, disk, Outcome
<1>4. QED  BY <1>2, <1>3

LEMMA HashType ==
    ASSUME TypeInv, NEW p \in Proc, Hash(p)
    PROVE  TypeInv'
<1> USE DEF Hash
<1>1. CASE HashMatches(p) /\ TheCall(p).kind # "verify"
  <2>1. /\ pc' = [pc EXCEPT ![p] = "decrypt"]
        /\ local' = [local EXCEPT ![p] = local[p]]
        /\ outcome' = outcome
    BY <1>1 DEF Goto, TypeInv, TypeOK
  <2>2. "decrypt" \in Step /\ TheCall(p).kind \in KindsAt("decrypt")
    BY <1>1, CallType1 DEF Step, KindsAt, ReadKind
  <2>3. /\ pc' \in [Proc -> Step]
        /\ local' \in [Proc -> Local]
        /\ CallInv'
    BY <2>1, <2>2, CallType1, ControlType DEF TheCall
  <2>4. QED  BY <2>1, <2>3 DEF TypeInv, TypeOK, disk
<1>2. CASE ~(HashMatches(p) /\ TheCall(p).kind # "verify")
  <2>1. PICK how \in Outcome : Return(p, how)
    BY <1>2 DEF Outcome
  <2>2. QED  BY <2>1, ReturnType DEF TypeInv, TypeOK, disk
<1>3. QED  BY <1>1, <1>2

LEMMA DecryptType ==
    ASSUME TypeInv, NEW p \in Proc, Decrypt(p)
    PROVE  TypeInv'
<1> DEFINE b == bundle[NsOf(p)]
           c == cipher[NsOf(p)][b]
           step == IF TheCall(p).kind = "read" THEN "return" ELSE "edit"
           new == [local[p] EXCEPT !.values = c.values, !.seen = b]
<1> USE DEF Decrypt
<1>1. CASE b # NoCallNo /\ Identity[p] \in c.to
  <2>1. /\ pc' = [pc EXCEPT ![p] = step]
        /\ local' = [local EXCEPT ![p] = new]
        /\ outcome' = outcome
    BY <1>1 DEF Goto, TypeInv, TypeOK
  <2>2. step \in Step /\ TheCall(p).kind \in KindsAt(step)
    BY CallType1 DEF Step, KindsAt, OriginKind, RecipientKind, ValueKind,
                     DropKind, RewriteKind
  <2>3. b \in Sha
    BY CallType1 DEF TypeInv, TypeOK
  <2>4. c.values \in [Key -> Nat]
    BY <1>1, <2>3, CallType1 DEF TypeInv, TypeOK, Ciphertext, Sha
  <2>5. new \in Local /\ new.call = TheCall(p) /\ new.no = local[p].no
    <3>1. local[p] \in Local
      BY CallType1
    <3> HIDE DEF b, c
    <3>2. QED  BY ONLY <2>3, <2>4, <3>1 DEF Local, TheCall
  <2> HIDE DEF new, step
  <2>6. /\ pc' \in [Proc -> Step]
        /\ local' \in [Proc -> Local]
        /\ CallInv'
    BY ONLY TypeInv, p \in Proc, pc[p] # "idle", <2>1, <2>2, <2>5, MoveType
  <2>7. QED  BY <2>1, <2>6 DEF TypeInv, TypeOK, disk
<1>2. CASE ~(b # NoCallNo /\ Identity[p] \in c.to)
  <2>1. Return(p, "undecryptable") /\ "undecryptable" \in Outcome
    BY <1>2 DEF Outcome
  <2>2. QED  BY <2>1, ReturnType DEF TypeInv, TypeOK, disk
<1>3. QED  BY <1>1, <1>2

\* The calls that return without touching the files.
LEMMA PlainReturnType ==
    ASSUME TypeInv, NEW p \in Proc, NEW how \in Outcome, Return(p, how),
           UNCHANGED <<disk, audit, begun, committed>>,
           Unlock(p) \/ UNCHANGED lock
    PROVE  TypeInv'
<1>1. lock' \in Proc \union {Nil}
  BY UnlockType DEF TypeInv, TypeOK
<1>2. QED  BY <1>1, ReturnType DEF TypeInv, TypeOK, disk

LEMMA EditTypeStep ==
    ASSUME TypeInv, NEW p \in Proc, Edit(p)
    PROVE  TypeInv'
<1> DEFINE after == Edited(TheCall(p), Before(p), local[p].no)
           new == [local[p] EXCEPT !.meta.recipients = after.recipients,
                                   !.values = after.values,
                                   !.labels = after.origins]
<1> USE DEF Edit
<1>1. CASE EditAllowed(TheCall(p), Before(p))
  <2>1. /\ pc' = [pc EXCEPT ![p] = "lock"]
        /\ local' = [local EXCEPT ![p] = new]
        /\ outcome' = outcome
    BY <1>1 DEF Goto, TypeInv, TypeOK
  <2>2. "lock" \in Step /\ TheCall(p).kind \in KindsAt("lock") \cap RewriteKind
    BY CallType1 DEF Step, KindsAt
  <2>3. Before(p) \in Content
    BY CallType1 DEF Before, Content, Local, ManifestEntry, TypeInv, TypeOK
  <2>4. after \in Content
    BY <2>2, <2>3, CallType1, EditedType DEF CallNo
  <2>5. new \in Local /\ new.call = TheCall(p) /\ new.no = local[p].no
    <3> HIDE DEF after
    <3>1. after.recipients \in SUBSET Recipient /\ after.values \in [Key -> Nat]
          /\ after.origins \in [Key -> Origin \union {NoOrigin}]
      BY <2>4 DEF Content
    <3>2. local[p] \in Local
      BY CallType1
    <3>3. [local[p].meta EXCEPT !.recipients = after.recipients] \in ManifestEntry
      BY ONLY <3>1, <3>2 DEF Local, ManifestEntry
    <3>4. QED  BY ONLY <3>1, <3>2, <3>3 DEF Local, TheCall
  <2> HIDE DEF new
  <2>6. /\ pc' \in [Proc -> Step]
        /\ local' \in [Proc -> Local]
        /\ CallInv'
    BY ONLY TypeInv, p \in Proc, pc[p] # "idle", <2>1, <2>2, <2>5, MoveType
  <2>7. QED  BY <2>1, <2>6 DEF TypeInv, TypeOK, disk
<1>2. CASE ~EditAllowed(TheCall(p), Before(p))
  <2>1. "refused" \in Outcome
    BY DEF Outcome
  <2>2. QED  BY <1>2, <2>1, PlainReturnType
<1>3. QED  BY <1>1, <1>2

LEMMA LockForCommitType ==
    ASSUME TypeInv, NEW p \in Proc, LockForCommit(p)
    PROVE  TypeInv'
<1> DEFINE new == IF OriginAware(p)
                  THEN [local[p] EXCEPT !.saved = bundle[NsOf(p)],
                                        !.savedLabels = origins[NsOf(p)]]
                  ELSE local[p]
<1> USE DEF LockForCommit
<1>1. CASE VersionUnchanged(p)
  <2>1. /\ pc' = [pc EXCEPT ![p] = "saveBundle"]
        /\ local' = [local EXCEPT ![p] = new]
        /\ outcome' = outcome
        /\ lock' = p
    BY <1>1 DEF Goto, TypeInv, TypeOK
  <2>2. "saveBundle" \in Step /\ TheCall(p).kind \in KindsAt("saveBundle")
    BY CallType1 DEF Step, KindsAt
  <2>3. bundle[NsOf(p)] \in Sha /\ origins[NsOf(p)] \in [Key -> Origin \union {NoOrigin}]
    BY CallType1 DEF TypeInv, TypeOK
  <2>4. new \in Local /\ new.call = TheCall(p) /\ new.no = local[p].no
    <3>1. local[p] \in Local
      BY CallType1
    <3>2. QED  BY ONLY <2>3, <3>1 DEF Local, TheCall
  <2> HIDE DEF new
  <2>5. /\ pc' \in [Proc -> Step]
        /\ local' \in [Proc -> Local]
        /\ CallInv'
    BY ONLY TypeInv, p \in Proc, pc[p] # "idle", <2>1, <2>2, <2>4, MoveType
  <2>6. QED  BY <2>1, <2>5 DEF TypeInv, TypeOK, disk
<1>2. CASE ~VersionUnchanged(p)
  <2>1. "conflict" \in Outcome
    BY DEF Outcome
  <2>2. QED  BY <1>2, <2>1, PlainReturnType
<1>3. QED  BY <1>1, <1>2

LEMMA SaveBundleType ==
    ASSUME TypeInv, NEW p \in Proc, SaveBundle(p)
    PROVE  TypeInv'
<1> DEFINE step == IF OriginAware(p) THEN "saveOrigins" ELSE "saveManifest"
           new == [local[p] EXCEPT !.meta.sha = local[p].no]
<1> USE DEF SaveBundle
<1>0. pc[p] # "idle"
  OBVIOUS
<1>1. /\ pc' = [pc EXCEPT ![p] = step]
      /\ local' = [local EXCEPT ![p] = new]
  BY DEF Goto, TypeInv, TypeOK
<1>2. step \in Step /\ TheCall(p).kind \in KindsAt(step)
  BY CallType1 DEF Step, KindsAt, OriginAware, RewriteKind
<1>3. new \in Local /\ new.call = TheCall(p) /\ new.no = local[p].no
  <2>1. local[p] \in Local /\ local[p].no \in CallNo
    BY CallType1
  <2>2. [local[p].meta EXCEPT !.sha = local[p].no] \in ManifestEntry
    BY ONLY <2>1 DEF Local, ManifestEntry, Sha
  <2>3. QED  BY ONLY <2>1, <2>2 DEF Local, TheCall
<1>4. [values |-> local[p].values, to |-> local[p].meta.recipients] \in Ciphertext
  BY CallType1 DEF Ciphertext, Local, ManifestEntry
<1>5. /\ cipher' \in [Namespace -> [CallNo -> Ciphertext]]
      /\ bundle' \in [Namespace -> Sha]
  BY <1>4, CallType1 DEF TypeInv, TypeOK, Sha
<1> HIDE DEF new, step
<1>6. /\ pc' \in [Proc -> Step]
      /\ local' \in [Proc -> Local]
      /\ CallInv'
  BY ONLY TypeInv, p \in Proc, pc[p] # "idle", <1>1, <1>2, <1>3, MoveType
<1>7. QED  BY <1>5, <1>6 DEF TypeInv, TypeOK

\* A step of a writer that changes nothing of its locals.
LEMMA AdvanceType ==
    ASSUME TypeInv, NEW p \in Proc, pc[p] # "idle", NEW step \in Step,
           Goto(p, step), local' = local,
           TheCall(p).kind \in KindsAt(step)
    PROVE  /\ pc' \in [Proc -> Step]
           /\ local' \in [Proc -> Local]
           /\ CallInv'
<1>1. local' = [local EXCEPT ![p] = local[p]]
  BY DEF TypeInv, TypeOK
<1>2. QED  BY <1>1, CallType1, ControlType DEF Goto, TheCall

LEMMA SaveOriginsType ==
    ASSUME TypeInv, NEW p \in Proc, SaveOrigins(p) \/ SaveOriginsFails(p)
    PROVE  TypeInv'
<1>0. /\ pc[p] # "idle"
      /\ TheCall(p).kind \in OriginKind
  BY CallType1 DEF SaveOrigins, SaveOriginsFails, KindsAt
<1>1. PICK step \in {"saveManifest", "undoBundle"} : Goto(p, step)
  BY DEF SaveOrigins, SaveOriginsFails
<1>2. local' = local
  BY DEF SaveOrigins, SaveOriginsFails
<1>3. step \in Step /\ TheCall(p).kind \in KindsAt(step)
  BY <1>0 DEF Step, KindsAt, RewriteKind
<1>4. /\ pc' \in [Proc -> Step]
      /\ local' \in [Proc -> Local]
      /\ CallInv'
  BY <1>0, <1>1, <1>2, <1>3, AdvanceType
<1>5. origins' \in [Namespace -> [Key -> Origin \union {NoOrigin}]]
  BY <1>0, CallType1 DEF SaveOrigins, SaveOriginsFails, TypeInv, TypeOK, Local, disk
<1>6. QED
  BY <1>4, <1>5 DEF SaveOrigins, SaveOriginsFails, TypeInv, TypeOK, disk

LEMMA EventsType ==
    ASSUME TypeInv, NEW p \in Proc, pc[p] \in {"saveManifest"}
    PROVE  Events(p) \in SUBSET (Key \union Recipient \union Namespace)
<1>1. /\ TheCall(p) \in CallType
      /\ TheCall(p).kind \in RewriteKind \union {"init"}
  BY CallType1 DEF KindsAt
<1>2. QED
  BY <1>1, CallFields DEF Events, RewriteKind, OriginKind

LEMMA SaveManifestType ==
    ASSUME TypeInv, NEW p \in Proc, SaveManifest(p)
    PROVE  TypeInv'
<1> DEFINE new == [local[p] EXCEPT !.todo = Events(p)]
           entry == [version    |-> local[p].meta.version + 1,
                     sha        |-> local[p].meta.sha,
                     recipients |-> local[p].meta.recipients]
<1> USE DEF SaveManifest
<1>0. pc[p] = "saveManifest"
  OBVIOUS
<1>1. /\ pc' = [pc EXCEPT ![p] = "audit"]
      /\ local' = [local EXCEPT ![p] = new]
  BY DEF Goto, TypeInv, TypeOK
<1>2. "audit" \in Step /\ TheCall(p).kind \in KindsAt("audit")
  BY CallType1 DEF Step, KindsAt
<1>3. new \in Local /\ new.call = TheCall(p) /\ new.no = local[p].no
  <2>1. Events(p) \in SUBSET (Key \union Recipient \union Namespace)
    BY <1>0, EventsType
  <2>2. QED  BY <1>0, <2>1, CallType1 DEF Local, TheCall
<1>4. entry \in ManifestEntry
  BY <1>0, CallType1 DEF Local, ManifestEntry
<1>5. manifest' \in [Namespace -> ManifestEntry]
  BY <1>4, CallType1 DEF TypeInv, TypeOK
<1>6. lock' \in Proc \union {Nil} /\ committed' \subseteq CallNo
  BY <1>0, CallType1 DEF TypeInv, TypeOK
<1> HIDE DEF new
<1>7. /\ pc' \in [Proc -> Step]
      /\ local' \in [Proc -> Local]
      /\ CallInv'
  BY ONLY TypeInv, p \in Proc, pc[p] # "idle", <1>1, <1>2, <1>3, MoveType
<1>8. QED  BY <1>5, <1>6, <1>7 DEF TypeInv, TypeOK

LEMMA SaveManifestFailsType ==
    ASSUME TypeInv, NEW p \in Proc, SaveManifestFails(p)
    PROVE  TypeInv'
<1> USE DEF SaveManifestFails
<1>1. CASE OriginAware(p)
  <2>1. "undoBundle" \in Step /\ TheCall(p).kind \in KindsAt("undoBundle")
    BY <1>1 DEF Step, KindsAt, OriginAware
  <2>2. /\ pc' \in [Proc -> Step]
        /\ local' \in [Proc -> Local]
        /\ CallInv'
    BY <1>1, <2>1, AdvanceType
  <2>3. QED  BY <1>1, <2>2 DEF TypeInv, TypeOK, disk
<1>2. CASE ~OriginAware(p)
  <2>1. "ioError" \in Outcome
    BY DEF Outcome
  <2>2. QED  BY <1>2, <2>1, PlainReturnType
<1>3. QED  BY <1>1, <1>2

LEMMA UndoBundleType ==
    ASSUME TypeInv, NEW p \in Proc, UndoBundle(p)
    PROVE  TypeInv'
<1> USE DEF UndoBundle
<1>1. "undoOrigins" \in Step /\ TheCall(p).kind \in KindsAt("undoOrigins")
  BY CallType1 DEF Step, KindsAt
<1>2. /\ pc' \in [Proc -> Step]
      /\ local' \in [Proc -> Local]
      /\ CallInv'
  BY <1>1, AdvanceType
<1>3. bundle' \in [Namespace -> Sha]
  BY CallType1 DEF TypeInv, TypeOK, Local
<1>4. QED  BY <1>2, <1>3 DEF TypeInv, TypeOK

LEMMA UndoOriginsType ==
    ASSUME TypeInv, NEW p \in Proc, UndoOrigins(p)
    PROVE  TypeInv'
<1> USE DEF UndoOrigins
<1>1. origins' \in [Namespace -> [Key -> Origin \union {NoOrigin}]]
  BY CallType1 DEF TypeInv, TypeOK, Local
<1>2. lock' \in Proc \union {Nil}
  BY UnlockType
<1>3. "ioError" \in Outcome
  BY DEF Outcome
<1>4. QED  BY <1>1, <1>2, <1>3, ReturnType DEF TypeInv, TypeOK

LEMMA RecordEventType ==
    ASSUME TypeInv, NEW p \in Proc, RecordEvent(p)
    PROVE  TypeInv'
<1> USE DEF RecordEvent
<1>1. PICK s \in local[p].todo :
          /\ \/ audit' = audit \union {<<local[p].no, s>>}
             \/ UNCHANGED audit
          /\ local' = [local EXCEPT ![p].todo = @ \ {s}]
  OBVIOUS
<1> DEFINE new == [local[p] EXCEPT !.todo = @ \ {s}]
<1>2. /\ pc' = [pc EXCEPT ![p] = "audit"]
      /\ local' = [local EXCEPT ![p] = new]
  BY <1>1 DEF TypeInv, TypeOK
<1>3. "audit" \in Step /\ TheCall(p).kind \in KindsAt("audit")
  BY CallType1 DEF Step
<1>4. new \in Local /\ new.call = TheCall(p) /\ new.no = local[p].no
  <2>1. local[p] \in Local
    BY CallType1
  <2>2. local[p].todo \ {s} \in SUBSET (Key \union Recipient \union Namespace)
    BY ONLY <2>1 DEF Local
  <2>3. QED  BY ONLY <2>1, <2>2 DEF Local, TheCall
<1>5. audit' \subseteq CallNo \X (Key \union Recipient \union Namespace)
  BY <1>1, CallType1 DEF TypeInv, TypeOK, Local
<1> HIDE DEF new
<1>6. /\ pc' \in [Proc -> Step]
      /\ local' \in [Proc -> Local]
      /\ CallInv'
  BY ONLY TypeInv, p \in Proc, pc[p] # "idle", <1>2, <1>3, <1>4, MoveType
<1>7. QED  BY <1>5, <1>6 DEF TypeInv, TypeOK, disk

LEMMA ReturningType ==
    ASSUME TypeInv, NEW p \in Proc,
           ReadEnv(p) \/ ReadFails(p) \/ SaveBundleFails(p) \/ Finish(p) \/ Crash(p)
    PROVE  TypeInv'
<1>1. PICK how \in Outcome : Return(p, how)
  BY DEF Outcome, ReadEnv, ReadFails, SaveBundleFails, Finish, Crash
<1>2. /\ UNCHANGED <<disk, audit, begun, committed>>
      /\ Unlock(p) \/ UNCHANGED lock
  BY DEF ReadEnv, ReadFails, SaveBundleFails, Finish, Crash
<1>3. QED  BY <1>1, <1>2, PlainReturnType

LEMMA NextType == TypeInv /\ [Next]_vars => TypeInv'
<1> SUFFICES ASSUME TypeInv, [Next]_vars PROVE TypeInv'
  OBVIOUS
<1>1. CASE UNCHANGED vars
  BY <1>1 DEF vars, disk, TypeInv, TypeOK, CallInv
<1>2. ASSUME NEW p \in Proc, Start(p) PROVE TypeInv'
  BY <1>2, LoadType, LockForInitType DEF Start
<1>3. ASSUME NEW p \in Proc, Unlocked(p) PROVE TypeInv'
  BY <1>3, HashType, DecryptType, EditTypeStep, ReturningType DEF Unlocked
<1>4. ASSUME NEW p \in Proc, Locked(p) PROVE TypeInv'
  BY <1>4, SaveBundleType, SaveOriginsType, SaveManifestType,
     SaveManifestFailsType, UndoBundleType, UndoOriginsType, ReturningType DEF Locked
<1>5. ASSUME NEW p \in Proc, Auditing(p) PROVE TypeInv'
  BY <1>5, RecordEventType, ReturningType DEF Auditing
<1>6. QED
  BY <1>1, <1>2, <1>3, <1>4, <1>5, LockForCommitType, ReturningType DEF Next

(***************************************************************************)
(* Every variable keeps its type, and every running call is at a step a    *)
(* call of its kind reaches.                                               *)
(***************************************************************************)
THEOREM TypeCorrect == Spec => []TypeOK
<1>1. TypeInv => TypeOK
  BY DEF TypeInv
<1>2. QED  BY InitType, NextType, <1>1, PTL DEF Spec
=============================================================================
