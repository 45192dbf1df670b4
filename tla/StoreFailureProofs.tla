------------------------- MODULE StoreFailureProofs ------------------------
(***************************************************************************)
(* What survives failures: the audit log tells the truth whatever fails    *)
(* (except the log itself) or dies, and the three files of a namespace are *)
(* in sync whenever the lock is free if the calls are those that roll back.*)
(*                                                                         *)
(* First, what each action does, variable by variable; then one invariant  *)
(* and its theorem at a time.                                              *)
(***************************************************************************)
EXTENDS StoreSafetyProofs

USE CallsAssumption, ExistingAssumption, IdentityAssumption, FaultAssumption,
    NilAssumption

-----------------------------------------------------------------------------
(* The effect of each action *)

\* The call of p returns: it has an outcome and no locals.
Gone(p, how) ==
    /\ OthersWait(p)
    /\ pc[p] # "idle" /\ pc'[p] = "idle"
    /\ local'[p] = NoLocal
    /\ outcome'[local[p].no] = how
    /\ \A n \in CallNo \ {local[p].no} : outcome'[n] = outcome[n]
    /\ UNCHANGED <<manifest, bundle, cipher, audit, begun, committed>>

\* The call of p goes on to the given step.
Moves(p, step) ==
    /\ OthersWait(p)
    /\ pc[p] # "idle" /\ pc'[p] = step
    /\ local'[p].call = local[p].call
    /\ local'[p].no = local[p].no
    /\ local'[p].meta.version = local[p].meta.version
    /\ UNCHANGED <<begun, outcome>>

LEMMA ReturnEffect ==
    ASSUME TypeInv, NEW p \in Proc, pc[p] # "idle", NEW how, Return(p, how),
           UNCHANGED <<manifest, bundle, cipher, audit, begun, committed>>
    PROVE  Gone(p, how)
<1>1. OthersWait(p) /\ pc'[p] = "idle" /\ local'[p] = NoLocal
  BY DEF Return, Goto, OthersWait, TypeInv, TypeOK
<1>2. local[p].no \in CallNo
  BY CallType1
<1>3. /\ outcome'[local[p].no] = how
      /\ \A n \in CallNo \ {local[p].no} : outcome'[n] = outcome[n]
  BY <1>2 DEF Return, TypeInv, TypeOK
<1>4. QED  BY <1>1, <1>3 DEF Gone

LEMMA MoveEffect ==
    ASSUME TypeInv, NEW p \in Proc, pc[p] # "idle", NEW step, NEW new,
           pc' = [pc EXCEPT ![p] = step],
           local' = [local EXCEPT ![p] = new],
           new.call = local[p].call, new.no = local[p].no,
           new.meta.version = local[p].meta.version,
           UNCHANGED <<begun, outcome>>
    PROVE  Moves(p, step) /\ local'[p] = new
<1>1. OthersWait(p) /\ pc'[p] = step /\ local'[p] = new
  BY DEF OthersWait, TypeInv, TypeOK
<1>2. QED  BY <1>1 DEF Moves

LEMMA HashEffect ==
    ASSUME TypeInv, NEW p \in Proc, Hash(p)
    PROVE  /\ pc[p] = "hash"
           /\ UNCHANGED <<disk, lock, audit, committed>>
           /\ \/ Moves(p, "decrypt") /\ local'[p] = local[p] /\ HashMatches(p)
              \/ Gone(p, "ok") /\ TheCall(p).kind = "verify"
              \/ Gone(p, "mismatch")
<1> USE DEF Hash
<1>1. pc[p] = "hash" /\ UNCHANGED <<disk, lock, audit, begun, committed>>
  OBVIOUS
<1>2. CASE HashMatches(p) /\ TheCall(p).kind # "verify"
  <2>1. /\ pc' = [pc EXCEPT ![p] = "decrypt"]
        /\ local' = [local EXCEPT ![p] = local[p]]
        /\ UNCHANGED <<begun, outcome>>
    BY <1>2 DEF Goto, TypeInv, TypeOK
  <2>2. QED  BY <1>1, <1>2, <2>1, MoveEffect
<1>3. CASE ~(HashMatches(p) /\ TheCall(p).kind # "verify")
  BY <1>1, <1>3, ReturnEffect DEF disk
<1>4. QED  BY <1>2, <1>3

LEMMA DecryptEffect ==
    ASSUME TypeInv, NEW p \in Proc, Decrypt(p)
    PROVE  /\ pc[p] = "decrypt"
           /\ UNCHANGED <<disk, lock, audit, committed>>
           /\ \/ /\ \/ TheCall(p).kind = "read" /\ Moves(p, "return")
                    \/ TheCall(p).kind # "read" /\ Moves(p, "edit")
                 /\ bundle[NsOf(p)] \in CallNo
                 /\ local'[p].meta = local[p].meta
                 /\ local'[p].values = cipher[NsOf(p)][bundle[NsOf(p)]].values
              \/ Gone(p, "undecryptable")
<1> DEFINE b == bundle[NsOf(p)]
           c == cipher[NsOf(p)][b]
           step == IF TheCall(p).kind = "read" THEN "return" ELSE "edit"
           new == [local[p] EXCEPT !.values = c.values, !.seen = b]
<1> USE DEF Decrypt
<1>1. pc[p] = "decrypt" /\ UNCHANGED <<disk, lock, audit, begun, committed>>
  OBVIOUS
<1>2. CASE b # NoCallNo /\ Identity[p] \in c.to
  <2>1. /\ pc' = [pc EXCEPT ![p] = step]
        /\ local' = [local EXCEPT ![p] = new]
        /\ UNCHANGED <<begun, outcome>>
    BY <1>2 DEF Goto, TypeInv, TypeOK
  <2>2. /\ new.call = local[p].call
        /\ new.no = local[p].no
        /\ new.meta = local[p].meta
        /\ new.values = c.values
    <3>1. local[p] \in Local
      BY <1>1, CallType1
    <3>2. QED  BY ONLY <3>1 DEF Local
  <2>3. b \in CallNo
    <3>1. b \in Sha
      BY <1>1, CallType1 DEF TypeInv, TypeOK
    <3>2. QED  BY <1>2, <3>1 DEF Sha
  <2> HIDE DEF new
  <2>4. Moves(p, step) /\ local'[p] = new
    BY <1>1, <2>1, <2>2, MoveEffect
  <2>5. QED  BY <1>1, <2>2, <2>3, <2>4
<1>3. CASE ~(b # NoCallNo /\ Identity[p] \in c.to)
  <2>1. Return(p, "undecryptable")
    BY <1>3
  <2>2. QED  BY <1>1, <2>1, ReturnEffect DEF disk
<1>4. QED  BY <1>2, <1>3

LEMMA EditEffect ==
    ASSUME TypeInv, NEW p \in Proc, Edit(p)
    PROVE  LET after == Edited(TheCall(p), Before(p), local[p].no) IN
           /\ pc[p] = "edit"
           /\ UNCHANGED <<disk, lock, audit, committed>>
           /\ \/ /\ Moves(p, "lock")
                 /\ EditAllowed(TheCall(p), Before(p))
                 /\ local'[p].meta.recipients = after.recipients
                 /\ local'[p].values = after.values
                 /\ local'[p].labels = after.origins
              \/ Gone(p, "refused")
<1> DEFINE after == Edited(TheCall(p), Before(p), local[p].no)
           new == [local[p] EXCEPT !.meta.recipients = after.recipients,
                                   !.values = after.values,
                                   !.labels = after.origins]
<1>1. pc[p] = "edit" /\ UNCHANGED <<disk, lock, audit, begun, committed>>
  BY DEF Edit
<1>2. CASE EditAllowed(TheCall(p), Before(p))
  <2>1. /\ pc' = [pc EXCEPT ![p] = "lock"]
        /\ local' = [local EXCEPT ![p] = new]
        /\ UNCHANGED <<begun, outcome>>
    BY <1>2 DEF Edit, Goto, TypeInv, TypeOK
  <2>2. /\ new.call = local[p].call
        /\ new.no = local[p].no
        /\ new.meta.version = local[p].meta.version
        /\ new.meta.recipients = after.recipients
        /\ new.values = after.values
        /\ new.labels = after.origins
    <3> HIDE DEF after
    <3>1. local[p] \in Local
      BY <1>1, CallType1
    <3>2. QED  BY ONLY <3>1 DEF Local, ManifestEntry
  <2> HIDE DEF new, after
  <2>3. Moves(p, "lock") /\ local'[p] = new
    BY <1>1, <2>1, <2>2, MoveEffect
  <2>4. QED  BY <1>1, <1>2, <2>2, <2>3 DEF after
<1>3. CASE ~EditAllowed(TheCall(p), Before(p))
  <2>1. Return(p, "refused")
    BY <1>3 DEF Edit
  <2>2. Gone(p, "refused")
    BY <1>1, <2>1, ReturnEffect DEF disk
  <2>3. QED  BY <1>1, <2>2
<1>4. QED  BY <1>2, <1>3

LEMMA LockForCommitEffect ==
    ASSUME TypeInv, NEW p \in Proc, LockForCommit(p)
    PROVE  /\ pc[p] = "lock" /\ lock = Nil
           /\ UNCHANGED <<disk, audit, committed>>
           /\ \/ /\ Moves(p, "saveBundle")
                 /\ VersionUnchanged(p)
                 /\ local'[p].meta = local[p].meta
                 /\ local'[p].values = local[p].values
                 /\ local'[p].labels = local[p].labels
                 /\ OriginAware(p) => /\ local'[p].saved = bundle[NsOf(p)]
                                      /\ local'[p].savedLabels = origins[NsOf(p)]
              \/ Gone(p, "conflict")
<1> DEFINE new == IF OriginAware(p)
                  THEN [local[p] EXCEPT !.saved = bundle[NsOf(p)],
                                        !.savedLabels = origins[NsOf(p)]]
                  ELSE local[p]
<1>1. /\ pc[p] = "lock" /\ lock = Nil
      /\ UNCHANGED <<disk, audit, begun, committed>>
  BY DEF LockForCommit
<1>2. CASE VersionUnchanged(p)
  <2>1. /\ pc' = [pc EXCEPT ![p] = "saveBundle"]
        /\ local' = [local EXCEPT ![p] = new]
        /\ UNCHANGED <<begun, outcome>>
    BY <1>2 DEF LockForCommit, Goto, TypeInv, TypeOK
  <2>2. /\ new.call = local[p].call
        /\ new.no = local[p].no
        /\ new.meta = local[p].meta
        /\ new.values = local[p].values
        /\ new.labels = local[p].labels
        /\ OriginAware(p) => /\ new.saved = bundle[NsOf(p)]
                             /\ new.savedLabels = origins[NsOf(p)]
    <3>1. local[p] \in Local
      BY <1>1, CallType1
    <3>2. QED  BY ONLY <3>1 DEF Local
  <2> HIDE DEF new
  <2>3. Moves(p, "saveBundle") /\ local'[p] = new
    BY <1>1, <2>1, <2>2, MoveEffect
  <2>4. QED  BY <1>1, <1>2, <2>2, <2>3
<1>3. CASE ~VersionUnchanged(p)
  <2>1. Return(p, "conflict")
    BY <1>3 DEF LockForCommit
  <2>2. QED  BY <1>1, <2>1, ReturnEffect DEF disk
<1>4. QED  BY <1>2, <1>3

\* The returns: of a read, after a failure before or under the lock, at the end
\* of the events, by death; and those of the way back.
LEMMA ReturningEffect ==
    ASSUME TypeInv, NEW p \in Proc,
           ReadEnv(p) \/ ReadFails(p) \/ SaveBundleFails(p) \/ Finish(p) \/ Crash(p)
    PROVE  /\ UNCHANGED <<disk, committed>>
           /\ \/ Gone(p, "ok") /\ pc[p] = "return"
              \/ Gone(p, "ok") /\ pc[p] = "audit" /\ local[p].todo = {}
              \/ Gone(p, "ioError") /\ pc[p] # "audit"
              \/ Gone(p, "crashed") /\ Crashes
           /\ Writing(p) => Crash(p) \/ pc[p] = "saveBundle"
<1>1. CASE ReadEnv(p)
  BY <1>1, ReturnEffect DEF ReadEnv, disk, Writing, WritingStep
<1>2. CASE ReadFails(p)
  <2>1. Gone(p, "ioError")
    BY <1>2, ReturnEffect DEF ReadFails, disk
  <2>2. QED  BY <1>2, <2>1 DEF ReadFails, Writing, WritingStep
<1>3. CASE SaveBundleFails(p)
  BY <1>3, ReturnEffect DEF SaveBundleFails, disk
<1>4. CASE Finish(p)
  BY <1>4, ReturnEffect DEF Finish, disk, Writing, WritingStep
<1>5. CASE Crash(p)
  BY <1>5, ReturnEffect DEF Crash, disk
<1>6. QED  BY <1>1, <1>2, <1>3, <1>4, <1>5

LEMMA SaveManifestFailsEffect ==
    ASSUME TypeInv, NEW p \in Proc, SaveManifestFails(p)
    PROVE  /\ pc[p] = "saveManifest" /\ MayFail("manifest")
           /\ UNCHANGED <<disk, audit, committed>>
           /\ \/ OriginAware(p) /\ Moves(p, "undoBundle") /\ local'[p] = local[p]
              \/ ~OriginAware(p) /\ Gone(p, "ioError")
<1>1. /\ pc[p] = "saveManifest" /\ MayFail("manifest")
      /\ UNCHANGED <<disk, audit, begun, committed>>
  BY DEF SaveManifestFails
<1>2. CASE OriginAware(p)
  <2>1. /\ pc' = [pc EXCEPT ![p] = "undoBundle"]
        /\ local' = [local EXCEPT ![p] = local[p]]
        /\ UNCHANGED <<begun, outcome>>
    BY <1>2 DEF SaveManifestFails, Goto, TypeInv, TypeOK
  <2>2. QED  BY <1>1, <1>2, <2>1, MoveEffect
<1>3. CASE ~OriginAware(p)
  <2>1. Return(p, "ioError")
    BY <1>3 DEF SaveManifestFails
  <2>2. QED  BY <1>1, <1>3, <2>1, ReturnEffect DEF disk
<1>4. QED  BY <1>2, <1>3

\* The steps between the files, which leave the locals alone.
LEMMA AdvanceEffect ==
    ASSUME TypeInv, NEW p \in Proc, pc[p] # "idle", NEW step,
           Goto(p, step), UNCHANGED <<local, begun, outcome>>
    PROVE  Moves(p, step) /\ local'[p] = local[p]
<1>1. local' = [local EXCEPT ![p] = local[p]]
  BY DEF TypeInv, TypeOK
<1>2. QED  BY <1>1, MoveEffect DEF Goto

LEMMA SaveOriginsEffect ==
    ASSUME TypeInv, NEW p \in Proc, SaveOrigins(p)
    PROVE  /\ pc[p] = "saveOrigins"
           /\ Moves(p, "saveManifest") /\ local'[p] = local[p]
           /\ UNCHANGED <<manifest, bundle, cipher, lock, audit, committed>>
           /\ origins' = [origins EXCEPT ![NsOf(p)] = local[p].labels]
  BY AdvanceEffect DEF SaveOrigins

LEMMA SaveOriginsFailsEffect ==
    ASSUME TypeInv, NEW p \in Proc, SaveOriginsFails(p)
    PROVE  /\ pc[p] = "saveOrigins" /\ MayFail("origins")
           /\ Moves(p, "undoBundle") /\ local'[p] = local[p]
           /\ UNCHANGED <<disk, lock, audit, committed>>
  BY AdvanceEffect DEF SaveOriginsFails

LEMMA UndoBundleEffect ==
    ASSUME TypeInv, NEW p \in Proc, UndoBundle(p)
    PROVE  /\ pc[p] = "undoBundle"
           /\ Moves(p, "undoOrigins") /\ local'[p] = local[p]
           /\ UNCHANGED <<manifest, origins, cipher, lock, audit, committed>>
           /\ \/ bundle' = [bundle EXCEPT ![NsOf(p)] = local[p].saved]
              \/ MayFail("undo") /\ UNCHANGED bundle
  BY AdvanceEffect DEF UndoBundle

LEMMA UndoOriginsEffect ==
    ASSUME TypeInv, NEW p \in Proc, UndoOrigins(p)
    PROVE  /\ pc[p] = "undoOrigins" /\ Gone(p, "ioError")
           /\ UNCHANGED <<manifest, bundle, cipher, audit, committed>>
           /\ \/ origins' = [origins EXCEPT ![NsOf(p)] = local[p].savedLabels]
              \/ MayFail("undo") /\ UNCHANGED origins
  BY ReturnEffect DEF UndoOrigins

LEMMA SaveBundleEffect ==
    ASSUME TypeInv, NEW p \in Proc, SaveBundle(p)
    PROVE  /\ pc[p] = "saveBundle"
           /\ UNCHANGED <<manifest, origins, lock, audit, committed>>
           /\ Moves(p, IF OriginAware(p) THEN "saveOrigins" ELSE "saveManifest")
           /\ local'[p].meta.recipients = local[p].meta.recipients
           /\ local'[p].meta.sha = local[p].no
           /\ local'[p].values = local[p].values
           /\ local'[p].labels = local[p].labels
           /\ local'[p].saved = local[p].saved
           /\ local'[p].savedLabels = local[p].savedLabels
           /\ NsOf(p) \in Namespace /\ local[p].no \in CallNo
           /\ bundle' = [bundle EXCEPT ![NsOf(p)] = local[p].no]
           /\ cipher'[NsOf(p)][local[p].no] =
                 [values |-> local[p].values, to |-> local[p].meta.recipients]
           /\ \A ns \in Namespace, n \in CallNo :
                 ns # NsOf(p) \/ n # local[p].no => cipher'[ns][n] = cipher[ns][n]
<1> DEFINE step == IF OriginAware(p) THEN "saveOrigins" ELSE "saveManifest"
           new == [local[p] EXCEPT !.meta.sha = local[p].no]
<1>1. /\ pc[p] = "saveBundle"
      /\ UNCHANGED <<manifest, origins, lock, audit, committed, begun, outcome>>
      /\ bundle' = [bundle EXCEPT ![NsOf(p)] = local[p].no]
  BY DEF SaveBundle
<1>2. /\ pc' = [pc EXCEPT ![p] = step]
      /\ local' = [local EXCEPT ![p] = new]
  BY DEF SaveBundle, Goto, TypeInv, TypeOK
<1>3. local[p] \in Local /\ NsOf(p) \in Namespace /\ local[p].no \in CallNo
  BY <1>1, CallType1
<1>4. /\ new.call = local[p].call
      /\ new.no = local[p].no
      /\ new.meta.version = local[p].meta.version
      /\ new.meta.recipients = local[p].meta.recipients
      /\ new.meta.sha = local[p].no
      /\ new.values = local[p].values
      /\ new.labels = local[p].labels
      /\ new.saved = local[p].saved
      /\ new.savedLabels = local[p].savedLabels
  BY ONLY <1>3 DEF Local, ManifestEntry
<1> HIDE DEF new, step
<1>5. Moves(p, step) /\ local'[p] = new
  BY <1>1, <1>2, <1>4, MoveEffect
<1>6. /\ cipher'[NsOf(p)][local[p].no] =
            [values |-> local[p].values, to |-> local[p].meta.recipients]
      /\ \A ns \in Namespace, n \in CallNo :
            ns # NsOf(p) \/ n # local[p].no => cipher'[ns][n] = cipher[ns][n]
  BY <1>3 DEF SaveBundle, TypeInv, TypeOK
<1>7. QED  BY <1>1, <1>3, <1>4, <1>5, <1>6 DEF step

LEMMA RecordedEffect ==
    ASSUME SafetyInv, NEW p \in Proc, SaveManifest(p)
    PROVE  /\ Moves(p, "audit")
           /\ local'[p].values = local[p].values
           /\ local'[p].todo = Events(p)
           /\ UNCHANGED <<bundle, origins, cipher, audit>>
           /\ committed' = committed \union {local[p].no}
<1> DEFINE new == [local[p] EXCEPT !.todo = Events(p)]
<1>1. /\ pc' = [pc EXCEPT ![p] = "audit"]
      /\ local' = [local EXCEPT ![p] = new]
      /\ pc[p] = "saveManifest"
      /\ UNCHANGED <<bundle, origins, cipher, audit, begun, outcome>>
      /\ committed' = committed \union {local[p].no}
  BY DEF SaveManifest, Goto, SafetyInv, TypeInv, TypeOK
<1>2. /\ new.call = local[p].call
      /\ new.no = local[p].no
      /\ new.meta = local[p].meta
      /\ new.values = local[p].values
      /\ new.todo = Events(p)
  <2>1. local[p] \in Local
    BY <1>1, CallType1 DEF SafetyInv
  <2>2. QED  BY ONLY <2>1 DEF Local
<1> HIDE DEF new
<1>3. Moves(p, "audit") /\ local'[p] = new
  BY <1>1, <1>2, MoveEffect DEF SafetyInv
<1>4. QED  BY <1>1, <1>2, <1>3

LEMMA RecordEventEffect ==
    ASSUME TypeInv, NEW p \in Proc, RecordEvent(p)
    PROVE  /\ pc[p] = "audit" /\ Moves(p, "audit")
           /\ UNCHANGED <<disk, lock, committed>>
           /\ local'[p].meta = local[p].meta
           /\ local'[p].values = local[p].values
           /\ \E s \in local[p].todo :
                 /\ local'[p].todo = local[p].todo \ {s}
                 /\ \/ audit' = audit \union {<<local[p].no, s>>}
                    \/ MayFail("audit") /\ UNCHANGED audit
<1>1. pc[p] = "audit" /\ UNCHANGED <<disk, lock, pc, begun, outcome, committed>>
  BY DEF RecordEvent
<1>2. PICK s \in local[p].todo :
          /\ \/ audit' = audit \union {<<local[p].no, s>>}
             \/ MayFail("audit") /\ UNCHANGED audit
          /\ local' = [local EXCEPT ![p].todo = @ \ {s}]
  BY DEF RecordEvent
<1> DEFINE new == [local[p] EXCEPT !.todo = @ \ {s}]
<1>3. /\ pc' = [pc EXCEPT ![p] = "audit"]
      /\ local' = [local EXCEPT ![p] = new]
  BY <1>1, <1>2 DEF TypeInv, TypeOK
<1>4. /\ new.call = local[p].call
      /\ new.no = local[p].no
      /\ new.meta = local[p].meta
      /\ new.values = local[p].values
      /\ new.todo = local[p].todo \ {s}
  <2>1. local[p] \in Local
    BY <1>1, CallType1
  <2>2. QED  BY ONLY <2>1 DEF Local
<1> HIDE DEF new
<1>5. Moves(p, "audit") /\ local'[p] = new
  BY <1>1, <1>3, <1>4, MoveEffect
<1>6. QED  BY <1>1, <1>2, <1>4, <1>5

\* A call begins, or is refused at once.
BeginsWith(p, c) ==
    /\ UNCHANGED <<disk, audit, committed>>
    /\ OthersWait(p)
    /\ pc[p] = "idle" /\ lock = Nil
    /\ begun < MaxCalls + 1 /\ begun' = begun + 1
    /\ \A n \in CallNo \ {begun + 1} : outcome'[n] = outcome[n]
    /\ \/ /\ pc'[p] = "idle" /\ local'[p] = local[p]
          /\ outcome'[begun + 1] \in {"uninitialized", "exists"}
       \/ /\ outcome' = outcome
          /\ local'[p].call = c
          /\ local'[p].no = begun + 1
          /\ local'[p].values = NoValues
          /\ local'[p].labels = NoOrigins
          /\ \/ /\ pc'[p] = "hash" /\ c.kind # "init" /\ lock' = Nil
                /\ Listed(c.ns) /\ local'[p].meta = manifest[c.ns]
             \/ /\ pc'[p] = "saveBundle" /\ c.kind = "init" /\ lock' = p
                /\ ~Listed(c.ns)
                /\ local'[p].meta.version = 0
                /\ local'[p].meta.recipients = c.recipients

LEMMA BeginsEffect ==
    ASSUME TypeInv, NEW p \in Proc, NEW c \in Calls, Load(p, c) \/ LockForInit(p, c)
    PROVE  BeginsWith(p, c)
<1>1. /\ UNCHANGED <<disk, audit, committed>>
      /\ pc[p] = "idle" /\ lock = Nil
  BY DEF Load, LockForInit
<1>2. begun \in CallNo /\ MaxCalls \in Nat
  BY DEF TypeInv, TypeOK
<1>3. CASE Load(p, c) /\ Listed(c.ns)
  <2> DEFINE new == [NoLocal EXCEPT !.call = c, !.no = begun + 1,
                                    !.meta = manifest[c.ns], !.values = NoValues]
  <2>1. /\ pc' = [pc EXCEPT ![p] = "hash"]
        /\ local' = [local EXCEPT ![p] = new]
        /\ begun < MaxCalls + 1 /\ begun' = begun + 1
        /\ outcome' = outcome /\ lock' = Nil
        /\ c.kind # "init"
    BY <1>1, <1>3 DEF Load, Begin, Goto, RewriteKind, ReadKind, OriginKind,
                      RecipientKind, ValueKind, DropKind
  <2>2. /\ new.call = c /\ new.no = begun + 1 /\ new.meta = manifest[c.ns]
        /\ new.values = NoValues /\ new.labels = NoOrigins
    BY DEF NoLocal
  <2> HIDE DEF new
  <2>3. OthersWait(p) /\ pc'[p] = "hash" /\ local'[p] = new
    BY <2>1 DEF OthersWait, TypeInv, TypeOK
  <2>4. QED  BY <1>1, <1>3, <2>1, <2>2, <2>3 DEF BeginsWith
<1>4. CASE LockForInit(p, c) /\ ~Listed(c.ns)
  <2> DEFINE entry == [NoEntry EXCEPT !.recipients = c.recipients]
             new == [NoLocal EXCEPT !.call = c, !.no = begun + 1,
                                    !.meta = entry, !.values = NoValues]
  <2>1. /\ pc' = [pc EXCEPT ![p] = "saveBundle"]
        /\ local' = [local EXCEPT ![p] = new]
        /\ begun < MaxCalls + 1 /\ begun' = begun + 1
        /\ outcome' = outcome /\ lock' = p
        /\ c.kind = "init"
    BY <1>1, <1>4 DEF LockForInit, Begin, Goto
  <2>2. /\ new.call = c /\ new.no = begun + 1 /\ new.meta = entry
        /\ new.values = NoValues /\ new.labels = NoOrigins
    BY DEF NoLocal
  <2>3. entry.version = 0 /\ entry.recipients = c.recipients
    BY DEF NoEntry
  <2> HIDE DEF new, entry
  <2>4. OthersWait(p) /\ pc'[p] = "saveBundle" /\ local'[p] = new
    BY <2>1 DEF OthersWait, TypeInv, TypeOK
  <2>5. QED  BY <1>1, <1>4, <2>1, <2>2, <2>3, <2>4 DEF BeginsWith
<1>5. CASE (Load(p, c) /\ ~Listed(c.ns)) \/ (LockForInit(p, c) /\ Listed(c.ns))
  <2>1. PICK how \in {"uninitialized", "exists"} :
            /\ outcome' = [outcome EXCEPT ![begun + 1] = how]
            /\ begun < MaxCalls + 1 /\ begun' = begun + 1
            /\ UNCHANGED <<pc, local>>
    BY <1>5 DEF Load, LockForInit
  <2>2. begun + 1 \in CallNo
    BY <1>2, <2>1 DEF CallNo
  <2>3. /\ outcome'[begun + 1] = how
        /\ \A n \in CallNo \ {begun + 1} : outcome'[n] = outcome[n]
    BY <2>1, <2>2 DEF TypeInv, TypeOK
  <2>4. QED  BY <1>1, <2>1, <2>3 DEF BeginsWith, OthersWait
<1>6. QED  BY <1>3, <1>4, <1>5

-----------------------------------------------------------------------------
(* The audit log *)

\* What p itself has claimed for key k.
Claims(p, k) ==
    \/ Prepared(p) /\ local[p].values[k] = local[p].no
    \/ pc[p] = "audit" /\ k \in local[p].todo

\* Outcomes are final and the log only grows.
Remembered ==
    /\ audit \subseteq audit'
    /\ \A n \in CallNo : outcome[n] # "none" => outcome'[n] = outcome[n]

LEMMA AccountsDef ==
    ASSUME NEW v \in Nat, NEW k \in Key
    PROVE  <<v, k>> \in Accounts <=> Accounted(v, k)
  BY DEF Accounts

\* An account is kept by a step of p that keeps p's own claim accounted for.
LEMMA AccountedStays ==
    ASSUME NEW p \in Proc, OthersWait(p), Remembered,
           NEW v \in Nat, NEW k \in Key, <<v, k>> \in Accounts,
           v = local[p].no /\ Claims(p, k) => <<v, k>> \in Accounts'
    PROVE  <<v, k>> \in Accounts'
<1>1. Accounted(v, k)
  BY AccountsDef
<1>2. Accounted(v, k)' => <<v, k>> \in Accounts'
  BY DEF Accounts
<1>3. CASE v \in {Absent, 1}
  BY <1>2, <1>3 DEF Accounted
<1>4. CASE v \in CallNo /\ outcome[v] \notin {"none", "ok"}
  BY <1>2, <1>4 DEF Accounted, Remembered
<1>5. CASE <<v, k>> \in audit
  BY <1>2, <1>5 DEF Accounted, Remembered
<1>6. ASSUME NEW q \in Proc, local[q].no = v,
             \/ Prepared(q) /\ local[q].values[k] = v
             \/ pc[q] = "audit" /\ k \in local[q].todo
      PROVE  <<v, k>> \in Accounts'
  <2>1. CASE q = p
    BY <1>6, <2>1 DEF Claims
  <2>2. CASE q # p
    BY <1>2, <1>6, <2>2 DEF OthersWait, Accounted, Prepared, Writing
  <2>3. QED  BY <2>1, <2>2
<1>7. QED  BY <1>1, <1>3, <1>4, <1>5, <1>6 DEF Accounted

\* Values flow from ciphertexts to locals and from locals to ciphertexts, and
\* only an edit makes one up.
LEMMA AccountsFlow ==
    ASSUME AccountInv, NEW p \in Proc, OthersWait(p), Remembered,
           \A k \in Key : Claims(p, k) => <<local[p].no, k>> \in Accounts',
           \A k \in Key :
              \/ local'[p].values[k] \in {Absent, local[p].values[k]}
              \/ \E ns \in Namespace, n \in CallNo :
                    local'[p].values[k] = cipher[ns][n].values[k]
              \/ <<local'[p].values[k], k>> \in Accounts',
           \A ns \in Namespace, n \in CallNo, k \in Key :
              cipher'[ns][n].values[k] \in {cipher[ns][n].values[k], local[p].values[k]}
    PROVE  AccountInv'
<1>1. \A v \in Nat, k \in Key : <<v, k>> \in Accounts => <<v, k>> \in Accounts'
  BY AccountedStays
<1>2. \A v, k : <<v, k>> \in Accounts => v \in Nat
  BY DEF Accounts
<1>3. ASSUME NEW ns \in Namespace, NEW n \in CallNo, NEW k \in Key
      PROVE  <<cipher'[ns][n].values[k], k>> \in Accounts'
  <2>1. <<cipher'[ns][n].values[k], k>> \in Accounts
    BY DEF AccountInv
  <2>2. QED  BY <1>1, <1>2, <2>1
<1>4. ASSUME NEW q \in Proc, NEW k \in Key
      PROVE  <<local'[q].values[k], k>> \in Accounts'
  <2>1. CASE <<local'[q].values[k], k>> \in Accounts
    BY <1>1, <1>2, <2>1
  <2>2. CASE q # p
    BY <2>1, <2>2 DEF OthersWait, AccountInv
  <2>3. <<Absent, k>> \in Accounts
    BY DEF Accounts, Accounted, Absent
  <2>4. CASE q = p
    BY <2>1, <2>3, <2>4 DEF AccountInv
  <2>5. QED  BY <2>2, <2>4
<1>5. QED  BY <1>3, <1>4 DEF AccountInv

\* A running call has a number of its own, between 2 and begun.
LEMMA OwnNumber ==
    ASSUME SafetyInv, OutcomeInv, NEW p \in Proc, pc[p] # "idle"
    PROVE  /\ local[p].no \in CallNo \ {1} /\ local[p].no <= begun
           /\ local[p].no \in Nat
           /\ local[p].no \notin {Absent, 1}
           /\ outcome[local[p].no] = "none"
           /\ \A q \in Proc \ {p} : pc[q] # "idle" => local[q].no # local[p].no
<1>1. local[p].no \in 2..begun /\ local[p].no \in CallNo /\ begun \in Nat
  BY CallType1 DEF SafetyInv, TypeInv, TypeOK, CipherInv, NumberInv, CallNo
<1>2. QED
  BY <1>1 DEF SafetyInv, CipherInv, NumberInv, OutcomeInv, Absent

\* Nobody has seen the value a call is about to give.
LEMMA OwnValueIsNew ==
    ASSUME SafetyInv, AuditInv, NEW p \in Proc, pc[p] = "edit", NEW k \in Key
    PROVE  local[p].values[k] # local[p].no
<1>1. SUFFICES ASSUME local[p].values[k] = local[p].no PROVE FALSE
  OBVIOUS
<1>2. Accounted(local[p].no, k)
  BY <1>1 DEF AuditInv, AccountInv, Accounts
<1>3. local[p].no \notin committed
  BY DEF SafetyInv, CipherInv, NumberInv
<1>4. <<local[p].no, k>> \notin audit
  BY <1>3 DEF AuditInv, LogInv
<1>5. \A q \in Proc : local[q].no = local[p].no /\ pc[q] # "idle" => q = p
  BY OwnNumber DEF AuditInv
<1>6. ~Prepared(p)
  BY DEF Prepared, Writing, WritingStep
<1>7. \A q \in Proc : Prepared(q) => pc[q] # "idle"
  BY DEF Prepared, Writing, WritingStep
<1>8. QED
  BY <1>2, <1>4, <1>5, <1>6, <1>7, OwnNumber DEF AuditInv, Accounted

LEMMA GoneKeepsOutcomes ==
    ASSUME SafetyInv, OutcomeInv, NEW p \in Proc, NEW how, Gone(p, how), how # "none",
           how \in {"refused", "conflict", "ioError"} => pc[p] # "audit"
    PROVE  OutcomeInv'
<1>0. /\ local[p].no \in CallNo \ {1} /\ local[p].no <= begun
      /\ outcome[local[p].no] = "none"
      /\ \A q \in Proc \ {p} : pc[q] # "idle" => local[q].no # local[p].no
      /\ begun \in Nat
  BY OwnNumber DEF Gone, SafetyInv, TypeInv, TypeOK, CallNo
<1>1. pc[p] # "audit" => local[p].no \notin committed
  BY DEF Gone, SafetyInv, CipherInv, NumberInv
<1>2. ASSUME NEW n \in CallNo, outcome'[n] \in {"refused", "conflict", "ioError"}
      PROVE  n \notin committed'
  BY <1>1, <1>2 DEF Gone, OutcomeInv, Failed
<1>3. ASSUME NEW n \in CallNo, n = 1 \/ n > begun'
      PROVE  outcome'[n] = "none"
  <2>1. n # local[p].no
    BY <1>0, <1>3 DEF Gone, CallNo
  <2>2. QED  BY <1>3, <2>1 DEF Gone, OutcomeInv
<1>4. ASSUME NEW q \in Proc, pc'[q] # "idle"
      PROVE  /\ outcome'[local'[q].no] = "none"
             /\ pc'[q] = "audit" => local'[q].no \in committed'
  <2>1. q # p /\ pc[q] = pc'[q] /\ local[q] = local'[q]
    BY <1>4 DEF Gone, OthersWait
  <2>2. local[q].no \in CallNo
    BY <1>4, <2>1, CallType1 DEF SafetyInv
  <2>3. QED  BY <1>0, <1>4, <2>1, <2>2 DEF Gone, OutcomeInv
<1>5. QED  BY <1>2, <1>3, <1>4 DEF OutcomeInv, Failed

LEMMA GoneKeepsAudit ==
    ASSUME SafetyInv, AuditInv, NEW p \in Proc, NEW how, Gone(p, how), how # "none",
           how \in {"refused", "conflict", "ioError"} => pc[p] # "audit",
           how = "ok" => \A k \in Key : ~Claims(p, k)
    PROVE  AuditInv'
<1> USE DEF AuditInv
<1>1. /\ local[p].no \in CallNo \ {1} /\ local[p].no <= begun
      /\ outcome[local[p].no] = "none"
      /\ \A q \in Proc \ {p} : pc[q] # "idle" => local[q].no # local[p].no
      /\ begun \in Nat
  BY OwnNumber DEF Gone, SafetyInv, TypeInv, TypeOK, CallNo
<1>2. OutcomeInv'
  BY GoneKeepsOutcomes
<1>3. EventsInv'
  <2> SUFFICES ASSUME NEW q \in Proc, NEW k \in Key,
                      Prepared(q)', local'[q].values[k] = local'[q].no
               PROVE  k \in Events(q)'
    BY DEF EventsInv
  <2>1. q # p /\ pc'[q] = pc[q] /\ local'[q] = local[q]
    BY DEF Gone, OthersWait, Prepared, Writing, WritingStep
  <2>2. QED
    BY <2>1 DEF EventsInv, Events, TheCall, Prepared, Writing
<1>4. Remembered
  BY <1>1 DEF Gone, Remembered
<1>5. ASSUME NEW k \in Key, Claims(p, k)
      PROVE  <<local[p].no, k>> \in Accounts'
  BY <1>1, <1>5 DEF Gone, Accounts, Accounted, CallNo
<1>6. \A k \in Key : local'[p].values[k] = Absent
  BY DEF Gone, NoLocal, NoValues
<1>7. AccountInv'
  BY <1>4, <1>5, <1>6, AccountsFlow DEF Gone, SafetyInv
<1>8. LogInv'
  BY DEF Gone, LogInv
<1>9. QED  BY <1>2, <1>3, <1>7, <1>8

\* What is common to the steps by which a call goes on.
LEMMA MovesKeepOutcomes ==
    ASSUME SafetyInv, OutcomeInv, NEW p \in Proc, NEW step, Moves(p, step),
           \/ committed' = committed /\ (step = "audit" => pc[p] = "audit")
           \/ committed' = committed \union {local[p].no}
    PROVE  OutcomeInv'
<1>1. outcome[local[p].no] = "none"
  BY OwnNumber DEF Moves
<1>2. \A n \in CallNo : Failed(n)' => n \notin committed'
  BY <1>1 DEF Moves, OutcomeInv, Failed
<1>3. ASSUME NEW q \in Proc, pc'[q] # "idle"
      PROVE  /\ outcome'[local'[q].no] = "none"
             /\ pc'[q] = "audit" => local'[q].no \in committed'
  <2>1. CASE q = p
    BY <1>1, <2>1 DEF Moves, OutcomeInv
  <2>2. CASE q # p
    BY <1>3, <2>2 DEF Moves, OthersWait, OutcomeInv
  <2>3. QED  BY <2>1, <2>2
<1>4. QED  BY <1>2, <1>3 DEF OutcomeInv, Moves

LEMMA OthersEvents ==
    ASSUME EventsInv, NEW p \in Proc, OthersWait(p),
           NEW q \in Proc \ {p}, NEW k \in Key,
           Prepared(q)', local'[q].values[k] = local'[q].no
    PROVE  k \in Events(q)'
<1>1. pc'[q] = pc[q] /\ local'[q] = local[q]
  BY DEF OthersWait
<1>2. k \in Events(q)
  BY <1>1 DEF EventsInv, Prepared, Writing
<1>3. QED  BY <1>1, <1>2 DEF Events, TheCall

\* A step that makes up no value and appends no event.
LEMMA MovesKeepAudit ==
    ASSUME SafetyInv, AuditInv, NEW p \in Proc, NEW step, Moves(p, step),
           UNCHANGED <<audit, committed>>, step # "audit", pc[p] # "audit",
           \/ /\ Prepared(p) /\ Prepared(p)' /\ local'[p].values = local[p].values
              /\ \A ns \in Namespace, n \in CallNo, k \in Key :
                    cipher'[ns][n].values[k] \in {cipher[ns][n].values[k], local[p].values[k]}
           \/ /\ ~Prepared(p) /\ ~Prepared(p)' /\ UNCHANGED cipher
              /\ \/ local'[p].values = local[p].values
                 \/ \E ns \in Namespace, n \in CallNo :
                       local'[p].values = cipher[ns][n].values
    PROVE  AuditInv'
<1> USE DEF AuditInv
<1>1. OutcomeInv'
  BY MovesKeepOutcomes
<1>2. EventsInv'
  <2> SUFFICES ASSUME NEW q \in Proc, NEW k \in Key,
                      Prepared(q)', local'[q].values[k] = local'[q].no
               PROVE  k \in Events(q)'
    BY DEF EventsInv
  <2>1. CASE q = p
    <3>1. k \in Events(p)
      BY <2>1 DEF Moves, EventsInv
    <3>2. QED  BY <2>1, <3>1 DEF Moves, Events, TheCall
  <2>2. CASE q # p
    BY <2>2, OthersEvents DEF Moves
  <2>3. QED  BY <2>1, <2>2
<1>3. AccountInv'
  <2>1. Remembered /\ OthersWait(p)
    BY DEF Moves, Remembered
  <2>2. ASSUME NEW k \in Key, Claims(p, k)
        PROVE  <<local[p].no, k>> \in Accounts'
    <3>1. /\ Prepared(p)' /\ local'[p].no = local[p].no
          /\ local'[p].values[k] = local[p].no
      BY <2>2 DEF Claims, Moves
    <3>2. local[p].no \in Nat
      <4>1. pc[p] # "idle"
        BY DEF Moves
      <4>2. QED  BY <4>1, OwnNumber
    <3>3. \E q \in Proc :
              /\ local'[q].no = local[p].no
              /\ Prepared(q)' /\ local'[q].values[k] = local[p].no
      BY ONLY <3>1, p \in Proc DEF Prepared, Writing
    <3>4. QED  BY ONLY <3>2, <3>3, k \in Key DEF Accounts, Accounted
  <2>3. \A k \in Key :
              \/ local'[p].values[k] = local[p].values[k]
              \/ \E ns \in Namespace, n \in CallNo :
                    local'[p].values[k] = cipher[ns][n].values[k]
    OBVIOUS
  <2>4. \A ns \in Namespace, n \in CallNo, k \in Key :
            cipher'[ns][n].values[k] \in {cipher[ns][n].values[k], local[p].values[k]}
    OBVIOUS
  <2>5. QED  BY <2>1, <2>2, <2>3, <2>4, AccountsFlow
<1>4. LogInv'
  BY DEF LogInv
<1>5. QED  BY <1>1, <1>2, <1>3, <1>4

\* An edit gives its keys the call's own number, and has events for them.
LEMMA EditedValuesSource ==
    ASSUME NEW c \in CallType, NEW e \in Content, NEW v \in Nat, NEW k \in Key
    PROVE  \/ Edited(c, e, v).values[k] \in {Absent, e.values[k]}
           \/ /\ Edited(c, e, v).values[k] = v
              /\ \/ c.kind \in ValueKind /\ k \in c.keys
                 \/ c.kind = "recipientRotate"
  BY DEF Edited, EditedValues, Stamped, Rotated, Deleted, ValueKind

LEMMA BeforeType ==
    ASSUME TypeInv, NEW p \in Proc, local[p] \in Local, NsOf(p) \in Namespace
    PROVE  Before(p) \in Content
<1>1. local[p].meta.recipients \in SUBSET Recipient /\ local[p].values \in [Key -> Nat]
  BY ONLY local[p] \in Local DEF Local, ManifestEntry
<1>2. origins[NsOf(p)] \in [Key -> Origin \union {NoOrigin}]
  BY DEF TypeInv, TypeOK
<1>3. QED  BY <1>1, <1>2 DEF Before, Content

LEMMA EditKeepsAudit ==
    ASSUME SafetyInv, AuditInv, NEW p \in Proc, Edit(p)
    PROVE  AuditInv'
<1> DEFINE c == TheCall(p)
           after == Edited(c, Before(p), local[p].no)
<1>1. pc[p] = "edit" /\ UNCHANGED <<disk, lock, audit, committed>>
  BY EditEffect DEF SafetyInv
<1>2. CASE Gone(p, "refused")
  <2>1. QED  BY <1>1, <1>2, GoneKeepsAudit
<1>3. CASE /\ Moves(p, "lock")
           /\ local'[p].values = after.values
  <2> USE DEF AuditInv
  <2>1. /\ c \in CallType /\ c.kind \in RewriteKind
        /\ Before(p) \in Content
        /\ local[p].no \in Nat /\ Before(p).values = local[p].values
    <3>1. /\ c \in CallType /\ c.kind \in RewriteKind /\ NsOf(p) \in Namespace
          /\ local[p] \in Local /\ local[p].no \in CallNo
      BY <1>1, CallType1 DEF SafetyInv, KindsAt
    <3>2. Before(p) \in Content
      BY <3>1, BeforeType DEF SafetyInv
    <3>3. QED  BY <3>1, <3>2 DEF Before, CallNo
  <2>2. ASSUME NEW k \in Key
        PROVE  \/ after.values[k] \in {Absent, local[p].values[k]}
               \/ after.values[k] = local[p].no /\ k \in Events(p)'
    <3>1. \/ after.values[k] \in {Absent, local[p].values[k]}
          \/ /\ after.values[k] = local[p].no
             /\ \/ c.kind \in ValueKind /\ k \in c.keys
                \/ c.kind = "recipientRotate"
      BY ONLY <2>1, k \in Key, EditedValuesSource
    <3>2. local'[p].call = c /\ local'[p].no = local[p].no
      BY <1>3 DEF Moves, TheCall
    <3> HIDE DEF after
    <3>3. QED  BY <1>3, <3>1, <3>2 DEF Events, TheCall, ValueKind
  <2> HIDE DEF after
  <2>3. OutcomeInv'
    BY <1>1, <1>3, MovesKeepOutcomes
  <2>4. local[p].no # Absent
    BY <1>1, OwnNumber
  <2>5. \A k \in Key : local[p].values[k] # local[p].no
    BY <1>1, OwnValueIsNew
  <2>6. EventsInv'
    <3> SUFFICES ASSUME NEW q \in Proc, NEW k \in Key,
                        Prepared(q)', local'[q].values[k] = local'[q].no
                 PROVE  k \in Events(q)'
      BY DEF EventsInv
    <3>1. CASE q = p
      BY <1>3, <2>2, <2>4, <2>5, <3>1 DEF Moves
    <3>2. CASE q # p
      BY <1>3, <3>2, OthersEvents DEF Moves
    <3>3. QED  BY <3>1, <3>2
  <2>7. AccountInv'
    <3>1. Remembered /\ OthersWait(p)
      BY <1>1, <1>3 DEF Moves, Remembered
    <3>2. \A k \in Key : ~Claims(p, k)
      BY <1>1 DEF Claims, Prepared, Writing, WritingStep
    <3>3. Prepared(p)' /\ local'[p].no = local[p].no
      BY <1>3 DEF Moves, Prepared
    <3>4. ASSUME NEW k \in Key
          PROVE  \/ local'[p].values[k] \in {Absent, local[p].values[k]}
                 \/ <<local'[p].values[k], k>> \in Accounts'
      <4>1. local'[p].values[k] = local[p].no => <<local'[p].values[k], k>> \in Accounts'
        BY <2>1, <3>3 DEF Accounts, Accounted
      <4>2. QED  BY <1>3, <2>2, <4>1
    <3>5. UNCHANGED cipher
      BY <1>1 DEF disk
    <3>6. QED  BY <3>1, <3>2, <3>4, <3>5, AccountsFlow
  <2>8. LogInv'
    BY <1>1 DEF LogInv
  <2>9. QED  BY <2>3, <2>6, <2>7, <2>8
<1>4. QED  BY <1>2, <1>3, EditEffect DEF SafetyInv

\* The manifest write puts the events of every value of its own on the list.
LEMMA SaveManifestKeepsAudit ==
    ASSUME SafetyInv, AuditInv, NEW p \in Proc, SaveManifest(p)
    PROVE  AuditInv'
<1> USE DEF AuditInv
<1>1. /\ Moves(p, "audit") /\ pc[p] = "saveManifest"
      /\ local'[p].values = local[p].values
      /\ local'[p].todo = Events(p)
      /\ UNCHANGED <<cipher, audit>>
      /\ committed' = committed \union {local[p].no}
  BY RecordedEffect, SaveManifestEffect
<1>2. OutcomeInv'
  BY <1>1, MovesKeepOutcomes
<1>3. EventsInv'
  <2> SUFFICES ASSUME NEW q \in Proc, NEW k \in Key,
                      Prepared(q)', local'[q].values[k] = local'[q].no
               PROVE  k \in Events(q)'
    BY DEF EventsInv
  <2>1. q # p
    BY <1>1 DEF Moves, Prepared, Writing, WritingStep
  <2>2. QED  BY <1>1, <2>1, OthersEvents DEF Moves
<1>4. AccountInv'
  <2>1. Remembered /\ OthersWait(p)
    BY <1>1 DEF Moves, Remembered
  <2>2. ASSUME NEW k \in Key, Claims(p, k)
        PROVE  <<local[p].no, k>> \in Accounts'
    <3>1. Prepared(p) /\ local[p].values[k] = local[p].no
      BY <1>1, <2>2 DEF Claims
    <3>2. k \in local'[p].todo /\ pc'[p] = "audit" /\ local'[p].no = local[p].no
      BY <1>1, <3>1 DEF EventsInv, Moves
    <3>3. local[p].no \in Nat
      BY <1>1, OwnNumber
    <3>4. QED  BY <3>2, <3>3 DEF Accounts, Accounted
  <2>3. QED  BY <1>1, <2>1, <2>2, AccountsFlow
<1>5. LogInv'
  BY <1>1 DEF LogInv
<1>6. QED  BY <1>2, <1>3, <1>4, <1>5

LEMMA RecordEventKeepsAudit ==
    ASSUME SafetyInv, AuditInv, "audit" \notin Faults, NEW p \in Proc, RecordEvent(p)
    PROVE  AuditInv'
<1> USE DEF AuditInv
<1>1. /\ pc[p] = "audit" /\ Moves(p, "audit")
      /\ UNCHANGED <<disk, lock, committed>>
      /\ local'[p].values = local[p].values
  BY RecordEventEffect DEF SafetyInv
<1>2. PICK s \in local[p].todo :
          /\ local'[p].todo = local[p].todo \ {s}
          /\ audit' = audit \union {<<local[p].no, s>>}
  BY RecordEventEffect DEF SafetyInv, MayFail
<1>3. OutcomeInv'
  BY <1>1, MovesKeepOutcomes
<1>4. EventsInv'
  <2> SUFFICES ASSUME NEW q \in Proc, NEW k \in Key,
                      Prepared(q)', local'[q].values[k] = local'[q].no
               PROVE  k \in Events(q)'
    BY DEF EventsInv
  <2>1. q # p
    BY <1>1 DEF Moves, Prepared, Writing, WritingStep
  <2>2. QED  BY <1>1, <2>1, OthersEvents DEF Moves
<1>5. AccountInv'
  <2>1. Remembered /\ OthersWait(p)
    BY <1>1, <1>2 DEF Moves, Remembered
  <2>2. ASSUME NEW k \in Key, Claims(p, k)
        PROVE  <<local[p].no, k>> \in Accounts'
    <3>1. k \in local[p].todo
      BY <1>1, <2>2 DEF Claims, Prepared, Writing, WritingStep
    <3>2. \/ <<local[p].no, k>> \in audit'
          \/ pc'[p] = "audit" /\ local'[p].no = local[p].no /\ k \in local'[p].todo
      BY <1>1, <1>2, <3>1 DEF Moves
    <3>3. local[p].no \in Nat
      BY <1>1, OwnNumber
    <3>4. QED  BY <3>2, <3>3 DEF Accounts, Accounted
  <2>3. QED  BY <1>1, <2>1, <2>2, AccountsFlow DEF disk
<1>6. LogInv'
  BY <1>1, <1>2 DEF LogInv, OutcomeInv
<1>7. QED  BY <1>3, <1>4, <1>5, <1>6

LEMMA BeginsKeepsOutcomes ==
    ASSUME SafetyInv, OutcomeInv, NEW p \in Proc, NEW c \in Calls, BeginsWith(p, c)
    PROVE  OutcomeInv'
<1> USE DEF BeginsWith
<1>0. begun \in Nat /\ begun >= 1 /\ begun + 1 \in CallNo
      /\ outcome[begun + 1] = "none" /\ begun + 1 # 1
  BY DEF SafetyInv, TypeInv, TypeOK, CallNo, OutcomeInv
<1>1. begun + 1 \notin committed
  BY <1>0 DEF SafetyInv, CipherInv, NumberInv
<1>2. \A n \in CallNo : Failed(n)' => n \notin committed'
  BY <1>0, <1>1 DEF Failed, OutcomeInv
<1>3. ASSUME NEW n \in CallNo, n = 1 \/ n > begun'
      PROVE  outcome'[n] = "none"
  <2>1. n # begun + 1 /\ (n = 1 \/ n > begun)
    BY <1>0, <1>3 DEF CallNo
  <2>2. QED  BY <2>1 DEF OutcomeInv
<1>4. ASSUME NEW q \in Proc, pc'[q] # "idle"
      PROVE  /\ outcome'[local'[q].no] = "none"
             /\ pc'[q] = "audit" => local'[q].no \in committed'
  <2>1. CASE q = p
    BY <1>0, <1>4, <2>1
  <2>2. CASE q # p
    <3>1. local[q].no \in CallNo /\ local[q].no <= begun /\ pc[q] # "idle"
      BY <1>4, <2>2, OwnNumber DEF OthersWait
    <3>2. local[q].no # begun + 1
      BY <1>0, <3>1
    <3>3. QED  BY <1>4, <2>2, <3>1, <3>2 DEF OthersWait, OutcomeInv
  <2>3. QED  BY <2>1, <2>2
<1>5. QED  BY <1>2, <1>3, <1>4 DEF OutcomeInv

LEMMA BeginsKeepsAudit ==
    ASSUME SafetyInv, AuditInv, NEW p \in Proc, NEW c \in Calls, BeginsWith(p, c)
    PROVE  AuditInv'
<1> USE DEF AuditInv, BeginsWith
<1>1. begun \in Nat /\ begun >= 1 /\ begun + 1 \in CallNo
      /\ outcome[begun + 1] = "none" /\ begun + 1 # 1
  BY DEF SafetyInv, TypeInv, TypeOK, CallNo, OutcomeInv
<1>2. OutcomeInv'
  BY BeginsKeepsOutcomes
<1>3. EventsInv'
  <2> SUFFICES ASSUME NEW q \in Proc, NEW k \in Key,
                      Prepared(q)', local'[q].values[k] = local'[q].no
               PROVE  k \in Events(q)'
    BY DEF EventsInv
  <2>1. q # p
    BY <1>1 DEF Prepared, Writing, WritingStep, NoValues, Absent
  <2>2. QED  BY <2>1, OthersEvents
<1>4. AccountInv'
  <2>1. Remembered
    BY <1>1 DEF Remembered
  <2>2. \A k \in Key : ~Claims(p, k)
    BY DEF Claims, Prepared, Writing, WritingStep
  <2>3. \A k \in Key : local'[p].values[k] \in {Absent, local[p].values[k]}
    BY DEF NoValues
  <2>4. QED  BY <2>1, <2>2, <2>3, AccountsFlow DEF disk
<1>5. LogInv'
  BY DEF LogInv
<1>6. QED  BY <1>2, <1>3, <1>4, <1>5

LEMMA InitAudit == Init => AuditInv
<1> SUFFICES ASSUME Init PROVE AuditInv
  OBVIOUS
<1> USE DEF Init
<1>1. OutcomeInv
  BY DEF OutcomeInv, Failed
<1>2. EventsInv
  BY DEF EventsInv, Prepared, Writing, WritingStep
<1>3. AccountInv
  <2>1. \A ns \in Namespace, n \in CallNo, k \in Key :
            cipher[ns][n].values[k] \in {Absent, 1}
    OBVIOUS
  <2>2. \A p \in Proc, k \in Key : local[p].values[k] = Absent
    BY DEF NoLocal, NoValues
  <2>3. QED  BY <2>1, <2>2 DEF AccountInv, Accounts, Accounted, Absent
<1>4. QED  BY <1>1, <1>2, <1>3 DEF AuditInv, LogInv

LEMMA NextAudit ==
    ASSUME SafetyInv, AuditInv, "audit" \notin Faults, [Next]_vars
    PROVE  AuditInv'
<1>1. CASE UNCHANGED vars
  <2> USE <1>1 DEF vars, disk, AuditInv
  <2>1. OutcomeInv'
    BY DEF OutcomeInv, Failed
  <2>2. EventsInv'
    BY DEF EventsInv, Events, TheCall, Prepared, Writing
  <2>3. AccountInv'
    <3>1. Accounts' = Accounts
      BY DEF Accounts, Accounted, Prepared, Writing
    <3>2. QED  BY <3>1 DEF AccountInv
  <2>4. QED  BY <2>1, <2>2, <2>3 DEF LogInv
<1>2. ASSUME NEW p \in Proc, NEW c \in Calls, Load(p, c) \/ LockForInit(p, c)
      PROVE  AuditInv'
  BY <1>2, BeginsEffect, BeginsKeepsAudit DEF SafetyInv
<1>3. ASSUME NEW p \in Proc, SaveBundle(p)
      PROVE  AuditInv'
  <2>1. PICK step \in {"saveOrigins", "saveManifest"} : Moves(p, step)
    BY <1>3, SaveBundleEffect DEF SafetyInv
  <2>2. Prepared(p) /\ Prepared(p)'
    BY <1>3, <2>1, SaveBundleEffect DEF SafetyInv, Moves, Prepared, Writing, WritingStep
  <2>3. \A ns \in Namespace, n \in CallNo, k \in Key :
            cipher'[ns][n].values[k] \in {cipher[ns][n].values[k], local[p].values[k]}
    <3>1. /\ cipher'[NsOf(p)][local[p].no] =
                [values |-> local[p].values, to |-> local[p].meta.recipients]
          /\ \A ns \in Namespace, n \in CallNo :
                ns # NsOf(p) \/ n # local[p].no => cipher'[ns][n] = cipher[ns][n]
      <4>1. TypeInv
        BY DEF SafetyInv
      <4>2. QED  BY ONLY <1>3, <4>1, p \in Proc, SaveBundleEffect
    <3>2. QED  BY ONLY <3>1
  <2>4. QED  BY <1>3, <2>1, <2>2, <2>3, SaveBundleEffect, MovesKeepAudit DEF SafetyInv
<1>4. ASSUME NEW p \in Proc, SaveManifest(p)
      PROVE  AuditInv'
  BY <1>4, SaveManifestKeepsAudit
<1>5. ASSUME NEW p \in Proc, Quiet(p)
      PROVE  AuditInv'
  <2> USE DEF SafetyInv
  <2>1. CASE Hash(p)
    BY <2>1, HashEffect, GoneKeepsAudit, MovesKeepAudit
       DEF Moves, Prepared, Writing, WritingStep, Claims, disk
  <2>2. CASE Decrypt(p)
    <3>1. CASE Gone(p, "undecryptable")
      BY <3>1, GoneKeepsAudit
    <3>2. CASE /\ \E step \in {"return", "edit"} : Moves(p, step)
               /\ bundle[NsOf(p)] \in CallNo
               /\ local'[p].values = cipher[NsOf(p)][bundle[NsOf(p)]].values
      <4>1. pc[p] = "decrypt" /\ UNCHANGED <<audit, committed, cipher>>
        BY <2>2, DecryptEffect DEF disk
      <4>2. PICK step \in {"return", "edit"} : Moves(p, step)
        BY <3>2
      <4>3. NsOf(p) \in Namespace
        BY <4>1, CallType1
      <4>4. ~Prepared(p) /\ ~Prepared(p)'
        BY <4>1, <4>2 DEF Moves, Prepared, Writing, WritingStep
      <4>5. QED  BY <3>2, <4>1, <4>2, <4>3, <4>4, MovesKeepAudit
    <3>3. QED  BY <2>2, <3>1, <3>2, DecryptEffect
  <2>3. CASE Edit(p)
    BY <2>3, EditKeepsAudit
  <2>4. CASE LockForCommit(p)
    <3>1. CASE Gone(p, "conflict")
      BY <2>4, <3>1, LockForCommitEffect, GoneKeepsAudit
    <3>2. CASE Moves(p, "saveBundle") /\ local'[p].values = local[p].values
      <4>1. pc[p] = "lock" /\ UNCHANGED <<audit, committed, cipher>>
        BY <2>4, LockForCommitEffect DEF disk
      <4>2. Prepared(p) /\ Prepared(p)'
        BY <3>2, <4>1 DEF Moves, Prepared, Writing, WritingStep
      <4>3. QED  BY <3>2, <4>1, <4>2, MovesKeepAudit
    <3>3. QED  BY <2>4, <3>1, <3>2, LockForCommitEffect
  <2>5. CASE RecordEvent(p)
    BY <2>5, RecordEventKeepsAudit
  <2>6. CASE ReadEnv(p) \/ ReadFails(p) \/ SaveBundleFails(p) \/ Finish(p) \/ Crash(p)
    BY <2>6, ReturningEffect, GoneKeepsAudit DEF Claims, Prepared, Writing, WritingStep
  <2>7. CASE UndoOrigins(p)
    BY <2>7, UndoOriginsEffect, GoneKeepsAudit
  <2>8. ASSUME NEW step \in {"saveManifest", "undoBundle", "undoOrigins"},
               pc[p] \in {"saveOrigins", "saveManifest", "undoBundle"},
               Moves(p, step), local'[p] = local[p], UNCHANGED <<cipher, audit, committed>>
        PROVE  AuditInv'
    <3>1. Prepared(p) /\ Prepared(p)'
      BY <2>8 DEF Moves, Prepared, Writing, WritingStep
    <3>2. QED  BY <2>8, <3>1, MovesKeepAudit
  <2>9. CASE SaveOrigins(p)
    BY <2>8, <2>9, SaveOriginsEffect
  <2>10. CASE SaveOriginsFails(p)
    BY <2>8, <2>10, SaveOriginsFailsEffect DEF disk
  <2>11. CASE UndoBundle(p)
    BY <2>8, <2>11, UndoBundleEffect
  <2>12. CASE SaveManifestFails(p)
    <3>1. CASE Gone(p, "ioError")
      BY <2>12, <3>1, SaveManifestFailsEffect, GoneKeepsAudit
    <3>2. QED  BY <2>8, <2>12, <3>1, SaveManifestFailsEffect DEF disk
  <2>13. QED
    BY <1>5, <2>1, <2>2, <2>3, <2>4, <2>5, <2>6, <2>7, <2>9, <2>10, <2>11, <2>12
       DEF Quiet, Unlocked, Auditing
<1>6. QED  BY <1>1, <1>2, <1>3, <1>4, <1>5, StepKinds

(***************************************************************************)
(* K-27, for a log that can be appended to: whatever else fails and whoever*)
(* dies, the log holds no event of a call that changed nothing, and a value*)
(* in the store whose call has reported success has its event in the log   *)
(* (recordEvent, after commitEnv and commitEnvWithOrigins).                *)
(***************************************************************************)
THEOREM AuditIsTruthful == "audit" \notin Faults => (Spec => []AuditTellsTheTruth)
<1> SUFFICES ASSUME "audit" \notin Faults PROVE Spec => []AuditTellsTheTruth
  OBVIOUS
<1>1. SafetyInv /\ AuditInv => AuditTellsTheTruth
  <2> SUFFICES ASSUME SafetyInv, AuditInv, NEW ns \in Namespace, NEW k \in Key,
                      CommittedValues(ns)[k] \in committed,
                      outcome[CommittedValues(ns)[k]] = "ok"
               PROVE  <<CommittedValues(ns)[k], k>> \in audit
    BY DEF AuditTellsTheTruth, AuditInv, LogInv
  <2> DEFINE v == CommittedValues(ns)[k]
  <2>1. CommittedNo(ns) \in CallNo
    <3>1. manifest[ns].sha \in Sha
      BY DEF SafetyInv, TypeInv, TypeOK, ManifestEntry
    <3>2. 1 \in CallNo
      BY DEF CallNo
    <3>3. QED  BY <3>1, <3>2 DEF CommittedNo, Sha
  <2>2. <<v, k>> \in Accounts
    BY <2>1 DEF CommittedValues, AuditInv, AccountInv
  <2> HIDE DEF v
  <2>3. Accounted(v, k)
    BY <2>2 DEF Accounts
  <2>4. v \notin {Absent, 1}
    BY DEF v, SafetyInv, CipherInv, NumberInv, Absent
  <2>5. ASSUME NEW p \in Proc, local[p].no = v, Prepared(p) \/ pc[p] = "audit"
        PROVE  FALSE
    <3>1. pc[p] # "idle"
      BY <2>5 DEF Prepared, Writing, WritingStep
    <3>2. QED  BY <2>5, <3>1 DEF v, AuditInv, OutcomeInv
  <2>6. QED  BY <2>3, <2>4, <2>5 DEF v, Accounted
<1>2. SafetyInv /\ SafetyInv' /\ AuditInv /\ [Next]_vars => AuditInv'
  BY NextAudit
<1>3. QED  BY Safety, InitAudit, <1>1, <1>2, PTL DEF Spec

-----------------------------------------------------------------------------
(* The files in sync *)

LEMMA InSyncFits ==
    ASSUME NEW ns \in Namespace
    PROVE  InSync(ns) <=> Fits(ns, bundle[ns], origins[ns])
  BY DEF InSync, Fits

\* A process that neither moves nor sees a file of its own change stays sound.
LEMMA OthersSound ==
    ASSUME SyncInv, NEW p \in Proc, OthersWait(p), NEW q \in Proc \ {p},
           UNCHANGED disk \/ ~Writing(q)
    PROVE  WriterInv(q)'
<1>1. pc'[q] = pc[q] /\ local'[q] = local[q] /\ WriterInv(q)
  BY DEF OthersWait, SyncInv
<1>2. CASE UNCHANGED disk
  BY <1>1, <1>2 DEF disk, WriterInv, Prepared, Writing, NsOf, TheCall, OriginAware,
     Fits, InSync, Listed, CommittedValues, CommittedNo
<1>3. CASE ~Writing(q)
  BY <1>1, <1>3 DEF WriterInv, Prepared, Writing, WritingStep
<1>4. QED  BY <1>2, <1>3

\* A step that leaves the files alone and does not write on.
LEMMA FilesKeptSync ==
    ASSUME SyncInv, NEW p \in Proc, OthersWait(p), UNCHANGED disk, ~Writing(p)',
           Prepared(p)' => \A k \in Key : local'[p].labels[k] # NoOrigin
                                             => local'[p].values[k] # Absent,
           Writing(p) => InSync(NsOf(p))
    PROVE  SyncInv'
<1>1. WriterInv(p)'
  BY DEF WriterInv, Writing, WritingStep
<1>2. \A q \in Proc \ {p} : WriterInv(q)'
  BY OthersSound
<1>3. ASSUME NEW ns \in Namespace
      PROVE  /\ ~Listed(ns)' => manifest'[ns].sha = NoCallNo /\ origins'[ns] = NoOrigins
             /\ (\A q \in Proc : Writing(q)' => NsOf(q)' # ns) => InSync(ns)'
  <2>1. ~Listed(ns)' => manifest'[ns].sha = NoCallNo /\ origins'[ns] = NoOrigins
    BY DEF disk, SyncInv, Listed
  <2>2. ASSUME \A q \in Proc : Writing(q)' => NsOf(q)' # ns
        PROVE  InSync(ns)
    <3>1. \A q \in Proc \ {p} : Writing(q) => NsOf(q) # ns
      BY <2>2 DEF OthersWait, Writing, NsOf
    <3>2. QED  BY <3>1 DEF SyncInv
  <2>3. InSync(ns) => InSync(ns)'
    BY DEF disk, InSync, CommittedValues, CommittedNo
  <2>4. QED  BY <2>1, <2>2, <2>3
<1>4. QED  BY <1>1, <1>2, <1>3 DEF SyncInv

\* What is committed does not change while the manifest does not.
LEMMA CommittedKept ==
    ASSUME SafetyInv, NEW p \in Proc, SaveBundle(p), NEW ns \in Namespace
    PROVE  /\ CommittedNo(ns)' = CommittedNo(ns)
           /\ cipher'[ns][CommittedNo(ns)] = cipher[ns][CommittedNo(ns)]
           /\ CommittedValues(ns)' = CommittedValues(ns)
<1>1. /\ manifest' = manifest /\ pc[p] = "saveBundle"
      /\ \A n \in CallNo : n # local[p].no => cipher'[ns][n] = cipher[ns][n]
  <2>1. TypeInv
    BY DEF SafetyInv
  <2>2. QED  BY ONLY <2>1, SaveBundle(p), p \in Proc, ns \in Namespace, SaveBundleEffect
<1>2. CommittedNo(ns) \in CallNo /\ CommittedNo(ns) # local[p].no
  <2>1. /\ local[p].no \in 2..begun /\ local[p].no \notin committed
        /\ manifest[ns].sha \in Sha /\ manifest[ns].sha \in {NoCallNo, 1} \union committed
    BY <1>1 DEF SafetyInv, TypeInv, TypeOK, ManifestEntry, CipherInv, NumberInv
  <2>2. 1 \in CallNo /\ local[p].no # 1
    BY <2>1 DEF CallNo, SafetyInv, TypeInv, TypeOK
  <2>3. QED  BY <2>1, <2>2 DEF CommittedNo, Sha, NoCallNo
<1>3. QED  BY <1>1, <1>2 DEF CommittedNo, CommittedValues

\* A step of the writer that replaces, at most, files of its own namespace,
\* and goes on writing.
LEMMA WriterKeepsSync ==
    ASSUME SafetyInv, SyncInv, NEW p \in Proc, OthersWait(p),
           Writing(p), Writing(p)', NsOf(p)' = NsOf(p), NsOf(p) \in Namespace,
           UNCHANGED manifest, Listed(NsOf(p)) \/ UNCHANGED origins,
           \A ns \in Namespace :
              /\ CommittedValues(ns)' = CommittedValues(ns)
              /\ ns # NsOf(p) => bundle'[ns] = bundle[ns] /\ origins'[ns] = origins[ns],
           WriterInv(p)'
    PROVE  SyncInv'
<1>1. \A q \in Proc \ {p} : ~Writing(q)
  BY OneWriter DEF SafetyInv, FileInv
<1>2. \A q \in Proc \ {p} : WriterInv(q)'
  BY <1>1, OthersSound
<1>3. ASSUME NEW ns \in Namespace
      PROVE  /\ ~Listed(ns)' => manifest'[ns].sha = NoCallNo /\ origins'[ns] = NoOrigins
             /\ (\A q \in Proc : Writing(q)' => NsOf(q)' # ns) => InSync(ns)'
  <2>1. ~Listed(ns)' => manifest'[ns].sha = NoCallNo /\ origins'[ns] = NoOrigins
    BY DEF SyncInv, Listed
  <2>2. ASSUME \A q \in Proc : Writing(q)' => NsOf(q)' # ns
        PROVE  InSync(ns)'
    <3>1. ns # NsOf(p)
      BY <2>2
    <3>2. InSync(ns)
      BY <1>1, <3>1 DEF SyncInv
    <3>3. QED  BY <3>1, <3>2 DEF InSync
  <2>3. QED  BY <2>1, <2>2
<1>4. QED  BY <1>2, <1>3 DEF SyncInv

LEMMA LockForCommitKeepsSync ==
    ASSUME SafetyInv, SyncInv, NEW p \in Proc, LockForCommit(p)
    PROVE  SyncInv'
<1>1. /\ pc[p] = "lock" /\ lock = Nil /\ UNCHANGED disk
      /\ NsOf(p) \in Namespace
  BY LockForCommitEffect, CallType1 DEF SafetyInv
<1>2. CASE Gone(p, "conflict")
  BY <1>1, <1>2, FilesKeptSync DEF Gone, Prepared, Writing, WritingStep
<1>3. CASE /\ Moves(p, "saveBundle")
           /\ local'[p].values = local[p].values
           /\ local'[p].labels = local[p].labels
           /\ OriginAware(p) => /\ local'[p].saved = bundle[NsOf(p)]
                                /\ local'[p].savedLabels = origins[NsOf(p)]
  <2>1. \A q \in Proc : ~Writing(q)
    BY <1>1 DEF SafetyInv, FileInv, LockInv
  <2>2. /\ NsOf(p)' = NsOf(p) /\ TheCall(p)' = TheCall(p)
        /\ pc'[p] = "saveBundle" /\ OthersWait(p)
    BY <1>3 DEF Moves, NsOf, TheCall
  <2>3. InSync(NsOf(p))
    BY <1>1, <2>1 DEF SyncInv
  <2>4. InSync(NsOf(p))'
    BY <1>1, <2>2, <2>3 DEF disk, InSync, CommittedValues, CommittedNo
  <2>5. TheCall(p).kind # "init"
    BY <1>1, CallType1 DEF SafetyInv, KindsAt, RewriteKind, OriginKind, RecipientKind,
                           ValueKind, DropKind
  <2>6. Prepared(p)' => \A k \in Key : local'[p].labels[k] # NoOrigin
                                          => local'[p].values[k] # Absent
    BY <1>1, <1>3 DEF SyncInv, WriterInv, Prepared
  <2>7. OriginAware(p)' => Fits(NsOf(p), local[p].saved, local[p].savedLabels)'
    BY <1>1, <1>3, <2>2, <2>3 DEF disk, OriginAware, InSync, Fits, CommittedValues,
                                   CommittedNo
  <2>8. WriterInv(p)'
    BY <2>2, <2>4, <2>5, <2>6, <2>7 DEF WriterInv
  <2>9. \A q \in Proc \ {p} : WriterInv(q)'
    BY <1>1, <2>2, OthersSound
  <2>10. ASSUME NEW ns \in Namespace
         PROVE  /\ ~Listed(ns)' => manifest'[ns].sha = NoCallNo /\ origins'[ns] = NoOrigins
                /\ InSync(ns)'
    <3>1. InSync(ns)
      BY <2>1 DEF SyncInv
    <3>2. QED
      BY <1>1, <3>1 DEF disk, SyncInv, Listed, InSync, CommittedValues, CommittedNo
  <2>11. QED  BY <2>8, <2>9, <2>10 DEF SyncInv
<1>4. QED  BY <1>2, <1>3, LockForCommitEffect DEF SafetyInv

LEMMA BeginsKeepsSync ==
    ASSUME SafetyInv, SyncInv, NEW p \in Proc, NEW c \in Calls, BeginsWith(p, c)
    PROVE  SyncInv'
<1> USE DEF BeginsWith
<1>1. CASE pc'[p] # "saveBundle"
  BY <1>1, FilesKeptSync DEF Prepared, Writing, WritingStep
<1>2. CASE pc'[p] = "saveBundle"
  <2>1. /\ local'[p].call = c /\ c.kind = "init" /\ ~Listed(c.ns)
        /\ local'[p].labels = NoOrigins
        /\ c.ns \in Namespace /\ NsOf(p)' = c.ns /\ TheCall(p)' = c
    BY <1>2, CallFields DEF NsOf, TheCall
  <2>2. \A q \in Proc : ~Writing(q)
    BY DEF SafetyInv, FileInv, LockInv
  <2>3. ASSUME NEW ns \in Namespace
        PROVE  /\ ~Listed(ns)' => manifest'[ns].sha = NoCallNo /\ origins'[ns] = NoOrigins
               /\ InSync(ns)'
    <3>1. InSync(ns)
      BY <2>2 DEF SyncInv
    <3>2. QED
      BY <3>1 DEF disk, SyncInv, Listed, InSync, CommittedValues, CommittedNo
  <2>4. InSync(NsOf(p))' /\ ~Listed(NsOf(p))'
    <3>1. ~Listed(c.ns)'
      BY <2>1 DEF disk, Listed
    <3>2. InSync(c.ns)'
      BY <2>1, <2>3
    <3>3. QED  BY <2>1, <3>1, <3>2 DEF InSync, Listed, CommittedValues, CommittedNo
  <2>5. ~OriginAware(p)'
    BY <2>1 DEF OriginAware, OriginKind, ValueKind, DropKind
  <2>6. \A k \in Key : local'[p].labels[k] = NoOrigin
    BY <2>1 DEF NoOrigins
  <2>7. WriterInv(p)'
    BY <1>2, <2>4, <2>5, <2>6 DEF WriterInv
  <2>8. \A q \in Proc \ {p} : WriterInv(q)'
    BY OthersSound
  <2>9. QED  BY <2>3, <2>7, <2>8 DEF SyncInv
<1>3. QED  BY <1>1, <1>2

\* pruneOriginsToValues: an edit of an origin-aware call labels present keys only.
LEMMA EditedLabelsFit ==
    ASSUME NEW c \in CallType, c.kind \in OriginKind, NEW e \in Content,
           NEW v \in Nat, NEW k \in Key, Edited(c, e, v).origins[k] # NoOrigin
    PROVE  Edited(c, e, v).values[k] # Absent
  BY DEF Edited, EditedOrigins

LEMMA EditKeepsSync ==
    ASSUME SafetyInv, SyncInv, CallsRollBack, NEW p \in Proc, Edit(p)
    PROVE  SyncInv'
<1> DEFINE c == TheCall(p)
           after == Edited(c, Before(p), local[p].no)
<1>1. pc[p] = "edit" /\ UNCHANGED disk /\ ~Writing(p)
  BY EditEffect DEF SafetyInv, Writing, WritingStep
<1>2. CASE Gone(p, "refused")
  BY <1>1, <1>2, FilesKeptSync DEF Gone, Prepared, Writing, WritingStep
<1>3. CASE /\ Moves(p, "lock")
           /\ local'[p].values = after.values
           /\ local'[p].labels = after.origins
  <2>1. /\ c \in CallType /\ c.kind \in RewriteKind /\ c \in Calls
        /\ local[p] \in Local /\ local[p].no \in CallNo /\ NsOf(p) \in Namespace
    BY <1>1, CallType1 DEF SafetyInv, KindsAt
  <2>2. c.kind \in OriginKind
    BY <2>1 DEF CallsRollBack, RewriteKind
  <2>3. Before(p) \in Content /\ local[p].no \in Nat
    BY <2>1, BeforeType DEF SafetyInv, CallNo
  <2>4. \A k \in Key : after.origins[k] # NoOrigin => after.values[k] # Absent
    BY ONLY <2>1, <2>2, <2>3, EditedLabelsFit
  <2> HIDE DEF after
  <2>5. OthersWait(p) /\ ~Writing(p)'
    BY <1>3 DEF Moves, Writing, WritingStep
  <2>6. QED  BY <1>1, <1>3, <2>4, <2>5, FilesKeptSync
<1>4. QED  BY <1>2, <1>3, EditEffect DEF SafetyInv

\* What the writer needs to know of itself.
LEMMA WriterFacts ==
    ASSUME SafetyInv, SyncInv, NEW p \in Proc, Writing(p)
    PROVE  /\ NsOf(p) \in Namespace /\ local[p].no \in CallNo
           /\ TheCall(p).kind # "init" => Listed(NsOf(p))
           /\ OriginAware(p) => TheCall(p).kind # "init"
           /\ WriterInv(p) /\ Prepared(p)
<1>1. pc[p] # "idle"
  BY DEF Writing, WritingStep
<1>2. QED
  BY <1>1, CallType1 DEF SafetyInv, FileInv, ListedInv, SyncInv, OriginAware, OriginKind,
     ValueKind, DropKind, Prepared, TheCall

LEMMA SaveBundleKeepsSync ==
    ASSUME SafetyInv, SyncInv, CallsRollBack, NEW p \in Proc, SaveBundle(p)
    PROVE  SyncInv'
<1>1. TypeInv
  BY DEF SafetyInv
<1>2. /\ pc[p] = "saveBundle" /\ UNCHANGED <<manifest, origins>>
      /\ local'[p].values = local[p].values
      /\ local'[p].labels = local[p].labels
      /\ local'[p].saved = local[p].saved
      /\ local'[p].savedLabels = local[p].savedLabels
      /\ bundle' = [bundle EXCEPT ![NsOf(p)] = local[p].no]
      /\ cipher'[NsOf(p)][local[p].no] =
            [values |-> local[p].values, to |-> local[p].meta.recipients]
      /\ Moves(p, IF OriginAware(p) THEN "saveOrigins" ELSE "saveManifest")
  BY ONLY <1>1, p \in Proc, SaveBundle(p), SaveBundleEffect
<1>3. /\ pc'[p] = IF OriginAware(p) THEN "saveOrigins" ELSE "saveManifest"
      /\ OthersWait(p) /\ NsOf(p)' = NsOf(p) /\ TheCall(p)' = TheCall(p)
      /\ OriginAware(p)' = OriginAware(p) /\ local'[p].no = local[p].no
  BY <1>2 DEF Moves, NsOf, TheCall, OriginAware
<1>4. Writing(p) /\ Writing(p)'
  BY <1>2, <1>3 DEF Writing, WritingStep
<1>5. /\ NsOf(p) \in Namespace /\ local[p].no \in CallNo
      /\ TheCall(p).kind # "init" => Listed(NsOf(p))
      /\ WriterInv(p) /\ Prepared(p)
  BY <1>4, WriterFacts
<1>6. \A ns \in Namespace :
          /\ CommittedValues(ns)' = CommittedValues(ns)
          /\ ns # NsOf(p) => bundle'[ns] = bundle[ns] /\ origins'[ns] = origins[ns]
  BY <1>2, CommittedKept DEF SafetyInv, TypeInv, TypeOK
<1>7. /\ bundle'[NsOf(p)] = local[p].no
      /\ cipher'[NsOf(p)][local[p].no].values = local[p].values
  BY <1>1, <1>2, <1>5 DEF TypeInv, TypeOK
<1>8. WriterInv(p)'
  <2>1. Fits(NsOf(p), local[p].saved, local[p].savedLabels)
            => Fits(NsOf(p), local[p].saved, local[p].savedLabels)'
    <3>1. CommittedValues(NsOf(p))' = CommittedValues(NsOf(p))
      BY ONLY <1>3, <1>5, <1>6 DEF CommittedValues, CommittedNo
    <3>2. QED  BY ONLY <1>2, <1>3, <3>1 DEF Fits
  <2>2. /\ OriginAware(p)' => Fits(NsOf(p), local[p].saved, local[p].savedLabels)'
        /\ TheCall(p)'.kind = "init" => ~Listed(NsOf(p))'
    BY <1>2, <1>3, <1>4, <1>5, <2>1 DEF WriterInv, Listed
  <2>3. \A k \in Key : local'[p].labels[k] # NoOrigin => local'[p].values[k] # Absent
    BY <1>2, <1>5 DEF WriterInv
  <2>4. pc'[p] = "saveManifest" =>
            \A k \in Key : origins'[NsOf(p)][k] # NoOrigin => local'[p].values[k] # Absent
    <3>1. CASE OriginAware(p)
      BY <1>3, <3>1
    <3>2. CASE TheCall(p).kind = "init"
      <4>1. origins[NsOf(p)] = NoOrigins
        BY <1>4, <1>5, <3>2 DEF WriterInv, SyncInv
      <4>2. QED  BY <1>2, <4>1 DEF NoOrigins
    <3>3. OriginAware(p) \/ TheCall(p).kind = "init"
      <4>1. TheCall(p) \in Calls /\ TheCall(p).kind \in RewriteKind \union {"init"}
        BY <1>1, <1>2, CallType1 DEF KindsAt
      <4>2. QED  BY <4>1 DEF CallsRollBack, OriginAware, RewriteKind
    <3>4. QED  BY <3>1, <3>2, <3>3
  <2>5. QED
    BY <1>2, <1>3, <1>7, <2>2, <2>3, <2>4 DEF WriterInv
<1>9. QED  BY <1>2, <1>3, <1>4, <1>5, <1>6, <1>8, WriterKeepsSync

LEMMA SaveOriginsKeepsSync ==
    ASSUME SafetyInv, SyncInv, NEW p \in Proc, SaveOrigins(p)
    PROVE  SyncInv'
<1>1. /\ pc[p] = "saveOrigins" /\ Moves(p, "saveManifest") /\ local'[p] = local[p]
      /\ UNCHANGED <<manifest, bundle, cipher>>
      /\ origins' = [origins EXCEPT ![NsOf(p)] = local[p].labels]
  BY SaveOriginsEffect DEF SafetyInv
<1>2. /\ pc'[p] = "saveManifest" /\ OthersWait(p)
      /\ NsOf(p)' = NsOf(p) /\ TheCall(p)' = TheCall(p)
  BY <1>1 DEF Moves, NsOf, TheCall
<1>3. Writing(p) /\ Writing(p)'
  BY <1>1, <1>2 DEF Writing, WritingStep
<1>4. /\ NsOf(p) \in Namespace /\ WriterInv(p) /\ Prepared(p)
      /\ Listed(NsOf(p))
  <2>1. TheCall(p).kind \in OriginKind
    BY <1>1, CallType1 DEF SafetyInv, KindsAt
  <2>2. QED  BY <1>3, <2>1, WriterFacts DEF OriginAware
<1>5. \A ns \in Namespace :
          /\ CommittedValues(ns)' = CommittedValues(ns)
          /\ ns # NsOf(p) => bundle'[ns] = bundle[ns] /\ origins'[ns] = origins[ns]
  BY <1>1 DEF CommittedValues, CommittedNo, SafetyInv, TypeInv, TypeOK
<1>6. origins'[NsOf(p)] = local[p].labels
  BY <1>1, <1>4 DEF SafetyInv, TypeInv, TypeOK
<1>7. WriterInv(p)'
  <2>1. Fits(NsOf(p), local[p].saved, local[p].savedLabels)
            => Fits(NsOf(p), local[p].saved, local[p].savedLabels)'
    BY <1>1, <1>2 DEF Fits, CommittedValues, CommittedNo
  <2>2. QED
    BY <1>1, <1>2, <1>3, <1>4, <1>6, <2>1 DEF WriterInv, Prepared, OriginAware, Listed
<1>8. QED  BY <1>1, <1>2, <1>3, <1>4, <1>5, <1>7, WriterKeepsSync

\* The way back: nothing is written, then the bundle is put back.
LEMMA TurnBackKeepsSync ==
    ASSUME SafetyInv, SyncInv, CallsRollBack, NEW p \in Proc,
           \/ SaveOriginsFails(p)
           \/ SaveManifestFails(p) /\ OriginAware(p)
           \/ UndoBundle(p)
    PROVE  SyncInv'
<1>1. PICK step \in {"undoBundle", "undoOrigins"} :
          /\ pc[p] \in {"saveOrigins", "saveManifest", "undoBundle"}
          /\ Moves(p, step) /\ local'[p] = local[p]
          /\ UNCHANGED <<manifest, origins, cipher>>
          /\ step = "undoBundle" => bundle' = bundle
          /\ step = "undoOrigins" => /\ pc[p] = "undoBundle"
                                     /\ bundle' = [bundle EXCEPT ![NsOf(p)] = local[p].saved]
  <2>1. ~MayFail("undo")
    BY DEF MayFail, CallsRollBack
  <2>2. QED
    BY <2>1, SaveOriginsFailsEffect, SaveManifestFailsEffect, UndoBundleEffect
       DEF SafetyInv, disk
<1>2. /\ pc'[p] = step /\ OthersWait(p)
      /\ NsOf(p)' = NsOf(p) /\ TheCall(p)' = TheCall(p)
  BY <1>1 DEF Moves, NsOf, TheCall
<1>3. Writing(p) /\ Writing(p)'
  BY <1>1, <1>2 DEF Writing, WritingStep
<1>4. NsOf(p) \in Namespace /\ WriterInv(p) /\ Prepared(p)
  BY <1>3, WriterFacts
<1>5. \A ns \in Namespace :
          /\ CommittedValues(ns)' = CommittedValues(ns)
          /\ ns # NsOf(p) => bundle'[ns] = bundle[ns] /\ origins'[ns] = origins[ns]
  BY <1>1 DEF CommittedValues, CommittedNo, SafetyInv, TypeInv, TypeOK
<1>6. WriterInv(p)'
  <2>1. Fits(NsOf(p), local[p].saved, local[p].savedLabels)
            => Fits(NsOf(p), local[p].saved, local[p].savedLabels)'
    BY <1>1, <1>2 DEF Fits, CommittedValues, CommittedNo
  <2>2. step = "undoOrigins" => bundle'[NsOf(p)] = local[p].saved /\ OriginAware(p)
    <3>1. pc[p] = "undoBundle" => OriginAware(p)
      BY CallType1 DEF SafetyInv, KindsAt, OriginAware
    <3>2. QED  BY <1>1, <1>4, <3>1 DEF SafetyInv, TypeInv, TypeOK
  <2>3. step = "undoOrigins" /\ manifest[NsOf(p)].sha # NoCallNo =>
            bundle'[NsOf(p)] = manifest[NsOf(p)].sha
    BY <1>3, <1>4, <2>2 DEF WriterInv, Fits
  <2>4. QED
    BY <1>1, <1>2, <1>3, <1>4, <2>1, <2>3 DEF WriterInv, Prepared, OriginAware, Listed
<1>7. QED  BY <1>1, <1>2, <1>3, <1>4, <1>5, <1>6, WriterKeepsSync

LEMMA UndoOriginsKeepsSync ==
    ASSUME SafetyInv, SyncInv, CallsRollBack, NEW p \in Proc, UndoOrigins(p)
    PROVE  SyncInv'
<1>1. /\ pc[p] = "undoOrigins" /\ Gone(p, "ioError")
      /\ UNCHANGED <<manifest, bundle, cipher>>
      /\ origins' = [origins EXCEPT ![NsOf(p)] = local[p].savedLabels]
  <2>1. ~MayFail("undo")
    BY DEF MayFail, CallsRollBack
  <2>2. QED  BY <2>1, UndoOriginsEffect DEF SafetyInv
<1>2. Writing(p)
  BY <1>1 DEF Writing, WritingStep
<1>3. \A q \in Proc \ {p} : ~Writing(q)
  BY <1>2, OneWriter DEF SafetyInv, FileInv
<1>4. /\ NsOf(p) \in Namespace /\ WriterInv(p)
      /\ Listed(NsOf(p)) /\ OriginAware(p)
  <2>1. TheCall(p).kind \in OriginKind
    BY <1>1, CallType1 DEF SafetyInv, KindsAt
  <2>2. QED  BY <1>2, <2>1, WriterFacts DEF OriginAware
<1>5. /\ origins'[NsOf(p)] = local[p].savedLabels
      /\ \A ns \in Namespace : ns # NsOf(p) => origins'[ns] = origins[ns]
  BY <1>1, <1>4 DEF SafetyInv, TypeInv, TypeOK
<1>6. ASSUME NEW ns \in Namespace
      PROVE  /\ ~Listed(ns)' => manifest'[ns].sha = NoCallNo /\ origins'[ns] = NoOrigins
             /\ InSync(ns)'
  <2>1. CASE ns = NsOf(p)
    <3>1. /\ Fits(ns, local[p].saved, local[p].savedLabels)
          /\ manifest[ns].sha # NoCallNo => bundle[ns] = manifest[ns].sha
      BY <1>1, <1>2, <1>4, <2>1 DEF WriterInv
    <3>2. QED
      BY <1>1, <1>4, <1>5, <2>1, <3>1 DEF Fits, InSync, CommittedValues, CommittedNo, Listed
  <2>2. CASE ns # NsOf(p)
    <3>1. InSync(ns)
      BY <1>3, <2>2 DEF SyncInv
    <3>2. QED
      BY <1>1, <1>5, <2>2, <3>1 DEF SyncInv, InSync, CommittedValues, CommittedNo, Listed
  <2>3. QED  BY <2>1, <2>2
<1>7. WriterInv(p)'
  BY <1>1 DEF Gone, WriterInv, Prepared, Writing, WritingStep
<1>8. \A q \in Proc \ {p} : WriterInv(q)'
  BY <1>1, <1>3, OthersSound DEF Gone
<1>9. QED  BY <1>6, <1>7, <1>8 DEF SyncInv

\* `init` does not roll back, and has nothing to: the namespace is not listed.
LEMMA InitFailsInSync ==
    ASSUME SafetyInv, SyncInv, CallsRollBack, NEW p \in Proc,
           SaveManifestFails(p), ~OriginAware(p)
    PROVE  SyncInv'
<1>1. /\ pc[p] = "saveManifest" /\ UNCHANGED disk
      /\ Gone(p, "ioError")
  BY SaveManifestFailsEffect DEF SafetyInv
<1>2. Writing(p)
  BY <1>1 DEF Writing, WritingStep
<1>3. TheCall(p).kind = "init"
  <2>1. TheCall(p) \in Calls /\ TheCall(p).kind \in RewriteKind \union {"init"}
    BY <1>1, CallType1 DEF SafetyInv, KindsAt
  <2>2. QED  BY <2>1 DEF CallsRollBack, OriginAware, RewriteKind
<1>4. NsOf(p) \in Namespace /\ ~Listed(NsOf(p))
  BY <1>2, <1>3, WriterFacts DEF WriterInv
<1>5. InSync(NsOf(p))
  BY <1>4 DEF SyncInv, InSync, NoOrigins
<1>6. QED
  BY <1>1, <1>5, FilesKeptSync DEF Gone, Prepared, Writing, WritingStep

LEMMA SaveManifestKeepsSync ==
    ASSUME SafetyInv, SyncInv, NEW p \in Proc, SaveManifest(p)
    PROVE  SyncInv'
<1>1. /\ pc[p] = "saveManifest" /\ pc'[p] = "audit" /\ OthersWait(p)
      /\ UNCHANGED <<bundle, origins, cipher>>
      /\ manifest'[NsOf(p)].sha = local[p].no
      /\ manifest'[NsOf(p)].recipients = local[p].meta.recipients
      /\ \A ns \in Namespace : ns # NsOf(p) => manifest'[ns] = manifest[ns]
  BY SaveManifestEffect, RecordedEffect
<1>2. Writing(p)
  BY <1>1 DEF Writing, WritingStep
<1>3. \A q \in Proc \ {p} : ~Writing(q)
  BY <1>2, OneWriter DEF SafetyInv, FileInv
<1>4. NsOf(p) \in Namespace /\ WriterInv(p)
  BY <1>2, WriterFacts
<1>5. local[p].meta.recipients # {} /\ local[p].no # NoCallNo
  BY <1>1, CallType1 DEF SafetyInv, FileInv, ListedInv, CallNo, NoCallNo
<1>6. ASSUME NEW ns \in Namespace
      PROVE  /\ ~Listed(ns)' => manifest'[ns].sha = NoCallNo /\ origins'[ns] = NoOrigins
             /\ InSync(ns)'
  <2>1. CASE ns = NsOf(p)
    <3>1. Listed(ns)'
      BY <1>1, <1>5, <2>1 DEF Listed
    <3>2. /\ bundle'[ns] = manifest'[ns].sha
          /\ CommittedValues(ns)' = local[p].values
      BY <1>1, <1>4, <1>5, <2>1 DEF WriterInv, CommittedValues, CommittedNo
    <3>3. \A k \in Key : origins'[ns][k] # NoOrigin => local[p].values[k] # Absent
      BY <1>1, <1>4, <2>1 DEF WriterInv
    <3>4. QED  BY <3>1, <3>2, <3>3 DEF InSync
  <2>2. CASE ns # NsOf(p)
    <3>1. InSync(ns)
      BY <1>3, <2>2 DEF SyncInv
    <3>2. QED
      BY <1>1, <2>2, <3>1 DEF SyncInv, InSync, CommittedValues, CommittedNo, Listed
  <2>3. QED  BY <2>1, <2>2
<1>7. WriterInv(p)'
  BY <1>1 DEF WriterInv, Prepared, Writing, WritingStep
<1>8. \A q \in Proc \ {p} : WriterInv(q)'
  BY <1>1, <1>3, OthersSound
<1>9. QED  BY <1>6, <1>7, <1>8 DEF SyncInv

LEMMA InitSync == Init /\ ExistingInSync => SyncInv
<1> SUFFICES ASSUME Init, ExistingInSync PROVE SyncInv
  OBVIOUS
<1> USE DEF Init
<1>1. \A p \in Proc : WriterInv(p)
  BY DEF WriterInv, Prepared, Writing, WritingStep
<1>2. ASSUME NEW ns \in Namespace
      PROVE  /\ ~Listed(ns) => manifest[ns].sha = NoCallNo /\ origins[ns] = NoOrigins
             /\ InSync(ns)
  <2>1. /\ manifest[ns].sha = ExistingSha(ns)
        /\ manifest[ns].recipients = Existing[ns].recipients
        /\ bundle[ns] = IF HasBundle(ns) THEN 1 ELSE NoCallNo
        /\ origins[ns] = Existing[ns].origins
        /\ \A n \in CallNo : cipher[ns][n].values = Existing[ns].values
    OBVIOUS
  <2>2. CommittedNo(ns) = 1 /\ 1 \in CallNo
    BY <2>1 DEF CommittedNo, ExistingSha, CallNo
  <2>3. CommittedValues(ns) = Existing[ns].values
    BY <2>1, <2>2 DEF CommittedValues
  <2>4. manifest[ns].sha # NoCallNo => Listed(ns) /\ bundle[ns] = manifest[ns].sha
    BY <2>1 DEF ExistingSha, HasBundle, Listed
  <2>5. origins[ns] \in [Key -> Origin \union {NoOrigin}]
    BY <2>1 DEF EntryType
  <2>6. ~Listed(ns) => \A k \in Key : origins[ns][k] = NoOrigin
    BY <2>1 DEF ExistingInSync, Listed
  <2>7. ~Listed(ns) => origins[ns] = NoOrigins
    BY <2>5, <2>6 DEF NoOrigins
  <2>8. QED  BY <2>1, <2>3, <2>4, <2>7 DEF InSync, ExistingInSync
<1>3. QED  BY <1>1, <1>2 DEF SyncInv

LEMMA NextSync ==
    ASSUME SafetyInv, SyncInv, CallsRollBack, [Next]_vars
    PROVE  SyncInv'
<1>1. CASE UNCHANGED vars
  <2>1. ASSUME NEW p \in Proc PROVE WriterInv(p)'
    <3>1. WriterInv(p)
      BY DEF SyncInv
    <3>2. UNCHANGED <<manifest, bundle, origins, cipher, pc, local>>
      BY <1>1 DEF vars, disk
    <3>3. QED
      BY ONLY <3>1, <3>2 DEF WriterInv, Prepared, Writing, NsOf, TheCall, OriginAware,
         Fits, InSync, Listed, CommittedValues, CommittedNo
  <2>2. QED
    BY <1>1, <2>1 DEF vars, disk, SyncInv, Writing, NsOf, InSync, Listed,
       CommittedValues, CommittedNo
<1>2. ASSUME NEW p \in Proc, NEW c \in Calls, Load(p, c) \/ LockForInit(p, c)
      PROVE  SyncInv'
  BY <1>2, BeginsEffect, BeginsKeepsSync DEF SafetyInv
<1>3. ASSUME NEW p \in Proc, SaveBundle(p) \/ SaveManifest(p)
      PROVE  SyncInv'
  BY <1>3, SaveBundleKeepsSync, SaveManifestKeepsSync
<1>4. ASSUME NEW p \in Proc, Quiet(p)
      PROVE  SyncInv'
  <2>1. ASSUME pc[p] \in {"hash", "decrypt"}, UNCHANGED disk,
               \/ \E step \in {"decrypt", "return", "edit"} : Moves(p, step)
               \/ \E how : Gone(p, how)
        PROVE  SyncInv'
    BY <2>1, FilesKeptSync DEF Moves, Gone, Prepared, Writing, WritingStep
  <2>2. CASE Hash(p)
    BY <2>1, <2>2, HashEffect DEF SafetyInv
  <2>3. CASE Decrypt(p)
    BY <2>1, <2>3, DecryptEffect DEF SafetyInv
  <2>4. CASE RecordEvent(p)
    BY <2>4, RecordEventEffect, FilesKeptSync
       DEF SafetyInv, Moves, Prepared, Writing, WritingStep
  <2>5. CASE ReadEnv(p) \/ ReadFails(p) \/ SaveBundleFails(p) \/ Finish(p) \/ Crash(p)
    <3>1. ~Crash(p)
      BY DEF Crash, CallsRollBack
    <3>2. PICK how : Gone(p, how) /\ UNCHANGED disk
      BY <2>5, ReturningEffect DEF SafetyInv
    <3>3. Writing(p) => InSync(NsOf(p))
      BY <2>5, <3>1, ReturningEffect DEF SafetyInv, SyncInv, WriterInv
    <3>4. QED
      BY <3>2, <3>3, FilesKeptSync DEF Gone, Prepared, Writing, WritingStep
  <2>6. QED
    BY <1>4, <2>2, <2>3, <2>4, <2>5, EditKeepsSync, LockForCommitKeepsSync,
       SaveOriginsKeepsSync, TurnBackKeepsSync, InitFailsInSync, UndoOriginsKeepsSync
       DEF Quiet, Unlocked, Auditing
<1>5. QED  BY <1>1, <1>2, <1>3, <1>4, StepKinds

(***************************************************************************)
(* K-21, "the manifest, bundle, and origins file land or roll back as a    *)
(* unit": if the files were in sync and every call that can fail half-way  *)
(* is one that rolls back, they are in sync whenever the lock is free      *)
(* (commitEnvWithOrigins, rollbackBundle, restoreOriginsBytesIgnoreErr).   *)
(***************************************************************************)
THEOREM FilesRollBackAsAUnit ==
    ExistingInSync /\ CallsRollBack => (Spec => []FilesInSync)
<1> SUFFICES ASSUME ExistingInSync, CallsRollBack PROVE Spec => []FilesInSync
  OBVIOUS
<1>1. SafetyInv /\ SyncInv => FilesInSync
  <2> SUFFICES ASSUME SafetyInv, SyncInv, lock = Nil, NEW ns \in Namespace
               PROVE  InSync(ns)
    BY DEF FilesInSync
  <2>1. \A p \in Proc : ~Writing(p)
    BY DEF SafetyInv, FileInv, LockInv
  <2>2. QED  BY <2>1 DEF SyncInv
<1>2. Init => SyncInv
  BY InitSync
<1>3. SafetyInv /\ SyncInv /\ [Next]_vars => SyncInv'
  BY NextSync
<1>4. QED  BY Safety, <1>1, <1>2, <1>3, PTL DEF Spec
=============================================================================
