------------------------- MODULE StoreSafetyProofs -------------------------
(***************************************************************************)
(* The safety theorems about Store: versions step by one, and the bundle   *)
(* an entry vouches for is encrypted to the entry's recipients, whatever   *)
(* fails or dies.                                                          *)
(*                                                                         *)
(* Most steps neither record nor encrypt anything: QuietStep says what     *)
(* they may do to the stepping call, and the invariant is shown to survive *)
(* every such step at once; the four others are taken one by one.          *)
(***************************************************************************)
EXTENDS StoreProofs

USE CallsAssumption, ExistingAssumption, IdentityAssumption, FaultAssumption,
    NilAssumption

\* Only p moves.
OthersWait(p) ==
    \A q \in Proc \ {p} : pc'[q] = pc[q] /\ local'[q] = local[q]

\* The lock is left alone, taken by p when free, or given back by p.
LockEffect(p) ==
    \/ lock' = lock
    \/ lock = Nil /\ lock' = p
    \/ lock = p /\ lock' = Nil

\* The stepping call has returned, or is the same call with the same version,
\* which it compared if it starts writing, and with what it encrypted.
QuietCall(p) ==
    \/ pc'[p] = "idle"
    \/ /\ pc[p] # "idle"
       /\ local'[p].call = local[p].call
       /\ local'[p].no = local[p].no
       /\ local'[p].meta.version = local[p].meta.version
       /\ local'[p].meta.recipients # {}
       /\ pc'[p] # "audit" => pc[p] # "audit"
       /\ pc'[p] \in {"saveOrigins", "saveManifest"} =>
             /\ pc[p] \in {"saveOrigins", "saveManifest"}
             /\ local'[p].meta = local[p].meta
       /\ pc'[p] \in WritingStep =>
             /\ lock' = p
             /\ manifest[NsOf(p)].version = local[p].meta.version

QuietStep(p) ==
    /\ UNCHANGED <<manifest, cipher, committed, begun>>
    /\ OthersWait(p)
    /\ LockEffect(p)
    /\ QuietCall(p)

-----------------------------------------------------------------------------
(* Helpers *)

\* No call removes the last recipient.
LEMMA EditedListed ==
    ASSUME NEW c \in CallType, NEW e \in Content, NEW v, e.recipients # {},
           EditAllowed(c, e)
    PROVE  Edited(c, e, v).recipients # {}
<1>1. EditedRecipients(c, e) # {}
  BY DEF EditedRecipients, EditAllowed, RecipientKind, DropKind
<1>2. QED  BY <1>1 DEF Edited

\* A process that writes keeps the lock from every other.
LEMMA OneWriter ==
    ASSUME LockInv, NEW p \in Proc, NEW q \in Proc \ {p}, Writing(q)
    PROVE  ~Writing(p) /\ lock # p /\ lock # Nil /\ lock = q
  BY DEF LockInv

LEMMA QuietKeepsFileInv ==
    ASSUME TypeInv, FileInv, NEW p \in Proc, QuietStep(p)
    PROVE  FileInv'
<1> USE DEF QuietStep
<1>1. LockInv'
  <2> SUFFICES ASSUME NEW q \in Proc, pc'[q] \in WritingStep PROVE lock' = q
    BY DEF LockInv, Writing
  <2>1. CASE q = p
    BY <2>1 DEF QuietCall, WritingStep
  <2>2. CASE q # p
    <3>1. Writing(q)
      BY <2>2 DEF OthersWait, Writing
    <3>2. QED  BY <2>2, <3>1, OneWriter DEF LockEffect, FileInv
  <2>3. QED  BY <2>1, <2>2
<1>2. ListedInv'
  <2>1. \A ns \in Namespace : ~Listed(ns)' => manifest'[ns].version = 0
    BY DEF FileInv, ListedInv, Listed
  <2>2. ASSUME NEW q \in Proc, pc'[q] # "idle"
        PROVE  /\ local'[q].meta.recipients # {}
               /\ local'[q].call.kind # "init" => Listed(NsOf(q))'
    <3>1. CASE q = p
      BY <2>2, <3>1 DEF QuietCall, FileInv, ListedInv, Listed, NsOf
    <3>2. CASE q # p
      BY <2>2, <3>2 DEF OthersWait, FileInv, ListedInv, Listed, NsOf
    <3>3. QED  BY <3>1, <3>2
  <2>3. QED  BY <2>1, <2>2 DEF ListedInv
<1>3. VersionInv'
  <2> SUFFICES ASSUME NEW q \in Proc, pc'[q] \in WritingStep
               PROVE  manifest'[NsOf(q)'].version = local'[q].meta.version
    BY DEF VersionInv, Writing
  <2>1. CASE q = p
    BY <2>1 DEF QuietCall, NsOf, WritingStep
  <2>2. CASE q # p
    BY <2>2 DEF OthersWait, FileInv, VersionInv, Writing, NsOf
  <2>3. QED  BY <2>1, <2>2
<1>4. QED  BY <1>1, <1>2, <1>3 DEF FileInv

LEMMA QuietKeepsCipherInv ==
    ASSUME TypeInv, CipherInv, NEW p \in Proc, QuietStep(p)
    PROVE  CipherInv'
<1> USE DEF QuietStep
<1>1. \A q \in Proc : pc'[q] # "idle" =>
          /\ pc[q] # "idle"
          /\ local'[q].no = local[q].no
          /\ pc'[q] # "audit" => pc[q] # "audit"
  BY DEF QuietCall, OthersWait
<1>2. NumberInv'
  BY <1>1 DEF CipherInv, NumberInv
<1>3. EncryptedInv'
  <2> SUFFICES ASSUME NEW q \in Proc, pc'[q] \in {"saveOrigins", "saveManifest"}
               PROVE  /\ local'[q].meta.sha = local'[q].no
                      /\ cipher'[NsOf(q)'][local'[q].no].to
                            = local'[q].meta.recipients
    BY DEF EncryptedInv
  <2>1. /\ pc[q] \in {"saveOrigins", "saveManifest"}
        /\ local'[q].call = local[q].call
        /\ local'[q].no = local[q].no
        /\ local'[q].meta = local[q].meta
    BY DEF QuietCall, OthersWait
  <2>2. QED  BY <2>1 DEF CipherInv, EncryptedInv, NsOf
<1>4. EncryptedToTheListed'
  BY DEF CipherInv, EncryptedToTheListed
<1>5. QED  BY <1>2, <1>3, <1>4 DEF CipherInv

-----------------------------------------------------------------------------
(* The quiet steps *)

LEMMA ReturnIsQuiet ==
    ASSUME TypeInv, NEW p \in Proc, NEW how \in Outcome, Return(p, how),
           UNCHANGED <<manifest, cipher, committed, begun>>, LockEffect(p)
    PROVE  QuietStep(p)
<1>1. OthersWait(p) /\ pc'[p] = "idle"
  BY DEF Return, Goto, OthersWait, TypeInv, TypeOK
<1>2. QED  BY <1>1 DEF QuietStep, QuietCall

\* The returns without a lock, with it, and with it perhaps.
LEMMA ReturningIsQuiet ==
    ASSUME TypeInv, NEW p \in Proc,
           ReadEnv(p) \/ ReadFails(p) \/ SaveBundleFails(p) \/ UndoOrigins(p)
             \/ Finish(p) \/ Crash(p)
    PROVE  QuietStep(p)
<1>1. PICK how \in Outcome : Return(p, how)
  BY DEF Outcome, ReadEnv, ReadFails, SaveBundleFails, UndoOrigins, Finish, Crash
<1>2. UNCHANGED <<manifest, cipher, committed, begun>>
  BY DEF ReadEnv, ReadFails, SaveBundleFails, UndoOrigins, Finish, Crash, disk
<1>3. LockEffect(p)
  BY DEF ReadEnv, ReadFails, SaveBundleFails, UndoOrigins, Finish, Crash,
         Unlock, LockEffect
<1>4. QED  BY <1>1, <1>2, <1>3, ReturnIsQuiet

LEMMA HashIsQuiet ==
    ASSUME TypeInv, FileInv, NEW p \in Proc, Hash(p)
    PROVE  QuietStep(p)
<1> USE DEF Hash
<1>1. UNCHANGED <<manifest, cipher, committed, begun>> /\ LockEffect(p)
  BY DEF disk, LockEffect
<1>2. CASE HashMatches(p) /\ TheCall(p).kind # "verify"
  <2>1. pc' = [pc EXCEPT ![p] = "decrypt"] /\ local' = local
    BY <1>2 DEF Goto
  <2>2. OthersWait(p) /\ pc'[p] = "decrypt"
    BY <2>1 DEF OthersWait, TypeInv, TypeOK
  <2>3. QuietCall(p)
    BY <2>1, <2>2 DEF QuietCall, FileInv, ListedInv, WritingStep
  <2>4. QED  BY <1>1, <2>2, <2>3 DEF QuietStep
<1>3. CASE ~(HashMatches(p) /\ TheCall(p).kind # "verify")
  <2>1. PICK how \in Outcome : Return(p, how)
    BY <1>3 DEF Outcome
  <2>2. QED  BY <1>1, <2>1, ReturnIsQuiet
<1>4. QED  BY <1>2, <1>3

LEMMA DecryptIsQuiet ==
    ASSUME TypeInv, FileInv, NEW p \in Proc, Decrypt(p)
    PROVE  QuietStep(p)
<1> DEFINE b == bundle[NsOf(p)]
           c == cipher[NsOf(p)][b]
           step == IF TheCall(p).kind = "read" THEN "return" ELSE "edit"
           new == [local[p] EXCEPT !.values = c.values, !.seen = b]
<1> USE DEF Decrypt
<1>1. UNCHANGED <<manifest, cipher, committed, begun>> /\ LockEffect(p)
  BY DEF disk, LockEffect
<1>2. CASE b # NoCallNo /\ Identity[p] \in c.to
  <2>1. /\ pc' = [pc EXCEPT ![p] = step]
        /\ local' = [local EXCEPT ![p] = new]
    BY <1>2 DEF Goto, TypeInv, TypeOK
  <2>2. /\ new.call = local[p].call
        /\ new.no = local[p].no
        /\ new.meta = local[p].meta
    BY CallType1 DEF Local
  <2>3. step \in {"return", "edit"}
    OBVIOUS
  <2> HIDE DEF new, step
  <2>4. OthersWait(p) /\ pc'[p] = step /\ local'[p] = new
    BY <2>1 DEF OthersWait, TypeInv, TypeOK
  <2>5. QuietCall(p)
    BY <2>2, <2>3, <2>4 DEF QuietCall, FileInv, ListedInv, WritingStep
  <2>6. QED  BY <1>1, <2>4, <2>5 DEF QuietStep
<1>3. CASE ~(b # NoCallNo /\ Identity[p] \in c.to)
  <2>1. Return(p, "undecryptable") /\ "undecryptable" \in Outcome
    BY <1>3 DEF Outcome
  <2>2. QED  BY <1>1, <2>1, ReturnIsQuiet
<1>4. QED  BY <1>2, <1>3

LEMMA EditIsQuiet ==
    ASSUME TypeInv, FileInv, NEW p \in Proc, Edit(p)
    PROVE  QuietStep(p)
<1> DEFINE after == Edited(TheCall(p), Before(p), local[p].no)
           new == [local[p] EXCEPT !.meta.recipients = after.recipients,
                                   !.values = after.values,
                                   !.labels = after.origins]
<1> USE DEF Edit
<1>1. UNCHANGED <<manifest, cipher, committed, begun>> /\ LockEffect(p)
  BY DEF disk, LockEffect
<1>2. CASE EditAllowed(TheCall(p), Before(p))
  <2>1. /\ pc' = [pc EXCEPT ![p] = "lock"]
        /\ local' = [local EXCEPT ![p] = new]
    BY <1>2 DEF Goto, TypeInv, TypeOK
  <2>2. after.recipients # {}
    <3>1. Before(p) \in Content
      BY CallType1 DEF Before, Content, Local, ManifestEntry, TypeInv, TypeOK
    <3>2. Before(p).recipients # {}
      BY DEF Before, FileInv, ListedInv
    <3>3. QED  BY <1>2, <3>1, <3>2, CallType1, EditedListed
  <2>3. /\ new.call = local[p].call
        /\ new.no = local[p].no
        /\ new.meta.version = local[p].meta.version
        /\ new.meta.recipients = after.recipients
    <3> HIDE DEF after
    <3>1. QED  BY CallType1 DEF Local, ManifestEntry
  <2> HIDE DEF new, after
  <2>4. OthersWait(p) /\ pc'[p] = "lock" /\ local'[p] = new
    BY <2>1 DEF OthersWait, TypeInv, TypeOK
  <2>5. QuietCall(p)
    BY <2>2, <2>3, <2>4 DEF QuietCall, WritingStep
  <2>6. QED  BY <1>1, <2>4, <2>5 DEF QuietStep
<1>3. CASE ~EditAllowed(TheCall(p), Before(p))
  <2>1. Return(p, "refused") /\ "refused" \in Outcome
    BY <1>3 DEF Outcome
  <2>2. QED  BY <1>1, <2>1, ReturnIsQuiet
<1>4. QED  BY <1>2, <1>3

LEMMA LockForCommitIsQuiet ==
    ASSUME TypeInv, FileInv, NEW p \in Proc, LockForCommit(p)
    PROVE  QuietStep(p)
<1> DEFINE new == IF OriginAware(p)
                  THEN [local[p] EXCEPT !.saved = bundle[NsOf(p)],
                                        !.savedLabels = origins[NsOf(p)]]
                  ELSE local[p]
<1> USE DEF LockForCommit
<1>1. UNCHANGED <<manifest, cipher, committed, begun>>
  BY DEF disk
<1>2. CASE VersionUnchanged(p)
  <2>1. /\ pc' = [pc EXCEPT ![p] = "saveBundle"]
        /\ local' = [local EXCEPT ![p] = new]
        /\ lock' = p
        /\ lock = Nil
    BY <1>2 DEF Goto, TypeInv, TypeOK
  <2>2. /\ new.call = local[p].call
        /\ new.no = local[p].no
        /\ new.meta = local[p].meta
    BY CallType1 DEF Local
  <2>3. Listed(NsOf(p))
    BY CallType1 DEF KindsAt, FileInv, ListedInv, TheCall, RewriteKind,
                     OriginKind, RecipientKind, ValueKind, DropKind
  <2> HIDE DEF new
  <2>4. OthersWait(p) /\ pc'[p] = "saveBundle" /\ local'[p] = new
    BY <2>1 DEF OthersWait, TypeInv, TypeOK
  <2>5. manifest[NsOf(p)].version = local[p].meta.version
    BY <1>2, <2>3 DEF VersionUnchanged
  <2>6. local[p].meta.recipients # {}
    BY DEF FileInv, ListedInv
  <2>7. QuietCall(p)
    BY <2>1, <2>2, <2>4, <2>5, <2>6 DEF QuietCall
  <2>8. QED  BY <1>1, <2>1, <2>4, <2>7 DEF QuietStep, LockEffect
<1>3. CASE ~VersionUnchanged(p)
  <2>1. Return(p, "conflict") /\ "conflict" \in Outcome /\ lock' = lock
    BY <1>3 DEF Outcome
  <2>2. QED  BY <1>1, <2>1, ReturnIsQuiet DEF LockEffect
<1>4. QED  BY <1>2, <1>3

\* The writes of the origins file, and the way back.
LEMMA WritingIsQuiet ==
    ASSUME TypeInv, FileInv, NEW p \in Proc,
           SaveOrigins(p) \/ SaveOriginsFails(p) \/ UndoBundle(p)
             \/ (SaveManifestFails(p) /\ OriginAware(p))
    PROVE  QuietStep(p)
<1> USE DEF SaveOrigins, SaveOriginsFails, UndoBundle, SaveManifestFails
<1>1. UNCHANGED <<manifest, cipher, committed, begun, local, lock>>
  BY DEF disk
<1>2. PICK step \in {"saveManifest", "undoBundle", "undoOrigins"} :
          /\ pc' = [pc EXCEPT ![p] = step]
          /\ step = "saveManifest" => pc[p] = "saveOrigins"
  BY DEF Goto
<1>3. Writing(p)
  BY DEF Writing, WritingStep
<1>4. OthersWait(p) /\ pc'[p] = step
  BY <1>1, <1>2 DEF OthersWait, TypeInv, TypeOK
<1>5. lock = p /\ manifest[NsOf(p)].version = local[p].meta.version
  BY <1>3 DEF FileInv, LockInv, VersionInv
<1>6. local[p].meta.recipients # {} /\ pc[p] # "idle"
  BY <1>3 DEF FileInv, ListedInv, Writing, WritingStep
<1>7. QuietCall(p)
  BY <1>1, <1>2, <1>3, <1>4, <1>5, <1>6 DEF QuietCall, Writing, WritingStep
<1>8. QED  BY <1>1, <1>4, <1>7 DEF QuietStep, LockEffect

LEMMA SaveManifestFailsIsQuiet ==
    ASSUME TypeInv, FileInv, NEW p \in Proc, SaveManifestFails(p)
    PROVE  QuietStep(p)
<1>1. CASE OriginAware(p)
  BY <1>1, WritingIsQuiet
<1>2. CASE ~OriginAware(p)
  <2>1. Return(p, "ioError") /\ "ioError" \in Outcome /\ LockEffect(p)
    BY <1>2 DEF SaveManifestFails, Outcome, Unlock, LockEffect
  <2>2. UNCHANGED <<manifest, cipher, committed, begun>>
    BY DEF SaveManifestFails, disk
  <2>3. QED  BY <2>1, <2>2, ReturnIsQuiet
<1>3. QED  BY <1>1, <1>2

LEMMA RecordEventIsQuiet ==
    ASSUME TypeInv, FileInv, NEW p \in Proc, RecordEvent(p)
    PROVE  QuietStep(p)
<1> USE DEF RecordEvent
<1>1. UNCHANGED <<manifest, cipher, committed, begun, lock, pc>>
  BY DEF disk
<1>2. PICK s \in local[p].todo : local' = [local EXCEPT ![p].todo = @ \ {s}]
  OBVIOUS
<1> DEFINE new == [local[p] EXCEPT !.todo = @ \ {s}]
<1>3. local' = [local EXCEPT ![p] = new]
  BY <1>2 DEF TypeInv, TypeOK
<1>4. /\ new.call = local[p].call
      /\ new.no = local[p].no
      /\ new.meta = local[p].meta
  BY CallType1 DEF Local
<1> HIDE DEF new
<1>5. OthersWait(p) /\ pc'[p] = "audit" /\ local'[p] = new
  BY <1>1, <1>3 DEF OthersWait, TypeInv, TypeOK
<1>6. QuietCall(p)
  BY <1>4, <1>5 DEF QuietCall, FileInv, ListedInv, WritingStep
<1>7. QED  BY <1>1, <1>5, <1>6 DEF QuietStep, LockEffect

-----------------------------------------------------------------------------
(* The steps that begin a call, encrypt, or record *)

SafetyInv == TypeInv /\ FileInv /\ CipherInv

\* A call that begins has a fresh number, a listed entry unless it is `init`,
\* and the lock only if it is `init` of an unlisted namespace.
Begun(p) ==
    /\ UNCHANGED <<manifest, cipher, committed>>
    /\ OthersWait(p)
    /\ lock = Nil
    /\ begun' = begun + 1
    /\ pc[p] = "idle"
    /\ \/ pc'[p] = "idle" /\ lock' = lock
       \/ /\ pc'[p] \in {"hash", "saveBundle"}
          /\ local'[p].no = begun + 1
          /\ local'[p].meta.recipients # {}
          /\ local'[p].call.kind # "init" => Listed(local'[p].call.ns)
          /\ pc'[p] = "hash" => lock' = lock
          /\ pc'[p] = "saveBundle" =>
                lock' = p /\ local'[p].meta.version = manifest[local'[p].call.ns].version

LEMMA BegunKeepsInv ==
    ASSUME SafetyInv, NEW p \in Proc, Begun(p)
    PROVE  FileInv' /\ CipherInv'
<1> USE DEF SafetyInv, Begun
<1>1. LockInv'
  BY DEF FileInv, LockInv, OthersWait, Writing, WritingStep
<1>2. ListedInv'
  BY DEF FileInv, ListedInv, OthersWait, Listed, NsOf
<1>3. VersionInv'
  BY DEF FileInv, VersionInv, OthersWait, Writing, WritingStep, NsOf
<1>4. NumberInv'
  <2>1. begun \in Nat /\ begun >= 1
    BY DEF TypeInv, TypeOK, CallNo
  <2>2. committed' \subseteq 2..begun'
    BY <2>1 DEF CipherInv, NumberInv
  <2>3. \A q \in Proc : pc'[q] # "idle" =>
            /\ local'[q].no \in 2..begun'
            /\ pc'[q] # "audit" => local'[q].no \notin committed'
    <3> SUFFICES ASSUME NEW q \in Proc, pc'[q] # "idle"
                 PROVE  /\ local'[q].no \in 2..begun'
                        /\ pc'[q] # "audit" => local'[q].no \notin committed'
      OBVIOUS
    <3>1. CASE q = p
      BY <2>1, <3>1 DEF CipherInv, NumberInv
    <3>2. CASE q # p
      BY <2>1, <3>2 DEF CipherInv, NumberInv, OthersWait
    <3>3. QED  BY <3>1, <3>2
  <2>4. \A q, r \in Proc :
            q # r /\ pc'[q] # "idle" /\ pc'[r] # "idle" => local'[q].no # local'[r].no
    <3> SUFFICES ASSUME NEW q \in Proc, NEW r \in Proc, q # r,
                        pc'[q] # "idle", pc'[r] # "idle"
                 PROVE  local'[q].no # local'[r].no
      OBVIOUS
    <3>1. \A x \in Proc \ {p} : pc'[x] # "idle" => local'[x].no \in 2..begun
      BY DEF CipherInv, NumberInv, OthersWait
    <3>2. CASE q = p
      BY <2>1, <3>1, <3>2
    <3>3. CASE r = p
      BY <2>1, <3>1, <3>3
    <3>4. CASE q # p /\ r # p
      BY <3>4 DEF CipherInv, NumberInv, OthersWait
    <3>5. QED  BY <3>2, <3>3, <3>4
  <2>5. QED  BY <2>2, <2>3, <2>4 DEF CipherInv, NumberInv
<1>5. EncryptedInv'
  BY DEF CipherInv, EncryptedInv, OthersWait, NsOf
<1>6. EncryptedToTheListed'
  BY DEF CipherInv, EncryptedToTheListed
<1>7. QED  BY <1>1, <1>2, <1>3, <1>4, <1>5, <1>6 DEF FileInv, CipherInv

LEMMA LoadBegins ==
    ASSUME SafetyInv, NEW p \in Proc, NEW c \in Calls, Load(p, c)
    PROVE  Begun(p)
<1> USE DEF Load
<1>1. UNCHANGED <<manifest, cipher, committed>> /\ lock = Nil /\ lock' = lock
      /\ pc[p] = "idle"
  BY DEF disk
<1>2. CASE Listed(c.ns)
  <2> DEFINE new == [NoLocal EXCEPT !.call = c, !.no = begun + 1,
                                    !.meta = manifest[c.ns], !.values = NoValues]
  <2>1. /\ pc' = [pc EXCEPT ![p] = "hash"]
        /\ local' = [local EXCEPT ![p] = new]
        /\ begun' = begun + 1
    BY <1>2 DEF Begin, Goto
  <2>2. new.call = c /\ new.no = begun + 1 /\ new.meta = manifest[c.ns]
    BY DEF NoLocal
  <2> HIDE DEF new
  <2>3. OthersWait(p) /\ pc'[p] = "hash" /\ local'[p] = new
    BY <2>1 DEF OthersWait, SafetyInv, TypeInv, TypeOK
  <2>4. QED  BY <1>1, <1>2, <2>1, <2>2, <2>3 DEF Begun, Listed
<1>3. CASE ~Listed(c.ns)
  BY <1>1, <1>3 DEF Begun, OthersWait
<1>4. QED  BY <1>2, <1>3

LEMMA LockForInitBegins ==
    ASSUME SafetyInv, NEW p \in Proc, NEW c \in Calls, LockForInit(p, c)
    PROVE  Begun(p)
<1> USE DEF LockForInit
<1>1. UNCHANGED <<manifest, cipher, committed>> /\ lock = Nil /\ pc[p] = "idle"
  BY DEF disk
<1>2. CASE ~Listed(c.ns)
  <2> DEFINE entry == [NoEntry EXCEPT !.recipients = c.recipients]
             new == [NoLocal EXCEPT !.call = c, !.no = begun + 1,
                                    !.meta = entry, !.values = NoValues]
  <2>1. /\ pc' = [pc EXCEPT ![p] = "saveBundle"]
        /\ local' = [local EXCEPT ![p] = new]
        /\ begun' = begun + 1
        /\ lock' = p
    BY <1>2 DEF Begin, Goto
  <2>2. entry.version = 0 /\ entry.recipients # {}
    <3>1. c \in CallType /\ c.kind = "init"
      OBVIOUS
    <3>2. c.recipients # {}
      BY <3>1, CallFields
    <3>3. entry.version = 0 /\ entry.recipients = c.recipients
      BY DEF NoEntry
    <3>4. QED  BY <3>2, <3>3
  <2>3. new.call = c /\ new.no = begun + 1 /\ new.meta = entry
    BY DEF NoLocal
  <2>4. manifest[c.ns].version = 0
    BY <1>2, CallFields DEF SafetyInv, FileInv, ListedInv
  <2> HIDE DEF new, entry
  <2>5. OthersWait(p) /\ pc'[p] = "saveBundle" /\ local'[p] = new
    BY <2>1 DEF OthersWait, SafetyInv, TypeInv, TypeOK
  <2>6. QED  BY <1>1, <2>1, <2>2, <2>3, <2>4, <2>5 DEF Begun
<1>3. CASE Listed(c.ns)
  BY <1>1, <1>3 DEF Begun, OthersWait
<1>4. QED  BY <1>2, <1>3

LEMMA SaveBundleKeepsInv ==
    ASSUME SafetyInv, NEW p \in Proc, SaveBundle(p)
    PROVE  FileInv' /\ CipherInv'
<1> DEFINE step == IF OriginAware(p) THEN "saveOrigins" ELSE "saveManifest"
           new == [local[p] EXCEPT !.meta.sha = local[p].no]
           made == [values |-> local[p].values, to |-> local[p].meta.recipients]
<1> USE DEF SaveBundle, SafetyInv
<1>0. UNCHANGED <<manifest, committed, begun, lock>> /\ pc[p] = "saveBundle"
  OBVIOUS
<1>1. /\ pc' = [pc EXCEPT ![p] = step]
      /\ local' = [local EXCEPT ![p] = new]
  BY DEF Goto, TypeInv, TypeOK
<1>2. /\ new.call = local[p].call
      /\ new.no = local[p].no
      /\ new.meta.version = local[p].meta.version
      /\ new.meta.recipients = local[p].meta.recipients
      /\ new.meta.sha = local[p].no
  BY CallType1 DEF Local, ManifestEntry
<1>3. step \in {"saveOrigins", "saveManifest"}
  OBVIOUS
<1> HIDE DEF new, step
<1>4. OthersWait(p) /\ pc'[p] = step /\ local'[p] = new
  BY <1>1 DEF OthersWait, TypeInv, TypeOK
<1>5. /\ cipher'[NsOf(p)][local[p].no] = made
      /\ \A ns \in Namespace, n \in CallNo :
             n # local[p].no => cipher'[ns][n] = cipher[ns][n]
  BY CallType1 DEF TypeInv, TypeOK
<1> HIDE DEF SaveBundle
<1>6. local[p].no \in 2..begun /\ local[p].no \notin committed
  BY <1>0 DEF CipherInv, NumberInv
<1>7. FileInv'
  <2>1. LockInv'
    BY <1>0, <1>3, <1>4 DEF FileInv, LockInv, OthersWait, Writing, WritingStep
  <2>2. ListedInv'
    <3>1. \A ns \in Namespace : ~Listed(ns)' => manifest'[ns].version = 0
      BY <1>0 DEF FileInv, ListedInv, Listed
    <3>2. ASSUME NEW q \in Proc, pc'[q] # "idle"
          PROVE  /\ local'[q].meta.recipients # {}
                 /\ local'[q].call.kind # "init" => Listed(NsOf(q))'
      <4>1. CASE q = p
        BY <1>0, <1>2, <1>4, <4>1 DEF FileInv, ListedInv, Listed, NsOf
      <4>2. CASE q # p
        BY <1>0, <1>4, <3>2, <4>2 DEF OthersWait, FileInv, ListedInv, Listed, NsOf
      <4>3. QED  BY <4>1, <4>2
    <3>3. QED  BY <3>1, <3>2 DEF ListedInv
  <2>3. VersionInv'
    BY <1>0, <1>2, <1>3, <1>4
       DEF FileInv, VersionInv, OthersWait, Writing, WritingStep, NsOf
  <2>4. QED  BY <2>1, <2>2, <2>3 DEF FileInv
<1>8. NumberInv'
  BY <1>0, <1>2, <1>3, <1>4 DEF CipherInv, NumberInv, OthersWait
<1>9. EncryptedInv'
  <2> SUFFICES ASSUME NEW q \in Proc, pc'[q] \in {"saveOrigins", "saveManifest"}
               PROVE  /\ local'[q].meta.sha = local'[q].no
                      /\ cipher'[NsOf(q)'][local'[q].no].to
                            = local'[q].meta.recipients
    BY DEF EncryptedInv
  <2>1. CASE q = p
    BY <1>2, <1>4, <1>5, <2>1 DEF NsOf
  <2>2. CASE q # p
    <3>1. /\ pc[q] \in {"saveOrigins", "saveManifest"}
          /\ local'[q] = local[q]
          /\ local[q].no # local[p].no
      BY <1>0, <1>4, <2>2 DEF OthersWait, CipherInv, NumberInv
    <3>2. NsOf(q) \in Namespace /\ local[q].no \in CallNo
      BY <3>1, CallType1
    <3>3. cipher'[NsOf(q)][local[q].no] = cipher[NsOf(q)][local[q].no]
      BY <1>5, <3>1, <3>2
    <3>4. QED  BY <3>1, <3>3 DEF CipherInv, EncryptedInv, NsOf
  <2>3. QED  BY <2>1, <2>2
<1>10. EncryptedToTheListed'
  <2> SUFFICES ASSUME NEW ns \in Namespace, manifest'[ns].sha # NoCallNo
               PROVE  cipher'[ns][manifest'[ns].sha].to = manifest'[ns].recipients
    BY DEF EncryptedToTheListed
  <2>1. manifest[ns].sha \in CallNo /\ manifest[ns].sha # local[p].no
    <3>1. manifest[ns].sha \in Sha /\ manifest[ns].sha \in {NoCallNo, 1} \union committed
      BY DEF TypeInv, TypeOK, ManifestEntry, CipherInv, NumberInv
    <3>2. local[p].no # 1
      BY <1>6 DEF TypeInv, TypeOK, CallNo
    <3>3. QED  BY <1>0, <1>6, <3>1, <3>2 DEF Sha
  <2>2. QED  BY <1>0, <1>5, <2>1 DEF CipherInv, EncryptedToTheListed
<1>11. QED  BY <1>7, <1>8, <1>9, <1>10 DEF CipherInv

\* The entry a manifest write records, under the lock of the one that writes.
LEMMA SaveManifestEffect ==
    ASSUME SafetyInv, NEW p \in Proc, SaveManifest(p)
    PROVE  /\ manifest'[NsOf(p)].version = manifest[NsOf(p)].version + 1
           /\ manifest'[NsOf(p)].sha = local[p].no
           /\ manifest'[NsOf(p)].recipients = local[p].meta.recipients
           /\ \A ns \in Namespace : ns # NsOf(p) => manifest'[ns] = manifest[ns]
           /\ NsOf(p) \in Namespace
           /\ lock = p /\ lock' \in {p, Nil}
           /\ OthersWait(p)
           /\ pc[p] = "saveManifest" /\ pc'[p] = "audit"
           /\ local'[p].call = local[p].call
           /\ local'[p].no = local[p].no
           /\ local'[p].meta = local[p].meta
<1> DEFINE new == [local[p] EXCEPT !.todo = Events(p)]
           entry == [version    |-> local[p].meta.version + 1,
                     sha        |-> local[p].meta.sha,
                     recipients |-> local[p].meta.recipients]
<1> USE DEF SaveManifest, SafetyInv
<1>1. Writing(p) /\ pc[p] = "saveManifest"
  BY DEF Writing, WritingStep
<1>2. lock = p /\ manifest[NsOf(p)].version = local[p].meta.version
  BY <1>1 DEF FileInv, LockInv, VersionInv
<1>3. local[p].meta.sha = local[p].no
  BY <1>1 DEF CipherInv, EncryptedInv
<1>4. NsOf(p) \in Namespace
  BY <1>1, CallType1
<1>5. manifest' = [manifest EXCEPT ![NsOf(p)] = entry]
  OBVIOUS
<1>6. /\ entry.version = local[p].meta.version + 1
      /\ entry.sha = local[p].meta.sha
      /\ entry.recipients = local[p].meta.recipients
  OBVIOUS
<1>7. /\ pc' = [pc EXCEPT ![p] = "audit"]
      /\ local' = [local EXCEPT ![p] = new]
  BY DEF Goto, TypeInv, TypeOK
<1>8. new.call = local[p].call /\ new.no = local[p].no /\ new.meta = local[p].meta
  BY <1>1, CallType1 DEF Local
<1> HIDE DEF new, entry
<1>9. OthersWait(p) /\ pc'[p] = "audit" /\ local'[p] = new
  BY <1>7 DEF OthersWait, TypeInv, TypeOK
<1>10. /\ manifest'[NsOf(p)] = entry
       /\ \A ns \in Namespace : ns # NsOf(p) => manifest'[ns] = manifest[ns]
  BY <1>4, <1>5 DEF TypeInv, TypeOK
<1>11. lock' \in {p, Nil}
  BY <1>2
<1>12. QED  BY <1>1, <1>2, <1>3, <1>4, <1>6, <1>8, <1>9, <1>10, <1>11

LEMMA SaveManifestKeepsInv ==
    ASSUME SafetyInv, NEW p \in Proc, SaveManifest(p)
    PROVE  FileInv' /\ CipherInv'
<1> USE SaveManifestEffect DEF SafetyInv
<1>0. /\ UNCHANGED <<cipher, begun>>
      /\ committed' = committed \union {local[p].no}
  BY DEF SaveManifest
<1>1. \A q \in Proc \ {p} : ~Writing(q)
  BY OneWriter DEF FileInv
<1>2. LockInv' /\ VersionInv'
  <2>1. \A q \in Proc : pc'[q] \notin WritingStep
    BY <1>1 DEF OthersWait, Writing, WritingStep
  <2>2. QED  BY <2>1 DEF LockInv, VersionInv, Writing
<1>3. ListedInv'
  <2>1. local[p].meta.recipients # {}
    BY DEF FileInv, ListedInv
  <2>2. \A ns \in Namespace : Listed(ns) => Listed(ns)'
    BY <2>1 DEF Listed
  <2>3. \A ns \in Namespace : ~Listed(ns)' => manifest'[ns].version = 0
    BY <2>1 DEF FileInv, ListedInv, Listed
  <2>4. ASSUME NEW q \in Proc, pc'[q] # "idle"
        PROVE  /\ local'[q].meta.recipients # {}
               /\ local'[q].call.kind # "init" => Listed(NsOf(q))'
    <3>1. /\ pc[q] # "idle"
          /\ local'[q].call = local[q].call
          /\ local'[q].meta = local[q].meta
      BY <2>4 DEF OthersWait
    <3>2. NsOf(q) \in Namespace /\ NsOf(q)' = NsOf(q)
      BY <3>1, CallType1 DEF NsOf
    <3>3. QED  BY <2>2, <3>1, <3>2 DEF FileInv, ListedInv, Listed
  <2>5. QED  BY <2>3, <2>4 DEF ListedInv
<1>4. NumberInv'
  <2>1. local[p].no \in 2..begun
    BY DEF CipherInv, NumberInv
  <2>2. \A ns \in Namespace : manifest'[ns].sha \in {NoCallNo, 1} \union committed'
    BY <1>0 DEF CipherInv, NumberInv
  <2>3. \A q \in Proc : pc'[q] # "idle" =>
            /\ pc[q] # "idle"
            /\ local'[q].no = local[q].no
            /\ q # p => pc'[q] = pc[q]
    BY DEF OthersWait
  <2>4. committed' \subseteq 2..begun'
    BY <1>0, <2>1 DEF CipherInv, NumberInv
  <2>5. \A q, r \in Proc :
            q # r /\ pc'[q] # "idle" /\ pc'[r] # "idle" => local'[q].no # local'[r].no
    BY <2>3 DEF CipherInv, NumberInv
  <2>6. ASSUME NEW q \in Proc, pc'[q] # "idle"
        PROVE  /\ local'[q].no \in 2..begun'
               /\ pc'[q] # "audit" => local'[q].no \notin committed'
    <3>1. /\ local'[q].no = local[q].no
          /\ pc[q] # "idle"
          /\ local[q].no \in 2..begun
      BY <2>3, <2>6 DEF CipherInv, NumberInv
    <3>2. ASSUME pc'[q] # "audit"
          PROVE  local[q].no \notin committed /\ local[q].no # local[p].no
      <4>1. pc'[p] = "audit" /\ pc[p] # "idle"
        BY SaveManifestEffect
      <4>2. q # p /\ pc[q] # "audit"
        BY <2>3, <2>6, <3>2, <4>1
      <4>3. QED  BY <3>1, <4>1, <4>2 DEF CipherInv, NumberInv
    <3>3. QED  BY <1>0, <3>1, <3>2
  <2>7. QED  BY <2>2, <2>4, <2>5, <2>6 DEF NumberInv
<1>5. EncryptedInv'
  <2>1. \A q \in Proc : pc'[q] \notin {"saveOrigins", "saveManifest"}
    BY <1>1 DEF OthersWait, Writing, WritingStep
  <2>2. QED  BY <2>1 DEF EncryptedInv
<1>6. EncryptedToTheListed'
  <2> SUFFICES ASSUME NEW ns \in Namespace, manifest'[ns].sha # NoCallNo
               PROVE  cipher'[ns][manifest'[ns].sha].to = manifest'[ns].recipients
    BY DEF EncryptedToTheListed
  <2>1. CASE ns = NsOf(p)
    BY <1>0, <2>1 DEF CipherInv, EncryptedInv
  <2>2. CASE ns # NsOf(p)
    BY <1>0, <2>2 DEF CipherInv, EncryptedToTheListed
  <2>3. QED  BY <2>1, <2>2
<1>7. QED  BY <1>2, <1>3, <1>4, <1>5, <1>6 DEF FileInv, CipherInv

-----------------------------------------------------------------------------
(* The invariant *)

LEMMA InitSafety == Init => SafetyInv
<1> SUFFICES ASSUME Init PROVE SafetyInv
  OBVIOUS
<1> USE DEF Init
<1>1. TypeInv
  BY InitType
<1>2. \A p \in Proc : pc[p] = "idle"
  OBVIOUS
<1>3. FileInv
  <2>1. \A ns \in Namespace : ~Listed(ns) => manifest[ns].version = 0
    BY DEF Listed
  <2>2. QED  BY <1>2, <2>1 DEF FileInv, LockInv, ListedInv, VersionInv, Writing,
                               WritingStep
<1>4. CipherInv
  <2>1. \A ns \in Namespace : manifest[ns].sha \in {NoCallNo, 1}
    BY DEF ExistingSha
  <2>2. EncryptedToTheListed
    BY DEF EncryptedToTheListed, ExistingSha, CallNo
  <2>3. QED  BY <1>2, <2>1, <2>2 DEF CipherInv, NumberInv, EncryptedInv
<1>5. QED  BY <1>1, <1>3, <1>4 DEF SafetyInv

\* Every other step of p.
Quiet(p) ==
    \/ Unlocked(p) \/ ReadFails(p) \/ LockForCommit(p) \/ Auditing(p) \/ Crash(p)
    \/ SaveBundleFails(p) \/ SaveOrigins(p) \/ SaveOriginsFails(p)
    \/ SaveManifestFails(p) \/ UndoBundle(p) \/ UndoOrigins(p)

LEMMA QuietSteps ==
    ASSUME SafetyInv, NEW p \in Proc, Quiet(p)
    PROVE  QuietStep(p)
<1>1. CASE Unlocked(p)
  BY <1>1, HashIsQuiet, DecryptIsQuiet, EditIsQuiet, ReturningIsQuiet
     DEF Unlocked, SafetyInv
<1>2. CASE Auditing(p)
  BY <1>2, RecordEventIsQuiet, ReturningIsQuiet DEF Auditing, SafetyInv
<1>3. QED
  BY <1>1, <1>2, LockForCommitIsQuiet, WritingIsQuiet, SaveManifestFailsIsQuiet,
     ReturningIsQuiet DEF Quiet, SafetyInv

\* What a step of the store is, for the invariant and for the versions.
LEMMA StepKinds ==
    ASSUME Next
    PROVE  \/ UNCHANGED vars
           \/ \E p \in Proc : \E c \in Calls : Load(p, c) \/ LockForInit(p, c)
           \/ \E p \in Proc : SaveBundle(p) \/ SaveManifest(p) \/ Quiet(p)
  BY DEF Next, Start, Locked, Quiet

LEMMA NextSafety == SafetyInv /\ [Next]_vars => SafetyInv'
<1> SUFFICES ASSUME SafetyInv, [Next]_vars PROVE SafetyInv'
  OBVIOUS
<1>1. TypeInv'
  BY NextType DEF SafetyInv
<1>2. CASE UNCHANGED vars
  BY <1>1, <1>2 DEF vars, disk, SafetyInv, FileInv, CipherInv, LockInv, ListedInv,
     VersionInv, NumberInv, EncryptedInv, EncryptedToTheListed, Writing, Listed, NsOf
<1>3. ASSUME NEW p \in Proc, NEW c \in Calls, Load(p, c) \/ LockForInit(p, c)
      PROVE  FileInv' /\ CipherInv'
  BY <1>3, LoadBegins, LockForInitBegins, BegunKeepsInv
<1>4. ASSUME NEW p \in Proc, Quiet(p)
      PROVE  FileInv' /\ CipherInv'
  BY <1>4, QuietSteps, QuietKeepsFileInv, QuietKeepsCipherInv DEF SafetyInv
<1>5. QED
  BY <1>1, <1>2, <1>3, <1>4, StepKinds, SaveBundleKeepsInv, SaveManifestKeepsInv
     DEF SafetyInv

LEMMA Safety == Spec => []SafetyInv
  BY InitSafety, NextSafety, PTL DEF Spec

(***************************************************************************)
(* encryptAndWrite and saveManifest agree: whatever fails or dies, the     *)
(* ciphertext an entry records is encrypted to the recipients it lists, so *)
(* that nobody who was removed can open it and nobody listed is shut out.  *)
(***************************************************************************)
THEOREM VouchedBundlesAreForTheListed == Spec => []EncryptedToTheListed
<1>1. SafetyInv => EncryptedToTheListed
  BY DEF SafetyInv, CipherInv
<1>2. QED  BY Safety, <1>1, PTL

(***************************************************************************)
(* README, "Concurrency safety": the version of a namespace is monotonic   *)
(* and moves by one with each change of its entry, and a change of one     *)
(* entry leaves every other alone (commitEnv, mergeInto).                  *)
(***************************************************************************)
THEOREM VersionsAreMonotonic == Spec => VersionsStepByOne
<1> DEFINE Steps ==
        \A ns \in Namespace :
          manifest'[ns] # manifest[ns] =>
             /\ manifest'[ns].version = manifest[ns].version + 1
             /\ \A other \in Namespace \ {ns} : manifest'[other] = manifest[other]
<1>1. SafetyInv /\ [Next]_vars => [Steps]_vars
  <2> SUFFICES ASSUME SafetyInv, Next PROVE Steps \/ UNCHANGED vars
    OBVIOUS
  <2>1. ASSUME NEW p \in Proc, SaveManifest(p) PROVE Steps
    BY <2>1, SaveManifestEffect
  <2>2. ASSUME NEW p \in Proc, Quiet(p) PROVE Steps
    BY <2>2, QuietSteps DEF QuietStep
  <2>3. ASSUME NEW p \in Proc, NEW c \in Calls, Load(p, c) \/ LockForInit(p, c)
        PROVE  Steps
    BY <2>3 DEF Load, LockForInit, disk
  <2>4. ASSUME NEW p \in Proc, SaveBundle(p) PROVE Steps
    BY <2>4 DEF SaveBundle
  <2>5. QED  BY <2>1, <2>2, <2>3, <2>4, StepKinds
<1>2. QED  BY Safety, <1>1, PTL DEF Spec, VersionsStepByOne
=============================================================================
