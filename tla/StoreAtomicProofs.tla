------------------------- MODULE StoreAtomicProofs -------------------------
(***************************************************************************)
(* As long as nothing is left half done, the three files are one object:   *)
(* Store implements AtomicStore, the calls that fail leave nothing behind, *)
(* and whom `recipient remove --rotate` removed knows no provisioned value.*)
(*                                                                         *)
(* A call reads, edits and commits without a lock in between.  That it     *)
(* nevertheless applies to the committed contents is what ViewInv says: a  *)
(* view is either that of the committed contents, or its version is old,   *)
(* or a call is in flight that will make it old.                           *)
(***************************************************************************)
EXTENDS StoreFailureProofs

USE CallsAssumption, ExistingAssumption, IdentityAssumption, FaultAssumption,
    NilAssumption

-----------------------------------------------------------------------------
(* The committed labels *)

\* While a call is between the origins file and the manifest, the labels are
\* those it has saved; otherwise they are the file's.
Labels ==
    \A ns \in Namespace :
        /\ \A p \in Proc :
              Relabelling(p, ns) => CommittedOrigins(ns) = local[p].savedLabels
        /\ (\A p \in Proc : ~Relabelling(p, ns)) => CommittedOrigins(ns) = origins[ns]

LEMMA LabelsAre == SafetyInv => Labels
<1> SUFFICES ASSUME SafetyInv, NEW ns \in Namespace, NEW p \in Proc, Relabelling(p, ns)
             PROVE  CommittedOrigins(ns) = local[p].savedLabels
  BY DEF Labels, CommittedOrigins
<1> DEFINE q == CHOOSE r \in Proc : Relabelling(r, ns)
<1>1. q \in Proc /\ Relabelling(q, ns)
  OBVIOUS
<1>2. CommittedOrigins(ns) = local[q].savedLabels
  BY DEF CommittedOrigins
<1> HIDE DEF q
<1>3. Writing(p) /\ Writing(q)
  BY <1>1 DEF Relabelling, Writing, WritingStep
<1>4. q = p
  BY <1>1, <1>3 DEF SafetyInv, FileInv, LockInv
<1>5. QED  BY <1>2, <1>4

LEMMA LabelsWillBe == SafetyInv' => Labels'
  BY LabelsAre, PTL

\* Labels that no step touches, in the file or among what a relabelling process
\* has saved, stay the committed ones.
LEMMA LabelsKept ==
    ASSUME SafetyInv, SafetyInv', NEW p \in Proc, OthersWait(p), NEW ns \in Namespace,
           origins'[ns] = origins[ns],
           Relabelling(p, ns)' <=> Relabelling(p, ns),
           Relabelling(p, ns) => local'[p].savedLabels = local[p].savedLabels
    PROVE  CommittedOrigins(ns)' = CommittedOrigins(ns)
<1>1. \A q \in Proc : Relabelling(q, ns)' <=> Relabelling(q, ns)
  BY DEF OthersWait, Relabelling, OriginAware, TheCall, NsOf
<1>2. CASE \A q \in Proc : ~Relabelling(q, ns)
  BY <1>1, <1>2, LabelsAre, LabelsWillBe DEF Labels
<1>3. ASSUME NEW q \in Proc, Relabelling(q, ns)
      PROVE  CommittedOrigins(ns)' = CommittedOrigins(ns)
  <2>1. local'[q].savedLabels = local[q].savedLabels
    BY <1>3 DEF OthersWait
  <2>2. Relabelling(q, ns)'
    BY <1>1, <1>3
  <2>3. /\ CommittedOrigins(ns)' = local'[q].savedLabels
        /\ CommittedOrigins(ns) = local[q].savedLabels
    BY <1>3, <2>2, LabelsAre, LabelsWillBe DEF Labels
  <2>4. QED  BY <2>1, <2>3
<1>4. QED  BY <1>2, <1>3

-----------------------------------------------------------------------------
(* Steps that commit nothing *)

\* What is committed stays.
KeepsCommitted ==
    /\ UNCHANGED manifest
    /\ \A ns \in Namespace : /\ CommittedNo(ns)' = CommittedNo(ns)
                             /\ CommittedValues(ns)' = CommittedValues(ns)
                             /\ CommittedOrigins(ns)' = CommittedOrigins(ns)

\* A step that changes no file, and by which nobody begins or ends relabelling.
LEMMA FilesKeptCommitted ==
    ASSUME SafetyInv, SafetyInv', NEW p \in Proc, OthersWait(p), UNCHANGED disk,
           \A ns \in Namespace : ~Relabelling(p, ns) /\ ~Relabelling(p, ns)'
    PROVE  KeepsCommitted
<1>1. UNCHANGED <<manifest, origins, cipher>>
  BY DEF disk
<1>2. ASSUME NEW ns \in Namespace
      PROVE  /\ CommittedNo(ns)' = CommittedNo(ns)
             /\ CommittedValues(ns)' = CommittedValues(ns)
             /\ CommittedOrigins(ns)' = CommittedOrigins(ns)
  BY <1>1, LabelsKept DEF CommittedNo, CommittedValues
<1>3. QED  BY <1>1, <1>2 DEF KeepsCommitted

\* What p has prepared is its call, applied to the same contents.
LEMMA AppliedStays ==
    ASSUME NEW p \in Proc, NEW ns \in Namespace, AppliedTo(p, Committed(ns)),
           KeepsCommitted,
           local'[p].call = local[p].call, local'[p].no = local[p].no,
           local'[p].meta.recipients = local[p].meta.recipients,
           local'[p].values = local[p].values,
           OriginAware(p) => local'[p].labels = local[p].labels
    PROVE  AppliedTo(p, Committed(ns))'
<1>1. Committed(ns)' = Committed(ns)
  BY DEF KeepsCommitted, Committed
<1>2. QED  BY <1>1 DEF AppliedTo, TheCall, OriginAware

\* Such a step keeps the invariant if it keeps p's part of it.
LEMMA StepKeepsAtomic ==
    ASSUME SafetyInv, AtomicInv, NEW p \in Proc, OthersWait(p), KeepsCommitted,
           Writing(p) \/ UNCHANGED disk,
           \A ns \in Namespace :
              /\ InFlight(p, ns) => InFlight(p, ns)'
              /\ bundle'[ns] = bundle[ns] \/ InFlight(p, ns)'
              /\ Running(p, ns)' => ViewInv(p, ns)' /\ FlightInv(p, ns)'
    PROVE  AtomicInv'
<1>1. ASSUME NEW ns \in Namespace, Stable(ns)'
      PROVE  Stable(ns) /\ bundle'[ns] = bundle[ns]
  BY <1>1 DEF Stable, InFlight, OthersWait, NsOf
<1>2. ASSUME NEW q \in Proc \ {p}, NEW ns \in Namespace, Running(q, ns)'
      PROVE  ViewInv(q, ns)' /\ FlightInv(q, ns)'
  <2>1. pc'[q] = pc[q] /\ local'[q] = local[q] /\ Running(q, ns)
    BY <1>2 DEF OthersWait, Running, NsOf
  <2>2. ViewInv(q, ns) /\ FlightInv(q, ns)
    BY <2>1 DEF AtomicInv
  <2>3. manifest' = manifest /\ CommittedValues(ns)' = CommittedValues(ns)
        /\ Committed(ns)' = Committed(ns)
    BY DEF KeepsCommitted, Committed
  <2>4. ViewInv(q, ns)'
    <3>1. Current(q, ns)' => Current(q, ns)
      BY <1>1, <2>1, <2>3 DEF Current, Unchanged
    <3>2. AppliedTo(q, Committed(ns)) => AppliedTo(q, Committed(ns))'
      BY <2>1, <2>3 DEF AppliedTo, TheCall, OriginAware
    <3>3. QED
      BY <2>1, <2>2, <2>3, <3>1, <3>2 DEF ViewInv, Unchanged, Writing
  <2>5. FlightInv(q, ns)'
    <3>1. CASE UNCHANGED disk
      BY <2>1, <2>2, <3>1 DEF disk, FlightInv, Writing, Listed, OriginAware, TheCall
    <3>2. CASE ~Writing(q)
      BY <2>1, <2>2, <3>2 DEF FlightInv, Writing, WritingStep
    <3>3. QED  BY <3>1, <3>2, OneWriter DEF SafetyInv, FileInv
  <2>6. QED  BY <2>4, <2>5
<1>3. BundleInv'
  <2> SUFFICES ASSUME NEW ns \in Namespace, Listed(ns)', Stable(ns)'
               PROVE  bundle'[ns] = CommittedNo(ns)'
    BY DEF BundleInv
  <2>1. QED  BY <1>1 DEF KeepsCommitted, Listed, AtomicInv, BundleInv
<1>4. QED  BY <1>2, <1>3 DEF AtomicInv

-----------------------------------------------------------------------------
(* A call up to its first write *)

\* The steps at which a call has replaced files.
Halfway == {"saveOrigins", "saveManifest", "undoBundle", "undoOrigins"}

\* A step of p, not half-way before or after it, that changes no file.
LEMMA OutsideKeepsAtomic ==
    ASSUME SafetyInv, SafetyInv', AtomicInv, NEW p \in Proc, OthersWait(p),
           UNCHANGED disk, pc[p] \notin Halfway, pc'[p] \notin Halfway,
           \A ns \in Namespace : Running(p, ns)' => ViewInv(p, ns)' /\ FlightInv(p, ns)'
    PROVE  AtomicInv' /\ KeepsCommitted
<1>1. \A ns \in Namespace : ~Relabelling(p, ns) /\ ~Relabelling(p, ns)' /\ ~InFlight(p, ns)
  BY DEF Halfway, Relabelling, InFlight
<1>2. KeepsCommitted
  BY <1>1, FilesKeptCommitted
<1>3. QED  BY <1>1, <1>2, StepKeepsAtomic DEF disk

\* A call that returns having written nothing, or everything.
LEMMA GoneKeepsAtomic ==
    ASSUME SafetyInv, SafetyInv', AtomicInv, NEW p \in Proc, NEW how, Gone(p, how),
           UNCHANGED disk, pc[p] \notin Halfway
    PROVE  AtomicInv' /\ KeepsCommitted
<1>1. OthersWait(p) /\ pc'[p] = "idle"
  BY DEF Gone
<1>2. pc'[p] \notin Halfway /\ \A ns \in Namespace : ~Running(p, ns)'
  BY <1>1 DEF Halfway, Running
<1>3. QED  BY <1>1, <1>2, OutsideKeepsAtomic

LEMMA BeginsKeepsAtomic ==
    ASSUME SafetyInv, SafetyInv', AtomicInv, NEW p \in Proc, NEW c \in Calls,
           BeginsWith(p, c)
    PROVE  AtomicInv' /\ KeepsCommitted
<1>1. /\ UNCHANGED disk /\ OthersWait(p)
      /\ pc[p] \notin Halfway /\ pc'[p] \notin Halfway
  BY DEF BeginsWith, Halfway
<1>2. ASSUME NEW ns \in Namespace, Running(p, ns)'
      PROVE  ViewInv(p, ns)' /\ FlightInv(p, ns)'
  <2>1. manifest[ns].version \in Nat /\ manifest' = manifest
    BY <1>1 DEF disk, SafetyInv, TypeInv, TypeOK, ManifestEntry
  <2>2. CASE pc'[p] = "hash"
    <3>1. c.ns = ns /\ local'[p].meta = manifest[ns]
      BY <1>2, <2>2 DEF BeginsWith, Running, NsOf
    <3>2. QED
      BY <2>1, <2>2, <3>1 DEF ViewInv, FlightInv, Unchanged, Writing, WritingStep
  <2>3. CASE pc'[p] = "saveBundle"
    <3>1. /\ c.ns = ns /\ c.kind = "init" /\ ~Listed(ns) /\ TheCall(p)' = c
          /\ local'[p].meta.version = 0
          /\ local'[p].meta.recipients = c.recipients
          /\ local'[p].values = NoValues
      BY <1>2, <2>3 DEF BeginsWith, Running, NsOf, TheCall
    <3>2. AppliedTo(p, Committed(ns))'
      BY <3>1 DEF AppliedTo
    <3>3. ViewInv(p, ns)'
      BY <2>1, <2>3, <3>1, <3>2 DEF ViewInv
    <3>4. ~OriginAware(p)' /\ ~Listed(ns)'
      BY <2>1, <3>1 DEF OriginAware, OriginKind, ValueKind, DropKind, Listed
    <3>5. FlightInv(p, ns)'
      BY <2>3, <3>4 DEF FlightInv
    <3>6. QED  BY <3>3, <3>5
  <2>4. QED  BY <1>2, <2>2, <2>3 DEF BeginsWith, Running
<1>3. QED  BY <1>1, <1>2, OutsideKeepsAtomic

\* p's view before a step of its own.
LEMMA OwnView ==
    ASSUME AtomicInv, NEW p \in Proc, NEW step, Moves(p, step), step # "idle",
           UNCHANGED manifest, NEW ns \in Namespace, Running(p, ns)'
    PROVE  /\ Running(p, ns) /\ ns = NsOf(p) /\ TheCall(p)' = TheCall(p)
           /\ ViewInv(p, ns) /\ FlightInv(p, ns)
           /\ local'[p].meta.version <= manifest'[ns].version
           /\ Unchanged(p, ns)' <=> Unchanged(p, ns)
<1>1. Running(p, ns) /\ ns = NsOf(p) /\ TheCall(p)' = TheCall(p)
  BY DEF Moves, Running, NsOf, TheCall
<1>2. ViewInv(p, ns) /\ FlightInv(p, ns)
  BY <1>1 DEF AtomicInv
<1>3. QED  BY <1>1, <1>2 DEF ViewInv, Moves, Unchanged

LEMMA HashKeepsAtomic ==
    ASSUME SafetyInv, SafetyInv', AtomicInv, NEW p \in Proc, Hash(p)
    PROVE  AtomicInv' /\ KeepsCommitted
<1>1. pc[p] = "hash" /\ UNCHANGED disk /\ pc[p] \notin Halfway
  BY HashEffect DEF SafetyInv, Halfway
<1>2. CASE Moves(p, "decrypt") /\ local'[p] = local[p]
  <2>1. OthersWait(p) /\ pc'[p] = "decrypt" /\ pc'[p] \notin Halfway
    BY <1>2 DEF Moves, Halfway
  <2>2. ASSUME NEW ns \in Namespace, Running(p, ns)'
        PROVE  ViewInv(p, ns)' /\ FlightInv(p, ns)'
    <3>1. ViewInv(p, ns) /\ (Unchanged(p, ns)' => Unchanged(p, ns))
          /\ local'[p].meta.version <= manifest'[ns].version /\ manifest' = manifest
      BY <1>1, <1>2, <2>2, OwnView DEF disk
    <3>2. QED
      BY <1>1, <1>2, <2>1, <3>1 DEF ViewInv, FlightInv, Writing, WritingStep
  <2>3. QED  BY <1>1, <2>1, <2>2, OutsideKeepsAtomic
<1>3. QED  BY <1>1, <1>2, HashEffect, GoneKeepsAtomic DEF SafetyInv

\* What age decrypts is what is committed, unless a call is in flight.
LEMMA DecryptKeepsAtomic ==
    ASSUME SafetyInv, SafetyInv', AtomicInv, NEW p \in Proc, Decrypt(p)
    PROVE  AtomicInv' /\ KeepsCommitted
<1>1. pc[p] = "decrypt" /\ UNCHANGED disk /\ pc[p] \notin Halfway
  BY DecryptEffect DEF SafetyInv, Halfway
<1>2. ASSUME NEW step \in {"return", "edit"}, Moves(p, step),
             step = "edit" => TheCall(p).kind # "read",
             local'[p].meta = local[p].meta,
             local'[p].values = cipher[NsOf(p)][bundle[NsOf(p)]].values
      PROVE  AtomicInv' /\ KeepsCommitted
  <2>1. OthersWait(p) /\ pc'[p] = step /\ pc'[p] \notin Halfway
    BY <1>2 DEF Moves, Halfway
  <2>2. ASSUME NEW ns \in Namespace, Running(p, ns)'
        PROVE  ViewInv(p, ns)' /\ FlightInv(p, ns)'
    <3>1. /\ ViewInv(p, ns) /\ (Unchanged(p, ns)' <=> Unchanged(p, ns))
          /\ local'[p].meta.version <= manifest'[ns].version /\ manifest' = manifest
          /\ NsOf(p) = ns
      BY <1>1, <1>2, <2>2, OwnView DEF disk
    <3>2. Current(p, ns)' => Stable(ns)
      BY <1>1, <2>1 DEF Current, Stable, InFlight, OthersWait, NsOf
    <3>3. step = "edit" => Listed(ns)
      <4>1. step = "edit" => TheCall(p).kind # "init"
        BY <1>1, CallType1 DEF SafetyInv, KindsAt, RewriteKind, OriginKind,
                               RecipientKind, ValueKind, DropKind
      <4>2. QED  BY <1>1, <3>1, <4>1 DEF SafetyInv, FileInv, ListedInv, TheCall
    <3>4. step = "edit" /\ Current(p, ns)' => local'[p].values = CommittedValues(ns)'
      <4>1. CommittedValues(ns)' = CommittedValues(ns)
        BY <1>1 DEF disk, CommittedValues, CommittedNo
      <4>2. QED
        BY <1>2, <3>1, <3>2, <3>3, <4>1 DEF AtomicInv, BundleInv, CommittedValues
    <3>5. QED
      BY <1>1, <1>2, <2>1, <3>1, <3>4 DEF ViewInv, FlightInv, Writing, WritingStep
  <2>3. QED  BY <1>1, <2>1, <2>2, OutsideKeepsAtomic
<1>3. QED  BY <1>1, <1>2, DecryptEffect, GoneKeepsAtomic DEF SafetyInv

\* While nobody is in flight, an edit sees the committed labels too.
LEMMA BeforeIsCommitted ==
    ASSUME SafetyInv, AtomicInv, NEW p \in Proc, pc[p] = "edit",
           NEW ns \in Namespace, NsOf(p) = ns, Current(p, ns)
    PROVE  Before(p) = Committed(ns)
<1>1. ViewInv(p, ns)
  BY DEF AtomicInv, Running
<1>2. /\ local[p].meta.recipients = manifest[ns].recipients
      /\ local[p].values = CommittedValues(ns)
  BY <1>1 DEF ViewInv, Current
<1>3. ASSUME NEW q \in Proc, Relabelling(q, ns) PROVE FALSE
  <2>1. Running(q, ns) /\ ~InFlight(q, ns)
    BY <1>3 DEF Relabelling, Running, Current, Stable
  <2>2. FlightInv(q, ns)
    BY <2>1 DEF AtomicInv
  <2>3. QED  BY <1>3, <2>1, <2>2 DEF Relabelling, FlightInv, InFlight
<1>4. CommittedOrigins(ns) = origins[ns]
  BY <1>3, LabelsAre DEF Labels
<1>5. QED  BY <1>2, <1>4 DEF Before, Committed

LEMMA EditKeepsAtomic ==
    ASSUME SafetyInv, SafetyInv', AtomicInv, NEW p \in Proc, Edit(p)
    PROVE  AtomicInv' /\ KeepsCommitted
<1> DEFINE after == Edited(TheCall(p), Before(p), local[p].no)
<1>1. pc[p] = "edit" /\ UNCHANGED disk /\ pc[p] \notin Halfway
  BY EditEffect DEF SafetyInv, Halfway
<1>2. CASE /\ Moves(p, "lock")
           /\ EditAllowed(TheCall(p), Before(p))
           /\ local'[p].meta.recipients = after.recipients
           /\ local'[p].values = after.values
           /\ local'[p].labels = after.origins
  <2>1. OthersWait(p) /\ pc'[p] = "lock" /\ pc'[p] \notin Halfway
    BY <1>2 DEF Moves, Halfway
  <2>2. KeepsCommitted
    BY <1>1, <2>1, FilesKeptCommitted DEF Halfway, Relabelling
  <2>3. ASSUME NEW ns \in Namespace, Running(p, ns)'
        PROVE  ViewInv(p, ns)' /\ FlightInv(p, ns)'
    <3>1. /\ Unchanged(p, ns)' <=> Unchanged(p, ns)
          /\ local'[p].meta.version <= manifest'[ns].version
          /\ NsOf(p) = ns /\ TheCall(p)' = TheCall(p) /\ local'[p].no = local[p].no
      BY <1>1, <1>2, <2>3, OwnView DEF disk, Moves
    <3>2. Current(p, ns)' => Current(p, ns)
      BY <1>1, <2>1, <3>1 DEF Current, Stable, InFlight, OthersWait, NsOf
    <3>3. TheCall(p).kind # "init" /\ (OriginAware(p)' <=> TheCall(p).kind \in OriginKind)
      BY <1>1, <3>1, CallType1
         DEF SafetyInv, KindsAt, RewriteKind, OriginKind, RecipientKind, ValueKind,
             DropKind, OriginAware
    <3>4. Current(p, ns)' => AppliedTo(p, Committed(ns))'
      <4> SUFFICES ASSUME Current(p, ns)' PROVE AppliedTo(p, Committed(ns))'
        OBVIOUS
      <4>1. Before(p) = Committed(ns) /\ Committed(ns)' = Committed(ns)
        BY <1>1, <2>2, <3>1, <3>2, BeforeIsCommitted DEF KeepsCommitted, Committed
      <4>2. QED
        BY <1>2, <3>1, <3>3, <4>1 DEF AppliedTo, Edited
    <3>5. QED
      BY <2>1, <3>1, <3>4 DEF ViewInv, FlightInv, Writing, WritingStep
  <2>4. QED  BY <1>1, <2>1, <2>3, OutsideKeepsAtomic
<1>3. CASE Gone(p, "refused")
  BY <1>1, <1>3, GoneKeepsAtomic
<1>4. QED  BY <1>2, <1>3, EditEffect DEF SafetyInv

\* Under the lock and with the version it loaded, a call applies to what is
\* committed.
LEMMA LockForCommitKeepsAtomic ==
    ASSUME SafetyInv, SafetyInv', AtomicInv, NEW p \in Proc, LockForCommit(p)
    PROVE  AtomicInv' /\ KeepsCommitted
<1>1. pc[p] = "lock" /\ lock = Nil /\ UNCHANGED disk /\ pc[p] \notin Halfway
  BY LockForCommitEffect DEF SafetyInv, Halfway
<1>2. CASE /\ Moves(p, "saveBundle") /\ VersionUnchanged(p)
           /\ local'[p].meta = local[p].meta
           /\ local'[p].values = local[p].values
           /\ local'[p].labels = local[p].labels
           /\ OriginAware(p) => local'[p].savedLabels = origins[NsOf(p)]
  <2>1. OthersWait(p) /\ pc'[p] = "saveBundle" /\ pc'[p] \notin Halfway
    BY <1>2 DEF Moves, Halfway
  <2>2. KeepsCommitted
    BY <1>1, <2>1, FilesKeptCommitted DEF Halfway, Relabelling
  <2>3. ASSUME NEW ns \in Namespace, Running(p, ns)'
        PROVE  ViewInv(p, ns)' /\ FlightInv(p, ns)'
    <3>1. /\ ViewInv(p, ns) /\ local'[p].meta.version <= manifest'[ns].version
          /\ NsOf(p) = ns /\ TheCall(p)' = TheCall(p)
          /\ local'[p].no = local[p].no /\ local'[p].call = local[p].call
      BY <1>1, <1>2, <2>3, OwnView DEF disk, Moves
    <3>2. Stable(ns)
      BY <1>1 DEF SafetyInv, FileInv, LockInv, Writing, WritingStep, Stable, InFlight
    <3>3. TheCall(p).kind # "init"
      BY <1>1, CallType1 DEF SafetyInv, KindsAt, RewriteKind, OriginKind,
                             RecipientKind, ValueKind, DropKind
    <3>4. Listed(ns)
      BY <1>1, <3>1, <3>3 DEF SafetyInv, FileInv, ListedInv, TheCall
    <3>5. AppliedTo(p, Committed(ns))
      BY <1>1, <1>2, <3>1, <3>2, <3>4 DEF VersionUnchanged, ViewInv, Current, Unchanged
    <3>6. AppliedTo(p, Committed(ns))'
      BY <1>2, <2>2, <3>1, <3>5, AppliedStays
    <3>7. ViewInv(p, ns)'
      BY <2>1, <3>1, <3>6 DEF ViewInv
    <3>8. FlightInv(p, ns)'
      BY <1>1, <1>2, <2>1, <3>1, <3>3 DEF disk, FlightInv, OriginAware
    <3>9. QED  BY <3>7, <3>8
  <2>4. QED  BY <1>1, <2>1, <2>3, OutsideKeepsAtomic
<1>3. CASE Gone(p, "conflict")
  BY <1>1, <1>3, GoneKeepsAtomic
<1>4. QED  BY <1>2, <1>3, LockForCommitEffect DEF SafetyInv

-----------------------------------------------------------------------------
(* The writes *)

LEMMA SaveBundleKeepsAtomic ==
    ASSUME SafetyInv, SafetyInv', AtomicInv, NEW p \in Proc, SaveBundle(p)
    PROVE  AtomicInv' /\ KeepsCommitted
<1>1. TypeInv
  BY DEF SafetyInv
<1>2. /\ pc[p] = "saveBundle" /\ UNCHANGED <<manifest, origins>>
      /\ local'[p].meta.recipients = local[p].meta.recipients
      /\ local'[p].values = local[p].values
      /\ local'[p].labels = local[p].labels
      /\ local'[p].savedLabels = local[p].savedLabels
      /\ NsOf(p) \in Namespace /\ local[p].no \in CallNo
      /\ bundle' = [bundle EXCEPT ![NsOf(p)] = local[p].no]
      /\ cipher'[NsOf(p)][local[p].no] =
            [values |-> local[p].values, to |-> local[p].meta.recipients]
      /\ Moves(p, IF OriginAware(p) THEN "saveOrigins" ELSE "saveManifest")
  BY ONLY <1>1, p \in Proc, SaveBundle(p), SaveBundleEffect
<1>3. /\ pc'[p] = IF OriginAware(p) THEN "saveOrigins" ELSE "saveManifest"
      /\ OthersWait(p) /\ NsOf(p)' = NsOf(p) /\ TheCall(p)' = TheCall(p)
      /\ OriginAware(p)' = OriginAware(p)
      /\ local'[p].no = local[p].no /\ local'[p].call = local[p].call
  BY <1>2 DEF Moves, NsOf, TheCall, OriginAware
<1>4. Writing(p) /\ Writing(p)'
  BY <1>2, <1>3 DEF Writing, WritingStep
<1>5. KeepsCommitted
  <2>1. ASSUME NEW ns \in Namespace
        PROVE  CommittedOrigins(ns)' = CommittedOrigins(ns)
    <3>1. ~Relabelling(p, ns) /\ ~Relabelling(p, ns)'
      BY <1>2, <1>3 DEF Relabelling
    <3>2. QED  BY <1>2, <1>3, <3>1, LabelsKept
  <2>2. QED  BY <1>2, <2>1, CommittedKept DEF KeepsCommitted
<1>6. ASSUME NEW ns \in Namespace
      PROVE  /\ ~InFlight(p, ns)
             /\ bundle'[ns] = bundle[ns] \/ InFlight(p, ns)'
  <2>1. ns # NsOf(p) => bundle'[ns] = bundle[ns]
    BY <1>1, <1>2 DEF TypeInv, TypeOK
  <2>2. QED  BY <1>2, <1>3, <2>1 DEF InFlight
<1>7. ASSUME NEW ns \in Namespace, Running(p, ns)'
      PROVE  ViewInv(p, ns)' /\ FlightInv(p, ns)'
  <2>1. /\ ViewInv(p, ns) /\ FlightInv(p, ns) /\ NsOf(p) = ns
        /\ local'[p].meta.version <= manifest'[ns].version
    BY <1>2, <1>3, <1>7, OwnView
  <2>2. AppliedTo(p, Committed(ns))'
    BY <1>2, <1>3, <1>4, <1>5, <2>1, AppliedStays DEF ViewInv
  <2>3. ViewInv(p, ns)'
    BY <1>3, <2>1, <2>2 DEF ViewInv
  <2>4. bundle'[ns] = local[p].no
    BY <1>1, <1>2, <2>1 DEF TypeInv, TypeOK
  <2>5. FlightInv(p, ns)'
    BY <1>2, <1>3, <1>4, <2>1, <2>4 DEF FlightInv, Listed
  <2>6. QED  BY <2>3, <2>5
<1>8. QED  BY <1>3, <1>4, <1>5, <1>6, <1>7, StepKeepsAtomic

LEMMA SaveOriginsKeepsAtomic ==
    ASSUME SafetyInv, SafetyInv', AtomicInv, NEW p \in Proc, SaveOrigins(p)
    PROVE  AtomicInv' /\ KeepsCommitted
<1>1. /\ pc[p] = "saveOrigins" /\ Moves(p, "saveManifest") /\ local'[p] = local[p]
      /\ UNCHANGED <<manifest, bundle, cipher>>
      /\ origins' = [origins EXCEPT ![NsOf(p)] = local[p].labels]
  BY SaveOriginsEffect DEF SafetyInv
<1>2. /\ pc'[p] = "saveManifest" /\ OthersWait(p)
      /\ NsOf(p)' = NsOf(p) /\ TheCall(p)' = TheCall(p)
  BY <1>1 DEF Moves, NsOf, TheCall
<1>3. /\ NsOf(p) \in Namespace /\ OriginAware(p) /\ OriginAware(p)'
      /\ Writing(p) /\ Writing(p)'
  BY <1>1, <1>2, CallType1 DEF SafetyInv, KindsAt, OriginAware, Writing, WritingStep
<1>4. /\ origins'[NsOf(p)] = local[p].labels
      /\ \A ns \in Namespace : ns # NsOf(p) => origins'[ns] = origins[ns]
  BY <1>1, <1>3 DEF SafetyInv, TypeInv, TypeOK
<1>5. KeepsCommitted
  <2>1. ASSUME NEW ns \in Namespace
        PROVE  CommittedOrigins(ns)' = CommittedOrigins(ns)
    <3>1. CASE ns = NsOf(p)
      <4>1. Relabelling(p, ns)'
        BY <1>2, <1>3, <3>1 DEF Relabelling
      <4>2. \A q \in Proc : ~Relabelling(q, ns)
        BY <1>1, <1>3, OneWriter
           DEF Relabelling, SafetyInv, FileInv, Writing, WritingStep
      <4>3. local[p].savedLabels = origins[ns]
        BY <1>1, <1>3, <3>1 DEF AtomicInv, FlightInv, Running
      <4>4. QED
        BY <1>1, <4>1, <4>2, <4>3, LabelsAre, LabelsWillBe DEF Labels
    <3>2. CASE ns # NsOf(p)
      BY <1>2, <1>4, <3>2, LabelsKept DEF Relabelling
    <3>3. QED  BY <3>1, <3>2
  <2>2. QED  BY <1>1, <2>1 DEF KeepsCommitted, CommittedNo, CommittedValues
<1>6. ASSUME NEW ns \in Namespace, Running(p, ns)'
      PROVE  ViewInv(p, ns)' /\ FlightInv(p, ns)'
  <2>1. /\ ViewInv(p, ns) /\ FlightInv(p, ns) /\ NsOf(p) = ns
        /\ local'[p].meta.version <= manifest'[ns].version
    BY <1>1, <1>6, OwnView
  <2>2. AppliedTo(p, Committed(ns))'
    BY <1>1, <1>3, <1>5, <2>1, AppliedStays DEF ViewInv
  <2>3. ViewInv(p, ns)'
    BY <1>2, <2>1, <2>2 DEF ViewInv
  <2>4. FlightInv(p, ns)'
    BY <1>1, <1>2, <1>3, <1>4, <2>1 DEF FlightInv, Listed
  <2>5. QED  BY <2>3, <2>4
<1>7. \A ns \in Namespace : (InFlight(p, ns) => InFlight(p, ns)') /\ bundle'[ns] = bundle[ns]
  BY <1>1, <1>2 DEF InFlight
<1>8. QED  BY <1>2, <1>3, <1>5, <1>6, <1>7, StepKeepsAtomic

-----------------------------------------------------------------------------
(* The manifest write *)

\* The one step that commits something: p's call, applied to what was committed
\* before, in its namespace only.
Commits(p, m) ==
    LET c == TheCall(p) IN
    /\ NsOf(p) = m /\ c \in Calls /\ c.ns = m
    /\ manifest'[m].version = manifest[m].version + 1
    /\ \A ns \in Namespace \ {m} : /\ manifest'[ns] = manifest[ns]
                                   /\ CommittedNo(ns)' = CommittedNo(ns)
                                   /\ Committed(ns)' = Committed(ns)
    /\ \/ /\ c.kind = "init" /\ ~Listed(m)
          /\ Committed(m)' = [recipients |-> c.recipients,
                              values     |-> NoValues,
                              origins    |-> CommittedOrigins(m)]
       \/ /\ c.kind \in RewriteKind /\ Listed(m)
          /\ EditAllowed(c, Committed(m))
          /\ Committed(m)' = Edited(c, Committed(m), local[p].no)

LEMMA SaveManifestCommits ==
    ASSUME SafetyInv, SafetyInv', AtomicInv, NEW p \in Proc, SaveManifest(p),
           NEW m \in Namespace, NsOf(p) = m
    PROVE  Commits(p, m)
<1> DEFINE c == TheCall(p)
<1>1. /\ manifest'[m].version = manifest[m].version + 1
      /\ manifest'[m].sha = local[p].no
      /\ manifest'[m].recipients = local[p].meta.recipients
      /\ \A ns \in Namespace : ns # m => manifest'[ns] = manifest[ns]
      /\ OthersWait(p) /\ pc[p] = "saveManifest" /\ pc'[p] = "audit"
      /\ UNCHANGED <<bundle, origins, cipher>>
  BY SaveManifestEffect, RecordedEffect
<1>2. Running(p, m) /\ Writing(p)
  BY <1>1 DEF Running, Writing, WritingStep
<1>3. ViewInv(p, m) /\ FlightInv(p, m)
  BY <1>2 DEF AtomicInv
<1>4. /\ c \in Calls /\ c.ns = m /\ c.kind \in RewriteKind \union {"init"}
      /\ local[p].no \in CallNo
  BY <1>1, <1>2, CallType1 DEF SafetyInv, KindsAt, Running, NsOf, TheCall
<1>5. \A q \in Proc, ns \in Namespace : /\ Relabelling(q, ns) => q = p /\ ns = m
                                        /\ ~Relabelling(q, ns)'
  <2>1. \A q \in Proc \ {p} : ~Writing(q)
    BY <1>2, OneWriter DEF SafetyInv, FileInv
  <2>2. \A q \in Proc : pc'[q] \notin {"saveManifest", "undoBundle", "undoOrigins"}
    BY <1>1, <2>1 DEF OthersWait, Writing, WritingStep
  <2>3. QED  BY <2>1, <2>2 DEF Relabelling, Writing, WritingStep
<1>6. \A ns \in Namespace : /\ CommittedOrigins(ns)' = origins[ns]
                            /\ ns # m \/ ~OriginAware(p) =>
                                  CommittedOrigins(ns) = origins[ns]
  BY <1>1, <1>5, LabelsAre, LabelsWillBe DEF Labels, Relabelling
<1>7. ASSUME NEW ns \in Namespace \ {m}
      PROVE  /\ CommittedNo(ns)' = CommittedNo(ns)
             /\ Committed(ns)' = Committed(ns)
  BY <1>1, <1>6 DEF Committed, CommittedValues, CommittedNo
<1>8. Committed(m)' = [recipients |-> local[p].meta.recipients,
                       values     |-> local[p].values,
                       origins    |-> origins[m]]
  <2>1. CommittedNo(m)' = local[p].no
    BY <1>1, <1>4 DEF CommittedNo, CallNo, NoCallNo
  <2>2. CommittedValues(m)' = local[p].values
    BY <1>1, <1>3, <2>1 DEF FlightInv, CommittedValues
  <2>3. QED  BY <1>1, <1>6, <2>2 DEF Committed
<1>9. AppliedTo(p, Committed(m))
  BY <1>2, <1>3 DEF ViewInv
<1>10. CASE c.kind = "init"
  <2>1. ~OriginAware(p) /\ ~Listed(m)
    BY <1>2, <1>3, <1>10 DEF OriginAware, OriginKind, ValueKind, DropKind, FlightInv
  <2>2. QED
    BY <1>1, <1>4, <1>6, <1>7, <1>8, <1>9, <1>10, <2>1 DEF AppliedTo, Commits
<1>11. CASE c.kind # "init"
  <2>1. Listed(m)
    BY <1>1, <1>2, <1>11 DEF SafetyInv, FileInv, ListedInv, Running, TheCall
  <2>2. /\ EditAllowed(c, Committed(m))
        /\ local[p].meta.recipients = EditedRecipients(c, Committed(m))
        /\ local[p].values = EditedValues(c, Committed(m), local[p].no)
        /\ OriginAware(p) => local[p].labels = EditedOrigins(c, Committed(m), local[p].no)
    BY <1>9, <1>11 DEF AppliedTo
  <2>3. origins[m] = IF c.kind \in OriginKind
                     THEN EditedOrigins(c, Committed(m), local[p].no)
                     ELSE Committed(m).origins
    BY <1>1, <1>3, <1>6, <2>2 DEF FlightInv, OriginAware, Committed
  <2>4. Committed(m)' = Edited(c, Committed(m), local[p].no)
    BY <1>8, <2>2, <2>3 DEF Edited
  <2>5. QED  BY <1>1, <1>4, <1>7, <1>11, <2>1, <2>2, <2>4 DEF Commits
<1>12. QED  BY <1>10, <1>11

\* Whoever has seen the namespace before has an old version now.
LEMMA SaveManifestKeepsAtomic ==
    ASSUME SafetyInv, SafetyInv', AtomicInv, NEW p \in Proc, SaveManifest(p)
    PROVE  AtomicInv'
<1>1. PICK m \in Namespace : m = NsOf(p)
  BY SaveManifestEffect
<1>2. /\ manifest'[m].version = manifest[m].version + 1
      /\ manifest'[m].sha = local[p].no
      /\ \A ns \in Namespace : ns # m => manifest'[ns] = manifest[ns]
      /\ OthersWait(p) /\ pc[p] = "saveManifest" /\ pc'[p] = "audit"
      /\ local'[p].call = local[p].call /\ local'[p].meta = local[p].meta
      /\ UNCHANGED <<bundle, origins, cipher>>
  BY <1>1, SaveManifestEffect, RecordedEffect
<1>3. Commits(p, m)
  BY <1>1, SaveManifestCommits
<1>4. Running(p, m) /\ Writing(p)
  BY <1>1, <1>2 DEF Running, Writing, WritingStep
<1>5. \A q \in Proc \ {p} : ~Writing(q)
  BY <1>4, OneWriter DEF SafetyInv, FileInv
<1>6. manifest[m].version \in Nat
  BY DEF SafetyInv, TypeInv, TypeOK, ManifestEntry
<1>7. ASSUME NEW q \in Proc, NEW ns \in Namespace, Running(q, ns)'
      PROVE  ViewInv(q, ns)' /\ FlightInv(q, ns)'
  <2>1. Running(q, ns) /\ local'[q].meta = local[q].meta
    BY <1>2, <1>7 DEF Running, OthersWait, NsOf
  <2>2. ViewInv(q, ns) /\ FlightInv(q, ns)
    BY <2>1 DEF AtomicInv
  <2>3. local[q].meta.version \in Nat
    BY <2>1, CallType1 DEF SafetyInv, Running, Local, ManifestEntry
  <2>4. ~Writing(q)' /\ (pc'[q] # pc[q] => pc'[q] = "audit")
    BY <1>2, <1>5 DEF OthersWait, Writing, WritingStep
  <2>5. FlightInv(q, ns)'
    BY <2>4 DEF FlightInv, Writing, WritingStep
  <2>6. CASE ns = m
    <3>1. local'[q].meta.version <= manifest'[ns].version /\ ~Unchanged(q, ns)'
      BY <1>2, <1>6, <2>1, <2>2, <2>3, <2>6 DEF ViewInv, Unchanged
    <3>2. QED  BY <2>4, <2>5, <3>1 DEF ViewInv, Current
  <2>7. CASE ns # m
    <3>1. q # p /\ pc'[q] = pc[q] /\ local'[q] = local[q] /\ manifest'[ns] = manifest[ns]
      BY <1>1, <1>2, <2>1, <2>7 DEF OthersWait, Running
    <3>2. Current(q, ns)' => Current(q, ns)
      <4>1. \A r \in Proc : InFlight(r, ns) => InFlight(r, ns)'
        BY <1>1, <1>2, <2>7 DEF InFlight, OthersWait, NsOf
      <4>2. QED  BY <3>1, <4>1 DEF Current, Unchanged, Stable
    <3>3. /\ Committed(ns)' = Committed(ns)
          /\ CommittedValues(ns)' = CommittedValues(ns)
      BY <1>2, <1>3, <2>7 DEF Commits, CommittedValues
    <3>4. AppliedTo(q, Committed(ns)) => AppliedTo(q, Committed(ns))'
      BY <3>1, <3>3 DEF AppliedTo, TheCall, OriginAware
    <3>5. ViewInv(q, ns)'
      BY <2>2, <2>4, <3>1, <3>2, <3>3, <3>4 DEF ViewInv, Unchanged
    <3>6. QED  BY <2>5, <3>5
  <2>8. QED  BY <2>6, <2>7
<1>8. BundleInv'
  <2> SUFFICES ASSUME NEW ns \in Namespace, Listed(ns)', Stable(ns)'
               PROVE  bundle'[ns] = CommittedNo(ns)'
    BY DEF BundleInv
  <2>1. CASE ns = m
    <3>1. bundle[m] = local[p].no
      BY <1>2, <1>4 DEF AtomicInv, FlightInv
    <3>2. local[p].no \in CallNo
      BY <1>2, CallType1 DEF SafetyInv
    <3>3. QED  BY <1>2, <2>1, <3>1, <3>2 DEF CommittedNo, CallNo, NoCallNo
  <2>2. CASE ns # m
    <3>1. Stable(ns)
      BY <1>1, <1>2, <2>2 DEF Stable, InFlight, OthersWait, NsOf
    <3>2. QED
      BY <1>2, <1>3, <2>2, <3>1 DEF AtomicInv, BundleInv, Commits, Listed
  <2>3. QED  BY <2>1, <2>2
<1>9. QED  BY <1>7, <1>8 DEF AtomicInv

-----------------------------------------------------------------------------
(* Every step *)

LEMMA InitAtomic == Init => AtomicInv
<1> SUFFICES ASSUME Init PROVE AtomicInv
  OBVIOUS
<1> USE DEF Init
<1>1. \A p \in Proc, ns \in Namespace : ~Running(p, ns)
  BY DEF Running
<1>2. ASSUME NEW ns \in Namespace, Listed(ns)
      PROVE  bundle[ns] = CommittedNo(ns)
  BY <1>2 DEF Listed, HasBundle, CommittedNo, ExistingSha
<1>3. QED  BY <1>1, <1>2 DEF AtomicInv, BundleInv

\* A step commits one call, or nothing.
LEMMA NextAtomic ==
    ASSUME SafetyInv, SafetyInv', AtomicInv, NothingHalfDone, [Next]_vars
    PROVE  /\ AtomicInv'
           /\ KeepsCommitted \/ \E p \in Proc, m \in Namespace : SaveManifest(p) /\ Commits(p, m)
<1>1. CASE UNCHANGED vars
  <2> USE <1>1 DEF vars, disk
  <2>1. KeepsCommitted
    BY DEF KeepsCommitted, CommittedNo, CommittedValues, CommittedOrigins,
           Relabelling, OriginAware, TheCall, NsOf
  <2>2. ASSUME NEW p \in Proc, NEW ns \in Namespace, Running(p, ns)'
        PROVE  ViewInv(p, ns)' /\ FlightInv(p, ns)'
    <3>1. Running(p, ns) /\ ViewInv(p, ns) /\ FlightInv(p, ns)
      BY <2>2 DEF AtomicInv, Running, NsOf
    <3>2. AppliedTo(p, Committed(ns)) => AppliedTo(p, Committed(ns))'
      BY <2>1, AppliedStays
    <3>3. QED
      BY <2>1, <3>1, <3>2
         DEF KeepsCommitted, ViewInv, FlightInv, Unchanged, Current, Stable, InFlight,
             NsOf, Writing, OriginAware, TheCall, Listed
  <2>3. BundleInv'
    BY <2>1 DEF KeepsCommitted, AtomicInv, BundleInv, Listed, Stable, InFlight, NsOf
  <2>4. QED  BY <2>1, <2>2, <2>3 DEF AtomicInv
<1>2. ASSUME NEW p \in Proc, NEW c \in Calls, Load(p, c) \/ LockForInit(p, c)
      PROVE  AtomicInv' /\ KeepsCommitted
  BY <1>2, BeginsEffect, BeginsKeepsAtomic DEF SafetyInv
<1>3. ASSUME NEW p \in Proc, SaveManifest(p)
      PROVE  AtomicInv' /\ \E m \in Namespace : Commits(p, m)
  <2>1. NsOf(p) \in Namespace
    BY <1>3, SaveManifestEffect
  <2>2. QED  BY <1>3, <2>1, SaveManifestCommits, SaveManifestKeepsAtomic
<1>4. ASSUME NEW p \in Proc, Quiet(p)
      PROVE  AtomicInv' /\ KeepsCommitted
  <2>1. /\ ~SaveOriginsFails(p) /\ ~SaveManifestFails(p) /\ ~Crash(p)
        /\ ~UndoBundle(p) /\ ~UndoOrigins(p)
    <3>1. ~SaveOriginsFails(p) /\ ~SaveManifestFails(p) /\ ~Crash(p)
      BY DEF NothingHalfDone, SaveOriginsFails, SaveManifestFails, Crash, MayFail
    <3>2. pc[p] \notin {"undoBundle", "undoOrigins"}
      <4>1. pc[p] # "idle" => NsOf(p) \in Namespace /\ Running(p, NsOf(p))
        BY CallType1 DEF SafetyInv, Running
      <4>2. \A ns \in Namespace : Running(p, ns) => FlightInv(p, ns)
        BY DEF AtomicInv
      <4>3. QED  BY <4>1, <4>2 DEF FlightInv
    <3>3. QED  BY <3>1, <3>2 DEF UndoBundle, UndoOrigins
  <2>2. CASE RecordEvent(p)
    <3>1. /\ pc[p] = "audit" /\ Moves(p, "audit") /\ UNCHANGED disk
          /\ local'[p].meta = local[p].meta
      BY <2>2, RecordEventEffect DEF SafetyInv
    <3>2. OthersWait(p) /\ pc'[p] = "audit" /\ pc[p] \notin Halfway /\ pc'[p] \notin Halfway
      BY <3>1 DEF Moves, Halfway
    <3>3. ASSUME NEW ns \in Namespace, Running(p, ns)'
          PROVE  ViewInv(p, ns)' /\ FlightInv(p, ns)'
      <4>1. local'[p].meta.version <= manifest'[ns].version
        BY <3>1, <3>3, OwnView DEF disk
      <4>2. QED  BY <3>2, <4>1 DEF ViewInv, FlightInv, Writing, WritingStep
    <3>4. QED  BY <3>1, <3>2, <3>3, OutsideKeepsAtomic
  <2>3. CASE ReadEnv(p) \/ ReadFails(p) \/ SaveBundleFails(p) \/ Finish(p)
    <3>1. PICK how : Gone(p, how) /\ UNCHANGED disk
      BY <2>3, ReturningEffect DEF SafetyInv
    <3>2. pc[p] \notin Halfway
      BY <2>3 DEF ReadEnv, ReadFails, SaveBundleFails, Finish, Halfway
    <3>3. QED  BY <3>1, <3>2, GoneKeepsAtomic
  <2>4. QED
    BY <1>4, <2>1, <2>2, <2>3, HashKeepsAtomic, DecryptKeepsAtomic, EditKeepsAtomic,
       LockForCommitKeepsAtomic, SaveOriginsKeepsAtomic DEF Quiet, Unlocked, Auditing
<1>5. QED  BY <1>1, <1>2, <1>3, <1>4, StepKinds, SaveBundleKeepsAtomic

-----------------------------------------------------------------------------
(* The refinement *)

\* The edits of the abstract store are those of EnvEdit.
LEMMA SameEdits ==
    ASSUME NEW c, NEW e, NEW v
    PROVE  /\ Abstract!EditAllowed(c, e) <=> EditAllowed(c, e)
           /\ Abstract!Edited(c, e, v) = Edited(c, e, v)
           /\ Abstract!RewriteKind = RewriteKind
           /\ Abstract!NoValues = NoValues
<1>1. /\ Abstract!RewriteKind = RewriteKind /\ Abstract!DropKind = DropKind
      /\ Abstract!OriginKind = OriginKind
      /\ Abstract!NoValues = NoValues
      /\ Abstract!Absent = Absent /\ Abstract!NoOrigin = NoOrigin
  BY DEF Abstract!RewriteKind, RewriteKind, Abstract!DropKind, DropKind,
         Abstract!OriginKind, OriginKind, Abstract!RecipientKind, RecipientKind,
         Abstract!ValueKind, ValueKind, Abstract!NoValues, NoValues, Abstract!Absent,
         Absent, Abstract!NoOrigin, NoOrigin
<1>2. Abstract!EditAllowed(c, e) <=> EditAllowed(c, e)
  BY <1>1 DEF Abstract!EditAllowed, EditAllowed
<1>3. Abstract!EditedRecipients(c, e) = EditedRecipients(c, e)
  BY <1>1 DEF Abstract!EditedRecipients, EditedRecipients
<1>4. /\ Abstract!Stamped(c) = Stamped(c)
      /\ Abstract!Deleted(c) = Deleted(c)
      /\ Abstract!Rotated(c, e) = Rotated(c, e)
  BY <1>1 DEF Abstract!Stamped, Stamped, Abstract!Deleted, Deleted,
              Abstract!Rotated, Rotated
<1>5. Abstract!EditedValues(c, e, v) = EditedValues(c, e, v)
  BY <1>1, <1>4 DEF Abstract!EditedValues, EditedValues
<1>6. Abstract!EditedOrigins(c, e, v) = EditedOrigins(c, e, v)
  BY <1>1, <1>4, <1>5 DEF Abstract!EditedOrigins, EditedOrigins
<1>7. Abstract!Edited(c, e, v) = Edited(c, e, v)
  BY <1>1, <1>3, <1>5, <1>6 DEF Abstract!Edited, Edited
<1>8. QED  BY <1>1, <1>2, <1>7

LEMMA EntryOf ==
    ASSUME NEW ns \in Namespace
    PROVE  /\ AtomicEntry[ns].version = manifest[ns].version
           /\ AtomicEntry[ns].recipients = manifest[ns].recipients
           /\ Abstract!ContentOf(ns) = Committed(ns)
           /\ Abstract!Initialised(ns) <=> Listed(ns)
  BY DEF AtomicEntry, Abstract!ContentOf, Committed, Abstract!Initialised, Listed

\* The new entry, from the committed contents.
LEMMA CommitOf ==
    ASSUME NEW p \in Proc, NEW m \in Namespace, Commits(p, m),
           NEW content, Committed(m)' = content
    PROVE  Abstract!Commit(m, content)
<1>1. /\ AtomicEntry' = [ns \in Namespace |->
                            [version    |-> manifest'[ns].version,
                             recipients |-> Committed(ns)'.recipients,
                             values     |-> Committed(ns)'.values,
                             origins    |-> Committed(ns)'.origins]]
      /\ AtomicEntry = [ns \in Namespace |->
                            [version    |-> manifest[ns].version,
                             recipients |-> Committed(ns).recipients,
                             values     |-> Committed(ns).values,
                             origins    |-> Committed(ns).origins]]
  BY DEF AtomicEntry, Committed
<1>2. /\ manifest'[m].version = manifest[m].version + 1
      /\ \A ns \in Namespace \ {m} : /\ manifest'[ns] = manifest[ns]
                                     /\ Committed(ns)' = Committed(ns)
  BY DEF Commits
<1>3. QED  BY <1>1, <1>2, EntryOf DEF Abstract!Commit

LEMMA StepRefines ==
    ASSUME SafetyInv, SafetyInv', AtomicInv, NothingHalfDone, [Next]_vars
    PROVE  [Abstract!Next]_AtomicEntry
<1>1. CASE KeepsCommitted
  <2>1. AtomicEntry' = AtomicEntry
    BY <1>1 DEF KeepsCommitted, AtomicEntry
  <2>2. QED  BY <2>1
<1>2. ASSUME NEW p \in Proc, NEW m \in Namespace, Commits(p, m), SaveManifest(p)
      PROVE  Abstract!Next
  <2> DEFINE c == TheCall(p)
  <2>1. c \in Calls /\ c.ns = m
    BY <1>2 DEF Commits
  <2>2. local[p].no \in 2..MaxCalls + 1
    <3>1. local[p].no \in 2..begun /\ begun \in CallNo
      BY <1>2, SaveManifestEffect DEF SafetyInv, CipherInv, NumberInv, TypeInv, TypeOK
    <3>2. QED  BY <3>1 DEF CallNo
  <2>3. CASE /\ c.kind = "init" /\ ~Listed(m)
             /\ Committed(m)' = [recipients |-> c.recipients,
                                 values     |-> NoValues,
                                 origins    |-> CommittedOrigins(m)]
    <3>1. AtomicEntry[m].origins = CommittedOrigins(m)
      BY DEF AtomicEntry
    <3>2. ~Abstract!Initialised(m)
      BY <2>3, EntryOf
    <3>3. Abstract!Commit(m, [recipients |-> c.recipients,
                              values     |-> NoValues,
                              origins    |-> CommittedOrigins(m)])
      BY <1>2, <2>3, CommitOf
    <3>4. Abstract!NoValues = NoValues
      BY SameEdits
    <3>5. Abstract!Create(c)
      BY ONLY <2>1, <2>3, <3>1, <3>2, <3>3, <3>4 DEF Abstract!Create
    <3>6. QED  BY <2>1, <3>5 DEF Abstract!Next
  <2>4. CASE /\ c.kind \in RewriteKind /\ Listed(m)
             /\ EditAllowed(c, Committed(m))
             /\ Committed(m)' = Edited(c, Committed(m), local[p].no)
    <3>1. Abstract!Initialised(m) /\ Abstract!ContentOf(m) = Committed(m)
      BY <2>4, EntryOf
    <3>2. Abstract!Commit(m, Edited(c, Committed(m), local[p].no))
      BY <1>2, <2>4, CommitOf
    <3>3. Abstract!Apply(c, local[p].no)
      BY <2>1, <2>4, <3>1, <3>2, SameEdits DEF Abstract!Apply
    <3>4. QED  BY <2>1, <2>2, <3>3 DEF Abstract!Next
  <2>5. QED  BY <1>2, <2>3, <2>4 DEF Commits
<1>3. QED  BY <1>1, <1>2, NextAtomic

(***************************************************************************)
(* K-21: as long as nothing is left half done, the three files of a        *)
(* namespace are one object.  However the calls interleave, every manifest *)
(* write is one call applied to what the previous one left, so that no edit*)
(* is lost, half applied or applied to something nobody committed          *)
(* (rewriteEnv, commitEnv, commitEnvWithOrigins, Init).                    *)
(***************************************************************************)
THEOREM StoreImplementsAtomicStore == NothingHalfDone => (Spec => StoreIsAtomic)
<1> SUFFICES ASSUME NothingHalfDone PROVE Spec => StoreIsAtomic
  OBVIOUS
<1>1. Init => Abstract!Init
  <2> SUFFICES ASSUME Init PROVE AtomicEntry = Existing
    BY DEF Abstract!Init
  <2>1. ASSUME NEW ns \in Namespace
        PROVE  AtomicEntry[ns] = Existing[ns]
    <3>1. CommittedNo(ns) \in CallNo
      BY DEF Init, CommittedNo, ExistingSha, CallNo
    <3>2. CommittedValues(ns) = Existing[ns].values
      BY <3>1 DEF Init, CommittedValues
    <3>3. CommittedOrigins(ns) = Existing[ns].origins
      BY DEF Init, CommittedOrigins, Relabelling
    <3>4. Existing[ns] \in EntryType
      OBVIOUS
    <3>5. QED  BY <3>2, <3>3, <3>4 DEF Init, AtomicEntry, EntryType
  <2>2. QED  BY <2>1 DEF AtomicEntry
<1>2. SafetyInv /\ SafetyInv' /\ AtomicInv /\ [Next]_vars =>
          AtomicInv' /\ [Abstract!Next]_AtomicEntry
  BY NextAtomic, StepRefines
<1>3. QED
  BY Safety, InitAtomic, <1>1, <1>2, PTL DEF Spec, StoreIsAtomic, Abstract!Spec

-----------------------------------------------------------------------------
(* Calls that fail *)

LEMMA NextOutcome ==
    ASSUME SafetyInv, OutcomeInv, [Next]_vars
    PROVE  OutcomeInv'
<1>1. CASE UNCHANGED vars
  BY <1>1 DEF vars, OutcomeInv, Failed
<1>2. ASSUME NEW p \in Proc, NEW c \in Calls, Load(p, c) \/ LockForInit(p, c)
      PROVE  OutcomeInv'
  BY <1>2, BeginsEffect, BeginsKeepsOutcomes DEF SafetyInv
<1>3. ASSUME NEW p \in Proc, SaveBundle(p)
      PROVE  OutcomeInv'
  <2>1. PICK step \in {"saveOrigins", "saveManifest"} : Moves(p, step)
    BY <1>3, SaveBundleEffect DEF SafetyInv
  <2>2. committed' = committed
    BY <1>3 DEF SaveBundle
  <2>3. QED  BY <2>1, <2>2, MovesKeepOutcomes
<1>4. ASSUME NEW p \in Proc, SaveManifest(p)
      PROVE  OutcomeInv'
  BY <1>4, RecordedEffect, MovesKeepOutcomes
<1>5. ASSUME NEW p \in Proc, Quiet(p)
      PROVE  OutcomeInv'
  <2> USE DEF SafetyInv
  <2>1. committed' = committed
    BY <1>5, QuietSteps DEF QuietStep
  <2>2. ASSUME NEW step, Moves(p, step), step = "audit" => pc[p] = "audit"
        PROVE  OutcomeInv'
    BY <2>1, <2>2, MovesKeepOutcomes
  <2>3. CASE Hash(p)
    BY <2>2, <2>3, HashEffect, GoneKeepsOutcomes
  <2>4. CASE Decrypt(p)
    BY <2>2, <2>4, DecryptEffect, GoneKeepsOutcomes
  <2>5. CASE Edit(p)
    BY <2>2, <2>5, EditEffect, GoneKeepsOutcomes
  <2>6. CASE LockForCommit(p)
    BY <2>2, <2>6, LockForCommitEffect, GoneKeepsOutcomes
  <2>7. CASE RecordEvent(p)
    BY <2>2, <2>7, RecordEventEffect
  <2>8. CASE ReadEnv(p) \/ ReadFails(p) \/ SaveBundleFails(p) \/ Finish(p) \/ Crash(p)
    BY <2>8, ReturningEffect, GoneKeepsOutcomes
  <2>9. CASE SaveOrigins(p) \/ SaveOriginsFails(p) \/ UndoBundle(p)
    BY <2>2, <2>9, SaveOriginsEffect, SaveOriginsFailsEffect, UndoBundleEffect
  <2>10. CASE UndoOrigins(p)
    BY <2>10, UndoOriginsEffect, GoneKeepsOutcomes
  <2>11. CASE SaveManifestFails(p)
    BY <2>2, <2>11, SaveManifestFailsEffect, GoneKeepsOutcomes
  <2>12. QED
    BY <1>5, <2>3, <2>4, <2>5, <2>6, <2>7, <2>8, <2>9, <2>10, <2>11
       DEF Quiet, Unlocked, Auditing
<1>6. QED  BY <1>1, <1>2, <1>3, <1>4, <1>5, StepKinds

LEMMA InitOutcome == Init => OutcomeInv
  BY DEF Init, OutcomeInv, Failed

\* A step that encrypts nothing: every running call was running before, on the
\* same namespace, or has a fresh number.
LEMMA UnusedStay ==
    ASSUME SafetyInv, UnusedInv, UNCHANGED cipher, begun' \in {begun, begun + 1},
           \A p \in Proc : pc'[p] # "idle" =>
              \/ local'[p].no = begun + 1
              \/ pc[p] # "idle" /\ local'[p].no = local[p].no /\ NsOf(p)' = NsOf(p)
    PROVE  UnusedInv'
<1> SUFFICES ASSUME NEW ns \in Namespace, NEW n \in CallNo,
                    \/ n > begun'
                    \/ \E p \in Proc : pc'[p] # "idle" /\ local'[p].no = n /\ NsOf(p)' # ns
             PROVE  cipher[ns][n] = cipher[ns][1]
  BY DEF UnusedInv
<1>1. begun \in Nat /\ n \in Nat
  BY DEF SafetyInv, TypeInv, TypeOK, CallNo
<1>2. \/ n > begun
      \/ \E p \in Proc : pc[p] # "idle" /\ local[p].no = n /\ NsOf(p) # ns
  BY <1>1
<1>3. QED  BY <1>2 DEF UnusedInv

\* SaveBundle writes a ciphertext that is not committed yet, and leaves those
\* that are.
LEMMA CommittedCiphersKept ==
    ASSUME SafetyInv, NEW p \in Proc, SaveBundle(p), NEW ns \in Namespace,
           NEW n \in {1} \union committed
    PROVE  n \in CallNo /\ cipher'[ns][n] = cipher[ns][n] /\ committed' = committed
<1>1. TypeInv
  BY DEF SafetyInv
<1>2. /\ pc[p] = "saveBundle" /\ committed' = committed
      /\ \A m \in Namespace, i \in CallNo :
            m # NsOf(p) \/ i # local[p].no => cipher'[m][i] = cipher[m][i]
  BY ONLY <1>1, p \in Proc, SaveBundle(p), SaveBundleEffect
<1>3. local[p].no \notin committed /\ local[p].no # 1
  <2>1. local[p].no \in 2..begun /\ local[p].no \notin committed
    BY <1>2 DEF SafetyInv, CipherInv, NumberInv
  <2>2. begun \in Nat
    BY <1>1 DEF TypeInv, TypeOK, CallNo
  <2>3. QED  BY ONLY <2>1, <2>2
<1>4. 1 \in CallNo
  BY DEF CallNo
<1>5. committed \subseteq CallNo
  BY DEF SafetyInv, TypeInv, TypeOK
<1>6. QED  BY <1>2, <1>3, <1>4, <1>5

LEMMA SaveBundleKeepsValues ==
    ASSUME SafetyInv, ValueInv, NEW p \in Proc, SaveBundle(p)
    PROVE  ValueInv'
<1>1. TypeInv
  BY DEF SafetyInv
<1>2. /\ pc[p] = "saveBundle" /\ OthersWait(p) /\ begun' = begun
      /\ local'[p].no = local[p].no /\ NsOf(p)' = NsOf(p)
      /\ NsOf(p) \in Namespace /\ local[p].no \in CallNo
      /\ \A m \in Namespace, i \in CallNo :
            m # NsOf(p) \/ i # local[p].no => cipher'[m][i] = cipher[m][i]
  BY ONLY <1>1, p \in Proc, SaveBundle(p), SaveBundleEffect DEF Moves, NsOf
<1>3. UnusedInv'
  <2> SUFFICES ASSUME NEW ns \in Namespace, NEW n \in CallNo,
                      \/ n > begun'
                      \/ \E q \in Proc : pc'[q] # "idle" /\ local'[q].no = n
                                         /\ NsOf(q)' # ns
               PROVE  cipher'[ns][n] = cipher'[ns][1]
    BY DEF UnusedInv
  <2>1. \/ n > begun
        \/ \E q \in Proc : pc[q] # "idle" /\ local[q].no = n /\ NsOf(q) # ns
    BY <1>2 DEF OthersWait, NsOf
  <2>2. cipher[ns][n] = cipher[ns][1]
    BY <2>1 DEF ValueInv, UnusedInv
  <2>3. local[p].no \in 2..begun /\ begun \in Nat
    BY <1>2 DEF SafetyInv, CipherInv, NumberInv, TypeInv, TypeOK, CallNo
  <2>4. ns # NsOf(p) \/ n # local[p].no
    BY <1>2, <2>1, <2>3 DEF SafetyInv, CipherInv, NumberInv
  <2>5. cipher'[ns][1] = cipher[ns][1]
    BY CommittedCiphersKept
  <2>6. QED  BY <1>2, <2>2, <2>4, <2>5
<1>4. CommittedValuesInv'
  BY CommittedCiphersKept DEF ValueInv, CommittedValuesInv
<1>5. QED  BY <1>3, <1>4 DEF ValueInv

\* The ciphertext that a manifest write commits: new in its namespace, and in
\* every other one that does not exist.
LEMMA CommittedCipher ==
    ASSUME SafetyInv, AtomicInv, ValueInv, NEW p \in Proc, SaveManifest(p),
           NEW m \in Namespace, Commits(p, m)
    PROVE  /\ committed' = committed \union {local[p].no} /\ cipher' = cipher
           /\ local[p].no \in CallNo \ ({1} \union committed)
           /\ cipher[m][local[p].no].values = Committed(m)'.values
           /\ cipher[m][local[p].no].to = manifest'[m].recipients
           /\ manifest'[m].recipients = Committed(m)'.recipients
           /\ manifest'[m].recipients # {}
           /\ \A ns \in Namespace \ {m} : cipher[ns][local[p].no] = cipher[ns][1]
<1>1. /\ committed' = committed \union {local[p].no} /\ cipher' = cipher
      /\ pc[p] = "saveManifest" /\ NsOf(p) = m
      /\ manifest'[m].sha = local[p].no
      /\ manifest'[m].recipients = local[p].meta.recipients
  BY SaveManifestEffect, RecordedEffect DEF Commits
<1>2. local[p].no \in 2..begun /\ local[p].no \notin committed /\ local[p].no \in CallNo
  BY <1>1, CallType1 DEF SafetyInv, CipherInv, NumberInv
<1>3. local[p].no # 1 /\ local[p].no # NoCallNo
  BY <1>2 DEF SafetyInv, TypeInv, TypeOK, CallNo, NoCallNo
<1>4. CommittedValues(m)' = cipher[m][local[p].no].values
  BY <1>1, <1>3 DEF CommittedValues, CommittedNo
<1>5. /\ Committed(m)'.values = CommittedValues(m)'
      /\ Committed(m)'.recipients = manifest'[m].recipients
  BY DEF Committed
<1>6. local[p].meta.recipients # {}
  BY <1>1 DEF SafetyInv, FileInv, ListedInv
<1>7. cipher[m][local[p].no].to = local[p].meta.recipients
  BY <1>1 DEF SafetyInv, CipherInv, EncryptedInv
<1>8. \A ns \in Namespace \ {m} : cipher[ns][local[p].no] = cipher[ns][1]
  BY <1>1, <1>2 DEF ValueInv, UnusedInv
<1>9. QED  BY <1>1, <1>2, <1>3, <1>4, <1>5, <1>6, <1>7, <1>8

LEMMA CommittedNoIsCommitted ==
    ASSUME SafetyInv, NEW ns \in Namespace
    PROVE  CommittedNo(ns) \in {1} \union committed
  BY DEF SafetyInv, CipherInv, NumberInv, CommittedNo

LEMMA SaveManifestKeepsValues ==
    ASSUME SafetyInv, AtomicInv, ValueInv, NEW p \in Proc, SaveManifest(p),
           NEW m \in Namespace, Commits(p, m)
    PROVE  ValueInv'
<1> DEFINE no == local[p].no
           c == TheCall(p)
<1>1. /\ committed' = committed \union {no} /\ cipher' = cipher
      /\ cipher[m][no].values = Committed(m)'.values
      /\ \A ns \in Namespace \ {m} : cipher[ns][no] = cipher[ns][1]
  BY CommittedCipher
<1>2. UnusedInv'
  <2>1. /\ OthersWait(p) /\ pc[p] # "idle"
        /\ local'[p].no = local[p].no /\ local'[p].call = local[p].call /\ begun' = begun
    BY RecordedEffect DEF Moves
  <2>2. QED  BY <1>1, <2>1, UnusedStay DEF OthersWait, NsOf, ValueInv
<1>3. ASSUME NEW k \in Key
      PROVE  cipher[m][no].values[k] \in {Absent, 1} \union committed'
  <2>1. Committed(m).values[k] \in {Absent, 1} \union committed
    BY CommittedNoIsCommitted DEF Committed, CommittedValues, ValueInv, CommittedValuesInv
  <2>2. CASE Committed(m)' = [recipients |-> c.recipients,
                              values     |-> NoValues,
                              origins    |-> CommittedOrigins(m)]
    BY <1>1, <2>2 DEF NoValues
  <2>3. CASE Committed(m)' = Edited(c, Committed(m), no)
    <3>1. cipher[m][no].values[k] \in {no, Absent, Committed(m).values[k]}
      BY <1>1, <2>3 DEF Edited, EditedValues
    <3>2. QED  BY <1>1, <2>1, <3>1
  <2>4. QED  BY <2>2, <2>3 DEF Commits
<1>4. CommittedValuesInv'
  <2> SUFFICES ASSUME NEW ns \in Namespace, NEW n \in {1} \union committed', NEW k \in Key
               PROVE  cipher'[ns][n].values[k] \in {Absent, 1} \union committed'
    BY DEF CommittedValuesInv
  <2>1. CASE n \in {1} \union committed
    BY <1>1, <2>1 DEF ValueInv, CommittedValuesInv
  <2>2. CASE n = no /\ ns # m
    BY <1>1, <2>2 DEF ValueInv, CommittedValuesInv
  <2>3. CASE n = no /\ ns = m
    BY <1>1, <1>3, <2>3
  <2>4. QED  BY <1>1, <2>1, <2>2, <2>3
<1>5. QED  BY <1>2, <1>4 DEF ValueInv

LEMMA NextValues ==
    ASSUME SafetyInv, SafetyInv', AtomicInv, ValueInv, [Next]_vars
    PROVE  ValueInv'
<1>1. ASSUME UNCHANGED <<cipher, committed>>, UnusedInv'
      PROVE  ValueInv'
  BY <1>1 DEF ValueInv, CommittedValuesInv
<1>2. CASE UNCHANGED vars
  BY <1>1, <1>2 DEF vars, disk, ValueInv, UnusedInv, NsOf
<1>3. ASSUME NEW p \in Proc, NEW c \in Calls, Load(p, c) \/ LockForInit(p, c)
      PROVE  ValueInv'
  <2>1. Begun(p)
    BY <1>3, LoadBegins, LockForInitBegins
  <2>2. UnusedInv'
    BY <2>1, UnusedStay DEF Begun, OthersWait, NsOf, ValueInv
  <2>3. QED  BY <1>1, <2>1, <2>2 DEF Begun
<1>4. ASSUME NEW p \in Proc, Quiet(p)
      PROVE  ValueInv'
  <2>1. QuietStep(p)
    BY <1>4, QuietSteps
  <2>2. UnusedInv'
    BY <2>1, UnusedStay DEF QuietStep, QuietCall, OthersWait, NsOf, ValueInv
  <2>3. QED  BY <1>1, <2>1, <2>2 DEF QuietStep
<1>5. ASSUME NEW p \in Proc, SaveManifest(p)
      PROVE  ValueInv'
  <2>1. PICK m \in Namespace : m = NsOf(p)
    BY <1>5, SaveManifestEffect
  <2>2. QED  BY <1>5, <2>1, SaveManifestCommits, SaveManifestKeepsValues
<1>6. QED  BY <1>2, <1>3, <1>4, <1>5, StepKinds, SaveBundleKeepsValues

LEMMA InitValues == Init => ValueInv
<1> SUFFICES ASSUME Init PROVE ValueInv
  OBVIOUS
<1>1. \A ns \in Namespace, n \in CallNo :
          cipher[ns][n] = [values |-> Existing[ns].values, to |-> Existing[ns].recipients]
  BY DEF Init
<1>2. 1 \in CallNo /\ committed = {}
  BY DEF Init, CallNo
<1>3. UnusedInv
  BY ONLY <1>1, <1>2 DEF UnusedInv
<1>4. CommittedValuesInv
  <2>1. \A ns \in Namespace, k \in Key : Existing[ns].values[k] \in {Absent, 1}
    OBVIOUS
  <2>2. ASSUME NEW ns \in Namespace, NEW k \in Key
        PROVE  cipher[ns][1].values[k] \in {Absent, 1}
    <3>1. cipher[ns][1] = [values |-> Existing[ns].values, to |-> Existing[ns].recipients]
      BY ONLY <1>1, <1>2, ns \in Namespace
    <3>2. QED  BY ONLY <2>1, <3>1, ns \in Namespace, k \in Key
  <2>3. QED  BY <1>2, <2>2 DEF CommittedValuesInv
<1>5. QED  BY <1>3, <1>4 DEF ValueInv

(***************************************************************************)
(* K-21, "detect conflicts": as long as nothing is left half done, a call  *)
(* that was refused, lost the race or reported an error has left no value  *)
(* behind, neither through the manifest nor through a reader of its bundle.*)
(***************************************************************************)
THEOREM FailuresLeaveNoTrace == NothingHalfDone => (Spec => []FailedCallsLeaveNoTrace)
<1> SUFFICES ASSUME NothingHalfDone PROVE Spec => []FailedCallsLeaveNoTrace
  OBVIOUS
<1>1. SafetyInv /\ OutcomeInv /\ ValueInv => FailedCallsLeaveNoTrace
  <2> SUFFICES ASSUME SafetyInv, OutcomeInv, ValueInv, NEW ns \in Namespace, NEW k \in Key,
                      CommittedValues(ns)[k] # Absent
               PROVE  ~Failed(CommittedValues(ns)[k])
    BY DEF FailedCallsLeaveNoTrace
  <2>1. CommittedValues(ns)[k] \in {1} \union committed
    BY CommittedNoIsCommitted DEF CommittedValues, ValueInv, CommittedValuesInv
  <2>2. ~Failed(1)
    BY DEF OutcomeInv, Failed, CallNo
  <2>3. \A n \in committed : ~Failed(n)
    BY DEF OutcomeInv, SafetyInv, TypeInv, TypeOK
  <2>4. QED  BY <2>1, <2>2, <2>3
<1>2. SafetyInv /\ SafetyInv' /\ AtomicInv /\ ValueInv /\ OutcomeInv /\ [Next]_vars =>
          AtomicInv' /\ ValueInv' /\ OutcomeInv'
  BY NextAtomic, NextValues, NextOutcome
<1>3. QED
  BY Safety, InitAtomic, InitValues, InitOutcome, <1>1, <1>2, PTL DEF Spec

-----------------------------------------------------------------------------
(* Whom `recipient remove --rotate` removed *)

\* A provisioned key has the call's own value after an edit, or the value and
\* the label it had before; the latter not if a recipient was rotated out.
LEMMA ProvisionedAfterEdit ==
    ASSUME NEW c \in CallType, c.kind \in RewriteKind, NEW e, NEW v, NEW k \in Key,
           Edited(c, e, v).origins[k] = "provision", Edited(c, e, v).values[k] # v
    PROVE  /\ c.kind # "recipientRotate"
           /\ e.origins[k] = "provision"
           /\ Edited(c, e, v).values[k] = e.values[k]
<1>1. /\ k \notin Stamped(c) \union Rotated(c, e)
      /\ Edited(c, e, v).values[k] = IF k \in Deleted(c) THEN Absent ELSE e.values[k]
  BY DEF Edited, EditedValues
<1>2. CASE c.kind \in OriginKind
  <2>1. /\ Edited(c, e, v).values[k] # Absent
        /\ e.origins[k] = "provision"
    BY <1>1, <1>2 DEF Edited, EditedOrigins, NoOrigin
  <2>2. Edited(c, e, v).values[k] = e.values[k]
    BY <1>1, <2>1
  <2>3. c.kind # "recipientRotate"
    BY <1>1, <2>1, <2>2 DEF Rotated
  <2>4. QED  BY <2>1, <2>2, <2>3
<1>3. CASE c.kind \in RecipientKind
  BY <1>1, <1>3 DEF Edited, OriginKind, RecipientKind, ValueKind, DropKind, Deleted
<1>4. QED  BY <1>2, <1>3 DEF RewriteKind

LEMMA RemovedByEdit ==
    ASSUME NEW c, NEW e, NEW v, NEW r \in e.recipients, r \notin Edited(c, e, v).recipients
    PROVE  c.kind \in {"recipientRemove"} \union DropKind /\ c.who = r
  BY DEF Edited, EditedRecipients

\* Nobody learns anything by a step that commits nothing.
LEMMA KnowledgeStays ==
    ASSUME KnowledgeInv, KeepsCommitted, committed' = committed,
           \A ns \in Namespace, n \in {1} \union committed : cipher'[ns][n] = cipher[ns][n]
    PROVE  KnowledgeInv'
<1>1. manifest' = manifest
  BY DEF KeepsCommitted
<1>2. UnlistedInv'
  BY <1>1 DEF KnowledgeInv, UnlistedInv, Listed
<1>3. RemovedKnowNoProvisioned'
  <2> SUFFICES ASSUME NEW ns \in Namespace, NEW k \in Key, NEW r \in Recipient,
                      OnlyRotatedOut(r), r \notin manifest'[ns].recipients,
                      CommittedOrigins(ns)'[k] = "provision",
                      Knows(r, ns, CommittedValues(ns)[k])'
               PROVE  FALSE
    BY DEF RemovedKnowNoProvisioned, OnlyRotatedOut
  <2>1. PICK n \in {1} \union committed :
            /\ r \in cipher[ns][n].to
            /\ \E i \in Key : cipher[ns][n].values[i] = CommittedValues(ns)[k]
    BY DEF Knows, KeepsCommitted
  <2>2. Knows(r, ns, CommittedValues(ns)[k])
    BY <2>1 DEF Knows
  <2>3. CommittedOrigins(ns)[k] = "provision" /\ r \notin manifest[ns].recipients
    BY <1>1 DEF KeepsCommitted
  <2>4. QED  BY <2>2, <2>3 DEF KnowledgeInv, RemovedKnowNoProvisioned
<1>4. QED  BY <1>2, <1>3 DEF KnowledgeInv

\* What r knew after a manifest write and is not listed for, r knew before: in
\* this namespace, and in every other.
LEMMA NothingLearned ==
    ASSUME SafetyInv, AtomicInv, ValueInv, NEW p \in Proc, SaveManifest(p),
           NEW m \in Namespace, Commits(p, m), NEW r, NEW ns \in Namespace,
           ns = m => r \notin manifest'[m].recipients, NEW v,
           NEW n \in {1} \union committed', r \in cipher'[ns][n].to,
           NEW k \in Key, cipher'[ns][n].values[k] = v
    PROVE  Knows(r, ns, v)
<1>1. /\ committed' = committed \union {local[p].no} /\ cipher' = cipher
      /\ cipher[m][local[p].no].to = manifest'[m].recipients
      /\ ns # m => cipher[ns][local[p].no] = cipher[ns][1]
  BY CommittedCipher
<1>2. CASE n \in {1} \union committed
  BY <1>1, <1>2 DEF Knows
<1>3. CASE n = local[p].no
  <2>1. ns # m
    BY <1>1, <1>3
  <2>2. cipher'[ns][n] = cipher[ns][1]
    BY ONLY <1>1, <1>3, <2>1
  <2>3. r \in cipher[ns][1].to /\ cipher[ns][1].values[k] = v
    BY <2>2
  <2>4. QED  BY ONLY <2>3, k \in Key DEF Knows
<1>4. QED  BY <1>1, <1>2, <1>3

\* Nobody has seen the value a call commits before it does.
LEMMA NewValueUnknown ==
    ASSUME SafetyInv, AtomicInv, ValueInv, NEW p \in Proc, SaveManifest(p),
           NEW m \in Namespace, Commits(p, m), NEW r
    PROVE  ~Knows(r, m, local[p].no)
<1>1. local[p].no \in CallNo \ ({1} \union committed)
  BY CommittedCipher
<1>2. local[p].no \notin {Absent, 1} \union committed
  BY <1>1 DEF CallNo, Absent
<1>3. CommittedValuesInv
  BY DEF ValueInv
<1>4. QED  BY ONLY <1>2, <1>3, m \in Namespace DEF Knows, CommittedValuesInv

LEMMA SaveManifestKeepsKnowledge ==
    ASSUME SafetyInv, AtomicInv, ValueInv, KnowledgeInv, NEW p \in Proc, SaveManifest(p),
           NEW m \in Namespace, Commits(p, m)
    PROVE  KnowledgeInv'
<1> DEFINE no == local[p].no
           c == TheCall(p)
           e == Committed(m)
<1>1. /\ committed' = committed \union {no} /\ cipher' = cipher
      /\ manifest'[m].recipients = Committed(m)'.recipients
      /\ manifest'[m].recipients # {}
      /\ \A ns \in Namespace \ {m} : cipher[ns][no] = cipher[ns][1]
  BY CommittedCipher
<1>2. \A ns \in Namespace \ {m} : /\ manifest'[ns] = manifest[ns]
                                  /\ Committed(ns)' = Committed(ns)
  BY DEF Commits
<1>3. /\ \A ns \in Namespace : /\ Committed(ns)'.values = CommittedValues(ns)'
                               /\ Committed(ns)'.origins = CommittedOrigins(ns)'
      /\ \A ns \in Namespace : /\ Committed(ns).recipients = manifest[ns].recipients
                               /\ Committed(ns).values = CommittedValues(ns)
                               /\ Committed(ns).origins = CommittedOrigins(ns)
  BY DEF Committed
<1>4. UnlistedInv'
  <2> SUFFICES ASSUME NEW ns \in Namespace, NEW n \in {1} \union committed',
                      manifest'[ns].recipients = {}
               PROVE  cipher'[ns][n].to = {}
    BY DEF UnlistedInv, Listed
  <2>1. ns # m /\ manifest[ns].recipients = {}
    BY <1>1, <1>2
  <2>2. CASE n \in {1} \union committed
    BY <1>1, <2>1, <2>2 DEF KnowledgeInv, UnlistedInv, Listed
  <2>3. CASE n = no
    BY <1>1, <2>1, <2>3 DEF KnowledgeInv, UnlistedInv, Listed
  <2>4. QED  BY <1>1, <2>2, <2>3
<1>5. ASSUME NEW ns \in Namespace, NEW k \in Key, NEW r \in Recipient,
             OnlyRotatedOut(r), r \notin manifest'[ns].recipients,
             CommittedOrigins(ns)'[k] = "provision",
             Knows(r, ns, CommittedValues(ns)'[k])
      PROVE  FALSE
  <2>1. CASE ns # m
    BY <1>2, <1>3, <1>5, <2>1 DEF KnowledgeInv, RemovedKnowNoProvisioned
  <2>2. CASE ns = m /\ c.kind = "init" /\ ~Listed(m)
    BY <1>5, <2>2 DEF Knows, KnowledgeInv, UnlistedInv
  <2>3. CASE /\ ns = m /\ c.kind \in RewriteKind
             /\ Committed(m)' = Edited(c, e, no)
    <3> DEFINE after == Edited(c, e, no)
    <3>1. /\ after.origins[k] = "provision" /\ r \notin after.recipients
          /\ CommittedValues(m)'[k] = after.values[k]
      BY <1>1, <1>3, <1>5, <2>3
    <3>2. after.values[k] # no
      BY <1>5, <2>3, <3>1, NewValueUnknown
    <3>3. c \in CallType
      BY DEF Commits
    <3>4. /\ c.kind # "recipientRotate"
          /\ e.origins[k] = "provision"
          /\ after.values[k] = e.values[k]
      BY <2>3, <3>1, <3>2, <3>3, ProvisionedAfterEdit
    <3>5. CASE r \in e.recipients
      <4>1. c.kind \in {"recipientRemove"} \union DropKind /\ c.who = r /\ c \in Calls
        BY <3>1, <3>5, RemovedByEdit DEF Commits
      <4>2. QED  BY <1>5, <3>4, <4>1 DEF OnlyRotatedOut, DropKind
    <3>6. CASE r \notin e.recipients
      BY <1>3, <1>5, <2>3, <3>1, <3>4, <3>6 DEF KnowledgeInv, RemovedKnowNoProvisioned
    <3>7. QED  BY <3>5, <3>6
  <2>4. QED  BY <2>1, <2>2, <2>3 DEF Commits
<1>6. RemovedKnowNoProvisioned'
  <2> SUFFICES ASSUME NEW ns \in Namespace, NEW k \in Key, NEW r \in Recipient,
                      OnlyRotatedOut(r), r \notin manifest'[ns].recipients,
                      CommittedOrigins(ns)'[k] = "provision",
                      Knows(r, ns, CommittedValues(ns)[k])'
               PROVE  FALSE
    BY DEF RemovedKnowNoProvisioned, OnlyRotatedOut
  <2>1. PICK n \in {1} \union committed' :
            /\ r \in cipher'[ns][n].to
            /\ \E i \in Key : cipher'[ns][n].values[i] = CommittedValues(ns)'[k]
    BY DEF Knows
  <2>2. Knows(r, ns, CommittedValues(ns)'[k])
    BY <2>1, NothingLearned
  <2>3. QED  BY <1>5, <2>2
<1>7. QED  BY <1>4, <1>6 DEF KnowledgeInv

LEMMA NextKnowledge ==
    ASSUME SafetyInv, SafetyInv', AtomicInv, ValueInv, KnowledgeInv, NothingHalfDone,
           [Next]_vars
    PROVE  KnowledgeInv'
<1>1. CASE UNCHANGED vars
  BY <1>1, KnowledgeStays
     DEF vars, disk, KeepsCommitted, CommittedNo, CommittedValues, CommittedOrigins,
         Relabelling, OriginAware, TheCall, NsOf
<1>2. ASSUME NEW p \in Proc, SaveManifest(p)
      PROVE  KnowledgeInv'
  <2>1. PICK m \in Namespace : m = NsOf(p)
    BY <1>2, SaveManifestEffect
  <2>2. QED  BY <1>2, <2>1, SaveManifestCommits, SaveManifestKeepsKnowledge
<1>3. ASSUME NEW p \in Proc, SaveBundle(p)
      PROVE  KnowledgeInv'
  <2>1. KeepsCommitted /\ committed' = committed
    BY <1>3, SaveBundleKeepsAtomic DEF SaveBundle
  <2>2. QED  BY <1>3, <2>1, CommittedCiphersKept, KnowledgeStays
<1>4. CASE KeepsCommitted /\ UNCHANGED <<cipher, committed>>
  BY <1>4, KnowledgeStays
<1>5. ASSUME NEW p \in Proc, \/ Quiet(p)
                             \/ \E c \in Calls : Load(p, c) \/ LockForInit(p, c)
      PROVE  UNCHANGED <<cipher, committed>>
  BY <1>5, QuietSteps DEF QuietStep, Load, LockForInit, disk
<1>6. QED  BY <1>1, <1>2, <1>3, <1>4, <1>5, NextAtomic, StepKinds

LEMMA InitKnowledge == Init => KnowledgeInv
<1> SUFFICES ASSUME Init PROVE KnowledgeInv
  OBVIOUS
<1>1. \A ns \in Namespace, n \in CallNo : cipher[ns][n].to = Existing[ns].recipients
  BY DEF Init
<1>2. 1 \in CallNo /\ committed = {}
  BY DEF Init, CallNo
<1>3. \A ns \in Namespace : manifest[ns].recipients = Existing[ns].recipients
  BY DEF Init
<1>4. QED
  BY <1>1, <1>2, <1>3 DEF KnowledgeInv, UnlistedInv, Listed, RemovedKnowNoProvisioned, Knows

(***************************************************************************)
(* K-37, `recipient remove --rotate`: as long as nothing is left half done,*)
(* a key labelled "provision" never keeps a value that some committed      *)
(* bundle offered to somebody who is not listed any more and whom no call  *)
(* but this one removes (rotateProvisionedKeys, commitEnvWithOrigins).     *)
(***************************************************************************)
THEOREM RotationRevokes == NothingHalfDone => (Spec => []RemovedKnowNoProvisioned)
<1> SUFFICES ASSUME NothingHalfDone PROVE Spec => []RemovedKnowNoProvisioned
  OBVIOUS
<1>1. KnowledgeInv => RemovedKnowNoProvisioned
  BY DEF KnowledgeInv
<1>2. SafetyInv /\ SafetyInv' /\ AtomicInv /\ ValueInv /\ KnowledgeInv /\ [Next]_vars =>
          AtomicInv' /\ ValueInv' /\ KnowledgeInv'
  BY NextAtomic, NextValues, NextKnowledge
<1>3. QED
  BY Safety, InitAtomic, InitValues, InitKnowledge, <1>1, <1>2, PTL DEF Spec
=============================================================================
