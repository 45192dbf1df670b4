------------------------------- MODULE Store -------------------------------
(***************************************************************************)
(* The store of internal/store on disk, file by file: the manifest         *)
(* (thimble.json), and for each namespace its age bundle and its origins   *)
(* file, used by processes that share the directory and its flock.         *)
(*                                                                         *)
(* A process is one goroutine or one command running one call.  Between    *)
(* two of its steps any other process may step; within a step it does one  *)
(* file operation, or several that only its own lock lets anyone observe.  *)
(* Every file is replaced by rename (atomicWrite), so a file is never half *)
(* written, and the three files are written one after the other.           *)
(***************************************************************************)
EXTENDS EnvEdit

CONSTANTS Proc,       \* processes sharing the store
          Calls,      \* the calls they make
          MaxCalls,   \* how many calls are made: the bound of every counter
          Existing,   \* the store's contents before the first of them
          Identity,   \* process -> the recipient whose age identity it holds
          Faults,     \* which file operations may fail
          Crashes,    \* whether a process may die in the middle of a call
          Nil         \* nobody, nothing

\* Calls are numbered from 2; 1 stands for whatever wrote the existing contents.
CallNo == 1..MaxCalls + 1
NoCallNo == 0

FileOps == {"read", "bundle", "origins", "manifest", "undo", "audit"}

EntryType == [version:    Nat,
              recipients: SUBSET Recipient,
              values:     [Key -> Nat],
              origins:    [Key -> Origin \union {NoOrigin}]]

ASSUME CallsAssumption == Calls \subseteq CallType /\ MaxCalls \in Nat
ASSUME ExistingAssumption ==
    /\ Existing \in [Namespace -> EntryType]
    /\ \A ns \in Namespace :
          /\ \A k \in Key : Existing[ns].values[k] \in {Absent, 1}
          /\ Existing[ns].recipients = {} => Existing[ns].version = 0
ASSUME IdentityAssumption == Identity \in [Proc -> Recipient]
ASSUME FaultAssumption == Faults \subseteq FileOps /\ Crashes \in BOOLEAN
ASSUME NilAssumption == Nil \notin Proc /\ Nil \notin CallType

VARIABLES
    manifest,   \* namespace -> version, hash of the bundle, recipients
    bundle,     \* namespace -> number of the ciphertext in the bundle file
    origins,    \* namespace -> the labels in the origins file
    cipher,     \* namespace -> ciphertext number -> what age would decrypt
    lock,       \* the process holding LOCK_EX on .thimble.lock
    audit,      \* the events in .thimble-audit.log
    pc,         \* what each process does next
    local,      \* the local variables of each process's call
    begun,      \* number of the last call made
    \* Observations, read by properties only.
    outcome,    \* call number -> how the call returned
    committed   \* numbers of the calls whose manifest write took place

disk == <<manifest, bundle, origins, cipher>>
vars == <<disk, lock, audit, pc, local, begun, outcome, committed>>

-----------------------------------------------------------------------------
(* State *)

\* A ciphertext is numbered by the call that encrypted it (age never produces
\* the same bytes twice), and its SHA-256 is that number.  0 is no file, or the
\* empty hash of a manifest older than K-22.
Ciphertext == [values: [Key -> Nat], to: SUBSET Recipient]
Sha == CallNo \union {NoCallNo}

ManifestEntry == [version: Nat, sha: Sha, recipients: SUBSET Recipient]

\* The next operation of a call: "return" hands a read its plaintext.
Step == {"idle", "hash", "decrypt", "edit", "lock", "saveBundle",
         "saveOrigins", "saveManifest", "undoBundle", "undoOrigins", "audit",
         "return"}

Outcome == {"none", "ok", "uninitialized", "exists", "mismatch", "undecryptable",
            "refused", "conflict", "ioError", "crashed"}

\* meta, values, labels: the loaded then edited entry, plaintext and origins;
\* seen: the ciphertext that was decrypted; saved, savedLabels: the snapshots
\* of bundle and origins taken for the rollback; todo: events still to append.
Local == [call: Calls \union {Nil}, no: Sha, meta: ManifestEntry,
          values: [Key -> Nat], labels: [Key -> Origin \union {NoOrigin}],
          seen: Sha, saved: Sha, savedLabels: [Key -> Origin \union {NoOrigin}],
          todo: SUBSET (Key \union Recipient \union Namespace)]

NoEntry == [version |-> 0, sha |-> NoCallNo, recipients |-> {}]
NoLocal == [call |-> Nil, no |-> NoCallNo, meta |-> NoEntry,
            values |-> NoValues, labels |-> NoOrigins, seen |-> NoCallNo,
            saved |-> NoCallNo, savedLabels |-> NoOrigins, todo |-> {}]

\* The manifest lists a namespace iff its entry has recipients: CleanRecipients
\* refuses an empty list and no edit leaves one.
Listed(ns) == manifest[ns].recipients # {}

\* Version and hash are both omitempty: an entry written before K-21 has neither.
ExistingSha(ns) == IF Existing[ns].version = 0 THEN NoCallNo ELSE 1
HasBundle(ns)   == Existing[ns].recipients # {}

Init ==
    /\ manifest = [ns \in Namespace |->
                      [version |-> Existing[ns].version, sha |-> ExistingSha(ns),
                       recipients |-> Existing[ns].recipients]]
    /\ bundle = [ns \in Namespace |-> IF HasBundle(ns) THEN 1 ELSE NoCallNo]
    /\ origins = [ns \in Namespace |-> Existing[ns].origins]
    /\ cipher = [ns \in Namespace |->
                    [n \in CallNo |->
                        [values |-> Existing[ns].values,
                         to     |-> Existing[ns].recipients]]]
    /\ lock = Nil
    /\ audit = {}
    /\ pc = [p \in Proc |-> "idle"]
    /\ local = [p \in Proc |-> NoLocal]
    /\ begun = 1
    /\ outcome = [n \in CallNo |-> "none"]
    /\ committed = {}

-----------------------------------------------------------------------------
(* Control *)

TheCall(p) == local[p].call
NsOf(p)    == local[p].call.ns
Goto(p, step) == pc' = [pc EXCEPT ![p] = step]

\* The call returns and its locals are gone.
Return(p, how) ==
    /\ Goto(p, "idle")
    /\ local' = [local EXCEPT ![p] = NoLocal]
    /\ outcome' = [outcome EXCEPT ![local[p].no] = how]

\* Mutant: the deferred Close is missing.
NoUnlock(p) == lock' = lock

\* The deferred lock.Close() of whoever holds the lock.
Unlock(p) == lock' = IF lock = p THEN Nil ELSE lock

MayFail(op) == op \in Faults

\* The next call, made by p, with its number.
Begin(p, c, step, meta, values) ==
    /\ begun < MaxCalls + 1
    /\ begun' = begun + 1
    /\ Goto(p, step)
    /\ local' = [local EXCEPT ![p] =
                    [NoLocal EXCEPT !.call = c, !.no = begun + 1,
                                    !.meta = meta, !.values = values]]

-----------------------------------------------------------------------------
(* Reading *)

\* Find and loadEnvForEdit: the manifest is read under LOCK_SH, which is
\* released before the entry is used, so that one step does all three.
Load(p, c) ==
    /\ pc[p] = "idle"
    /\ c.kind \in RewriteKind \union ReadKind
    /\ lock = Nil
    /\ IF Listed(c.ns)
       THEN /\ Begin(p, c, "hash", manifest[c.ns], NoValues)
            /\ UNCHANGED outcome
       ELSE /\ begun < MaxCalls + 1
            /\ begun' = begun + 1
            /\ outcome' = [outcome EXCEPT ![begun + 1] = "uninitialized"]
            /\ UNCHANGED <<pc, local>>
    /\ UNCHANGED <<disk, lock, audit, committed>>

\* The first half of decrypt: hash the file, compare with the loaded entry.
\* Verify stops here; for it an empty stored hash is a mismatch too.
HashMatches(p) ==
    /\ bundle[NsOf(p)] # NoCallNo
    /\ \/ local[p].meta.sha = bundle[NsOf(p)]
       \/ local[p].meta.sha = NoCallNo /\ TheCall(p).kind # "verify"

Hash(p) ==
    /\ pc[p] = "hash"
    /\ IF HashMatches(p) /\ TheCall(p).kind # "verify"
       THEN Goto(p, "decrypt") /\ UNCHANGED <<local, outcome>>
       ELSE Return(p, IF HashMatches(p) THEN "ok" ELSE "mismatch")
    /\ UNCHANGED <<disk, lock, audit, begun, committed>>

\* The second half: age opens the file again, without any lock.
Decrypt(p) ==
    /\ pc[p] = "decrypt"
    /\ LET b == bundle[NsOf(p)]
           c == cipher[NsOf(p)][b]
       IN  IF b # NoCallNo /\ Identity[p] \in c.to
           THEN /\ Goto(p, IF TheCall(p).kind = "read" THEN "return" ELSE "edit")
                /\ local' = [local EXCEPT ![p].values = c.values, ![p].seen = b]
                /\ UNCHANGED outcome
           ELSE Return(p, "undecryptable")
    /\ UNCHANGED <<disk, lock, audit, begun, committed>>

\* ReadEnv hands out values and entry.
ReadEnv(p) ==
    /\ pc[p] = "return"
    /\ Return(p, "ok")
    /\ UNCHANGED <<disk, lock, audit, begun, committed>>

-----------------------------------------------------------------------------
(* Editing *)

\* loadOrigins, without any lock, then the edit closure on the local copies
\* and pruneOriginsToValues.  A call that rewrites recipients only does not
\* open the origins file, and its edit is the same with any labels.
Before(p) == [recipients |-> local[p].meta.recipients,
              values     |-> local[p].values,
              origins    |-> origins[NsOf(p)]]

Edit(p) ==
    /\ pc[p] = "edit"
    /\ IF EditAllowed(TheCall(p), Before(p))
       THEN LET after == Edited(TheCall(p), Before(p), local[p].no)
            IN  /\ Goto(p, "lock")
                /\ local' = [local EXCEPT
                                ![p].meta.recipients = after.recipients,
                                ![p].values = after.values,
                                ![p].labels = after.origins]
                /\ UNCHANGED outcome
       ELSE Return(p, "refused")
    /\ UNCHANGED <<disk, lock, audit, begun, committed>>

-----------------------------------------------------------------------------
(* Committing *)

OriginAware(p) == TheCall(p).kind \in OriginKind

\* Mutant: the versions are not compared.
VersionNotCompared(p) == TRUE

VersionUnchanged(p) ==
    Listed(NsOf(p)) => manifest[NsOf(p)].version = local[p].meta.version

\* commitEnv and commitEnvWithOrigins up to the first write: LOCK_EX, reload,
\* compare versions, and for the latter the snapshots.  After a conflict the
\* lock is dropped at once.
LockForCommit(p) ==
    /\ pc[p] = "lock"
    /\ lock = Nil
    /\ IF VersionUnchanged(p)
       THEN /\ lock' = p
            /\ Goto(p, "saveBundle")
            /\ local' = IF OriginAware(p)
                        THEN [local EXCEPT ![p].saved = bundle[NsOf(p)],
                                           ![p].savedLabels = origins[NsOf(p)]]
                        ELSE local
            /\ UNCHANGED outcome
       ELSE Return(p, "conflict") /\ UNCHANGED lock
    /\ UNCHANGED <<disk, audit, begun, committed>>

\* Init: LOCK_EX, load, refuse an existing namespace.
LockForInit(p, c) ==
    /\ pc[p] = "idle"
    /\ c.kind = "init"
    /\ lock = Nil
    /\ IF Listed(c.ns)
       THEN /\ begun < MaxCalls + 1
            /\ begun' = begun + 1
            /\ outcome' = [outcome EXCEPT ![begun + 1] = "exists"]
            /\ UNCHANGED <<pc, local, lock>>
       ELSE /\ Begin(p, c, "saveBundle",
                     [NoEntry EXCEPT !.recipients = c.recipients], NoValues)
            /\ lock' = p
            /\ UNCHANGED outcome
    /\ UNCHANGED <<disk, audit, committed>>

\* Mutant: the bundle is encrypted to the recipients it had before the edit.
SaveBundleForOld(p) ==
    /\ pc[p] = "saveBundle"
    /\ cipher' = [cipher EXCEPT ![NsOf(p)][local[p].no] =
                     [values |-> local[p].values, to |-> manifest[NsOf(p)].recipients]]
    /\ bundle' = [bundle EXCEPT ![NsOf(p)] = local[p].no]
    /\ local' = [local EXCEPT ![p].meta.sha = local[p].no]
    /\ Goto(p, IF OriginAware(p) THEN "saveOrigins" ELSE "saveManifest")
    /\ UNCHANGED <<manifest, origins, lock, audit, begun, outcome, committed>>

\* encryptAndWrite: encrypt, rename over the bundle, note the hash.
SaveBundle(p) ==
    /\ pc[p] = "saveBundle"
    /\ cipher' = [cipher EXCEPT ![NsOf(p)][local[p].no] =
                     [values |-> local[p].values, to |-> local[p].meta.recipients]]
    /\ bundle' = [bundle EXCEPT ![NsOf(p)] = local[p].no]
    /\ local' = [local EXCEPT ![p].meta.sha = local[p].no]
    /\ Goto(p, IF OriginAware(p) THEN "saveOrigins" ELSE "saveManifest")
    /\ UNCHANGED <<manifest, origins, lock, audit, begun, outcome, committed>>

\* Mutant: the error is reported after the file has been replaced.
SaveBundleFailsLate(p) ==
    /\ pc[p] = "saveBundle"
    /\ MayFail("bundle")
    /\ cipher' = [cipher EXCEPT ![NsOf(p)][local[p].no] =
                     [values |-> local[p].values, to |-> local[p].meta.recipients]]
    /\ bundle' = [bundle EXCEPT ![NsOf(p)] = local[p].no]
    /\ Return(p, "ioError")
    /\ Unlock(p)
    /\ UNCHANGED <<manifest, origins, audit, begun, committed>>

\* Mutant: an early return that leaves the lock held.
SaveBundleFailsLocked(p) ==
    /\ pc[p] = "saveBundle"
    /\ MayFail("bundle")
    /\ Return(p, "ioError")
    /\ UNCHANGED <<disk, lock, audit, begun, committed>>

SaveBundleFails(p) ==
    /\ pc[p] = "saveBundle"
    /\ MayFail("bundle")
    /\ Return(p, "ioError")
    /\ Unlock(p)
    /\ UNCHANGED <<disk, audit, begun, committed>>

SaveOrigins(p) ==
    /\ pc[p] = "saveOrigins"
    /\ origins' = [origins EXCEPT ![NsOf(p)] = local[p].labels]
    /\ Goto(p, "saveManifest")
    /\ UNCHANGED <<manifest, bundle, cipher, lock, audit, local, begun, outcome,
                   committed>>

SaveOriginsFails(p) ==
    /\ pc[p] = "saveOrigins"
    /\ MayFail("origins")
    /\ Goto(p, "undoBundle")
    /\ UNCHANGED <<disk, lock, audit, local, begun, outcome, committed>>

\* Mutant: recordEvent's operation and subject are swapped.
OperationAsEvent(p) == {TheCall(p).kind}

\* The subjects of the events a call appends once it has committed.
Events(p) ==
    LET c == TheCall(p) IN
    IF c.kind \in ValueKind THEN c.keys
    ELSE IF c.kind = "init" THEN {c.ns}
    ELSE {c.who} \union
         {k \in Key : c.kind = "recipientRotate" /\ local[p].values[k] = local[p].no}

\* Mutant: the saved manifest holds this entry and nothing of the one on disk.
SaveManifestAlone(p) ==
    /\ pc[p] = "saveManifest"
    /\ manifest' = [ns \in Namespace |->
                       IF ns = NsOf(p)
                       THEN [version    |-> local[p].meta.version + 1,
                             sha        |-> local[p].meta.sha,
                             recipients |-> local[p].meta.recipients]
                       ELSE NoEntry]
    /\ committed' = committed \union {local[p].no}
    /\ local' = [local EXCEPT ![p].todo = Events(p)]
    /\ Goto(p, "audit")
    /\ lock' = IF TheCall(p).kind = "init" THEN lock ELSE Nil
    /\ UNCHANGED <<bundle, origins, cipher, audit, begun, outcome>>

\* mergeInto and saveManifest: the manifest of disk with this one entry
\* replaced.  The lock is released on return, which Init delays until its
\* event is appended.
SaveManifest(p) ==
    /\ pc[p] = "saveManifest"
    /\ manifest' = [manifest EXCEPT ![NsOf(p)] =
                       [version    |-> local[p].meta.version + 1,
                        sha        |-> local[p].meta.sha,
                        recipients |-> local[p].meta.recipients]]
    /\ committed' = committed \union {local[p].no}
    /\ local' = [local EXCEPT ![p].todo = Events(p)]
    /\ Goto(p, "audit")
    /\ lock' = IF TheCall(p).kind = "init" THEN lock ELSE Nil
    /\ UNCHANGED <<bundle, origins, cipher, audit, begun, outcome>>

\* Mutant: no rollback.
SaveManifestFailsDirty(p) ==
    /\ pc[p] = "saveManifest"
    /\ MayFail("manifest")
    /\ Return(p, "ioError")
    /\ Unlock(p)
    /\ UNCHANGED <<disk, audit, begun, committed>>

\* Mutant: the error is not looked at.
SaveManifestFailsUnseen(p) ==
    /\ pc[p] = "saveManifest"
    /\ MayFail("manifest")
    /\ local' = [local EXCEPT ![p].todo = Events(p)]
    /\ Goto(p, "audit")
    /\ Unlock(p)
    /\ UNCHANGED <<disk, audit, begun, outcome, committed>>

\* Only commitEnvWithOrigins rolls back; commitEnv and Init just return.
SaveManifestFails(p) ==
    /\ pc[p] = "saveManifest"
    /\ MayFail("manifest")
    /\ IF OriginAware(p)
       THEN Goto(p, "undoBundle") /\ UNCHANGED <<lock, local, outcome>>
       ELSE Return(p, "ioError") /\ Unlock(p)
    /\ UNCHANGED <<disk, audit, begun, committed>>

\* rollbackBundle: a failure of the rollback is only announced.
UndoBundle(p) ==
    /\ pc[p] = "undoBundle"
    /\ \/ bundle' = [bundle EXCEPT ![NsOf(p)] = local[p].saved]
       \/ MayFail("undo") /\ UNCHANGED bundle
    /\ Goto(p, "undoOrigins")
    /\ UNCHANGED <<manifest, origins, cipher, lock, audit, local, begun, outcome,
                   committed>>

\* restoreOriginsBytesIgnoreErr, then the error is returned.
UndoOrigins(p) ==
    /\ pc[p] = "undoOrigins"
    /\ \/ origins' = [origins EXCEPT ![NsOf(p)] = local[p].savedLabels]
       \/ MayFail("undo") /\ UNCHANGED origins
    /\ Return(p, "ioError")
    /\ Unlock(p)
    /\ UNCHANGED <<manifest, bundle, cipher, audit, begun, committed>>

\* recordEvent, one append per key or recipient; a failed append is ignored.
RecordEvent(p) ==
    /\ pc[p] = "audit"
    /\ \E s \in local[p].todo :
          /\ \/ audit' = audit \union {<<local[p].no, s>>}
             \/ MayFail("audit") /\ UNCHANGED audit
          /\ local' = [local EXCEPT ![p].todo = @ \ {s}]
    /\ UNCHANGED <<disk, lock, pc, begun, outcome, committed>>

Finish(p) ==
    /\ pc[p] = "audit"
    /\ local[p].todo = {}
    /\ Return(p, "ok")
    /\ Unlock(p)
    /\ UNCHANGED <<disk, audit, begun, committed>>

\* Every other error on the way to the first write: the flock, a file or the
\* age process fails or times out, and the call returns with nothing written.
ReadFails(p) ==
    /\ pc[p] \in {"hash", "decrypt", "edit", "lock"}
    /\ MayFail("read")
    /\ Return(p, "ioError")
    /\ UNCHANGED <<disk, lock, audit, begun, committed>>

\* The process dies: the kernel closes its lock file, its files stay.
Crash(p) ==
    /\ Crashes
    /\ pc[p] # "idle"
    /\ Return(p, "crashed")
    /\ Unlock(p)
    /\ UNCHANGED <<disk, audit, begun, committed>>

-----------------------------------------------------------------------------
Start(p) == \E c \in Calls : Load(p, c) \/ LockForInit(p, c)

Unlocked(p) == Hash(p) \/ Decrypt(p) \/ ReadEnv(p) \/ Edit(p)

Locked(p) ==
    \/ SaveBundle(p) \/ SaveBundleFails(p)
    \/ SaveOrigins(p) \/ SaveOriginsFails(p)
    \/ SaveManifest(p) \/ SaveManifestFails(p)
    \/ UndoBundle(p) \/ UndoOrigins(p)

Auditing(p) == RecordEvent(p) \/ Finish(p)

\* The bound is reached and every call has returned.
AllDone == begun = MaxCalls + 1 /\ \A p \in Proc : pc[p] = "idle"

Next ==
    \/ \E p \in Proc :
          \/ Start(p)
          \/ Unlocked(p)
          \/ ReadFails(p)
          \/ LockForCommit(p)
          \/ Locked(p)
          \/ Auditing(p)
          \/ Crash(p)
    \/ AllDone /\ UNCHANGED vars

Spec == Init /\ [][Next]_vars

\* A running call keeps running, and flock wakes its waiters: a process that
\* finds the lock free again and again gets it.
Fairness ==
    \A p \in Proc : /\ WF_vars(Unlocked(p) \/ Locked(p) \/ Auditing(p))
                    /\ SF_vars(LockForCommit(p))

FairSpec == Spec /\ Fairness
=============================================================================
