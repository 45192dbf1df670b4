-------------------------- MODULE StoreProperties --------------------------
(***************************************************************************)
(* What the store's files guarantee, and to whom.                          *)
(***************************************************************************)
EXTENDS Store

\* Every variable has its type.
TypeOK ==
    /\ manifest \in [Namespace -> ManifestEntry]
    /\ bundle \in [Namespace -> Sha]
    /\ origins \in [Namespace -> [Key -> Origin \union {NoOrigin}]]
    /\ cipher \in [Namespace -> [CallNo -> Ciphertext]]
    /\ lock \in Proc \union {Nil}
    /\ audit \subseteq CallNo \X (Key \union Recipient \union Namespace)
    /\ pc \in [Proc -> Step]
    /\ local \in [Proc -> Local]
    /\ begun \in CallNo
    /\ outcome \in [CallNo -> Outcome]
    /\ committed \subseteq CallNo

-----------------------------------------------------------------------------
(* The committed contents *)

\* The ciphertext the manifest vouches for; an entry without a hash vouches
\* for the bundle that was there before it.
CommittedNo(ns) == IF manifest[ns].sha = NoCallNo THEN 1 ELSE manifest[ns].sha
CommittedValues(ns) == cipher[ns][CommittedNo(ns)].values

\* The process that has replaced the origins file and not (or not yet) the
\* manifest.
Relabelling(p, ns) ==
    /\ pc[p] \in {"saveManifest", "undoBundle", "undoOrigins"}
    /\ OriginAware(p)
    /\ NsOf(p) = ns

CommittedOrigins(ns) ==
    IF \E p \in Proc : Relabelling(p, ns)
    THEN local[CHOOSE p \in Proc : Relabelling(p, ns)].savedLabels
    ELSE origins[ns]

\* Refinement mapping: the contents the manifest vouches for are one object.
AtomicEntry ==
    [ns \in Namespace |->
        [version    |-> manifest[ns].version,
         recipients |-> manifest[ns].recipients,
         values     |-> CommittedValues(ns),
         origins    |-> CommittedOrigins(ns)]]

Abstract == INSTANCE AtomicStore WITH entry <- AtomicEntry

\* K-21: as long as no call fails half-way, the store is atomic: each manifest
\* write is one call applied to the contents the previous one left, so that no
\* concurrent edit is lost, half applied, or applied twice (commitEnv,
\* commitEnvWithOrigins, mergeInto).
StoreIsAtomic == Abstract!Spec

-----------------------------------------------------------------------------
(* Safety *)

\* README "Concurrency safety": the manifest changes one namespace at a time
\* and that namespace's version by exactly one, whatever fails or dies.
VersionsStepByOne ==
    [][\A ns \in Namespace :
          manifest'[ns] # manifest[ns] =>
             /\ manifest'[ns].version = manifest[ns].version + 1
             /\ \A other \in Namespace \ {ns} : manifest'[other] = manifest[other]]_vars

\* encryptAndWrite and saveManifest agree: the bundle a manifest entry vouches
\* for is encrypted to exactly the recipients the entry lists.
EncryptedToTheListed ==
    \A ns \in Namespace :
        manifest[ns].sha # NoCallNo =>
            cipher[ns][manifest[ns].sha].to = manifest[ns].recipients

\* "the manifest, bundle, and origins file land or roll back as a unit": when
\* nobody holds the lock, every listed bundle has the hash its entry records
\* and only keys with a value have an origin label.
InSync(ns) ==
    /\ manifest[ns].sha # NoCallNo => bundle[ns] = manifest[ns].sha
    /\ \A k \in Key : origins[ns][k] # NoOrigin => CommittedValues(ns)[k] # Absent

FilesInSync == lock = Nil => \A ns \in Namespace : InSync(ns)

\* A call that was refused, lost the race or failed leaves no value behind.
Failed(n) == outcome[n] \in {"refused", "conflict", "ioError"}

FailedCallsLeaveNoTrace ==
    \A ns \in Namespace, k \in Key :
        CommittedValues(ns)[k] # Absent => ~Failed(CommittedValues(ns)[k])

\* K-37: a key labelled "provision" never keeps a value that some ciphertext
\* offered to a recipient who is not on the list any more, for the recipients
\* whom only `recipient remove --rotate` removes.
OnlyRotatedOut(r) ==
    \A c \in Calls : c.kind \in {"recipientRemove", "recipientDrop"} => c.who # r

Knows(r, ns, v) ==
    \E n \in {1} \union committed :
        /\ r \in cipher[ns][n].to
        /\ \E k \in Key : cipher[ns][n].values[k] = v

RemovedKnowNoProvisioned ==
    \A ns \in Namespace, k \in Key, r \in Recipient :
        /\ OnlyRotatedOut(r)
        /\ r \notin manifest[ns].recipients
        /\ CommittedOrigins(ns)[k] = "provision"
        => ~Knows(r, ns, CommittedValues(ns)[k])

\* K-27: the log holds no event of a call that changed nothing, and a value in
\* the store whose call has returned success has its event in the log.
AuditTellsTheTruth ==
    /\ \A e \in audit : e[1] \in committed
    /\ \A ns \in Namespace, k \in Key :
          LET v == CommittedValues(ns)[k] IN
          v \in committed /\ outcome[v] = "ok" => <<v, k>> \in audit


-----------------------------------------------------------------------------
(* Liveness *)

\* Whoever takes the exclusive lock gives it back, dead or alive.
LockIsReleased == \A p \in Proc : lock = p ~> lock # p

\* Every call returns: waiting for the lock is never a deadlock.
CallsReturn == \A p \in Proc : pc[p] # "idle" ~> pc[p] = "idle"
=============================================================================
