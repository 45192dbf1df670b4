-------------------------- MODULE StoreInvariant --------------------------
(***************************************************************************)
(* The inductive invariant behind the theorems about Store.                *)
(***************************************************************************)
EXTENDS StoreProperties

\* Where in its call a process of each kind can be.
KindsAt(step) ==
    IF step = "hash" THEN RewriteKind \union ReadKind
    ELSE IF step = "decrypt" THEN RewriteKind \union {"read"}
    ELSE IF step = "return" THEN {"read"}
    ELSE IF step \in {"edit", "lock"} THEN RewriteKind
    ELSE IF step \in {"saveOrigins", "undoBundle", "undoOrigins"} THEN OriginKind
    ELSE RewriteKind \union {"init"}

\* A process that is not idle runs a call, at a step such a call reaches.
CallInv ==
    \A p \in Proc :
        pc[p] # "idle" =>
            /\ local[p].call \in Calls
            /\ local[p].call.kind \in KindsAt(pc[p])
            /\ local[p].no \in CallNo

TypeInv == TypeOK /\ CallInv

\* The steps made under the exclusive lock.
WritingStep ==
    {"saveBundle", "saveOrigins", "saveManifest", "undoBundle", "undoOrigins"}
Writing(p) == pc[p] \in WritingStep

\* Whoever writes holds the lock, so that at most one process does.
LockInv == \A p \in Proc : Writing(p) => lock = p

\* A namespace is listed for good, with recipients; one that is not has no
\* version.  A process that has loaded an entry loaded a listed one.
ListedInv ==
    /\ \A ns \in Namespace : ~Listed(ns) => manifest[ns].version = 0
    /\ \A p \in Proc :
          pc[p] # "idle" =>
              /\ local[p].meta.recipients # {}
              /\ local[p].call.kind # "init" => Listed(NsOf(p))

\* Under the lock, the version compared is still the version on disk.
VersionInv ==
    \A p \in Proc :
        Writing(p) => manifest[NsOf(p)].version = local[p].meta.version

\* Call numbers are fresh: nobody else has them, and no entry records them
\* before their own manifest write.
NumberInv ==
    /\ committed \subseteq 2..begun
    /\ \A ns \in Namespace : manifest[ns].sha \in {NoCallNo, 1} \union committed
    /\ \A p \in Proc :
          pc[p] # "idle" =>
              /\ local[p].no \in 2..begun
              /\ pc[p] # "audit" => local[p].no \notin committed
    /\ \A p, q \in Proc :
          p # q /\ pc[p] # "idle" /\ pc[q] # "idle" => local[p].no # local[q].no

\* What is about to be recorded is what was encrypted.
EncryptedInv ==
    \A p \in Proc :
        pc[p] \in {"saveOrigins", "saveManifest"} =>
            /\ local[p].meta.sha = local[p].no
            /\ cipher[NsOf(p)][local[p].no].to = local[p].meta.recipients

FileInv == LockInv /\ ListedInv /\ VersionInv
CipherInv == NumberInv /\ EncryptedInv /\ EncryptedToTheListed

-----------------------------------------------------------------------------
(* Which call a value comes from, and whether the log says so. *)

\* A number has its outcome when its call returns, and not before; a call that
\* reports a failure has not committed.
OutcomeInv ==
    /\ \A n \in CallNo : Failed(n) => n \notin committed
    /\ \A n \in CallNo : n = 1 \/ n > begun => outcome[n] = "none"
    /\ \A p \in Proc :
          pc[p] # "idle" =>
              /\ outcome[local[p].no] = "none"
              /\ pc[p] = "audit" => local[p].no \in committed

\* The steps between a call's edit and its manifest write.
Prepared(p) == pc[p] = "lock" \/ Writing(p)

\* A call that gives a key its value will append an event for that key.
EventsInv ==
    \A p \in Proc, k \in Key :
        Prepared(p) /\ local[p].values[k] = local[p].no => k \in Events(p)

\* The values of a key of whose call it is known what has become: there was
\* none, it came to nothing, its event is in the log, or it is on its way there.
Accounted(v, k) ==
    \/ v \in {Absent, 1}
    \/ v \in CallNo /\ outcome[v] \notin {"none", "ok"}
    \/ <<v, k>> \in audit
    \/ \E p \in Proc :
          /\ local[p].no = v
          /\ \/ Prepared(p) /\ local[p].values[k] = v
             \/ pc[p] = "audit" /\ k \in local[p].todo

Accounts == {x \in Nat \X Key : Accounted(x[1], x[2])}

\* That is so for every value that is encrypted or about to be, committed or
\* not: a value may be read from a bundle that its writer then rolls back, or
\* dies over.
AccountInv ==
    /\ \A ns \in Namespace, n \in CallNo, k \in Key :
          <<cipher[ns][n].values[k], k>> \in Accounts
    /\ \A p \in Proc, k \in Key : <<local[p].values[k], k>> \in Accounts

LogInv == \A e \in audit : e[1] \in committed

AuditInv == OutcomeInv /\ EventsInv /\ AccountInv /\ LogInv

-----------------------------------------------------------------------------
(* The three files of a namespace, when every call that fails rolls back. *)

\* commitEnvWithOrigins restores what it has replaced; commitEnv does not, and
\* neither does a process that dies.
CallsRollBack ==
    /\ ~Crashes
    /\ "undo" \notin Faults
    /\ \A c \in Calls : c.kind \notin RecipientKind

\* The files found on disk are in sync, as the last pruneOriginsToValues left
\* them; a namespace that is not listed has no labels.
ExistingInSync ==
    \A ns \in Namespace, k \in Key :
        Existing[ns].origins[k] # NoOrigin =>
            Existing[ns].recipients # {} /\ Existing[ns].values[k] # Absent

\* A bundle and labels that are in sync with what the manifest vouches for.
Fits(ns, sha, labels) ==
    /\ manifest[ns].sha # NoCallNo => sha = manifest[ns].sha
    /\ \A k \in Key : labels[k] # NoOrigin => CommittedValues(ns)[k] # Absent

\* What a call has prepared is in sync with itself; what it writes over was in
\* sync, what it has saved still is, and it has written what it prepared.
WriterInv(p) ==
    LET ns == NsOf(p) IN
    /\ Prepared(p) =>
          \A k \in Key : local[p].labels[k] # NoOrigin => local[p].values[k] # Absent
    /\ Writing(p) =>
          /\ OriginAware(p) => Fits(ns, local[p].saved, local[p].savedLabels)
          /\ TheCall(p).kind = "init" => ~Listed(ns)
    /\ pc[p] = "saveBundle" => InSync(ns)
    /\ pc[p] \in {"saveOrigins", "saveManifest"} =>
          /\ bundle[ns] = local[p].no
          /\ cipher[ns][local[p].no].values = local[p].values
    /\ pc[p] = "saveManifest" =>
          \A k \in Key : origins[ns][k] # NoOrigin => local[p].values[k] # Absent
    /\ pc[p] = "undoOrigins" /\ manifest[ns].sha # NoCallNo =>
          bundle[ns] = manifest[ns].sha

SyncInv ==
    /\ \A p \in Proc : WriterInv(p)
    /\ \A ns \in Namespace :
          /\ ~Listed(ns) => manifest[ns].sha = NoCallNo /\ origins[ns] = NoOrigins
          /\ (\A p \in Proc : Writing(p) => NsOf(p) # ns) => InSync(ns)

-----------------------------------------------------------------------------
(* The atomic store, when no call fails or dies half-way. *)

\* Whatever fails, fails before a call's first write or after its last.
NothingHalfDone == ~Crashes /\ "origins" \notin Faults /\ "manifest" \notin Faults

\* The contents the manifest vouches for.
Committed(ns) ==
    [recipients |-> manifest[ns].recipients,
     values     |-> CommittedValues(ns),
     origins    |-> CommittedOrigins(ns)]

\* p runs a call on the namespace; it has replaced its bundle, and not yet the
\* manifest.
Running(p, ns)  == pc[p] # "idle" /\ NsOf(p) = ns
InFlight(p, ns) == pc[p] \in {"saveOrigins", "saveManifest"} /\ NsOf(p) = ns
Stable(ns)      == \A p \in Proc : ~InFlight(p, ns)

\* The entry p loaded is still the manifest's, and will be: a call in flight
\* changes it for certain.
Unchanged(p, ns) == manifest[ns].version = local[p].meta.version
Current(p, ns)   == Unchanged(p, ns) /\ Stable(ns)

\* What p is about to write is its call, applied to what is committed.
AppliedTo(p, e) ==
    LET c == TheCall(p) IN
    IF c.kind = "init"
    THEN local[p].meta.recipients = c.recipients /\ local[p].values = NoValues
    ELSE /\ EditAllowed(c, e)
         /\ local[p].meta.recipients = EditedRecipients(c, e)
         /\ local[p].values = EditedValues(c, e, local[p].no)
         /\ OriginAware(p) => local[p].labels = EditedOrigins(c, e, local[p].no)

\* What a call has seen is what is committed, unless the versions differ; and
\* so is what it has made of it.
ViewInv(p, ns) ==
    /\ local[p].meta.version <= manifest[ns].version
    /\ pc[p] \in {"hash", "decrypt", "edit"} /\ Unchanged(p, ns) =>
          local[p].meta.recipients = manifest[ns].recipients
    /\ pc[p] = "edit" /\ Current(p, ns) => local[p].values = CommittedValues(ns)
    /\ (pc[p] = "lock" /\ Current(p, ns)) \/ Writing(p) => AppliedTo(p, Committed(ns))

\* How far the writer has come: nobody turns back.
FlightInv(p, ns) ==
    /\ pc[p] \notin {"undoBundle", "undoOrigins"}
    /\ pc[p] \in {"saveOrigins", "saveManifest"} =>
          /\ bundle[ns] = local[p].no
          /\ cipher[ns][local[p].no].values = local[p].values
    /\ pc[p] \in {"saveBundle", "saveOrigins"} /\ OriginAware(p) =>
          local[p].savedLabels = origins[ns]
    /\ pc[p] = "saveManifest" /\ OriginAware(p) => local[p].labels = origins[ns]
    /\ Writing(p) /\ TheCall(p).kind = "init" => ~Listed(ns)

\* Between two writers the bundle is the one the manifest vouches for.
BundleInv ==
    \A ns \in Namespace : Listed(ns) /\ Stable(ns) => bundle[ns] = CommittedNo(ns)

AtomicInv ==
    /\ \A p \in Proc, ns \in Namespace :
          Running(p, ns) => ViewInv(p, ns) /\ FlightInv(p, ns)
    /\ BundleInv

\* A number stands for one ciphertext of one namespace; in every other it is
\* still unused.
UnusedInv ==
    \A ns \in Namespace, n \in CallNo :
        \/ n > begun
        \/ \E p \in Proc : pc[p] # "idle" /\ local[p].no = n /\ NsOf(p) # ns
        => cipher[ns][n] = cipher[ns][1]

\* A committed ciphertext holds values of committed calls, or earlier ones.
CommittedValuesInv ==
    \A ns \in Namespace, n \in {1} \union committed, k \in Key :
        cipher[ns][n].values[k] \in {Absent, 1} \union committed

\* Nobody can have seen anything of a namespace that is not listed.
UnlistedInv ==
    \A ns \in Namespace, n \in {1} \union committed :
        ~Listed(ns) => cipher[ns][n].to = {}

ValueInv == UnusedInv /\ CommittedValuesInv
KnowledgeInv == UnlistedInv /\ RemovedKnowNoProvisioned
=============================================================================
