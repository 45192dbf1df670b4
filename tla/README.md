# A verification development for thimble

thimble keeps the secrets of applications in a directory that a team shares and
replicates: one age-encrypted bundle per (application, environment) namespace, a
manifest that lists the namespaces and who may read them, and a file of labels that
says where each value came from. Several commands, the web UI and other leaders use
the directory at the same time. The modules here model the parts of the program
whose correctness depends on the order of steps, check them with TLC on small
instances, and prove with TLAPS what matters most for instances of any size.

Contents: [the system](#the-system) · [the plan](#the-plan) ·
[modules and code](#modules-and-code) · [runs](#runs) ·
[fairness](#fairness) · [where the code and its words disagree](#where-the-code-and-its-words-disagree) ·
[proofs](#proofs) · [what is not here](#what-is-not-here)

## The system

| part | state | operations | talks to |
|---|---|---|---|
| store (`internal/store`) | `thimble.json`, a bundle and an origins file per namespace, `.thimble.lock` | Init, ReadEnv, Find, Verify, Create/Update/Set/DeleteSecret, SetSecrets, AddRecipient, RemoveRecipient, RemoveRecipientWithRotation | age, audit log; called by every command, the web UI and the gate |
| quorum gate (`internal/quorum`, `quorum_gate.go`, `quorum_sign.go`) | `recipients.signed.toml`; `.pending-recipient-adds/` with meta.json, challenges and signatures | AddRecipientV2 (prepare, verify and commit, bootstrap, legacy), SignAddRecipient | store, age, audit log |
| audit log (`internal/audit`) | `.thimble-audit.log`, appended to | Append, Read, Filter | written by store, gate and peer commands |
| peers (`internal/peer`, `cli/run_peer*.go`) | `peers.toml`, `.peer-state.json`, the peers' copies of the store | add, remove, join, ping, status; a push after every mutation | rsync and ssh, the store's files |
| web session (`internal/web`) | the token, a one-slot activity channel, the idle timer, browsers' cookies | login, logout, requests, Rotate (signal), RunIdleRotation | store, catalog |
| store catalog (`internal/storecatalog`, `cli/web_store_catalog.go`) | the managed stores' directories, the web UI's active store | Create, Select, Current, List | store |
| provision, exec, get | none | read the store, generate values, start a child | store |
| doctor, dotenv, age, passphrase, command line | none | sequential; no shared state | |

What is hard, and what makes each part right:

- **store.** A call reads manifest and bundle without holding a lock across the two,
  edits copies, then takes the exclusive flock, compares versions, and replaces two or
  three files by rename, one after the other. Right means: no update lost or applied
  twice; entry, bundle and origins in step after every failure the code rolls back;
  a bundle that is vouched for is encrypted to exactly the listed recipients; a failed
  call leaves nothing; removal with `--rotate` replaces everything provisioned that the
  removed recipient has ever been able to read; the log agrees with what happened; the
  lock is always given back.
- **quorum gate.** The protocol runs over files, without a lock, across several people
  and days. Right means: nobody is added through the gate without the signatures that
  the policy asks for, given for that very addition; signatures count once; the event
  names those who signed; what prepare announces can be signed.
- **peers.** Copies are made file by file, without a lock at either end, while files
  change; every leader both pushes and is pushed to; the push is killed at a timeout.
  Right means: whatever mixture this leaves, a bundle that is accepted was committed at
  the version stated beside it; the next undisturbed push repairs what one cut off has
  left; a failed command is not pushed; private files stay private; no push takes a store
  away; the doctor's verdict is that of the last contact; a peer that never answers holds
  up nothing but the command that waits for it.
- **web session.** Two goroutines replace the token while requests that were admitted
  under it are on their way. Right means: whatever a request changes it was entitled to
  change; a session is given for a token somebody presented; activity is never missed
  by the idle timer, and without activity sessions end.
- **store catalog.** Creating a store is a sequence of file operations without a lock.
  Right means: nobody's namespaces are lost to a creation; the active store is one that
  can be used.

`PROJECT.json` lists the hazards at the lines where they bite, each with the properties
that would catch it or the reason why none does yet.

## The plan

Written, in the order of importance: the store and its atomic specification; the gate on
top of that specification; replication between leaders; the web UI, composed of its
session and the catalog of stores; the proofs of types and safety; the proof that the
store implements its specification, and of what holds under some failures only; the proofs
of what pushes, joins and creations leave. Every safety invariant, every action property
and the refinement that a passing run checks is a theorem. What would come next:

1. PeerSync with several namespaces per store, so that one push may carry the bundle of
   one namespace and the entries of all.
2. The selection of a store by the command line (`--store`, THIMBLE_STORE, the default).
3. Opening and locking the lock file as two steps, for processes that wait for a lock
   file while a push replaces it.

Modules are written to be proved about: parameters are CONSTANTS with named, weak
assumptions; each operation is an action; invariants are conjunctions of named parts;
there is no RECURSIVE operator.

## Modules and code

| module | models |
|---|---|
| `EnvEdit` | what one call does to one namespace: the edit closures, `dropRecipient`, `rotateProvisionedKeys`, `pruneOriginsToValues`, their refusals |
| `AtomicStore` | what the store promises: every call that succeeds changes one namespace in one step |
| `Store` | the store, file by file |
| `StoreProperties` | type invariant, refinement mapping to AtomicStore, safety and liveness |
| `StoreInvariant`, `StoreProofs`, `StoreSafetyProofs` | the inductive invariants, and the proofs of what survives every failure |
| `StoreFailureProofs` | proofs of what survives some failures: the log that tells the truth, files that roll back as a unit |
| `StoreAtomicProofs` | proofs of what holds when nothing is left half done: AtomicStore is implemented, failed calls leave no trace, rotation revokes |
| `QuorumGate` | the gate, pending directory file by file, on top of AtomicStore |
| `QuorumProperties` | its properties |
| `QuorumInvariant`, `QuorumProofs`, `QuorumSerialProofs` | the inductive invariants and the proofs; the last module is about maintainers who do not get in each other's way |
| `PeerSync` | leaders that replicate their stores: pushes, pings, joins, the peers list and the health file |
| `PeerProperties` | its properties |
| `PeerInvariant`, `PeerProofs` | the inductive invariant and the proofs |
| `StoreCatalog` | directories that become stores, and Create and Inspect over them |
| `WebSession` | the token, its rotation by signal and by idleness, the activity channel |
| `WebUI` | requests, from the browser to their effect; composes the two modules above with the active store and with other processes |
| `WebProperties` | properties of the composition |
| `WebInvariant`, `WebProofs` | the inductive invariant and the proofs |
| `MCStore`, `MCQuorum`, `MCPeer`, `MCWeb` | instances for TLC |

### Store

Each variable is a file or something processes share: `manifest` (per namespace:
version, hash, recipients), `bundle`, `origins`, `lock`, `audit`. `cipher` remembers
what each ciphertext ever produced would decrypt to and for whom; a ciphertext is named
by the number of the call that encrypted it, and that number stands for its SHA-256
(age never produces the same bytes twice). `pc` and `local` are the place and the local
variables of each process's call. `outcome` and `committed` are observations: no action
reads them.

A value is the number of the call that supplied it, so two calls always supply
different values. This is what lets a lost or resurrected update be seen.

A step is one file operation, or several that only the process's own lock lets anyone
see:

| action | code |
|---|---|
| `Load` | `loadEnvForEdit`, `Find`: manifest under LOCK_SH, released before use |
| `Hash`, `Decrypt` | the two halves of `decrypt`: hash and compare, then age opens the file again; no lock |
| `ReadEnv` | the return of a read; `verify` ends at `Hash` |
| `Edit` | `loadOrigins`, without a lock, the closure, `pruneOriginsToValues` |
| `LockForCommit` | LOCK_EX, reload, compare versions; snapshots for the rollback |
| `LockForInit` | `Init` up to its first write |
| `SaveBundle` | `encryptAndWrite` |
| `SaveOrigins` | `saveOriginsWithHook` |
| `SaveManifest` | `mergeInto` and `saveManifest`; the deferred unlock (Init unlocks after its event) |
| `SaveBundleFails`, `SaveOriginsFails`, `SaveManifestFails` | the error paths: only `commitEnvWithOrigins` rolls back |
| `UndoBundle`, `UndoOrigins` | `rollbackBundle`, `restoreOriginsBytesIgnoreErr`, either of which may fail silently |
| `RecordEvent`, `Finish` | one audit append per subject, after the commit; failure ignored |
| `ReadFails` | any other error before the first write: files, flock, age's timeout |
| `Crash` | the process dies; the kernel drops its lock, its files stay |

`Faults` says which operations may fail and `Crashes` whether processes die, so that a
property is checked under exactly the failures it is meant to survive.

Operators marked "Mutant" just before a definition are plausible mistakes in it. They
are used by no specification; each is put in the place of the definition after it to
see that the properties notice.

### QuorumGate

`policy` is the policy file; `pending`, `meta`, `challenges` and `sigs` are the pending
directory and its files; `entry` is AtomicStore's state, whose version stands for the
bundle's hash (both change with every commit and with nothing else). The gate takes no
lock, so each file it reads or writes is a step: `StartAdd`, `LoadMeta`, `Prepare`,
`WriteChallenge` (one operator after the other), `SaveMeta`; `StartSign`,
`LoadMetaToSign`, `DecryptChallenge`, `WriteSig`; `FindToVerify`, `CheckMeta`,
`Collect`, `ApplyAdd`, `Record`; `ListPending`, `RemoveFile` and `RemoveDir` for
`ClearPending`, which is a RemoveAll. `Count` is the bootstrap path. A person runs one
command at a time. `Stop` is a command that fails or is interrupted anywhere; it may
leave a truncated file, which nobody can decrypt and which is represented as none.
`OtherCommand` is any other command's commit, `EditPolicy` an edit of the policy by
hand. `grants` and `signed` are observations.

`Collect` reads all signatures in one step. A signature that appears in between belongs
to the same set or does not count, so reading them one by one adds nothing but states.
A namespace whose entry is older than hashes has version 0; nobody can prepare an
addition for it before somebody has written it (`Prepare`). The error of a rewrite that
lost the race for its version is one of `Stop`'s.
The web UI adds recipients through `AddRecipient`, which does not look at the policy
(quorum_gate.go:60-63 says it goes through `AddRecipientV2`); such additions are in the
model, and `QuorumHolds` is about those that go through the gate.

### PeerSync

A leader is a store directory: `manifest` (the entry of its one namespace), `bundle`,
`audit`, `peers` (thimble.peers.toml), `health` (.peer-state.json), `lockFile`
(.thimble.lock, named by the leader that created it), each a function of the leader;
`lock` is the process that has locked the file which is there now. A bundle is named by the number of the command that encrypted it. A process
is a command line run at its `Home`; `pc` and `local` are its place and its variables.
`committed`, `contact`, `clobbered` and `calm` are observations.

| action | code |
|---|---|
| `LoadEntry`, `Hash`, `Lock`, `SaveBundle`, `SaveManifest`, `SaveManifestFails`, `Undo`, `RecordEvent` | a mutating command, shortened from module Store to what a push may come upon |
| `RecipientList` | `recipient list`, after which dispatch pushes as well: isMutatingCommand looks at the verb only |
| `MaybePushPeers`, `NextPeer` | `maybePushPeers`, `PushChanges`; `PeerPing` and `NextPeer` for `pingSelected`. The list is loaded once |
| `Send`, `Install` | one file of one rsync: read at one end, later renamed into place at the other; the order of files is open, and the same files are skipped |
| `RsyncExits`, `PushFails`, `JoinFails` | the end of `pushOnePeer` or of the join; failure at any time, with what has been copied |
| `Ping`, `PingFails` | `PingPeer`: ssh, then one rsync of the manifest |
| `LoadState`, `SaveState` | `mutateState`, whose mutex is of one process, with `RecordPushSuccess`, `RecordPingResult` and `RecordPushFailure` |
| `LoadPeers`, `SavePeers`, `RecordPeerAudit` | `peer add` and `peer remove` |
| `PeerJoin` | `peer join` up to its rsync, which carries the private files too |

### WebSession, StoreCatalog, WebUI

`WebSession` has the token as a number (the order in which tokens became current), the
channel `slot`, the idle `timer`, and where in Rotate each of the two goroutines is:
`SetToken`, `PrintToken` and `Bump` are three steps, which the other goroutine and any
request may come between. `ReceiveActivity` and `IdleRotate` are the two cases of the
select; both may be enabled. `StoreCatalog` has what is at each path and in each
manifest. `Lstat`, `Mkdir`, `OpenManifest`, `WriteManifest` and `WriteManifestFails`
are the file operations of Create, for the handlers of the server and for `thimble store
create` in other processes.

`WebUI` composes them. A request passes `Guard` (host and origin), then `HandleLogin`
and `SetSessionCookie`, `HandleLogout`, or `RequireSession`, `Dispatch` (which notes the
activity), and then its handler: a creation and `FinishCreate`, `Select`, or `Current`,
`Load` and `Save`. Each is a step, because each reads something that others write: the
token twice in a login, the active store once per request. `setting` holds what is
fixed when the server starts, and the bounds of the behaviour.

## Runs

Bounds: `MaxCalls` (calls made in a behaviour of Store), `MaxPrepares` (challenge
sets), `MaxVersion` (versions of a namespace). Each is a guard on beginning something;
what has begun always runs to its end. Two processes suffice for every race on one
lock: a third could only wait or be one of the two. Three calls let one call fall
between the steps of another and a third see what they left. Symmetry (over
processes only) is used only where no liveness property is checked.

| run | what it asks | instance |
|---|---|---|
| `store_core` | Does the store implement the atomic one? Do failed calls leave nothing, and does `--rotate` keep its promise? `StoreIsAtomic`, `FailedCallsLeaveNoTrace`, `RemovedKnowNoProvisioned`, `TypeOK` | 2 processes, 3 calls of 8 that commit in every way there is, 2 namespaces, 2 keys, 2 recipients; reading, age and the bundle's write may fail; about 103,000 states |
| `store_rollback` | Do the three files stay in step when any write of a call that rolls back fails? `FilesInSync` | origin-aware calls, a reader, 3 calls; about 569,000 states |
| `store_faults` | What survives everything: failing rollbacks, crashes between any two steps? `EncryptedToTheListed`, `VersionsStepByOne`, `AuditTellsTheTruth`, `LockIsReleased`, `CallsReturn` | 2 calls of each sort, one namespace older than hashes and versions, one missing; about 11,000 states, with fairness |
| `quorum_gate` | Is everything that passed the gate signed by a quorum, whatever maintainers, operators and editors of the policy do in between? `QuorumHolds`, `TypeOK` | 2 maintainers who are operators, adds by the gate, bootstrap and web UI, 4 policies; about 2.5 million states |
| `quorum_once` | Is a set of signatures spent once, with interruptions anywhere? Do events name real signers? Can what is announced be signed? `SpentOnce`, `EventsNameSigners`, `ChallengesMatchMeta` | 1 maintainer, 2 operators, 2 additions, another writer; about 479,000 states |
| `peer_sync` | Does what pushes and joins leave, in whatever order and wherever they are cut off, mix up what was committed, or take a store away? Do leaders get in step when undisturbed, is the doctor told the truth? When a peer never answers, does anything wait but the command that talks to it? `TypeOK`, `ReadableIsCommitted`, `UndisturbedPushMirrors`, `DoctorTellsLastContact`, `FailedCommandsDoNotPush`, `PrivateFilesStay`, `StoresStay`, `OnlyPeersAreAwaited` | 2 leaders, 3 processes (two at one leader), 2 commands of 6 sorts after an older commit, a peer that has it or has no store; about 727,000 states, with fairness |
| `web_ui` | Are effects authorised, sessions earned, activity noticed and stores kept, while tokens rotate and others create stores? `TypeOK`, `LastPrintedIsCurrent`, `ActivityReachesTimer`, `SessionsAreEarned`, `EffectsAreAuthorised`, `CreateKeepsNamespaces`, `ActiveIsUsable`, `ActsOnAnActiveStore`, `IdleSessionsEnd` | 2 requests at a time, 2 or 3 in all, 1 other process, 3 stores (one in another's directory, one given by path), 2 rotations; about 1.5 million states, with fairness |
| `store_grant`, `store_trace`, `quorum_snapshot`, `quorum_stale`, `peer_drop` | the disagreements below, each with the property it contradicts | the smallest instances that show them |

Why some properties are checked under some failures only:

- `FilesInSync` cannot survive a crash between two renames, a failing rollback, or a
  failing manifest write in `commitEnv`, which has no rollback.
- `FailedCallsLeaveNoTrace` holds as long as no call fails between its bundle and its
  manifest. When one does, another may have decrypted its bundle (`store_trace`).
- `RemovedKnowNoProvisioned` likewise: labels are read without a lock (`loadOrigins`,
  origins_rewrite.go:56), and those of a call that then rolls back can be committed by
  another one, so that a value somebody typed is labelled as provisioned. The property
  is about recipients whom only `recipient remove --rotate` removes: the other removals
  do not claim to rotate anything.
- `StoreIsAtomic` is about the same failures as `FailedCallsLeaveNoTrace`.
- `SpentOnce` and `ChallengesMatchMeta` are checked with one maintainer. Two `recipient
  add` that verify at the same time with one identity (the same person in two terminals)
  both get through, for the same recipient, with one set; with different identities they
  do not, because a set is encrypted to one verifier (proved). Two who prepare at the
  same time can leave a meta.json and challenges with different nonces, although
  prepare.go:31-34 says that the store holds the namespace lock.

- `UndisturbedPushMirrors` is about an rsync during which nobody else changes the shared
  files at either end (`calm` observes it). A disturbed one promises nothing, and the
  code has nothing that would let it.
- `DoctorTellsLastContact` leaves out leaders where one process wrote its health file
  over another's newer one, and names that have been given to another target since.
- `StoresStay` is checked with one command line at a time at the joining leader. With two,
  a join with `--replace` may empty a store that another command there is pushing, and the
  push then empties the peer's.
- `OnlyPeersAreAwaited` says of a flock that it is free in the end, not that nobody else
  has locked a lock file that a push has replaced.
- `LastPrintedIsCurrent` leaves out rotations that overlap, which nothing prevents.

Two commands (`MaxCommands`) are enough in `peer_sync` because each goes through many steps (a
mutation and the push after it are one command): two commands are two pushes in opposite
directions, a push against a mutation, a mutation against a join, two records of health.
The older commit (`Older`) is what joins and first pushes copy; `Starts` says how many
older commits each leader has. The join in `peer_sync` has `--replace`: one without is
refused, or does the same. In `web_ui` a behaviour either has two
rotations and two requests, or three requests among creations: rotations matter to
sessions and creations to stores, and the last start has a signal among requests of both.

What is met while modelling and is no property's business: a reader that has loaded the
entry before, and hashes the bundle after, a writer's rename is refused with a SHA-256
mismatch though every writer succeeds (SECURITY.md:82-84 promises the old or the new
bundle). `Hash` has this outcome; the reader's next attempt succeeds.
In the same way QuorumGate, PeerSync and WebUI contain, as outcomes of the code that no
property excludes:

- The hash that `recipient add` compares is of the entry that `Find` returned, before the
  signatures are decrypted. A command that commits after that is not noticed, and the
  addition is made to a later bundle than the one signed for, although
  docs/recipient-quorum.md:158-159 says that it refuses "if the bundle SHA has changed
  since prepare". The addition itself was signed for all the same (`QuorumHolds`).
- A push or a ping to a peer that never answers may never return (push.go:133-134,
  heartbeat.go:138-139 and 168-169), although push.go:36-37 and README.md:511-512 give it a
  timeout: see [fairness](#fairness). push_test.go:227-228 has the stub of its timeout test
  replace its shell by `exec`, "so context cancellation kills the right pid".
- A push carries .thimble.lock, and rsync replaces it by rename. A command that has locked
  the peer's old file does not keep another one from locking the new one: two commands then
  commit at once, although README.md:488-489 says that each takes an exclusive lock.
- join looks once whether there is a store (run_peer.go:140), and rsync runs after that. A
  store that a push brings in between is replaced by the older files that the join has
  read, without `--replace`, although the goal of the look is "to refuse to clobber a
  leader's existing state" (run_peer.go:190-191).
- `recipient list`, which changes nothing, pushes too, and so may take a newer peer back.
- join carries peers.toml and the health file of the target, which push excludes because
  they are private to a leader (push.go:101-104).
- Two processes may lose one of two records of the health file, although state.go:39-42
  expects concurrent pushes to end in a consistent file. Records are kept by name: a name
  that is removed and added again with another target keeps the old one's health.
- When two rotations overlap, the token printed last may not be the current one.
- A login with a token that is replaced between the comparison and the cookie gets a
  session under the new token.
- Creating a store whose manifest exists and is damaged, or is just being written by
  somebody else, succeeds and makes it the active one.

## Fairness

Store's `FairSpec`: a process that is inside a call and can take its next step does
(weak fairness; the Go and kernel schedulers), and a process that waits for the
flock gets it if the lock is free again and again (strong fairness: flock queues its
waiters and each holder releases). Nothing obliges anyone to begin a call, and failures
and crashes are never obligatory.

PeerSync's `FairSpec`: a process that is inside a command takes its next step, as far as
that is its own. A join ends at its deadline, because the context kills rsync and
`cmd.Run`, whose output goes to a file, returns when rsync is gone. A push or a ping need
not: its context kills the same child, but `CombinedOutput` reads from a pipe that the ssh
started by rsync holds as well, and nothing sets a WaitDelay. So `PushFails` and
`PingFails` have no fairness, nor have `Send`, `Install`, `RsyncExits` and `Ping`, which
take a peer that answers: what is left to promise is `OnlyPeersAreAwaited`, and that every
command returns is not promised. Fairness is strong because of the flock in
`Lock`.

WebUI's `FairSpec`: the idle watcher's goroutine runs, and time passes (`TimerFires`).
Requests, signals, handlers and other processes have none. Requests cease because a
behaviour has boundedly many of them, which is what `IdleSessionsEnd` is about: sessions
nobody uses end.

QuorumGate's `FairSpec`, for `quorum_stale` only: a command that runs keeps running,
and people run `recipient add` and `sign-add` again whenever that is possible again
and again. This is more than any program can count on, which is the point: even with
patient people a stale set is never replaced.

## Where the code and its words disagree

| run | the words | the code |
|---|---|---|
| `store_grant` | store.go:390-393: commitEnv writes ciphertext and manifest "atomically" | when the manifest cannot be written, the new bundle stays: namespace refused with a SHA-256 mismatch from then on |
| `store_trace` | store.go:208-209: a batch is committed completely "or the namespace remains unchanged" | a call may decrypt a bundle between its writer's rename and that writer's rollback, and commit the failed call's value with its own |
| `quorum_snapshot` | meta.go:36-37: the snapshot of the operators serves "to detect post-prepare policy edits" | `checkMetaMatches` compares quorum_m only; operators who have been replaced still count |
| `quorum_stale` | docs/recipient-quorum.md:224-225: "meta is invalidated; maintainer must re-prepare" | nothing removes it: `recipient add` is refused until the directory is removed by hand |
| `peer_drop` | README.md:495: "Concurrent writes are detected, never silently dropped." README.md:504-506: "exactly one push succeeds" | rsync compares no versions: both pushes succeed, and one of two commits of the same version is gone at the other leader |

## Proofs

The theorems are in eight modules, and are about every value of the constants. What is
proved in all of them is `Init => IInv`, `IInv /\ [Next]_vars => IInv'` and
`IInv => Property`; TLC has checked each `IInv` on the instance of a run before.

`StoreProofs` and `StoreSafetyProofs` hold for any sets of processes, namespaces, keys
and recipients, any calls, any bound, with every fault and with crashes. They rest on
the assumptions named in `Store` (the constants have their types, existing contents are
well formed, `Nil` is nobody), which TLC evaluates in every run.

- `TypeCorrect`: `Spec => []TypeOK`. `TypeOK` alone is not inductive: an action reads
  fields of `local[p].call` that exist only for some kinds of call. `CallInv` says
  which kinds reach which step, and `TypeInv` is the two together. One lemma per action.
- `VouchedBundlesAreForTheListed`: `Spec => []EncryptedToTheListed`. The manifest is
  written at a different time than the bundle, so one has to know that the ciphertext a
  call numbered is the one it encrypted to the recipients it is about to record
  (`EncryptedInv`) and that nobody else writes that ciphertext, because call numbers
  are fresh (`NumberInv`).
- `VersionsAreMonotonic`: `Spec => VersionsStepByOne`. The version a call writes is the
  one it loaded plus one. That this is the version on disk plus one follows from the
  comparison under the lock (`VersionInv`) and from there being one writer
  (`LockInv`). `ListedInv` covers namespaces not yet created.

`SafetyInv` conjoins these. Most of Store's steps change none of what it is about; they
are collected under a relation of "quiet" steps, for which preservation is proved
once (`QuietKeepsFileInv`, `QuietKeepsCipherInv`). What is left is the beginning of a
call (`BegunKeepsInv`), `SaveBundle` and `SaveManifest`.

`StoreFailureProofs` is about Store under premises that say what may fail. Each premise
is one that the run of the property satisfies, and the property is false without it.

- `AuditIsTruthful`: `"audit" \notin Faults => (Spec => []AuditTellsTheTruth)`: everything
  else may fail, and processes may die. A call may read another's value from a bundle
  that is not vouched for yet and commit it, while its own events say nothing of that
  key. So what has to be known is where each value comes from, in every ciphertext and
  in every copy in a process: from before, from a call that came to nothing, from one
  whose event is in the log, or from one that is still on its way to write it
  (`AccountInv`). `OutcomeInv` keeps the outcomes of numbers and commits apart.
- `FilesRollBackAsAUnit`: `ExistingInSync /\ CallsRollBack => (Spec => []FilesInSync)`. The
  premises: the files found on disk are in sync; nobody dies, a rollback does not fail, and
  no call is one of `commitEnv`, which has none (`store_grant` shows what such a call
  leaves). `WriterInv` says for each place under the lock which of the three files have been
  replaced, and that what has been saved for the rollback was in sync (`Fits`).

`StoreAtomicProofs` is about Store when nothing is left half done (`NothingHalfDone`:
nobody dies, and origins and manifest can be written once the bundle has been; reading,
age, the bundle's write and the log may fail). `store_trace` shows what happens
without: a value of a call that is rolled back is committed by another.

- `StoreImplementsAtomicStore`: `NothingHalfDone => (Spec => StoreIsAtomic)`. The manifest's
  write is the step of AtomicStore; all others are stutters. A call decrypts and edits
  without a lock, from three files read at different times. `ViewInv` says when that was
  a view of what is committed: if no one is between bundle and manifest and the version is
  still the one loaded. A process that reads while a writer is between the two may have
  seen anything, but then the version is about to move for certain, because the write
  cannot fail any more (`FlightInv`), and the comparison under the lock refuses it.
- `FailuresLeaveNoTrace`: `NothingHalfDone => (Spec => []FailedCallsLeaveNoTrace)`, with
  `ValueInv`: every committed ciphertext holds values of committed calls only, and a
  number names one ciphertext in one namespace.
- `RotationRevokes`: `NothingHalfDone => (Spec => []RemovedKnowNoProvisioned)`. The
  refinement gives that every manifest write is `EditedValues` of what was committed; the
  theorem then says that no sequence of such edits labels as provisioned a value that a
  removed recipient could open, in this bundle or in an older one.

`QuorumProofs` holds for any people, maintainers, operators, namespaces, policies and
other commands, and whatever stops. It rests on the assumptions named in `QuorumGate`:
recipients are finitely many (a quorum is counted), maintainers are people, a policy's
operators are recipients, and every namespace is one that the manifest lists. What number
a policy asks for is not assumed; `validatePolicy` is what makes it sensible. One
inductive invariant, `TypeInv /\ GateInv`, carries everything:

- `TypeCorrect`: the types with `WellFormed`, which says what the locals are good for at
  each step: a command between `LoadMeta` and `Collect` has a policy whose quorum its
  operators can reach, and one that goes to commit has checked its meta.json (`Checked`)
  and counted enough signers, or is not gated.
- `AdditionsAreVouchedFor`: `Spec => []QuorumHolds`. `SigInv` (a signature file was
  written by the operator it is named after) gives `VouchedInv` at `Collect`, and
  `GrantInv` keeps the evidence of every addition: `ApplyAdd` may come long after the
  directory, the policy and the bundle have changed. That enough signers are enough
  people who vouch is a fact about finite cardinality (`OperatorsAreFinite`,
  `EvidenceIsAQuorum`).
- `EventsAreTrue`: `Spec => []EventsNameSigners`, from `VouchedInv` at `Record`.

`QuorumSerialProofs` adds what needs people to stay out of each other's way.

- `SignaturesAreSpentOnce`: `OneCommandPerIdentity => (Spec => []SpentOnce)`. A nonce names
  one meta.json (`NonceInv`); signatures name the verifier who prepared, and only that
  identity can count them (`VerifierInv`); and the hash a call has compared is newer than
  every one its identity has spent on the namespace (`SpentInv`), because an addition
  replaces the contents it was signed for and hashes only move on (`ShaGrows`). The
  premise is needed: TLC finds two terminals of one person spending a set twice.
- `AnnouncedCanBeSigned`: `OneMaintainer => (Spec => []ChallengesMatchMeta)`. While
  challenges are written there is no meta.json (`AnnounceInv`), so that what `SaveMeta`
  announces is what has been written. With a second maintainer, TLC finds the overlap.

`PeerProofs` holds for any leaders, processes, names, commands and any number of them,
and whatever is unreachable or cut off.

- `TypeCorrect`: the types together with `WellFormed`, which says what the locals hold at
  each step (a contact has a name, a transfer two ends, a push only shared files).
- `PushesSparePrivateFiles`: `Spec => PrivateFilesStay`, from the same invariant: only
  a join has a private file in flight, and a join copies to its own leader.
- `AcceptedBundlesWereCommitted`: `Spec => []ReadableIsCommitted`. The bundles need no
  invariant at all. Every entry, at a leader or in flight between two, states the version
  at which its hash was committed (`EntryInv`), and a commit never touches what an older
  one recorded, because numbers are fresh (`NumberInv`).
- `PushesFollowCommits`: `Spec => []FailedCommandsDoNotPush`, from the part of
  `NumberInv` that ties the step of a command to what it has committed (`Accounted`).

- `VerdictsAreOfTheLastContact`: `Spec => []DoctorTellsLastContact`. `HealthInv` says more
  than the property, and has to: of every name, listed or not, because a list may get
  the name back. It survives the read and the write of `mutateState` being two steps, since
  a write over a newer file is just what `clobbered` observes, and a join, which counts
  as one.
- `PushesMirror`: `Spec => []UndisturbedPushMirrors`. Of an undisturbed push, what it has done
  with is the same at both ends, and the file in flight is what its leader still has
  (`MirrorInv`). Nothing is assumed of the peer before: this is the repair of whatever
  an earlier push has left.
- `StoresAreKept`: `JoinsAlone => (Spec => StoresStay)`. rsync with `--delete` would make a peer
  as empty as the leader that pushes. The invariant (`StandInv`) is that a leader that
  pushes has a store: dispatch pushes only after a command that has found one, and what a
  push has in flight in the place of a manifest is one. Only a join may have none to copy.
  `JoinsAlone` (commands are run one after the other where somebody joins) is needed, since
  a join with `--replace` may otherwise take the store from under a push of its own leader.

Again most steps are quiet (`Quiet`, `QuietStep`): they make no number, commit nothing and
bring entries from nowhere but another leader. The last three theorems have relations of
their own for the steps that matter to them (`HealthStep`, `PushSteps`, `ManifestStep`).

`WebProofs` holds for any number of requests at a time, processes, stores and rotations.
`UIInv` is one inductive invariant in four parts: the catalog's, the session's, the
types, and per handler what its request has shown on the way to where it is.

- `RequestsAreEntitled`: `Spec => EffectsAreAuthorised`. `EntitledInv` carries what the
  guards and the session have established from the step that established it to the step
  that has the effect; it is stable because tokens only grow (`Kept`).
- `LoginsEarnSessions`, `WritesHitAnActiveStore`: from `EntitledInv` and `SeenInv`.
- `OperatorSeesTheToken`, `ActivityIsNoticed`: the session's part, which no request
  disturbs.
- `CreationsAreHarmless`: `Spec => CreateKeepsNamespaces`, for any number of creations of
  the same store.
- `SelectionsAreUsable`: `Spec => ActiveIsUsable`. `Select` looks at the store it makes active,
  but a creation does not: `BuiltInv` has to say that a creation that comes to its end
  has passed directories that are all there, and a manifest, whoever made them. That
  directories are not below themselves (`TreeAssumption`) is what makes it come to its end
  with no directory left out.
- `TypeCorrect`.

Only model-checked: liveness (`LockIsReleased`, `CallsReturn`, `OnlyPeersAreAwaited`,
`IdleSessionsEnd`), which is beyond the prover, and the five disagreements, each of which
is a counterexample. TLC shows both on small instances.

## What is not here

- Of peers: what list and status print, the parsing of targets, several namespaces, and
  an rsync that skips a file of the same size and time. Of the web UI: pages, shutdown,
  the expiry of cookies in the browser. Of the catalog: symbolic links, how a command
  line selects its store, and the listing of stores, which changes nothing. What List finds
  is not quite what catalog.go:78 says ("discovers manifest-bearing managed stores"): the
  walk answers a store's manifest with SkipDir, and so skips what is left of that directory
  in lexical order. A store `team/web` is not found any more once `team` is a store, because
  `thimble.json` sorts before `web`.
- age, rsync and ssh are other programs. age appears as what it does to a bundle:
  something only the listed recipients can open, a failure or a timeout.
- dotenv, thumbprints, passphrases, formatting, the parsing of command lines and all but one
  of the doctor's checks are sequential functions of their inputs, with no state between
  calls.
- Power failure: renames are not followed by fsync; which of them a file system keeps is
  not in the code. `Crash` is the death of a process.
- Times: stamps in manifest and log are not modelled, and no property depends on a
  clock.
- Windows: `lock_windows.go` has the contract of `lock_unix.go`.
