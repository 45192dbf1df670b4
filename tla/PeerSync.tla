------------------------------ MODULE PeerSync ------------------------------
(***************************************************************************)
(* Replication between leaders: internal/peer, the `thimble peer` commands *)
(* and the push that follows every mutating command (cli.go, dispatch).    *)
(*                                                                         *)
(* A leader is a store directory.  Its files, as far as replication tells  *)
(* them apart: the manifest, the bundle of one namespace, the audit log,   *)
(* the file that is locked, the peers list and the health file.  A process *)
(* is one command line run at its leader.  rsync replaces a file by        *)
(* rename, one file after the other, and takes no lock at either end:      *)
(* between reading a file at one end and putting it in place at the other  *)
(* everybody else may step.  The lock file is replaced like the others,    *)
(* under the process that has locked it.                                   *)
(*                                                                         *)
(* Covered: unreachable peers, transfers cut off at any file by a timeout  *)
(* or a lost connection, pushes in opposite directions, pushes into a      *)
(* store whose own commands run, a commit that fails and is rolled back.   *)
(* Left out: what a commit does to several namespaces and to the origins   *)
(* file (module Store), faults of the local disk other than the manifest's *)
(* write, a rsync that skips a changed file of equal size and time, and a  *)
(* process that has opened a lock file, waits for it, and gets it after it *)
(* has been replaced: here opening and locking are one step.               *)
(***************************************************************************)
EXTENDS Naturals, FiniteSets

CONSTANTS Leader,       \* store directories
          Proc,         \* command lines
          Home,         \* process -> the leader it works on
          Name,         \* names of peers
          Commands,     \* process -> what is typed
          MaxCommands,  \* how many of them: the bound of every counter
          Older,        \* commits made before, somewhere
          Starts,       \* leader -> how many of them it has, at the start
          Lists,        \* the peers lists each leader may have at the start
          WritesFail,   \* whether the write of the manifest may fail
          Nil           \* nobody, nothing

\* Commits of before the start come first in the numbering of the commands: the
\* n-th of them wrote the n-th version.
CommandNo == 1..Older + MaxCommands
NoNumber  == 0

\* "list" is `recipient list`, which the dispatcher takes for a mutation.
\* opt: of a set or list, without --no-peer-push; of a join, with --replace.
\* name: the peer to ping (Nil: all), add or remove; target: of an add or join.
CommandType ==
    [kind: {"set", "list", "ping", "add", "remove", "join"}, opt: BOOLEAN,
     name: Name \union {Nil}, target: Leader \union {Nil}]

PeersList == [Name -> Leader \union {Nil}]

\* The files that pushes carry, and those that a join brings as well.
Shared == {"manifest", "bundle", "audit", "lockFile"}
File   == Shared \union {"peers", "health"}

ASSUME PlaceAssumption == Home \in [Proc -> Leader] /\ Starts \subseteq [Leader -> 0..Older]
ASSUME CommandAssumption ==
    /\ Commands \in [Proc -> SUBSET CommandType]
    /\ \A p \in Proc : \A c \in Commands[p] :
          /\ c.kind \in {"add", "join"} => c.target \in Leader
          /\ c.kind \in {"add", "remove"} => c.name \in Name
ASSUME BoundAssumption == Older \in Nat /\ MaxCommands \in Nat /\ WritesFail \in BOOLEAN
ASSUME ListsAssumption == Lists \in [Leader -> SUBSET PeersList]
ASSUME NilAssumption   == Nil \notin Leader \union Name \union Proc \union CommandType \union File

VARIABLES
    manifest,   \* leader -> version and bundle hash of the namespace's entry
    bundle,     \* leader -> number of the command that encrypted the bundle
    audit,      \* leader -> the commands with an event in the audit log
    peers,      \* leader -> thimble.peers.toml
    health,     \* leader -> .peer-state.json
    lockFile,   \* leader -> the leader whose .thimble.lock it was at first
    lock,       \* leader -> the process holding the flock of that file
    pc,         \* what each process does next
    local,      \* the local variables of each process's command
    begun,      \* number of the last command
    \* Observations, read by properties only.
    committed,  \* command -> the version it committed (0: none), and where
    contact,    \* leader, name -> the last contact recorded: whom with, and how it went
    clobbered,  \* leader -> a newer health file was replaced by an older one
    calm        \* process -> nobody disturbed the rsync it is running

tree == <<manifest, bundle, audit, peers, health, lockFile>>
observed == <<committed, contact, clobbered>>
vars == <<tree, lock, pc, local, begun, observed, calm>>

-----------------------------------------------------------------------------
(* State *)

\* No entry: the manifest is not there; the one namespace is all it has.
Entry   == [version: Nat, sha: CommandNo \union {NoNumber}]
NoEntry == [version |-> 0, sha |-> NoNumber]

\* LastSeen is a time or zero, LastError a text or empty.
Health   == [seen: BOOLEAN, failed: BOOLEAN, versions: Nat]
NoHealth == [seen |-> FALSE, failed |-> FALSE, versions |-> 0]

NoPeers == [n \in Name |-> Nil]
Listed(list) == {n \in Name : list[n] # Nil}

\* One file as it was read at the sending end, the others at their default.
Image == [manifest: Entry, bundle: CommandNo \union {NoNumber},
          audit: SUBSET CommandNo, peers: PeersList, health: [Name -> Health],
          lockFile: Leader \union {Nil}]
NoImage == [manifest |-> NoEntry, bundle |-> NoNumber, audit |-> {},
            peers |-> NoPeers, health |-> [n \in Name |-> NoHealth], lockFile |-> Nil]

Step == {"idle", "hash", "lock", "saveBundle", "saveManifest", "undo", "audit",
         "push", "next", "rsync", "ssh", "loadState", "saveState", "savePeers",
         "auditPeers", "join"}

\* meta, saved: the loaded entry, the snapshot for the rollback; list, todo: the
\* peers list loaded, the peers still to contact; name: the one contacted now;
\* from, to, files: the rsync that runs and what it has still to look at; file,
\* image: the file in flight; ok, versions: how the contact went; state: the
\* health file as mutateState has read it.
Local == [cmd: CommandType \union {Nil}, no: CommandNo \union {NoNumber},
          meta: Entry, saved: CommandNo \union {NoNumber}, list: PeersList,
          todo: SUBSET Name, name: Name \union {Nil},
          from: Leader \union {Nil}, to: Leader \union {Nil},
          files: SUBSET File, file: File \union {Nil}, image: Image,
          ok: BOOLEAN, versions: Nat, state: [Name -> Health]]

NoLocal == [cmd |-> Nil, no |-> NoNumber, meta |-> NoEntry, saved |-> NoNumber,
            list |-> NoPeers, todo |-> {}, name |-> Nil, from |-> Nil, to |-> Nil,
            files |-> {}, file |-> Nil, image |-> NoImage, ok |-> FALSE,
            versions |-> 0, state |-> [n \in Name |-> NoHealth]]

Init ==
    /\ bundle \in Starts
    /\ manifest = [l \in Leader |-> [version |-> bundle[l], sha |-> bundle[l]]]
    /\ audit = [l \in Leader |-> 1..bundle[l]]
    /\ peers \in [Leader -> UNION {Lists[l] : l \in Leader}]
    /\ \A l \in Leader : peers[l] \in Lists[l]
    /\ health = [l \in Leader |-> [n \in Name |-> NoHealth]]
    /\ lockFile = [l \in Leader |-> l]
    /\ lock = [l \in Leader |-> Nil]
    /\ pc = [p \in Proc |-> "idle"]
    /\ local = [p \in Proc |-> NoLocal]
    /\ begun = Older
    /\ committed = [n \in CommandNo |->
                       [version |-> IF n <= Older THEN n ELSE 0, at |-> Nil]]
    /\ contact = [l \in Leader |-> [n \in Name |-> [with |-> Nil, ok |-> FALSE]]]
    /\ clobbered = [l \in Leader |-> FALSE]
    /\ calm = [p \in Proc |-> FALSE]

-----------------------------------------------------------------------------
(* Control *)

Here(p) == Home[p]
Cmd(p)  == local[p].cmd
Goto(p, step) == pc' = [pc EXCEPT ![p] = step]

\* The flock goes with the file that was locked, which need not be the one that
\* is there now.
Unlock(p) == lock' = [lock EXCEPT ![Here(p)] = IF @ = p THEN Nil ELSE @]

\* The command line ends, with or without an error; its locals are gone.
Return(p) ==
    /\ Goto(p, "idle")
    /\ local' = [local EXCEPT ![p] = NoLocal]

Begin(p, step, l) ==
    /\ Goto(p, step)
    /\ local' = [local EXCEPT ![p] = l]

\* The locals of command c, the next to be made.
Fresh(c) == [NoLocal EXCEPT !.cmd = c, !.no = begun + 1]

-----------------------------------------------------------------------------
(* A mutating command, as the store of one namespace; see module Store *)

Exists(l) == manifest[l].version # 0

\* The entry is read under LOCK_SH, which is dropped again.
LoadEntry(p, c) ==
    /\ c.kind = "set"
    /\ lock[Here(p)] = Nil
    /\ IF Exists(Here(p))
       THEN Begin(p, "hash", [Fresh(c) EXCEPT !.meta = manifest[Here(p)]])
       ELSE UNCHANGED <<pc, local>>
    /\ UNCHANGED <<tree, lock, observed>>

\* A bundle that is not the one the entry vouches for is not decrypted.
Hash(p) ==
    /\ pc[p] = "hash"
    /\ IF bundle[Here(p)] # NoNumber /\ bundle[Here(p)] = local[p].meta.sha
       THEN Goto(p, "lock") /\ UNCHANGED local
       ELSE Return(p)
    /\ UNCHANGED <<tree, lock, observed>>

\* LOCK_EX, reload, compare versions, keep the old bundle for the rollback.
Lock(p) ==
    /\ pc[p] = "lock"
    /\ lock[Here(p)] = Nil
    /\ IF Exists(Here(p)) => manifest[Here(p)].version = local[p].meta.version
       THEN /\ lock' = [lock EXCEPT ![Here(p)] = p]
            /\ Goto(p, "saveBundle")
            /\ local' = [local EXCEPT ![p].saved = bundle[Here(p)]]
       ELSE Return(p) /\ UNCHANGED lock
    /\ UNCHANGED <<tree, observed>>

SaveBundle(p) ==
    /\ pc[p] = "saveBundle"
    /\ bundle' = [bundle EXCEPT ![Here(p)] = local[p].no]
    /\ Goto(p, "saveManifest")
    /\ UNCHANGED <<manifest, audit, peers, health, lockFile, lock, local, observed>>

\* Mutant: the flock is kept for the rest of the command.
SaveManifestKeepsLock(p) ==
    /\ pc[p] = "saveManifest"
    /\ manifest' = [manifest EXCEPT ![Here(p)] =
                       [version |-> local[p].meta.version + 1, sha |-> local[p].no]]
    /\ committed' = [committed EXCEPT ![local[p].no] =
                        [version |-> local[p].meta.version + 1, at |-> Here(p)]]
    /\ Goto(p, "audit")
    /\ UNCHANGED <<bundle, audit, peers, health, lockFile, lock, local, contact, clobbered>>

\* Mutant: the hash is taken from the file and not from what was written to it.
SaveManifestOfFile(p) ==
    /\ pc[p] = "saveManifest"
    /\ manifest' = [manifest EXCEPT ![Here(p)] =
                       [version |-> local[p].meta.version + 1, sha |-> bundle[Here(p)]]]
    /\ committed' = [committed EXCEPT ![local[p].no] =
                        [version |-> local[p].meta.version + 1, at |-> Here(p)]]
    /\ Unlock(p)
    /\ Goto(p, "audit")
    /\ UNCHANGED <<bundle, audit, peers, health, lockFile, local, contact, clobbered>>

\* The entry vouches for the bytes that were encrypted, whatever the file holds.
SaveManifest(p) ==
    /\ pc[p] = "saveManifest"
    /\ manifest' = [manifest EXCEPT ![Here(p)] =
                       [version |-> local[p].meta.version + 1, sha |-> local[p].no]]
    /\ committed' = [committed EXCEPT ![local[p].no] =
                        [version |-> local[p].meta.version + 1, at |-> Here(p)]]
    /\ Unlock(p)
    /\ Goto(p, "audit")
    /\ UNCHANGED <<bundle, audit, peers, health, lockFile, local, contact, clobbered>>

SaveManifestFails(p) ==
    /\ pc[p] = "saveManifest"
    /\ WritesFail
    /\ Goto(p, "undo")
    /\ UNCHANGED <<tree, lock, local, observed>>

\* Mutant: the error of the command does not keep the dispatcher from pushing.
UndoAndPush(p) ==
    /\ pc[p] = "undo"
    /\ bundle' = [bundle EXCEPT ![Here(p)] = local[p].saved]
    /\ Unlock(p)
    /\ Goto(p, "push")
    /\ UNCHANGED <<manifest, audit, peers, health, lockFile, local, observed>>

\* rollbackBundle, and dispatch returns the error before it comes to the push.
Undo(p) ==
    /\ pc[p] = "undo"
    /\ bundle' = [bundle EXCEPT ![Here(p)] = local[p].saved]
    /\ Unlock(p)
    /\ Return(p)
    /\ UNCHANGED <<manifest, audit, peers, health, lockFile, observed>>

RecordEvent(p) ==
    /\ pc[p] = "audit"
    /\ audit' = [audit EXCEPT ![Here(p)] = @ \union {local[p].no}]
    /\ Goto(p, "push")
    /\ UNCHANGED <<manifest, bundle, peers, health, lockFile, lock, local, observed>>

\* Mutant: a namespace that is not there has no recipients, which is no error.
RecipientListOfNone(p, c) ==
    /\ c.kind = "list"
    /\ lock[Here(p)] = Nil
    /\ Begin(p, "push", Fresh(c))
    /\ UNCHANGED <<tree, lock, observed>>

\* `recipient list` changes nothing, and is followed by a push all the same.
RecipientList(p, c) ==
    /\ c.kind = "list"
    /\ lock[Here(p)] = Nil
    /\ IF Exists(Here(p)) THEN Begin(p, "push", Fresh(c)) ELSE UNCHANGED <<pc, local>>
    /\ UNCHANGED <<tree, lock, observed>>

-----------------------------------------------------------------------------
(* Pushing and pinging: peer after peer, from a list loaded once *)

\* maybePushPeers, after the command has succeeded and let go of the flock.
MaybePushPeers(p) ==
    /\ pc[p] = "push"
    /\ IF Cmd(p).opt /\ Listed(peers[Here(p)]) # {}
       THEN Begin(p, "next", [local[p] EXCEPT !.list = peers[Here(p)],
                                              !.todo = Listed(peers[Here(p)])])
       ELSE Return(p)
    /\ UNCHANGED <<tree, lock, observed>>

\* selectPingPeers: all peers, or the one named, which must be listed.
PeerPing(p, c) ==
    /\ c.kind = "ping"
    /\ LET list == peers[Here(p)]
           todo == IF c.name = Nil THEN Listed(list) ELSE Listed(list) \intersect {c.name}
       IN  IF todo # {}
           THEN Begin(p, "next", [Fresh(c) EXCEPT !.list = list, !.todo = todo])
           ELSE UNCHANGED <<pc, local>>
    /\ UNCHANGED <<tree, lock, observed>>

\* Mutant: a push copies what a join copies.
AllFiles == File

\* pushOnePeer excludes the two files that belong to one leader.
PushedFiles == Shared

\* The next turn of the loop of PushChanges or pingSelected.
NextPeer(p) ==
    /\ pc[p] = "next"
    /\ \/ /\ local[p].todo = {}
          /\ Return(p)
       \/ \E n \in local[p].todo :
             IF Cmd(p).kind = "ping"
             THEN Begin(p, "ssh", [local[p] EXCEPT !.todo = @ \ {n}, !.name = n,
                                                   !.to = local[p].list[n]])
             ELSE Begin(p, "rsync", [local[p] EXCEPT !.todo = @ \ {n}, !.name = n,
                                                     !.from = Here(p),
                                                     !.to = local[p].list[n],
                                                     !.files = PushedFiles])
    /\ UNCHANGED <<tree, lock, observed>>

-----------------------------------------------------------------------------
(* rsync -av --delete *)

Same(f, l, m) ==
    CASE f = "manifest" -> manifest[l] = manifest[m]
      [] f = "bundle"   -> bundle[l] = bundle[m]
      [] f = "audit"    -> audit[l] = audit[m]
      [] f = "peers"    -> peers[l] = peers[m]
      [] f = "health"   -> health[l] = health[m]
      [] f = "lockFile" -> lockFile[l] = lockFile[m]

Read(f, l) ==
    CASE f = "manifest" -> [NoImage EXCEPT !.manifest = manifest[l]]
      [] f = "bundle"   -> [NoImage EXCEPT !.bundle = bundle[l]]
      [] f = "audit"    -> [NoImage EXCEPT !.audit = audit[l]]
      [] f = "peers"    -> [NoImage EXCEPT !.peers = peers[l]]
      [] f = "health"   -> [NoImage EXCEPT !.health = health[l]]
      [] f = "lockFile" -> [NoImage EXCEPT !.lockFile = lockFile[l]]

Copying(p) == pc[p] \in {"rsync", "join"}

\* Mutant: what the receiving end has is left as it is (--ignore-existing).
IgnoreExisting(f, l, m) == Same(f, l, m) \/ (f = "bundle" /\ bundle[m] # NoNumber)

\* What rsync does not transfer: files that are the same at both ends.  The lock
\* file is empty everywhere: it differs by the time at which it was created.
UpToDate(f, l, m) == Same(f, l, m)

\* A file that differs is read and sent.  A missing one is read as its default,
\* which is what --delete makes of the copy.  The order of files is left open.
Send(p) ==
    /\ Copying(p)
    /\ local[p].file = Nil
    /\ \E f \in local[p].files :
          local' = [local EXCEPT ![p] =
                       IF UpToDate(f, local[p].from, local[p].to)
                       THEN [local[p] EXCEPT !.files = @ \ {f}]
                       ELSE [local[p] EXCEPT !.file = f,
                                             !.image = Read(f, local[p].from)]]
    /\ UNCHANGED <<tree, lock, pc, observed>>

\* The file that has arrived replaces the one at the receiving end.  Whoever has
\* locked the old lock file excludes nobody who opens the new one.
Install(p) ==
    /\ Copying(p)
    /\ local[p].file # Nil
    /\ LET to == local[p].to
           f  == local[p].file
           i  == local[p].image
       IN  /\ manifest' = IF f = "manifest" THEN [manifest EXCEPT ![to] = i.manifest]
                          ELSE manifest
           /\ bundle' = IF f = "bundle" THEN [bundle EXCEPT ![to] = i.bundle] ELSE bundle
           /\ audit' = IF f = "audit" THEN [audit EXCEPT ![to] = i.audit] ELSE audit
           /\ peers' = IF f = "peers" THEN [peers EXCEPT ![to] = i.peers] ELSE peers
           /\ health' = IF f = "health" THEN [health EXCEPT ![to] = i.health] ELSE health
           /\ lockFile' = IF f = "lockFile" THEN [lockFile EXCEPT ![to] = i.lockFile]
                          ELSE lockFile
           /\ lock' = IF f = "lockFile" THEN [lock EXCEPT ![to] = Nil] ELSE lock
           /\ clobbered' = IF f = "health" THEN [clobbered EXCEPT ![to] = TRUE]
                           ELSE clobbered
           /\ local' = [local EXCEPT ![p].files = @ \ {f}, ![p].file = Nil,
                                     ![p].image = NoImage]
    /\ UNCHANGED <<pc, committed, contact>>

\* The contact with the current peer is over; its outcome is to be recorded.
Contacted(p, ok, versions) ==
    /\ Begin(p, "loadState", [local[p] EXCEPT !.ok = ok, !.versions = versions,
                                              !.from = Nil, !.files = {},
                                              !.file = Nil, !.image = NoImage])
    /\ UNCHANGED <<tree, lock, observed>>

\* rsync has looked at every file and exits with 0.
RsyncExits(p) ==
    /\ Copying(p)
    /\ local[p].files = {}
    /\ IF pc[p] = "rsync" THEN Contacted(p, TRUE, 0)
       ELSE Return(p) /\ UNCHANGED <<tree, lock, observed>>

\* The peer is not reached, the connection is lost, or the deadline of the push
\* kills rsync: what has been copied stays.
PushFails(p) ==
    /\ pc[p] = "rsync"
    /\ Contacted(p, FALSE, 0)

\* The same of a join, which ends the command.
JoinFails(p) ==
    /\ pc[p] = "join"
    /\ Return(p)
    /\ UNCHANGED <<tree, lock, observed>>

\* ssh true, then one rsync that fetches the manifest.
Ping(p) ==
    /\ pc[p] = "ssh"
    /\ Exists(local[p].to)
    /\ Contacted(p, TRUE, manifest[local[p].to].version)

PingFails(p) ==
    /\ pc[p] = "ssh"
    /\ Contacted(p, FALSE, 0)

-----------------------------------------------------------------------------
(* The health file *)

\* mutateState reads the file; the mutex around it is one of the process.
LoadState(p) ==
    /\ pc[p] = "loadState"
    /\ Begin(p, "saveState", [local[p] EXCEPT !.state = health[Here(p)]])
    /\ UNCHANGED <<tree, lock, observed>>

\* Mutant: a success does not clear the error of the failure before it.
KeepError(p, h) ==
    IF local[p].ok THEN [h EXCEPT !.seen = TRUE] ELSE [h EXCEPT !.failed = TRUE]

\* RecordPushSuccess keeps the versions, RecordPingResult replaces everything,
\* RecordPushFailure notes the error and keeps the rest.
Recorded(p, h) ==
    IF ~local[p].ok THEN [h EXCEPT !.failed = TRUE]
    ELSE IF Cmd(p).kind = "ping"
         THEN [seen |-> TRUE, failed |-> FALSE, versions |-> local[p].versions]
         ELSE [h EXCEPT !.seen = TRUE, !.failed = FALSE]

\* Mutant: the outcome is kept under the peer's target and not under its name.
SaveStateByTarget(p) ==
    /\ pc[p] = "saveState"
    /\ LET to == local[p].to
       IN  /\ health' = [health EXCEPT ![Here(p)] =
                            [n \in Name \union {to} |->
                                IF n = to THEN Recorded(p, NoHealth)
                                ELSE local[p].state[n]]]
           /\ contact' = [contact EXCEPT ![Here(p)][local[p].name] =
                             [with |-> to, ok |-> local[p].ok]]
    /\ Begin(p, "next", [local[p] EXCEPT !.name = Nil, !.to = Nil, !.ok = FALSE,
                                         !.versions = 0,
                                         !.state = NoLocal.state])
    /\ UNCHANGED <<manifest, bundle, audit, peers, lockFile, lock, committed, clobbered>>

SaveState(p) ==
    /\ pc[p] = "saveState"
    /\ LET n == local[p].name
       IN  /\ health' = [health EXCEPT ![Here(p)] =
                            [local[p].state EXCEPT ![n] = Recorded(p, @)]]
           /\ contact' = [contact EXCEPT ![Here(p)][n] =
                             [with |-> local[p].to, ok |-> local[p].ok]]
    /\ clobbered' = [clobbered EXCEPT ![Here(p)] = @ \/ health[Here(p)] # local[p].state]
    /\ Begin(p, "next", [local[p] EXCEPT !.name = Nil, !.to = Nil, !.ok = FALSE,
                                         !.versions = 0,
                                         !.state = NoLocal.state])
    /\ UNCHANGED <<manifest, bundle, audit, peers, lockFile, lock, committed>>

\* doctor's classifyPeer; "warn", a last contact of more than an hour ago, is
\* part of "ok" here.
Verdict(l, n) ==
    IF health[l][n].seen /\ ~health[l][n].failed THEN "ok" ELSE "fail"

-----------------------------------------------------------------------------
(* The peers list *)

\* peer add refuses a name that is listed, peer remove one that is not.
LoadPeers(p, c) ==
    /\ c.kind \in {"add", "remove"}
    /\ LET list == peers[Here(p)]
           to   == IF c.kind = "add" THEN c.target ELSE Nil
       IN  IF (list[c.name] = Nil) = (c.kind = "add")
           THEN Begin(p, "savePeers", [Fresh(c) EXCEPT !.list = [list EXCEPT ![c.name] = to]])
           ELSE UNCHANGED <<pc, local>>
    /\ UNCHANGED <<tree, lock, observed>>

SavePeers(p) ==
    /\ pc[p] = "savePeers"
    /\ peers' = [peers EXCEPT ![Here(p)] = local[p].list]
    /\ Goto(p, "auditPeers")
    /\ UNCHANGED <<manifest, bundle, audit, health, lockFile, lock, local, observed>>

RecordPeerAudit(p) ==
    /\ pc[p] = "auditPeers"
    /\ audit' = [audit EXCEPT ![Here(p)] = @ \union {local[p].no}]
    /\ Return(p)
    /\ UNCHANGED <<manifest, bundle, peers, health, lockFile, lock, observed>>

\* refuseIfStorePopulated: a manifest of more than two bytes, or any bundle.
IsPopulated(l) == Exists(l) \/ bundle[l] # NoNumber

\* peer join: the target's whole directory, the two private files included.
PeerJoin(p, c) ==
    /\ c.kind = "join"
    /\ IF c.opt \/ ~IsPopulated(Here(p))
       THEN Begin(p, "join", [Fresh(c) EXCEPT !.from = c.target, !.to = Here(p),
                                              !.files = File])
       ELSE UNCHANGED <<pc, local>>
    /\ UNCHANGED <<tree, lock, observed>>

-----------------------------------------------------------------------------
Start(p) ==
    /\ pc[p] = "idle"
    /\ begun < Older + MaxCommands
    /\ begun' = begun + 1
    /\ \E c \in Commands[p] :
          \/ LoadEntry(p, c) \/ RecipientList(p, c)
          \/ PeerPing(p, c) \/ LoadPeers(p, c) \/ PeerJoin(p, c)

\* What a process does by itself.  The deadline of a join is part of it: it kills
\* rsync, whose output is a file of the command's own (cmd.Run).
Proceed(p) ==
    /\ \/ Hash(p) \/ SaveBundle(p) \/ SaveManifest(p) \/ SaveManifestFails(p)
       \/ Undo(p) \/ RecordEvent(p) \/ MaybePushPeers(p) \/ NextPeer(p)
       \/ JoinFails(p) \/ LoadState(p) \/ SaveState(p)
       \/ SavePeers(p) \/ RecordPeerAudit(p)
    /\ UNCHANGED begun

\* What takes the peer, or the ssh that talks to it.  The deadline of a push or a
\* ping is no help: it kills rsync, but CombinedOutput returns only when nobody
\* holds the pipe of its output, and the ssh that rsync has started still may.
Transfer(p) ==
    /\ \/ Send(p) \/ Install(p) \/ RsyncExits(p) \/ PushFails(p)
       \/ Ping(p) \/ PingFails(p)
    /\ UNCHANGED begun

Acquire(p) == Lock(p) /\ UNCHANGED begun

SharedChanged(l) ==
    <<manifest[l], bundle[l], audit[l], lockFile[l]>>
        # <<manifest[l], bundle[l], audit[l], lockFile[l]>>'

\* Observed of every step, made by p: an rsync begins undisturbed, and remains so
\* until somebody else changes a file it has to copy at one of its ends.
Watch(p) ==
    calm' = [q \in Proc |->
                /\ pc'[q] = "rsync"
                /\ \/ pc[q] # "rsync"
                   \/ calm[q] /\ q = p
                   \/ calm[q] /\ ~SharedChanged(local[q].from) /\ ~SharedChanged(local[q].to)]

\* The bound is reached and every command has returned.
AllDone == begun = Older + MaxCommands /\ \A p \in Proc : pc[p] = "idle"

Next ==
    \/ \E p \in Proc :
          /\ \/ Start(p) \/ Proceed(p) \/ Transfer(p) \/ Acquire(p)
          /\ Watch(p)
    \/ AllDone /\ UNCHANGED vars

Spec == Init /\ [][Next]_vars

\* A running process keeps running, and the deadline of a join fires; nothing is
\* expected of peers, or of pushes and pings to them.  A process waits for others
\* in Acquire only, where flock wakes it.
Fairness == \A p \in Proc : SF_vars((Proceed(p) \/ Acquire(p)) /\ Watch(p))

FairSpec == Spec /\ Fairness
=============================================================================
