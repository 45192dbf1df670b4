--------------------------- MODULE PeerProperties ---------------------------
(***************************************************************************)
(* What replication between leaders keeps.                                 *)
(***************************************************************************)
EXTENDS PeerSync

\* Types of the files, the locals and the observations.
TypeOK ==
    /\ manifest \in [Leader -> Entry]
    /\ bundle \in [Leader -> CommandNo \union {NoNumber}]
    /\ audit \in [Leader -> SUBSET CommandNo]
    /\ peers \in [Leader -> PeersList]
    /\ health \in [Leader -> [Name -> Health]]
    /\ lockFile \in [Leader -> Leader \union {Nil}]
    /\ lock \in [Leader -> Proc \union {Nil}]
    /\ pc \in [Proc -> Step]
    /\ local \in [Proc -> Local]
    /\ begun \in CommandNo \union {NoNumber}
    /\ committed \in [CommandNo -> [version: Nat, at: Leader \union {Nil}]]
    /\ contact \in [Leader -> [Name -> [with: Leader \union {Nil}, ok: BOOLEAN]]]
    /\ clobbered \in [Leader -> BOOLEAN]
    /\ calm \in [Proc -> BOOLEAN]

\* However pushes and joins mix the files of two stores, and whenever they are
\* cut off: a bundle that passes the hash check at some leader is one that a
\* command committed, at the version the manifest states.  A bundle of a command
\* that was rolled back, which a push may have carried off, is never accepted.
ReadableIsCommitted ==
    \A l \in Leader :
        Exists(l) /\ manifest[l].sha = bundle[l]
            => /\ bundle[l] # NoNumber
               /\ committed[bundle[l]].version = manifest[l].version

\* A push that is not interfered with leaves the peer with the leader's manifest,
\* bundle and audit log, whatever an earlier one, cut off, left there (README:
\* "peers reconcile on the next push").
UndisturbedPushMirrors ==
    \A p \in Proc :
        pc[p] = "rsync" /\ local[p].files = {} /\ calm[p]
            => \A f \in Shared : Same(f, local[p].from, local[p].to)

\* The peers list and the health file of a leader are changed by commands run at
\* that leader only: nobody's push brings its own along (push.go:101-104).
PrivateFilesStay ==
    [][\A l \in Leader :
          <<peers[l], health[l]>> # <<peers[l], health[l]>>'
              => \E p \in Proc : Here(p) = l /\ <<pc[p], local[p]>> # <<pc[p], local[p]>>']_vars

\* A store goes away in a join run at its own leader only: rsync --delete makes
\* the copy as empty as the original, and no push, however its leader's store was
\* put together and is changed meanwhile, is of a store without a manifest.
StoresStay ==
    [][\A l \in Leader :
          Exists(l) /\ ~Exists(l)' => \E p \in Proc : Here(p) = l /\ pc[p] = "join"]_vars

\* doctor fails a peer exactly when the last contact recorded under its name was
\* not a success, provided no mutateState of another process wrote over a newer
\* file and the name has not been given to another target since.
DoctorTellsLastContact ==
    \A l \in Leader : \A n \in Listed(peers[l]) :
        ~clobbered[l] /\ contact[l][n].with \in {Nil, peers[l][n]}
            => (Verdict(l, n) = "fail" <=> ~contact[l][n].ok)

\* The command that pushes has committed, or is `recipient list`: what a failed
\* command has left in the store is not sent for its sake.
FailedCommandsDoNotPush ==
    \A p \in Proc :
        pc[p] = "rsync" /\ Cmd(p).kind = "set" => committed[local[p].no].version # 0

\* A peer that never answers holds up the command that pushes to it or pings it,
\* and nobody else: every other command ends, and no flock is held meanwhile.
\* (There are finitely many command lines: in the end none is begun any more.)
OnlyPeersAreAwaited ==
    <>[](/\ \A p \in Proc : pc[p] \in {"idle", "rsync", "ssh"}
         /\ \A l \in Leader : lock[l] = Nil)

-----------------------------------------------------------------------------
(* What the documentation says and the code does not keep                  *)

\* "Concurrent writes are detected, never silently dropped" (README.md:495): an
\* entry is replaced by one of a higher version.
EntriesGrow ==
    [][\A l \in Leader :
          manifest[l] # manifest[l]' => manifest[l].version < manifest[l]'.version]_vars
=============================================================================
