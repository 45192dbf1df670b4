--------------------------- MODULE PeerInvariant ---------------------------
(***************************************************************************)
(* The inductive invariant behind the theorems about PeerSync.             *)
(***************************************************************************)
EXTENDS PeerProperties

\* The steps of a process that has a peer in hand.
Contacting == {"rsync", "ssh", "loadState", "saveState"}

\* What the locals l of process p hold at a step: a command and its number, the
\* name of the peer in hand, the ends of a transfer, and a file in flight during a
\* transfer only.  A push carries shared files; a join copies to where it is run.
WellFormed(p, step, l) ==
    /\ l.todo \subseteq Listed(l.list)
    /\ step # "idle" => l.cmd \in CommandType /\ l.no \in CommandNo
    /\ step \in Contacting => l.name \in Name
    /\ step \in {"rsync", "ssh", "join"} => l.to \in Leader
    /\ step \in {"rsync", "join"} => l.from \in Leader
    /\ step \notin {"rsync", "join"} => l.file = Nil
    /\ step = "rsync" => l.files \subseteq Shared /\ l.file \in Shared \union {Nil}
    /\ step = "join" => l.to = Here(p)

ControlInv ==
    /\ pc \in [Proc -> Step]
    /\ local \in [Proc -> Local]
    /\ \A p \in Proc : WellFormed(p, pc[p], local[p])

StateType ==
    /\ manifest \in [Leader -> Entry]
    /\ bundle \in [Leader -> CommandNo \union {NoNumber}]
    /\ audit \in [Leader -> SUBSET CommandNo]
    /\ peers \in [Leader -> PeersList]
    /\ health \in [Leader -> [Name -> Health]]
    /\ lockFile \in [Leader -> Leader \union {Nil}]
    /\ lock \in [Leader -> Proc \union {Nil}]
    /\ committed \in [CommandNo -> [version: Nat, at: Leader \union {Nil}]]
    /\ contact \in [Leader -> [Name -> [with: Leader \union {Nil}, ok: BOOLEAN]]]
    /\ clobbered \in [Leader -> BOOLEAN]

CounterType ==
    /\ begun \in Older..Older + MaxCommands
    /\ calm \in [Proc -> BOOLEAN]

TypeInv == ControlInv /\ StateType /\ CounterType

\* A mutating command that has still to commit, and one that has.
Committing == {"hash", "lock", "saveBundle", "saveManifest"}
Succeeded  == {"audit", "push", "next"} \union Contacting

\* The entry e states the version that its bundle was committed at.
Vouched(e) ==
    e.version # 0 => e.sha \in CommandNo /\ committed[e.sha].version = e.version

\* How far the command of l has come, by its step, is what `committed` says.
Accounted(step, l) ==
    /\ step # "idle" => l.no <= begun
    /\ step \in Committing => committed[l.no].version = 0
    /\ step \in Succeeded /\ l.cmd.kind = "set" => committed[l.no].version # 0

\* Every number belongs to one command, and none to a command to come.
NumberInv ==
    /\ \A n \in CommandNo : n > begun => committed[n].version = 0
    /\ \A p \in Proc : Accounted(pc[p], local[p])
    /\ \A p, q \in Proc :
          p # q /\ pc[p] # "idle" /\ pc[q] # "idle" => local[p].no # local[q].no

\* At every leader, and on the way from one to another.
EntryInv ==
    /\ \A l \in Leader : Vouched(manifest[l])
    /\ \A p \in Proc : Vouched(local[p].image.manifest)

SyncInv == TypeInv /\ NumberInv /\ EntryInv

-----------------------------------------------------------------------------
(* Pushes that nobody disturbs, and the health file *)

\* What an undisturbed push has done with is the same at both ends, and what it
\* has in flight is what its leader has.
Mirrors(p) ==
    pc[p] = "rsync" /\ calm[p] =>
        /\ \A f \in Shared \ local[p].files : Same(f, local[p].from, local[p].to)
        /\ local[p].file # Nil =>
              /\ local[p].file \in local[p].files
              /\ local[p].image = Read(local[p].file, local[p].from)

MirrorInv == \A p \in Proc : Mirrors(p)

\* A health file nobody wrote over says of every name, listed or not, how the
\* last contact under it went.
HealthInv ==
    \A l \in Leader, n \in Name :
        ~clobbered[l] =>
            (health[l][n].seen /\ ~health[l][n].failed <=> contact[l][n].ok)

-----------------------------------------------------------------------------
(* Stores that stay *)

\* Commands are run one after the other at a leader where somebody joins.
JoinsAlone ==
    \A p, q \in Proc :
        Home[p] = Home[q] /\ (\E c \in Commands[p] : c.kind = "join") => p = q

\* The places of a command that has committed, or lists, and of its push.
Pushing == {"audit", "push", "next", "rsync", "loadState", "saveState"}

\* A leader that pushes has a store, and what it sends in the place of another
\* one's manifest is a manifest.  A join may bring nothing.
Stands(p) ==
    /\ pc[p] # "idle" => Cmd(p) \in Commands[p]
    /\ pc[p] = "ssh" => Cmd(p).kind = "ping"
    /\ pc[p] = "rsync" => Cmd(p).kind # "ping" /\ local[p].from = Here(p)
    /\ pc[p] \in Pushing /\ Cmd(p).kind # "ping" => Exists(Here(p))
    /\ pc[p] = "join" => Cmd(p).kind = "join"
    /\ local[p].file = "manifest" =>
          local[p].image.manifest.version # 0 \/ pc[p] = "join"

StandInv == \A p \in Proc : Stands(p)
=============================================================================
