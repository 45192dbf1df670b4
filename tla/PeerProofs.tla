----------------------------- MODULE PeerProofs -----------------------------
(***************************************************************************)
(* Theorems about PeerSync, for every set of leaders, processes, names and *)
(* commands, and any number of commands and of commits made before.        *)
(***************************************************************************)
EXTENDS PeerInvariant, TLAPS

USE PlaceAssumption, CommandAssumption, BoundAssumption, ListsAssumption,
    NilAssumption

LEMMA DefaultTypes ==
    /\ NoEntry \in Entry /\ NoPeers \in PeersList
    /\ NoLocal.state \in [Name -> Health]
    /\ NoImage \in Image
    /\ NoLocal \in Local
<1>1. NoEntry \in Entry /\ NoPeers \in PeersList /\ NoHealth \in Health
  BY DEF NoEntry, Entry, NoNumber, NoPeers, PeersList, NoHealth, Health
<1>2. [n \in Name |-> NoHealth] \in [Name -> Health]
  BY <1>1
<1>3. NoImage \in Image
  BY <1>1, <1>2 DEF NoImage, Image, NoNumber
<1>4. NoLocal \in Local
  BY <1>1, <1>2, <1>3 DEF NoLocal, Local, NoNumber
<1>5. NoLocal.state \in [Name -> Health]
  BY <1>2 DEF NoLocal
<1> QED  BY <1>1, <1>3, <1>4, <1>5

\* Nothing is expected of the locals of an idle process.
LEMMA IdleWellFormed == \A p \in Proc : WellFormed(p, "idle", NoLocal)
  BY DEF WellFormed, NoLocal, Contacting

-----------------------------------------------------------------------------
(* Types *)

LEMMA InitType == Init => TypeInv
<1> SUFFICES ASSUME Init PROVE TypeInv
  OBVIOUS
<1> USE DEF Init
<1>1. bundle \in [Leader -> 0..Older]
  BY DEF Init
<1>2. \A n \in 0..Older : n \in Nat /\ n \in CommandNo \union {NoNumber}
  BY DEF CommandNo, NoNumber
<1>3. manifest \in [Leader -> Entry] /\ bundle \in [Leader -> CommandNo \union {NoNumber}]
  BY <1>1, <1>2 DEF Entry
<1>4. audit \in [Leader -> SUBSET CommandNo]
  <2>1. \A n \in 0..Older : 1..n \subseteq CommandNo
    BY DEF CommandNo
  <2>2. QED  BY <1>1, <2>1
<1>5. peers \in [Leader -> PeersList]
  <2>1. \A l \in Leader : peers[l] \in PeersList
    OBVIOUS
  <2>2. QED  BY <2>1
<1>6. health \in [Leader -> [Name -> Health]]
  BY DEF NoHealth, Health
<1>7. committed \in [CommandNo -> [version: Nat, at: Leader \union {Nil}]]
  BY DEF CommandNo
<1>8. lockFile \in [Leader -> Leader \union {Nil}]
  OBVIOUS
<1>9. StateType
  BY <1>3, <1>4, <1>5, <1>6, <1>7, <1>8 DEF StateType
<1>10. ControlInv
  BY DefaultTypes, IdleWellFormed DEF ControlInv, Step
<1>11. CounterType
  BY DEF CounterType
<1> QED  BY <1>9, <1>10, <1>11 DEF TypeInv

\* A step that takes p to a place for which its new locals are good.
LEMMA ControlStep ==
    ASSUME ControlInv, NEW p \in Proc, NEW step \in Step, NEW new \in Local,
           pc' = [pc EXCEPT ![p] = step],
           local' = [local EXCEPT ![p] = new],
           WellFormed(p, step, new)
    PROVE  ControlInv'
<1>1. pc' \in [Proc -> Step] /\ local' \in [Proc -> Local]
  BY DEF ControlInv
<1>2. ASSUME NEW q \in Proc PROVE WellFormed(q, pc'[q], local'[q])
  <2>1. CASE q = p
    BY <2>1 DEF ControlInv
  <2>2. CASE q # p
    <3>1. pc'[q] = pc[q] /\ local'[q] = local[q]
      BY <2>2 DEF ControlInv
    <3>2. QED  BY <3>1 DEF ControlInv
  <2>3. QED  BY <2>1, <2>2
<1>3. QED  BY <1>1, <1>2 DEF ControlInv

\* One that keeps the locals as they are.
LEMMA GotoStep ==
    ASSUME ControlInv, NEW p \in Proc, NEW step \in Step,
           Goto(p, step), local' = local, WellFormed(p, step, local[p])
    PROVE  ControlInv'
<1>1. local' = [local EXCEPT ![p] = local[p]] /\ local[p] \in Local
  BY DEF ControlInv
<1>2. QED  BY <1>1, ControlStep DEF Goto

LEMMA BeginStep ==
    ASSUME ControlInv, NEW p \in Proc, NEW step \in Step, NEW new \in Local,
           Begin(p, step, new), WellFormed(p, step, new)
    PROVE  ControlInv'
  BY ControlStep DEF Begin, Goto

LEMMA ReturnStep ==
    ASSUME ControlInv, NEW p \in Proc, Return(p)
    PROVE  ControlInv'
<1>1. "idle" \in Step /\ NoLocal \in Local /\ WellFormed(p, "idle", NoLocal)
  BY DefaultTypes, IdleWellFormed DEF Step
<1>2. QED  BY <1>1, ControlStep DEF Return, Goto

\* What is known of a running process.
LEMMA Running ==
    ASSUME ControlInv, NEW p \in Proc
    PROVE  /\ Here(p) \in Leader
           /\ local[p] \in Local
           /\ WellFormed(p, pc[p], local[p])
  BY DEF ControlInv, Here

\* The locals of a command that begins.
LEMMA FreshType ==
    ASSUME begun \in Nat, begun < Older + MaxCommands, NEW c \in CommandType
    PROVE  /\ Fresh(c) \in Local
           /\ Fresh(c).cmd = c /\ Fresh(c).no = begun + 1
           /\ begun + 1 \in CommandNo
           /\ Fresh(c).todo = {} /\ Fresh(c).file = Nil
           /\ Fresh(c).image = NoImage
           /\ Fresh(c) = [NoLocal EXCEPT !.cmd = c, !.no = begun + 1]
<1>1. begun + 1 \in CommandNo
  BY DEF CommandNo
<1>2. QED  BY <1>1, DefaultTypes DEF Fresh, Local, NoLocal

-----------------------------------------------------------------------------
(* The steps of a command that mutates *)

LEMMA StateSame ==
    ASSUME StateType, UNCHANGED <<tree, lock, observed>>
    PROVE  StateType'
  BY DEF StateType, tree, observed

\* What a command that is typed is good for.
LEMMA CommandFields ==
    ASSUME NEW p \in Proc, NEW c \in Commands[p]
    PROVE  /\ c \in CommandType
           /\ c.kind \in {"add", "join"} => c.target \in Leader
           /\ c.kind \in {"add", "remove"} => c.name \in Name
  OBVIOUS

LEMMA UnlockType ==
    ASSUME StateType, NEW p \in Proc, Unlock(p)
    PROVE  lock' \in [Leader -> Proc \union {Nil}]
  BY DEF StateType, Unlock

LEMMA StartType ==
    ASSUME TypeInv, NEW p \in Proc, Start(p)
    PROVE  ControlInv' /\ StateType' /\ begun' \in Older..Older + MaxCommands
<1>1. PICK c \in Commands[p] :
          \/ LoadEntry(p, c) \/ RecipientList(p, c)
          \/ PeerPing(p, c) \/ LoadPeers(p, c) \/ PeerJoin(p, c)
  BY DEF Start
<1>2. begun' \in Older..Older + MaxCommands
  BY DEF Start, TypeInv, CounterType
<1>3. StateType'
  <2>1. UNCHANGED <<tree, lock, observed>>
    BY <1>1 DEF LoadEntry, RecipientList, PeerPing, LoadPeers, PeerJoin
  <2>2. QED  BY <2>1, StateSame DEF TypeInv
<1>4. ControlInv'
  <2> DEFINE l == Fresh(c)
  <2>1. /\ c \in CommandType
        /\ c.kind \in {"add", "join"} => c.target \in Leader
        /\ c.kind \in {"add", "remove"} => c.name \in Name
    BY CommandFields
  <2>2. begun \in Nat /\ begun < Older + MaxCommands
    BY DEF Start, TypeInv, CounterType
  <2>3. /\ l \in Local /\ l.cmd = c /\ l.no \in CommandNo /\ l.todo = {}
        /\ l.file = Nil
    BY <2>1, <2>2, FreshType
  <2>4. Here(p) \in Leader /\ manifest[Here(p)] \in Entry /\ peers[Here(p)] \in PeersList
    BY DEF Here, TypeInv, StateType
  <2> HIDE DEF l
  <2>5. CASE UNCHANGED <<pc, local>>
    BY <2>5 DEF TypeInv, ControlInv
  <2>6. CASE LoadEntry(p, c) /\ ~UNCHANGED <<pc, local>>
    <3> DEFINE new == [l EXCEPT !.meta = manifest[Here(p)]]
    <3>1. Begin(p, "hash", new)
      BY <2>6 DEF LoadEntry, l
    <3>2. new \in Local /\ WellFormed(p, "hash", new)
      BY <2>1, <2>3, <2>4 DEF Local, WellFormed, Contacting
    <3>3. QED  BY <3>1, <3>2, BeginStep DEF TypeInv, Step
  <2>7. CASE RecipientList(p, c) /\ ~UNCHANGED <<pc, local>>
    <3>1. Begin(p, "push", l)
      BY <2>7 DEF RecipientList, l
    <3>2. WellFormed(p, "push", l)
      BY <2>1, <2>3 DEF WellFormed, Contacting
    <3>3. QED  BY <2>3, <3>1, <3>2, BeginStep DEF TypeInv, Step
  <2>8. CASE PeerPing(p, c) /\ ~UNCHANGED <<pc, local>>
    <3> DEFINE list == peers[Here(p)]
               todo == IF c.name = Nil THEN Listed(list)
                       ELSE Listed(list) \intersect {c.name}
               new  == [l EXCEPT !.list = list, !.todo = todo]
    <3>1. Begin(p, "next", new)
      BY <2>8 DEF PeerPing, l
    <3>2. new \in Local
      <4>1. todo \in SUBSET Name
        BY DEF Listed
      <4>2. l \in Local /\ list \in PeersList
        BY <2>3, <2>4
      <4> HIDE DEF todo, list
      <4>3. QED  BY ONLY <4>1, <4>2 DEF Local
    <3>3. WellFormed(p, "next", new)
      BY <2>1, <2>3 DEF Local, WellFormed, Contacting
    <3> HIDE DEF new
    <3>4. QED  BY <3>1, <3>2, <3>3, BeginStep DEF TypeInv, Step
  <2>9. CASE LoadPeers(p, c) /\ ~UNCHANGED <<pc, local>>
    <3> DEFINE to  == IF c.kind = "add" THEN c.target ELSE Nil
               new == [l EXCEPT !.list = [peers[Here(p)] EXCEPT ![c.name] = to]]
    <3>1. c.name \in Name /\ to \in Leader \union {Nil}
      BY <2>1, <2>9 DEF LoadPeers
    <3>2. Begin(p, "savePeers", new)
      BY <2>9 DEF LoadPeers, l
    <3>3. [peers[Here(p)] EXCEPT ![c.name] = to] \in PeersList
      BY <2>4, <3>1 DEF PeersList
    <3> HIDE DEF to
    <3>4. new \in Local /\ WellFormed(p, "savePeers", new)
      BY <2>1, <2>3, <3>3 DEF Local, WellFormed, Contacting
    <3> HIDE DEF new
    <3>5. QED  BY <3>2, <3>4, BeginStep DEF TypeInv, Step
  <2>10. CASE PeerJoin(p, c) /\ ~UNCHANGED <<pc, local>>
    <3> DEFINE new == [l EXCEPT !.from = c.target, !.to = Here(p), !.files = File]
    <3>1. Begin(p, "join", new)
      BY <2>10 DEF PeerJoin, l
    <3>2. c.target \in Leader
      BY <2>1, <2>10 DEF PeerJoin
    <3>3. new \in Local
      <4>1. l \in Local /\ Here(p) \in Leader
        BY <2>3, <2>4
      <4>2. QED  BY ONLY <3>2, <4>1 DEF Local
    <3>4. /\ new.cmd = c /\ new.no = l.no /\ new.todo = {} /\ new.file = Nil
          /\ new.to = Here(p) /\ new.from = c.target
      BY ONLY <2>3 DEF Local
    <3> HIDE DEF new
    <3>5. WellFormed(p, "join", new)
      BY <2>1, <2>3, <2>4, <3>2, <3>4 DEF WellFormed, Contacting
    <3>6. QED  BY <3>1, <3>3, <3>5, BeginStep DEF TypeInv, Step
  <2> QED  BY <1>1, <2>5, <2>6, <2>7, <2>8, <2>9, <2>10
<1> QED  BY <1>2, <1>3, <1>4

\* Steps that only move on, or return, and leave the files alone.
LEMMA HashType ==
    ASSUME TypeInv, NEW p \in Proc, Hash(p)
    PROVE  ControlInv' /\ StateType'
<1>1. StateType'
  BY StateSame DEF Hash, TypeInv
<1>2. CASE Return(p)
  BY <1>1, <1>2, ReturnStep DEF TypeInv
<1>3. CASE Goto(p, "lock") /\ UNCHANGED local
  <2>1. WellFormed(p, "lock", local[p])
    BY Running DEF TypeInv, WellFormed, Contacting, Hash
  <2>2. QED  BY <1>1, <1>3, <2>1, GotoStep DEF TypeInv, Step
<1> QED  BY <1>2, <1>3 DEF Hash

LEMMA LockType ==
    ASSUME TypeInv, NEW p \in Proc, Lock(p)
    PROVE  ControlInv' /\ StateType'
<1>1. StateType'
  <2>1. lock' \in [Leader -> Proc \union {Nil}]
    <3>1. lock' = lock \/ lock' = [lock EXCEPT ![Here(p)] = p]
      BY DEF Lock
    <3>2. QED  BY <3>1 DEF TypeInv, StateType
  <2>2. UNCHANGED <<tree, observed>>
    BY DEF Lock
  <2>3. QED  BY <2>1, <2>2 DEF TypeInv, StateType, tree, observed
<1>2. CASE Return(p)
  BY <1>1, <1>2, ReturnStep DEF TypeInv
<1>3. CASE ~Return(p)
  <2> DEFINE new == [local[p] EXCEPT !.saved = bundle[Here(p)]]
  <2>1. local[p] \in Local /\ WellFormed(p, pc[p], local[p]) /\ Here(p) \in Leader
    BY Running DEF TypeInv
  <2>2. new \in Local
    BY <2>1 DEF TypeInv, StateType, Local
  <2>3. WellFormed(p, "saveBundle", new)
    BY <2>1 DEF Local, WellFormed, Contacting, Lock
  <2>4. pc' = [pc EXCEPT ![p] = "saveBundle"] /\ local' = [local EXCEPT ![p] = new]
    BY <1>3 DEF Lock, Goto, TypeInv, ControlInv
  <2> HIDE DEF new
  <2>5. QED  BY <1>1, <2>2, <2>3, <2>4, ControlStep DEF TypeInv, Step
<1> QED  BY <1>2, <1>3

\* The writes of a commit.
LEMMA CommitType ==
    ASSUME TypeInv, NEW p \in Proc,
           \/ SaveBundle(p) \/ SaveManifest(p) \/ SaveManifestFails(p)
           \/ Undo(p) \/ RecordEvent(p)
    PROVE  ControlInv' /\ StateType'
<1>1. local[p] \in Local /\ WellFormed(p, pc[p], local[p]) /\ Here(p) \in Leader
  BY Running DEF TypeInv
<1>2. pc[p] # "idle" => local[p].no \in CommandNo
  BY <1>1 DEF WellFormed
<1>3. \A step \in {"saveManifest", "audit", "undo", "push"} :
         pc[p] \in {"saveBundle", "saveManifest", "audit"}
            => WellFormed(p, step, local[p]) /\ step \in Step
  BY <1>1 DEF WellFormed, Contacting, Step
<1>4. CASE SaveBundle(p)
  <2>1. StateType'
    BY <1>1, <1>2, <1>4 DEF SaveBundle, TypeInv, StateType, observed
  <2>2. ControlInv'
    BY <1>3, <1>4, GotoStep DEF SaveBundle, TypeInv
  <2>3. QED  BY <2>1, <2>2
<1>5. CASE SaveManifest(p)
  <2> DEFINE e == [version |-> local[p].meta.version + 1, sha |-> local[p].no]
             c == [version |-> local[p].meta.version + 1, at |-> Here(p)]
  <2>1. e \in Entry /\ c \in [version: Nat, at: Leader \union {Nil}]
    BY <1>1, <1>2, <1>5 DEF SaveManifest, Local, Entry
  <2>2. /\ manifest' = [manifest EXCEPT ![Here(p)] = e]
        /\ committed' = [committed EXCEPT ![local[p].no] = c]
        /\ Unlock(p)
        /\ UNCHANGED <<bundle, audit, peers, health, lockFile, contact, clobbered>>
    BY <1>5 DEF SaveManifest
  <2> HIDE DEF e, c
  <2>3. StateType'
    BY <2>1, <2>2, UnlockType DEF TypeInv, StateType
  <2>4. ControlInv'
    BY <1>3, <1>5, GotoStep DEF SaveManifest, TypeInv
  <2>5. QED  BY <2>3, <2>4
<1>6. CASE SaveManifestFails(p)
  <2>1. StateType'
    BY <1>6, StateSame DEF SaveManifestFails, TypeInv
  <2>2. ControlInv'
    BY <1>3, <1>6, GotoStep DEF SaveManifestFails, TypeInv
  <2>3. QED  BY <2>1, <2>2
<1>7. CASE Undo(p)
  <2>1. StateType'
    BY <1>1, <1>7, UnlockType DEF Undo, TypeInv, StateType, observed, Local
  <2>2. ControlInv'
    BY <1>7, ReturnStep DEF Undo, TypeInv
  <2>3. QED  BY <2>1, <2>2
<1>8. CASE RecordEvent(p)
  <2>1. StateType'
    BY <1>1, <1>2, <1>8 DEF RecordEvent, TypeInv, StateType, observed
  <2>2. ControlInv'
    BY <1>3, <1>8, GotoStep DEF RecordEvent, TypeInv
  <2>3. QED  BY <2>1, <2>2
<1> QED  BY <1>4, <1>5, <1>6, <1>7, <1>8

\* The loop over the peers, and the peers list.
LEMMA LoopType ==
    ASSUME TypeInv, NEW p \in Proc, MaybePushPeers(p) \/ NextPeer(p)
    PROVE  ControlInv' /\ StateType'
<1>1. /\ local[p] \in Local /\ WellFormed(p, pc[p], local[p])
      /\ Here(p) \in Leader /\ peers[Here(p)] \in PeersList
  BY Running DEF TypeInv, StateType
<1>2. StateType'
  BY StateSame DEF MaybePushPeers, NextPeer, TypeInv
<1>3. CASE Return(p)
  BY <1>2, <1>3, ReturnStep DEF TypeInv
<1>4. CASE MaybePushPeers(p) /\ ~Return(p)
  <2> DEFINE new == [local[p] EXCEPT !.list = peers[Here(p)],
                                     !.todo = Listed(peers[Here(p)])]
  <2>1. Begin(p, "next", new)
    BY <1>4 DEF MaybePushPeers
  <2>2. new \in Local
    BY <1>1 DEF Local, Listed
  <2>3. WellFormed(p, "next", new)
    BY <1>1, <1>4 DEF Local, WellFormed, Contacting, MaybePushPeers
  <2> HIDE DEF new
  <2>4. QED  BY <1>2, <2>1, <2>2, <2>3, BeginStep DEF TypeInv, Step
<1>5. CASE NextPeer(p) /\ ~Return(p)
  <2>1. PICK n \in local[p].todo :
           IF Cmd(p).kind = "ping"
           THEN Begin(p, "ssh", [local[p] EXCEPT !.todo = @ \ {n}, !.name = n,
                                                 !.to = local[p].list[n]])
           ELSE Begin(p, "rsync", [local[p] EXCEPT !.todo = @ \ {n}, !.name = n,
                                                   !.from = Here(p),
                                                   !.to = local[p].list[n],
                                                   !.files = PushedFiles])
    BY <1>5 DEF NextPeer
  <2>2. n \in Name /\ local[p].list[n] \in Leader
    BY <1>1 DEF WellFormed, Listed, Local, PeersList
  <2> DEFINE pinged == [local[p] EXCEPT !.todo = @ \ {n}, !.name = n,
                                        !.to = local[p].list[n]]
             pushed == [local[p] EXCEPT !.todo = @ \ {n}, !.name = n,
                                        !.from = Here(p), !.to = local[p].list[n],
                                        !.files = PushedFiles]
  <2>3. pinged \in Local /\ WellFormed(p, "ssh", pinged)
    BY <1>1, <1>5, <2>2 DEF Local, WellFormed, Contacting, NextPeer
  <2>4. pushed \in Local /\ WellFormed(p, "rsync", pushed)
    <3>1. /\ local[p] \in Local /\ Here(p) \in Leader
          /\ PushedFiles \in SUBSET File /\ PushedFiles \subseteq Shared
      BY <1>1 DEF Here, PushedFiles, Shared, File
    <3>2. pushed \in Local
      BY ONLY <2>2, <3>1 DEF Local
    <3>3. /\ pushed.todo = local[p].todo \ {n} /\ pushed.list = local[p].list
          /\ pushed.cmd = local[p].cmd /\ pushed.no = local[p].no
          /\ pushed.name = n /\ pushed.to = local[p].list[n] /\ pushed.from = Here(p)
          /\ pushed.files = PushedFiles /\ pushed.file = local[p].file
      BY ONLY <3>1 DEF Local
    <3>4. pc[p] = "next"
      BY <1>5 DEF NextPeer
    <3> HIDE DEF pushed
    <3>5. WellFormed(p, "rsync", pushed)
      BY <1>1, <2>2, <3>1, <3>3, <3>4 DEF WellFormed, Contacting
    <3>6. QED  BY <3>2, <3>5
  <2>5. Begin(p, "ssh", pinged) \/ Begin(p, "rsync", pushed)
    BY <2>1
  <2> HIDE DEF pinged, pushed
  <2>6. QED  BY <1>2, <2>3, <2>4, <2>5, BeginStep DEF TypeInv, Step
<1> QED  BY <1>3, <1>4, <1>5

-----------------------------------------------------------------------------
(* The steps of a transfer *)

\* A file that is read is a typed image.
LEMMA ReadType ==
    ASSUME StateType, NEW l \in Leader, NEW f \in File
    PROVE  Read(f, l) \in Image
<1>1. f \in {"manifest", "bundle", "audit", "peers", "health", "lockFile"}
  BY DEF File, Shared
<1>2. /\ [NoImage EXCEPT !.manifest = manifest[l]] \in Image
      /\ [NoImage EXCEPT !.bundle = bundle[l]] \in Image
      /\ [NoImage EXCEPT !.audit = audit[l]] \in Image
      /\ [NoImage EXCEPT !.peers = peers[l]] \in Image
      /\ [NoImage EXCEPT !.health = health[l]] \in Image
      /\ [NoImage EXCEPT !.lockFile = lockFile[l]] \in Image
  BY DefaultTypes DEF StateType, Image
<1>3. QED  BY <1>1, <1>2 DEF Read

LEMMA SendType ==
    ASSUME TypeInv, NEW p \in Proc, Send(p)
    PROVE  ControlInv' /\ StateType'
<1>1. local[p] \in Local /\ WellFormed(p, pc[p], local[p])
  BY Running DEF TypeInv
<1>2. PICK f \in local[p].files :
         local' = [local EXCEPT ![p] =
                      IF UpToDate(f, local[p].from, local[p].to)
                      THEN [local[p] EXCEPT !.files = @ \ {f}]
                      ELSE [local[p] EXCEPT !.file = f,
                                            !.image = Read(f, local[p].from)]]
  BY DEF Send
<1>3. pc[p] \in {"rsync", "join"} /\ local[p].file = Nil
  BY DEF Send, Copying
<1>4. f \in File /\ local[p].from \in Leader /\ (pc[p] = "rsync" => f \in Shared)
  BY <1>1, <1>3 DEF Local, WellFormed
<1> DEFINE kept == [local[p] EXCEPT !.files = @ \ {f}]
           sent == [local[p] EXCEPT !.file = f, !.image = Read(f, local[p].from)]
<1>5. kept \in Local /\ WellFormed(p, pc[p], kept)
  BY <1>1, <1>3 DEF Local, WellFormed, Contacting
<1>6. sent \in Local /\ WellFormed(p, pc[p], sent)
  <2>1. Read(f, local[p].from) \in Image
    BY <1>4, ReadType DEF TypeInv
  <2>2. QED  BY <1>1, <1>3, <1>4, <2>1 DEF Local, WellFormed, Contacting
<1>7. local' = [local EXCEPT ![p] = kept] \/ local' = [local EXCEPT ![p] = sent]
  BY <1>2
<1>8. pc' = [pc EXCEPT ![p] = pc[p]] /\ pc[p] \in Step
  BY DEF Send, TypeInv, ControlInv
<1> HIDE DEF kept, sent
<1>9. ControlInv'
  BY <1>5, <1>6, <1>7, <1>8, ControlStep DEF TypeInv
<1>10. StateType'
  BY StateSame DEF Send, TypeInv
<1> QED  BY <1>9, <1>10

LEMMA InstallType ==
    ASSUME TypeInv, NEW p \in Proc, Install(p)
    PROVE  ControlInv' /\ StateType'
<1>1. local[p] \in Local /\ WellFormed(p, pc[p], local[p])
  BY Running DEF TypeInv
<1>2. pc[p] \in {"rsync", "join"} /\ local[p].to \in Leader
  BY <1>1 DEF Install, Copying, WellFormed
<1>3. /\ local[p].image.manifest \in Entry
      /\ local[p].image.bundle \in CommandNo \union {NoNumber}
      /\ local[p].image.audit \in SUBSET CommandNo
      /\ local[p].image.peers \in PeersList
      /\ local[p].image.health \in [Name -> Health]
      /\ local[p].image.lockFile \in Leader \union {Nil}
  BY <1>1 DEF Local, Image
<1>4. StateType'
  <2> USE <1>2, <1>3 DEF TypeInv, StateType
  <2>1. manifest' \in [Leader -> Entry]
    BY DEF Install
  <2>2. bundle' \in [Leader -> CommandNo \union {NoNumber}]
    BY DEF Install
  <2>3. audit' \in [Leader -> SUBSET CommandNo]
    BY DEF Install
  <2>4. peers' \in [Leader -> PeersList]
    BY DEF Install
  <2>5. health' \in [Leader -> [Name -> Health]]
    BY DEF Install
  <2>6. clobbered' \in [Leader -> BOOLEAN]
    BY DEF Install
  <2>7. lockFile' \in [Leader -> Leader \union {Nil}]
    BY DEF Install
  <2>8. lock' \in [Leader -> Proc \union {Nil}]
    BY DEF Install
  <2>9. UNCHANGED <<committed, contact>>
    BY DEF Install
  <2> QED  BY <2>1, <2>2, <2>3, <2>4, <2>5, <2>6, <2>7, <2>8, <2>9
<1>5. ControlInv'
  <2> DEFINE new == [local[p] EXCEPT !.files = @ \ {local[p].file}, !.file = Nil,
                                     !.image = NoImage]
  <2>1. local' = [local EXCEPT ![p] = new]
    BY DEF Install, TypeInv, ControlInv
  <2>2. pc' = [pc EXCEPT ![p] = pc[p]] /\ pc[p] \in Step
    BY DEF Install, TypeInv, ControlInv
  <2>3. new \in Local
    BY ONLY <1>1, DefaultTypes DEF Local
  <2>4. /\ new.todo = local[p].todo /\ new.list = local[p].list /\ new.cmd = local[p].cmd
        /\ new.no = local[p].no /\ new.name = local[p].name /\ new.file = Nil
        /\ new.from = local[p].from /\ new.to = local[p].to
        /\ new.files \subseteq local[p].files
    BY ONLY <1>1 DEF Local
  <2> HIDE DEF new
  <2>5. WellFormed(p, pc[p], new)
    BY ONLY <1>1, <2>4 DEF WellFormed
  <2>6. QED  BY <2>1, <2>2, <2>3, <2>5, ControlStep DEF TypeInv
<1> QED  BY <1>4, <1>5

\* Ends of a contact, good or bad.
LEMMA ContactedType ==
    ASSUME TypeInv, NEW p \in Proc, pc[p] \in {"rsync", "ssh"},
           NEW ok \in BOOLEAN, NEW versions \in Nat, Contacted(p, ok, versions)
    PROVE  ControlInv' /\ StateType'
<1> DEFINE new == [local[p] EXCEPT !.ok = ok, !.versions = versions, !.from = Nil,
                                   !.files = {}, !.file = Nil, !.image = NoImage]
<1>1. local[p] \in Local /\ WellFormed(p, pc[p], local[p])
  BY Running DEF TypeInv
<1>2. Begin(p, "loadState", new)
  BY DEF Contacted
<1>3. new \in Local
  BY ONLY <1>1, DefaultTypes DEF Local
<1>4. /\ new.todo = local[p].todo /\ new.list = local[p].list /\ new.cmd = local[p].cmd
      /\ new.no = local[p].no /\ new.name = local[p].name /\ new.file = Nil
  BY ONLY <1>1 DEF Local
<1> HIDE DEF new
<1>5. pc[p] # "idle" /\ pc[p] \in Contacting
  BY DEF Contacting
<1>6. WellFormed(p, "loadState", new)
  BY ONLY <1>1, <1>4, <1>5 DEF WellFormed
<1>7. ControlInv'
  BY <1>2, <1>3, <1>6, BeginStep DEF TypeInv, Step
<1>8. StateType'
  BY StateSame DEF Contacted, TypeInv
<1> QED  BY <1>7, <1>8

LEMMA EndType ==
    ASSUME TypeInv, NEW p \in Proc,
           RsyncExits(p) \/ PushFails(p) \/ JoinFails(p) \/ Ping(p) \/ PingFails(p)
    PROVE  ControlInv' /\ StateType'
<1>1. PICK v \in Nat : \/ pc[p] \in {"rsync", "ssh"} /\ Contacted(p, TRUE, v)
                       \/ pc[p] \in {"rsync", "ssh"} /\ Contacted(p, FALSE, v)
                       \/ Return(p) /\ UNCHANGED <<tree, lock, observed>>
  <2>1. CASE RsyncExits(p)
    BY <2>1 DEF RsyncExits
  <2>2. CASE PushFails(p) \/ JoinFails(p)
    BY <2>2 DEF PushFails, JoinFails
  <2>3. CASE Ping(p)
    <3>1. manifest[local[p].to].version \in Nat
      BY <2>3, Running DEF Ping, TypeInv, StateType, WellFormed, Entry
    <3>2. QED  BY <2>3, <3>1 DEF Ping
  <2>4. CASE PingFails(p)
    BY <2>4 DEF PingFails
  <2> QED  BY <2>1, <2>2, <2>3, <2>4
<1>2. CASE Return(p) /\ UNCHANGED <<tree, lock, observed>>
  BY <1>2, ReturnStep, StateSame DEF TypeInv
<1>3. QED  BY <1>1, <1>2, ContactedType

-----------------------------------------------------------------------------
(* The steps on the two private files *)

LEMMA StateFileType ==
    ASSUME TypeInv, NEW p \in Proc, LoadState(p) \/ SaveState(p)
    PROVE  ControlInv' /\ StateType'
<1>1. local[p] \in Local /\ WellFormed(p, pc[p], local[p]) /\ Here(p) \in Leader
  BY Running DEF TypeInv
<1>2. CASE LoadState(p)
  <2> DEFINE new == [local[p] EXCEPT !.state = health[Here(p)]]
  <2>1. Begin(p, "saveState", new)
    BY <1>2 DEF LoadState
  <2>2. new \in Local /\ WellFormed(p, "saveState", new)
    BY <1>1, <1>2 DEF LoadState, TypeInv, StateType, Local, WellFormed, Contacting
  <2> HIDE DEF new
  <2>3. ControlInv'
    BY <2>1, <2>2, BeginStep DEF TypeInv, Step
  <2>4. StateType'
    BY <1>2, StateSame DEF LoadState, TypeInv
  <2>5. QED  BY <2>3, <2>4
<1>3. CASE SaveState(p)
  <2> DEFINE n   == local[p].name
             r   == [local[p].state EXCEPT ![n] = Recorded(p, local[p].state[n])]
             new == [local[p] EXCEPT !.name = Nil, !.to = Nil, !.ok = FALSE,
                                     !.versions = 0, !.state = NoLocal.state]
  <2>1. n \in Name
    BY <1>1, <1>3 DEF SaveState, WellFormed, Contacting
  <2>2. \A h \in Health : Recorded(p, h) \in Health
    BY <1>1 DEF Recorded, Health, Local
  <2>3. r \in [Name -> Health]
    BY <1>1, <2>1, <2>2 DEF Local
  <2>4. /\ health' = [health EXCEPT ![Here(p)] = r]
        /\ contact' = [contact EXCEPT ![Here(p)][n] =
                          [with |-> local[p].to, ok |-> local[p].ok]]
        /\ clobbered' = [clobbered EXCEPT ![Here(p)] = @ \/ health[Here(p)] # local[p].state]
        /\ Begin(p, "next", new)
        /\ UNCHANGED <<manifest, bundle, audit, peers, lockFile, lock, committed>>
    BY <1>3 DEF SaveState
  <2>5. [with |-> local[p].to, ok |-> local[p].ok]
            \in [with: Leader \union {Nil}, ok: BOOLEAN]
    BY <1>1 DEF Local
  <2>6. new \in Local /\ WellFormed(p, "next", new)
    BY <1>1, <1>3, DefaultTypes DEF SaveState, Local, WellFormed, Contacting
  <2> HIDE DEF n, r, new
  <2>7. ControlInv'
    BY <2>4, <2>6, BeginStep DEF TypeInv, Step
  <2>8. health' \in [Leader -> [Name -> Health]]
    BY <2>3, <2>4 DEF TypeInv, StateType
  <2>9. contact' \in [Leader -> [Name -> [with: Leader \union {Nil}, ok: BOOLEAN]]]
    BY <1>1, <2>1, <2>4, <2>5 DEF TypeInv, StateType
  <2>10. clobbered' \in [Leader -> BOOLEAN]
    BY <1>1, <2>4 DEF TypeInv, StateType
  <2>11. StateType'
    BY <2>4, <2>8, <2>9, <2>10 DEF TypeInv, StateType
  <2> QED  BY <2>7, <2>11
<1> QED  BY <1>2, <1>3

LEMMA PeersFileType ==
    ASSUME TypeInv, NEW p \in Proc, SavePeers(p) \/ RecordPeerAudit(p)
    PROVE  ControlInv' /\ StateType'
<1>1. local[p] \in Local /\ WellFormed(p, pc[p], local[p]) /\ Here(p) \in Leader
  BY Running DEF TypeInv
<1>2. CASE SavePeers(p)
  <2>1. WellFormed(p, "auditPeers", local[p])
    BY <1>1, <1>2 DEF SavePeers, WellFormed, Contacting
  <2>2. ControlInv'
    BY <1>2, <2>1, GotoStep DEF SavePeers, TypeInv, Step
  <2>3. StateType'
    BY <1>1, <1>2 DEF SavePeers, TypeInv, StateType, observed, Local
  <2>4. QED  BY <2>2, <2>3
<1>3. CASE RecordPeerAudit(p)
  <2>1. local[p].no \in CommandNo
    BY <1>1, <1>3 DEF RecordPeerAudit, WellFormed
  <2>2. StateType'
    BY <1>1, <1>3, <2>1 DEF RecordPeerAudit, TypeInv, StateType, observed
  <2>3. QED  BY <1>3, <2>2, ReturnStep DEF RecordPeerAudit, TypeInv
<1> QED  BY <1>2, <1>3

-----------------------------------------------------------------------------
(* Every step, and the theorem *)

LEMMA ProcType ==
    ASSUME TypeInv, NEW p \in Proc,
           Start(p) \/ Proceed(p) \/ Transfer(p) \/ Acquire(p)
    PROVE  ControlInv' /\ StateType' /\ begun' \in Older..Older + MaxCommands
<1>1. CASE Start(p)
  BY <1>1, StartType
<1>2. CASE Proceed(p)
  BY <1>2, HashType, CommitType, LoopType, EndType, StateFileType, PeersFileType
     DEF Proceed, TypeInv, CounterType
<1>3. CASE Transfer(p)
  BY <1>3, SendType, InstallType, EndType DEF Transfer, TypeInv, CounterType
<1>4. CASE Acquire(p)
  BY <1>4, LockType DEF Acquire, TypeInv, CounterType
<1> QED  BY <1>1, <1>2, <1>3, <1>4

LEMMA StepType == TypeInv /\ [Next]_vars => TypeInv'
<1> SUFFICES ASSUME TypeInv, [Next]_vars PROVE TypeInv'
  OBVIOUS
<1>1. CASE UNCHANGED vars
  BY <1>1 DEF vars, tree, observed, TypeInv, ControlInv, StateType, CounterType
<1>2. ASSUME NEW p \in Proc, Start(p) \/ Proceed(p) \/ Transfer(p) \/ Acquire(p), Watch(p)
      PROVE  TypeInv'
  <2>1. ControlInv' /\ StateType' /\ begun' \in Older..Older + MaxCommands
    BY <1>2, ProcType
  <2>2. calm' \in [Proc -> BOOLEAN]
    BY <1>2 DEF Watch
  <2>3. QED  BY <2>1, <2>2 DEF TypeInv, CounterType
<1> QED  BY <1>1, <1>2 DEF Next

LEMMA AlwaysTyped == Spec => []TypeInv
  BY InitType, StepType, PTL DEF Spec

\* Every variable keeps its type, whatever the commands and however the transfers
\* between the leaders go.
THEOREM TypeCorrect == Spec => []TypeOK
<1>1. TypeInv => TypeOK
  BY DEF TypeInv, ControlInv, StateType, CounterType, TypeOK, CommandNo, NoNumber
<1>2. QED  BY <1>1, AlwaysTyped, PTL

-----------------------------------------------------------------------------
(* The private files *)

\* The peers list and the health file of a leader change in steps of processes
\* run at that leader only.
LEMMA PrivateStep ==
    ASSUME TypeInv, NEW p \in Proc,
           Start(p) \/ Proceed(p) \/ Transfer(p) \/ Acquire(p),
           NEW l \in Leader, <<peers[l], health[l]>> # <<peers[l], health[l]>>'
    PROVE  Here(p) = l /\ <<pc[p], local[p]>> # <<pc[p], local[p]>>'
<1>1. local[p] \in Local /\ WellFormed(p, pc[p], local[p]) /\ Here(p) \in Leader
  BY Running DEF TypeInv
<1>2. \/ Install(p) \/ SavePeers(p) \/ SaveState(p)
      \/ UNCHANGED <<peers, health>>
  <2>1. CASE Start(p)
    BY <2>1 DEF Start, LoadEntry, RecipientList, PeerPing, LoadPeers, PeerJoin, tree
  <2>2. CASE Proceed(p)
    BY <2>2 DEF Proceed, Hash, SaveBundle, SaveManifest, SaveManifestFails, Undo,
                RecordEvent, MaybePushPeers, NextPeer, PushFails, JoinFails, PingFails,
                LoadState, RecordPeerAudit, Contacted, tree
  <2>3. CASE Transfer(p)
    BY <2>3 DEF Transfer, Send, RsyncExits, PushFails, Ping, PingFails, Contacted, tree
  <2>4. CASE Acquire(p)
    BY <2>4 DEF Acquire, Lock, tree
  <2> QED  BY <2>1, <2>2, <2>3, <2>4
<1>3. CASE Install(p)
  <2>1. local[p].file \in {"peers", "health"} /\ l = local[p].to
    BY <1>3 DEF Install, TypeInv, StateType
  <2>2. pc[p] = "join"
    BY <1>1, <1>3, <2>1 DEF Install, Copying, WellFormed, Shared, File
  <2>3. local'[p].file = Nil
    BY <1>1, <1>3 DEF Install, TypeInv, ControlInv, Local
  <2>4. QED  BY <1>1, <1>3, <2>1, <2>2, <2>3 DEF Install, WellFormed
<1>4. CASE SavePeers(p)
  <2>1. pc[p] = "savePeers" /\ pc'[p] = "auditPeers" /\ health' = health
    BY <1>4 DEF SavePeers, Goto, TypeInv, ControlInv
  <2>2. Here(p) = l
    BY <1>1, <1>4, <2>1 DEF SavePeers, TypeInv, StateType
  <2>3. QED  BY <2>1, <2>2
<1>5. CASE SaveState(p)
  <2>1. pc[p] = "saveState" /\ pc'[p] = "next" /\ peers' = peers
    BY <1>5 DEF SaveState, Begin, Goto, TypeInv, ControlInv
  <2>2. Here(p) = l
    BY <1>1, <1>5, <2>1 DEF SaveState, TypeInv, StateType
  <2>3. QED  BY <2>1, <2>2
<1> QED  BY <1>2, <1>3, <1>4, <1>5

\* No push reaches the peers list or the health file of another leader.
THEOREM PushesSparePrivateFiles == Spec => PrivateFilesStay
<1> DEFINE Stays ==
        \A l \in Leader :
            <<peers[l], health[l]>> # <<peers[l], health[l]>>'
                => \E p \in Proc : Here(p) = l /\ <<pc[p], local[p]>> # <<pc[p], local[p]>>'
<1>1. TypeInv /\ [Next]_vars => [Stays]_vars
  <2> SUFFICES ASSUME TypeInv, Next PROVE Stays \/ UNCHANGED vars
    OBVIOUS
  <2>1. ASSUME NEW p \in Proc, Start(p) \/ Proceed(p) \/ Transfer(p) \/ Acquire(p)
        PROVE  Stays
    BY <2>1, PrivateStep
  <2>2. QED  BY <2>1 DEF Next
<1>2. QED  BY <1>1, AlwaysTyped, PTL DEF Spec, PrivateFilesStay

-----------------------------------------------------------------------------
(* Numbers and entries *)

LEMMA InitNumbers == Init => NumberInv /\ EntryInv
<1> SUFFICES ASSUME Init PROVE NumberInv /\ EntryInv
  OBVIOUS
<1>1. NumberInv
  BY DEF Init, NumberInv, Accounted, Committing, Succeeded, Contacting, CommandNo
<1>2. EntryInv
  <2>1. ASSUME NEW l \in Leader PROVE Vouched(manifest[l])
    <3>1. bundle[l] \in 0..Older /\ manifest[l] = [version |-> bundle[l], sha |-> bundle[l]]
      BY DEF Init
    <3>2. bundle[l] # 0 => /\ bundle[l] \in CommandNo
                           /\ committed[bundle[l]].version = bundle[l]
      BY <3>1 DEF Init, CommandNo
    <3>3. QED  BY <3>1, <3>2 DEF Vouched
  <2>2. ASSUME NEW p \in Proc PROVE Vouched(local[p].image.manifest)
    BY DEF Init, NoLocal, NoImage, NoEntry, Vouched
  <2>3. QED  BY <2>1, <2>2 DEF EntryInv
<1> QED  BY <1>1, <1>2

\* What nearly every step of p leaves as it is: the numbers, the commits, the
\* others; how far p's own command has come; and entries appear from nowhere else
\* than an entry or an image that was there.
Quiet(p) ==
    /\ UNCHANGED <<begun, committed>>
    /\ \A q \in Proc \ {p} : pc'[q] = pc[q] /\ local'[q] = local[q]
    /\ pc'[p] # "idle" =>
          /\ pc[p] # "idle"
          /\ local'[p].no = local[p].no
          /\ local'[p].cmd = local[p].cmd
          /\ pc'[p] \in Committing => pc[p] \in Committing
          /\ pc'[p] \in Succeeded => pc[p] \in Succeeded
    /\ local'[p].image.manifest
          \in {local[p].image.manifest, NoEntry} \union {manifest[l] : l \in Leader}
    /\ \A l \in Leader : manifest'[l] \in {manifest[l], local[p].image.manifest}

LEMMA QuietStep ==
    ASSUME TypeInv, NumberInv, EntryInv, NEW p \in Proc, Quiet(p)
    PROVE  NumberInv' /\ EntryInv'
<1>1. \A n \in CommandNo : n > begun' => committed'[n].version = 0
  BY DEF Quiet, NumberInv
<1>2. ASSUME NEW q \in Proc PROVE Accounted(pc[q], local[q])'
  <2>1. CASE q = p
    <3>1. Accounted(pc[p], local[p])
      BY DEF NumberInv
    <3>2. "idle" \notin Committing \union Succeeded
      BY DEF Committing, Succeeded, Contacting
    <3>3. QED  BY <2>1, <3>1, <3>2 DEF Quiet, Accounted
  <2>2. CASE q # p
    BY <2>2 DEF Quiet, NumberInv, Accounted
  <2>3. QED  BY <2>1, <2>2
<1>3. ASSUME NEW q \in Proc, NEW r \in Proc, q # r, pc'[q] # "idle", pc'[r] # "idle"
      PROVE  local'[q].no # local'[r].no
  BY <1>3 DEF Quiet, NumberInv
<1>4. /\ \A l \in Leader : Vouched(manifest[l])
      /\ \A q \in Proc : Vouched(local[q].image.manifest)
      /\ Vouched(NoEntry)
  BY DEF EntryInv, Vouched, NoEntry
<1>5. committed' = committed
  BY DEF Quiet
<1>6. ASSUME NEW l \in Leader PROVE Vouched(manifest[l])'
  <2>1. manifest'[l] \in {manifest[l], local[p].image.manifest}
    BY DEF Quiet
  <2>2. QED  BY ONLY <1>4, <1>5, <2>1 DEF Vouched
<1>7. ASSUME NEW q \in Proc PROVE Vouched(local[q].image.manifest)'
  <2>1. CASE q = p
    <3>1. local'[p].image.manifest
             \in {local[p].image.manifest, NoEntry} \union {manifest[l] : l \in Leader}
      BY DEF Quiet
    <3>2. QED  BY ONLY <1>4, <1>5, <2>1, <3>1 DEF Vouched
  <2>2. CASE q # p
    <3>1. local'[q] = local[q]
      BY <2>2 DEF Quiet
    <3>2. QED  BY ONLY <1>4, <1>5, <3>1 DEF Vouched
  <2>3. QED  BY <2>1, <2>2
<1>8. EntryInv'
  BY <1>6, <1>7 DEF EntryInv
<1>9. NumberInv'
  BY <1>1, <1>2, <1>3 DEF NumberInv
<1> QED  BY <1>8, <1>9

\* A transition of p that leaves the files, the numbers and the commits alone.
LEMMA QuietMove ==
    ASSUME TypeInv, NEW p \in Proc, NEW step, NEW new,
           pc' = [pc EXCEPT ![p] = step],
           local' = [local EXCEPT ![p] = new],
           UNCHANGED <<manifest, begun, committed>>,
           step # "idle" =>
              /\ pc[p] # "idle"
              /\ new.no = local[p].no /\ new.cmd = local[p].cmd
              /\ step \in Committing => pc[p] \in Committing
              /\ step \in Succeeded => pc[p] \in Succeeded,
           new.image.manifest \in {local[p].image.manifest, NoEntry}
                                     \union {manifest[l] : l \in Leader}
    PROVE  Quiet(p)
  BY DEF Quiet, TypeInv, ControlInv

LEMMA QuietReturn ==
    ASSUME TypeInv, NEW p \in Proc, Return(p), UNCHANGED <<manifest, begun, committed>>
    PROVE  Quiet(p)
<1>1. NoLocal.image.manifest = NoEntry
  BY DEF NoLocal, NoImage
<1>2. QED  BY <1>1, QuietMove DEF Return, Goto

LEMMA QuietGoto ==
    ASSUME TypeInv, NEW p \in Proc, NEW step, Goto(p, step), local' = local,
           UNCHANGED <<manifest, begun, committed>>, pc[p] # "idle",
           step \in Committing => pc[p] \in Committing,
           step \in Succeeded => pc[p] \in Succeeded
    PROVE  Quiet(p)
<1>1. local' = [local EXCEPT ![p] = local[p]]
  BY DEF TypeInv, ControlInv
<1>2. QED  BY <1>1, QuietMove DEF Goto

\* The commands: every step of them but the manifest's write.
LEMMA CommandQuiet ==
    ASSUME TypeInv, NEW p \in Proc, UNCHANGED begun,
           \/ Hash(p) \/ Lock(p) \/ SaveBundle(p) \/ SaveManifestFails(p) \/ Undo(p)
           \/ RecordEvent(p) \/ SavePeers(p) \/ RecordPeerAudit(p)
    PROVE  Quiet(p)
<1> USE DEF Committing, Succeeded, Contacting
<1>1. CASE Hash(p)
  BY <1>1, QuietReturn, QuietGoto DEF Hash, tree, observed
<1>2. CASE Lock(p)
  <2>1. CASE Return(p)
    BY <1>2, <2>1, QuietReturn DEF Lock, tree, observed
  <2>2. CASE ~Return(p)
    <3> DEFINE new == [local[p] EXCEPT !.saved = bundle[Here(p)]]
    <3>1. /\ pc' = [pc EXCEPT ![p] = "saveBundle"]
          /\ local' = [local EXCEPT ![p] = new]
          /\ UNCHANGED <<manifest, begun, committed>>
      BY <1>2, <2>2 DEF Lock, Goto, TypeInv, ControlInv, tree, observed
    <3>2. /\ new.no = local[p].no /\ new.cmd = local[p].cmd
          /\ new.image = local[p].image
      BY Running DEF TypeInv, Local
    <3> HIDE DEF new
    <3>3. QED  BY <1>2, <3>1, <3>2, QuietMove DEF Lock
  <2>3. QED  BY <2>1, <2>2
<1>3. CASE SaveBundle(p)
  BY <1>3, QuietGoto DEF SaveBundle, observed
<1>4. CASE SaveManifestFails(p)
  BY <1>4, QuietGoto DEF SaveManifestFails, tree, observed
<1>5. CASE Undo(p)
  BY <1>5, QuietReturn DEF Undo, observed
<1>6. CASE RecordEvent(p)
  BY <1>6, QuietGoto DEF RecordEvent, observed
<1>7. CASE SavePeers(p)
  BY <1>7, QuietGoto DEF SavePeers, observed
<1>8. CASE RecordPeerAudit(p)
  BY <1>8, QuietReturn DEF RecordPeerAudit, observed
<1> QED  BY <1>1, <1>2, <1>3, <1>4, <1>5, <1>6, <1>7, <1>8

\* The loop over the peers, and the recording of what came of them.
LEMMA LoopQuiet ==
    ASSUME TypeInv, NEW p \in Proc, UNCHANGED begun,
           MaybePushPeers(p) \/ NextPeer(p) \/ LoadState(p) \/ SaveState(p)
    PROVE  Quiet(p)
<1> USE DEF Committing, Succeeded, Contacting, Begin, Goto
<1>1. local[p] \in Local
  BY Running DEF TypeInv
<1>2. CASE Return(p)
  BY <1>2, QuietReturn DEF MaybePushPeers, NextPeer, LoadState, SaveState, tree, observed
<1>3. CASE MaybePushPeers(p) /\ ~Return(p)
  <2> DEFINE new == [local[p] EXCEPT !.list = peers[Here(p)],
                                     !.todo = Listed(peers[Here(p)])]
  <2>1. Begin(p, "next", new) /\ UNCHANGED <<manifest, begun, committed>> /\ pc[p] = "push"
    BY <1>3 DEF MaybePushPeers, tree, observed
  <2>2. new.no = local[p].no /\ new.cmd = local[p].cmd /\ new.image = local[p].image
    BY <1>1 DEF Local
  <2> HIDE DEF new
  <2>3. QED  BY <2>1, <2>2, QuietMove
<1>4. CASE NextPeer(p) /\ ~Return(p)
  <2>1. PICK n \in local[p].todo :
           IF Cmd(p).kind = "ping"
           THEN Begin(p, "ssh", [local[p] EXCEPT !.todo = @ \ {n}, !.name = n,
                                                 !.to = local[p].list[n]])
           ELSE Begin(p, "rsync", [local[p] EXCEPT !.todo = @ \ {n}, !.name = n,
                                                   !.from = Here(p),
                                                   !.to = local[p].list[n],
                                                   !.files = PushedFiles])
    BY <1>4 DEF NextPeer
  <2> DEFINE pinged == [local[p] EXCEPT !.todo = @ \ {n}, !.name = n,
                                        !.to = local[p].list[n]]
             pushed == [local[p] EXCEPT !.todo = @ \ {n}, !.name = n,
                                        !.from = Here(p), !.to = local[p].list[n],
                                        !.files = PushedFiles]
  <2>2. /\ pinged.no = local[p].no /\ pinged.cmd = local[p].cmd
        /\ pinged.image = local[p].image
        /\ pushed.no = local[p].no /\ pushed.cmd = local[p].cmd
        /\ pushed.image = local[p].image
    BY ONLY <1>1 DEF Local
  <2>3. Begin(p, "ssh", pinged) \/ Begin(p, "rsync", pushed)
    BY <2>1
  <2>4. UNCHANGED <<manifest, begun, committed>> /\ pc[p] = "next"
    BY <1>4 DEF NextPeer, tree, observed
  <2> HIDE DEF pinged, pushed
  <2>5. QED  BY <2>2, <2>3, <2>4, QuietMove
<1>5. CASE LoadState(p)
  <2> DEFINE new == [local[p] EXCEPT !.state = health[Here(p)]]
  <2>1. /\ Begin(p, "saveState", new) /\ UNCHANGED <<manifest, begun, committed>>
        /\ pc[p] = "loadState"
    BY <1>5 DEF LoadState, tree, observed
  <2>2. new.no = local[p].no /\ new.cmd = local[p].cmd /\ new.image = local[p].image
    BY <1>1 DEF Local
  <2> HIDE DEF new
  <2>3. QED  BY <2>1, <2>2, QuietMove
<1>6. CASE SaveState(p)
  <2> DEFINE new == [local[p] EXCEPT !.name = Nil, !.to = Nil, !.ok = FALSE,
                                     !.versions = 0, !.state = NoLocal.state]
  <2>1. /\ Begin(p, "next", new) /\ UNCHANGED <<manifest, begun, committed>>
        /\ pc[p] = "saveState"
    BY <1>6 DEF SaveState
  <2>2. new.no = local[p].no /\ new.cmd = local[p].cmd /\ new.image = local[p].image
    BY <1>1 DEF Local
  <2> HIDE DEF new
  <2>3. QED  BY <2>1, <2>2, QuietMove
<1> QED  BY <1>2, <1>3, <1>4, <1>5, <1>6

\* The transfers: an entry is read from a leader, and installed at another.
LEMMA TransferQuiet ==
    ASSUME TypeInv, NEW p \in Proc, UNCHANGED begun,
           \/ Send(p) \/ Install(p) \/ RsyncExits(p) \/ PushFails(p) \/ JoinFails(p)
           \/ Ping(p) \/ PingFails(p)
    PROVE  Quiet(p)
<1> USE DEF Committing, Succeeded, Contacting, Begin, Goto
<1>1. /\ local[p] \in Local /\ WellFormed(p, pc[p], local[p])
      /\ NoImage.manifest = NoEntry
  BY Running DEF TypeInv, NoImage
<1>2. CASE Send(p)
  <2>1. PICK f \in local[p].files :
           local' = [local EXCEPT ![p] =
                        IF UpToDate(f, local[p].from, local[p].to)
                        THEN [local[p] EXCEPT !.files = @ \ {f}]
                        ELSE [local[p] EXCEPT !.file = f,
                                              !.image = Read(f, local[p].from)]]
    BY <1>2 DEF Send
  <2> DEFINE kept == [local[p] EXCEPT !.files = @ \ {f}]
             sent == [local[p] EXCEPT !.file = f, !.image = Read(f, local[p].from)]
  <2>2. /\ kept.no = local[p].no /\ kept.cmd = local[p].cmd
        /\ kept.image = local[p].image
        /\ sent.no = local[p].no /\ sent.cmd = local[p].cmd
        /\ sent.image = Read(f, local[p].from)
    BY <1>1 DEF Local
  <2>3. Read(f, local[p].from).manifest \in {NoEntry} \union {manifest[l] : l \in Leader}
    <3>1. /\ f \in {"manifest", "bundle", "audit", "peers", "health", "lockFile"}
          /\ local[p].from \in Leader
      BY <1>1, <1>2 DEF Send, Copying, WellFormed, Local, File, Shared
    <3>2. /\ [NoImage EXCEPT !.manifest = manifest[local[p].from]].manifest
                 = manifest[local[p].from]
          /\ [NoImage EXCEPT !.bundle = bundle[local[p].from]].manifest = NoEntry
          /\ [NoImage EXCEPT !.audit = audit[local[p].from]].manifest = NoEntry
          /\ [NoImage EXCEPT !.peers = peers[local[p].from]].manifest = NoEntry
          /\ [NoImage EXCEPT !.health = health[local[p].from]].manifest = NoEntry
          /\ [NoImage EXCEPT !.lockFile = lockFile[local[p].from]].manifest = NoEntry
      BY DEF NoImage
    <3>3. QED  BY <3>1, <3>2 DEF Read
  <2>4. local' = [local EXCEPT ![p] = kept] \/ local' = [local EXCEPT ![p] = sent]
    BY <2>1
  <2>5. /\ pc' = [pc EXCEPT ![p] = pc[p]] /\ pc[p] # "idle"
        /\ UNCHANGED <<manifest, begun, committed>>
    BY <1>2 DEF Send, Copying, TypeInv, ControlInv, tree, observed
  <2> HIDE DEF kept, sent
  <2>6. QED  BY <2>2, <2>3, <2>4, <2>5, QuietMove
<1>3. CASE Install(p)
  <2> DEFINE new == [local[p] EXCEPT !.files = @ \ {local[p].file}, !.file = Nil,
                                     !.image = NoImage]
  <2>1. local' = [local EXCEPT ![p] = new]
    BY <1>3 DEF Install, TypeInv, ControlInv
  <2>2. /\ new.no = local[p].no /\ new.cmd = local[p].cmd
        /\ new.image.manifest = NoEntry
    BY <1>1 DEF Local
  <2> HIDE DEF new
  <2>3. /\ local'[p] = new
        /\ \A q \in Proc \ {p} : local'[q] = local[q]
    BY <2>1 DEF TypeInv, ControlInv
  <2>4. \A l \in Leader : manifest'[l] \in {manifest[l], local[p].image.manifest}
    BY <1>3 DEF Install, TypeInv, StateType
  <2>5. UNCHANGED <<pc, begun, committed>> /\ pc[p] # "idle"
    BY <1>3 DEF Install, Copying
  <2>6. QED  BY <2>2, <2>3, <2>4, <2>5 DEF Quiet
<1>4. CASE Return(p)
  <2>1. UNCHANGED <<manifest, begun, committed>> \/ Install(p) \/ Send(p)
    BY DEF RsyncExits, PushFails, JoinFails, Ping, PingFails, Contacted, tree, observed
  <2>2. QED  BY <1>2, <1>3, <1>4, <2>1, QuietReturn
<1>5. ASSUME NEW ok, NEW v, Contacted(p, ok, v), pc[p] \in {"rsync", "ssh"}
      PROVE  Quiet(p)
  <2> DEFINE new == [local[p] EXCEPT !.ok = ok, !.versions = v, !.from = Nil,
                                     !.files = {}, !.file = Nil, !.image = NoImage]
  <2>1. Begin(p, "loadState", new) /\ UNCHANGED <<manifest, begun, committed>>
    BY <1>5 DEF Contacted, tree, observed
  <2>2. /\ new.no = local[p].no /\ new.cmd = local[p].cmd
        /\ new.image.manifest = NoEntry
    BY <1>1 DEF Local
  <2> HIDE DEF new
  <2>3. QED  BY <1>5, <2>1, <2>2, QuietMove
<1> QED  BY <1>2, <1>3, <1>4, <1>5 DEF RsyncExits, PushFails, JoinFails, Ping, PingFails

\* A command begins, under a number nobody has and nothing is committed by.
LEMMA StartNumbers ==
    ASSUME TypeInv, NumberInv, EntryInv, NEW p \in Proc, Start(p)
    PROVE  NumberInv' /\ EntryInv'
<1>1. /\ begun \in Nat /\ begun < Older + MaxCommands /\ begun' = begun + 1
      /\ begun + 1 \in CommandNo /\ pc[p] = "idle"
  BY DEF Start, TypeInv, CounterType, CommandNo
<1>2. UNCHANGED <<manifest, committed>>
  BY DEF Start, LoadEntry, RecipientList, PeerPing, LoadPeers, PeerJoin, tree, observed
<1>3. \/ UNCHANGED <<pc, local>>
      \/ /\ \A q \in Proc \ {p} : pc'[q] = pc[q] /\ local'[q] = local[q]
         /\ local'[p].no = begun + 1 /\ local'[p].image = NoImage
         /\ pc'[p] \in Succeeded => local'[p].cmd.kind # "set"
  <2>1. PICK c \in Commands[p] :
            \/ LoadEntry(p, c) \/ RecipientList(p, c)
            \/ PeerPing(p, c) \/ LoadPeers(p, c) \/ PeerJoin(p, c)
    BY DEF Start
  <2> DEFINE l == Fresh(c)
  <2>2. l \in Local /\ l.cmd = c /\ l.no = begun + 1 /\ l.image = NoImage
    BY <1>1, CommandFields, FreshType
  <2> HIDE DEF l
  <2> USE <2>2 DEF Begin, Goto, TypeInv, ControlInv, Succeeded, Contacting, Local
  <2>3. CASE LoadEntry(p, c)
    BY <2>3 DEF LoadEntry, l
  <2>4. CASE RecipientList(p, c)
    BY <2>4 DEF RecipientList, l
  <2>5. CASE PeerPing(p, c)
    <3> DEFINE list == peers[Here(p)]
               todo == IF c.name = Nil THEN Listed(list)
                       ELSE Listed(list) \intersect {c.name}
               new  == [l EXCEPT !.list = list, !.todo = todo]
    <3>1. Begin(p, "next", new) \/ UNCHANGED <<pc, local>>
      BY <2>5 DEF PeerPing, l
    <3>2. new.no = begun + 1 /\ new.image = NoImage /\ new.cmd.kind # "set"
      BY <2>2, <2>5 DEF PeerPing
    <3> HIDE DEF new
    <3>3. QED  BY <3>1, <3>2
  <2>6. CASE LoadPeers(p, c)
    BY <2>6 DEF LoadPeers, l
  <2>7. CASE PeerJoin(p, c)
    <3> DEFINE new == [l EXCEPT !.from = c.target, !.to = Here(p), !.files = File]
    <3>1. Begin(p, "join", new) \/ UNCHANGED <<pc, local>>
      BY <2>7 DEF PeerJoin, l
    <3>2. new.no = begun + 1 /\ new.image = NoImage
      BY <2>2
    <3> HIDE DEF new
    <3>3. QED  BY <3>1, <3>2
  <2> QED  BY <2>1, <2>3, <2>4, <2>5, <2>6, <2>7
<1>4. EntryInv'
  BY <1>2, <1>3 DEF EntryInv, Vouched, NoImage, NoEntry
<1>5. ASSUME NEW q \in Proc PROVE Accounted(pc[q], local[q])'
  <2>1. committed[begun + 1].version = 0
    BY <1>1 DEF NumberInv
  <2>2. Accounted(pc[q], local[q]) /\ (pc[q] # "idle" => local[q].no \in CommandNo)
    BY DEF NumberInv, TypeInv, ControlInv, WellFormed
  <2>3. CASE q = p
    BY <1>1, <1>2, <1>3, <2>1, <2>2, <2>3 DEF Accounted, Committing, Succeeded, Contacting
  <2>4. CASE q # p
    BY <1>1, <1>2, <1>3, <2>2, <2>4 DEF Accounted, CommandNo
  <2>5. QED  BY <2>3, <2>4
<1>6. ASSUME NEW q \in Proc, NEW r \in Proc, q # r, pc'[q] # "idle", pc'[r] # "idle"
      PROVE  local'[q].no # local'[r].no
  <2>1. \A s \in Proc : pc[s] # "idle" => local[s].no \in Nat /\ local[s].no <= begun
    BY DEF NumberInv, Accounted, TypeInv, ControlInv, WellFormed, CommandNo
  <2>2. QED  BY <1>1, <1>3, <1>6, <2>1 DEF NumberInv
<1>7. \A n \in CommandNo : n > begun' => committed'[n].version = 0
  BY <1>1, <1>2 DEF NumberInv, CommandNo
<1> QED  BY <1>4, <1>5, <1>6, <1>7 DEF NumberInv

\* The write that commits: of a number that had committed nothing, so that no
\* other entry is about it.
LEMMA SaveManifestNumbers ==
    ASSUME TypeInv, NumberInv, EntryInv, NEW p \in Proc, UNCHANGED begun,
           SaveManifest(p)
    PROVE  NumberInv' /\ EntryInv'
<1> DEFINE no == local[p].no
           v  == local[p].meta.version + 1
<1>1. /\ local[p] \in Local /\ Here(p) \in Leader
      /\ no \in CommandNo /\ v \in Nat /\ v # 0
      /\ committed[no].version = 0 /\ no <= begun
  BY Running DEF SaveManifest, TypeInv, NumberInv, Accounted, Committing, WellFormed,
                 Local, Entry
<1>2. /\ manifest' = [manifest EXCEPT ![Here(p)] = [version |-> v, sha |-> no]]
      /\ committed' = [committed EXCEPT ![no] = [version |-> v, at |-> Here(p)]]
      /\ pc' = [pc EXCEPT ![p] = "audit"] /\ local' = local
      /\ pc[p] = "saveManifest"
  BY DEF SaveManifest, Goto
<1> HIDE DEF no, v
<1>3. /\ committed'[no].version = v
      /\ \A n \in CommandNo : n # no => committed'[n] = committed[n]
  BY <1>1, <1>2 DEF TypeInv, StateType
<1>4. ASSUME NEW e \in Entry, Vouched(e) PROVE Vouched(e)'
  BY <1>1, <1>3, <1>4 DEF Vouched, Entry
<1>5. EntryInv'
  <2>1. ASSUME NEW l \in Leader PROVE Vouched(manifest[l])'
    <3>1. CASE l = Here(p)
      BY <1>1, <1>2, <1>3, <3>1 DEF Vouched, TypeInv, StateType
    <3>2. CASE l # Here(p)
      <4>1. manifest'[l] = manifest[l] /\ manifest[l] \in Entry /\ Vouched(manifest[l])
        BY <1>2, <3>2 DEF TypeInv, StateType, EntryInv
      <4>2. QED  BY <1>4, <4>1 DEF Vouched
    <3>3. QED  BY <3>1, <3>2
  <2>2. ASSUME NEW q \in Proc PROVE Vouched(local[q].image.manifest)'
    <3>1. local[q].image.manifest \in Entry /\ Vouched(local[q].image.manifest)
      BY DEF TypeInv, ControlInv, Local, Image, EntryInv
    <3>2. QED  BY <1>2, <1>4, <3>1 DEF Vouched
  <2>3. QED  BY <2>1, <2>2 DEF EntryInv
<1>6. ASSUME NEW q \in Proc PROVE Accounted(pc[q], local[q])'
  <2>1. Accounted(pc[q], local[q]) /\ (pc[q] # "idle" => local[q].no \in CommandNo)
    BY DEF NumberInv, TypeInv, ControlInv, WellFormed
  <2>2. CASE q = p
    BY <1>1, <1>2, <1>3, <2>2 DEF Accounted, Committing, no, TypeInv, ControlInv
  <2>3. CASE q # p
    <3>1. pc'[q] = pc[q] /\ local'[q] = local[q]
      BY <1>2, <2>3 DEF TypeInv, ControlInv
    <3>2. pc[q] # "idle" => local[q].no # no
      BY <1>2, <2>3 DEF NumberInv, no
    <3>3. QED
      BY <1>3, <2>1, <3>1, <3>2 DEF Accounted, Committing, Succeeded, Contacting
  <2>4. QED  BY <2>2, <2>3
<1>7. \A n \in CommandNo : n > begun' => committed'[n].version = 0
  BY <1>1, <1>3 DEF NumberInv, CommandNo, TypeInv, CounterType
<1>8. \A q, r \in Proc :
         q # r /\ pc'[q] # "idle" /\ pc'[r] # "idle" => local'[q].no # local'[r].no
  BY <1>2 DEF NumberInv, TypeInv, ControlInv
<1> QED  BY <1>5, <1>6, <1>7, <1>8 DEF NumberInv

LEMMA StepNumbers ==
    TypeInv /\ NumberInv /\ EntryInv /\ [Next]_vars => NumberInv' /\ EntryInv'
<1> SUFFICES ASSUME TypeInv, NumberInv, EntryInv, [Next]_vars
             PROVE  NumberInv' /\ EntryInv'
  OBVIOUS
<1>1. CASE UNCHANGED vars
  BY <1>1 DEF vars, tree, observed, NumberInv, Accounted, EntryInv, Vouched
<1>2. ASSUME NEW p \in Proc, Start(p) \/ Proceed(p) \/ Transfer(p) \/ Acquire(p)
      PROVE  NumberInv' /\ EntryInv'
  <2>1. CASE Start(p)
    BY <2>1, StartNumbers
  <2>2. CASE Proceed(p)
    BY <2>2, SaveManifestNumbers, CommandQuiet, LoopQuiet, TransferQuiet, QuietStep
       DEF Proceed
  <2>3. CASE Transfer(p)
    BY <2>3, TransferQuiet, QuietStep DEF Transfer
  <2>4. CASE Acquire(p)
    BY <2>4, CommandQuiet, QuietStep DEF Acquire
  <2> QED  BY <1>2, <2>1, <2>2, <2>3, <2>4
<1> QED  BY <1>1, <1>2 DEF Next

LEMMA AlwaysSynced == Spec => []SyncInv
<1>1. Init => SyncInv
  BY InitType, InitNumbers DEF SyncInv
<1>2. SyncInv /\ [Next]_vars => SyncInv'
  BY StepType, StepNumbers DEF SyncInv
<1> QED  BY <1>1, <1>2, PTL DEF Spec

\* However the files of stores are mixed, and wherever a transfer is cut off: a
\* bundle that passes the hash check was committed by a command, at the version
\* that the manifest beside it states.
THEOREM AcceptedBundlesWereCommitted == Spec => []ReadableIsCommitted
<1>1. SyncInv => ReadableIsCommitted
  BY DEF SyncInv, EntryInv, Vouched, ReadableIsCommitted, Exists, CommandNo, NoNumber
<1> QED  BY <1>1, AlwaysSynced, PTL

\* A push is made only for a command that has committed.
THEOREM PushesFollowCommits == Spec => []FailedCommandsDoNotPush
<1>1. SyncInv => FailedCommandsDoNotPush
  BY DEF SyncInv, NumberInv, Accounted, Succeeded, Contacting, FailedCommandsDoNotPush, Cmd
<1> QED  BY <1>1, AlwaysSynced, PTL

-----------------------------------------------------------------------------
(* The health file *)

\* A step of p leaves the places and the locals of the others alone.
LEMMA OthersStay ==
    ASSUME TypeInv, NEW p \in Proc,
           Start(p) \/ Proceed(p) \/ Transfer(p) \/ Acquire(p),
           NEW q \in Proc, q # p
    PROVE  pc'[q] = pc[q] /\ local'[q] = local[q]
<1>1. pc \in [Proc -> Step] /\ local \in [Proc -> Local]
  BY DEF TypeInv, ControlInv
<1>2. ASSUME NEW step, NEW new, Begin(p, step, new)
      PROVE  pc'[q] = pc[q] /\ local'[q] = local[q]
  BY <1>1, <1>2 DEF Begin, Goto
<1>3. CASE Return(p)
  BY <1>1, <1>3 DEF Return, Goto
<1>4. ASSUME NEW ok, NEW v, Contacted(p, ok, v)
      PROVE  pc'[q] = pc[q] /\ local'[q] = local[q]
  BY <1>2, <1>4 DEF Contacted
<1>5. CASE Start(p)
  <2>1. PICK c \in Commands[p] :
            \/ LoadEntry(p, c) \/ RecipientList(p, c)
            \/ PeerPing(p, c) \/ LoadPeers(p, c) \/ PeerJoin(p, c)
    BY <1>5 DEF Start
  <2>2. UNCHANGED <<pc, local>> \/ \E step, new : Begin(p, step, new)
    BY <2>1 DEF LoadEntry, RecipientList, PeerPing, LoadPeers, PeerJoin
  <2>3. QED  BY <1>2, <2>2
<1>6. CASE Hash(p) \/ Lock(p)
  BY <1>1, <1>3, <1>6 DEF Hash, Lock, Goto
<1>7. CASE SaveBundle(p) \/ SaveManifest(p) \/ SaveManifestFails(p) \/ RecordEvent(p)
           \/ SavePeers(p)
  BY <1>1, <1>7 DEF SaveBundle, SaveManifest, SaveManifestFails, RecordEvent, SavePeers, Goto
<1>8. CASE Undo(p) \/ RecordPeerAudit(p)
  BY <1>3, <1>8 DEF Undo, RecordPeerAudit
<1>9. CASE MaybePushPeers(p) \/ NextPeer(p) \/ LoadState(p) \/ SaveState(p)
  <2>1. Return(p) \/ \E step, new : Begin(p, step, new)
    BY <1>9 DEF MaybePushPeers, NextPeer, LoadState, SaveState
  <2>2. QED  BY <1>2, <1>3, <2>1
<1>10. CASE PushFails(p) \/ JoinFails(p) \/ RsyncExits(p) \/ Ping(p) \/ PingFails(p)
  <2>1. Return(p) \/ \E ok, v : Contacted(p, ok, v)
    BY <1>10 DEF PushFails, JoinFails, RsyncExits, Ping, PingFails
  <2>2. QED  BY <1>3, <1>4, <2>1
<1>11. CASE Send(p) \/ Install(p)
  BY <1>1, <1>11 DEF Send, Install
<1> QED
  BY <1>5, <1>6, <1>7, <1>8, <1>9, <1>10, <1>11 DEF Proceed, Transfer, Acquire

\* What a step of p may do to the health file and to what is observed of it.
LEMMA HealthStep ==
    ASSUME TypeInv, NEW p \in Proc,
           Start(p) \/ Proceed(p) \/ Transfer(p) \/ Acquire(p)
    PROVE  SaveState(p) \/ Install(p) \/ UNCHANGED <<health, contact, clobbered>>
<1>1. CASE Start(p)
  BY <1>1 DEF Start, LoadEntry, RecipientList, PeerPing, LoadPeers, PeerJoin, tree, observed
<1>2. CASE Proceed(p)
  BY <1>2 DEF Proceed, Hash, SaveBundle, SaveManifest, SaveManifestFails, Undo,
              RecordEvent, MaybePushPeers, NextPeer, PushFails, JoinFails, PingFails,
              LoadState, SavePeers, RecordPeerAudit, Contacted, tree, observed
<1>3. CASE Transfer(p)
  BY <1>3 DEF Transfer, Send, RsyncExits, PushFails, Ping, PingFails, Contacted, tree, observed
<1>4. CASE Acquire(p)
  BY <1>4 DEF Acquire, Lock, tree, observed
<1> QED  BY <1>1, <1>2, <1>3, <1>4

\* A record is as good as the contact it is of.
LEMMA RecordedTells ==
    ASSUME NEW p \in Proc, local[p] \in Local, NEW h \in Health
    PROVE  Recorded(p, h).seen /\ ~Recorded(p, h).failed <=> local[p].ok
  BY DEF Recorded, Health, Local

LEMMA SaveStateTells ==
    ASSUME TypeInv, HealthInv, NEW p \in Proc, SaveState(p)
    PROVE  HealthInv'
<1> DEFINE n == local[p].name
           s == local[p].state
           r == Recorded(p, s[n])
           c == [with |-> local[p].to, ok |-> local[p].ok]
<1>1. /\ local[p] \in Local /\ Here(p) \in Leader /\ n \in Name
      /\ s \in [Name -> Health]
  <2>1. pc[p] = "saveState"
    BY DEF SaveState
  <2>2. QED  BY <2>1, Running DEF TypeInv, WellFormed, Contacting, Local
<1>2. /\ health' = [health EXCEPT ![Here(p)] = [s EXCEPT ![n] = r]]
      /\ contact' = [contact EXCEPT ![Here(p)][n] = c]
      /\ clobbered' = [clobbered EXCEPT ![Here(p)] = @ \/ health[Here(p)] # s]
  BY DEF SaveState
<1>3. r.seen /\ ~r.failed <=> c.ok
  BY <1>1, RecordedTells
<1> HIDE DEF n, s, r, c
<1>4. /\ health \in [Leader -> [Name -> Health]]
      /\ contact \in [Leader -> [Name -> [with: Leader \union {Nil}, ok: BOOLEAN]]]
      /\ clobbered \in [Leader -> BOOLEAN]
  BY DEF TypeInv, StateType
<1> SUFFICES ASSUME NEW l \in Leader, NEW m \in Name, ~clobbered'[l]
             PROVE  health'[l][m].seen /\ ~health'[l][m].failed <=> contact'[l][m].ok
  BY DEF HealthInv
<1>5. CASE l # Here(p)
  <2>1. health'[l] = health[l] /\ contact'[l] = contact[l] /\ ~clobbered[l]
    BY ONLY <1>2, <1>4, <1>5, ~clobbered'[l], l \in Leader
  <2>2. QED  BY <2>1 DEF HealthInv
<1>6. CASE l = Here(p) /\ m = n
  <2>1. health'[l][m] = r /\ contact'[l][m] = c
    BY ONLY <1>1, <1>2, <1>4, <1>6
  <2>2. QED  BY <1>3, <2>1
<1>7. CASE l = Here(p) /\ m # n
  <2>1. ~clobbered[l] /\ health[l] = s
    BY ONLY <1>1, <1>2, <1>4, <1>7, ~clobbered'[l]
  <2>2. health'[l][m] = health[l][m] /\ contact'[l][m] = contact[l][m]
    BY ONLY <1>1, <1>2, <1>4, <1>7, <2>1, m \in Name
  <2>3. QED  BY <2>1, <2>2 DEF HealthInv
<1> QED  BY <1>5, <1>6, <1>7

\* A health file that a join brings along counts as written over.
LEMMA InstallTells ==
    ASSUME TypeInv, HealthInv, NEW p \in Proc, Install(p)
    PROVE  HealthInv'
<1>1. /\ contact' = contact
      /\ \/ UNCHANGED <<health, clobbered>>
         \/ \E l \in Leader : \E h : /\ health' = [health EXCEPT ![l] = h]
                                      /\ clobbered' = [clobbered EXCEPT ![l] = TRUE]
  <2>1. local[p].to \in Leader
    BY Running DEF TypeInv, Install, Copying, WellFormed
  <2>2. QED  BY ONLY <2>1, Install(p) DEF Install
<1>2. health \in [Leader -> [Name -> Health]] /\ clobbered \in [Leader -> BOOLEAN]
  BY DEF TypeInv, StateType
<1>3. CASE UNCHANGED <<health, clobbered>>
  BY <1>1, <1>3 DEF HealthInv
<1>4. ASSUME NEW k \in Leader, NEW h,
             health' = [health EXCEPT ![k] = h],
             clobbered' = [clobbered EXCEPT ![k] = TRUE]
      PROVE  HealthInv'
  <2>1. clobbered'[k] = TRUE
    BY ONLY <1>2, <1>4
  <2>2. \A l \in Leader \ {k} : health'[l] = health[l] /\ clobbered'[l] = clobbered[l]
    BY ONLY <1>2, <1>4
  <2>3. QED  BY <1>1, <2>1, <2>2 DEF HealthInv
<1>5. QED  BY <1>1, <1>3, <1>4

LEMMA InitHealth == Init => HealthInv
  BY DEF Init, HealthInv, NoHealth

LEMMA StepHealth == TypeInv /\ HealthInv /\ [Next]_vars => HealthInv'
<1> SUFFICES ASSUME TypeInv, HealthInv, [Next]_vars PROVE HealthInv'
  OBVIOUS
<1>1. CASE UNCHANGED <<health, contact, clobbered>>
  BY <1>1 DEF HealthInv
<1>2. CASE UNCHANGED vars
  BY <1>1, <1>2 DEF vars, tree, observed
<1>3. ASSUME NEW p \in Proc, Start(p) \/ Proceed(p) \/ Transfer(p) \/ Acquire(p)
      PROVE  HealthInv'
  BY <1>1, <1>3, HealthStep, SaveStateTells, InstallTells
<1> QED  BY <1>2, <1>3 DEF Next

\* Over any sequence of pushes, pings and failures, doctor's verdict is that of
\* the last contact recorded, until one process writes over what another wrote
\* (classifyPeer on what RecordPush* and RecordPingResult leave).
THEOREM VerdictsAreOfTheLastContact == Spec => []DoctorTellsLastContact
<1>1. TypeInv /\ HealthInv => DoctorTellsLastContact
  BY DEF TypeInv, StateType, HealthInv, DoctorTellsLastContact, Verdict, Listed
<1> QED  BY <1>1, AlwaysTyped, InitHealth, StepHealth, PTL DEF Spec

-----------------------------------------------------------------------------
(* Pushes that nobody disturbs *)

\* A shared file in flight is what its leader has.
LEMMA ReadOf ==
    ASSUME NEW l
    PROVE  /\ Read("manifest", l).manifest = manifest[l]
           /\ Read("bundle", l).bundle = bundle[l]
           /\ Read("audit", l).audit = audit[l]
           /\ Read("lockFile", l).lockFile = lockFile[l]
  BY DEF Read, NoImage

\* Whether a shared file is the same at two leaders, and what is read of it,
\* depends on the files that are shared.
LEMMA SharedSame ==
    ASSUME NEW l, NEW m, ~SharedChanged(l), ~SharedChanged(m), NEW f \in Shared
    PROVE  (Same(f, l, m)' <=> Same(f, l, m)) /\ Read(f, l)' = Read(f, l)
<1>1. /\ manifest'[l] = manifest[l] /\ bundle'[l] = bundle[l] /\ audit'[l] = audit[l]
      /\ manifest'[m] = manifest[m] /\ bundle'[m] = bundle[m] /\ audit'[m] = audit[m]
      /\ lockFile'[l] = lockFile[l] /\ lockFile'[m] = lockFile[m]
  BY DEF SharedChanged
<1>2. CASE f = "manifest"
  BY <1>1, <1>2 DEF Same, Read
<1>3. CASE f = "bundle"
  BY <1>1, <1>3 DEF Same, Read
<1>4. CASE f = "audit"
  BY <1>1, <1>4 DEF Same, Read
<1>5. CASE f = "lockFile"
  BY <1>1, <1>5 DEF Same, Read
<1> QED  BY <1>2, <1>3, <1>4, <1>5 DEF Shared

\* Mirrors(p) at the next state, told file by file.
LEMMA MirrorsNext ==
    ASSUME NEW p \in Proc, NEW l, NEW m, local'[p].from = l, local'[p].to = m,
           \A f \in Shared \ local'[p].files : Same(f, l, m)',
           \/ local'[p].file = Nil
           \/ \E f \in Shared : /\ local'[p].file = f /\ f \in local'[p].files
                                /\ local'[p].image = Read(f, l)'
    PROVE  Mirrors(p)'
<1>1. \A f \in Shared \ local'[p].files : Same(f, local[p].from, local[p].to)'
  <2> SUFFICES ASSUME NEW f \in Shared \ local'[p].files
               PROVE  Same(f, local[p].from, local[p].to)'
    OBVIOUS
  <2>1. Same(f, l, m)'
    OBVIOUS
  <2>2. QED  BY <2>1 DEF Same
<1>2. ASSUME local'[p].file # Nil
      PROVE  /\ local'[p].file \in local'[p].files
             /\ local'[p].image = Read(local[p].file, local[p].from)'
  <2>1. PICK f \in Shared : /\ local'[p].file = f /\ f \in local'[p].files
                            /\ local'[p].image = Read(f, l)'
    BY <1>2
  <2>2. QED  BY <2>1 DEF Read
<1> QED  BY <1>1, <1>2 DEF Mirrors

\* What p does while it pushes, and how it begins to.
LEMMA PushSteps ==
    ASSUME TypeInv, NEW p \in Proc,
           Start(p) \/ Proceed(p) \/ Transfer(p) \/ Acquire(p), pc'[p] = "rsync"
    PROVE  \/ pc[p] = "rsync" /\ (Send(p) \/ Install(p))
           \/ pc[p] # "rsync" /\ local'[p].files = Shared /\ local'[p].file = Nil
<1>1. /\ pc \in [Proc -> Step] /\ local \in [Proc -> Local]
      /\ local[p] \in Local /\ WellFormed(p, pc[p], local[p])
  BY Running DEF TypeInv, ControlInv
<1>2. \A step, new : Begin(p, step, new) => pc'[p] = step /\ local'[p] = new
  BY <1>1 DEF Begin, Goto
<1>3. \A step : Goto(p, step) => pc'[p] = step
  BY <1>1 DEF Goto
<1>4. ~Return(p)
  BY <1>3 DEF Return
<1>5. \A ok, v : ~Contacted(p, ok, v)
  BY <1>2 DEF Contacted
<1>6. CASE Start(p)
  <2>1. PICK c \in Commands[p] :
            \/ LoadEntry(p, c) \/ RecipientList(p, c)
            \/ PeerPing(p, c) \/ LoadPeers(p, c) \/ PeerJoin(p, c)
    BY <1>6 DEF Start
  <2>2. \/ UNCHANGED <<pc, local>>
        \/ \E step \in {"hash", "push", "next", "savePeers", "join"} : \E new : Begin(p, step, new)
    BY <2>1 DEF LoadEntry, RecipientList, PeerPing, LoadPeers, PeerJoin
  <2>3. pc[p] = "idle"
    BY <1>6 DEF Start
  <2>4. QED  BY <1>2, <2>2, <2>3
<1>7. CASE NextPeer(p)
  <2>1. PICK n \in local[p].todo :
           IF Cmd(p).kind = "ping"
           THEN Begin(p, "ssh", [local[p] EXCEPT !.todo = @ \ {n}, !.name = n,
                                                 !.to = local[p].list[n]])
           ELSE Begin(p, "rsync", [local[p] EXCEPT !.todo = @ \ {n}, !.name = n,
                                                   !.from = Here(p),
                                                   !.to = local[p].list[n],
                                                   !.files = PushedFiles])
    BY <1>4, <1>7 DEF NextPeer
  <2> DEFINE pushed == [local[p] EXCEPT !.todo = @ \ {n}, !.name = n,
                                        !.from = Here(p), !.to = local[p].list[n],
                                        !.files = PushedFiles]
  <2>2. Begin(p, "rsync", pushed)
    BY <1>2, <2>1
  <2>3. pushed.files = Shared /\ pushed.file = local[p].file
    BY ONLY <1>1 DEF Local, PushedFiles
  <2>4. pc[p] = "next"
    BY <1>7 DEF NextPeer
  <2>5. local[p].file = Nil
    BY <1>1, <2>4 DEF WellFormed
  <2> HIDE DEF pushed
  <2>6. QED  BY <1>2, <2>2, <2>3, <2>4, <2>5
<1>8. CASE Proceed(p) /\ ~NextPeer(p)
  <2>1. \/ Hash(p) \/ SaveBundle(p) \/ SaveManifest(p) \/ SaveManifestFails(p) \/ Undo(p)
        \/ RecordEvent(p) \/ SavePeers(p) \/ RecordPeerAudit(p)
        \/ MaybePushPeers(p) \/ PushFails(p) \/ JoinFails(p) \/ PingFails(p) \/ LoadState(p) \/ SaveState(p)
    BY <1>8 DEF Proceed
  <2>2. CASE \/ Hash(p) \/ SaveBundle(p) \/ SaveManifest(p) \/ SaveManifestFails(p)
             \/ Undo(p) \/ RecordEvent(p) \/ SavePeers(p) \/ RecordPeerAudit(p)
    <3>1. Return(p) \/ \E step \in Step \ {"rsync"} : Goto(p, step)
      BY <2>2 DEF Hash, SaveBundle, SaveManifest, SaveManifestFails, Undo, RecordEvent,
                  SavePeers, RecordPeerAudit, Step
    <3>2. QED  BY <1>3, <1>4, <3>1
  <2>3. CASE MaybePushPeers(p) \/ PushFails(p) \/ JoinFails(p) \/ PingFails(p) \/ LoadState(p) \/ SaveState(p)
    <3>1. \/ Return(p)
          \/ \E step \in Step \ {"rsync"} : \E new : Begin(p, step, new)
          \/ \E ok, v : Contacted(p, ok, v)
      BY <2>3 DEF MaybePushPeers, PushFails, JoinFails, PingFails, LoadState, SaveState, Step
    <3>2. QED  BY <1>2, <1>4, <1>5, <3>1
  <2>4. QED  BY <2>1, <2>2, <2>3
<1>9. CASE Transfer(p)
  BY <1>4, <1>5, <1>9 DEF Transfer, RsyncExits, PushFails, Ping, PingFails, Send, Install
<1>10. CASE Acquire(p)
  BY <1>3, <1>4, <1>10 DEF Acquire, Lock
<1> QED  BY <1>6, <1>7, <1>8, <1>9, <1>10

\* A file is found to be the same, or is read.
LEMMA SendMirrors ==
    ASSUME TypeInv, NEW p \in Proc, Mirrors(p), Send(p), pc[p] = "rsync", calm[p]
    PROVE  Mirrors(p)'
<1> DEFINE l == local[p]
<1>1. /\ l \in Local /\ local \in [Proc -> Local] /\ l.file = Nil /\ l.files \subseteq Shared
      /\ UNCHANGED <<manifest, bundle, audit, peers, health, lockFile>>
  BY Running DEF TypeInv, ControlInv, Send, tree, WellFormed
<1>2. PICK f \in l.files :
         local' = [local EXCEPT ![p] =
                      IF UpToDate(f, l.from, l.to)
                      THEN [l EXCEPT !.files = @ \ {f}]
                      ELSE [l EXCEPT !.file = f, !.image = Read(f, l.from)]]
  BY DEF Send
<1>3. \A g \in Shared \ l.files : Same(g, l.from, l.to)
  BY DEF Mirrors
<1>0. PICK from, to : from = l.from /\ to = l.to
  OBVIOUS
<1> DEFINE skipped == [l EXCEPT !.files = @ \ {f}]
           sent == [l EXCEPT !.file = f, !.image = Read(f, l.from)]
<1>4. /\ skipped.files = l.files \ {f} /\ skipped.file = l.file
      /\ skipped.from = from /\ skipped.to = to
      /\ sent.files = l.files /\ sent.file = f /\ sent.image = Read(f, from)
      /\ sent.from = from /\ sent.to = to
  BY ONLY <1>0, <1>1 DEF Local
<1>5. local'[p] = IF UpToDate(f, from, to) THEN skipped ELSE sent
  BY ONLY <1>0, <1>1, <1>2, p \in Proc
<1> HIDE DEF l, skipped, sent
<1>6. \A g, a, b : (Same(g, a, b)' <=> Same(g, a, b)) /\ Read(g, a)' = Read(g, a)
  BY <1>1 DEF Same, Read
<1>7. CASE UpToDate(f, from, to)
  BY <1>0, <1>1, <1>3, <1>4, <1>5, <1>6, <1>7, MirrorsNext DEF UpToDate
<1>8. CASE ~UpToDate(f, from, to)
  BY <1>0, <1>1, <1>2, <1>3, <1>4, <1>5, <1>6, <1>8, MirrorsNext
<1> QED  BY <1>7, <1>8

\* What is installed is what the leader still has.
LEMMA InstallMirrors ==
    ASSUME TypeInv, NEW p \in Proc, Mirrors(p), Install(p), pc[p] = "rsync", calm[p]
    PROVE  Mirrors(p)'
<1> DEFINE l == local[p]
           new == [l EXCEPT !.files = @ \ {l.file}, !.file = Nil, !.image = NoImage]
<1>0. PICK a, b : a = l.from /\ b = l.to
  OBVIOUS
<1>1. /\ l \in Local /\ local \in [Proc -> Local] /\ l.file # Nil
      /\ a \in Leader /\ b \in Leader /\ l.file \in Shared
  BY <1>0, Running DEF TypeInv, ControlInv, Install, WellFormed
<1>2. local' = [local EXCEPT ![p] = new]
  BY <1>1 DEF Install
<1>3. /\ new.files = l.files \ {l.file} /\ new.file = Nil /\ new.from = a /\ new.to = b
  BY ONLY <1>0, <1>1 DEF Local
<1>4. local'[p] = new
  BY <1>1, <1>2
<1>5. /\ \A f \in Shared \ l.files : Same(f, a, b)
      /\ l.image = Read(l.file, a)
  BY <1>0, <1>1 DEF Mirrors
<1>6. /\ manifest' = IF l.file = "manifest" THEN [manifest EXCEPT ![b] = l.image.manifest]
                     ELSE manifest
      /\ bundle' = IF l.file = "bundle" THEN [bundle EXCEPT ![b] = l.image.bundle]
                   ELSE bundle
      /\ audit' = IF l.file = "audit" THEN [audit EXCEPT ![b] = l.image.audit] ELSE audit
      /\ lockFile' = IF l.file = "lockFile" THEN [lockFile EXCEPT ![b] = l.image.lockFile]
                     ELSE lockFile
  BY <1>0 DEF Install
<1>7. /\ DOMAIN manifest = Leader /\ DOMAIN bundle = Leader /\ DOMAIN audit = Leader
      /\ manifest = [k \in Leader |-> manifest[k]] /\ bundle = [k \in Leader |-> bundle[k]]
      /\ audit = [k \in Leader |-> audit[k]]
      /\ DOMAIN lockFile = Leader /\ lockFile = [k \in Leader |-> lockFile[k]]
  BY DEF TypeInv, StateType
<1> HIDE DEF l, new
<1>8. \A f \in Shared : f = l.file \/ Same(f, a, b) => Same(f, a, b)'
  <2> SUFFICES ASSUME NEW f \in Shared, f = l.file \/ Same(f, a, b)
               PROVE  Same(f, a, b)'
    OBVIOUS
  <2>1. CASE f = "manifest"
    <3>1. CASE l.file = f
      <4>1. l.image.manifest = manifest[a]
        BY <1>5, <2>1, <3>1, ReadOf
      <4>2. manifest'[a] = manifest'[b]
        BY ONLY <1>1, <1>6, <1>7, <2>1, <3>1, <4>1
      <4>3. QED  BY <2>1, <4>2 DEF Same
    <3>2. CASE l.file # f
      <4>1. Same(f, a, b) /\ manifest' = manifest
        BY <1>6, <2>1, <3>2
      <4>2. QED  BY <2>1, <4>1 DEF Same
    <3>3. QED  BY <3>1, <3>2
  <2>2. CASE f = "bundle"
    <3>1. CASE l.file = f
      <4>1. l.image.bundle = bundle[a]
        BY <1>5, <2>2, <3>1, ReadOf
      <4>2. bundle'[a] = bundle'[b]
        BY ONLY <1>1, <1>6, <1>7, <2>2, <3>1, <4>1
      <4>3. QED  BY <2>2, <4>2 DEF Same
    <3>2. CASE l.file # f
      <4>1. Same(f, a, b) /\ bundle' = bundle
        BY <1>6, <2>2, <3>2
      <4>2. QED  BY <2>2, <4>1 DEF Same
    <3>3. QED  BY <3>1, <3>2
  <2>3. CASE f = "audit"
    <3>1. CASE l.file = f
      <4>1. l.image.audit = audit[a]
        BY <1>5, <2>3, <3>1, ReadOf
      <4>2. audit'[a] = audit'[b]
        BY ONLY <1>1, <1>6, <1>7, <2>3, <3>1, <4>1
      <4>3. QED  BY <2>3, <4>2 DEF Same
    <3>2. CASE l.file # f
      <4>1. Same(f, a, b) /\ audit' = audit
        BY <1>6, <2>3, <3>2
      <4>2. QED  BY <2>3, <4>1 DEF Same
    <3>3. QED  BY <3>1, <3>2
  <2>4. CASE f = "lockFile"
    <3>1. CASE l.file = f
      <4>1. l.image.lockFile = lockFile[a]
        BY <1>5, <2>4, <3>1, ReadOf
      <4>2. lockFile'[a] = lockFile'[b]
        BY ONLY <1>1, <1>6, <1>7, <2>4, <3>1, <4>1
      <4>3. QED  BY <2>4, <4>2 DEF Same
    <3>2. CASE l.file # f
      <4>1. Same(f, a, b) /\ lockFile' = lockFile
        BY <1>6, <2>4, <3>2
      <4>2. QED  BY <2>4, <4>1 DEF Same
    <3>3. QED  BY <3>1, <3>2
  <2>5. QED  BY <2>1, <2>2, <2>3, <2>4 DEF Shared
<1>9. QED  BY <1>3, <1>4, <1>5, <1>8, MirrorsNext

LEMMA InitMirror == Init => MirrorInv
  BY DEF Init, MirrorInv, Mirrors

LEMMA StepMirror == TypeInv /\ MirrorInv /\ [Next]_vars => MirrorInv'
<1> SUFFICES ASSUME TypeInv, MirrorInv, [Next]_vars PROVE MirrorInv'
  OBVIOUS
<1>1. CASE UNCHANGED vars
  BY <1>1 DEF vars, tree, MirrorInv, Mirrors, Same, Read
<1>2. ASSUME NEW p \in Proc, Start(p) \/ Proceed(p) \/ Transfer(p) \/ Acquire(p), Watch(p),
             NEW q \in Proc, pc'[q] = "rsync", calm'[q]
      PROVE  Mirrors(q)'
  <2>1. \/ pc[q] # "rsync"
        \/ calm[q] /\ q = p
        \/ calm[q] /\ ~SharedChanged(local[q].from) /\ ~SharedChanged(local[q].to)
    BY <1>2 DEF Watch
  <2>2. Mirrors(q)
    BY DEF MirrorInv
  <2>3. CASE q = p /\ pc[p] = "rsync" /\ calm[p]
    BY <1>2, <2>2, <2>3, PushSteps, SendMirrors, InstallMirrors
  <2>4. CASE q = p /\ pc[p] # "rsync"
    <3>1. local'[q].files = Shared /\ local'[q].file = Nil
      BY <1>2, <2>4, PushSteps
    <3>2. QED  BY <3>1, MirrorsNext
  <2>5. CASE q # p
    <3>1. pc[q] = "rsync" /\ local'[q] = local[q]
      BY <1>2, <2>5, OthersStay
    <3>2. calm[q] /\ ~SharedChanged(local[q].from) /\ ~SharedChanged(local[q].to)
      BY <2>1, <2>5, <3>1
    <3>3. PICK a, b : /\ a = local[q].from /\ a = local'[q].from
                      /\ b = local[q].to /\ b = local'[q].to
      BY <3>1
    <3>4. /\ \A f \in Shared \ local[q].files : Same(f, a, b)
          /\ local[q].file # Nil => /\ local[q].file \in local[q].files
                                    /\ local[q].image = Read(local[q].file, a)
      BY <2>2, <3>1, <3>2, <3>3 DEF Mirrors
    <3>5. local[q].file # Nil => local[q].file \in Shared
      BY <3>1, Running DEF TypeInv, WellFormed
    <3>6. ~SharedChanged(a) /\ ~SharedChanged(b)
      BY <3>2, <3>3 DEF SharedChanged
    <3>7. \A f \in Shared : (Same(f, a, b)' <=> Same(f, a, b)) /\ Read(f, a)' = Read(f, a)
      BY <3>6, SharedSame
    <3>8. QED  BY <3>1, <3>3, <3>4, <3>5, <3>7, MirrorsNext
  <2>6. QED  BY <2>1, <2>3, <2>4, <2>5
<1>3. ASSUME NEW p \in Proc, Start(p) \/ Proceed(p) \/ Transfer(p) \/ Acquire(p), Watch(p)
      PROVE  MirrorInv'
  BY <1>2, <1>3 DEF MirrorInv, Mirrors
<1> QED  BY <1>1, <1>3 DEF Next

\* A push that nobody disturbs leaves the peer with what the leader has, whatever
\* an earlier one has left there, and whatever other pushes, joins and commands do
\* elsewhere (pushOnePeer).
THEOREM PushesMirror == Spec => []UndisturbedPushMirrors
<1>1. MirrorInv => UndisturbedPushMirrors
  BY DEF MirrorInv, Mirrors, UndisturbedPushMirrors
<1> QED  BY <1>1, AlwaysTyped, InitMirror, StepMirror, PTL DEF Spec

-----------------------------------------------------------------------------
(* Stores that stay *)

\* What a step of p may do to the manifests and to what is observed of commits.
LEMMA ManifestStep ==
    ASSUME NEW p \in Proc, Start(p) \/ Proceed(p) \/ Transfer(p) \/ Acquire(p)
    PROVE  SaveManifest(p) \/ Install(p) \/ UNCHANGED <<manifest, committed>>
<1>1. CASE Start(p)
  BY <1>1 DEF Start, LoadEntry, RecipientList, PeerPing, LoadPeers, PeerJoin, tree, observed
<1>2. CASE Proceed(p)
  BY <1>2 DEF Proceed, Hash, SaveBundle, SaveManifestFails, Undo, RecordEvent,
              MaybePushPeers, NextPeer, PushFails, JoinFails, PingFails, LoadState, SaveState,
              SavePeers, RecordPeerAudit, Contacted, tree, observed
<1>3. CASE Transfer(p)
  BY <1>3 DEF Transfer, Send, RsyncExits, PushFails, Ping, PingFails, Contacted, tree, observed
<1>4. CASE Acquire(p)
  BY <1>4 DEF Acquire, Lock, tree, observed
<1> QED  BY <1>1, <1>2, <1>3, <1>4

LEMMA SaveManifestAt ==
    ASSUME TypeInv, NEW p \in Proc, SaveManifest(p)
    PROVE  /\ Exists(Here(p))'
           /\ \A l \in Leader : l # Here(p) => manifest'[l] = manifest[l]
           /\ \A n \in CommandNo : committed'[n] = committed[n] \/ committed'[n].at = Here(p)
<1> DEFINE v == local[p].meta.version + 1
           no == local[p].no
<1>1. Here(p) \in Leader /\ v # 0
  BY Running DEF TypeInv, Local, Entry
<1>2. /\ manifest' = [manifest EXCEPT ![Here(p)] = [version |-> v, sha |-> no]]
      /\ committed' = [committed EXCEPT ![no] = [version |-> v, at |-> Here(p)]]
  BY DEF SaveManifest
<1> HIDE DEF v, no
<1>3. manifest'[Here(p)].version = v
  BY <1>1, <1>2 DEF TypeInv, StateType
<1>4. \A l \in Leader : l # Here(p) => manifest'[l] = manifest[l]
  BY <1>1, <1>2 DEF TypeInv, StateType
<1>5. \A n \in CommandNo : committed'[n] = committed[n] \/ committed'[n].at = Here(p)
  BY <1>2 DEF TypeInv, StateType
<1> QED  BY <1>1, <1>3, <1>4, <1>5 DEF Exists

\* Nobody takes the entry away, but one that joins.
LEMMA ExistsStays ==
    ASSUME TypeInv, NEW p \in Proc, Stands(p),
           Start(p) \/ Proceed(p) \/ Transfer(p) \/ Acquire(p),
           NEW l \in Leader, Exists(l),
           ~(pc[p] = "join" /\ l = Here(p))
    PROVE  Exists(l)'
<1>1. CASE SaveManifest(p)
  BY <1>1, SaveManifestAt DEF Exists
<1>2. CASE Install(p)
  <2>1. /\ pc[p] \in {"rsync", "join"} /\ local[p].to \in Leader
        /\ pc[p] = "join" => local[p].to = Here(p)
    BY <1>2, Running DEF TypeInv, Install, Copying, WellFormed
  <2> DEFINE e == local[p].image.manifest
             to == local[p].to
  <2>2. \/ manifest' = manifest
        \/ local[p].file = "manifest" /\ manifest' = [manifest EXCEPT ![to] = e]
    BY <1>2 DEF Install
  <2>3. local[p].file = "manifest" => e.version # 0 \/ pc[p] = "join"
    BY DEF Stands
  <2>4. manifest \in [Leader -> Entry]
    BY DEF TypeInv, StateType
  <2> HIDE DEF e
  <2>5. manifest'[l].version # 0
    BY <2>1, <2>2, <2>3, <2>4 DEF Exists
  <2>6. QED  BY <2>5 DEF Exists
<1>3. CASE UNCHANGED <<manifest, committed>>
  BY <1>3 DEF Exists
<1> QED  BY <1>1, <1>2, <1>3, ManifestStep

\* Stands(p) at the next state, for the place and the locals there.
LEMMA StandsNext ==
    ASSUME NEW p \in Proc, NEW step, NEW new, pc'[p] = step, local'[p] = new,
           step # "idle" => new.cmd \in Commands[p],
           step = "ssh" => new.cmd.kind = "ping",
           step = "rsync" => new.cmd.kind # "ping" /\ new.from = Here(p),
           step \in Pushing /\ new.cmd.kind # "ping" => Exists(Here(p))',
           step = "join" => new.cmd.kind = "join",
           new.file = "manifest" => new.image.manifest.version # 0 \/ step = "join"
    PROVE  Stands(p)'
  BY DEF Stands, Cmd

LEMMA StandsIdle ==
    ASSUME TypeInv, NEW p \in Proc, Return(p)
    PROVE  Stands(p)'
<1>1. pc'[p] = "idle" /\ local'[p] = NoLocal
  BY DEF Return, Goto, TypeInv, ControlInv
<1>2. NoLocal.file # "manifest"
  BY DEF NoLocal, File, Shared
<1> QED  BY <1>1, <1>2, StandsNext DEF Pushing

\* A command goes on, with no file in flight and no peer it is about to contact.
LEMMA StandsAhead ==
    ASSUME TypeInv, NEW p \in Proc, Stands(p),
           Start(p) \/ Proceed(p) \/ Transfer(p) \/ Acquire(p),
           pc[p] \notin {"idle", "join"}, pc'[p] \notin {"ssh", "rsync", "join"},
           local'[p].cmd = Cmd(p), local'[p].file = Nil,
           pc'[p] \in Pushing => pc[p] \in Pushing \union {"ssh"} \/ SaveManifest(p)
    PROVE  Stands(p)'
<1>1. Here(p) \in Leader
  BY Running DEF TypeInv
<1>2. pc'[p] \in Pushing /\ Cmd(p).kind # "ping" => Exists(Here(p))'
  <2>1. CASE SaveManifest(p)
    BY <2>1, SaveManifestAt
  <2>2. CASE pc[p] = "ssh"
    BY <2>2 DEF Stands
  <2>3. CASE pc[p] \in Pushing
    BY <1>1, <2>3, ExistsStays DEF Stands
  <2>4. QED  BY <2>1, <2>2, <2>3
<1>3. Cmd(p) \in Commands[p]
  BY DEF Stands
<1>4. Nil # "manifest"
  BY DEF File, Shared
<1> QED  BY <1>2, <1>3, <1>4, StandsNext

LEMMA CommandStands ==
    ASSUME TypeInv, NEW p \in Proc, Stands(p),
           Start(p) \/ Proceed(p) \/ Transfer(p) \/ Acquire(p),
           \/ Hash(p) \/ Lock(p) \/ SaveBundle(p) \/ SaveManifest(p) \/ SaveManifestFails(p)
           \/ Undo(p) \/ RecordEvent(p) \/ SavePeers(p) \/ RecordPeerAudit(p)
    PROVE  Stands(p)'
<1>1. /\ pc \in [Proc -> Step] /\ local \in [Proc -> Local]
      /\ local[p] \in Local /\ WellFormed(p, pc[p], local[p])
  BY Running DEF TypeInv, ControlInv
<1>2. CASE Return(p)
  BY <1>2, StandsIdle
<1>3. ASSUME ~Return(p)
      PROVE  /\ pc[p] \notin {"idle", "join", "rsync"}
             /\ pc'[p] \notin {"ssh", "rsync", "join"}
             /\ pc'[p] \in Pushing => pc[p] \in Pushing \/ SaveManifest(p)
  BY <1>1, <1>3 DEF Hash, Lock, SaveBundle, SaveManifest, SaveManifestFails, Undo,
                    RecordEvent, SavePeers, RecordPeerAudit, Goto, Pushing
<1>4. ASSUME ~Return(p)
      PROVE  local'[p].cmd = Cmd(p) /\ local'[p].file = local[p].file
  <2>1. \/ local' = local
        \/ local' = [local EXCEPT ![p].saved = bundle[Here(p)]]
    BY <1>4 DEF Hash, Lock, SaveBundle, SaveManifest, SaveManifestFails, Undo,
                RecordEvent, SavePeers, RecordPeerAudit
  <2>2. QED  BY <1>1, <2>1 DEF Local, Cmd
<1>5. local[p].file = Nil \/ Return(p)
  BY <1>1, <1>3 DEF WellFormed
<1> QED  BY <1>2, <1>3, <1>4, <1>5, StandsAhead

LEMMA ContactStands ==
    ASSUME TypeInv, NEW p \in Proc, Stands(p),
           Start(p) \/ Proceed(p) \/ Transfer(p) \/ Acquire(p),
           \/ MaybePushPeers(p) \/ LoadState(p) \/ SaveState(p)
           \/ PushFails(p) \/ JoinFails(p) \/ RsyncExits(p) \/ Ping(p) \/ PingFails(p)
    PROVE  Stands(p)'
<1>1. /\ pc \in [Proc -> Step] /\ local \in [Proc -> Local]
      /\ local[p] \in Local /\ WellFormed(p, pc[p], local[p])
  BY Running DEF TypeInv, ControlInv
<1>2. CASE Return(p)
  BY <1>2, StandsIdle
<1>3. ASSUME NEW step \in {"next", "loadState", "saveState"}, NEW new, Begin(p, step, new),
             new.cmd = Cmd(p), new.file = Nil, pc[p] \in Pushing \union {"ssh"}
      PROVE  Stands(p)'
  <2>1. pc'[p] = step /\ local'[p] = new
    BY ONLY <1>1, <1>3 DEF Begin, Goto
  <2>2. QED  BY <1>3, <2>1, StandsAhead DEF Pushing
<1>4. ASSUME NEW ok, NEW v, Contacted(p, ok, v), pc[p] \in Pushing \union {"ssh"}
      PROVE  Stands(p)'
  <2> DEFINE new == [local[p] EXCEPT !.ok = ok, !.versions = v, !.from = Nil,
                                     !.files = {}, !.file = Nil, !.image = NoImage]
  <2>1. new.cmd = Cmd(p) /\ new.file = Nil
    BY ONLY <1>1 DEF Local, Cmd
  <2>2. Begin(p, "loadState", new)
    BY ONLY <1>4 DEF Contacted
  <2> HIDE DEF new
  <2>3. QED  BY <1>3, <1>4, <2>1, <2>2
<1>5. CASE MaybePushPeers(p)
  <2> DEFINE new == [local[p] EXCEPT !.list = peers[Here(p)],
                                     !.todo = Listed(peers[Here(p)])]
  <2>1. pc[p] = "push" /\ (Return(p) \/ Begin(p, "next", new))
    BY ONLY <1>5 DEF MaybePushPeers
  <2>2. new.cmd = Cmd(p) /\ new.file = local[p].file
    BY ONLY <1>1 DEF Local, Cmd
  <2>3. local[p].file = Nil
    BY <1>1, <2>1 DEF WellFormed
  <2> HIDE DEF new
  <2>4. QED  BY <1>2, <1>3, <2>1, <2>2, <2>3 DEF Pushing
<1>6. CASE LoadState(p)
  <2> DEFINE new == [local[p] EXCEPT !.state = health[Here(p)]]
  <2>1. pc[p] = "loadState" /\ Begin(p, "saveState", new)
    BY ONLY <1>6 DEF LoadState
  <2>2. new.cmd = Cmd(p) /\ new.file = local[p].file
    BY ONLY <1>1 DEF Local, Cmd
  <2>3. local[p].file = Nil
    BY <1>1, <2>1 DEF WellFormed
  <2> HIDE DEF new
  <2>4. QED  BY <1>3, <2>1, <2>2, <2>3 DEF Pushing
<1>7. CASE SaveState(p)
  <2> DEFINE new == [local[p] EXCEPT !.name = Nil, !.to = Nil, !.ok = FALSE,
                                     !.versions = 0, !.state = NoLocal.state]
  <2>1. pc[p] = "saveState" /\ Begin(p, "next", new)
    BY ONLY <1>7 DEF SaveState
  <2>2. new.cmd = Cmd(p) /\ new.file = local[p].file
    BY ONLY <1>1 DEF Local, Cmd
  <2>3. local[p].file = Nil
    BY <1>1, <2>1 DEF WellFormed
  <2> HIDE DEF new
  <2>4. QED  BY <1>3, <2>1, <2>2, <2>3 DEF Pushing
<1>8. CASE PushFails(p) \/ JoinFails(p) \/ RsyncExits(p) \/ Ping(p) \/ PingFails(p)
  <2>1. \/ Return(p)
        \/ pc[p] \in {"rsync", "ssh"} /\ \E ok, v : Contacted(p, ok, v)
    BY <1>8 DEF PushFails, JoinFails, RsyncExits, Ping, PingFails
  <2>2. QED  BY <1>2, <1>4, <2>1 DEF Pushing
<1> QED  BY <1>5, <1>6, <1>7, <1>8

\* The next peer is pinged by a ping and pushed to, from here, by the others.
LEMMA NextPeerStands ==
    ASSUME TypeInv, NEW p \in Proc, Stands(p),
           Start(p) \/ Proceed(p) \/ Transfer(p) \/ Acquire(p), NextPeer(p)
    PROVE  Stands(p)'
<1>1. /\ pc \in [Proc -> Step] /\ local \in [Proc -> Local]
      /\ local[p] \in Local /\ WellFormed(p, pc[p], local[p])
  BY Running DEF TypeInv, ControlInv
<1>2. CASE Return(p)
  BY <1>2, StandsIdle
<1>3. pc[p] = "next" /\ local[p].file = Nil /\ Nil # "manifest"
  BY <1>1 DEF NextPeer, WellFormed, File, Shared
<1>4. /\ Cmd(p) \in Commands[p]
      /\ Cmd(p).kind # "ping" => Exists(Here(p)) /\ Exists(Here(p))'
  BY <1>3, Running, ExistsStays DEF Stands, Pushing, TypeInv
<1>5. ASSUME NEW n \in local[p].todo,
             IF Cmd(p).kind = "ping"
             THEN Begin(p, "ssh", [local[p] EXCEPT !.todo = @ \ {n}, !.name = n,
                                                   !.to = local[p].list[n]])
             ELSE Begin(p, "rsync", [local[p] EXCEPT !.todo = @ \ {n}, !.name = n,
                                                     !.from = Here(p),
                                                     !.to = local[p].list[n],
                                                     !.files = PushedFiles])
      PROVE  Stands(p)'
  <2> DEFINE pinged == [local[p] EXCEPT !.todo = @ \ {n}, !.name = n,
                                        !.to = local[p].list[n]]
             pushed == [local[p] EXCEPT !.todo = @ \ {n}, !.name = n,
                                        !.from = Here(p), !.to = local[p].list[n],
                                        !.files = PushedFiles]
  <2>1. /\ pinged.cmd = Cmd(p) /\ pinged.file = local[p].file
        /\ pushed.cmd = Cmd(p) /\ pushed.file = local[p].file /\ pushed.from = Here(p)
    BY ONLY <1>1 DEF Local, Cmd
  <2>2. IF Cmd(p).kind = "ping" THEN pc'[p] = "ssh" /\ local'[p] = pinged
        ELSE pc'[p] = "rsync" /\ local'[p] = pushed
    BY ONLY <1>1, <1>5 DEF Begin, Goto
  <2> HIDE DEF pinged, pushed
  <2>3. CASE Cmd(p).kind = "ping"
    BY <1>3, <1>4, <2>1, <2>2, <2>3, StandsNext
  <2>4. CASE Cmd(p).kind # "ping"
    BY <1>3, <1>4, <2>1, <2>2, <2>4, StandsNext
  <2>5. QED  BY <2>3, <2>4
<1> QED  BY <1>2, <1>5 DEF NextPeer

\* The manifest of a leader that pushes is one.
LEMMA SendStands ==
    ASSUME TypeInv, NEW p \in Proc, Stands(p), Send(p)
    PROVE  Stands(p)'
<1> DEFINE l == local[p]
<1>1. /\ pc \in [Proc -> Step] /\ local \in [Proc -> Local]
      /\ l \in Local /\ WellFormed(p, pc[p], l)
  BY Running DEF TypeInv, ControlInv
<1>2. pc' = pc /\ committed' = committed /\ manifest' = manifest
  BY DEF Send, tree, observed
<1>3. l.file = Nil /\ Nil # "manifest" /\ pc[p] \in {"rsync", "join"}
  BY DEF Send, Copying, File, Shared
<1>4. PICK f \in l.files :
         local' = [local EXCEPT ![p] =
                      IF UpToDate(f, l.from, l.to)
                      THEN [l EXCEPT !.files = @ \ {f}]
                      ELSE [l EXCEPT !.file = f, !.image = Read(f, l.from)]]
  BY DEF Send
<1> DEFINE image == Read(f, l.from)
           skipped == [l EXCEPT !.files = @ \ {f}]
           sent == [l EXCEPT !.file = f, !.image = image]
<1>5. /\ skipped.file = l.file /\ skipped.cmd = l.cmd /\ skipped.from = l.from
      /\ sent.file = f /\ sent.cmd = l.cmd /\ sent.image = image /\ sent.from = l.from
  BY ONLY <1>1 DEF Local
<1>6. local'[p] \in {skipped, sent}
  BY ONLY <1>1, <1>4, p \in Proc
<1>7. f = "manifest" => image.manifest.version # 0 \/ pc[p] = "join"
  <2> SUFFICES ASSUME f = "manifest", pc[p] # "join"
               PROVE  image.manifest.version # 0
    OBVIOUS
  <2>1. image.manifest = manifest[l.from]
    BY DEF Read, NoImage
  <2>2. Exists(l.from)
    BY <1>1, <1>3, Running DEF Stands, Pushing, Cmd, WellFormed, TypeInv
  <2>3. QED  BY <2>1, <2>2 DEF Exists
<1>8. pc[p] \in Pushing /\ l.cmd.kind # "ping" => Exists(Here(p))'
  BY <1>2 DEF Stands, Exists, Cmd
<1>9. ASSUME NEW new, local'[p] = new, new.cmd = l.cmd, new.from = l.from,
             new.file = "manifest" => new.image.manifest.version # 0 \/ pc[p] = "join"
      PROVE  Stands(p)'
  <2>1. PICK step : step = pc[p] /\ step = pc'[p]
    BY <1>2
  <2>2. /\ step # "idle" => l.cmd \in Commands[p]
        /\ step = "ssh" => l.cmd.kind = "ping"
        /\ step = "rsync" => l.cmd.kind # "ping" /\ l.from = Here(p)
        /\ step = "join" => l.cmd.kind = "join"
    BY <1>2, <2>1 DEF Stands, Cmd
  <2> HIDE DEF l
  <2>3. QED  BY <1>8, <1>9, <2>1, <2>2, StandsNext
<1> HIDE DEF skipped, sent, image
<1> QED  BY <1>3, <1>5, <1>6, <1>7, <1>9

LEMMA InstallStands ==
    ASSUME TypeInv, NEW p \in Proc, Stands(p), Install(p),
           Start(p) \/ Proceed(p) \/ Transfer(p) \/ Acquire(p)
    PROVE  Stands(p)'
<1> DEFINE l == local[p]
           new == [l EXCEPT !.files = @ \ {l.file}, !.file = Nil, !.image = NoImage]
<1>1. /\ pc \in [Proc -> Step] /\ local \in [Proc -> Local]
      /\ l \in Local /\ WellFormed(p, pc[p], l) /\ Nil # "manifest"
  BY Running DEF TypeInv, ControlInv, File, Shared
<1>2. /\ pc' = pc /\ committed' = committed
      /\ local' = [local EXCEPT ![p] = new]
  BY <1>1 DEF Install
<1>3. new.cmd = l.cmd /\ new.from = l.from /\ new.file = Nil
  BY ONLY <1>1 DEF Local
<1>4. local'[p] = new
  BY <1>1, <1>2
<1>5. pc[p] \in Pushing /\ l.cmd.kind # "ping" => Exists(Here(p))'
  <2>1. pc[p] \in Pushing => pc[p] # "join"
    BY DEF Pushing
  <2>2. QED  BY <2>1, Running, ExistsStays DEF Stands, Cmd, TypeInv
<1>6. PICK step : step = pc[p] /\ step = pc'[p]
  BY <1>2
<1>7. /\ step # "idle" => l.cmd \in Commands[p]
      /\ step = "ssh" => l.cmd.kind = "ping"
      /\ step = "rsync" => l.cmd.kind # "ping" /\ l.from = Here(p)
      /\ step = "join" => l.cmd.kind = "join"
  BY <1>2, <1>6 DEF Stands, Cmd
<1> HIDE DEF l, new
<1> QED  BY <1>1, <1>3, <1>4, <1>5, <1>6, <1>7, StandsNext

\* A list has found a store.
LEMMA StartStands ==
    ASSUME TypeInv, NEW p \in Proc, Stands(p), Start(p)
    PROVE  Stands(p)'
<1>1. /\ pc \in [Proc -> Step] /\ local \in [Proc -> Local] /\ Here(p) \in Leader
      /\ begun \in Nat /\ begun < Older + MaxCommands
      /\ pc[p] = "idle" /\ Nil # "manifest"
  BY Running DEF TypeInv, ControlInv, CounterType, CommandNo, Start, File, Shared
<1>2. PICK c \in Commands[p] :
          \/ LoadEntry(p, c) \/ RecipientList(p, c)
          \/ PeerPing(p, c) \/ LoadPeers(p, c) \/ PeerJoin(p, c)
  BY DEF Start
<1>3. manifest' = manifest
  BY <1>2 DEF LoadEntry, RecipientList, PeerPing, LoadPeers, PeerJoin, tree, observed
<1> DEFINE l == Fresh(c)
<1>4. l \in Local /\ l.cmd = c /\ l.file = Nil
  BY <1>1, CommandFields, FreshType
<1> HIDE DEF l
<1>5. ASSUME NEW step, NEW new, Begin(p, step, new)
      PROVE  pc'[p] = step /\ local'[p] = new
  BY ONLY <1>1, <1>5 DEF Begin, Goto
<1>6. CASE UNCHANGED <<pc, local>>
  <2>1. local[p].file = Nil
    BY <1>1, Running DEF TypeInv, WellFormed
  <2>2. PICK new : new = local[p]
    OBVIOUS
  <2>3. pc'[p] = "idle" /\ local'[p] = new /\ new.file = Nil
    BY <1>1, <1>6, <2>1, <2>2
  <2>4. QED  BY <1>1, <2>3, StandsNext DEF Pushing
<1>7. CASE LoadEntry(p, c) /\ ~UNCHANGED <<pc, local>>
  <2> DEFINE new == [l EXCEPT !.meta = manifest[Here(p)]]
  <2>1. Begin(p, "hash", new)
    BY <1>7 DEF LoadEntry, l
  <2>2. new.cmd = c /\ new.file = Nil
    BY ONLY <1>4 DEF Local
  <2> HIDE DEF new
  <2>3. QED  BY <1>1, <1>5, <2>1, <2>2, StandsNext DEF Pushing
<1>8. CASE RecipientList(p, c) /\ ~UNCHANGED <<pc, local>>
  <2>1. Begin(p, "push", l) /\ Exists(Here(p))'
    BY <1>3, <1>8 DEF RecipientList, l, Exists
  <2>2. QED  BY <1>1, <1>4, <1>5, <2>1, StandsNext
<1>9. CASE PeerPing(p, c) /\ ~UNCHANGED <<pc, local>>
  <2> DEFINE list == peers[Here(p)]
             todo == IF c.name = Nil THEN Listed(list) ELSE Listed(list) \intersect {c.name}
             new  == [l EXCEPT !.list = list, !.todo = todo]
  <2>1. Begin(p, "next", new) /\ c.kind = "ping"
    BY <1>9 DEF PeerPing, l
  <2>2. new.cmd = c /\ new.file = Nil
    BY ONLY <1>4 DEF Local
  <2> HIDE DEF new
  <2>3. QED  BY <1>1, <1>5, <2>1, <2>2, StandsNext
<1>10. CASE LoadPeers(p, c) /\ ~UNCHANGED <<pc, local>>
  <2> DEFINE list == peers[Here(p)]
             to   == IF c.kind = "add" THEN c.target ELSE Nil
             new  == [l EXCEPT !.list = [list EXCEPT ![c.name] = to]]
  <2>1. Begin(p, "savePeers", new)
    BY <1>10 DEF LoadPeers, l
  <2>2. new.cmd = c /\ new.file = Nil
    BY ONLY <1>4 DEF Local
  <2> HIDE DEF new
  <2>3. QED  BY <1>1, <1>5, <2>1, <2>2, StandsNext DEF Pushing
<1>11. CASE PeerJoin(p, c) /\ ~UNCHANGED <<pc, local>>
  <2> DEFINE new == [l EXCEPT !.from = c.target, !.to = Here(p), !.files = File]
  <2>1. Begin(p, "join", new) /\ c.kind = "join"
    BY <1>11 DEF PeerJoin, l
  <2>2. new.cmd = c /\ new.file = Nil
    BY ONLY <1>4 DEF Local
  <2> HIDE DEF new
  <2>3. QED  BY <1>1, <1>5, <2>1, <2>2, StandsNext DEF Pushing
<1> QED  BY <1>2, <1>6, <1>7, <1>8, <1>9, <1>10, <1>11

LEMMA InitStands == Init => StandInv
  BY DEF Init, StandInv, Stands, Pushing, NoLocal, File, Shared

\* A step of p: what p stands for, and what the others do.
LEMMA OwnStands ==
    ASSUME TypeInv, NEW p \in Proc, Stands(p),
           Start(p) \/ Proceed(p) \/ Transfer(p) \/ Acquire(p)
    PROVE  Stands(p)'
  BY StartStands, CommandStands, ContactStands, NextPeerStands, SendStands, InstallStands
     DEF Proceed, Transfer, Acquire

LEMMA OtherStands ==
    ASSUME JoinsAlone, TypeInv, StandInv, NEW p \in Proc,
           Start(p) \/ Proceed(p) \/ Transfer(p) \/ Acquire(p), NEW q \in Proc, q # p
    PROVE  Stands(q)'
<1>1. Stands(p) /\ Stands(q) /\ Here(p) \in Leader /\ Here(q) \in Leader
  BY Running DEF StandInv, TypeInv
<1>2. PICK step, l : /\ step = pc[q] /\ step = pc'[q]
                     /\ l = local[q] /\ l = local'[q]
  BY OthersStay
<1>3. ~(pc[p] = "join" /\ Here(q) = Here(p))
  <2>1. pc[p] = "join" => Cmd(p) \in Commands[p] /\ Cmd(p).kind = "join"
    BY <1>1 DEF Stands
  <2>2. QED  BY <2>1 DEF JoinsAlone, Here
<1>4. Exists(Here(q)) => Exists(Here(q))'
  BY <1>1, <1>3, ExistsStays
<1>5. step \in Pushing /\ l.cmd.kind # "ping" => Exists(Here(q))'
  BY <1>1, <1>2, <1>4 DEF Stands, Cmd
<1>6. /\ step # "idle" => l.cmd \in Commands[q]
      /\ step = "ssh" => l.cmd.kind = "ping"
      /\ step = "rsync" => l.cmd.kind # "ping" /\ l.from = Here(q)
      /\ step = "join" => l.cmd.kind = "join"
      /\ l.file = "manifest" => l.image.manifest.version # 0 \/ step = "join"
  BY <1>1, <1>2 DEF Stands, Cmd
<1> QED  BY <1>2, <1>5, <1>6, StandsNext

LEMMA StepStands ==
    ASSUME JoinsAlone, TypeInv, StandInv, [Next]_vars
    PROVE  StandInv'
<1>1. CASE UNCHANGED vars
  BY <1>1 DEF vars, tree, observed, StandInv, Stands, Cmd, Exists
<1>2. ASSUME NEW p \in Proc, Start(p) \/ Proceed(p) \/ Transfer(p) \/ Acquire(p)
      PROVE  StandInv'
  BY <1>2, OwnStands, OtherStands DEF StandInv
<1> QED  BY <1>1, <1>2 DEF Next

\* Nobody's push, and no command but a join, leaves a leader without the store it
\* had, whatever is cut off, fails or overlaps, as long as nothing else is run at
\* a leader where somebody joins: a command that pushes while a join empties its
\* leader would push the emptiness.
THEOREM StoresAreKept == JoinsAlone => (Spec => StoresStay)
<1> SUFFICES ASSUME JoinsAlone PROVE Spec => StoresStay
  OBVIOUS
<1> DEFINE Keeps ==
        \A l \in Leader :
            Exists(l) /\ ~Exists(l)' => \E p \in Proc : Here(p) = l /\ pc[p] = "join"
<1>1. TypeInv /\ StandInv /\ [Next]_vars => [Keeps]_vars
  <2> SUFFICES ASSUME TypeInv, StandInv, Next PROVE Keeps \/ UNCHANGED vars
    OBVIOUS
  <2>1. ASSUME NEW p \in Proc, Start(p) \/ Proceed(p) \/ Transfer(p) \/ Acquire(p)
        PROVE  Keeps
    BY <2>1, ExistsStays DEF StandInv
  <2>2. QED  BY <2>1 DEF Next
<1>2. TypeInv /\ StandInv /\ [Next]_vars => StandInv'
  BY StepStands
<1> HIDE DEF Keeps
<1>3. Spec => [][Keeps]_vars
  BY <1>1, <1>2, AlwaysTyped, InitStands, PTL DEF Spec
<1> QED  BY <1>3 DEF StoresStay, Keeps
=============================================================================
