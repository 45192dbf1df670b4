------------------------- MODULE QuorumSerialProofs -------------------------
(***************************************************************************)
(* What QuorumGate promises to those who do not run into each other.  With *)
(* one `recipient add` at a time per identity, a set of signatures is      *)
(* spent once; with one maintainer, a set that is announced can be signed. *)
(* Operators sign, commands stop and the store and the policy change at    *)
(* any moment.                                                             *)
(***************************************************************************)
EXTENDS QuorumProofs

USE PeopleAssumption, AddsAssumption, PolicyAssumption, ExistingAssumption,
    NoneAssumption

Acts(p) == RunSign(p) \/ Adding(p) \/ Signing(p) \/ Stop(p) \/ (RunAdd(p) /\ p \in Maintainer)

\* A step is somebody's, or moves nobody and leaves the directory alone.
LEMMA StepCases ==
    ASSUME [Next]_vars
    PROVE  \/ \E p \in Person : Acts(p)
           \/ UNCHANGED <<meta, challenges, sigs, pc, local, nonce, grants>>
<1>1. CASE OtherCommand \/ EditPolicy \/ Rest \/ UNCHANGED vars
  BY <1>1 DEF OtherCommand, EditPolicy, Rest, vars, dir
<1>2. ASSUME NEW p \in Maintainer, RunAdd(p) PROVE p \in Person /\ Acts(p)
  BY <1>2 DEF Acts
<1>3. ASSUME NEW p \in Person, RunSign(p) \/ Adding(p) \/ Signing(p) \/ Stop(p)
      PROVE  Acts(p)
  BY <1>3 DEF Acts
<1>4. CASE \E p \in Maintainer : RunAdd(p)
  BY <1>2, <1>4
<1>5. CASE \E p \in Person : RunSign(p) \/ Adding(p) \/ Signing(p) \/ Stop(p)
  BY <1>3, <1>5
<1> QED  BY <1>1, <1>4, <1>5 DEF Next

LEMMA ReturnMoves ==
    ASSUME ControlInv, NEW p \in Person, Return(p)
    PROVE  /\ pc'[p] = "idle" /\ local'[p] = NoCall
           /\ \A q \in Person \ {p} : pc'[q] = pc[q] /\ local'[q] = local[q]
  BY DEF Return, Goto, ControlInv

\* A step leaves everybody else where they were.
Alone(p) == \A q \in Person \ {p} : pc'[q] = pc[q] /\ local'[q] = local[q]
Idles(p) == pc'[p] = "idle" /\ local'[p] = NoCall

\* Where a step takes the person who makes it, and what they then hold.
LEMMA GotoOrReturn ==
    ASSUME ControlInv, NEW p \in Person, NEW step, NEW new,
           \/ Goto(p, step) /\ local' = [local EXCEPT ![p] = new]
           \/ Return(p)
    PROVE  /\ (pc'[p] = step /\ local'[p] = new) \/ Idles(p)
           /\ Alone(p)
<1>1. CASE Goto(p, step) /\ local' = [local EXCEPT ![p] = new]
  BY <1>1 DEF Goto, ControlInv, Alone
<1>2. CASE Return(p)
  BY <1>2, ReturnMoves DEF Idles, Alone
<1> QED  BY <1>1, <1>2

\* What a step of p leaves in p's place, step by step.
Moves(p) ==
    \/ Idles(p)
    \/ RunAdd(p) /\ \E c \in Adds :
          \/ pc'[p] = "apply" /\ local'[p] = [NoCall EXCEPT !.call = c]
          \/ pc'[p] \in {"count", "meta"}
                /\ local'[p] = [NoCall EXCEPT !.call = c, !.policy = policy]
    \/ RunSign(p) /\ pc'[p] = "signMeta" /\ local'[p].meta = None
    \/ Count(p) /\ pc'[p] = "apply" /\ local'[p] = [local[p] EXCEPT !.todo = {}]
    \/ LoadMeta(p) /\ pc'[p] = "prepare" /\ meta = None /\ local'[p] = local[p]
    \/ LoadMeta(p) /\ pc'[p] = "verify" /\ local'[p] = [local[p] EXCEPT !.todo = {}]
    \/ Prepare(p) /\ pc'[p] = "challenge"
    \/ WriteChallenge(p) /\ pc'[p] = "challenge" /\ local'[p].meta = local[p].meta
    \/ LoadMetaToSign(p) /\ pc'[p] = "decryptChallenge" /\ local'[p].meta = meta
    \/ DecryptChallenge(p) /\ pc'[p] = "writeSig" /\ local'[p].meta = local[p].meta
    \/ FindToVerify(p) /\ pc'[p] = "check"
         /\ local'[p] = [local[p] EXCEPT !.sha = Sha(TheCall(p).ns)]
    \/ CheckMeta(p) /\ pc'[p] = "collect" /\ MetaMatches(p) /\ meta # None
         /\ local'[p] = [local[p] EXCEPT !.meta = meta]
    \/ Collect(p) /\ pc'[p] = "apply"
         /\ local'[p] = [local[p] EXCEPT !.signers = ValidSigners(p)]
    \/ ApplyAdd(p) /\ pc'[p] = "record" /\ local'[p] = local[p]
    \/ Record(p) /\ pc'[p] = "list" /\ local'[p] = local[p]
    \/ ClearPending(p) /\ pc'[p] = "remove" /\ local'[p].meta = local[p].meta

\* One lemma per group of steps: the person moves as the table says, alone.

LEMMA BeginMoves ==
    ASSUME ControlInv, NEW p \in Person, RunAdd(p) \/ RunSign(p)
    PROVE  Moves(p) /\ Alone(p)
<1>1. ASSUME NEW c \in Adds, StartAdd(p, c) PROVE Moves(p) /\ Alone(p)
  <2> DEFINE open  == [NoCall EXCEPT !.call = c]
             gated == [NoCall EXCEPT !.call = c, !.policy = policy]
  <2>1. \/ pc' = [pc EXCEPT ![p] = "apply"] /\ local' = [local EXCEPT ![p] = open]
        \/ pc' = [pc EXCEPT ![p] = "count"] /\ local' = [local EXCEPT ![p] = gated]
        \/ pc' = [pc EXCEPT ![p] = "meta"] /\ local' = [local EXCEPT ![p] = gated]
    BY <1>1 DEF StartAdd, Goto
  <2> HIDE DEF open, gated
  <2>2. \/ pc'[p] = "apply" /\ local'[p] = open
        \/ pc'[p] \in {"count", "meta"} /\ local'[p] = gated
    BY <2>1 DEF ControlInv
  <2>3. Alone(p)
    BY <2>1 DEF ControlInv, Alone
  <2>4. RunAdd(p)
    BY <1>1 DEF RunAdd
  <2> QED  BY <2>2, <2>3, <2>4 DEF Moves, open, gated
<1>2. ASSUME NEW c \in Adds, StartSign(p, c.ns, c.who) PROVE Moves(p) /\ Alone(p)
  <2> DEFINE new == [NoCall EXCEPT !.call = [ns |-> c.ns, who |-> c.who, how |-> "sign"]]
  <2>1. pc' = [pc EXCEPT ![p] = "signMeta"] /\ local' = [local EXCEPT ![p] = new]
    BY <1>2 DEF StartSign, Goto
  <2>2. new.meta = None
    BY DEF NoCall
  <2> HIDE DEF new
  <2>3. pc'[p] = "signMeta" /\ local'[p] = new /\ Alone(p)
    BY <2>1 DEF ControlInv, Alone
  <2>4. RunSign(p)
    BY <1>2 DEF RunSign
  <2> QED  BY <2>2, <2>3, <2>4 DEF Moves
<1> QED  BY <1>1, <1>2 DEF RunAdd, RunSign

LEMMA PrepareMoves ==
    ASSUME ControlInv, NEW p \in Person,
           Count(p) \/ LoadMeta(p) \/ Prepare(p) \/ WriteChallenge(p) \/ SaveMeta(p)
    PROVE  Moves(p) /\ Alone(p)
<1>1. CASE Count(p)
  <2> DEFINE new == [local[p] EXCEPT !.todo = {}]
             ok  == Cardinality(entry[TheCall(p).ns].recipients) < 2
  <2>1. \/ Goto(p, "apply") /\ local' = [local EXCEPT ![p] = new]
        \/ Return(p)
    BY <1>1 DEF Count, OrRefuse
  <2> HIDE DEF new, ok
  <2>2. Alone(p) /\ ((pc'[p] = "apply" /\ local'[p] = new) \/ Idles(p))
    BY <2>1, GotoOrReturn
  <2> QED  BY <1>1, <2>2 DEF Moves, new
<1>2. CASE LoadMeta(p)
  <2> DEFINE new == [local[p] EXCEPT !.todo = {}]
             ok  == MatchesPending(meta, TheCall(p))
  <2>1. CASE meta = None
    BY <1>2, <2>1 DEF Alone, LoadMeta, Goto, ControlInv, Moves
  <2>2. CASE meta # None
    <3>1. \/ Goto(p, "verify") /\ local' = [local EXCEPT ![p] = new]
          \/ Return(p)
      BY <1>2, <2>2 DEF LoadMeta, OrRefuse
    <3> HIDE DEF new, ok
    <3>2. Alone(p) /\ ((pc'[p] = "verify" /\ local'[p] = new) \/ Idles(p))
      BY <3>1, GotoOrReturn
    <3> QED  BY <1>2, <3>2 DEF Moves, new
  <2> QED  BY <2>1, <2>2
<1>3. CASE Prepare(p)
  <2>1. PICK new : \/ Goto(p, "challenge") /\ local' = [local EXCEPT ![p] = new]
                   \/ Return(p)
    BY <1>3 DEF Prepare
  <2>2. Alone(p) /\ (pc'[p] = "challenge" \/ Idles(p))
    BY <2>1, ReturnMoves DEF Alone, Goto, Idles, ControlInv
  <2> QED  BY <1>3, <2>2 DEF Moves
<1>4. CASE WriteChallenge(p)
  <2>1. PICK T : \/ UNCHANGED pc /\ local' = [local EXCEPT ![p].todo = T]
                 \/ Return(p)
    BY <1>4 DEF WriteChallenge
  <2>2. pc[p] = "challenge" /\ local[p] \in Local
    BY <1>4 DEF WriteChallenge, ControlInv
  <2>3. Alone(p) /\ ((pc'[p] = "challenge" /\ local'[p].meta = local[p].meta) \/ Idles(p))
    BY <2>1, <2>2, ReturnMoves DEF Alone, Idles, ControlInv, Local
  <2> QED  BY <1>4, <2>3 DEF Moves
<1>5. CASE SaveMeta(p)
  BY <1>5, ReturnMoves DEF Alone, SaveMeta, Moves, Idles
<1> QED  BY <1>1, <1>2, <1>3, <1>4, <1>5

LEMMA SignMoves ==
    ASSUME ControlInv, NEW p \in Person, Signing(p)
    PROVE  Moves(p) /\ Alone(p)
<1>0. local[p] \in Local
  BY DEF ControlInv
<1>1. CASE LoadMetaToSign(p)
  <2> DEFINE new == [local[p] EXCEPT !.meta = meta]
             ok  == meta # None /\ MatchesPending(meta, TheCall(p))
                      /\ Identity[p] \in meta.operators
  <2>1. \/ Goto(p, "decryptChallenge") /\ local' = [local EXCEPT ![p] = new]
        \/ Return(p)
    BY <1>1 DEF LoadMetaToSign, OrRefuse
  <2>2. new.meta = meta
    BY <1>0 DEF Local
  <2> HIDE DEF new, ok
  <2>3. Alone(p) /\ ((pc'[p] = "decryptChallenge" /\ local'[p] = new) \/ Idles(p))
    BY <2>1, GotoOrReturn
  <2> QED  BY <1>1, <2>2, <2>3 DEF Moves
<1>2. CASE DecryptChallenge(p)
  <2> DEFINE new == [local[p] EXCEPT !.todo = {}]
  <2>1. \/ Goto(p, "writeSig") /\ local' = [local EXCEPT ![p] = new]
        \/ Return(p)
    BY <1>2 DEF DecryptChallenge, OrRefuse
  <2>2. new.meta = local[p].meta
    BY <1>0 DEF Local
  <2> HIDE DEF new
  <2>3. Alone(p) /\ ((pc'[p] = "writeSig" /\ local'[p] = new) \/ Idles(p))
    BY <2>1, GotoOrReturn
  <2> QED  BY <1>2, <2>2, <2>3 DEF Moves
<1>3. CASE WriteSig(p)
  BY <1>3, ReturnMoves DEF Alone, WriteSig, Moves, Idles
<1> QED  BY <1>1, <1>2, <1>3 DEF Signing

LEMMA CommitMoves ==
    ASSUME ControlInv, NEW p \in Person,
           FindToVerify(p) \/ CheckMeta(p) \/ Collect(p) \/ ApplyAdd(p) \/ Record(p)
    PROVE  Moves(p) /\ Alone(p)
<1>1. CASE FindToVerify(p)
  <2> DEFINE new == [local[p] EXCEPT !.sha = Sha(TheCall(p).ns)]
  <2>1. Goto(p, "check") /\ local' = [local EXCEPT ![p] = new]
    BY <1>1 DEF FindToVerify
  <2> HIDE DEF new
  <2>2. Alone(p) /\ pc'[p] = "check" /\ local'[p] = new
    BY <2>1 DEF Alone, Goto, ControlInv
  <2> QED  BY <1>1, <2>2 DEF Moves, new
<1>2. CASE CheckMeta(p)
  <2> DEFINE new == [local[p] EXCEPT !.meta = meta]
             ok  == meta # None /\ MetaMatches(p)
  <2>1. \/ ok /\ Goto(p, "collect") /\ local' = [local EXCEPT ![p] = new]
        \/ Return(p)
    BY <1>2 DEF CheckMeta, OrRefuse
  <2> HIDE DEF new, ok
  <2>2. Alone(p) /\ ((ok /\ pc'[p] = "collect" /\ local'[p] = new) \/ Idles(p))
    <3>1. Alone(p) /\ ((pc'[p] = "collect" /\ local'[p] = new) \/ Idles(p))
      BY <2>1, GotoOrReturn
    <3>2. Return(p) => Idles(p)
      BY ReturnMoves DEF Idles
    <3> QED  BY <2>1, <3>1, <3>2
  <2> QED  BY <1>2, <2>2 DEF Moves, new, ok
<1>3. CASE Collect(p)
  <2> DEFINE new == [local[p] EXCEPT !.signers = ValidSigners(p)]
             ok  == Cardinality(ValidSigners(p)) >= local[p].meta.m
  <2>1. \/ Goto(p, "apply") /\ local' = [local EXCEPT ![p] = new]
        \/ Return(p)
    BY <1>3 DEF Collect, OrRefuse
  <2> HIDE DEF new, ok
  <2>2. Alone(p) /\ ((pc'[p] = "apply" /\ local'[p] = new) \/ Idles(p))
    BY <2>1, GotoOrReturn
  <2> QED  BY <1>3, <2>2 DEF Moves, new
<1>4. CASE ApplyAdd(p)
  <2>1. Goto(p, "record") /\ UNCHANGED local
    BY <1>4 DEF ApplyAdd
  <2> QED  BY <1>4, <2>1 DEF Alone, Goto, ControlInv, Moves
<1>5. CASE Record(p)
  <2>1. (Goto(p, "list") /\ UNCHANGED local) \/ Return(p)
    BY <1>5 DEF Record
  <2>2. Alone(p) /\ ((pc'[p] = "list" /\ local'[p] = local[p]) \/ Idles(p))
    BY <2>1, ReturnMoves DEF Alone, Goto, ControlInv, Idles
  <2> QED  BY <1>5, <2>2 DEF Moves
<1> QED  BY <1>1, <1>2, <1>3, <1>4, <1>5

LEMMA ClearMoves ==
    ASSUME ControlInv, NEW p \in Person, ClearPending(p) \/ Stop(p)
    PROVE  Moves(p) /\ Alone(p)
<1>0. local[p] \in Local
  BY DEF ControlInv
<1>1. CASE ListPending(p)
  <2>1. PICK T : Goto(p, "remove") /\ local' = [local EXCEPT ![p].todo = T]
    BY <1>1 DEF ListPending
  <2>2. Alone(p) /\ pc'[p] = "remove" /\ local'[p].meta = local[p].meta
    BY <1>0, <2>1 DEF Alone, Goto, ControlInv, Local
  <2> QED  BY <1>1, <2>2 DEF Moves, ClearPending
<1>2. ASSUME NEW f \in local[p].todo, RemoveFile(p, f) PROVE Moves(p) /\ Alone(p)
  <2>1. PICK T : UNCHANGED pc /\ pc[p] = "remove" /\ local' = [local EXCEPT ![p].todo = T]
    BY <1>2 DEF RemoveFile
  <2>2. Alone(p) /\ pc'[p] = "remove" /\ local'[p].meta = local[p].meta
    BY <1>0, <2>1 DEF Alone, ControlInv, Local
  <2> QED  BY <1>2, <2>2 DEF Moves, ClearPending
<1>3. CASE RemoveDir(p) \/ Stop(p)
  BY <1>3, ReturnMoves DEF Alone, RemoveDir, Stop, Moves, Idles
<1> QED  BY <1>1, <1>2, <1>3 DEF ClearPending

LEMMA ActsMoves ==
    ASSUME ControlInv, NEW p \in Person, Acts(p)
    PROVE  Moves(p) /\ Alone(p)
  BY BeginMoves, PrepareMoves, SignMoves, CommitMoves, ClearMoves DEF Acts, Adding

\* What a step changes of the directory and of what was granted.
Changes(p) ==
    /\ UNCHANGED entry \/ ApplyAdd(p)
    /\ UNCHANGED grants \/ ApplyAdd(p)
    /\ UNCHANGED nonce \/ Prepare(p)
    /\ \/ UNCHANGED meta
       \/ SaveMeta(p) /\ meta' = local[p].meta
       \/ ClearPending(p) /\ meta' = None
    /\ UNCHANGED challenges \/ WriteChallenge(p) \/ Stop(p) \/ ClearPending(p)

LEMMA ActsChanges ==
    ASSUME NEW p \in Person, Acts(p)
    PROVE  Changes(p)
<1>1. CASE RunAdd(p) \/ RunSign(p)
  BY <1>1 DEF RunAdd, RunSign, StartAdd, StartSign, dir, Changes
<1>2. CASE Count(p) \/ LoadMeta(p) \/ FindToVerify(p) \/ CheckMeta(p) \/ Collect(p)
  BY <1>2 DEF Count, LoadMeta, FindToVerify, CheckMeta, Collect, dir, Changes
<1>3. CASE Prepare(p)
  BY <1>3 DEF Prepare, Changes
<1>4. CASE WriteChallenge(p)
  BY <1>4 DEF WriteChallenge, Changes
<1>5. CASE SaveMeta(p)
  BY <1>5 DEF SaveMeta, Changes
<1>6. CASE Signing(p)
  BY <1>6 DEF Signing, LoadMetaToSign, DecryptChallenge, WriteSig, dir, Changes
<1>7. CASE ApplyAdd(p) \/ Record(p)
  BY <1>7 DEF ApplyAdd, Record, dir, Changes
<1>8. CASE ClearPending(p)
  BY <1>8 DEF ClearPending, ListPending, RemoveFile, RemoveDir, dir, Changes
<1>9. CASE Stop(p)
  BY <1>9 DEF Stop, Changes
<1> QED
  BY <1>1, <1>2, <1>3, <1>4, <1>5, <1>6, <1>7, <1>8, <1>9 DEF Acts, Adding

-----------------------------------------------------------------------------
(* Who adds, and what a nonce names *)

LEMMA AddersStep ==
    ASSUME ControlInv, AddersInv, NEW p \in Person, Acts(p)
    PROVE  AddersInv'
<1>1. Moves(p) /\ Alone(p)
  BY ActsMoves
<1>2. pc'[p] \in AddStep => p \in Maintainer
  <2>1. CASE (RunAdd(p) /\ p \in Maintainer)
    BY <2>1
  <2>2. CASE RunSign(p)
    BY <2>2 DEF RunSign, StartSign, Goto, ControlInv, AddStep, PolicyStep, CommitStep
  <2>3. CASE Adding(p)
    <3>1. pc[p] \in AddStep
      BY <2>3 DEF Adding, ClearPending, Count, LoadMeta, Prepare, WriteChallenge, SaveMeta,
         FindToVerify, CheckMeta, Collect, ApplyAdd, Record, ListPending, RemoveFile,
         RemoveDir, AddStep, PolicyStep, CommitStep
    <3> QED  BY <3>1 DEF AddersInv
  <2>4. CASE Signing(p)
    <3>1. Goto(p, "decryptChallenge") \/ Goto(p, "writeSig") \/ Return(p)
      BY <2>4 DEF Signing, LoadMetaToSign, DecryptChallenge, WriteSig, OrRefuse
    <3>2. pc'[p] \in {"decryptChallenge", "writeSig", "idle"}
      BY <3>1 DEF Goto, Return, ControlInv
    <3> QED  BY <3>2 DEF AddStep, PolicyStep, CommitStep
  <2>5. CASE Stop(p)
    <3>1. pc'[p] = "idle"
      BY <2>5, ReturnMoves DEF Stop
    <3> QED  BY <3>1 DEF AddStep, PolicyStep, CommitStep
  <2> QED  BY <2>1, <2>2, <2>3, <2>4, <2>5 DEF Acts
<1> QED  BY <1>1, <1>2 DEF AddersInv, Alone

\* A step that draws no nonce shows no meta.json that was not there before.
LEMMA CopiesMeta ==
    ASSUME NEW p \in Person, Alone(p),
           local'[p].meta \in {local[p].meta, meta, None},
           meta' \in {local[p].meta, meta, None},
           \A g \in grants' : g \in grants \/ g.meta = local[p].meta
    PROVE  KnownMeta' \subseteq KnownMeta
<1> SUFFICES ASSUME NEW x \in KnownMeta' PROVE x \in KnownMeta
  OBVIOUS
<1>1. x # None
  BY DEF KnownMeta
<1>2. local[p].meta \in KnownMeta \union {None} /\ meta \in KnownMeta \union {None}
  BY DEF KnownMeta
<1>3. CASE x = meta'
  BY <1>1, <1>2, <1>3
<1>4. CASE \E q \in Person : x = local'[q].meta
  <2>1. PICK q \in Person : x = local'[q].meta
    BY <1>4
  <2>2. CASE q = p
    BY <1>1, <1>2, <2>1, <2>2
  <2>3. CASE q # p
    BY <1>1, <2>1, <2>3 DEF Alone, KnownMeta
  <2> QED  BY <2>2, <2>3
<1>5. CASE \E g \in Gated' : x = g.meta
  <2>1. PICK g \in Gated' : x = g.meta
    BY <1>5
  <2>2. CASE g \in grants
    BY <1>1, <2>1, <2>2 DEF Gated, KnownMeta
  <2>3. CASE g \notin grants
    BY <1>1, <1>2, <2>1, <2>3 DEF Gated
  <2> QED  BY <2>2, <2>3
<1> QED  BY <1>3, <1>4, <1>5 DEF KnownMeta

LEMMA PrepareShows ==
    ASSUME TypeInv, NEW p \in Person, Prepare(p), Alone(p)
    PROVE  \/ UNCHANGED nonce /\ KnownMeta' \subseteq KnownMeta
           \/ /\ nonce' = nonce + 1
              /\ \E m : m.nonce = nonce + 1 /\ KnownMeta' \subseteq KnownMeta \union {m}
<1> DEFINE q == local[p].policy
           m == [ns |-> TheCall(p).ns, who |-> TheCall(p).who, sha |-> Sha(TheCall(p).ns),
                 nonce |-> nonce + 1, verifier |-> Identity[p],
                 operators |-> q.operators, m |-> q.m]
<1>1. UNCHANGED <<meta, grants>>
  BY DEF Prepare
<1>2. CASE Return(p) /\ UNCHANGED nonce
  <2>1. local'[p].meta = None
    BY <1>2, ReturnMoves DEF TypeInv, NoCall
  <2> QED  BY <1>1, <1>2, <2>1, CopiesMeta
<1>3. CASE ~(Return(p) /\ UNCHANGED nonce)
  <2>1. /\ nonce' = nonce + 1
        /\ local' = [local EXCEPT ![p].todo = q.operators, ![p].meta = m]
    BY <1>3 DEF Prepare
  <2>2. m.nonce = nonce + 1
    OBVIOUS
  <2> HIDE DEF m
  <2>3. local'[p].meta = m
    BY <2>1 DEF TypeInv, ControlInv, Local
  <2>4. KnownMeta' \subseteq KnownMeta \union {m}
    BY <1>1, <2>3 DEF Alone, KnownMeta, Gated
  <2> QED  BY <2>1, <2>2, <2>4
<1> QED  BY <1>2, <1>3

\* What becomes known of meta.json in a step.
LEMMA KnownStep ==
    ASSUME TypeInv, NEW p \in Person, Acts(p)
    PROVE  \/ UNCHANGED nonce /\ KnownMeta' \subseteq KnownMeta
           \/ /\ Prepare(p) /\ nonce' = nonce + 1
              /\ \E m : m.nonce = nonce + 1 /\ KnownMeta' \subseteq KnownMeta \union {m}
<1>1. Moves(p) /\ Alone(p)
  BY ActsMoves DEF TypeInv
<1>2. CASE Prepare(p)
  BY <1>1, <1>2, PrepareShows
<1>3. CASE ~Prepare(p)
  <2>1. local'[p].meta \in {local[p].meta, meta, None}
    <3>1. local[p] \in Local /\ NoCall.meta = None
      BY DEF TypeInv, ControlInv, NoCall
    <3>2. /\ \A c : [NoCall EXCEPT !.call = c].meta = None
          /\ \A c : [NoCall EXCEPT !.call = c, !.policy = policy].meta = None
      BY DEF NoCall
    <3>3. /\ [local[p] EXCEPT !.todo = {}].meta = local[p].meta
          /\ \A n : [local[p] EXCEPT !.sha = n].meta = local[p].meta
          /\ \A S : [local[p] EXCEPT !.signers = S].meta = local[p].meta
          /\ [local[p] EXCEPT !.meta = meta].meta = meta
      BY <3>1 DEF Local
    <3>4. CASE Idles(p)
      BY <3>1, <3>4 DEF Idles
    <3>5. CASE ~Idles(p)
      <4> DEFINE blank(c) == [NoCall EXCEPT !.call = c]
                 gated(c) == [NoCall EXCEPT !.call = c, !.policy = policy]
                 todo     == [local[p] EXCEPT !.todo = {}]
                 sha(n)   == [local[p] EXCEPT !.sha = n]
                 signers  == [local[p] EXCEPT !.signers = ValidSigners(p)]
                 loaded   == [local[p] EXCEPT !.meta = meta]
      <4>1. \/ local'[p].meta \in {None, meta, local[p].meta}
            \/ \E c \in Adds : local'[p] \in {blank(c), gated(c)}
            \/ local'[p] \in {local[p], todo, sha(Sha(TheCall(p).ns)), signers, loaded}
        BY <1>1, <1>3, <3>5, Zenon DEF Moves
      <4>2. /\ \A c : blank(c).meta = None /\ gated(c).meta = None
            /\ todo.meta = local[p].meta /\ signers.meta = local[p].meta
            /\ loaded.meta = meta
            /\ \A n : sha(n).meta = local[p].meta
        BY ONLY <3>2, <3>3
      <4> HIDE DEF blank, gated, todo, sha, signers, loaded
      <4> QED  BY ONLY <4>1, <4>2
    <3> QED  BY <3>4, <3>5
  <2>2. UNCHANGED nonce /\ meta' \in {local[p].meta, meta, None}
    BY <1>3, ActsChanges DEF Changes
  <2>3. \A g \in grants' : g \in grants \/ g.meta = local[p].meta
    <3>1. CASE UNCHANGED grants
      BY <3>1
    <3>2. CASE ApplyAdd(p)
      BY <3>2 DEF ApplyAdd
    <3> QED  BY <3>1, <3>2, ActsChanges DEF Changes
  <2> QED  BY <1>1, <2>1, <2>2, <2>3, CopiesMeta
<1> QED  BY <1>2, <1>3

\* Every nonce is a number.
LEMMA NonceTypes ==
    ASSUME TypeInv, GateInv
    PROVE  nonce \in Nat /\ KnownMeta \subseteq MetaType
<1>1. \A r \in Person : local[r].meta \in MetaType \union {None}
  BY DEF TypeInv, ControlInv, Local
<1>2. \A g \in Gated : g.meta \in MetaType
  BY DEF GateInv, GrantInv, Evidence
<1> QED  BY <1>1, <1>2 DEF TypeInv, StateType, KnownMeta

LEMMA NonceStep ==
    ASSUME TypeInv, GateInv, NonceInv, NEW p \in Person, Acts(p)
    PROVE  NonceInv'
<1>1. nonce \in Nat /\ \A x \in KnownMeta : x.nonce \in Nat
  BY NonceTypes DEF MetaType
<1>2. CASE UNCHANGED nonce /\ KnownMeta' \subseteq KnownMeta
  BY <1>2 DEF NonceInv
<1>3. ASSUME nonce' = nonce + 1,
             NEW m, m.nonce = nonce + 1, KnownMeta' \subseteq KnownMeta \union {m}
      PROVE  NonceInv'
  BY <1>1, <1>3 DEF NonceInv
<1> QED  BY <1>2, <1>3, KnownStep

-----------------------------------------------------------------------------
(* Whose the signatures are *)

\* A signature names the verifier of the meta.json that it answers.
LEMMA SigsNameVerifier ==
    ASSUME TypeInv, GateInv, NonceInv, VerifierInv, NEW p \in Person, Acts(p),
           NEW o \in Recipient, sigs'[o] # None
    PROVE  /\ sigs'[o].message.nonce <= nonce'
           /\ \A x \in KnownMeta' :
                 x.nonce = sigs'[o].message.nonce => x.verifier = sigs'[o].to
<1> DEFINE n == sigs'[o].message.nonce
<1>1. /\ n \in Nat /\ n <= nonce
      /\ \A x \in KnownMeta : x.nonce = n => x.verifier = sigs'[o].to
  <2>1. CASE sigs'[o] = sigs[o]
    <3>1. sigs[o] \in SigType
      BY <2>1 DEF TypeInv, StateType
    <3>2. sigs[o].message.nonce \in Nat
      BY <3>1 DEF SigType, MessageType
    <3> QED  BY <2>1, <3>2 DEF VerifierInv
  <2>2. CASE WriteSig(p) /\ sigs'[o] # sigs[o]
    <3> DEFINE m   == local[p].meta
               sig == [message |-> MessageOf(m), to |-> m.verifier]
    <3>1. m \in MetaType /\ m \in KnownMeta
      <4>1. m \in MetaType
        BY <2>2, Locals DEF TypeInv, WriteSig, WellFormed, Local
      <4> QED  BY <4>1 DEF KnownMeta
    <3>2. sigs'[o] = sig
      BY <2>2 DEF WriteSig, TypeInv, StateType
    <3>3. sigs'[o].message = MessageOf(m) /\ sigs'[o].to = m.verifier
      BY <3>2
    <3>4. n = m.nonce /\ m.nonce \in Nat
      BY <3>1, <3>3, MessageTypes DEF MetaType
    <3> QED  BY <3>1, <3>3, <3>4 DEF NonceInv
  <2>3. WriteSig(p) \/ sigs'[o] \in {sigs[o], None}
    <3>1. CASE RunAdd(p) \/ RunSign(p)
      BY <3>1 DEF RunAdd, RunSign, StartAdd, StartSign, dir
    <3>2. CASE Count(p) \/ LoadMeta(p) \/ FindToVerify(p) \/ CheckMeta(p) \/ Collect(p)
      BY <3>2 DEF Count, LoadMeta, FindToVerify, CheckMeta, Collect, dir
    <3>3. CASE Prepare(p) \/ WriteChallenge(p) \/ SaveMeta(p)
      BY <3>3 DEF Prepare, WriteChallenge, SaveMeta
    <3>4. CASE LoadMetaToSign(p) \/ DecryptChallenge(p)
      BY <3>4 DEF LoadMetaToSign, DecryptChallenge, dir
    <3>5. CASE ApplyAdd(p) \/ Record(p)
      BY <3>5 DEF ApplyAdd, Record, dir
    <3>6. CASE ClearPending(p)
      BY <3>6 DEF ClearPending, ListPending, RemoveFile, RemoveDir, dir
    <3>7. CASE Stop(p)
      BY <3>7 DEF Stop, TypeInv, StateType
    <3> QED  BY <3>1, <3>2, <3>3, <3>4, <3>5, <3>6, <3>7 DEF Acts, Adding, Signing
  <2> QED  BY <2>1, <2>2, <2>3
<1> HIDE DEF n
<1>2. nonce \in Nat
  BY NonceTypes
<1>3. CASE UNCHANGED nonce /\ KnownMeta' \subseteq KnownMeta
  BY <1>1, <1>3 DEF n
<1>4. ASSUME nonce' = nonce + 1,
             NEW m, m.nonce = nonce + 1, KnownMeta' \subseteq KnownMeta \union {m}
      PROVE  n <= nonce' /\ \A x \in KnownMeta' : x.nonce = n => x.verifier = sigs'[o].to
  BY <1>1, <1>2, <1>4
<1> QED  BY <1>3, <1>4, KnownStep DEF n

\* Who counts signatures is the verifier they name: there is at least one.
LEMMA CollectorIsVerifier ==
    ASSUME TypeInv, NonceInv, VerifierInv, NEW p \in Person, Collect(p), pc'[p] = "apply"
    PROVE  local[p].meta.verifier = Identity[p]
<1> DEFINE m == local[p].meta
           S == ValidSigners(p)
<1>1. /\ local[p] \in Local /\ WellFormed("collect", local[p])
      /\ Checked(local[p])
  BY Locals DEF TypeInv, Collect, WellFormed
<1>2. m \in MetaType /\ m \in KnownMeta
  BY <1>1 DEF Local, Checked, KnownMeta
<1>3. m.m >= 1
  <2>1. /\ local[p].policy # None
        /\ local[p].policy.m \in 1..Cardinality(local[p].policy.operators)
    BY <1>1 DEF WellFormed, PolicyStep
  <2>2. local[p].policy.operators \in SUBSET Recipient
    BY <1>1, <2>1 DEF Local
  <2>3. Cardinality(local[p].policy.operators) \in Nat
    BY <2>2, OperatorsAreFinite
  <2> QED  BY <1>1, <2>1, <2>3 DEF Checked
<1>4. S \in SUBSET Recipient /\ Cardinality(S) >= m.m
  <2>1. ~Return(p)
    BY ReturnMoves DEF TypeInv
  <2> QED  BY <1>2, <2>1 DEF Collect, OrRefuse, ValidSigners, MetaType
<1>5. S # {}
  <2>1. m.m \in Nat
    BY <1>2 DEF MetaType
  <2>2. Cardinality({}) = 0
    BY FS_EmptySet
  <2>3. Cardinality(S) >= 1
    <3> DEFINE k == m.m
               c == Cardinality(S)
    <3>1. k \in Nat /\ k >= 1 /\ c >= k /\ c \in Nat
      BY <1>3, <1>4, <2>1, OperatorsAreFinite
    <3> HIDE DEF k, c
    <3>2. c >= 1
      BY <3>1
    <3> QED  BY <3>2 DEF c
  <2> HIDE DEF S
  <2>4. S = {} => Cardinality(S) = 0
    BY ONLY <2>2, Zenon
  <2>5. ~(Cardinality(S) = 0)
    <3> DEFINE c == Cardinality(S)
    <3>1. c >= 1
      BY <2>3
    <3> HIDE DEF c
    <3>2. c # 0
      BY ONLY <3>1
    <3> QED  BY <3>2 DEF c
  <2> QED  BY <2>4, <2>5
<1>6. PICK o \in Recipient : sigs[o] = [message |-> MessageOf(m), to |-> Identity[p]]
  BY <1>4, <1>5 DEF ValidSigners
<1>7. sigs[o] # None
  BY <1>2, <1>6, MessageTypes DEF SigType
<1>8. sigs[o].message.nonce = m.nonce /\ sigs[o].to = Identity[p]
  BY <1>2, <1>6, MessageTypes
<1> QED  BY <1>2, <1>7, <1>8 DEF VerifierInv

LEMMA VerifierStep ==
    ASSUME TypeInv, GateInv, NonceInv, VerifierInv, NEW p \in Person, Acts(p)
    PROVE  VerifierInv'
<1> USE DEF TypeInv
<1>1. Moves(p) /\ Alone(p)
  BY ActsMoves
<1>2. ASSUME NEW q \in Person, pc'[q] \in CommitStep, GatedCall(local'[q])
      PROVE  local'[q].meta.verifier = Identity[q]
  <2>1. CASE q # p
    BY <1>1, <1>2, <2>1 DEF Alone, VerifierInv
  <2>2. CASE q = p /\ Collect(p) /\ pc'[p] = "apply"
            /\ local'[p] = [local[p] EXCEPT !.signers = ValidSigners(p)]
    <3>1. local'[p].meta = local[p].meta
      BY <2>2, Locals DEF Local
    <3> QED  BY <2>2, <3>1, CollectorIsVerifier
  <2>3. CASE q = p /\ ApplyAdd(p) /\ local'[p] = local[p]
    <3>1. pc[p] \in CommitStep
      BY <2>3 DEF ApplyAdd, CommitStep
    <3> QED  BY <1>2, <2>3, <3>1 DEF VerifierInv
  <2>4. ASSUME q = p, RunAdd(p), NEW c \in Adds, local'[p] = [NoCall EXCEPT !.call = c] PROVE FALSE
    BY <1>2, <2>4 DEF GatedCall, NoCall
  <2>5. ASSUME q = p, Count(p), local'[p] = [local[p] EXCEPT !.todo = {}] PROVE FALSE
    <3>1. local[p] \in Local /\ local[p].call.how = "bootstrap"
      BY <2>5, Locals DEF Count, WellFormed
    <3>2. local'[p].call = local[p].call
      BY <2>5, <3>1 DEF Local
    <3> QED  BY <1>2, <2>5, <3>1, <3>2 DEF GatedCall
  <2> QED  BY <1>1, <1>2, <2>1, <2>2, <2>3, <2>4, <2>5 DEF Moves, Idles, CommitStep
<1> QED  BY <1>2, SigsNameVerifier DEF VerifierInv, GatedCall

-----------------------------------------------------------------------------
(* What is announced can be signed *)

\* Where the steps that touch the directory start.
LEMMA AddersAct ==
    ASSUME ControlInv, AddersInv, NEW p \in Person,
           \/ Prepare(p) \/ WriteChallenge(p) \/ SaveMeta(p) \/ ApplyAdd(p)
           \/ ClearPending(p)
    PROVE  /\ p \in Maintainer
           /\ Prepare(p) => pc[p] = "prepare"
           /\ WriteChallenge(p) \/ SaveMeta(p) => pc[p] = "challenge"
           /\ ClearPending(p) => pc[p] \in {"list", "remove"}
<1>1. /\ Prepare(p) => pc[p] = "prepare"
      /\ WriteChallenge(p) \/ SaveMeta(p) => pc[p] = "challenge"
      /\ ClearPending(p) => pc[p] \in {"list", "remove"}
      /\ ApplyAdd(p) => pc[p] = "apply"
  BY DEF Prepare, WriteChallenge, SaveMeta, ApplyAdd, ClearPending, ListPending,
     RemoveFile, RemoveDir
<1>2. pc[p] \in AddStep
  BY <1>1 DEF AddStep, PolicyStep, CommitStep
<1> QED  BY <1>1, <1>2 DEF AddersInv

\* While one writes challenges, nobody writes or removes meta.json.
LEMMA NoMetaStep ==
    ASSUME OneMaintainer, TypeInv, AddersInv, AnnounceInv, NEW p \in Person, Acts(p),
           NEW q \in Person, pc'[q] \in {"prepare", "challenge"}
    PROVE  meta' = None
<1> USE DEF TypeInv
<1>1. Moves(p) /\ Alone(p) /\ Changes(p) /\ AddersInv'
  BY ActsMoves, ActsChanges, AddersStep
<1>2. q \in Maintainer
  BY <1>1 DEF AddersInv, AddStep, PolicyStep
<1>3. CASE q = p
  <2>1. CASE LoadMeta(p) /\ meta = None
    BY <2>1 DEF LoadMeta, dir
  <2>2. CASE Prepare(p)
    <3>1. pc[p] = "prepare" /\ meta' = meta
      BY <2>2 DEF Prepare
    <3> QED  BY <3>1 DEF AnnounceInv
  <2>3. CASE WriteChallenge(p)
    <3>1. pc[p] = "challenge" /\ meta' = meta
      BY <2>3 DEF WriteChallenge
    <3> QED  BY <3>1 DEF AnnounceInv
  <2> QED  BY <1>1, <1>3, <2>1, <2>2, <2>3 DEF Moves, Idles
<1>4. CASE q # p
  <2>1. pc[q] \in {"prepare", "challenge"}
    BY <1>1, <1>4 DEF Alone
  <2>2. meta = None /\ p \notin Maintainer
    BY <1>2, <1>4, <2>1 DEF AnnounceInv, OneMaintainer
  <2>3. ~SaveMeta(p)
    BY <2>2, AddersAct
  <2> QED  BY <1>1, <2>2, <2>3 DEF Changes
<1> QED  BY <1>3, <1>4

\* A challenge is rewritten by whoever prepares, and otherwise only removed.
LEMMA ChallengesStay ==
    ASSUME TypeInv, NEW p \in Person, Acts(p), ~WriteChallenge(p), NEW o \in Recipient
    PROVE  challenges'[o] \in {None, challenges[o]}
<1>1. CASE UNCHANGED challenges
  BY <1>1
<1>2. CASE Stop(p)
  BY <1>2 DEF Stop, TypeInv, StateType
<1>3. CASE ClearPending(p)
  BY <1>3 DEF ClearPending, ListPending, RemoveFile, RemoveDir, dir, TypeInv, StateType
<1> QED  BY <1>1, <1>2, <1>3, ActsChanges DEF Changes

LEMMA WrittenStep ==
    ASSUME OneMaintainer, TypeInv, AddersInv, AnnounceInv, NEW p \in Person, Acts(p),
           NEW q \in Person, pc'[q] = "challenge",
           NEW o \in local'[q].meta.operators \ local'[q].todo
    PROVE  challenges'[o] \in {None, MessageOf(local'[q].meta)}
<1> USE DEF TypeInv
<1>1. Moves(p) /\ Alone(p) /\ Changes(p) /\ AddersInv' /\ TypeInv'
  <2>1. [Next]_vars
    BY DEF Acts, Next, RunSign
  <2> QED  BY <2>1, ActsMoves, ActsChanges, AddersStep, StepType
<1>2. o \in Recipient
  <2>1. local'[q] \in Local /\ local'[q].meta # None
    BY <1>1 DEF ControlInv, WellFormed
  <2> QED  BY <2>1 DEF Local, MetaType
<1>3. q \in Maintainer
  BY <1>1 DEF AddersInv, AddStep, PolicyStep
<1>4. CASE q # p
  <2>1. pc[q] = "challenge" /\ local'[q] = local[q] /\ p \notin Maintainer
    BY <1>1, <1>3, <1>4 DEF Alone, OneMaintainer
  <2>2. ~WriteChallenge(p)
    BY <2>1, AddersAct
  <2>3. challenges[o] \in {None, MessageOf(local[q].meta)}
    BY <2>1 DEF AnnounceInv
  <2>4. challenges'[o] \in {None, challenges[o]}
    BY <1>2, <2>2, ChallengesStay
  <2> QED  BY <2>1, <2>3, <2>4 DEF MessageOf, Message
<1>5. CASE q = p /\ Prepare(p)
  <2> DEFINE ops == local[p].policy.operators
             m == [ns |-> TheCall(p).ns, who |-> TheCall(p).who, sha |-> Sha(TheCall(p).ns),
                   nonce |-> nonce + 1, verifier |-> Identity[p],
                   operators |-> ops, m |-> local[p].policy.m]
  <2>1. ~Return(p)
    BY <1>5, ReturnMoves
  <2>2. local' = [local EXCEPT ![p].todo = ops, ![p].meta = m]
    BY <1>5, <2>1 DEF Prepare
  <2>3. m.operators = ops
    OBVIOUS
  <2> HIDE DEF m
  <2>4. local'[p].todo = ops /\ local'[p].meta = m
    BY <2>2 DEF ControlInv, Local
  <2> QED  BY <1>5, <2>3, <2>4
<1>6. CASE q = p /\ WriteChallenge(p)
  <2>1. pc[p] = "challenge" /\ local[p] \in Local /\ ~Return(p)
    BY <1>6, ReturnMoves DEF WriteChallenge, ControlInv
  <2>2. PICK r \in local[p].todo :
            /\ challenges' = [challenges EXCEPT ![r] = MessageOf(local[p].meta)]
            /\ local' = [local EXCEPT ![p].todo = @ \ {r}]
    BY <1>6, <2>1 DEF WriteChallenge
  <2>3. local'[p].meta = local[p].meta /\ local'[p].todo = local[p].todo \ {r}
    BY <2>1, <2>2 DEF ControlInv, Local
  <2>4. CASE o = r
    <3>1. challenges'[o] = MessageOf(local[p].meta)
      BY <1>2, <2>2, <2>4 DEF StateType
    <3> QED  BY <1>6, <2>3, <3>1 DEF MessageOf, Message
  <2>5. CASE o # r
    <3>1. challenges'[o] = challenges[o]
      BY <1>2, <2>2, <2>5 DEF StateType
    <3>2. o \in local[p].meta.operators \ local[p].todo
      BY <1>6, <2>3, <2>5
    <3>3. challenges[o] \in {None, MessageOf(local[p].meta)}
      BY <2>1, <3>2 DEF AnnounceInv
    <3> QED  BY <1>6, <2>3, <3>1, <3>3 DEF MessageOf, Message
  <2> QED  BY <2>4, <2>5
<1>7. q = p => Prepare(p) \/ WriteChallenge(p)
  BY <1>1 DEF Moves, Idles
<1> QED  BY <1>4, <1>5, <1>6, <1>7

LEMMA AnnounceStep ==
    ASSUME OneMaintainer, TypeInv, AddersInv, AnnounceInv, NEW p \in Person, Acts(p)
    PROVE  AnnounceInv'
<1>1. \A q \in Person : pc'[q] \in {"prepare", "challenge"} => meta' = None
  BY NoMetaStep
<1>2. ASSUME NEW q \in Person, pc'[q] = "challenge",
             NEW o \in local'[q].meta.operators \ local'[q].todo
      PROVE  challenges'[o] \in {None, MessageOf(local[q].meta)'}
  <2>1. challenges'[o] \in {None, MessageOf(local'[q].meta)}
    BY <1>2, WrittenStep
  <2> QED  BY <2>1 DEF MessageOf, Message
<1> QED  BY <1>1, <1>2 DEF AnnounceInv

LEMMA AnnouncedStep ==
    ASSUME OneMaintainer, TypeInv, AddersInv, AnnounceInv, ChallengesMatchMeta,
           NEW p \in Person, Acts(p)
    PROVE  ChallengesMatchMeta'
<1> SUFFICES ASSUME meta' # None, NEW o \in meta'.operators
             PROVE  challenges'[o] \in {None, MessageOf(meta)'}
  BY DEF ChallengesMatchMeta
<1> USE DEF TypeInv
<1>0. MessageOf(meta)' = MessageOf(meta')
  BY DEF MessageOf, Message
<1>1. Changes(p) /\ TypeInv'
  <2>1. [Next]_vars
    BY DEF Acts, Next, RunSign
  <2> QED  BY <2>1, ActsChanges, StepType
<1>2. o \in Recipient
  BY <1>1 DEF StateType, MetaType
<1>3. CASE WriteChallenge(p)
  <2>1. pc[p] = "challenge" /\ meta' = meta
    BY <1>3 DEF WriteChallenge
  <2> QED  BY <2>1 DEF AnnounceInv
<1>4. CASE SaveMeta(p)
  <2>1. /\ pc[p] = "challenge" /\ local[p].todo = {}
        /\ meta' = local[p].meta /\ challenges' = challenges
    BY <1>4 DEF SaveMeta
  <2> QED  BY <1>0, <2>1 DEF AnnounceInv
<1>5. CASE ~WriteChallenge(p) /\ ~SaveMeta(p)
  <2>1. meta' = meta
    BY <1>1, <1>5 DEF Changes
  <2>2. challenges[o] \in {None, MessageOf(meta)}
    BY <2>1 DEF ChallengesMatchMeta
  <2>3. challenges'[o] \in {None, challenges[o]}
    BY <1>2, <1>5, ChallengesStay
  <2> QED  BY <1>0, <2>1, <2>2, <2>3
<1> QED  BY <1>3, <1>4, <1>5

-----------------------------------------------------------------------------
(* A set of signatures is spent once *)

\* A namespace only gets newer.
LEMMA ShaGrows ==
    ASSUME StateType, [Next]_vars, NEW ns \in Namespace
    PROVE  /\ Sha(ns) \in Nat /\ Sha(ns)' \in Nat
           /\ Sha(ns) <= Sha(ns)'
<1>0. Sha(ns) \in Nat
  BY DEF StateType, Sha
<1>1. ASSUME NEW c, NEW v, Env!Apply(c, v)
      PROVE  Sha(ns)' \in Nat /\ Sha(ns) <= Sha(ns)'
  <2>1. entry'[ns].version \in {Sha(ns), Sha(ns) + 1} /\ entry'[ns].version \in Nat
    BY <1>1, ApplyEffect
  <2> QED  BY <1>0, <2>1 DEF Sha
<1>2. CASE UNCHANGED entry
  BY <1>0, <1>2 DEF Sha
<1>3. CASE OtherCommand
  <2>1. PICK c \in Calls : Env!Apply(c, 1)
    BY <1>3 DEF OtherCommand
  <2> QED  BY <1>0, <1>1, <2>1
<1>4. ASSUME NEW p \in Person, Acts(p)
      PROVE  Sha(ns)' \in Nat /\ Sha(ns) <= Sha(ns)'
  <2>1. CASE ApplyAdd(p)
    BY <1>1, <2>1 DEF ApplyAdd
  <2> QED  BY <1>2, <1>4, <2>1, ActsChanges DEF Changes
<1>5. EditPolicy \/ Rest \/ UNCHANGED vars => UNCHANGED entry
  BY DEF EditPolicy, Rest, vars
<1>6. \/ \E p \in Person : Acts(p)
      \/ OtherCommand \/ EditPolicy \/ Rest \/ UNCHANGED vars
  <2>1. ASSUME NEW p \in Maintainer, RunAdd(p) PROVE p \in Person /\ Acts(p)
    BY <2>1 DEF Acts
  <2>2. ASSUME NEW p \in Person, RunSign(p) \/ Adding(p) \/ Signing(p) \/ Stop(p)
        PROVE  Acts(p)
    BY <2>2 DEF Acts
  <2> QED  BY <2>1, <2>2 DEF Next
<1> QED  BY <1>0, <1>2, <1>3, <1>4, <1>5, <1>6

\* What an addition spends was prepared on contents it has replaced.
LEMMA ApplySpends ==
    ASSUME TypeInv, GateInv, VerifierInv, SpentInv, NEW p \in Person, ApplyAdd(p),
           NEW g \in Gated', g \notin grants
    PROVE  /\ GatedCall(local[p]) /\ Checked(local[p])
           /\ g.meta = local[p].meta /\ g.meta \in MetaType
           /\ g.ns = TheCall(p).ns /\ g.ns \in Namespace /\ g.meta.ns = g.ns
           /\ g.meta.sha = local[p].sha /\ g.meta.verifier = Identity[p]
           /\ g.meta.sha < Sha(g.ns)'
<1>1. /\ g.ns = TheCall(p).ns /\ g.meta = local[p].meta /\ g.how = Path(p)
      /\ pc[p] = "apply" /\ Env!Apply([kind |-> "recipientAdd", ns |-> TheCall(p).ns,
                                        who |-> TheCall(p).who], 1)
  BY DEF ApplyAdd, Gated
<1>2. GatedCall(local[p])
  BY <1>1, PathIsGated DEF Gated
<1>3. /\ local[p] \in Local /\ WellFormed("apply", local[p])
      /\ TheCall(p).ns \in Namespace
  BY <1>1, Locals, CallKinds DEF TypeInv, TheCall
<1>4. Checked(local[p]) /\ local[p].meta \in MetaType
  BY <1>2, <1>3 DEF WellFormed, CommitStep, Checked, Local
<1>5. local[p].meta.sha = local[p].sha /\ local[p].sha <= Sha(TheCall(p).ns)
  BY <1>1, <1>2 DEF SpentInv, Compared
<1>6. Sha(TheCall(p).ns)' = Sha(TheCall(p).ns) + 1
  <2> DEFINE c == [kind |-> "recipientAdd", ns |-> TheCall(p).ns, who |-> TheCall(p).who]
  <2>1. c.ns = TheCall(p).ns
    OBVIOUS
  <2> HIDE DEF c
  <2>2. Env!Apply(c, 1)
    BY <1>1 DEF c
  <2>3. entry'[c.ns].version = Sha(c.ns) + 1
    BY <1>3, <2>1, <2>2, ApplyEffect DEF TypeInv
  <2>4. TheCall(p)' = TheCall(p)
    BY DEF ApplyAdd, TheCall
  <2> QED  BY <2>1, <2>3, <2>4 DEF Sha
<1>7. Sha(TheCall(p).ns) \in Nat
  BY <1>3 DEF TypeInv, StateType, Sha
<1>8. Sha(g.ns)' = Sha(g.ns) + 1
  <2>1. TheCall(p)' = TheCall(p)
    BY DEF ApplyAdd, TheCall
  <2> QED  BY <1>1, <1>6, <2>1 DEF Sha
<1>9. local[p].meta.sha \in Nat /\ local[p].meta.ns = TheCall(p).ns
  BY <1>4 DEF MetaType, Checked, TheCall
<1>10. local[p].meta.verifier = Identity[p]
  BY <1>1, <1>2 DEF VerifierInv, CommitStep
<1> QED  BY <1>1, <1>2, <1>3, <1>4, <1>5, <1>7, <1>8, <1>9, <1>10

\* The facts about spent sets that a step keeps.
LEMMA SpentIsOld ==
    ASSUME TypeInv, GateInv, VerifierInv, SpentInv, NEW p \in Person, Acts(p), NEW g \in Gated'
    PROVE  g.ns \in Namespace /\ g.meta.sha < Sha(g.ns)'
<1>1. CASE g \in grants
  <2>1. g \in Gated /\ g.ns \in Namespace /\ g.meta.sha < Sha(g.ns) /\ g.meta.sha \in Nat
    BY <1>1 DEF Gated, SpentInv, GateInv, GrantInv, Evidence, MetaType
  <2>2. [Next]_vars
    BY DEF Acts, Next, RunSign
  <2>3. Sha(g.ns) \in Nat /\ Sha(g.ns)' \in Nat /\ Sha(g.ns) <= Sha(g.ns)'
    BY <2>1, <2>2, ShaGrows DEF TypeInv
  <2> QED  BY <2>1, <2>3
<1>2. CASE g \notin grants
  <2>1. ApplyAdd(p)
    BY <1>2, ActsChanges DEF Changes, Gated
  <2> QED  BY <1>2, <2>1, ApplySpends
<1> QED  BY <1>1, <1>2

LEMMA SpentOnceStep ==
    ASSUME TypeInv, GateInv, NonceInv, VerifierInv, SpentInv, SpentOnce, NEW p \in Person, Acts(p)
    PROVE  SpentOnce'
<1>1. CASE UNCHANGED grants
  BY <1>1 DEF SpentOnce, Gated
<1>2. CASE ApplyAdd(p)
  <2>1. ASSUME NEW g \in Gated', g \notin grants, NEW h \in Gated
        PROVE  g.meta.nonce # h.meta.nonce
    <3>1. /\ GatedCall(local[p]) /\ Checked(local[p])
          /\ g.meta = local[p].meta /\ g.meta \in MetaType
          /\ g.ns = TheCall(p).ns /\ g.meta.ns = g.ns
          /\ g.meta.sha = local[p].sha /\ g.meta.verifier = Identity[p]
      BY <1>2, <2>1, ApplySpends
    <3>2. h.meta \in MetaType /\ h.meta.ns = h.ns
      BY DEF GateInv, GrantInv, Evidence
    <3>3. g.meta \in KnownMeta /\ h.meta \in KnownMeta
      BY <3>1, <3>2 DEF KnownMeta
    <3>4. SUFFICES ASSUME g.meta = h.meta PROVE FALSE
      BY <3>3 DEF NonceInv
    <3>5. h.ns = TheCall(p).ns
      BY <3>1, <3>2, <3>4
    <3>6. pc[p] = "apply"
      BY <1>2 DEF ApplyAdd
    <3>7. h.meta.sha < local[p].sha
      BY <3>1, <3>4, <3>5, <3>6 DEF SpentInv, Compared
    <3>8. h.meta.sha = local[p].sha /\ h.meta.sha \in Nat
      BY <3>1, <3>2, <3>4 DEF MetaType
    <3> QED  BY <3>7, <3>8
  <2>2. ASSUME NEW g \in Gated', g \notin grants, NEW h \in Gated', h \notin grants
        PROVE  g = h
    BY <1>2, <2>2 DEF ApplyAdd, Gated
  <2>3. \A g \in Gated' : g \in grants => g \in Gated
    BY DEF Gated
  <2> QED  BY <2>1, <2>2, <2>3 DEF SpentOnce
<1> QED  BY <1>1, <1>2, ActsChanges DEF Changes

\* Whoever comes to compare hashes has read a newer one than was ever spent.
LEMMA ComparedStep ==
    ASSUME OneCommandPerIdentity, TypeInv, GateInv, AddersInv, VerifierInv, SpentInv,
           NEW p \in Person, Acts(p), NEW q \in Person, Compared(q)'
    PROVE  /\ local'[q].call.ns \in Namespace
           /\ local'[q].sha <= Sha(local'[q].call.ns)
           /\ \A g \in Gated' :
                 g.ns = local'[q].call.ns /\ g.meta.verifier = Identity[q]
                   => g.meta.sha < local'[q].sha
           /\ pc'[q] # "check" => local'[q].meta.sha = local'[q].sha
<1> USE DEF TypeInv
<1>1. Moves(p) /\ Alone(p) /\ Changes(p)
  BY ActsMoves, ActsChanges
<1>2. CASE q # p
  <2>1. pc'[q] = pc[q] /\ local'[q] = local[q]
    BY <1>1, <1>2 DEF Alone
  <2>2. Compared(q) /\ pc[q] \in AddStep
    BY <2>1 DEF Compared, AddStep, PolicyStep, CommitStep, GatedCall
  <2>3. q \in Maintainer
    BY <2>2 DEF AddersInv
  <2>4. ASSUME NEW g \in Gated', g.meta.verifier = Identity[q] PROVE g \in Gated
    <3>1. CASE ApplyAdd(p) /\ g \notin grants
      <4>1. g.meta.verifier = Identity[p] /\ p \in Maintainer
        BY <3>1, ApplySpends, AddersAct
      <4> QED  BY <1>2, <2>3, <2>4, <4>1 DEF OneCommandPerIdentity
    <3> QED  BY <1>1, <3>1 DEF Changes, Gated
  <2>6. TheCall(q).ns \in Namespace
    BY <2>2, Locals, CallKinds DEF TheCall, AddStep, PolicyStep, CommitStep
  <2> QED  BY <2>1, <2>2, <2>4, <2>6 DEF SpentInv, TheCall
<1>3. CASE q = p /\ FindToVerify(p)
  <2> DEFINE n == Sha(TheCall(p).ns)
  <2>1. /\ pc[p] = "verify" /\ local[p] \in Local /\ UNCHANGED grants
        /\ local' = [local EXCEPT ![p].sha = n] /\ pc'[p] = "check"
    BY <1>3 DEF FindToVerify, Goto, ControlInv
  <2> HIDE DEF n
  <2>2. local'[p].sha = n /\ local'[p].call = local[p].call
    BY <2>1 DEF ControlInv, Local
  <2>3. TheCall(p).ns \in Namespace
    BY <2>1, Locals, CallKinds DEF TheCall
  <2>4. n \in Nat
    BY <2>3 DEF n, Sha, StateType
  <2> QED  BY <1>3, <2>1, <2>2, <2>3, <2>4 DEF n, SpentInv, Gated, TheCall
<1>4. CASE q = p /\ CheckMeta(p) /\ pc'[p] = "collect"
  <2>1. /\ pc[p] = "check" /\ local[p] \in Local /\ UNCHANGED grants
        /\ meta # None /\ meta.sha = local[p].sha
        /\ local' = [local EXCEPT ![p].meta = meta]
    <3>1. ~Return(p)
      BY <1>4, ReturnMoves
    <3> QED  BY <1>4, <3>1 DEF CheckMeta, OrRefuse, MetaMatches, ControlInv
  <2>2. /\ local'[p].meta = meta /\ local'[p].call = local[p].call
        /\ local'[p].sha = local[p].sha
    BY <2>1 DEF ControlInv, Local
  <2>3. Compared(p)
    BY <2>1 DEF Compared
  <2>4. TheCall(p).ns \in Namespace
    BY <2>1, Locals, CallKinds DEF TheCall
  <2> QED  BY <1>4, <2>1, <2>2, <2>3, <2>4 DEF SpentInv, Gated, TheCall
<1>5. CASE q = p /\ Collect(p) /\ pc'[p] = "apply"
  <2>1. /\ pc[p] = "collect" /\ local[p] \in Local /\ UNCHANGED grants
        /\ local' = [local EXCEPT ![p].signers = ValidSigners(p)]
    <3>1. ~Return(p)
      BY <1>5, ReturnMoves
    <3> QED  BY <1>5, <3>1 DEF Collect, OrRefuse, ControlInv
  <2>2. /\ local'[p].meta = local[p].meta /\ local'[p].call = local[p].call
        /\ local'[p].sha = local[p].sha
    BY <2>1 DEF ControlInv, Local
  <2>3. Compared(p)
    BY <2>1 DEF Compared
  <2>4. TheCall(p).ns \in Namespace
    BY <2>1, Locals, CallKinds DEF TheCall
  <2> QED  BY <1>5, <2>1, <2>2, <2>3, <2>4 DEF SpentInv, Gated, TheCall
<1>6. ASSUME q = p, ~FindToVerify(p), ~(CheckMeta(p) /\ pc'[p] = "collect"),
             ~(Collect(p) /\ pc'[p] = "apply")
      PROVE  FALSE
  <2>1. Compared(p)'
    BY <1>6
  <2>2. pc'[p] \in {"check", "collect", "apply"} /\ (pc'[p] = "apply" => GatedCall(local'[p]))
    BY <2>1 DEF Compared, GatedCall
  <2>3. CASE RunAdd(p) /\ pc'[p] = "apply" /\ \E c \in Adds : local'[p] = [NoCall EXCEPT !.call = c]
    BY <2>2, <2>3 DEF GatedCall, NoCall
  <2>4. CASE Count(p) /\ pc'[p] = "apply" /\ local'[p] = [local[p] EXCEPT !.todo = {}]
    <3>1. local[p] \in Local /\ local[p].call.how = "bootstrap"
      BY <2>4, Locals DEF Count, WellFormed
    <3>2. local'[p].call = local[p].call
      BY <2>4, <3>1 DEF Local
    <3> QED  BY <2>2, <2>4, <3>1, <3>2 DEF GatedCall
  <2> QED  BY <1>1, <1>6, <2>2, <2>3, <2>4 DEF Moves, Idles
<1> QED  BY <1>2, <1>3, <1>4, <1>5, <1>6

LEMMA SpentStep ==
    ASSUME OneCommandPerIdentity, TypeInv, GateInv, AddersInv, VerifierInv, SpentInv,
           NEW p \in Person, Acts(p)
    PROVE  SpentInv'
<1>1. \A g \in Gated' : g.ns \in Namespace /\ g.meta.sha < Sha(g.ns)'
  BY SpentIsOld
<1>2. ASSUME NEW q \in Person, Compared(q)'
      PROVE  /\ local'[q].sha <= Sha(TheCall(q).ns)'
             /\ \A g \in Gated' :
                   g.ns = TheCall(q)'.ns /\ g.meta.verifier = Identity[q]
                     => g.meta.sha < local'[q].sha
             /\ pc'[q] # "check" => local'[q].meta.sha = local'[q].sha
  <2>1. /\ local'[q].call.ns \in Namespace
        /\ local'[q].sha <= Sha(local'[q].call.ns)
        /\ \A g \in Gated' :
              g.ns = local'[q].call.ns /\ g.meta.verifier = Identity[q]
                => g.meta.sha < local'[q].sha
        /\ pc'[q] # "check" => local'[q].meta.sha = local'[q].sha
    BY <1>2, ComparedStep
  <2>2. local'[q].sha \in Nat /\ [Next]_vars
    <3>1. [Next]_vars
      BY DEF Acts, Next, RunSign
    <3> QED  BY <3>1, StepType DEF TypeInv, ControlInv, Local
  <2>3. \A ns \in Namespace : Sha(ns) \in Nat /\ Sha(ns)' \in Nat /\ Sha(ns) <= Sha(ns)'
    BY <2>2, ShaGrows DEF TypeInv
  <2> QED  BY <2>1, <2>2, <2>3 DEF TheCall, Sha
<1> QED  BY <1>1, <1>2 DEF SpentInv

-----------------------------------------------------------------------------
(* Theorems *)

LEMMA InitSpend == Init => SpendInv
<1> SUFFICES ASSUME Init PROVE SpendInv
  OBVIOUS
<1>1. \A p \in Person : pc[p] = "idle" /\ local[p] = NoCall
  BY DEF Init
<1>2. grants = {} /\ meta = None /\ NoCall.meta = None
  BY DEF Init, NoCall
<1>3. KnownMeta = {} /\ Gated = {}
  BY <1>1, <1>2 DEF KnownMeta, Gated
<1>4. AddersInv
  BY <1>1 DEF AddersInv, AddStep, PolicyStep, CommitStep
<1>5. NonceInv
  BY <1>3 DEF NonceInv
<1>6. VerifierInv
  <2>1. \A o \in Recipient : sigs[o] = None
    BY DEF Init
  <2>2. "idle" \notin CommitStep
    BY DEF CommitStep
  <2> QED  BY <1>1, <2>1, <2>2 DEF VerifierInv
<1>7. SpentInv
  BY <1>1, <1>3 DEF SpentInv, Compared
<1>8. SpentOnce
  BY <1>3 DEF SpentOnce
<1> QED  BY <1>4, <1>5, <1>6, <1>7, <1>8 DEF SpendInv

LEMMA InitSerial == Init => SerialInv
<1> SUFFICES ASSUME Init PROVE SerialInv
  OBVIOUS
<1>1. \A p \in Person : pc[p] = "idle"
  BY DEF Init
<1>2. AddersInv
  BY <1>1 DEF AddersInv, AddStep, PolicyStep, CommitStep
<1>3. AnnounceInv
  BY <1>1 DEF AnnounceInv
<1>4. ChallengesMatchMeta
  BY DEF Init, ChallengesMatchMeta
<1> QED  BY <1>2, <1>3, <1>4 DEF SerialInv

\* What the store, the policy and rest do leaves all of it as it is.
LEMMA EnvironmentSerial ==
    ASSUME SerialInv, UNCHANGED <<meta, challenges, pc, local>>
    PROVE  SerialInv'
  BY DEF SerialInv, AddersInv, AnnounceInv, ChallengesMatchMeta, MessageOf, Message

LEMMA EnvironmentSpend ==
    ASSUME TypeInv, GateInv, SpendInv, [Next]_vars,
           UNCHANGED <<meta, sigs, pc, local, nonce, grants>>
    PROVE  SpendInv'
<1> USE DEF SpendInv
<1>1. AddersInv' /\ NonceInv' /\ SpentOnce'
  BY DEF AddersInv, NonceInv, KnownMeta, SpentOnce, Gated
<1>2. VerifierInv'
  BY DEF VerifierInv, KnownMeta, Gated, GatedCall
<1>3. \A ns \in Namespace : Sha(ns) \in Nat /\ Sha(ns)' \in Nat /\ Sha(ns) <= Sha(ns)'
  BY ShaGrows DEF TypeInv
<1>4. \A g \in Gated' : g.ns \in Namespace /\ g.meta.sha < Sha(g.ns)'
  <2> SUFFICES ASSUME NEW g \in Gated PROVE g.ns \in Namespace /\ g.meta.sha < Sha(g.ns)'
    BY DEF Gated
  <2>1. g.ns \in Namespace /\ g.meta.sha < Sha(g.ns) /\ g.meta.sha \in Nat
    BY DEF SpentInv, GateInv, GrantInv, Evidence, MetaType
  <2>2. Sha(g.ns) \in Nat /\ Sha(g.ns)' \in Nat /\ Sha(g.ns) <= Sha(g.ns)'
    BY <1>3, <2>1
  <2> QED  BY <2>1, <2>2
<1>5. ASSUME NEW q \in Person, Compared(q)'
      PROVE  /\ local'[q].sha <= Sha(TheCall(q).ns)'
             /\ \A g \in Gated' :
                   g.ns = TheCall(q)'.ns /\ g.meta.verifier = Identity[q]
                     => g.meta.sha < local'[q].sha
             /\ pc'[q] # "check" => local'[q].meta.sha = local'[q].sha
  <2>1. Compared(q)
    BY <1>5 DEF Compared, GatedCall
  <2>2. TheCall(q).ns \in Namespace /\ local[q].sha \in Nat
    BY <2>1, Locals, CallKinds DEF TypeInv, TheCall, Compared, Local
  <2>3. Sha(TheCall(q).ns) <= Sha(TheCall(q).ns)'
        /\ Sha(TheCall(q).ns) \in Nat /\ Sha(TheCall(q).ns)' \in Nat
    BY <1>3, <2>2 DEF TheCall, Sha
  <2>4. local[q].sha <= Sha(TheCall(q).ns)'
    BY <2>1, <2>2, <2>3 DEF SpentInv
  <2> QED  BY <2>1, <2>4 DEF SpentInv, TheCall, Gated
<1>6. SpentInv'
  BY <1>4, <1>5 DEF SpentInv
<1> QED  BY <1>1, <1>2, <1>6

LEMMA SpendStep ==
    ASSUME OneCommandPerIdentity, TypeInv, GateInv, SpendInv, [Next]_vars
    PROVE  SpendInv'
<1>1. ASSUME NEW p \in Person, Acts(p) PROVE SpendInv'
  BY <1>1, AddersStep, NonceStep, VerifierStep, SpentStep, SpentOnceStep
     DEF TypeInv, SpendInv
<1> QED  BY <1>1, StepCases, EnvironmentSpend

LEMMA SerialStep ==
    ASSUME OneMaintainer, TypeInv, SerialInv, [Next]_vars
    PROVE  SerialInv'
<1>1. ASSUME NEW p \in Person, Acts(p) PROVE SerialInv'
  BY <1>1, AddersStep, AnnounceStep, AnnouncedStep DEF TypeInv, SerialInv
<1> QED  BY <1>1, StepCases, EnvironmentSerial

\* The inductive invariant of commands that share no identity: what is compared
\* is newer than anything the same verifier has spent.
THEOREM SpendInvariant ==
    OneCommandPerIdentity => (Spec => [](TypeInv /\ GateInv /\ SpendInv))
<1> SUFFICES ASSUME OneCommandPerIdentity PROVE Spec => [](TypeInv /\ GateInv /\ SpendInv)
  OBVIOUS
<1>1. Init => TypeInv /\ GateInv /\ SpendInv
  BY InitType, InitGate, InitSpend
<1>2. TypeInv /\ GateInv /\ SpendInv /\ [Next]_vars => (TypeInv /\ GateInv /\ SpendInv)'
  BY StepType, StepGate, SpendStep
<1> QED  BY <1>1, <1>2, PTL DEF Spec

\* The inductive invariant of a single maintainer: while challenges are written
\* there is no meta.json, and they are those of the one that is to come.
THEOREM SerialInvariant == OneMaintainer => (Spec => [](TypeInv /\ SerialInv))
<1> SUFFICES ASSUME OneMaintainer PROVE Spec => [](TypeInv /\ SerialInv)
  OBVIOUS
<1>1. Init => TypeInv /\ SerialInv
  BY InitType, InitSerial
<1>2. TypeInv /\ SerialInv /\ [Next]_vars => (TypeInv /\ SerialInv)'
  BY StepType, SerialStep
<1> QED  BY <1>1, <1>2, PTL DEF Spec

\* No set of signatures admits two additions, whether `recipient add` is
\* repeated, stops before or while it clears the directory, or other commands
\* rewrite the namespace, as long as no two people run it with one identity:
\* its hash is not that of the contents any more, and nobody else can count it.
THEOREM SignaturesAreSpentOnce == OneCommandPerIdentity => (Spec => []SpentOnce)
<1> SUFFICES ASSUME OneCommandPerIdentity PROVE Spec => []SpentOnce
  OBVIOUS
<1>1. SpendInv => SpentOnce
  BY DEF SpendInv
<1>2. Spec => [](TypeInv /\ GateInv /\ SpendInv)
  BY SpendInvariant
<1> QED  BY <1>1, <1>2, PTL

\* With one maintainer, a challenge that meta.json announces is missing or is
\* the one its operator can sign, wherever prepare and the clearing stop.
THEOREM AnnouncedCanBeSigned == OneMaintainer => (Spec => []ChallengesMatchMeta)
<1> SUFFICES ASSUME OneMaintainer PROVE Spec => []ChallengesMatchMeta
  OBVIOUS
<1>1. SerialInv => ChallengesMatchMeta
  BY DEF SerialInv
<1>2. Spec => [](TypeInv /\ SerialInv)
  BY SerialInvariant
<1> QED  BY <1>1, <1>2, PTL
=============================================================================
