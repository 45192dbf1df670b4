----------------------------- MODULE WebSession -----------------------------
(***************************************************************************)
(* The token of the web UI and its rotation: internal/web/rotation.go and  *)
(* cookie.go, and the watcher of SIGUSR1 in internal/cli.  One token opens *)
(* the UI; a cookie is a copy of it.  Two goroutines replace it: one when  *)
(* the operator sends a signal, one when no authorised request has been    *)
(* made for a while.  Requests tell the second through a channel of one    *)
(* slot that never blocks them.                                            *)
(*                                                                         *)
(* Tokens are numbered in the order in which they become current.  A timer *)
(* that runs may fire at any time.  Left out: shutdown, and a source of    *)
(* random numbers that fails.                                              *)
(***************************************************************************)
EXTENDS Naturals

CONSTANTS MaxRotations   \* bound on the rotations

ASSUME RotationAssumption == MaxRotations \in Nat

VARIABLES
    setting,   \* fixed at the start: setting.rotations, the rotations there will
               \* be (a bound), and what WebUI adds
    token,     \* the current token
    slot,      \* the channel `activity` holds a value
    timer,     \* of the idle watcher: stopped, running, fired
    sigusr1,   \* the channel of the signal watcher holds a signal
    rotator,   \* rotator -> what it does next
    minted,    \* rotator -> the token it has set
    last,      \* the last token printed
    \* Observations, read by properties only.
    unseen,    \* an authorised request was made since the timer was last armed
    overlap    \* the current token was set while another rotation had still
               \* to print its own

sessionVars == <<setting, token, slot, timer, sigusr1, rotator, minted, last, unseen, overlap>>

Rotator == {"idle", "signal"}
NoToken == 0
Token   == 1..1 + MaxRotations

\* The token that will not be replaced any more.
LastToken == 1 + setting.rotations

RotatorStep == {"off", "wait", "print", "bump", "drain", "arm"}

\* The first token has been printed by runWeb, and the goroutines are started:
\* the idle watcher, unless --idle-rotate is 0, begins with draining the slot and
\* arming the timer.
SessionInit(idleRotates) ==
    /\ token = 1
    /\ slot = FALSE
    /\ timer = "stopped"
    /\ sigusr1 = FALSE
    /\ rotator = [r \in Rotator |->
                     IF r = "signal" THEN "wait" ELSE IF idleRotates THEN "drain" ELSE "off"]
    /\ minted = [r \in Rotator |-> NoToken]
    /\ last = 1
    /\ unseen = FALSE
    /\ overlap = FALSE

Then(r, step) == rotator' = [rotator EXCEPT ![r] = step]

Rotating(r) == rotator[r] = "print"

-----------------------------------------------------------------------------
(* Rotate, called by r *)

\* A fresh random token replaces the current one under the write lock.
SetToken(r) ==
    /\ token < LastToken
    /\ token' = token + 1
    /\ minted' = [minted EXCEPT ![r] = token + 1]
    /\ overlap' = \E q \in Rotator \ {r} : Rotating(q)
    /\ Then(r, "print")

\* Mutant: what is printed is the token that has been replaced.
PrintReplaced(r) ==
    /\ rotator[r] = "print"
    /\ last' = minted[r] - 1
    /\ Then(r, "bump")
    /\ UNCHANGED <<setting, token, slot, timer, sigusr1, minted, unseen, overlap>>

PrintToken(r) ==
    /\ rotator[r] = "print"
    /\ last' = minted[r]
    /\ Then(r, "bump")
    /\ UNCHANGED <<setting, token, slot, timer, sigusr1, minted, unseen, overlap>>

\* bumpActivity: a send that is dropped when the slot is full.
Bump(r) ==
    /\ rotator[r] = "bump"
    /\ slot' = TRUE
    /\ Then(r, IF r = "idle" THEN "drain" ELSE "wait")
    /\ minted' = [minted EXCEPT ![r] = NoToken]
    /\ UNCHANGED <<setting, token, timer, sigusr1, last, unseen, overlap>>

-----------------------------------------------------------------------------
(* RunIdleRotation *)

\* Mutant: the activity is taken note of, and the timer left running.
ReceiveOnly ==
    /\ rotator["idle"] = "wait"
    /\ slot
    /\ slot' = FALSE
    /\ UNCHANGED <<setting, token, timer, sigusr1, rotator, minted, last, unseen, overlap>>

\* select, with a value in the slot.
ReceiveActivity ==
    /\ rotator["idle"] = "wait"
    /\ slot
    /\ slot' = FALSE
    /\ Then("idle", "arm")
    /\ UNCHANGED <<setting, token, timer, sigusr1, minted, last, unseen, overlap>>

\* select, with a timer that has fired.  Both may be ready: either is taken.
IdleRotate ==
    /\ rotator["idle"] = "wait"
    /\ timer = "fired"
    /\ timer' = "stopped"
    /\ SetToken("idle")
    /\ UNCHANGED <<setting, slot, sigusr1, last, unseen>>

\* drainOnce, at the start and after a rotation.
Drain ==
    /\ rotator["idle"] = "drain"
    /\ slot' = FALSE
    /\ Then("idle", "arm")
    /\ UNCHANGED <<setting, token, timer, sigusr1, minted, last, unseen, overlap>>

\* Mutant: the timer is not armed again once it has fired.
ArmOnce ==
    /\ rotator["idle"] = "arm"
    /\ timer' = IF token = 1 THEN "running" ELSE timer
    /\ unseen' = FALSE
    /\ Then("idle", "wait")
    /\ UNCHANGED <<setting, token, slot, sigusr1, minted, last, overlap>>

\* NewTimer, or resetTimer: a value the timer may have left is taken out.
Arm ==
    /\ rotator["idle"] = "arm"
    /\ timer' = "running"
    /\ unseen' = FALSE
    /\ Then("idle", "wait")
    /\ UNCHANGED <<setting, token, slot, sigusr1, minted, last, overlap>>

TimerFires ==
    /\ timer = "running"
    /\ timer' = "fired"
    /\ UNCHANGED <<setting, token, slot, sigusr1, rotator, minted, last, unseen, overlap>>

-----------------------------------------------------------------------------
(* watchManualRotate *)

\* The operator sends SIGUSR1; a signal that finds the channel full is dropped.
Signal ==
    /\ token < LastToken
    /\ ~sigusr1
    /\ sigusr1' = TRUE
    /\ UNCHANGED <<setting, token, slot, timer, rotator, minted, last, unseen, overlap>>

ManualRotate ==
    /\ rotator["signal"] = "wait"
    /\ sigusr1
    /\ sigusr1' = FALSE
    /\ SetToken("signal")
    /\ UNCHANGED <<setting, slot, timer, last, unseen>>

-----------------------------------------------------------------------------
(* Requests *)

\* Mutant: the token before the current one still opens the UI.
HasRecentToken(cookie) == cookie # NoToken /\ cookie \in {token - 1, token}

\* hasValidSession, the comparison: the cookie is the current token.
HasToken(cookie) == cookie # NoToken /\ cookie = token

\* markAuthorized.
MarkAuthorized ==
    /\ slot' = TRUE
    /\ unseen' = TRUE
    /\ UNCHANGED <<setting, token, timer, sigusr1, rotator, minted, last, overlap>>

\* What the two goroutines do by themselves.
IdleWatcher   == ReceiveActivity \/ IdleRotate \/ PrintToken("idle") \/ Bump("idle")
                 \/ Drain \/ Arm
SignalWatcher == ManualRotate \/ PrintToken("signal") \/ Bump("signal")
SessionStep   == IdleWatcher \/ SignalWatcher \/ TimerFires \/ Signal
=============================================================================
