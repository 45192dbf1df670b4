---------------------------- MODULE WebProperties ----------------------------
(***************************************************************************)
(* What the web UI keeps while its token rotates and stores are created.   *)
(***************************************************************************)
EXTENDS WebUI

\* Types of the state and of the observations.
TypeOK ==
    /\ entry \in [Store -> Entry]
    /\ file \in [Store -> Manifest]
    /\ creation \in [Actor -> Creation]
    /\ token \in Token
    /\ slot \in BOOLEAN
    /\ timer \in {"stopped", "running", "fired"}
    /\ sigusr1 \in BOOLEAN
    /\ rotator \in [Rotator -> RotatorStep]
    /\ minted \in [Rotator -> Token \union {NoToken}]
    /\ last \in Token
    /\ unseen \in BOOLEAN
    /\ overlap \in BOOLEAN
    /\ active \in Store
    /\ setting \in Setting
    /\ cookie \in Token \union {NoToken}
    /\ pc \in [Handler -> HandlerStep]
    /\ request \in [Handler -> Request]
    /\ requests \in 0..MaxRequests
    /\ since \in [Handler -> Token \union {NoToken}]
    /\ seen \in [Handler -> SUBSET Store]

\* The last token on the operator's terminal is the one that opens the UI, unless
\* the last two rotations overlapped or the last has still to print its token.
LastPrintedIsCurrent ==
    ~overlap /\ (\A r \in Rotator : ~Rotating(r)) => last = token

\* No authorised request goes unnoticed: while the idle watcher waits, one that
\* was made since it armed the timer is in the slot, so that the watcher cannot go
\* to sleep over it, however requests, rotations and the watcher's own draining of
\* the slot interleave.
ActivityReachesTimer == rotator["idle"] = "wait" /\ unseen => slot

\* A browser gets a session for a token that was current while its login was
\* handled: a rotation between the comparison and the cookie may turn the token
\* just replaced into a session under the new one, and no older one ever.
SessionsAreEarned ==
    [][\A h \in Handler :
          cookie' \notin {cookie, NoToken} /\ pc[h] # pc'[h]
              => /\ cookie' = token
                 /\ request[h].kind = "login"
                 /\ request[h].text \in since[h]..token]_vars

\* The step that is being made is one of request h, and writes a store or changes
\* the active one.
HasEffect(h) ==
    /\ <<pc[h], creation[h]>> # <<pc[h], creation[h]>>'
    /\ pc[h] = "save" \/ <<entry, file, active>> # <<entry, file, active>>'

\* A page of this server, by the headers the request came with.
FromOwnPage(r) ==
    /\ \E a \in Authorities : r.host.name = a.name
    /\ r.site # "same-site"
    /\ r.site = Nil => r.origin = r.host

\* What a request changes, and when it changes it, long after it was admitted:
\* it came from a page of this server, with a cookie that was the current token
\* after it had arrived, and writes a value only where that is allowed.
EffectsAreAuthorised ==
    [][\A h \in Handler :
          HasEffect(h) => /\ FromOwnPage(request[h])
                          /\ request[h].cookie \in since[h]..token
                          /\ request[h].kind \notin {"index", "login", "logout"}
                          /\ request[h].kind = "set" => setting.canSet]_vars

\* Sessions end when nobody uses them: with requests ceasing, as they do here,
\* the idle watcher rotates the token again and again, whatever signals and
\* activity came before (every token is replaced until the bound is reached).
IdleSessionsEnd == rotator["idle"] # "off" => <>(token = LastToken)

\* Creating a store never costs anybody its namespaces, however the creation, the
\* first `init` and other creations of the same store interleave.
CreateKeepsNamespaces ==
    [][\A s \in Store : file[s] = "used" => file'[s] = "used"]_vars

\* The active store is changed to one that can be used, or that was created by
\* the request and is not usable because its manifest is being written or could
\* not be written, by somebody else.
ActiveIsUsable ==
    [][active' # active =>
          \/ Inspect(active') = "valid"
          \/ /\ file[active'] = "empty"
             /\ \E h \in Handler : creation[h].store = active' /\ creation[h].step = "done"]_vars

\* A write request changes a store that was active at some time since it arrived,
\* though other requests switch stores while it is handled.
ActsOnAnActiveStore ==
    [][\A h \in Handler :
          HasEffect(h) /\ pc[h] = "save"
              => /\ request[h].store \in seen[h]
                 /\ \A s \in Store \ seen[h] : file'[s] = file[s]]_vars
=============================================================================
