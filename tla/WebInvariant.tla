---------------------------- MODULE WebInvariant ----------------------------
(***************************************************************************)
(* The inductive invariant behind the theorems about WebUI: one part for   *)
(* each of the two modules it composes, and one for the requests.          *)
(***************************************************************************)
EXTENDS WebProperties

-----------------------------------------------------------------------------
(* The catalog *)

CatalogType ==
    /\ entry \in [Store -> Entry]
    /\ file \in [Store -> Manifest]
    /\ creation \in [Actor -> Creation]

\* A creation is one of a store.
CatalogInv ==
    /\ CatalogType
    /\ \A a \in Actor : creation[a].step # "none" => creation[a].store \in Store

\* A creation that has not failed: the directories it has passed are there, and
\* stay; it opens the manifest when none is left, and from then on there is one.
BuiltInv ==
    \A a \in Actor :
        LET c == creation[a] IN
        /\ c.step \notin {"none", "failed"} =>
              \A d \in Path[c.store] \ c.segments : entry[d] = "dir"
        /\ c.step \in {"open", "write", "done"} => c.segments = {}
        /\ c.step \in {"write", "done"} => file[c.store] # "none"

-----------------------------------------------------------------------------
(* The session *)

SessionType ==
    /\ setting \in Setting
    /\ token \in Token
    /\ slot \in BOOLEAN
    /\ timer \in {"stopped", "running", "fired"}
    /\ sigusr1 \in BOOLEAN
    /\ rotator \in [Rotator -> RotatorStep]
    /\ minted \in [Rotator -> Token \union {NoToken}]
    /\ last \in Token
    /\ unseen \in BOOLEAN
    /\ overlap \in BOOLEAN

\* A rotator prints a token there is, and the current one unless overlapped.
PrintInv ==
    /\ \A r \in Rotator : Rotating(r) => minted[r] \in Token
    /\ ~overlap => \A r \in Rotator : Rotating(r) => minted[r] = token
    /\ LastPrintedIsCurrent

SessionInv == SessionType /\ PrintInv /\ ActivityReachesTimer

-----------------------------------------------------------------------------
(* The requests *)

UIType ==
    /\ active \in Store
    /\ cookie \in Token \union {NoToken}
    /\ pc \in [Handler -> HandlerStep]
    /\ request \in [Handler -> Request]
    /\ requests \in 0..MaxRequests
    /\ since \in [Handler -> Token \union {NoToken}]
    /\ seen \in [Handler -> SUBSET Store]

\* Where a request is that has passed the guards; that has a session as well; and
\* that may have an effect.
Guarded  == HandlerStep \ {"idle", "guard"}
Acting   == {"creating", "selecting", "current", "load", "save"}
Admitted == {"mark"} \union Acting

\* What the record of a request in progress holds; a handler is in a creation
\* only while it waits for it.
RequestInv(h) ==
    /\ creation[h].step # "none" => pc[h] = "creating"
    /\ pc[h] # "idle" =>
          /\ request[h].kind \in Kind /\ request[h].host \in Host
          /\ request[h].kind \in {"create", "select"} => request[h].store \in Managed
          /\ pc[h] \in {"creating", "selecting"} => request[h].kind \in {"create", "select"}
          /\ pc[h] \in {"current", "load", "save"} => request[h].kind \notin {"create", "select"}

\* What a request has shown on the way to where it is: that it comes from a page
\* of the server, and a token that was current after it had arrived.
EntitledInv(h) ==
    /\ pc[h] # "idle" => since[h] \in Token /\ since[h] <= token
    /\ pc[h] \in Guarded => request[h].kind = "index" \/ FromOwnPage(request[h])
    /\ pc[h] = "setCookie" => request[h].kind = "login" /\ request[h].text \in since[h]..token
    /\ pc[h] \in Admitted => /\ request[h].kind \notin {"login", "logout"}
                             /\ request[h].cookie \in since[h]..token
    /\ pc[h] \in Acting => request[h].kind # "index" /\ MayWrite(request[h])

\* The stores that a request has seen active, and the one it is to write.
SeenInv(h) ==
    /\ pc[h] # "idle" => active \in seen[h]
    /\ pc[h] \in {"load", "save"} => request[h].store \in seen[h]

HandlerInv == \A h \in Handler : RequestInv(h) /\ EntitledInv(h) /\ SeenInv(h)

UIInv == CatalogInv /\ SessionInv /\ UIType /\ HandlerInv
=============================================================================
