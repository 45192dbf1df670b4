------------------------------ MODULE WebProofs ------------------------------
(***************************************************************************)
(* Theorems about WebUI, for every number of requests at a time and of     *)
(* other processes, every set of stores, and any number of rotations.      *)
(***************************************************************************)
EXTENDS WebInvariant, TLAPS

USE StoreAssumption, CatalogAssumption, RotationAssumption, ActorAssumption,
    RequestAssumption, StartAssumption

LEMMA PathInStore == \A s \in Store : Path[s] \subseteq Store
  BY DEF Path

LEMMA DefaultTypes ==
    /\ NoCreation \in Creation
    /\ NoRequest \in Request
  BY DEF NoCreation, Creation, CreationStep, NoRequest, Request, NoToken

-----------------------------------------------------------------------------
(* The catalog *)

LEMMA GoOnType ==
    ASSUME CatalogInv, NEW a \in Actor, NEW step \in CreationStep, GoOn(a, step),
           creation[a].step # "none"
    PROVE  /\ creation' \in [Actor -> Creation]
           /\ \A b \in Actor : creation'[b].step # "none" => creation'[b].store \in Store
  BY DEF CatalogInv, CatalogType, GoOn, Creation

LEMMA NextSegmentType ==
    ASSUME CatalogInv, NEW a \in Actor, NextSegment(a), creation[a].step # "none"
    PROVE  /\ creation' \in [Actor -> Creation]
           /\ \A b \in Actor : creation'[b].step # "none" => creation'[b].store \in Store
<1> DEFINE left == creation[a].segments \ {First(creation[a].segments)}
           step == IF left = {} THEN "open" ELSE "look"
<1>1. left \in SUBSET Store /\ step \in CreationStep
  BY DEF CatalogInv, CatalogType, Creation, CreationStep
<1>2. creation' = [creation EXCEPT ![a].segments = left, ![a].step = step]
  BY DEF NextSegment
<1> HIDE DEF left, step
<1>3. QED  BY <1>1, <1>2 DEF CatalogInv, CatalogType, Creation

LEMMA CreationStepType ==
    ASSUME CatalogInv, NEW a \in Actor, CreationStepOf(a)
    PROVE  /\ CatalogInv'
           /\ \A b \in Actor \ {a} : creation'[b] = creation[b]
           /\ creation[a].step # "none"
<1>1. /\ creation[a].step # "none" /\ creation[a].store \in Store
      /\ entry' \in [Store -> Entry]
      /\ file' \in [Store -> Manifest]
      /\ NextSegment(a) \/ \E step \in CreationStep : GoOn(a, step)
  <2> USE DEF CatalogInv, CatalogType, CreationStep, Entry, Manifest
  <2>1. CASE Lstat(a)
    BY <2>1 DEF Lstat
  <2>2. CASE Mkdir(a)
    BY <2>2 DEF Mkdir
  <2>3. CASE OpenManifest(a)
    BY <2>3 DEF OpenManifest
  <2>4. CASE WriteManifest(a)
    BY <2>4 DEF WriteManifest
  <2>5. CASE WriteManifestFails(a)
    BY <2>5 DEF WriteManifestFails
  <2> QED  BY <2>1, <2>2, <2>3, <2>4, <2>5 DEF CreationStepOf
<1>2. /\ creation' \in [Actor -> Creation]
      /\ \A b \in Actor : creation'[b].step # "none" => creation'[b].store \in Store
  BY <1>1, GoOnType, NextSegmentType
<1>3. \A b \in Actor \ {a} : creation'[b] = creation[b]
  BY <1>1 DEF NextSegment, GoOn, CatalogInv, CatalogType
<1> QED  BY <1>1, <1>2, <1>3 DEF CatalogInv, CatalogType

LEMMA CatalogSame ==
    ASSUME CatalogInv, UNCHANGED catalogVars
    PROVE  CatalogInv'
  BY DEF CatalogInv, CatalogType, catalogVars

-----------------------------------------------------------------------------
(* The session *)

LEMMA SessionSame ==
    ASSUME SessionInv, UNCHANGED sessionVars
    PROVE  SessionInv'
  BY DEF SessionInv, SessionType, PrintInv, LastPrintedIsCurrent,
         ActivityReachesTimer, Rotating, sessionVars

LEMMA MarkType ==
    ASSUME SessionInv, MarkAuthorized
    PROVE  SessionInv' /\ UNCHANGED <<setting, token>>
  BY DEF SessionInv, SessionType, PrintInv, LastPrintedIsCurrent,
         ActivityReachesTimer, Rotating, MarkAuthorized

\* A new token: nobody has still to print another one, or the rotation overlaps.
LEMMA SetTokenType ==
    ASSUME SessionInv, NEW r \in Rotator, SetToken(r), ~Rotating(r),
           UNCHANGED <<setting, slot, last, unseen>>, sigusr1' \in BOOLEAN,
           timer' \in {"stopped", "running", "fired"}
    PROVE  SessionInv' /\ token' = token + 1
<1>1. token' \in Token /\ token' = token + 1 /\ token \in Nat
  BY DEF SetToken, LastToken, SessionInv, SessionType, Setting, Token
<1>2. /\ rotator' = [rotator EXCEPT ![r] = "print"]
      /\ minted' = [minted EXCEPT ![r] = token']
      /\ overlap' = \E q \in Rotator \ {r} : Rotating(q)
  BY DEF SetToken, Then
<1>3. SessionType'
  BY <1>1, <1>2 DEF SessionInv, SessionType, RotatorStep
<1>4. PrintInv'
  BY <1>1, <1>2 DEF SessionInv, SessionType, PrintInv, LastPrintedIsCurrent, Rotating
<1>5. ActivityReachesTimer'
  BY <1>2 DEF SessionInv, SessionType, ActivityReachesTimer, Rotator
<1> QED  BY <1>1, <1>3, <1>4, <1>5 DEF SessionInv

\* A step of a rotator that is not a rotation's first or last.
LEMMA SessionStepType ==
    ASSUME SessionInv, SessionStep
    PROVE  SessionInv' /\ setting' = setting /\ token' \in {token, token + 1}
<1> USE DEF SessionInv, SessionType, PrintInv, LastPrintedIsCurrent,
            ActivityReachesTimer, Rotating, Rotator, RotatorStep, Then
<1>1. CASE ReceiveActivity
  BY <1>1 DEF ReceiveActivity
<1>2. CASE IdleRotate
  BY <1>2, SetTokenType DEF IdleRotate
<1>3. ASSUME NEW r \in Rotator, PrintToken(r)
      PROVE  SessionInv' /\ UNCHANGED <<setting, token>>
  BY <1>3 DEF PrintToken
<1>4. ASSUME NEW r \in Rotator, Bump(r)
      PROVE  SessionInv' /\ UNCHANGED <<setting, token>>
  BY <1>4 DEF Bump
<1>5. CASE Drain
  BY <1>5 DEF Drain
<1>6. CASE Arm
  BY <1>6 DEF Arm
<1>7. CASE ManualRotate
  BY <1>7, SetTokenType DEF ManualRotate
<1>8. CASE TimerFires
  BY <1>8 DEF TimerFires
<1>9. CASE Signal
  BY <1>9 DEF Signal
<1> QED
  BY <1>1, <1>2, <1>3, <1>4, <1>5, <1>6, <1>7, <1>8, <1>9
     DEF SessionStep, IdleWatcher, SignalWatcher

-----------------------------------------------------------------------------
(* The requests *)

\* What a request has shown stays shown while others act, tokens are replaced
\* and the active store changes.
LEMMA Kept ==
    ASSUME SessionInv, UIType, HandlerInv, NEW h \in Handler,
           setting' = setting, token' \in {token, token + 1},
           UNCHANGED <<pc[h], request[h], since[h], creation[h]>>,
           \/ UNCHANGED <<active, seen[h]>>
           \/ active' \in seen'[h] /\ seen[h] \subseteq seen'[h]
           \/ pc[h] = "idle"
    PROVE  RequestInv(h)' /\ EntitledInv(h)' /\ SeenInv(h)'
<1>1. RequestInv(h) /\ EntitledInv(h) /\ SeenInv(h)
  BY DEF HandlerInv
<1>2. token \in Nat /\ token' \in Nat /\ token <= token'
  BY DEF SessionInv, SessionType, Token
<1>3. RequestInv(h)'
  BY <1>1 DEF RequestInv
<1>4. EntitledInv(h)'
  <2>1. pc[h] # "idle" => since[h] \in Nat
    BY <1>1 DEF EntitledInv, Token
  <2>2. \A t : t \in since[h]..token /\ since[h] \in Nat => t \in since[h]..token'
    BY <1>2
  <2>3. "idle" \notin Admitted /\ "setCookie" # "idle"
    BY DEF Admitted, Acting
  <2>4. pc[h] # "idle" => since[h] \in Token /\ since[h] <= token'
    BY <1>1, <1>2, <2>1 DEF EntitledInv
  <2>5. pc[h] \in Guarded => request[h].kind = "index" \/ FromOwnPage(request[h])
    BY <1>1 DEF EntitledInv
  <2>6. pc[h] = "setCookie" => request[h].kind = "login" /\ request[h].text \in since[h]..token'
    BY <1>1, <2>1, <2>2, <2>3 DEF EntitledInv
  <2>7. pc[h] \in Admitted => /\ request[h].kind \notin {"login", "logout"}
                              /\ request[h].cookie \in since[h]..token'
    BY <1>1, <2>1, <2>2, <2>3 DEF EntitledInv
  <2>8. pc[h] \in Acting => request[h].kind # "index" /\ MayWrite(request[h])
    BY <1>1 DEF EntitledInv
  <2> QED  BY <2>4, <2>5, <2>6, <2>7, <2>8 DEF EntitledInv, FromOwnPage, MayWrite
<1>5. SeenInv(h)'
  BY <1>1 DEF SeenInv
<1> QED  BY <1>3, <1>4, <1>5

\* Nobody but handler h does anything to the requests.
LEMMA OthersKept ==
    ASSUME SessionInv, UIType, HandlerInv, NEW h \in Handler,
           setting' = setting, token' = token,
           \A q \in Handler \ {h} :
              /\ UNCHANGED <<pc[q], request[q], since[q], creation[q]>>
              /\ \/ UNCHANGED <<active, seen[q]>>
                 \/ active' \in seen'[q] /\ seen[q] \subseteq seen'[q]
                 \/ pc[q] = "idle",
           RequestInv(h)' /\ EntitledInv(h)' /\ SeenInv(h)'
    PROVE  HandlerInv'
<1> SUFFICES ASSUME NEW q \in Handler PROVE RequestInv(q)' /\ EntitledInv(q)' /\ SeenInv(q)'
  BY DEF HandlerInv
<1>1. CASE q = h
  BY <1>1
<1>2. CASE q # h
  BY <1>2, Kept
<1> QED  BY <1>1, <1>2

\* Nothing is expected of an idle handler.
LEMMA IdleInv ==
    ASSUME NEW h \in Handler, pc'[h] = "idle", creation'[h].step = "none"
    PROVE  RequestInv(h)' /\ EntitledInv(h)' /\ SeenInv(h)'
<1>1. \A step \in {"setCookie"} \union Guarded \union Admitted \union Acting : step # "idle"
  BY DEF Guarded, Admitted, Acting
<1> QED  BY <1>1 DEF RequestInv, EntitledInv, SeenInv

\* The answer ends a request that is in no creation.
LEMMA AnswerType ==
    ASSUME UIInv, NEW h \in Handler, Answer(h), UNCHANGED <<creation, setting, token>>,
           creation[h].step = "none", UNCHANGED <<active, since, seen>>
    PROVE  /\ pc' \in [Handler -> HandlerStep] /\ request' \in [Handler -> Request]
           /\ HandlerInv'
<1>1. /\ pc' = [pc EXCEPT ![h] = "idle"]
      /\ request' = [request EXCEPT ![h] = NoRequest]
  BY DEF Answer, Goto
<1>2. pc' \in [Handler -> HandlerStep] /\ request' \in [Handler -> Request]
  BY <1>1, DefaultTypes DEF UIInv, UIType, HandlerStep
<1>3. pc'[h] = "idle" /\ creation'[h].step = "none"
  BY <1>1 DEF UIInv, UIType
<1>4. \A q \in Handler \ {h} : UNCHANGED <<pc[q], request[q], since[q], creation[q]>>
  BY <1>1 DEF UIInv, UIType
<1>5. HandlerInv'
  BY <1>3, <1>4, IdleInv, OthersKept DEF UIInv
<1> QED  BY <1>2, <1>5

\* A handler goes on with its request.
LEMMA GotoType ==
    ASSUME UIInv, NEW h \in Handler, NEW step \in HandlerStep, NEW r \in Request,
           pc' = [pc EXCEPT ![h] = step],
           request' = [request EXCEPT ![h] = r],
           UNCHANGED <<setting, token, active, since, seen>>,
           \A q \in Handler \ {h} : creation'[q] = creation[q],
           RequestInv(h)' /\ EntitledInv(h)' /\ SeenInv(h)'
    PROVE  /\ pc' \in [Handler -> HandlerStep] /\ request' \in [Handler -> Request]
           /\ HandlerInv'
<1>1. \A q \in Handler \ {h} : UNCHANGED <<pc[q], request[q], since[q], creation[q]>>
  BY DEF UIInv, UIType
<1>2. HandlerInv'
  BY <1>1, OthersKept DEF UIInv
<1> QED  BY <1>2 DEF UIInv, UIType

\* A handler that is not in a creation.
LEMMA NoCreationOf ==
    ASSUME UIInv, NEW h \in Handler, pc[h] # "creating"
    PROVE  creation[h].step = "none"
  BY DEF UIInv, HandlerInv, RequestInv

LEMMA SendType ==
    ASSUME UIInv, NEW h \in Handler, NEW r \in setting.sent, Send(h, r)
    PROVE  UIInv'
<1> DEFINE new == [kind |-> r.kind, cookie |-> cookie, text |-> r.text, store |-> r.store,
                   host |-> r.host, origin |-> r.origin, site |-> r.site]
<1>1. r \in RequestType /\ (r.kind \in {"create", "select"} => r.store \in Managed)
  BY DEF UIInv, SessionInv, SessionType, Setting
<1>2. new \in Request
  BY <1>1 DEF RequestType, Request, UIInv, UIType
<1>3. /\ pc' = [pc EXCEPT ![h] = "guard"] /\ request' = [request EXCEPT ![h] = new]
      /\ since' = [since EXCEPT ![h] = token] /\ seen' = [seen EXCEPT ![h] = {active}]
      /\ requests' = requests + 1 /\ requests < setting.requests
      /\ UNCHANGED <<catalogVars, sessionVars, active, cookie>> /\ pc[h] = "idle"
  BY DEF Send, Goto
<1>4. new.kind = r.kind /\ new.store = r.store /\ new.host = r.host
  OBVIOUS
<1> HIDE DEF new
<1>5. token \in Token /\ token \in Nat
  BY DEF UIInv, SessionInv, SessionType, Token
<1>6. UIType'
  BY <1>2, <1>3, <1>5 DEF UIInv, UIType, SessionInv, SessionType, Setting, HandlerStep
<1>7. /\ pc'[h] = "guard" /\ request'[h] = new /\ since'[h] = token
      /\ seen'[h] = {active} /\ active' = active /\ token' = token
      /\ creation' = creation /\ setting' = setting
  BY <1>3 DEF UIInv, UIType, sessionVars, catalogVars
<1>8. RequestInv(h)'
  BY <1>1, <1>3, <1>4, <1>7, NoCreationOf DEF RequestInv, RequestType
<1>9. EntitledInv(h)' /\ SeenInv(h)'
  <2>1. "guard" \notin Guarded \union Admitted \union Acting
    BY DEF Guarded, Admitted, Acting
  <2>2. QED  BY <1>5, <1>7, <2>1 DEF EntitledInv, SeenInv
<1>10. HandlerInv'
  <2>1. \A q \in Handler \ {h} :
           UNCHANGED <<pc[q], request[q], since[q], creation[q], active, seen[q]>>
    BY <1>3, <1>7 DEF UIInv, UIType
  <2>2. QED  BY <1>7, <1>8, <1>9, <2>1, OthersKept DEF UIInv
<1> QED  BY <1>3, <1>6, <1>10, CatalogSame, SessionSame DEF UIInv

\* Answers that leave everything else alone.
LEMMA OnlyAnswerType ==
    ASSUME UIInv, NEW h \in Handler, pc[h] # "creating", Answer(h),
           UNCHANGED <<catalogVars, sessionVars, active, requests, since, seen>>,
           cookie' \in Token \union {NoToken}
    PROVE  UIInv'
<1>1. UNCHANGED <<creation, setting, token>>
  BY DEF catalogVars, sessionVars
<1>2. pc' \in [Handler -> HandlerStep] /\ request' \in [Handler -> Request] /\ HandlerInv'
  BY <1>1, NoCreationOf, AnswerType
<1> QED  BY <1>2, CatalogSame, SessionSame DEF UIInv, UIType

\* A handler goes on to step, with the same request.
LEMMA OnlyGotoType ==
    ASSUME UIInv, NEW h \in Handler, pc[h] \notin {"idle", "creating"},
           NEW step \in HandlerStep \ {"idle", "creating"},
           Goto(h, step), UNCHANGED request,
           UNCHANGED <<catalogVars, sessionVars, active, cookie, requests, since, seen>>,
           step \in Guarded =>
              \/ pc[h] \in Guarded
              \/ request[h].kind = "index" \/ FromOwnPage(request[h]),
           step = "setCookie" => request[h].kind = "login" /\ HasToken(request[h].text),
           step \in Admitted =>
              \/ pc[h] \in Admitted
              \/ request[h].kind \notin {"login", "logout"} /\ HasToken(request[h].cookie),
           step \in Acting => pc[h] \in {"current", "load"} /\ step \in {"load", "save"},
           step \in {"load", "save"} => pc[h] = "load"
    PROVE  UIInv'
<1>1. UNCHANGED <<creation, setting, token>>
  BY DEF catalogVars, sessionVars
<1>2. /\ pc' = [pc EXCEPT ![h] = step] /\ request' = [request EXCEPT ![h] = request[h]]
      /\ pc'[h] = step /\ request'[h] = request[h] /\ request[h] \in Request
  BY DEF Goto, UIInv, UIType
<1>3. RequestInv(h) /\ EntitledInv(h) /\ SeenInv(h)
  BY DEF UIInv, HandlerInv
<1>4. since[h] \in Nat /\ token \in Nat /\ since[h] <= token
  BY <1>3 DEF EntitledInv, UIInv, SessionInv, SessionType, Token
<1>5. RequestInv(h)'
  BY <1>1, <1>2, <1>3, NoCreationOf DEF RequestInv, Acting
<1>6. EntitledInv(h)'
  <2>1. \A t : HasToken(t) => t \in since[h]..token
    BY <1>4 DEF HasToken
  <2>2. "idle" \notin Guarded
    BY DEF Guarded
  <2>3. pc'[h] \in Acting => pc[h] \in Acting
    BY <1>2 DEF Acting
  <2>4. since'[h] = since[h] /\ token' = token
    BY <1>1
  <2>5. FromOwnPage(request[h]) => FromOwnPage(request[h])'
    BY <1>2 DEF FromOwnPage
  <2>6. MayWrite(request[h]) => MayWrite(request[h])'
    BY <1>1, <1>2 DEF MayWrite
  <2>7. QED  BY <1>2, <1>3, <2>1, <2>2, <2>3, <2>4, <2>5, <2>6 DEF EntitledInv
<1>7. SeenInv(h)'
  BY <1>2, <1>3 DEF SeenInv
<1>8. pc' \in [Handler -> HandlerStep] /\ request' \in [Handler -> Request] /\ HandlerInv'
  BY <1>1, <1>2, <1>5, <1>6, <1>7, GotoType
<1> QED  BY <1>8, CatalogSame, SessionSame DEF UIInv, UIType

\* What passes both guards comes from a page of the server, the index excepted.
LEMMA GuardsAdmitOwnPages ==
    ASSUME NEW r \in Request, r.host \in Host, Allow(r.host), SameOrigin(r)
    PROVE  r.kind = "index" \/ FromOwnPage(r)
<1>1. PICK a \in Authorities : Expand(r.host) \intersect Expand(a) # {}
  BY DEF Allow
<1>2. r.host.name = a.name
  BY <1>1 DEF Expand, Host
<1>3. QED  BY <1>2 DEF SameOrigin, FromOwnPage, Site

\* Guards and sessions.
LEMMA AdmissionType ==
    ASSUME UIInv, NEW h \in Handler,
           \/ Guard(h) \/ HandleLogin(h) \/ SetSessionCookie(h)
           \/ HandleLogout(h) \/ RequireSession(h)
    PROVE  UIInv'
<1> USE DEF Guarded, Admitted, Acting, HandlerStep
<1>1. /\ request[h] \in Request
      /\ pc[h] # "idle" => request[h].host \in Host
      /\ token \in Token
      /\ cookie \in Token \union {NoToken}
  BY DEF UIInv, UIType, SessionInv, SessionType, HandlerInv, RequestInv
<1>2. CASE Guard(h)
  <2>1. CASE Answer(h)
    BY <1>1, <1>2, <2>1, OnlyAnswerType DEF Guard
  <2>2. CASE ~Answer(h)
    <3>1. Allow(request[h].host) /\ SameOrigin(request[h]) /\ Goto(h, "session")
          /\ UNCHANGED request /\ pc[h] = "guard"
      BY <1>2, <2>2 DEF Guard
    <3>2. request[h].kind = "index" \/ FromOwnPage(request[h])
      BY <1>1, <3>1, GuardsAdmitOwnPages
    <3>3. QED  BY <1>2, <3>1, <3>2, OnlyGotoType DEF Guard
  <2>3. QED  BY <2>1, <2>2
<1>3. CASE HandleLogin(h)
  <2>1. CASE Answer(h)
    BY <1>1, <1>3, <2>1, OnlyAnswerType DEF HandleLogin
  <2>2. CASE ~Answer(h)
    BY <1>3, <2>2, OnlyGotoType DEF HandleLogin
  <2>3. QED  BY <2>1, <2>2
<1>4. CASE SetSessionCookie(h)
  BY <1>1, <1>4, OnlyAnswerType DEF SetSessionCookie
<1>5. CASE HandleLogout(h)
  BY <1>1, <1>5, OnlyAnswerType DEF HandleLogout
<1>6. CASE RequireSession(h)
  <2>1. CASE Answer(h)
    BY <1>1, <1>6, <2>1, OnlyAnswerType DEF RequireSession
  <2>2. CASE ~Answer(h)
    BY <1>6, <2>2, OnlyGotoType DEF RequireSession
  <2>3. QED  BY <2>1, <2>2
<1> QED  BY <1>2, <1>3, <1>4, <1>5, <1>6

\* From the session to the handlers.
LEMMA DispatchType ==
    ASSUME UIInv, NEW h \in Handler, Dispatch(h)
    PROVE  UIInv'
<1> DEFINE r == request[h]
<1>1. /\ pc[h] = "mark" /\ MarkAuthorized
      /\ UNCHANGED <<entry, file, active, cookie, requests, since, seen>>
  BY DEF Dispatch
<1>2. SessionInv' /\ UNCHANGED <<setting, token>>
  BY <1>1, MarkType DEF UIInv
<1>3. creation[h].step = "none"
  BY <1>1, NoCreationOf
<1>4. CASE Answer(h) /\ UNCHANGED creation
  <2>1. pc' \in [Handler -> HandlerStep] /\ request' \in [Handler -> Request] /\ HandlerInv'
    BY <1>1, <1>2, <1>3, <1>4, AnswerType
  <2>2. CatalogInv'
    BY <1>1, <1>4, CatalogSame DEF UIInv, catalogVars
  <2>3. QED  BY <1>1, <1>2, <2>1, <2>2 DEF UIInv, UIType
<1>5. CASE ~(Answer(h) /\ UNCHANGED creation)
  <2> DEFINE step == CASE r.kind = "create" -> "creating"
                       [] r.kind = "select" -> "selecting"
                       [] OTHER             -> "current"
  <2>1. /\ r.kind # "index" /\ MayWrite(r) /\ Goto(h, step) /\ UNCHANGED request
        /\ IF r.kind = "create" THEN BeginCreation(h, r.store) ELSE UNCHANGED creation
    BY <1>5 DEF Dispatch
  <2>2. /\ RequestInv(h) /\ EntitledInv(h) /\ SeenInv(h) /\ r \in Request
        /\ h \in Actor /\ r.kind = "create" => r.store \in Store
    BY <1>1 DEF UIInv, UIType, HandlerInv, RequestInv
  <2>3. /\ step \in {"creating", "selecting", "current"}
        /\ step = "creating" <=> r.kind = "create"
        /\ step = "selecting" => r.kind = "select"
        /\ step = "current" => r.kind \notin {"create", "select"}
    OBVIOUS
  <2>4. /\ pc' = [pc EXCEPT ![h] = step] /\ request' = [request EXCEPT ![h] = r]
        /\ pc'[h] = step /\ request'[h] = r
    BY <2>1 DEF Goto, UIInv, UIType
  <2> HIDE DEF step
  <2>5. /\ CatalogInv'
        /\ \A a \in Actor \ {h} : creation'[a] = creation[a]
        /\ creation'[h].step # "none" => r.kind = "create"
    <3>1. CASE r.kind = "create"
      <4> DEFINE c == [step |-> "look", store |-> r.store, segments |-> Path[r.store]]
      <4>1. c \in Creation /\ c.step = "look" /\ c.store \in Store
        BY <2>2, <3>1, PathInStore DEF Creation, CreationStep
      <4>2. creation' = [creation EXCEPT ![h] = c]
        BY <2>1, <3>1 DEF BeginCreation
      <4> HIDE DEF c
      <4>3. QED  BY <1>1, <2>2, <3>1, <4>1, <4>2 DEF UIInv, CatalogInv, CatalogType
    <3>2. CASE r.kind # "create"
      <4>1. creation' = creation
        BY <2>1, <3>2
      <4>2. QED  BY <1>1, <1>3, <2>2, <4>1, CatalogSame DEF UIInv, catalogVars
    <3>3. QED  BY <3>1, <3>2
  <2>6. RequestInv(h)'
    BY <1>1, <2>2, <2>3, <2>4, <2>5 DEF RequestInv
  <2>7. EntitledInv(h)'
    <3>1. pc[h] \in Guarded /\ pc[h] \in Admitted /\ pc'[h] # "setCookie"
      BY <1>1, <2>3, <2>4 DEF Guarded, Admitted, HandlerStep
    <3>2. FromOwnPage(request[h]) => FromOwnPage(request[h])'
      BY <2>4 DEF FromOwnPage
    <3>3. MayWrite(request[h])'
      BY <1>2, <2>1, <2>4 DEF MayWrite
    <3>4. QED  BY <1>1, <1>2, <2>1, <2>2, <2>4, <3>1, <3>2, <3>3 DEF EntitledInv
  <2>8. SeenInv(h)'
    BY <1>1, <2>2, <2>3, <2>4 DEF SeenInv
  <2>9. pc' \in [Handler -> HandlerStep] /\ request' \in [Handler -> Request] /\ HandlerInv'
    BY <1>1, <1>2, <2>2, <2>3, <2>4, <2>5, <2>6, <2>7, <2>8, GotoType DEF HandlerStep
  <2>10. QED  BY <1>1, <1>2, <2>5, <2>9 DEF UIInv, UIType
<1> QED  BY <1>4, <1>5

-----------------------------------------------------------------------------
(* The active store *)

\* A request that ends with a change of the active store, or without.
LEMMA EndSelectionType ==
    ASSUME UIInv, NEW h \in Handler, Answer(h),
           UNCHANGED <<entry, file, sessionVars, cookie, requests, since>>,
           CatalogInv', creation'[h].step = "none",
           \A q \in Handler \ {h} : creation'[q] = creation[q],
           UNCHANGED <<active, seen>> \/ \E s \in Store : SetActive(s)
    PROVE  UIInv'
<1>1. /\ pc' = [pc EXCEPT ![h] = "idle"]
      /\ request' = [request EXCEPT ![h] = NoRequest]
      /\ UNCHANGED <<setting, token>>
  BY DEF Answer, Goto, sessionVars
<1>2. active' \in Store /\ seen' \in [Handler -> SUBSET Store]
  BY DEF SetActive, UIInv, UIType
<1>3. \A q \in Handler \ {h} :
         /\ UNCHANGED <<pc[q], request[q], since[q], creation[q]>>
         /\ \/ UNCHANGED <<active, seen[q]>>
            \/ active' \in seen'[q] /\ seen[q] \subseteq seen'[q]
            \/ pc[q] = "idle"
  BY <1>1 DEF SetActive, UIInv, UIType
<1>4. pc'[h] = "idle"
  BY <1>1 DEF UIInv, UIType
<1>5. HandlerInv'
  BY <1>1, <1>3, <1>4, IdleInv, OthersKept DEF UIInv
<1>6. pc' \in [Handler -> HandlerStep] /\ request' \in [Handler -> Request]
  BY <1>1, DefaultTypes DEF UIInv, UIType, HandlerStep
<1> QED  BY <1>2, <1>5, <1>6, SessionSame DEF UIInv, UIType

LEMMA SelectionType ==
    ASSUME UIInv, NEW h \in Handler, FinishCreate(h) \/ Select(h)
    PROVE  UIInv'
<1>1. CASE FinishCreate(h)
  <2>1. h \in Actor /\ creation[h].store \in Store
    BY <1>1 DEF FinishCreate, UIInv, CatalogInv
  <2>2. creation' = [creation EXCEPT ![h] = NoCreation] /\ UNCHANGED <<entry, file>>
    BY <1>1 DEF FinishCreate
  <2>3. NoCreation.step = "none"
    BY DEF NoCreation
  <2>4. CatalogInv' /\ creation'[h].step = "none"
    BY <2>1, <2>2, <2>3, DefaultTypes DEF UIInv, CatalogInv, CatalogType
  <2>5. \A q \in Handler \ {h} : creation'[q] = creation[q]
    BY <2>2 DEF UIInv, CatalogInv, CatalogType
  <2>6. UNCHANGED <<active, seen>> \/ \E s \in Store : SetActive(s)
    BY <1>1, <2>1 DEF FinishCreate
  <2>7. QED  BY <1>1, <2>4, <2>5, <2>6, EndSelectionType DEF FinishCreate
<1>2. CASE Select(h)
  <2>1. /\ CatalogInv' /\ UNCHANGED creation
    BY <1>2, CatalogSame DEF Select, UIInv, catalogVars
  <2>2. creation'[h].step = "none" /\ request[h].store \in Store
    BY <1>2, <2>1, NoCreationOf DEF Select, UIInv, HandlerInv, RequestInv
  <2>3. UNCHANGED <<active, seen>> \/ \E s \in Store : SetActive(s)
    BY <1>2, <2>2 DEF Select
  <2>4. QED  BY <1>2, <2>1, <2>2, <2>3, EndSelectionType DEF Select, catalogVars
<1> QED  BY <1>1, <1>2

\* The store a request is to write is the one that was active when it looked.
LEMMA CurrentType ==
    ASSUME UIInv, NEW h \in Handler, Current(h)
    PROVE  UIInv'
<1>1. CASE Answer(h)
  BY <1>1, OnlyAnswerType DEF Current, UIInv, UIType
<1>2. CASE ~Answer(h)
  <2> DEFINE r == [request[h] EXCEPT !.store = active]
  <2>1. /\ pc[h] = "current"
        /\ UNCHANGED <<catalogVars, sessionVars, active, cookie, requests, since, seen>>
        /\ pc' = [pc EXCEPT ![h] = "load"]
        /\ request' = [request EXCEPT ![h] = r]
    BY <1>2 DEF Current, Open, Goto, UIInv, UIType
  <2>2. /\ r \in Request /\ r.store = active /\ r.kind = request[h].kind
        /\ r.cookie = request[h].cookie /\ r.host = request[h].host
        /\ r.site = request[h].site /\ r.origin = request[h].origin
    <3>1. request[h] \in Request /\ active \in Store
      BY DEF UIInv, UIType
    <3>2. QED  BY <3>1 DEF Request
  <2> HIDE DEF r
  <2>3. pc'[h] = "load" /\ request'[h] = r /\ UNCHANGED <<creation, setting, token>>
    BY <2>1 DEF UIInv, UIType, catalogVars, sessionVars
  <2>4. RequestInv(h) /\ EntitledInv(h) /\ SeenInv(h)
    BY DEF UIInv, HandlerInv
  <2>5. RequestInv(h)'
    BY <2>1, <2>2, <2>3, <2>4, NoCreationOf DEF RequestInv
  <2>6. EntitledInv(h)'
    <3>1. {"current", "load"} \subseteq Guarded \intersect Admitted \intersect Acting
      BY DEF Guarded, Admitted, Acting, HandlerStep
    <3>2. FromOwnPage(request[h]) => FromOwnPage(request[h])'
      BY <2>2, <2>3 DEF FromOwnPage
    <3>3. MayWrite(request[h]) => MayWrite(request[h])'
      BY <2>2, <2>3 DEF MayWrite
    <3>4. QED  BY <2>1, <2>2, <2>3, <2>4, <3>1, <3>2, <3>3 DEF EntitledInv
  <2>7. SeenInv(h)'
    BY <2>1, <2>2, <2>3, <2>4 DEF SeenInv
  <2>8. pc' \in [Handler -> HandlerStep] /\ request' \in [Handler -> Request] /\ HandlerInv'
    BY <2>1, <2>2, <2>3, <2>5, <2>6, <2>7, GotoType DEF HandlerStep
  <2>9. QED  BY <2>1, <2>8, CatalogSame, SessionSame DEF UIInv, UIType
<1> QED  BY <1>1, <1>2

LEMMA StoreCallType ==
    ASSUME UIInv, NEW h \in Handler, Load(h) \/ Save(h)
    PROVE  UIInv'
<1>1. CASE Load(h) /\ Answer(h)
  BY <1>1, OnlyAnswerType DEF Load, UIInv, UIType
<1>2. CASE Load(h) /\ ~Answer(h)
  BY <1>2, OnlyGotoType DEF Load, Guarded, Admitted, Acting, HandlerStep
<1>3. CASE Save(h)
  <2>1. CatalogInv'
    BY <1>3 DEF Save, SaveManifest, UIInv, CatalogInv, CatalogType, Entry, Manifest
  <2>2. creation[h].step = "none"
    BY <1>3, NoCreationOf DEF Save
  <2>3. UNCHANGED <<creation, setting, token>>
    BY <1>3 DEF Save, sessionVars
  <2>4. pc' \in [Handler -> HandlerStep] /\ request' \in [Handler -> Request] /\ HandlerInv'
    BY <1>3, <2>2, <2>3, AnswerType DEF Save
  <2>5. QED  BY <1>3, <2>1, <2>4, SessionSame DEF Save, UIInv, UIType
<1> QED  BY <1>1, <1>2, <1>3

-----------------------------------------------------------------------------
(* Everybody else *)

LEMMA CreatingType ==
    ASSUME UIInv, NEW a \in Actor, Creating(a)
    PROVE  UIInv'
<1>1. /\ CatalogInv' /\ creation[a].step # "none"
      /\ \A b \in Actor \ {a} : creation'[b] = creation[b]
      /\ UNCHANGED <<sessionVars, uiVars>>
  BY CreationStepType DEF Creating, UIInv
<1>2. HandlerInv'
  <2> SUFFICES ASSUME NEW h \in Handler PROVE RequestInv(h)' /\ EntitledInv(h)' /\ SeenInv(h)'
    BY DEF HandlerInv
  <2>1. RequestInv(h) /\ EntitledInv(h) /\ SeenInv(h)
    BY DEF UIInv, HandlerInv
  <2>2. creation'[h].step # "none" => creation[h].step # "none"
    BY <1>1
  <2>3. RequestInv(h)'
    BY <1>1, <2>1, <2>2 DEF RequestInv, uiVars
  <2>4. EntitledInv(h)' /\ SeenInv(h)'
    BY <1>1, <2>1 DEF EntitledInv, SeenInv, FromOwnPage, MayWrite, uiVars, sessionVars
  <2>5. QED  BY <2>3, <2>4
<1>3. UIType'
  BY <1>1 DEF UIInv, UIType, uiVars
<1> QED  BY <1>1, <1>2, <1>3, SessionSame DEF UIInv

LEMMA RunStoreCreateType ==
    ASSUME UIInv, NEW p \in Process, RunStoreCreate(p)
    PROVE  UIInv'
<1>1. PICK s \in setting.typed[p] : BeginCreation(p, s)
  BY DEF RunStoreCreate
<1>2. s \in Store /\ p \in Actor /\ p \notin Handler
  BY DEF UIInv, SessionInv, SessionType, Setting
<1> DEFINE c == [step |-> "look", store |-> s, segments |-> Path[s]]
<1>3. c \in Creation /\ c.step = "look" /\ c.store = s
  BY <1>2, PathInStore DEF Creation, CreationStep
<1>4. creation' = [creation EXCEPT ![p] = c] /\ UNCHANGED <<entry, file, sessionVars, uiVars>>
  BY <1>1 DEF BeginCreation, RunStoreCreate, uiVars
<1> HIDE DEF c
<1>5. CatalogInv' /\ \A h \in Handler : creation'[h] = creation[h]
  BY <1>2, <1>3, <1>4 DEF UIInv, CatalogInv, CatalogType
<1>6. HandlerInv'
  BY <1>4, <1>5, Kept DEF UIInv, HandlerInv, uiVars, sessionVars
<1>7. UIType'
  BY <1>4 DEF UIInv, UIType, uiVars
<1> QED  BY <1>4, <1>5, <1>6, <1>7, SessionSame DEF UIInv

LEMMA TokenStepType ==
    ASSUME UIInv, Session
    PROVE  UIInv'
<1>1. /\ SessionInv' /\ setting' = setting /\ token' \in {token, token + 1}
      /\ UNCHANGED <<catalogVars, uiVars>>
  BY SessionStepType DEF Session, UIInv
<1>2. HandlerInv'
  BY <1>1, Kept DEF UIInv, HandlerInv, uiVars, catalogVars
<1>3. UIType'
  BY <1>1 DEF UIInv, UIType, uiVars
<1> QED  BY <1>1, <1>2, <1>3, CatalogSame DEF UIInv

LEMMA InitInv == Init => UIInv
<1> SUFFICES ASSUME Init PROVE UIInv
  OBVIOUS
<1>1. PICK s \in Starts :
         /\ SessionInit(s.idleRotates)
         /\ setting = s.setting /\ entry = s.entry /\ file = s.file /\ active = s.active
  BY DEF Init
<1>2. CatalogInv
  BY <1>1, DefaultTypes DEF Init, CatalogInv, CatalogType, NoCreation
<1>3. token = 1 /\ token \in Token /\ last \in Token
  BY <1>1 DEF SessionInit, Token
<1>4. SessionType
  BY <1>1, <1>3 DEF SessionInit, SessionType, RotatorStep, NoToken
<1>5. PrintInv /\ ActivityReachesTimer
  BY <1>1 DEF SessionInit, PrintInv, LastPrintedIsCurrent, ActivityReachesTimer, Rotating
<1>6. UIType
  BY <1>1, <1>3, DefaultTypes DEF Init, UIType, HandlerStep, NoToken
<1>7. HandlerInv
  BY DEF Init, HandlerInv, RequestInv, EntitledInv, SeenInv, Guarded, Admitted, Acting,
         NoCreation
<1> QED  BY <1>2, <1>4, <1>5, <1>6, <1>7 DEF UIInv, SessionInv

LEMMA StepInv == UIInv /\ [Next]_vars => UIInv'
<1> SUFFICES ASSUME UIInv, [Next]_vars PROVE UIInv'
  OBVIOUS
<1>1. CASE UNCHANGED vars
  <2>1. UNCHANGED <<catalogVars, sessionVars, uiVars>>
    BY <1>1 DEF vars, uiVars
  <2>2. HandlerInv' /\ UIType'
    BY <2>1, Kept DEF UIInv, UIType, HandlerInv, uiVars, catalogVars, sessionVars
  <2>3. QED  BY <2>1, <2>2, CatalogSame, SessionSame DEF UIInv
<1>2. ASSUME NEW h \in Handler, Handle(h) PROVE UIInv'
  BY <1>2, AdmissionType, DispatchType, SelectionType, CurrentType, StoreCallType DEF Handle
<1>3. QED
  BY <1>1, <1>2, SendType, RunStoreCreateType, CreatingType, TokenStepType DEF Next

LEMMA AlwaysUIInv == Spec => []UIInv
  BY InitInv, StepInv, PTL DEF Spec

-----------------------------------------------------------------------------
(* Who does what *)

\* A handler's step is its own.
LEMMA HandlersApart ==
    ASSUME UIInv, NEW k \in Handler, Handle(k) \/ \E r \in setting.sent : Send(k, r)
    PROVE  /\ \A h \in Handler \ {k} : UNCHANGED <<pc[h], creation[h]>>
           /\ pc[k] \notin {"setCookie", "session"} => cookie' = cookie
           /\ pc[k] \notin Acting => UNCHANGED <<entry, file, active>>
<1> USE DEF UIInv, UIType, CatalogInv, CatalogType, Goto, Answer, Acting, catalogVars
<1>1. CASE \E r \in setting.sent : Send(k, r)
  BY <1>1 DEF Send
<1>2. CASE Guard(k)
  BY <1>2 DEF Guard
<1>3. CASE HandleLogin(k)
  BY <1>3 DEF HandleLogin
<1>4. CASE SetSessionCookie(k)
  BY <1>4 DEF SetSessionCookie
<1>5. CASE HandleLogout(k)
  BY <1>5 DEF HandleLogout
<1>6. CASE RequireSession(k)
  BY <1>6 DEF RequireSession
<1>7. CASE Dispatch(k)
  BY <1>7 DEF Dispatch, BeginCreation
<1>8. CASE FinishCreate(k)
  BY <1>8 DEF FinishCreate
<1>9. CASE Select(k)
  BY <1>9 DEF Select
<1>10. CASE Current(k)
  BY <1>10 DEF Current
<1>11. CASE Load(k)
  BY <1>11 DEF Load
<1>12. CASE Save(k)
  BY <1>12 DEF Save
<1> QED
  BY <1>1, <1>2, <1>3, <1>4, <1>5, <1>6, <1>7, <1>8, <1>9, <1>10, <1>11, <1>12
     DEF Handle

\* A step that moves handler h, or its creation, is one of h.
LEMMA ActorOf ==
    ASSUME UIInv, Next, NEW h \in Handler,
           <<pc[h], creation[h]>> # <<pc[h], creation[h]>>'
    PROVE  \/ Handle(h) \/ \E r \in setting.sent : Send(h, r)
           \/ Creating(h)
<1>1. CASE \E k \in Handler : Handle(k) \/ \E r \in setting.sent : Send(k, r)
  BY <1>1, HandlersApart
<1>2. CASE \E p \in Process : RunStoreCreate(p)
  BY <1>2 DEF RunStoreCreate, BeginCreation, UIInv, CatalogInv, CatalogType
<1>3. CASE \E a \in Actor : Creating(a)
  BY <1>3, CreationStepType DEF Creating, uiVars, UIInv
<1>4. CASE Session
  BY <1>4 DEF Session, uiVars, catalogVars
<1>5. CASE UNCHANGED vars
  BY <1>5 DEF vars, catalogVars
<1> QED  BY <1>1, <1>2, <1>3, <1>4, <1>5 DEF Next

\* A request that has an effect has been admitted, and to a handler that may.
LEMMA EffectsAreOfActing ==
    ASSUME UIInv, Next, NEW h \in Handler, HasEffect(h)
    PROVE  pc[h] \in Acting
<1>1. CASE Handle(h) \/ \E r \in setting.sent : Send(h, r)
  BY <1>1, HandlersApart DEF HasEffect, Acting
<1>2. CASE Creating(h)
  BY <1>2, CreationStepType DEF Creating, UIInv, HandlerInv, RequestInv, Acting
<1>3. QED  BY <1>1, <1>2, ActorOf DEF HasEffect

-----------------------------------------------------------------------------
(* The theorems *)

\* Every variable keeps its type.
THEOREM TypeCorrect == Spec => []TypeOK
<1>1. UIInv => TypeOK
  BY DEF UIInv, CatalogInv, CatalogType, SessionInv, SessionType, UIType, TypeOK
<1> QED  BY <1>1, AlwaysUIInv, PTL

\* Unless rotations overlap, the token the operator reads last is the current one.
THEOREM OperatorSeesTheToken == Spec => []LastPrintedIsCurrent
<1>1. UIInv => LastPrintedIsCurrent
  BY DEF UIInv, SessionInv, PrintInv
<1> QED  BY <1>1, AlwaysUIInv, PTL

\* The idle watcher never sleeps over a request that was authorised.
THEOREM ActivityIsNoticed == Spec => []ActivityReachesTimer
<1>1. UIInv => ActivityReachesTimer
  BY DEF UIInv, SessionInv
<1> QED  BY <1>1, AlwaysUIInv, PTL

\* What requests change they were entitled to change, for any number of requests
\* at a time, and whatever rotations, logouts and selections come in between.
THEOREM RequestsAreEntitled == Spec => EffectsAreAuthorised
<1> DEFINE Entitled(h) ==
        HasEffect(h) => /\ FromOwnPage(request[h])
                        /\ request[h].cookie \in since[h]..token
                        /\ request[h].kind \notin {"index", "login", "logout"}
                        /\ request[h].kind = "set" => setting.canSet
<1>1. UIInv /\ [Next]_vars => [\A h \in Handler : Entitled(h)]_vars
  <2> SUFFICES ASSUME UIInv, Next, NEW h \in Handler, HasEffect(h)
               PROVE  Entitled(h)
    OBVIOUS
  <2>1. pc[h] \in Acting /\ EntitledInv(h)
    BY EffectsAreOfActing DEF UIInv, HandlerInv
  <2>2. pc[h] \in Guarded /\ pc[h] \in Admitted
    BY <2>1 DEF Guarded, Admitted, Acting, HandlerStep
  <2>3. QED  BY <2>1, <2>2 DEF EntitledInv, MayWrite
<1> QED  BY <1>1, AlwaysUIInv, PTL DEF Spec, EffectsAreAuthorised

\* A session is given for a token that was current while the login was handled.
THEOREM LoginsEarnSessions == Spec => SessionsAreEarned
<1> DEFINE Earned(h) ==
        cookie' \notin {cookie, NoToken} /\ pc[h] # pc'[h]
            => /\ cookie' = token
               /\ request[h].kind = "login"
               /\ request[h].text \in since[h]..token
<1>1. UIInv /\ [Next]_vars => [\A h \in Handler : Earned(h)]_vars
  <2> SUFFICES ASSUME UIInv, Next, NEW h \in Handler,
                      cookie' \notin {cookie, NoToken}, pc[h] # pc'[h]
               PROVE  Earned(h)
    OBVIOUS
  <2>1. Handle(h) \/ \E r \in setting.sent : Send(h, r)
    <3>1. ~Creating(h)
      BY DEF Creating, uiVars
    <3>2. QED  BY <3>1, ActorOf
  <2>2. SetSessionCookie(h)
    BY <2>1 DEF Handle, Send, Guard, HandleLogin, HandleLogout, RequireSession, Dispatch,
                FinishCreate, Select, Current, Load, Save
  <2>3. pc[h] = "setCookie" /\ cookie' = token /\ EntitledInv(h)
    BY <2>2 DEF SetSessionCookie, UIInv, HandlerInv
  <2>4. QED  BY <2>3 DEF EntitledInv
<1> QED  BY <1>1, AlwaysUIInv, PTL DEF Spec, SessionsAreEarned

\* A write goes to a store that was active while the request was handled, and to
\* no other.
THEOREM WritesHitAnActiveStore == Spec => ActsOnAnActiveStore
<1> DEFINE Hits(h) ==
        HasEffect(h) /\ pc[h] = "save"
            => /\ request[h].store \in seen[h]
               /\ \A s \in Store \ seen[h] : file'[s] = file[s]
<1>1. UIInv /\ [Next]_vars => [\A h \in Handler : Hits(h)]_vars
  <2> SUFFICES ASSUME UIInv, Next, NEW h \in Handler, HasEffect(h), pc[h] = "save"
               PROVE  Hits(h)
    OBVIOUS
  <2>1. request[h].store \in seen[h] /\ creation[h].step = "none"
    BY NoCreationOf DEF UIInv, HandlerInv, SeenInv
  <2>2. ~Creating(h)
    BY <2>1, CreationStepType DEF Creating, UIInv
  <2>3. Save(h)
    BY <2>2, ActorOf DEF HasEffect, Handle, Send, Guard, HandleLogin, SetSessionCookie,
                         HandleLogout, RequireSession, Dispatch, FinishCreate, Select,
                         Current, Load
  <2>4. \A s \in Store \ seen[h] : file'[s] = file[s]
    BY <2>1, <2>3 DEF Save, SaveManifest, UIInv, CatalogInv, CatalogType
  <2>5. QED  BY <2>1, <2>4
<1> QED  BY <1>1, AlwaysUIInv, PTL DEF Spec, ActsOnAnActiveStore

\* No creation, by whomever and however far it gets, costs a store its namespaces.
THEOREM CreationsAreHarmless == Spec => CreateKeepsNamespaces
<1> DEFINE Keeps == \A s \in Store : file[s] = "used" => file'[s] = "used"
<1>1. UIInv /\ [Next]_vars => [Keeps]_vars
  <2> SUFFICES ASSUME UIInv, Next PROVE Keeps \/ UNCHANGED vars
    OBVIOUS
  <2> USE DEF UIInv, CatalogInv, CatalogType
  <2>1. ASSUME NEW a \in Actor, Creating(a) PROVE Keeps
    BY <2>1 DEF Creating, CreationStepOf, Lstat, Mkdir, OpenManifest, WriteManifest,
                WriteManifestFails
  <2>2. ASSUME NEW h \in Handler, Handle(h) PROVE Keeps
    <3>1. UNCHANGED file \/ Save(h)
      BY <2>2 DEF Handle, Guard, HandleLogin, SetSessionCookie, HandleLogout,
                  RequireSession, Dispatch, FinishCreate, Select, Current, Load, catalogVars
    <3>2. CASE Save(h)
      BY <3>2 DEF Save, SaveManifest
    <3>3. QED  BY <3>1, <3>2
  <2>3. CASE \E h \in Handler, r \in setting.sent : Send(h, r)
    BY <2>3 DEF Send, catalogVars
  <2>4. CASE \E p \in Process : RunStoreCreate(p)
    BY <2>4 DEF RunStoreCreate
  <2>5. CASE Session
    BY <2>5 DEF Session, catalogVars
  <2>6. QED  BY <2>1, <2>2, <2>3, <2>4, <2>5 DEF Next
<1> QED  BY <1>1, AlwaysUIInv, PTL DEF Spec, CreateKeepsNamespaces

-----------------------------------------------------------------------------
(* What creations build *)

\* The creations of others are as far as they were, when directories stay and
\* manifests do not go away.
LEMMA BuiltStays ==
    ASSUME CatalogInv, BuiltInv, NEW a \in Actor, creation'[a] = creation[a],
           \A d \in Store : entry[d] = "dir" => entry'[d] = "dir",
           \A s \in Store : file[s] # "none" => file'[s] # "none"
    PROVE  LET c == creation'[a] IN
           /\ c.step \notin {"none", "failed"} =>
                 \A d \in Path[c.store] \ c.segments : entry'[d] = "dir"
           /\ c.step \in {"open", "write", "done"} => c.segments = {}
           /\ c.step \in {"write", "done"} => file'[c.store] # "none"
<1> DEFINE c == creation[a]
<1>1. c.step # "none" => c.store \in Store /\ Path[c.store] \subseteq Store
  BY PathInStore DEF CatalogInv
<1>2. /\ c.step \notin {"none", "failed"} =>
            \A d \in Path[c.store] \ c.segments : entry[d] = "dir"
      /\ c.step \in {"open", "write", "done"} => c.segments = {}
      /\ c.step \in {"write", "done"} => file[c.store] # "none"
  BY DEF BuiltInv
<1> HIDE DEF c
<1>3. c = creation'[a]
  BY DEF c
<1>4. QED  BY ONLY <1>1, <1>2, <1>3, \A d \in Store : entry[d] = "dir" => entry'[d] = "dir",
              \A s \in Store : file[s] # "none" => file'[s] # "none"

\* A step of a creation leaves directories and manifests where they are.
LEMMA CreationKeeps ==
    ASSUME CatalogInv, NEW a \in Actor, CreationStepOf(a)
    PROVE  /\ \A d \in Store : entry[d] = "dir" => entry'[d] = "dir"
           /\ \A s \in Store : file[s] # "none" => file'[s] # "none"
<1> USE DEF CatalogInv, CatalogType
<1>1. CASE Lstat(a)
  BY <1>1 DEF Lstat
<1>2. CASE Mkdir(a)
  BY <1>2 DEF Mkdir
<1>3. CASE OpenManifest(a)
  BY <1>3 DEF OpenManifest
<1>4. CASE WriteManifest(a)
  BY <1>4 DEF WriteManifest
<1>5. CASE WriteManifestFails(a)
  BY <1>5 DEF WriteManifestFails
<1> QED  BY <1>1, <1>2, <1>3, <1>4, <1>5 DEF CreationStepOf

\* The directory that makeManagedPath goes past is there.
LEMMA SegmentBuilt ==
    ASSUME CatalogInv, BuiltInv, NEW a \in Actor, creation[a].step \in {"look", "mkdir"},
           NextSegment(a),
           First(creation[a].segments) \in Store => entry'[First(creation[a].segments)] = "dir",
           \A d \in Store : entry[d] = "dir" => entry'[d] = "dir"
    PROVE  LET c == creation'[a] IN
           /\ \A d \in Path[c.store] \ c.segments : entry'[d] = "dir"
           /\ c.step \in {"look", "open"}
           /\ c.step = "open" => c.segments = {}
<1> DEFINE f    == First(creation[a].segments)
           left == creation[a].segments \ {f}
           step == IF left = {} THEN "open" ELSE "look"
<1>1. creation[a] \in Creation /\ creation \in [Actor -> Creation]
  BY DEF CatalogInv, CatalogType
<1>2. creation' = [creation EXCEPT ![a].segments = left, ![a].step = step]
  BY DEF NextSegment
<1>3. /\ creation'[a].store = creation[a].store
      /\ creation'[a].segments = left
      /\ creation'[a].step = step
  <2> HIDE DEF left, step
  <2>1. QED  BY ONLY <1>1, <1>2 DEF Creation
<1>4. /\ Path[creation[a].store] \subseteq Store
      /\ \A d \in Path[creation[a].store] \ creation[a].segments : entry[d] = "dir"
  BY PathInStore DEF CatalogInv, BuiltInv
<1> HIDE DEF f
<1>5. f \in Store => entry'[f] = "dir"
  BY DEF f
<1>6. \A d \in Path[creation[a].store] \ left : entry'[d] = "dir"
  BY <1>4, <1>5
<1>7. QED  BY <1>3, <1>6

\* A step of a creation, for the creation itself.
LEMMA CreationBuilds ==
    ASSUME CatalogInv, BuiltInv, NEW a \in Actor, CreationStepOf(a)
    PROVE  LET c == creation'[a] IN
           /\ c.step \notin {"none", "failed"} =>
                 \A d \in Path[c.store] \ c.segments : entry'[d] = "dir"
           /\ c.step \in {"open", "write", "done"} => c.segments = {}
           /\ c.step \in {"write", "done"} => file'[c.store] # "none"
<1> DEFINE c == creation[a]
<1>1. /\ \A d \in Store : entry[d] = "dir" => entry'[d] = "dir"
      /\ \A s \in Store : file[s] # "none" => file'[s] # "none"
  BY CreationKeeps
<1>2. /\ c.step # "none" => c.store \in Store /\ Path[c.store] \subseteq Store
      /\ c.step \notin {"none", "failed"} =>
            \A d \in Path[c.store] \ c.segments : entry'[d] = "dir"
      /\ c.step \in {"open", "write", "done"} => c.segments = {}
      /\ c.step \in {"write", "done"} => file'[c.store] # "none"
  <2>1. c.step # "none" => c.store \in Store /\ Path[c.store] \subseteq Store
    BY PathInStore DEF CatalogInv
  <2>2. QED  BY <1>1, <2>1 DEF BuiltInv
<1>3. \A step : GoOn(a, step) => /\ creation'[a].step = step
                                 /\ creation'[a].store = c.store
                                 /\ creation'[a].segments = c.segments
  BY DEF GoOn, CatalogInv, CatalogType, Creation
<1>4. creation[a].step \in {"look", "mkdir"} /\ NextSegment(a) /\
      (First(c.segments) \in Store => entry'[First(c.segments)] = "dir")
      => LET n == creation'[a] IN
         /\ \A d \in Path[n.store] \ n.segments : entry'[d] = "dir"
         /\ n.step \in {"look", "open"}
         /\ n.step = "open" => n.segments = {}
  BY <1>1, SegmentBuilt
<1>5. CASE Lstat(a)
  <2>1. /\ c.step = "look"
        /\ \/ GoOn(a, "mkdir") \/ GoOn(a, "failed")
           \/ NextSegment(a) /\ entry'[First(c.segments)] = "dir"
    BY <1>5 DEF Lstat
  <2> HIDE DEF c
  <2>2. CASE GoOn(a, "mkdir") \/ GoOn(a, "failed")
    BY <1>2, <1>3, <2>1, <2>2
  <2>3. CASE NextSegment(a) /\ entry'[First(c.segments)] = "dir"
    BY <1>4, <2>1, <2>3 DEF c
  <2>4. QED  BY <2>1, <2>2, <2>3
<1>6. CASE Mkdir(a)
  <2>1. /\ c.step = "mkdir"
        /\ \/ GoOn(a, "failed")
           \/ /\ NextSegment(a)
              /\ First(c.segments) \in Store => entry'[First(c.segments)] = "dir"
    BY <1>6 DEF Mkdir, CatalogInv, CatalogType
  <2> HIDE DEF c
  <2>2. CASE GoOn(a, "failed")
    BY <1>3, <2>2
  <2>3. CASE /\ NextSegment(a)
             /\ First(c.segments) \in Store => entry'[First(c.segments)] = "dir"
    BY <1>4, <2>1, <2>3 DEF c
  <2>4. QED  BY <2>1, <2>2, <2>3
<1>7. CASE OpenManifest(a)
  <2>1. /\ c.step = "open"
        /\ GoOn(a, "write") \/ GoOn(a, "done")
        /\ file'[c.store] # "none"
    BY <1>2, <1>7 DEF OpenManifest, CatalogInv, CatalogType
  <2> HIDE DEF c
  <2>2. QED  BY <1>2, <1>3, <2>1
<1>8. CASE WriteManifest(a)
  <2>1. c.step = "write" /\ GoOn(a, "done")
    BY <1>8 DEF WriteManifest
  <2> HIDE DEF c
  <2>2. QED  BY <1>2, <1>3, <2>1
<1>9. CASE WriteManifestFails(a)
  <2>1. GoOn(a, "failed")
    BY <1>9 DEF WriteManifestFails
  <2> HIDE DEF c
  <2>2. QED  BY <1>3, <2>1
<1> QED  BY <1>5, <1>6, <1>7, <1>8, <1>9 DEF CreationStepOf

LEMMA InitBuilt == Init => BuiltInv
  BY DEF Init, BuiltInv, NoCreation

LEMMA StepBuilt == UIInv /\ BuiltInv /\ [Next]_vars => BuiltInv'
<1> SUFFICES ASSUME UIInv, BuiltInv, [Next]_vars PROVE BuiltInv'
  OBVIOUS
<1>1. CatalogInv
  BY DEF UIInv
<1>2. ASSUME NEW b \in Actor, \A a \in Actor \ {b} : creation'[a] = creation[a],
             \A d \in Store : entry[d] = "dir" => entry'[d] = "dir",
             \A s \in Store : file[s] # "none" => file'[s] # "none",
             \/ creation'[b] \in {creation[b], NoCreation}
             \/ creation'[b].step = "look" /\ creation'[b].segments = Path[creation'[b].store]
      PROVE  BuiltInv'
  <2> SUFFICES ASSUME NEW a \in Actor
               PROVE  LET c == creation'[a] IN
                      /\ c.step \notin {"none", "failed"} =>
                            \A d \in Path[c.store] \ c.segments : entry'[d] = "dir"
                      /\ c.step \in {"open", "write", "done"} => c.segments = {}
                      /\ c.step \in {"write", "done"} => file'[c.store] # "none"
    BY DEF BuiltInv
  <2>1. CASE creation'[a] = creation[a]
    BY <1>1, <1>2, <2>1, BuiltStays
  <2>2. CASE creation'[a] # creation[a]
    BY <1>2, <2>2 DEF NoCreation
  <2>3. QED  BY <2>1, <2>2
<1>3. CASE UNCHANGED catalogVars
  BY <1>3 DEF catalogVars, BuiltInv
<1>4. ASSUME NEW a \in Actor, Creating(a)
      PROVE  BuiltInv'
  <2>1. CreationStepOf(a)
    BY <1>4 DEF Creating
  <2>2. \A b \in Actor \ {a} : creation'[b] = creation[b]
    BY <1>1, <2>1, CreationStepType
  <2>3. /\ \A d \in Store : entry[d] = "dir" => entry'[d] = "dir"
        /\ \A s \in Store : file[s] # "none" => file'[s] # "none"
    BY <1>1, <2>1, CreationKeeps
  <2> SUFFICES ASSUME NEW b \in Actor
               PROVE  LET c == creation'[b] IN
                      /\ c.step \notin {"none", "failed"} =>
                            \A d \in Path[c.store] \ c.segments : entry'[d] = "dir"
                      /\ c.step \in {"open", "write", "done"} => c.segments = {}
                      /\ c.step \in {"write", "done"} => file'[c.store] # "none"
    BY DEF BuiltInv
  <2>4. CASE b = a
    BY <1>1, <2>1, <2>4, CreationBuilds
  <2>5. CASE b # a
    BY <1>1, <2>2, <2>3, <2>5, BuiltStays
  <2>6. QED  BY <2>4, <2>5
<1>5. ASSUME NEW b \in Actor, NEW s, BeginCreation(b, s), UNCHANGED <<entry, file>>
      PROVE  BuiltInv'
  <2> DEFINE c == [step |-> "look", store |-> s, segments |-> Path[s]]
  <2>1. creation' = [creation EXCEPT ![b] = c]
    BY <1>5 DEF BeginCreation
  <2>2. c.step = "look" /\ c.segments = Path[c.store]
    OBVIOUS
  <2> HIDE DEF c
  <2>3. creation'[b] = c /\ \A a \in Actor \ {b} : creation'[a] = creation[a]
    BY <1>1, <2>1 DEF CatalogInv, CatalogType
  <2>4. QED  BY <1>2, <1>5, <2>2, <2>3
<1>6. ASSUME NEW h \in Handler, Handle(h)
      PROVE  BuiltInv'
  <2>1. CASE Dispatch(h) /\ creation' # creation
    BY <1>5, <2>1 DEF Dispatch
  <2>2. CASE FinishCreate(h)
    BY <1>1, <1>2, <2>2 DEF FinishCreate, CatalogInv, CatalogType
  <2>3. CASE Save(h)
    <3>1. /\ \A d \in Store : entry[d] = "dir" => entry'[d] = "dir"
          /\ \A s \in Store : file[s] # "none" => file'[s] # "none"
          /\ creation' = creation
      BY <1>1, <2>3 DEF Save, SaveManifest, CatalogInv, CatalogType
    <3>2. QED  BY <1>2, <3>1
  <2>4. QED
    BY <1>3, <1>6, <2>1, <2>2, <2>3
       DEF Handle, Guard, HandleLogin, SetSessionCookie, HandleLogout, RequireSession,
           Dispatch, Select, Current, Load, catalogVars
<1>7. CASE \E h \in Handler, r \in setting.sent : Send(h, r)
  BY <1>3, <1>7 DEF Send
<1>8. CASE \E p \in Process : RunStoreCreate(p)
  BY <1>5, <1>8 DEF RunStoreCreate
<1>9. CASE Session
  BY <1>3, <1>9 DEF Session
<1>10. CASE UNCHANGED vars
  BY <1>3, <1>10 DEF vars, catalogVars
<1>11. QED  BY <1>4, <1>6, <1>7, <1>8, <1>9, <1>10 DEF Next

\* Whatever requests, commands and creations of the same store do meanwhile, the
\* store made active can be used, or it has just been created and somebody else
\* is at its manifest (webStoreCatalog.Create and Select).
THEOREM SelectionsAreUsable == Spec => ActiveIsUsable
<1> DEFINE Usable ==
        active' # active =>
            \/ Inspect(active') = "valid"
            \/ /\ file[active'] = "empty"
               /\ \E h \in Handler : creation[h].store = active' /\ creation[h].step = "done"
<1>1. UIInv /\ BuiltInv /\ [Next]_vars => [Usable]_vars
  <2> SUFFICES ASSUME UIInv, BuiltInv, Next, active' # active
               PROVE  Usable
    OBVIOUS
  <2>1. PICK h \in Handler : Select(h) \/ FinishCreate(h)
    <3>1. ASSUME NEW h \in Handler, Handle(h)
          PROVE  Select(h) \/ FinishCreate(h)
      BY <3>1 DEF Handle, Guard, HandleLogin, SetSessionCookie, HandleLogout,
                  RequireSession, Dispatch, Current, Load, Save
    <3>2. QED
      BY <3>1 DEF Next, Send, RunStoreCreate, Creating, Session, uiVars, vars
  <2>2. CASE Select(h)
    BY <2>2 DEF Select, SetActive, Available
  <2>3. CASE FinishCreate(h)
    <3> DEFINE s == creation[h].store
    <3>1. creation[h].step = "done" /\ active' = s
      BY <2>3 DEF FinishCreate, SetActive
    <3>2. s \in Store /\ file[s] \in Manifest /\ h \in Actor
      BY <3>1 DEF UIInv, CatalogInv, CatalogType
    <3>3. file[s] # "none" /\ \A d \in Path[s] : entry[d] = "dir"
      BY <3>1, <3>2 DEF BuiltInv
    <3>4. s \in Path[s]
      BY <3>2 DEF Path
    <3> HIDE DEF s
    <3>5. CASE file[s] = "empty"
      BY <3>1, <3>5 DEF s
    <3>6. CASE file[s] # "empty"
      <4>1. Inspect(s) = "valid"
        BY <3>3, <3>4, <3>6 DEF Inspect
      <4>2. QED  BY <3>1, <4>1
    <3>7. QED  BY <3>5, <3>6
  <2>4. QED  BY <2>1, <2>2, <2>3
<1> QED  BY <1>1, AlwaysUIInv, InitBuilt, StepBuilt, PTL DEF Spec, ActiveIsUsable
=============================================================================
