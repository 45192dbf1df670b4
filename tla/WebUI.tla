-------------------------------- MODULE WebUI --------------------------------
(***************************************************************************)
(* The web UI, internal/web and the commands around it: what a request     *)
(* passes before it has an effect (host guard, origin guard, session),     *)
(* logins and logouts, the active store, and the calls of the store that   *)
(* requests make.  It composes the token of WebSession with the catalog of *)
(* StoreCatalog, in which commands of other processes create stores too.   *)
(*                                                                         *)
(* One browser sends requests from pages of the UI and from pages of other *)
(* origins; two may be in progress.  Left out: methods other than those    *)
(* the forms use, what a page shows, an answer that overtakes another, and *)
(* the expiry of the cookie after an hour.                                 *)
(***************************************************************************)
EXTENDS StoreCatalog, WebSession

CONSTANTS Handler,      \* requests in progress
          Process,      \* other processes, each running one `store create`
          Authorities,  \* what NewHostGuard is given
          Requests,     \* what the browser sends, without its cookie
          MaxRequests,  \* how many of them, at most
          Starts        \* what thimble web may find when it starts

\* A host with a port, or without one (Nil).
Host == [name: STRING, port: Nat \union {Nil}]

\* site, origin: the headers Sec-Fetch-Site and Origin, Nil when absent; text:
\* the token of a login form; store: the name of a create or select form.  set
\* stands for the three actions that write a value, change for what needs none:
\* deletion of a key, addition and removal of a recipient.
Kind == {"index", "login", "logout", "create", "select", "init", "set", "change"}
Site == {"same-origin", "same-site", "none"}
RequestType ==
    [kind: Kind, host: Host, origin: Host \union {Nil}, site: Site \union {Nil},
     text: Token \union {NoToken}, store: Store \union {Nil}]

\* What does not change while the server runs: whether values may be set (it
\* listens on a loopback address and has a usable identity).  And the bounds of
\* one behaviour: rotations, requests, those the browser has to choose from, the
\* stores that each process may be told to create.
Setting == [canSet: BOOLEAN, rotations: 0..MaxRotations, requests: 0..MaxRequests,
            sent: SUBSET Requests, typed: [Process -> SUBSET Managed]]

ASSUME ActorAssumption ==
    /\ Actor = Handler \union Process
    /\ Handler \intersect Process = {}
ASSUME RequestAssumption ==
    /\ MaxRequests \in Nat
    /\ Authorities \subseteq Host
    /\ Nil \notin Kind \union Site
    /\ \A r \in Requests : r \in RequestType /\ (r.kind \in {"create", "select"} => r.store \in Managed)
ASSUME StartAssumption ==
    \A s \in Starts :
        /\ s.entry \in [Store -> Entry] /\ s.file \in [Store -> Manifest]
        /\ s.active \in Store /\ s.idleRotates \in BOOLEAN
        /\ s.setting \in Setting

VARIABLES
    active,    \* the active store
    cookie,    \* the browser's cookie
    pc,        \* what each handler does next
    request,   \* the request each handler works on
    requests,  \* how many have been sent
    \* Observations, read by properties only.
    since,     \* handler -> the token when its request arrived
    seen       \* handler -> the stores active since its request arrived

vars == <<catalogVars, sessionVars, active, cookie, pc, request, requests,
          since, seen>>

HandlerStep == {"idle", "guard", "session", "mark", "setCookie", "creating",
                "selecting", "current", "load", "save"}

\* A request, with the cookie it carries; store becomes the store it works on.
Request ==
    [kind: Kind \union {Nil}, cookie: Token \union {NoToken}, text: Token \union {NoToken},
     store: Store \union {Nil}, host: Host \union {Nil}, origin: Host \union {Nil},
     site: Site \union {Nil}]
NoRequest == [kind |-> Nil, cookie |-> NoToken, text |-> NoToken, store |-> Nil,
              host |-> Nil, origin |-> Nil, site |-> Nil]

Init ==
    /\ \E s \in Starts :
          /\ SessionInit(s.idleRotates)
          /\ setting = s.setting
          /\ entry = s.entry
          /\ file = s.file
          /\ active = s.active
    /\ creation = [a \in Actor |-> NoCreation]
    /\ cookie \in {NoToken, token}
    /\ pc = [h \in Handler |-> "idle"]
    /\ request = [h \in Handler |-> NoRequest]
    /\ requests = 0
    /\ since = [h \in Handler |-> NoToken]
    /\ seen = [h \in Handler |-> {}]

Goto(h, step) == pc' = [pc EXCEPT ![h] = step]

\* The answer is written.
Answer(h) ==
    /\ Goto(h, "idle")
    /\ request' = [request EXCEPT ![h] = NoRequest]

-----------------------------------------------------------------------------
(* The guards in front of the handlers *)

\* expandHost: the host with its port, and the host alone.
Expand(host) == {host, [host EXCEPT !.port = Nil]}

Allow(host) == \E a \in Authorities : Expand(host) \intersect Expand(a) # {}

\* Mutant: a page of another port of the same host will do.
SameHost(r) ==
    \/ r.kind = "index"
    \/ r.site \in {"same-origin", "none"}
    \/ r.origin # Nil /\ r.origin.name = r.host.name

\* Sec-Fetch-Site decides when the browser sends it, and else Origin.
SameOrigin(r) ==
    \/ r.kind = "index"
    \/ r.site \in {"same-origin", "none"}
    \/ r.site = Nil /\ r.origin = r.host

\* The browser sends r; SameSite=Strict leaves the cookie out of a request that
\* another site makes, and not of one that another port makes.
Send(h, r) ==
    /\ pc[h] = "idle"
    /\ requests < setting.requests
    /\ requests' = requests + 1
    /\ request' = [request EXCEPT ![h] =
                      [kind |-> r.kind, cookie |-> cookie, text |-> r.text,
                       store |-> r.store, host |-> r.host, origin |-> r.origin,
                       site |-> r.site]]
    /\ since' = [since EXCEPT ![h] = token]
    /\ seen' = [seen EXCEPT ![h] = {active}]
    /\ Goto(h, "guard")
    /\ UNCHANGED <<catalogVars, sessionVars, active, cookie>>

\* HostGuard.Middleware, and the way to the handlers.
Guard(h) ==
    /\ pc[h] = "guard"
    /\ IF Allow(request[h].host) /\ SameOrigin(request[h])
       THEN Goto(h, "session") /\ UNCHANGED request
       ELSE Answer(h)
    /\ UNCHANGED <<catalogVars, sessionVars, active, cookie, requests, since, seen>>

-----------------------------------------------------------------------------
(* Sessions *)

\* The form's token is compared with the current one.
HandleLogin(h) ==
    /\ pc[h] = "session"
    /\ request[h].kind = "login"
    /\ IF HasToken(request[h].text)
       THEN Goto(h, "setCookie") /\ UNCHANGED request
       ELSE Answer(h)
    /\ UNCHANGED <<catalogVars, sessionVars, active, cookie, requests, since, seen>>

\* The cookie is the current token, which is read a second time.
SetSessionCookie(h) ==
    /\ pc[h] = "setCookie"
    /\ cookie' = token
    /\ Answer(h)
    /\ UNCHANGED <<catalogVars, sessionVars, active, requests, since, seen>>

HandleLogout(h) ==
    /\ pc[h] = "session"
    /\ request[h].kind = "logout"
    /\ cookie' = NoToken
    /\ Answer(h)
    /\ UNCHANGED <<catalogVars, sessionVars, active, requests, since, seen>>

\* requireSession, and hasValidSession in front of the index page.
RequireSession(h) ==
    /\ pc[h] = "session"
    /\ request[h].kind \notin {"login", "logout"}
    /\ IF HasToken(request[h].cookie)
       THEN Goto(h, "mark") /\ UNCHANGED request
       ELSE Answer(h)
    /\ UNCHANGED <<catalogVars, sessionVars, active, cookie, requests, since, seen>>

\* Values are written only by a server with an identity on a loopback address.
MayWrite(r) == r.kind = "set" => setting.canSet

\* hasValidSession marks the request authorised, and its handler goes on.
Dispatch(h) ==
    /\ pc[h] = "mark"
    /\ MarkAuthorized
    /\ LET r == request[h]
       IN  IF r.kind = "index" \/ ~MayWrite(r)
           THEN Answer(h) /\ UNCHANGED creation
           ELSE /\ Goto(h, CASE r.kind = "create" -> "creating"
                             [] r.kind = "select" -> "selecting"
                             [] OTHER             -> "current")
                /\ UNCHANGED request
                /\ IF r.kind = "create" THEN BeginCreation(h, r.store)
                   ELSE UNCHANGED creation
    /\ UNCHANGED <<entry, file, active, cookie, requests, since, seen>>

-----------------------------------------------------------------------------
(* The active store *)

\* setActive.  Every request in progress sees it.
SetActive(s) ==
    /\ active' = s
    /\ seen' = [h \in Handler |-> IF pc[h] = "idle" THEN seen[h] ELSE seen[h] \union {s}]

\* Mutant: the error is returned after the selection has been made active; it is
\* an empty one if there was an error.
FinishCreateUnchecked(h) ==
    /\ pc[h] = "creating"
    /\ creation[h].step \in {"done", "failed"}
    /\ SetActive(IF creation[h].step = "done" THEN creation[h].store ELSE Nil)
    /\ creation' = [creation EXCEPT ![h] = NoCreation]
    /\ Answer(h)
    /\ UNCHANGED <<entry, file, sessionVars, cookie, requests, since>>

\* webStoreCatalog.Create, after Catalog.Create has returned.
FinishCreate(h) ==
    /\ pc[h] = "creating"
    /\ creation[h].step \in {"done", "failed"}
    /\ IF creation[h].step = "done" THEN SetActive(creation[h].store)
       ELSE UNCHANGED <<active, seen>>
    /\ creation' = [creation EXCEPT ![h] = NoCreation]
    /\ Answer(h)
    /\ UNCHANGED <<entry, file, sessionVars, cookie, requests, since>>

\* Mutant: a store is available as soon as there is something at its path.
AvailableIfThere(s) == Inspect(s) # "missing"

Available(s) == Inspect(s) = "valid"

\* webStoreCatalog.Select.  Nothing makes a valid store invalid before setActive.
Select(h) ==
    /\ pc[h] = "selecting"
    /\ IF Available(request[h].store) THEN SetActive(request[h].store)
       ELSE UNCHANGED <<active, seen>>
    /\ Answer(h)
    /\ UNCHANGED <<catalogVars, sessionVars, cookie, requests, since>>

\* Mutant: the store is the one that the form names.
OpenNamed(h) == IF request[h].store = Nil THEN active ELSE request[h].store

\* openStore: the store at the path of the active selection.
Open(h) == active

\* webStoreCatalog.Current: an invalid store is an error, a managed one that is
\* missing is none; one given by path is created by the first call.
Current(h) ==
    /\ pc[h] = "current"
    /\ IF Inspect(active) = "invalid" \/ (active \in Managed /\ Inspect(active) = "missing")
       THEN Answer(h)
       ELSE /\ Goto(h, "load")
            /\ request' = [request EXCEPT ![h].store = Open(h)]
    /\ UNCHANGED <<catalogVars, sessionVars, active, cookie, requests, since, seen>>

\* The store loads its manifest: init adds a namespace, the others need one.
Load(h) ==
    /\ pc[h] = "load"
    /\ LET s == request[h].store
       IN  IF Loads(s) /\ (request[h].kind # "init" => file[s] = "used")
           THEN Goto(h, "save") /\ UNCHANGED request
           ELSE Answer(h)
    /\ UNCHANGED <<catalogVars, sessionVars, active, cookie, requests, since, seen>>

Save(h) ==
    /\ pc[h] = "save"
    /\ SaveManifest(request[h].store)
    /\ Answer(h)
    /\ UNCHANGED <<creation, sessionVars, active, cookie, requests, since, seen>>

-----------------------------------------------------------------------------
(* The other processes, and everybody *)

\* `thimble store create`.
RunStoreCreate(p) ==
    /\ creation[p] = NoCreation
    /\ \E s \in setting.typed[p] : BeginCreation(p, s)
    /\ UNCHANGED <<entry, file, sessionVars, active, cookie, pc, request, requests,
                   since, seen>>

uiVars == <<active, cookie, pc, request, requests, since, seen>>

Creating(a) == CreationStepOf(a) /\ UNCHANGED <<sessionVars, uiVars>>
Session     == SessionStep /\ UNCHANGED <<catalogVars, uiVars>>

Handle(h) ==
    \/ Guard(h) \/ HandleLogin(h) \/ SetSessionCookie(h) \/ HandleLogout(h)
    \/ RequireSession(h) \/ Dispatch(h) \/ FinishCreate(h) \/ Select(h)
    \/ Current(h) \/ Load(h) \/ Save(h)

\* The bounds are reached and nobody has anything left to do.
AllDone ==
    /\ requests = setting.requests
    /\ token = LastToken
    /\ \A h \in Handler : pc[h] = "idle"
    /\ \A p \in Process : setting.typed[p] = {} \/ creation[p].step \in {"done", "failed"}

Next ==
    \/ \E h \in Handler : Handle(h) \/ \E r \in setting.sent : Send(h, r)
    \/ \E p \in Process : RunStoreCreate(p)
    \/ \E a \in Actor : Creating(a)
    \/ Session
    \/ AllDone /\ UNCHANGED vars

Spec == Init /\ [][Next]_vars

\* The goroutine of the idle watcher runs, and time passes.  Nothing is expected
\* of requests, signals and other processes.
Fairness ==
    /\ WF_vars(IdleWatcher /\ UNCHANGED <<catalogVars, uiVars>>)
    /\ WF_vars(TimerFires /\ UNCHANGED <<catalogVars, uiVars>>)

FairSpec == Spec /\ Fairness
=============================================================================
