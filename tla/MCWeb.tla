-------------------------------- MODULE MCWeb --------------------------------
(***************************************************************************)
(* Instances of WebUI for TLC.                                             *)
(***************************************************************************)
EXTENDS WebProperties, TLC

CONSTANTS h1, h2, cli, team, web, other

\* "web" is team/web.
Below == [s \in Store |-> IF s = web THEN team ELSE Nil]

At(port)  == [name |-> "127.0.0.1", port |-> port]
Foreign   == [name |-> "rebound.example", port |-> 8787]
Loopback  == {At(Nil), At(8787), [name |-> "localhost", port |-> Nil]}

\* From a page of the UI, by a browser that sends Sec-Fetch-Site.
Own(kind, text, s) ==
    [kind |-> kind, host |-> At(8787), origin |-> At(8787), site |-> "same-origin",
     text |-> text, store |-> s]
Plain(kind) == Own(kind, NoToken, Nil)

\* By a browser without that header, from the same page, with a field too many;
\* from a page of another port; under another name.
Old       == [Own("init", NoToken, other) EXCEPT !.site = Nil]
OtherPort == [Plain("init") EXCEPT !.site = Nil, !.origin = At(3000)]
Rebound   == [Plain("init") EXCEPT !.host = Foreign, !.origin = Foreign]

Sessions == {Own("login", t, Nil) : t \in Token} \union {Plain("index"), Plain("change")}
Stores   == {Plain("init"), Plain("set"), Own("create", NoToken, web), Own("create", NoToken, team),
             Own("select", NoToken, team), Own("select", NoToken, web)}
Guards   == {Old, OtherPort, Rebound, Plain("logout"), Own("select", NoToken, team)}
Sent     == Sessions \union Stores \union Guards

All(x) == [s \in Store |-> x]
NoCommands == [p \in Process |-> {}]
Commands   == [p \in Process |-> {team, web}]

Start(e, f, a, idle, set, n, m, sent, typed) ==
    [entry |-> e, file |-> f, active |-> a, idleRotates |-> idle,
     setting |-> [canSet |-> set, rotations |-> n, requests |-> m,
                 sent |-> sent, typed |-> typed]]

\* Rotations of both kinds, among requests of one store.
RotatingStarts ==
    {Start([s \in Store |-> IF s = team THEN "dir" ELSE "none"],
           (team :> "used" @@ web :> "none" @@ other :> "none"), team, TRUE, TRUE, 2, 2,
           Sessions, NoCommands)}

\* --idle-rotate=0, and at most one signal, among stores that are created.  A
\* first run; a creation of team that was cut short, and a store used by path; a
\* plain file where team should be.
CreatingStarts ==
    {Start(All("none"), All("none"), team, FALSE, TRUE, 0, 3, Stores, Commands),
     Start([s \in Store |-> IF s = web THEN "none" ELSE "dir"],
           (team :> "empty" @@ web :> "none" @@ other :> "used"), other, FALSE, FALSE, 0, 3,
           Stores, Commands),
     Start([s \in Store |-> IF s = team THEN "file" ELSE "none"], All("none"), other,
           FALSE, TRUE, 0, 3, Stores, Commands),
     Start([s \in Store |-> IF s = team THEN "dir" ELSE "none"],
           (team :> "used" @@ web :> "none" @@ other :> "none"), team, FALSE, TRUE, 1, 3,
           Guards, NoCommands)}

Found == RotatingStarts \union CreatingStarts
=============================================================================
