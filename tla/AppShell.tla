------------------------------ MODULE AppShell ------------------------------
(***************************************************************************)
(* The frame around the screens: App.tsx, the login screen, the session in *)
(* the zustand store and the API key in localStorage.  A reload resolves   *)
(* the session of the stored key; any request of any screen may come back  *)
(* with a 401 and takes the key and the session away, also long after the  *)
(* key it was sent with was replaced.                                      *)
(*                                                                         *)
(* local: [key, session, auth, ready, route, login, menu, sidebar].        *)
(* db: what each key is worth to the server.                               *)
(***************************************************************************)
EXTENDS Screens

CONSTANT Keys

\* null is neither a key nor a session.
ASSUME KeysAssumption == None \notin Keys /\ None \notin [of : Keys, isAdmin : BOOLEAN]

Worth == {"admin", "tenant", "noaccess", "gone"}

\* The pages, of which three stand for the rest: one for all, two for admins.
navItems == {"/", "/connections"}
adminNavItems == {"/tenants", "/settings"}
appRoutes == navItems \cup adminNavItems \cup {"/profiles"}

AppState == [session |-> None]
SessionInfo(k, worth) == [of |-> k, isAdmin |-> worth = "admin"]

IsAdmin == local.session # None /\ local.session.isAdmin
effectiveNavItems == IF IsAdmin THEN navItems \cup adminNavItems ELSE navItems

\* RequireAdmin: the route that is shown, after the redirect.
RequireAdmin(path) == IF path \in adminNavItems /\ ~IsAdmin THEN "/" ELSE path
Shown == IF ~local.ready THEN "loading"
         ELSE IF ~local.auth THEN "login"
         ELSE RequireAdmin(local.route)

\* TenantBadge: the scope the frame shows.
TenantBadge == IF local.session = None THEN "none"
               ELSE IF local.session.isAdmin THEN "admin" ELSE "tenant"

ShellInit ==
    /\ screen = "shell"
    /\ db \in [Keys -> Worth \ {"gone"}]
    /\ \E k \in Keys \cup {None}, path \in {"/", "/tenants", "/profiles"} :
          local = [key |-> k, session |-> AppState.session, auth |-> FALSE, ready |-> FALSE,
                   route |-> path, loading |-> FALSE, error |-> FALSE,
                   menu |-> FALSE]
    /\ calls = NoCalls

-----------------------------------------------------------------------------
\* The state after showLogin, and after a logout, whose key goes as well.
showLogin(l) == [l EXCEPT !.auth = FALSE, !.session = None]
handleLogout(l) == [showLogin(l) EXCEPT !.key = None]

\* A slip in notifyUnauthorized: the key goes, the gate is not told.
notifyQuietly(l) == [l EXCEPT !.key = None]

\* A 401 that says it is about the session: the key that is stored now goes.
notifyUnauthorized(l) == showLogin([l EXCEPT !.key = None])

\* The page is loaded: is there a key, and whose is it?
Bootstrap ==
    /\ ~local.ready /\ Quiet({"session"})
    /\ IF local.key = None
       THEN Do([local EXCEPT !.ready = TRUE], calls)
       ELSE Room(1) /\ Do(local, Plus(calls, Call("session", local.key)))

BootstrapAnswers(n) ==
    /\ Settled(n) /\ calls[n].op = "session"
    /\ LET ready == [local EXCEPT !.ready = TRUE] IN
       Do(IF Failed(n) THEN [ready EXCEPT !.auth = FALSE]
          ELSE IF calls[n].got = "nobody" THEN [ready EXCEPT !.key = None]
          ELSE [ready EXCEPT !.auth = TRUE, !.session = SessionInfo(local.key, calls[n].got)],
          Minus(calls, n))

\* The form's button is off, and Enter with it, while a key is looked at.
LoginSubmit(k) ==
    /\ Shown = "login" /\ ~local.loading /\ Room(1)
    /\ Do([local EXCEPT !.loading = TRUE, !.error = FALSE], Plus(calls, Call("validate", k)))

LoginAnswers(n) ==
    /\ Settled(n) /\ calls[n].op = "validate"
    /\ LET k == calls[n].arg
           done == [local EXCEPT !.loading = FALSE]
       IN  Do(IF Served(n) /\ calls[n].got \in {"admin", "tenant"}
              THEN [done EXCEPT !.key = k, !.auth = TRUE, !.session = SessionInfo(k, calls[n].got)]
              ELSE [done EXCEPT !.error = TRUE],
              Minus(calls, n))

\* Whatever a screen asks for, with the key that is stored at that moment.
ScreenAsks ==
    /\ Shown \notin {"loading", "login"} /\ Room(1)
    /\ Do(local, Plus(calls, Call("page", local.key)))

\* goFetch, goStreamFetch and goRequest look at the answer before the screen does.
ScreenIsAnswered(n) ==
    /\ Settled(n) /\ calls[n].op = "page"
    /\ Do(IF Served(n) /\ calls[n].got = "401" THEN notifyUnauthorized(local) ELSE local,
          Minus(calls, n))

\* The log out buttons of the sidebar and of the mobile menu.
Logout ==
    /\ Shown \notin {"loading", "login"}
    /\ Do([handleLogout(local) EXCEPT !.menu = FALSE], calls)

\* A link of the sidebar or the mobile menu, which closes it.
Sidebar(path) ==
    /\ Shown \notin {"loading", "login"} /\ path \in effectiveNavItems
    /\ Do([local EXCEPT !.route = path, !.menu = FALSE], calls)
MobileMenu(open) == Shown \notin {"loading", "login"} /\ Do([local EXCEPT !.menu = open], calls)

\* RequireAdmin and the catch-all navigate away from what may not be shown.
Redirect ==
    /\ Shown \in appRoutes /\ Shown # local.route
    /\ Do([local EXCEPT !.route = Shown], calls)

\* An address typed by hand reloads the page; only the key is kept.
Reload(path) ==
    /\ local.ready /\ path \in adminNavItems
    /\ Do([local EXCEPT !.ready = FALSE, !.auth = FALSE, !.session = None, !.loading = FALSE,
                        !.error = FALSE, !.route = path, !.menu = FALSE], NoCalls)

\* The server's side of the three endpoints (dashboardKeyMiddleware).
ShellServe(n) ==
    \/ Sent(n) /\ calls[n].op = "session" /\ calls[n].arg # None
       /\ Serve(n, db, IF db[calls[n].arg] \in {"gone", "noaccess"} THEN "nobody"
                       ELSE db[calls[n].arg])
    \/ Sent(n) /\ calls[n].op = "validate" /\ Serve(n, db, db[calls[n].arg])
    \/ Sent(n) /\ calls[n].op = "page"
       /\ Serve(n, db, IF db[calls[n].arg] \in {"gone", "noaccess"} THEN "401" ELSE "ok")

\* An administrator takes the key away.
KeyRevoked(k) ==
    /\ db[k] # "gone" /\ db' = [db EXCEPT ![k] = "gone"]
    /\ UNCHANGED <<screen, local, calls>>

ShellNext ==
    \/ Bootstrap \/ ScreenAsks \/ Logout \/ Redirect
    \/ \E k \in Keys : LoginSubmit(k) \/ KeyRevoked(k)
    \/ \E path \in appRoutes : Sidebar(path) \/ Reload(path)
    \/ \E open \in BOOLEAN : MobileMenu(open)
    \/ \E n \in DOMAIN calls : BootstrapAnswers(n) \/ LoginAnswers(n) \/ ScreenIsAnswered(n)
                                 \/ ShellServe(n) \/ Lose(n)

-----------------------------------------------------------------------------
\* The gate and the credentials agree whatever answers come late: the screens
\* are up exactly while there is a session, that session is of the key every
\* request is sent with, and an admin's screen is up only in an admin's session
\* (showLogin, notifyUnauthorized, bootstrap, RequireAdmin).
GateConsistent ==
    screen = "shell" /\ local.ready =>
       /\ local.auth <=> local.session # None
       /\ local.auth => local.session.of = local.key
       /\ Shown \in adminNavItems => TenantBadge = "admin"
=============================================================================
