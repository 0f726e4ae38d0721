----------------------------- MODULE WebSession -----------------------------
(***************************************************************************)
(* The shell of the web client: login, session token, the identity that    *)
(* /me returns, the page shown and the data of generic pages (App, Login,  *)
(* DataPage in main.tsx).                                                  *)
(*                                                                         *)
(* A handler runs up to its first await; the answer to its request is an   *)
(* action of its own, taken in any order and not at all cancelled by the   *)
(* code.  Effects run in the step that changes what they depend on.  A     *)
(* token stands for the user it was issued to.                             *)
(***************************************************************************)
EXTENDS FiniteSets

CONSTANTS
    Users,      \* accounts that log in from this browser
    RoleOf,     \* the role of each
    Pages,      \* the pages of the navigation that are explored
    GenericPages, \* those without a view of their own
    NoOne       \* no token, no identity, no data

Everyone == {"platform_admin", "technician", "customer_admin", "operator", "viewer"}
Technical == {"platform_admin", "technician"}
Administrative == Technical \cup {"customer_admin"}

\* pageRoles: who may open a page.
PageRoles(p) ==
    CASE p \in {"plant", "communications", "catalog", "commissioning", "digital-twin",
                "tailscale", "audit", "sites", "fleet", "tree", "activations"} -> Technical
      [] p \in {"compliance", "sync", "settings", "diagnostics"} -> Administrative
      [] p = "users" -> {"platform_admin", "customer_admin"}
      [] p = "customers" -> {"platform_admin"}
      [] OTHER -> Everyone

ASSUME SessionAssumption ==
    /\ RoleOf \in [Users -> Everyone]
    /\ NoOne \notin Users \cup Pages
    /\ {"dashboard", "live"} \subseteq Pages
    /\ GenericPages \subseteq Pages

VARIABLES
    stored,   \* localStorage: the token a reload finds
    token,    \* App: the token in use
    me,       \* App: the identity shown, and the role applied
    page,     \* App: the page chosen
    signingIn,\* Login: the user whose credentials are being checked
    askedMe,  \* tokens whose /me request is in flight
    shown,    \* DataPage: the page whose data it holds
    loading   \* DataPage: the pages whose data were asked for and not answered

sessionVars == <<stored, token, me, page, signingIn, askedMe, shown, loading>>

CanAccess(p, user) == user # NoOne /\ RoleOf[user] \in PageRoles(p)

\* Mutant: the effect that leaves a page of others is missing.
AnyPage(p, user) == p

\* The page after the effect that sends a user back from a page of others.
Allowed(p, user) == IF user # NoOne /\ ~CanAccess(p, user) THEN "dashboard" ELSE p

\* DataPage is mounted with a session, an identity and any page but the dashboard.
Mounted(t, user, p) == t # NoOne /\ user # NoOne /\ p # "dashboard"

\* App renders: its effects, and DataPage mounted, unmounted or given another
\* page.  DataPage asks for the data of each page it is given and keeps what it
\* showed; answers to an unmounted DataPage are lost.
Render(t, user, p) ==
    LET q == Allowed(p, user)
    IN /\ token' = t /\ me' = user /\ page' = q
       /\ \/ ~Mounted(t, user, q) /\ shown' = NoOne /\ loading' = {}
          \/ /\ Mounted(t, user, q) /\ ~Mounted(token, me, page)
             /\ shown' = NoOne /\ loading' = {q}
          \/ /\ Mounted(t, user, q) /\ Mounted(token, me, page)
             /\ UNCHANGED shown
             /\ loading' = IF q = page THEN loading ELSE loading \cup {q}

SessionInit ==
    /\ stored \in Users \cup {NoOne}
    /\ token = stored /\ me = NoOne /\ page = "dashboard" /\ signingIn = NoOne
    /\ askedMe = {stored} \ {NoOne}
    /\ shown = NoOne /\ loading = {}
-----------------------------------------------------------------------------
\* Login.submit up to the request; the button is disabled while it is busy.
Submit(u) ==
    /\ token = NoOne /\ signingIn = NoOne
    /\ signingIn' = u
    /\ UNCHANGED <<stored, token, me, page, askedMe, shown, loading>>

\* The token arrives: it is stored, and the effect on [token] asks who it is.
Accepted ==
    /\ token = NoOne /\ signingIn # NoOne
    /\ stored' = signingIn /\ signingIn' = NoOne
    /\ askedMe' = askedMe \cup {signingIn}
    /\ Render(signingIn, me, page)

\* "Credenziali non valide", or no answer.
Refused ==
    /\ token = NoOne /\ signingIn # NoOne
    /\ signingIn' = NoOne
    /\ UNCHANGED <<stored, token, me, page, askedMe, shown, loading>>

\* The answers of /me are taken over whatever the token is by now.
MeAnswered(t) ==
    /\ t \in askedMe
    /\ askedMe' = askedMe \ {t}
    /\ Render(token, t, page)
    /\ UNCHANGED <<stored, signingIn>>

\* Mutant: the token of a refused session stays in the browser's storage.
MeFailedKeepsStored(t) ==
    /\ t \in askedMe
    /\ askedMe' = askedMe \ {t}
    /\ Render(NoOne, me, page)
    /\ UNCHANGED <<stored, signingIn>>

\* Any failure of /me ends the session; the identity is left alone.
MeFailed(t) ==
    /\ t \in askedMe
    /\ askedMe' = askedMe \ {t}
    /\ stored' = NoOne
    /\ Render(NoOne, me, page)
    /\ UNCHANGED signingIn

\* Mutant: the identity outlives the session.
LogoutKeepsMe ==
    /\ token # NoOne /\ me # NoOne
    /\ stored' = NoOne
    /\ Render(NoOne, me, page)
    /\ UNCHANGED <<signingIn, askedMe>>

\* The loader has no logout; the page stays chosen for the next user.
Logout ==
    /\ token # NoOne /\ me # NoOne
    /\ stored' = NoOne
    /\ Render(NoOne, NoOne, page)
    /\ UNCHANGED <<signingIn, askedMe>>

\* The navigation lists the pages of the role.
Navigate(p) ==
    /\ token # NoOne /\ CanAccess(p, me)
    /\ Render(token, me, p)
    /\ UNCHANGED <<stored, signingIn, askedMe>>

\* DataPage.load by hand: generic pages have the button.
Refresh ==
    /\ Mounted(token, me, page) /\ page \in GenericPages
    /\ loading' = loading \cup {page}
    /\ UNCHANGED <<stored, token, me, page, signingIn, askedMe, shown>>

DataAnswered(p) ==
    /\ p \in loading
    /\ loading' = loading \ {p} /\ shown' = p
    /\ UNCHANGED <<stored, token, me, page, signingIn, askedMe>>

DataFailed(p) ==
    /\ p \in loading
    /\ loading' = loading \ {p}
    /\ UNCHANGED <<stored, token, me, page, signingIn, askedMe, shown>>

\* The browser reloads the client: requests in flight are dropped.
Reload ==
    /\ token' = stored /\ askedMe' = {stored} \ {NoOne}
    /\ me' = NoOne /\ page' = "dashboard" /\ signingIn' = NoOne
    /\ shown' = NoOne /\ loading' = {}
    /\ UNCHANGED stored

SessionAnswer ==
    \/ Accepted \/ Refused
    \/ \E t \in Users : MeAnswered(t) \/ MeFailed(t)

SessionNext ==
    \/ \E u \in Users : Submit(u)
    \/ SessionAnswer
    \/ \E p \in Pages : Navigate(p) \/ DataAnswered(p) \/ DataFailed(p)
    \/ Logout \/ Refresh \/ Reload

\* The server answers, or the browser gives up; nobody reloads for ever
\* faster than that.
SessionSpec == SessionInit /\ [][SessionNext]_sessionVars /\ WF_sessionVars(SessionAnswer)
-----------------------------------------------------------------------------
SessionTypeOK ==
    /\ {stored, token, me, signingIn} \subseteq Users \cup {NoOne}
    /\ page \in Pages /\ shown \in Pages \cup {NoOne}
    /\ askedMe \subseteq Users /\ loading \subseteq Pages

\* The name and the role shown are those of the token that requests carry,
\* although an answer of /me is taken over without looking at the token: the
\* only moment a late one could arrive has no way to log out (main.tsx, App).
IdentityIsCurrent == me # NoOne => me = token

\* A reload finds the session in use, and none after a logout or a refusal.
ReloadKeepsSession == stored = token

\* What a page shows and where the user is belong to his role: a page or data
\* that the previous user left behind are not shown to the next.
PageIsAllowed ==
    /\ me # NoOne => CanAccess(page, me)
    /\ shown # NoOne => CanAccess(shown, me)

\* Why: at most the current token's /me is in flight, only while the loader
\* shows, and nobody signs in during a session.
SessionInv ==
    /\ SessionTypeOK /\ IdentityIsCurrent /\ ReloadKeepsSession /\ PageIsAllowed
    /\ askedMe \subseteq {token} \ {NoOne}
    /\ askedMe # {} => me = NoOne
    /\ signingIn # NoOne => token = NoOne
    /\ \A p \in loading : CanAccess(p, me)

\* Login and loader: there is no identity yet, and no form.
SessionWaits == signingIn # NoOne \/ (token # NoOne /\ me = NoOne)

\* They do not last.
SessionSettles == SessionWaits ~> ~SessionWaits
=============================================================================
