------------------------------ MODULE Session ------------------------------
(***************************************************************************)
(* Login, session and the selected organization in the tabs of one browser      *)
(* (AuthContext.tsx) over the cookies and views of accounts/.  The cookie is    *)
(* shared by the tabs, everything else belongs to one of them; a call takes     *)
(* along what it knows when it is sent, and its answer is applied whenever it   *)
(* arrives.                                                                    *)
(***************************************************************************)
EXTENDS FiniteSets

CONSTANTS
    Tabs,           \* browser tabs
    Users,          \* accounts
    Orgs,           \* organizations
    Calls,          \* calls of the API that may be under way at once
    None            \* no user, organization or tab

ASSUME SessionAssumption == None \notin Users \cup Orgs \cup Tabs

VARIABLES
    memberships,    \* active OrganizationMembership rows of each account
    cookie,         \* whose access cookie the browser holds
    role,           \* per tab: auth_role is set, in the state and in sessionStorage
    session, mine,  \* per tab: the user and the memberships of the loaded session
    org, header,    \* per tab: organizationId and the X-Organization-Id header
    saved,          \* per tab: org_id in sessionStorage
    loading,        \* per tab: the first session has not been answered yet
    page,           \* per tab: the organization whose rows the page shows
    step, tab,      \* per call: what it is, and the tab that waits for it
    who, sent,      \* per call: the user it logs in or whose cookie it carries, and the
                    \* organization its closure or its header holds
    data,           \* per call: memberships the server answered with
    \* history
    mixed,          \* tabs whose session had no chance: a call overlapped with another,
                    \* was lost, or another tab changed the cookie
    behind          \* tabs whose organization changed since the page asked for its rows

server == <<memberships, cookie>>
shown == <<role, session, mine, org, header, saved, loading>>
calls == <<step, tab, who, sent, data>>
vars == <<server, shown, page, calls, mixed, behind>>

TypeOK ==
    /\ memberships \in [Users -> SUBSET Orgs]
    /\ cookie \in Users \cup {None}
    /\ role \in [Tabs -> BOOLEAN]
    /\ session \in [Tabs -> Users \cup {None}]
    /\ mine \in [Tabs -> SUBSET Orgs]
    /\ org \in [Tabs -> Orgs \cup {None}]
    /\ header \in [Tabs -> Orgs \cup {None}]
    /\ saved \in [Tabs -> Orgs \cup {None}]
    /\ loading \in [Tabs -> BOOLEAN]
    /\ page \in [Tabs -> Orgs \cup {None}]
    /\ step \in [Calls -> {"idle", "login", "password", "logout", "load", "loaded", "ask", "asked"}]
    /\ tab \in [Calls -> Tabs \cup {None}]
    /\ who \in [Calls -> Users \cup {None}]
    /\ sent \in [Calls -> Orgs \cup {None}]
    /\ data \in [Calls -> SUBSET Orgs]
    /\ mixed \subseteq Tabs /\ behind \subseteq Tabs

\* Tabs that were opened without a session and have asked for it.
Init ==
    /\ memberships \in [Users -> SUBSET Orgs]
    /\ cookie = None
    /\ role = [t \in Tabs |-> FALSE]
    /\ session = [t \in Tabs |-> None] /\ mine = [t \in Tabs |-> {}]
    /\ org = [t \in Tabs |-> None] /\ header = [t \in Tabs |-> None]
    /\ saved = [t \in Tabs |-> None]
    /\ loading = [t \in Tabs |-> FALSE]
    /\ page = [t \in Tabs |-> None]
    /\ step = [c \in Calls |-> "idle"] /\ tab = [c \in Calls |-> None]
    /\ who = [c \in Calls |-> None] /\ sent = [c \in Calls |-> None]
    /\ data = [c \in Calls |-> {}]
    /\ mixed = {} /\ behind = {}

InFlight(t) == {c \in Calls : step[c] # "idle" /\ tab[c] = t}
Auth(t) == {c \in InFlight(t) : step[c] \notin {"ask", "asked"}}

Is(c, kind) == step' = [step EXCEPT ![c] = kind]

Send(c, t, kind, user, o) ==
    /\ step[c] = "idle" /\ Is(c, kind)
    /\ tab' = [tab EXCEPT ![c] = t]
    /\ who' = [who EXCEPT ![c] = user]
    /\ sent' = [sent EXCEPT ![c] = o]
    /\ data' = [data EXCEPT ![c] = {}]

Finished(cs) ==
    /\ step' = [c \in Calls |-> IF c \in cs THEN "idle" ELSE step[c]]
    /\ tab' = [c \in Calls |-> IF c \in cs THEN None ELSE tab[c]]
    /\ who' = [c \in Calls |-> IF c \in cs THEN None ELSE who[c]]
    /\ sent' = [c \in Calls |-> IF c \in cs THEN None ELSE sent[c]]
    /\ data' = [c \in Calls |-> IF c \in cs THEN {} ELSE data[c]]

\* Two calls of one tab that are under way at once may overtake each other.
Overlaps(t) == mixed' = IF Auth(t) = {} THEN mixed ELSE mixed \cup {t}

SetCookie(t, user) ==
    /\ cookie' = user
    /\ mixed' = IF user = cookie THEN mixed ELSE mixed \cup (Tabs \ {t})
    /\ UNCHANGED memberships

-----------------------------------------------------------------------------
(* Login, registration and logout                                            *)

\* The form posts the credentials; loadSession is the closure of that moment.
Login(c, t, u) ==
    /\ Send(c, t, "login", u, org[t]) /\ Overlaps(t)
    /\ UNCHANGED <<server, shown, page, behind>>

\* LoginView answers with cookies: the role is shown, then the session is asked for.
LoggedIn(c) ==
    /\ step[c] = "login"
    /\ LET t == tab[c]
       IN /\ SetCookie(t, who[c])
          /\ role' = [role EXCEPT ![t] = TRUE]
    /\ Is(c, "load")
    /\ UNCHANGED <<session, mine, org, header, saved, loading, page, tab, who, sent, data, behind>>

SetPassword(c, t, u) ==
    /\ Send(c, t, "password", u, None) /\ Overlaps(t)
    /\ UNCHANGED <<server, shown, page, behind>>

Logout(c, t) ==
    /\ Send(c, t, "logout", None, None) /\ Overlaps(t)
    /\ UNCHANGED <<server, shown, page, behind>>

\* Mutant: the session is left to the next one who logs in.
LoggedOutHalf(c) ==
    /\ step[c] = "logout"
    /\ LET t == tab[c]
       IN /\ SetCookie(t, None)
          /\ role' = [role EXCEPT ![t] = FALSE]
          /\ saved' = [saved EXCEPT ![t] = None]
    /\ Finished({c})
    /\ UNCHANGED <<session, mine, org, header, loading, page, behind>>

\* organizationId and the header stay as they are.
LoggedOut(c) ==
    /\ step[c] = "logout"
    /\ LET t == tab[c]
       IN /\ SetCookie(t, None)
          /\ role' = [role EXCEPT ![t] = FALSE]
          /\ session' = [session EXCEPT ![t] = None]
          /\ mine' = [mine EXCEPT ![t] = {}]
          /\ saved' = [saved EXCEPT ![t] = None]
    /\ Finished({c})
    /\ UNCHANGED <<org, header, loading, page, behind>>

-----------------------------------------------------------------------------
(* The session                                                               *)

\* A full load of the page drops the calls of the tab and starts from sessionStorage.
Mount(c, t, user, others) ==
    /\ session' = [session EXCEPT ![t] = None] /\ mine' = [mine EXCEPT ![t] = {}]
    /\ org' = [org EXCEPT ![t] = saved[t]] /\ header' = [header EXCEPT ![t] = saved[t]]
    /\ loading' = [loading EXCEPT ![t] = TRUE]
    /\ page' = [page EXCEPT ![t] = None]
    /\ step' = [d \in Calls |-> IF d = c THEN "load" ELSE IF d \in others THEN "idle" ELSE step[d]]
    /\ tab' = [d \in Calls |-> IF d = c THEN t ELSE IF d \in others THEN None ELSE tab[d]]
    /\ who' = [d \in Calls |-> IF d = c THEN user ELSE IF d \in others THEN None ELSE who[d]]
    /\ sent' = [d \in Calls |-> IF d = c THEN saved[t] ELSE IF d \in others THEN None ELSE sent[d]]
    /\ data' = [d \in Calls |-> IF d = c \/ d \in others THEN {} ELSE data[d]]
    /\ behind' = behind \ {t}
    /\ UNCHANGED <<role, saved>>

Reload(c, t) ==
    /\ step[c] = "idle"
    /\ Mount(c, t, cookie, InFlight(t))
    /\ mixed' = mixed \ {t}
    /\ UNCHANGED server

\* SetPasswordView answers with cookies, and the page goes to /app by a full load.
PasswordSet(c) ==
    /\ step[c] = "password"
    /\ SetCookie(tab[c], who[c])
    /\ Mount(c, tab[c], who[c], InFlight(tab[c]))

\* OnboardingPage asks for the session once more.
RefreshSession(c, t) ==
    /\ role[t] /\ Send(c, t, "load", cookie, org[t]) /\ Overlaps(t)
    /\ UNCHANGED <<server, shown, page, behind>>

\* SessionView: the account of the cookie and its active memberships, in no order.
ServeSession(c) ==
    /\ step[c] = "load" /\ who[c] # None
    /\ Is(c, "loaded")
    /\ data' = [data EXCEPT ![c] = memberships[who[c]]]
    /\ UNCHANGED <<server, shown, page, tab, who, sent, mixed, behind>>

Choose(t, o) ==
    /\ org' = [org EXCEPT ![t] = o]
    /\ header' = [header EXCEPT ![t] = o]
    /\ saved' = [saved EXCEPT ![t] = o]
    /\ behind' = IF o = org[t] THEN behind ELSE behind \cup {t}

\* Mutant: the organization that was selected stays selected.
KeepsSelected(c, o) == IF sent[c] # None THEN o = sent[c] ELSE o \in data[c]

\* The organization the closure remembers, or else the first membership.
Selected(c, o) ==
    /\ o \in data[c]
    /\ sent[c] \in data[c] => o = sent[c]

SessionLoaded(c) ==
    /\ step[c] = "loaded"
    /\ LET t == tab[c]
       IN /\ session' = [session EXCEPT ![t] = who[c]]
          /\ mine' = [mine EXCEPT ![t] = data[c]]
          /\ role' = [role EXCEPT ![t] = TRUE]
          /\ loading' = [loading EXCEPT ![t] = FALSE]
          /\ \/ data[c] # {} /\ \E o \in Orgs : Selected(c, o) /\ Choose(t, o)
             \/ data[c] = {} /\ UNCHANGED <<org, header, saved, behind>>
    /\ Finished({c})
    /\ UNCHANGED <<server, page, mixed>>

NoSession(t) ==
    /\ session' = [session EXCEPT ![t] = None]
    /\ mine' = [mine EXCEPT ![t] = {}]
    /\ role' = [role EXCEPT ![t] = FALSE]
    /\ loading' = [loading EXCEPT ![t] = FALSE]
    /\ UNCHANGED <<org, header, saved>>

\* Without a cookie the answer is 403, which client.ts does not retry.
SessionRefused(c) ==
    /\ step[c] = "load" /\ who[c] = None
    /\ NoSession(tab[c]) /\ Finished({c})
    /\ UNCHANGED <<server, page, mixed, behind>>

\* A call that gets no answer, or a refusal other than the above.
CallFails(c) ==
    /\ step[c] # "idle"
    /\ IF step[c] \in {"load", "loaded"} THEN NoSession(tab[c]) ELSE UNCHANGED shown
    /\ mixed' = mixed \cup {tab[c]}
    /\ Finished({c})
    /\ UNCHANGED <<server, page, behind>>

-----------------------------------------------------------------------------
(* The selected organization and the pages                                   *)

\* The select of AppLayout; the page is not told.
Switch(t, o) ==
    /\ role[t] /\ o \in mine[t]
    /\ Choose(t, o)
    /\ UNCHANGED <<server, role, session, mine, loading, page, calls, mixed>>

\* A page behind PrivateRoute asks for its rows once, when it is opened; the page that
\* was left no longer listens.
OpenPage(c, t) ==
    /\ role[t] /\ ~loading[t]
    /\ LET left == {d \in InFlight(t) : step[d] \in {"ask", "asked"}}
       IN /\ step[c] = "idle" \/ c \in left
          /\ step' = [d \in Calls |-> IF d = c THEN "ask" ELSE IF d \in left THEN "idle" ELSE step[d]]
          /\ tab' = [d \in Calls |-> IF d = c THEN t ELSE IF d \in left THEN None ELSE tab[d]]
          /\ who' = [d \in Calls |-> IF d = c THEN cookie ELSE IF d \in left THEN None ELSE who[d]]
          /\ sent' = [d \in Calls |-> IF d = c THEN header[t] ELSE IF d \in left THEN None ELSE sent[d]]
          /\ data' = [d \in Calls |-> IF d = c \/ d \in left THEN {} ELSE data[d]]
    /\ page' = [page EXCEPT ![t] = None]
    /\ behind' = behind \ {t}
    /\ UNCHANGED <<server, shown, mixed>>

\* Mutant: the header is not looked at.
ScopeOfUser(user, o) == IF user = None THEN {} ELSE memberships[user]

\* HasOrganization: the membership the header names, or the first one without a header.
Scope(user, o) ==
    IF user = None THEN {} ELSE IF o = None THEN memberships[user] ELSE memberships[user] \cap {o}

ServePage(c) ==
    /\ step[c] = "ask" /\ Scope(who[c], sent[c]) # {}
    /\ \E o \in Scope(who[c], sent[c]) : data' = [data EXCEPT ![c] = {o}]
    /\ Is(c, "asked")
    /\ UNCHANGED <<server, shown, page, tab, who, sent, mixed, behind>>

PageLoaded(c) ==
    /\ step[c] = "asked"
    /\ page' = [page EXCEPT ![tab[c]] = CHOOSE o \in Orgs : data[c] = {o}]
    /\ Finished({c})
    /\ UNCHANGED <<server, shown, mixed, behind>>

-----------------------------------------------------------------------------
(* The team and the clock                                                    *)

TeamChanges(u, o) ==
    /\ memberships' = [memberships EXCEPT ![u] = IF o \in @ THEN @ \ {o} ELSE @ \cup {o}]
    /\ UNCHANGED <<cookie, shown, page, calls, mixed, behind>>

\* The cookie lives as long as the access token; tabs outside Tabs log in and out.
CookieChanges ==
    /\ cookie' \in (Users \cup {None}) \ {cookie}
    /\ mixed' = Tabs
    /\ UNCHANGED <<memberships, shown, page, calls, behind>>

Next ==
    \/ \E c \in Calls :
        \/ LoggedIn(c) \/ LoggedOut(c) \/ PasswordSet(c)
        \/ ServeSession(c) \/ SessionLoaded(c) \/ SessionRefused(c) \/ CallFails(c)
        \/ ServePage(c) \/ PageLoaded(c)
        \/ \E t \in Tabs :
            \/ Logout(c, t) \/ Reload(c, t) \/ RefreshSession(c, t) \/ OpenPage(c, t)
            \/ \E u \in Users : Login(c, t, u) \/ SetPassword(c, t, u)
    \/ \E t \in Tabs, o \in Orgs : Switch(t, o)
    \/ \E u \in Users, o \in Orgs : TeamChanges(u, o)
    \/ CookieChanges

Spec == Init /\ [][Next]_vars
-----------------------------------------------------------------------------
(* Properties                                                                *)

\* The organization a tab shows and sends is one of the session it shows, whoever was
\* logged in before and whichever answer came last (AuthContext.tsx:71-77); only a
\* session without memberships keeps the organization of the one before.
ShownOrganizationIsMine ==
    \A t \in Tabs : mine[t] # {} => org[t] \in mine[t] /\ header[t] = org[t]

\* A tab in which nothing is under way shows the account of the cookie, unless its calls
\* overlapped, one was lost, the cookie ran out or another tab changed it; a reload
\* puts it right.  A session that is answered after the logout is shown again
\* (AuthContext.tsx:67-70, 109-115).
QuietTabShowsCookie ==
    \A t \in Tabs \ mixed : Auth(t) = {} =>
        session[t] = cookie /\ (role[t] <=> cookie # None)

\* The rows of a page belong to the organization that is shown, unless that changed
\* after the page was opened: no page asks again when the organization is switched
\* (DashboardPage.tsx:22-26), and no answer of another organization slips in.
\* An account that had no membership when its session was loaded shows none.
PageFollowsOrganization ==
    \A t \in Tabs \ behind : page[t] \in {None, org[t]} \/ org[t] = None
=============================================================================
