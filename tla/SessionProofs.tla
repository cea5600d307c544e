--------------------------- MODULE SessionProofs ---------------------------
(***************************************************************************)
(* Theorems about Session for any number of tabs, accounts, organizations and  *)
(* calls.  An answer carries the memberships of one account, SessionLoaded     *)
(* selects one of them, and whatever else changes the session or the           *)
(* organization keeps the two together.                                        *)
(***************************************************************************)
EXTENDS Session, TLAPS

Kinds == {"idle", "login", "password", "logout", "load", "loaded", "ask", "asked"}

\* What a call that is under way knows.
CallTypes ==
    \A c \in Calls :
        /\ step[c] # "idle" => tab[c] \in Tabs
        /\ step[c] \in {"login", "password", "loaded"} => who[c] \in Users
        /\ step[c] = "asked" => \E o \in Orgs : data[c] = {o}

IInv == TypeOK /\ CallTypes /\ ShownOrganizationIsMine

\* The types of the calls alone, and of what a tab shows.
CallsOK ==
    /\ step \in [Calls -> Kinds]
    /\ tab \in [Calls -> Tabs \cup {None}]
    /\ who \in [Calls -> Users \cup {None}]
    /\ sent \in [Calls -> Orgs \cup {None}]
    /\ data \in [Calls -> SUBSET Orgs]

ShownOK ==
    /\ session \in [Tabs -> Users \cup {None}]
    /\ mine \in [Tabs -> SUBSET Orgs]
    /\ org \in [Tabs -> Orgs \cup {None}]
    /\ header \in [Tabs -> Orgs \cup {None}]
    /\ saved \in [Tabs -> Orgs \cup {None}]
    /\ role \in [Tabs -> BOOLEAN]
    /\ loading \in [Tabs -> BOOLEAN]

RestOK ==
    /\ memberships \in [Users -> SUBSET Orgs]
    /\ cookie \in Users \cup {None}
    /\ page \in [Tabs -> Orgs \cup {None}]
    /\ mixed \subseteq Tabs /\ behind \subseteq Tabs

LEMMA Types ==
    /\ TypeOK <=> CallsOK /\ ShownOK /\ RestOK
    /\ TypeOK' <=> CallsOK' /\ ShownOK' /\ RestOK'
BY DEF TypeOK, CallsOK, ShownOK, RestOK, Kinds

-----------------------------------------------------------------------------
(* The calls                                                                 *)

LEMMA SendKeeps ==
    ASSUME CallsOK, CallTypes, NEW c \in Calls, NEW t \in Tabs,
           NEW kind \in {"login", "password", "logout", "load"},
           NEW user \in Users \cup {None}, NEW o \in Orgs \cup {None},
           kind \in {"login", "password"} => user \in Users,
           Send(c, t, kind, user, o)
    PROVE  CallsOK' /\ CallTypes'
<1>1. CallsOK'
  BY DEF CallsOK, Send, Is, Kinds
<1>2. CallTypes'
  BY DEF CallsOK, CallTypes, Send, Is
<1>3. QED
  BY <1>1, <1>2

LEMMA FinishedKeeps ==
    ASSUME CallsOK, CallTypes, NEW cs \in SUBSET Calls, Finished(cs)
    PROVE  CallsOK' /\ CallTypes'
<1>1. CallsOK'
  BY DEF CallsOK, Finished, Kinds
<1>2. CallTypes'
  BY DEF CallsOK, CallTypes, Finished
<1>3. QED
  BY <1>1, <1>2

LEMMA OverlapsTypes ==
    ASSUME RestOK, NEW t \in Tabs, Overlaps(t)
    PROVE  mixed' \subseteq Tabs
BY DEF RestOK, Overlaps

LEMMA SetCookieTypes ==
    ASSUME RestOK, NEW t \in Tabs, NEW user \in Users \cup {None}, SetCookie(t, user)
    PROVE  mixed' \subseteq Tabs /\ cookie' \in Users \cup {None} /\ memberships' = memberships
BY DEF RestOK, SetCookie

\* A call that is sent.
LEMMA SentKeeps ==
    ASSUME IInv, NEW c \in Calls, NEW t \in Tabs,
           \/ \E u \in Users : Login(c, t, u) \/ SetPassword(c, t, u)
           \/ Logout(c, t) \/ RefreshSession(c, t)
    PROVE  IInv'
<1>1. CallsOK /\ ShownOK /\ RestOK /\ CallTypes /\ ShownOrganizationIsMine
  BY Types DEF IInv
<1>2. PICK kind \in {"login", "password", "logout", "load"}, user \in Users \cup {None},
           o \in Orgs \cup {None} :
        /\ Send(c, t, kind, user, o)
        /\ kind \in {"login", "password"} => user \in Users
  <2>1. None \in Users \cup {None} /\ None \in Orgs \cup {None} /\ org[t] \in Orgs \cup {None}
        /\ cookie \in Users \cup {None}
    BY <1>1 DEF ShownOK, RestOK
  <2>2. CASE \E u \in Users : Login(c, t, u)
    BY <2>1, <2>2 DEF Login
  <2>3. CASE \E u \in Users : SetPassword(c, t, u)
    BY <2>1, <2>3 DEF SetPassword
  <2>4. CASE Logout(c, t)
    BY <2>1, <2>4 DEF Logout
  <2>5. CASE RefreshSession(c, t)
    BY <2>1, <2>5 DEF RefreshSession
  <2>6. QED
    BY <2>2, <2>3, <2>4, <2>5
<1>3. Overlaps(t) /\ UNCHANGED <<memberships, cookie, role, session, mine, org, header, saved,
                                 loading, page, behind>>
  BY DEF Login, SetPassword, Logout, RefreshSession, server, shown
<1>4. CallsOK' /\ CallTypes'
  BY <1>1, <1>2, SendKeeps
<1>5. ShownOK' /\ ShownOrganizationIsMine'
  BY <1>1, <1>3 DEF ShownOK, ShownOrganizationIsMine
<1>6. RestOK'
  BY <1>1, <1>3, OverlapsTypes DEF RestOK
<1>7. QED
  BY <1>4, <1>5, <1>6, Types DEF IInv

-----------------------------------------------------------------------------
(* The answers                                                               *)

LEMMA LoggedInKeeps ==
    ASSUME IInv, NEW c \in Calls, LoggedIn(c)
    PROVE  IInv'
<1>1. CallsOK /\ ShownOK /\ RestOK /\ CallTypes /\ ShownOrganizationIsMine
  BY Types DEF IInv
<1>2. tab[c] \in Tabs /\ who[c] \in Users
  BY <1>1 DEF CallTypes, LoggedIn
<1>3. SetCookie(tab[c], who[c]) /\ role' = [role EXCEPT ![tab[c]] = TRUE] /\ Is(c, "load")
      /\ UNCHANGED <<session, mine, org, header, saved, loading, page, tab, who, sent, data, behind>>
  BY DEF LoggedIn
<1>4. CallsOK' /\ CallTypes'
  <2>1. CallsOK'
    BY <1>1, <1>3 DEF CallsOK, Is, Kinds
  <2>2. CallTypes'
    BY <1>1, <1>2, <1>3 DEF CallsOK, CallTypes, Is
  <2>3. QED
    BY <2>1, <2>2
<1>5. ShownOK' /\ ShownOrganizationIsMine'
  BY <1>1, <1>3 DEF ShownOK, ShownOrganizationIsMine
<1>6. RestOK'
  BY <1>1, <1>2, <1>3, SetCookieTypes DEF RestOK
<1>7. QED
  BY <1>4, <1>5, <1>6, Types DEF IInv

LEMMA LoggedOutKeeps ==
    ASSUME IInv, NEW c \in Calls, LoggedOut(c)
    PROVE  IInv'
<1>1. CallsOK /\ ShownOK /\ RestOK /\ CallTypes /\ ShownOrganizationIsMine
  BY Types DEF IInv
<1>2. tab[c] \in Tabs
  BY <1>1 DEF CallTypes, LoggedOut
<1>3. /\ SetCookie(tab[c], None)
      /\ role' = [role EXCEPT ![tab[c]] = FALSE]
      /\ session' = [session EXCEPT ![tab[c]] = None]
      /\ mine' = [mine EXCEPT ![tab[c]] = {}]
      /\ saved' = [saved EXCEPT ![tab[c]] = None]
      /\ Finished({c})
      /\ UNCHANGED <<org, header, loading, page, behind>>
  BY DEF LoggedOut
<1>4. CallsOK' /\ CallTypes'
  BY <1>1, <1>3, FinishedKeeps
<1>5. ShownOK'
  BY <1>1, <1>2, <1>3 DEF ShownOK
<1>6. ShownOrganizationIsMine'
  BY <1>1, <1>2, <1>3 DEF ShownOK, ShownOrganizationIsMine
<1>7. RestOK'
  BY <1>1, <1>2, <1>3, SetCookieTypes DEF RestOK
<1>8. QED
  BY <1>4, <1>5, <1>6, <1>7, Types DEF IInv

\* A full load starts without memberships.
LEMMA MountKeeps ==
    ASSUME IInv, NEW c \in Calls, NEW t \in Tabs, NEW user \in Users \cup {None},
           Mount(c, t, user, InFlight(t))
    PROVE  /\ CallsOK' /\ CallTypes' /\ ShownOK' /\ ShownOrganizationIsMine'
           /\ page' \in [Tabs -> Orgs \cup {None}] /\ behind' \subseteq Tabs
<1>1. CallsOK /\ ShownOK /\ RestOK /\ CallTypes /\ ShownOrganizationIsMine
  BY Types DEF IInv
<1> DEFINE others == InFlight(t)
<1>2. /\ step' = [d \in Calls |-> IF d = c THEN "load" ELSE IF d \in others THEN "idle" ELSE step[d]]
      /\ tab' = [d \in Calls |-> IF d = c THEN t ELSE IF d \in others THEN None ELSE tab[d]]
      /\ who' = [d \in Calls |-> IF d = c THEN user ELSE IF d \in others THEN None ELSE who[d]]
      /\ sent' = [d \in Calls |-> IF d = c THEN saved[t] ELSE IF d \in others THEN None ELSE sent[d]]
      /\ data' = [d \in Calls |-> IF d = c \/ d \in others THEN {} ELSE data[d]]
  BY DEF Mount
<1>3. /\ session' = [session EXCEPT ![t] = None] /\ mine' = [mine EXCEPT ![t] = {}]
      /\ org' = [org EXCEPT ![t] = saved[t]] /\ header' = [header EXCEPT ![t] = saved[t]]
      /\ loading' = [loading EXCEPT ![t] = TRUE]
      /\ page' = [page EXCEPT ![t] = None]
      /\ behind' = behind \ {t}
      /\ UNCHANGED <<role, saved>>
  BY DEF Mount
<1> HIDE DEF others
<1>4. CallsOK'
  BY <1>1, <1>2 DEF CallsOK, ShownOK, Kinds
<1>5. CallTypes'
  BY <1>1, <1>2 DEF CallsOK, CallTypes
<1>6. ShownOK'
  BY <1>1, <1>3 DEF ShownOK
<1>7. ShownOrganizationIsMine'
  BY <1>1, <1>3 DEF ShownOK, ShownOrganizationIsMine
<1>8. page' \in [Tabs -> Orgs \cup {None}] /\ behind' \subseteq Tabs
  BY <1>1, <1>3 DEF RestOK
<1>9. QED
  BY <1>4, <1>5, <1>6, <1>7, <1>8

LEMMA LoadsKeep ==
    ASSUME IInv, NEW c \in Calls,
           PasswordSet(c) \/ \E t \in Tabs : Reload(c, t)
    PROVE  IInv'
<1>1. CallsOK /\ ShownOK /\ RestOK /\ CallTypes
  BY Types DEF IInv
<1>2. CASE PasswordSet(c)
  <2>1. tab[c] \in Tabs /\ who[c] \in Users
    BY <1>1, <1>2 DEF CallTypes, PasswordSet
  <2>2. Mount(c, tab[c], who[c], InFlight(tab[c])) /\ SetCookie(tab[c], who[c])
    BY <1>2 DEF PasswordSet
  <2>3. /\ CallsOK' /\ CallTypes' /\ ShownOK' /\ ShownOrganizationIsMine'
        /\ page' \in [Tabs -> Orgs \cup {None}] /\ behind' \subseteq Tabs
    BY <2>1, <2>2, MountKeeps
  <2>4. RestOK'
    BY <1>1, <2>1, <2>2, <2>3, SetCookieTypes DEF RestOK
  <2>5. QED
    BY <2>3, <2>4, Types DEF IInv
<1>3. ASSUME NEW t \in Tabs, Reload(c, t)
      PROVE  IInv'
  <2>1. Mount(c, t, cookie, InFlight(t)) /\ mixed' = mixed \ {t} /\ UNCHANGED <<memberships, cookie>>
    BY <1>3 DEF Reload, server
  <2>2. cookie \in Users \cup {None}
    BY <1>1 DEF RestOK
  <2>3. /\ CallsOK' /\ CallTypes' /\ ShownOK' /\ ShownOrganizationIsMine'
        /\ page' \in [Tabs -> Orgs \cup {None}] /\ behind' \subseteq Tabs
    BY <2>1, <2>2, MountKeeps
  <2>4. RestOK'
    BY <1>1, <2>1, <2>3 DEF RestOK
  <2>5. QED
    BY <2>3, <2>4, Types DEF IInv
<1>4. QED
  BY <1>2, <1>3

LEMMA ServedKeeps ==
    ASSUME IInv, NEW c \in Calls, ServeSession(c) \/ ServePage(c)
    PROVE  IInv'
<1>1. CallsOK /\ ShownOK /\ RestOK /\ CallTypes /\ ShownOrganizationIsMine
  BY Types DEF IInv
<1>2. UNCHANGED <<memberships, cookie, role, session, mine, org, header, saved, loading, page,
                  tab, who, sent, mixed, behind>>
  BY DEF ServeSession, ServePage, server, shown
<1>3. CallsOK' /\ CallTypes'
  <2>1. CASE ServeSession(c)
    <3>1. who[c] \in Users /\ memberships[who[c]] \in SUBSET Orgs
      BY <1>1, <2>1 DEF ServeSession, CallsOK, RestOK
    <3>2. step' = [step EXCEPT ![c] = "loaded"] /\ data' = [data EXCEPT ![c] = memberships[who[c]]]
          /\ step[c] = "load"
      BY <2>1 DEF ServeSession, Is
    <3>3. CallsOK'
      BY <1>1, <1>2, <3>1, <3>2 DEF CallsOK, Kinds
    <3>4. CallTypes'
      BY <1>1, <1>2, <3>1, <3>2 DEF CallsOK, CallTypes
    <3>5. QED
      BY <3>3, <3>4
  <2>2. CASE ServePage(c)
    <3>1. PICK o \in Scope(who[c], sent[c]) : data' = [data EXCEPT ![c] = {o}]
      BY <2>2 DEF ServePage
    <3>2. o \in Orgs
      BY <1>1, <3>1 DEF Scope, CallsOK, RestOK
    <3>3. step' = [step EXCEPT ![c] = "asked"] /\ step[c] = "ask"
      BY <2>2 DEF ServePage, Is
    <3>4. CallsOK'
      BY <1>1, <1>2, <3>1, <3>2, <3>3 DEF CallsOK, Kinds
    <3>5. CallTypes'
      BY <1>1, <1>2, <3>1, <3>2, <3>3 DEF CallsOK, CallTypes
    <3>6. QED
      BY <3>4, <3>5
  <2>3. QED
    BY <2>1, <2>2
<1>4. ShownOK' /\ RestOK' /\ ShownOrganizationIsMine'
  BY <1>1, <1>2 DEF ShownOK, RestOK, ShownOrganizationIsMine
<1>5. QED
  BY <1>3, <1>4, Types DEF IInv

\* The organization that is chosen is a membership of the session.
LEMMA SessionLoadedKeeps ==
    ASSUME IInv, NEW c \in Calls, SessionLoaded(c)
    PROVE  IInv'
<1>1. CallsOK /\ ShownOK /\ RestOK /\ CallTypes /\ ShownOrganizationIsMine
  BY Types DEF IInv
<1> DEFINE t == tab[c]
<1>2. t \in Tabs /\ who[c] \in Users /\ data[c] \in SUBSET Orgs
  BY <1>1 DEF CallsOK, CallTypes, SessionLoaded
<1>3. /\ session' = [session EXCEPT ![t] = who[c]]
      /\ mine' = [mine EXCEPT ![t] = data[c]]
      /\ role' = [role EXCEPT ![t] = TRUE]
      /\ loading' = [loading EXCEPT ![t] = FALSE]
      /\ Finished({c})
      /\ UNCHANGED <<memberships, cookie, page, mixed>>
  BY DEF SessionLoaded, server
<1>4. CallsOK' /\ CallTypes'
  BY <1>1, <1>3, FinishedKeeps
<1>5. CASE \E o \in Orgs : Selected(c, o) /\ Choose(t, o)
  <2>1. PICK o \in Orgs : Selected(c, o) /\ Choose(t, o)
    BY <1>5
  <2>2. /\ org' = [org EXCEPT ![t] = o] /\ header' = [header EXCEPT ![t] = o]
        /\ saved' = [saved EXCEPT ![t] = o] /\ behind' \subseteq behind \cup {t}
        /\ o \in data[c]
    BY <2>1 DEF Selected, Choose
  <2>3. ShownOK'
    BY <1>1, <1>2, <1>3, <2>2 DEF ShownOK
  <2>4. ShownOrganizationIsMine'
    BY <1>1, <1>2, <1>3, <2>2 DEF ShownOK, ShownOrganizationIsMine
  <2>5. RestOK'
    BY <1>1, <1>2, <1>3, <2>2 DEF RestOK
  <2>6. QED
    BY <1>4, <2>3, <2>4, <2>5, Types DEF IInv
<1>6. CASE data[c] = {} /\ UNCHANGED <<org, header, saved, behind>>
  <2>1. ShownOK'
    BY <1>1, <1>2, <1>3, <1>6 DEF ShownOK
  <2>2. ShownOrganizationIsMine'
    BY <1>1, <1>2, <1>3, <1>6 DEF ShownOK, ShownOrganizationIsMine
  <2>3. RestOK'
    BY <1>1, <1>3, <1>6 DEF RestOK
  <2>4. QED
    BY <1>4, <2>1, <2>2, <2>3, Types DEF IInv
<1>7. QED
  BY <1>5, <1>6 DEF SessionLoaded

LEMMA NoSessionKeeps ==
    ASSUME ShownOK, ShownOrganizationIsMine, NEW t \in Tabs, NoSession(t)
    PROVE  ShownOK' /\ ShownOrganizationIsMine'
<1>1. ShownOK'
  BY DEF ShownOK, NoSession
<1>2. ShownOrganizationIsMine'
  BY DEF ShownOK, NoSession, ShownOrganizationIsMine
<1>3. QED
  BY <1>1, <1>2

LEMMA FailedKeeps ==
    ASSUME IInv, NEW c \in Calls, SessionRefused(c) \/ CallFails(c)
    PROVE  IInv'
<1>1. CallsOK /\ ShownOK /\ RestOK /\ CallTypes /\ ShownOrganizationIsMine
  BY Types DEF IInv
<1>2. tab[c] \in Tabs
  BY <1>1 DEF CallTypes, SessionRefused, CallFails
<1>3. /\ NoSession(tab[c]) \/ UNCHANGED shown
      /\ Finished({c})
      /\ mixed' \subseteq mixed \cup {tab[c]}
      /\ UNCHANGED <<memberships, cookie, page, behind>>
  BY DEF SessionRefused, CallFails, server
<1>4. CallsOK' /\ CallTypes'
  BY <1>1, <1>3, FinishedKeeps
<1>5. ShownOK' /\ ShownOrganizationIsMine'
  <2>1. CASE NoSession(tab[c])
    BY <1>1, <1>2, <2>1, NoSessionKeeps
  <2>2. CASE UNCHANGED shown
    BY <1>1, <2>2 DEF shown, ShownOK, ShownOrganizationIsMine
  <2>3. QED
    BY <1>3, <2>1, <2>2
<1>6. RestOK'
  BY <1>1, <1>2, <1>3 DEF RestOK
<1>7. QED
  BY <1>4, <1>5, <1>6, Types DEF IInv

-----------------------------------------------------------------------------
(* Pages, the team and the clock                                             *)

LEMMA PagesKeep ==
    ASSUME IInv, NEW c \in Calls,
           PageLoaded(c) \/ \E t \in Tabs : OpenPage(c, t)
    PROVE  IInv'
<1>1. CallsOK /\ ShownOK /\ RestOK /\ CallTypes /\ ShownOrganizationIsMine
  BY Types DEF IInv
<1>2. UNCHANGED <<memberships, cookie, role, session, mine, org, header, saved, loading, mixed>>
  BY DEF PageLoaded, OpenPage, server, shown
<1>3. ShownOK' /\ ShownOrganizationIsMine'
  BY <1>1, <1>2 DEF ShownOK, ShownOrganizationIsMine
<1>4. CASE PageLoaded(c)
  <2>1. CallsOK' /\ CallTypes'
    BY <1>1, <1>4, FinishedKeeps DEF PageLoaded
  <2>2. (CHOOSE o \in Orgs : data[c] = {o}) \in Orgs
    BY <1>1, <1>4 DEF PageLoaded, CallTypes
  <2>3. RestOK'
    BY <1>1, <1>2, <1>4, <2>2 DEF PageLoaded, RestOK
  <2>4. QED
    BY <1>3, <2>1, <2>3, Types DEF IInv
<1>5. ASSUME NEW t \in Tabs, OpenPage(c, t)
      PROVE  IInv'
  <2> DEFINE left == {d \in InFlight(t) : step[d] \in {"ask", "asked"}}
  <2>1. /\ step' = [d \in Calls |-> IF d = c THEN "ask" ELSE IF d \in left THEN "idle" ELSE step[d]]
        /\ tab' = [d \in Calls |-> IF d = c THEN t ELSE IF d \in left THEN None ELSE tab[d]]
        /\ who' = [d \in Calls |-> IF d = c THEN cookie ELSE IF d \in left THEN None ELSE who[d]]
        /\ sent' = [d \in Calls |-> IF d = c THEN header[t] ELSE IF d \in left THEN None ELSE sent[d]]
        /\ data' = [d \in Calls |-> IF d = c \/ d \in left THEN {} ELSE data[d]]
        /\ page' = [page EXCEPT ![t] = None] /\ behind' = behind \ {t}
    BY <1>5 DEF OpenPage
  <2> HIDE DEF left
  <2>2. CallsOK'
    BY <1>1, <2>1 DEF CallsOK, ShownOK, RestOK, Kinds
  <2>3. CallTypes'
    BY <1>1, <2>1 DEF CallsOK, CallTypes
  <2>4. RestOK'
    BY <1>1, <1>2, <2>1 DEF RestOK
  <2>5. QED
    BY <1>3, <2>2, <2>3, <2>4, Types DEF IInv
<1>6. QED
  BY <1>4, <1>5

LEMMA SwitchKeeps ==
    ASSUME IInv, NEW t \in Tabs, NEW o \in Orgs, Switch(t, o)
    PROVE  IInv'
<1>1. CallsOK /\ ShownOK /\ RestOK /\ CallTypes /\ ShownOrganizationIsMine
  BY Types DEF IInv
<1>2. /\ org' = [org EXCEPT ![t] = o] /\ header' = [header EXCEPT ![t] = o]
      /\ saved' = [saved EXCEPT ![t] = o] /\ behind' \subseteq behind \cup {t}
      /\ o \in mine[t]
      /\ UNCHANGED <<memberships, cookie, role, session, mine, loading, page,
                     step, tab, who, sent, data, mixed>>
  BY DEF Switch, Choose, server, calls
<1>3. ShownOK'
  BY <1>1, <1>2 DEF ShownOK
<1>4. ShownOrganizationIsMine'
  BY <1>1, <1>2 DEF ShownOK, ShownOrganizationIsMine
<1>5. CallsOK' /\ CallTypes' /\ RestOK'
  BY <1>1, <1>2 DEF CallsOK, CallTypes, RestOK
<1>6. QED
  BY <1>3, <1>4, <1>5, Types DEF IInv

LEMMA OutsideKeeps ==
    ASSUME IInv,
           \/ \E u \in Users, o \in Orgs : TeamChanges(u, o)
           \/ CookieChanges
    PROVE  IInv'
<1>1. CallsOK /\ ShownOK /\ RestOK /\ CallTypes /\ ShownOrganizationIsMine
  BY Types DEF IInv
<1>2. UNCHANGED <<role, session, mine, org, header, saved, loading, page,
                  step, tab, who, sent, data, behind>>
  BY DEF TeamChanges, CookieChanges, shown, calls
<1>3. RestOK'
  <2>1. ASSUME NEW u \in Users, NEW o \in Orgs, TeamChanges(u, o)
        PROVE  RestOK'
    BY <1>1, <1>2, <2>1 DEF TeamChanges, RestOK
  <2>2. CASE CookieChanges
    BY <1>1, <1>2, <2>2 DEF CookieChanges, RestOK
  <2>3. QED
    BY <2>1, <2>2
<1>4. ShownOK' /\ ShownOrganizationIsMine' /\ CallsOK' /\ CallTypes'
  BY <1>1, <1>2 DEF ShownOK, ShownOrganizationIsMine, CallsOK, CallTypes
<1>5. QED
  BY <1>3, <1>4, Types DEF IInv

-----------------------------------------------------------------------------
(* The inductive invariant and the theorems                                  *)

LEMMA InitIInv == Init => IInv
<1> SUFFICES ASSUME Init PROVE IInv
  OBVIOUS
<1>1. CallsOK
  BY DEF Init, CallsOK, Kinds
<1>2. ShownOK
  BY DEF Init, ShownOK
<1>3. RestOK
  BY DEF Init, RestOK
<1>4. CallTypes /\ ShownOrganizationIsMine
  BY DEF Init, CallTypes, ShownOrganizationIsMine
<1>5. QED
  BY <1>1, <1>2, <1>3, <1>4, Types DEF IInv

LEMMA NextIInv ==
    ASSUME IInv, [Next]_vars
    PROVE  IInv'
<1>1. CASE UNCHANGED vars
  BY <1>1 DEF vars, server, shown, calls, IInv, TypeOK, CallTypes, ShownOrganizationIsMine
<1>2. CASE Next
  <2>1. ASSUME NEW c \in Calls,
               \/ LoggedIn(c) \/ LoggedOut(c) \/ PasswordSet(c)
               \/ ServeSession(c) \/ SessionLoaded(c) \/ SessionRefused(c) \/ CallFails(c)
               \/ ServePage(c) \/ PageLoaded(c)
        PROVE  IInv'
    BY <2>1, LoggedInKeeps, LoggedOutKeeps, LoadsKeep, ServedKeeps, SessionLoadedKeeps,
       FailedKeeps, PagesKeep
  <2>2. ASSUME NEW c \in Calls, NEW t \in Tabs,
               \/ Logout(c, t) \/ Reload(c, t) \/ RefreshSession(c, t) \/ OpenPage(c, t)
               \/ \E u \in Users : Login(c, t, u) \/ SetPassword(c, t, u)
        PROVE  IInv'
    BY <2>2, SentKeeps, LoadsKeep, PagesKeep
  <2>3. QED
    BY <1>2, <2>1, <2>2, SwitchKeeps, OutsideKeeps DEF Next
<1>3. QED
  BY <1>1, <1>2

LEMMA AlwaysIInv == Spec => []IInv
<1>1. IInv /\ [Next]_vars => IInv'
  BY NextIInv
<1>2. QED
  BY <1>1, InitIInv, PTL DEF Spec

\* Calls, tabs and cookie keep their types; in particular a page is always that of an
\* organization.
THEOREM TypeCorrect == Spec => []TypeOK
<1>1. IInv => TypeOK
  BY DEF IInv
<1>2. QED
  BY <1>1, AlwaysIInv, PTL

\* No order of logins, logouts, reloads and late answers shows or sends an organization
\* that is not one of the session's memberships (AuthContext.tsx:71-77).
THEOREM ShownOrganizationBelongs == Spec => []ShownOrganizationIsMine
<1>1. IInv => ShownOrganizationIsMine
  BY DEF IInv
<1>2. QED
  BY <1>1, AlwaysIInv, PTL

-----------------------------------------------------------------------------
(* The cookie and the pages.  A tab that had its chance has at most one call    *)
(* about its session under way, and one that loads the session carries the      *)
(* account of the cookie; a page that is asked for carries the organization.    *)

Loads(c) == step[c] \in {"load", "loaded"}
Asks(c) == step[c] \in {"ask", "asked"}

Fresh(t) ==
    /\ \A c, d \in Auth(t) : c = d
    /\ \A c \in Auth(t) : Loads(c) => who[c] = cookie
    /\ (\A c \in Auth(t) : ~Loads(c)) => session[t] = cookie /\ (role[t] <=> cookie # None)

Asked(t) ==
    /\ header[t] = org[t]
    /\ t \notin behind => page[t] \in {None, org[t]} \/ org[t] = None
    /\ \A c \in Calls : Asks(c) /\ tab[c] = t =>
         /\ t \notin behind => sent[c] = org[t]
         /\ step[c] = "asked" /\ sent[c] # None => data[c] = {sent[c]}

JInv ==
    /\ IInv
    /\ \A t \in Tabs \ mixed : Fresh(t)
    /\ \A t \in Tabs : Asked(t)

\* Nothing that concerns tab t changes, and no call is new to it.
LEMMA OtherTab ==
    ASSUME JInv, NEW t \in Tabs, t \notin mixed' => t \notin mixed /\ cookie' = cookie,
           t \in behind => t \in behind',
           UNCHANGED <<session[t], role[t], org[t], header[t], page[t]>>,
           \A c \in Calls : step'[c] # "idle" /\ tab'[c] = t =>
              step'[c] = step[c] /\ tab'[c] = tab[c] /\ who'[c] = who[c] /\ sent'[c] = sent[c]
                /\ data'[c] = data[c],
           \A c \in Auth(t) : step'[c] = step[c] /\ tab'[c] = tab[c]
    PROVE  (t \notin mixed' => Fresh(t)') /\ Asked(t)'
<1>1. Auth(t)' = Auth(t)
  BY DEF Auth, InFlight
<1>2. t \notin mixed' => Fresh(t)'
  BY <1>1 DEF JInv, Fresh, Loads, Auth, InFlight
<1>3. Asked(t)'
  BY DEF JInv, Asked, Asks
<1>4. QED
  BY <1>2, <1>3

LEMMA SentFresh ==
    ASSUME JInv, NEW c \in Calls, NEW t \in Tabs,
           \/ \E u \in Users : Login(c, t, u) \/ SetPassword(c, t, u)
           \/ Logout(c, t) \/ RefreshSession(c, t)
    PROVE  \A s \in Tabs : (s \notin mixed' => Fresh(s)') /\ Asked(s)'
<1>1. CallsOK
  BY Types DEF JInv, IInv
<1>2. PICK kind \in {"login", "password", "logout", "load"} :
        /\ step[c] = "idle" /\ step' = [step EXCEPT ![c] = kind]
        /\ tab' = [tab EXCEPT ![c] = t]
        /\ kind = "load" => who' = [who EXCEPT ![c] = cookie]
        /\ \A d \in Calls \ {c} : who'[d] = who[d] /\ sent'[d] = sent[d] /\ data'[d] = data[d]
  BY <1>1 DEF Login, SetPassword, Logout, RefreshSession, Send, Is, CallsOK
<1>3. Overlaps(t) /\ UNCHANGED <<memberships, cookie, role, session, mine, org, header, saved,
                                 loading, page, behind>>
  BY DEF Login, SetPassword, Logout, RefreshSession, server, shown
<1>4. /\ step'[c] = kind /\ tab'[c] = t
      /\ \A d \in Calls \ {c} : step'[d] = step[d] /\ tab'[d] = tab[d]
  BY <1>1, <1>2 DEF CallsOK
<1>5. ASSUME NEW s \in Tabs \ {t}
      PROVE  (s \notin mixed' => Fresh(s)') /\ Asked(s)'
  BY <1>2, <1>3, <1>4, OtherTab DEF Overlaps, Auth, InFlight
<1>6. ASSUME t \notin mixed'
      PROVE  Fresh(t)'
  <2>1. t \notin mixed /\ Auth(t) = {}
    BY <1>3, <1>6 DEF Overlaps
  <2>2. Auth(t)' = {c}
    BY <1>4, <2>1 DEF Auth, InFlight
  <2>3. session[t] = cookie /\ (role[t] <=> cookie # None)
    BY <2>1 DEF JInv, Fresh
  <2>4. kind = "load" => who'[c] = cookie'
    BY <1>1, <1>2, <1>3 DEF CallsOK
  <2>5. QED
    BY <1>3, <1>4, <2>2, <2>3, <2>4 DEF Fresh, Loads
<1>7. Asked(t)'
  BY <1>2, <1>3, <1>4 DEF JInv, Asked, Asks
<1>8. QED
  BY <1>5, <1>6, <1>7

LEMMA LoggedInFresh ==
    ASSUME JInv, NEW c \in Calls, LoggedIn(c)
    PROVE  \A s \in Tabs : (s \notin mixed' => Fresh(s)') /\ Asked(s)'
<1>1. CallsOK /\ ShownOK /\ CallTypes
  BY Types DEF JInv, IInv
<1>2. PICK t \in Tabs : t = tab[c] /\ c \in Auth(t)
  BY <1>1 DEF CallTypes, LoggedIn, Auth, InFlight
<1>3. /\ step[c] = "login" /\ step'[c] = "load"
      /\ \A d \in Calls \ {c} : step'[d] = step[d]
      /\ cookie' = who[c] /\ role'[t] = TRUE /\ \A s \in Tabs \ {t} : role'[s] = role[s]
      /\ mixed' = IF who[c] = cookie THEN mixed ELSE mixed \cup (Tabs \ {t})
      /\ UNCHANGED <<session, org, header, page, tab, who, sent, data, behind>>
  BY <1>1, <1>2 DEF LoggedIn, SetCookie, Is, CallsOK, ShownOK
<1>4. ASSUME NEW s \in Tabs \ {t}
      PROVE  (s \notin mixed' => Fresh(s)') /\ Asked(s)'
  BY <1>2, <1>3, OtherTab DEF Auth, InFlight
<1>5. ASSUME t \notin mixed'
      PROVE  Fresh(t)'
  <2>1. t \notin mixed
    BY <1>3, <1>5
  <2>2. \A d \in Auth(t) : d = c
    BY <1>2, <2>1 DEF JInv, Fresh
  <2>3. Auth(t)' = {c}
    BY <1>2, <1>3, <2>2 DEF Auth, InFlight
  <2>4. QED
    BY <1>3, <2>3 DEF Fresh, Loads
<1>6. Asked(t)'
  BY <1>2, <1>3 DEF JInv, Asked, Asks
<1>7. QED
  BY <1>4, <1>5, <1>6

\* A call of tab t that is over leaves the other calls alone.
LEMMA FinishedCalls ==
    ASSUME CallsOK, NEW c \in Calls, Finished({c})
    PROVE  /\ step'[c] = "idle"
           /\ \A d \in Calls \ {c} :
                /\ step'[d] = step[d] /\ tab'[d] = tab[d] /\ who'[d] = who[d]
                /\ sent'[d] = sent[d] /\ data'[d] = data[d]
           /\ \A t \in Tabs : Auth(t)' = Auth(t) \ {c}
<1>1. /\ step'[c] = "idle"
      /\ \A d \in Calls \ {c} :
           /\ step'[d] = step[d] /\ tab'[d] = tab[d] /\ who'[d] = who[d]
           /\ sent'[d] = sent[d] /\ data'[d] = data[d]
  BY DEF Finished
<1>2. \A t \in Tabs : Auth(t)' = Auth(t) \ {c}
  BY <1>1 DEF Auth, InFlight
<1>3. QED
  BY <1>1, <1>2

LEMMA LoggedOutFresh ==
    ASSUME JInv, NEW c \in Calls, LoggedOut(c)
    PROVE  \A s \in Tabs : (s \notin mixed' => Fresh(s)') /\ Asked(s)'
<1>1. CallsOK /\ ShownOK /\ CallTypes
  BY Types DEF JInv, IInv
<1>2. PICK t \in Tabs : t = tab[c] /\ c \in Auth(t)
  BY <1>1 DEF CallTypes, LoggedOut, Auth, InFlight
<1>3. /\ cookie' = None
      /\ mixed' = IF None = cookie THEN mixed ELSE mixed \cup (Tabs \ {t})
      /\ session'[t] = None /\ role'[t] = FALSE
      /\ \A s \in Tabs \ {t} : session'[s] = session[s] /\ role'[s] = role[s]
      /\ UNCHANGED <<org, header, page, behind>>
  BY <1>1, <1>2 DEF LoggedOut, SetCookie, ShownOK
<1>4. /\ step'[c] = "idle"
      /\ \A d \in Calls \ {c} :
           /\ step'[d] = step[d] /\ tab'[d] = tab[d] /\ who'[d] = who[d]
           /\ sent'[d] = sent[d] /\ data'[d] = data[d]
      /\ Auth(t)' = Auth(t) \ {c}
  BY <1>1, FinishedCalls DEF LoggedOut
<1>5. ASSUME NEW s \in Tabs \ {t}
      PROVE  (s \notin mixed' => Fresh(s)') /\ Asked(s)'
  BY <1>2, <1>3, <1>4, OtherTab DEF Auth, InFlight
<1>6. ASSUME t \notin mixed'
      PROVE  Fresh(t)'
  <2>1. t \notin mixed
    BY <1>3, <1>6
  <2>2. Auth(t)' = {}
    BY <1>2, <1>4, <2>1 DEF JInv, Fresh
  <2>3. QED
    BY <1>3, <2>2 DEF Fresh
<1>7. Asked(t)'
  BY <1>3, <1>4 DEF JInv, Asked, Asks
<1>8. QED
  BY <1>5, <1>6, <1>7

\* A full load leaves its own call and the account of the cookie.
LEMMA MountFresh ==
    ASSUME JInv, NEW c \in Calls, NEW t \in Tabs, NEW user \in Users \cup {None},
           step[c] = "idle" \/ tab[c] = t,
           Mount(c, t, user, InFlight(t)), cookie' = user,
           \A s \in Tabs \ {t} : s \notin mixed' => s \notin mixed /\ cookie' = cookie
    PROVE  \A s \in Tabs : (s \notin mixed' => Fresh(s)') /\ Asked(s)'
<1>1. CallsOK /\ ShownOK /\ RestOK
  BY Types DEF JInv, IInv
<1> DEFINE others == InFlight(t)
<1>2. /\ step' = [d \in Calls |-> IF d = c THEN "load" ELSE IF d \in others THEN "idle" ELSE step[d]]
      /\ tab' = [d \in Calls |-> IF d = c THEN t ELSE IF d \in others THEN None ELSE tab[d]]
      /\ who' = [d \in Calls |-> IF d = c THEN user ELSE IF d \in others THEN None ELSE who[d]]
      /\ sent' = [d \in Calls |-> IF d = c THEN saved[t] ELSE IF d \in others THEN None ELSE sent[d]]
      /\ data' = [d \in Calls |-> IF d = c \/ d \in others THEN {} ELSE data[d]]
  BY DEF Mount
<1>3. /\ org'[t] = saved[t] /\ header'[t] = saved[t] /\ page'[t] = None
      /\ \A s \in Tabs \ {t} : /\ session'[s] = session[s] /\ org'[s] = org[s]
                               /\ header'[s] = header[s] /\ page'[s] = page[s]
      /\ behind' = behind \ {t}
      /\ role' = role
  BY <1>1 DEF Mount, ShownOK, RestOK
<1>4. \A d \in Calls : d \in others <=> step[d] # "idle" /\ tab[d] = t
  BY DEF InFlight
<1> HIDE DEF others
<1>5. ASSUME NEW s \in Tabs \ {t}
      PROVE  (s \notin mixed' => Fresh(s)') /\ Asked(s)'
  <2>1. \A d \in Calls : step'[d] # "idle" /\ tab'[d] = s =>
              step'[d] = step[d] /\ tab'[d] = tab[d] /\ who'[d] = who[d] /\ sent'[d] = sent[d]
                /\ data'[d] = data[d]
    BY <1>2
  <2>2. \A d \in Auth(s) : step'[d] = step[d] /\ tab'[d] = tab[d]
    BY <1>2, <1>4 DEF Auth, InFlight
  <2>3. s \notin mixed' => s \notin mixed /\ cookie' = cookie
    OBVIOUS
  <2>4. UNCHANGED <<session[s], role[s], org[s], header[s], page[s]>>
    BY <1>3
  <2>5. s \in behind => s \in behind'
    BY <1>3
  <2>6. QED
    BY <2>1, <2>2, <2>3, <2>4, <2>5, OtherTab
<1>6. Fresh(t)'
  <2>1. Auth(t)' = {c} /\ step'[c] = "load" /\ who'[c] = user
    BY <1>2, <1>4 DEF Auth, InFlight
  <2>2. QED
    BY <2>1 DEF Fresh, Loads
<1>7. Asked(t)'
  <2>1. \A d \in Calls : tab'[d] = t => ~Asks(d)'
    BY <1>2, <1>4 DEF Asks
  <2>2. QED
    BY <1>3, <2>1 DEF Asked
<1>8. QED
  BY <1>5, <1>6, <1>7

LEMMA LoadsFresh ==
    ASSUME JInv, NEW c \in Calls,
           PasswordSet(c) \/ \E t \in Tabs : Reload(c, t)
    PROVE  \A s \in Tabs : (s \notin mixed' => Fresh(s)') /\ Asked(s)'
<1>1. CallsOK /\ RestOK /\ CallTypes
  BY Types DEF JInv, IInv
<1>2. CASE PasswordSet(c)
  <2>1. PICK t \in Tabs, user \in Users : t = tab[c] /\ user = who[c]
    BY <1>1, <1>2 DEF CallTypes, PasswordSet
  <2>2. Mount(c, t, user, InFlight(t)) /\ cookie' = user
        /\ mixed' = IF user = cookie THEN mixed ELSE mixed \cup (Tabs \ {t})
    BY <1>2, <2>1 DEF PasswordSet, SetCookie
  <2>3. QED
    BY <2>1, <2>2, MountFresh
<1>3. ASSUME NEW t \in Tabs, Reload(c, t)
      PROVE  \A s \in Tabs : (s \notin mixed' => Fresh(s)') /\ Asked(s)'
  <2>1. /\ step[c] = "idle" /\ Mount(c, t, cookie, InFlight(t))
        /\ mixed' = mixed \ {t} /\ cookie' = cookie
    BY <1>3 DEF Reload, server
  <2>2. cookie \in Users \cup {None}
    BY <1>1 DEF RestOK
  <2>3. QED
    BY <2>1, <2>2, MountFresh
<1>4. QED
  BY <1>2, <1>3

\* An answer of the server changes the call only.
LEMMA ServedFresh ==
    ASSUME JInv, NEW c \in Calls, ServeSession(c) \/ ServePage(c)
    PROVE  \A s \in Tabs : (s \notin mixed' => Fresh(s)') /\ Asked(s)'
<1>1. CallsOK /\ RestOK
  BY Types DEF JInv, IInv
<1>2. UNCHANGED <<cookie, role, session, org, header, page, tab, who, sent, mixed, behind>>
  BY DEF ServeSession, ServePage, server, shown
<1>3. \A d \in Calls \ {c} : step'[d] = step[d] /\ data'[d] = data[d]
  BY <1>1 DEF ServeSession, ServePage, Is, CallsOK
<1>4. CASE ServeSession(c)
  <2>1. step[c] = "load" /\ step'[c] = "loaded"
    BY <1>1, <1>4 DEF ServeSession, Is, CallsOK
  <2>2. \A s \in Tabs : Auth(s)' = Auth(s)
    BY <1>2, <1>3, <2>1 DEF Auth, InFlight
  <2>3. \A d \in Calls : (Loads(d)' <=> Loads(d)) /\ (Asks(d)' => Asks(d) /\ d # c)
    BY <1>3, <2>1 DEF Loads, Asks
  <2>4. ASSUME NEW s \in Tabs, s \notin mixed'
        PROVE  Fresh(s)'
    BY <1>2, <2>2, <2>3, <2>4 DEF JInv, Fresh, Auth, InFlight
  <2>5. ASSUME NEW s \in Tabs
        PROVE  Asked(s)'
    BY <1>2, <1>3, <2>3 DEF JInv, Asked
  <2>6. QED
    BY <2>4, <2>5
<1>5. CASE ServePage(c)
  <2>1. step[c] = "ask" /\ step'[c] = "asked"
    BY <1>1, <1>5 DEF ServePage, Is, CallsOK
  <2>2. \A s \in Tabs : Auth(s)' = Auth(s)
    BY <1>2, <1>3, <2>1 DEF Auth, InFlight
  <2>3. \A d \in Calls : (Loads(d)' <=> Loads(d)) /\ (Asks(d)' <=> Asks(d))
    BY <1>3, <2>1 DEF Loads, Asks
  <2>4. sent[c] # None => data'[c] = {sent[c]}
    BY <1>1, <1>5 DEF ServePage, Scope, CallsOK
  <2>5. ASSUME NEW s \in Tabs, s \notin mixed'
        PROVE  Fresh(s)'
    BY <1>2, <2>2, <2>3, <2>5 DEF JInv, Fresh, Auth, InFlight
  <2>6. ASSUME NEW s \in Tabs
        PROVE  Asked(s)'
    BY <1>2, <1>3, <2>3, <2>4 DEF JInv, Asked
  <2>7. QED
    BY <2>5, <2>6
<1>6. QED
  BY <1>4, <1>5

\* The answer was for the account of the cookie, or the tab is mixed.
LEMMA SessionLoadedFresh ==
    ASSUME JInv, NEW c \in Calls, SessionLoaded(c)
    PROVE  \A s \in Tabs : (s \notin mixed' => Fresh(s)') /\ Asked(s)'
<1>1. CallsOK /\ ShownOK /\ RestOK /\ CallTypes
  BY Types DEF JInv, IInv
<1>2. PICK t \in Tabs : t = tab[c] /\ c \in Auth(t) /\ Loads(c) /\ who[c] \in Users
  BY <1>1 DEF CallTypes, SessionLoaded, Auth, InFlight, Loads
<1>3. /\ session'[t] = who[c] /\ role'[t] = TRUE
      /\ \A s \in Tabs \ {t} : session'[s] = session[s] /\ role'[s] = role[s]
      /\ UNCHANGED <<cookie, page, mixed>>
  BY <1>1, <1>2 DEF SessionLoaded, ShownOK, server
<1>4. /\ step'[c] = "idle"
      /\ \A d \in Calls \ {c} :
           /\ step'[d] = step[d] /\ tab'[d] = tab[d] /\ who'[d] = who[d]
           /\ sent'[d] = sent[d] /\ data'[d] = data[d]
      /\ Auth(t)' = Auth(t) \ {c}
  BY <1>1, FinishedCalls DEF SessionLoaded
<1>5. /\ \A s \in Tabs \ {t} : org'[s] = org[s] /\ header'[s] = header[s]
      /\ behind \subseteq behind'
      /\ \/ org'[t] = header'[t] /\ (t \notin behind' => org'[t] = org[t])
         \/ org'[t] = org[t] /\ header'[t] = header[t]
  BY <1>1, <1>2 DEF SessionLoaded, Choose, ShownOK
<1>6. ASSUME NEW s \in Tabs \ {t}
      PROVE  (s \notin mixed' => Fresh(s)') /\ Asked(s)'
  <2>1. UNCHANGED <<session[s], role[s], org[s], header[s], page[s]>>
    BY <1>3, <1>5
  <2>2. QED
    BY <1>2, <1>3, <1>4, <1>5, <2>1, OtherTab DEF Auth, InFlight
<1>7. ASSUME t \notin mixed'
      PROVE  Fresh(t)'
  <2>1. t \notin mixed
    BY <1>3, <1>7
  <2>2. Auth(t)' = {} /\ who[c] = cookie
    BY <1>2, <1>4, <2>1 DEF JInv, Fresh
  <2>3. cookie # None
    BY <1>2, <2>2, SessionAssumption
  <2>4. QED
    BY <1>3, <2>2, <2>3 DEF Fresh
<1>8. Asked(t)'
  BY <1>3, <1>4, <1>5 DEF JInv, Asked, Asks
<1>9. QED
  BY <1>6, <1>7, <1>8

LEMMA FailedFresh ==
    ASSUME JInv, NEW c \in Calls, SessionRefused(c) \/ CallFails(c)
    PROVE  \A s \in Tabs : (s \notin mixed' => Fresh(s)') /\ Asked(s)'
<1>1. CallsOK /\ ShownOK /\ RestOK /\ CallTypes
  BY Types DEF JInv, IInv
<1>2. PICK t \in Tabs : t = tab[c] /\ step[c] # "idle"
  BY <1>1 DEF CallTypes, SessionRefused, CallFails
<1>3. /\ \A s \in Tabs \ {t} : session'[s] = session[s] /\ role'[s] = role[s]
      /\ mixed \subseteq mixed'
      /\ UNCHANGED <<cookie, org, header, page, behind>>
  BY <1>1, <1>2 DEF SessionRefused, CallFails, NoSession, shown, server, ShownOK
<1>4. /\ step'[c] = "idle"
      /\ \A d \in Calls \ {c} :
           /\ step'[d] = step[d] /\ tab'[d] = tab[d] /\ who'[d] = who[d]
           /\ sent'[d] = sent[d] /\ data'[d] = data[d]
      /\ Auth(t)' = Auth(t) \ {c}
  BY <1>1, FinishedCalls DEF SessionRefused, CallFails
<1>5. ASSUME NEW s \in Tabs \ {t}
      PROVE  (s \notin mixed' => Fresh(s)') /\ Asked(s)'
  BY <1>2, <1>3, <1>4, OtherTab DEF Auth, InFlight
<1>6. ASSUME t \notin mixed'
      PROVE  Fresh(t)'
  <2>1. t \notin mixed /\ SessionRefused(c)
    BY <1>2, <1>3, <1>6 DEF CallFails
  <2>2. c \in Auth(t) /\ Loads(c) /\ who[c] = None
    BY <1>2, <2>1 DEF SessionRefused, Auth, InFlight, Loads
  <2>3. Auth(t)' = {} /\ cookie = None
    BY <1>4, <2>1, <2>2 DEF JInv, Fresh
  <2>4. session'[t] = None /\ role'[t] = FALSE
    BY <1>1, <1>2, <2>1 DEF SessionRefused, NoSession, ShownOK
  <2>5. QED
    BY <1>3, <2>3, <2>4 DEF Fresh
<1>7. Asked(t)'
  BY <1>3, <1>4 DEF JInv, Asked, Asks
<1>8. QED
  BY <1>5, <1>6, <1>7

LEMMA PageLoadedFresh ==
    ASSUME JInv, NEW c \in Calls, PageLoaded(c)
    PROVE  \A s \in Tabs : (s \notin mixed' => Fresh(s)') /\ Asked(s)'
<1>1. CallsOK /\ ShownOK /\ RestOK /\ CallTypes
  BY Types DEF JInv, IInv
<1>2. PICK t \in Tabs, o \in Orgs : t = tab[c] /\ data[c] = {o} /\ step[c] = "asked"
  BY <1>1 DEF CallTypes, PageLoaded
<1>3. /\ page'[t] = o /\ \A s \in Tabs \ {t} : page'[s] = page[s]
      /\ UNCHANGED <<cookie, role, session, org, header, mixed, behind>>
  <2>1. (CHOOSE x \in Orgs : data[c] = {x}) = o
    BY <1>2
  <2>2. QED
    BY <1>1, <1>2, <2>1 DEF PageLoaded, shown, server, RestOK
<1>4. /\ step'[c] = "idle"
      /\ \A d \in Calls \ {c} :
           /\ step'[d] = step[d] /\ tab'[d] = tab[d] /\ who'[d] = who[d]
           /\ sent'[d] = sent[d] /\ data'[d] = data[d]
      /\ \A s \in Tabs : Auth(s)' = Auth(s) \ {c}
  BY <1>1, FinishedCalls DEF PageLoaded
<1>5. \A s \in Tabs : Auth(s)' = Auth(s)
  BY <1>2, <1>4 DEF Auth
<1>6. ASSUME NEW s \in Tabs, s \notin mixed'
      PROVE  Fresh(s)'
  <2>1. c \notin Auth(s) /\ Fresh(s)
    BY <1>2, <1>3, <1>6 DEF JInv, Auth
  <2>2. \A d \in Auth(s) : who'[d] = who[d] /\ (Loads(d)' <=> Loads(d))
    BY <1>4, <2>1 DEF Auth, InFlight, Loads
  <2>3. QED
    BY <1>3, <1>5, <2>1, <2>2 DEF Fresh
<1>7. ASSUME NEW s \in Tabs
      PROVE  Asked(s)'
  <2>1. Asked(s)
    BY DEF JInv
  <2>2. s = t /\ s \notin behind => o = org[s] \/ org[s] = None
    BY <1>2, <2>1 DEF Asked, Asks
  <2>3. page'[s] = page[s] \/ (s = t /\ page'[s] = o)
    BY <1>3
  <2>4. \A d \in Calls : Asks(d)' => d # c /\ Asks(d)
    BY <1>4 DEF Asks
  <2>5. QED
    BY <1>3, <1>4, <2>1, <2>2, <2>3, <2>4 DEF Asked
<1>8. QED
  BY <1>6, <1>7

\* A page that is opened asks for the organization of its tab.
LEMMA OpenPageFresh ==
    ASSUME JInv, NEW c \in Calls, NEW t \in Tabs, OpenPage(c, t)
    PROVE  \A s \in Tabs : (s \notin mixed' => Fresh(s)') /\ Asked(s)'
<1>1. CallsOK /\ ShownOK /\ RestOK
  BY Types DEF JInv, IInv
<1> DEFINE left == {d \in InFlight(t) : step[d] \in {"ask", "asked"}}
<1>2. /\ step' = [d \in Calls |-> IF d = c THEN "ask" ELSE IF d \in left THEN "idle" ELSE step[d]]
      /\ tab' = [d \in Calls |-> IF d = c THEN t ELSE IF d \in left THEN None ELSE tab[d]]
      /\ who' = [d \in Calls |-> IF d = c THEN cookie ELSE IF d \in left THEN None ELSE who[d]]
      /\ sent' = [d \in Calls |-> IF d = c THEN header[t] ELSE IF d \in left THEN None ELSE sent[d]]
      /\ data' = [d \in Calls |-> IF d = c \/ d \in left THEN {} ELSE data[d]]
      /\ step[c] = "idle" \/ c \in left
  BY DEF OpenPage
<1>3. /\ page'[t] = None /\ \A s \in Tabs \ {t} : page'[s] = page[s]
      /\ behind' = behind \ {t}
      /\ UNCHANGED <<cookie, role, session, org, header, mixed>>
  BY <1>1 DEF OpenPage, shown, server, RestOK
<1>4. \A d \in Calls : d \in left <=> step[d] \in {"ask", "asked"} /\ tab[d] = t
  BY DEF InFlight
<1> HIDE DEF left
<1>5. \A s \in Tabs : Auth(s)' = Auth(s)
  BY <1>2, <1>4 DEF Auth, InFlight
<1>6. ASSUME NEW s \in Tabs, s \notin mixed'
      PROVE  Fresh(s)'
  <2>1. Fresh(s)
    BY <1>3, <1>6 DEF JInv
  <2>2. \A d \in Auth(s) : who'[d] = who[d] /\ (Loads(d)' <=> Loads(d))
    BY <1>2, <1>4 DEF Auth, InFlight, Loads
  <2>3. QED
    BY <1>3, <1>5, <2>1, <2>2 DEF Fresh
<1>7. ASSUME NEW s \in Tabs \ {t}
      PROVE  Asked(s)'
  <2>1. \A d \in Calls : Asks(d)' /\ tab'[d] = s =>
          Asks(d) /\ tab[d] = s /\ step'[d] = step[d] /\ sent'[d] = sent[d] /\ data'[d] = data[d]
    BY <1>2 DEF Asks
  <2>2. Asked(s)
    BY DEF JInv
  <2>3. QED
    BY <1>3, <2>1, <2>2 DEF Asked
<1>8. Asked(t)'
  <2>1. Asked(t)
    BY DEF JInv
  <2>2. \A d \in Calls : Asks(d)' /\ tab'[d] = t => step'[d] = "ask" /\ sent'[d] = header[t]
    BY <1>2, <1>4 DEF Asks
  <2>3. QED
    BY <1>3, <2>1, <2>2 DEF Asked
<1>9. QED
  BY <1>6, <1>7, <1>8

LEMMA SwitchFresh ==
    ASSUME JInv, NEW t \in Tabs, NEW o \in Orgs, Switch(t, o)
    PROVE  \A s \in Tabs : (s \notin mixed' => Fresh(s)') /\ Asked(s)'
<1>1. ShownOK
  BY Types DEF JInv, IInv
<1>2. /\ org'[t] = o /\ header'[t] = o /\ (t \notin behind' => o = org[t])
      /\ \A s \in Tabs \ {t} : org'[s] = org[s] /\ header'[s] = header[s]
      /\ behind \subseteq behind'
      /\ UNCHANGED <<cookie, role, session, page, step, tab, who, sent, data, mixed>>
  BY <1>1 DEF Switch, Choose, ShownOK, server, calls
<1>3. ASSUME NEW s \in Tabs, s \notin mixed'
      PROVE  Fresh(s)'
  BY <1>2, <1>3 DEF JInv, Fresh, Auth, InFlight, Loads
<1>4. ASSUME NEW s \in Tabs
      PROVE  Asked(s)'
  BY <1>2 DEF JInv, Asked, Asks
<1>5. QED
  BY <1>3, <1>4

LEMMA OutsideFresh ==
    ASSUME JInv,
           \/ \E u \in Users, o \in Orgs : TeamChanges(u, o)
           \/ CookieChanges
    PROVE  \A s \in Tabs : (s \notin mixed' => Fresh(s)') /\ Asked(s)'
<1>1. UNCHANGED <<role, session, org, header, page, step, tab, who, sent, data, behind>>
  BY DEF TeamChanges, CookieChanges, shown, calls
<1>2. mixed' = Tabs \/ UNCHANGED <<cookie, mixed>>
  BY DEF TeamChanges, CookieChanges
<1>3. ASSUME NEW s \in Tabs, s \notin mixed'
      PROVE  Fresh(s)'
  BY <1>1, <1>2, <1>3 DEF JInv, Fresh, Auth, InFlight, Loads
<1>4. ASSUME NEW s \in Tabs
      PROVE  Asked(s)'
  BY <1>1 DEF JInv, Asked, Asks
<1>5. QED
  BY <1>3, <1>4

LEMMA InitJInv == Init => JInv
<1> SUFFICES ASSUME Init PROVE JInv
  OBVIOUS
<1>1. IInv
  BY InitIInv
<1>2. \A t \in Tabs : Fresh(t) /\ Asked(t)
  BY DEF Init, Fresh, Asked, Auth, InFlight, Loads, Asks
<1>3. QED
  BY <1>1, <1>2 DEF JInv

LEMMA NextJInv ==
    ASSUME JInv, [Next]_vars
    PROVE  JInv'
<1>1. IInv'
  BY NextIInv DEF JInv
<1>2. \A s \in Tabs : (s \notin mixed' => Fresh(s)') /\ Asked(s)'
  <2>1. CASE UNCHANGED vars
    <3>1. UNCHANGED <<cookie, role, session, org, header, page, step, tab, who, sent, data,
                      mixed, behind>>
      BY <2>1 DEF vars, server, shown, calls
    <3>2. QED
      BY <3>1 DEF JInv, Fresh, Asked, Auth, InFlight, Loads, Asks
  <2>2. ASSUME NEW c \in Calls,
               \/ LoggedIn(c) \/ LoggedOut(c) \/ PasswordSet(c)
               \/ ServeSession(c) \/ SessionLoaded(c) \/ SessionRefused(c) \/ CallFails(c)
               \/ ServePage(c) \/ PageLoaded(c)
        PROVE  \A s \in Tabs : (s \notin mixed' => Fresh(s)') /\ Asked(s)'
    BY <2>2, LoggedInFresh, LoggedOutFresh, LoadsFresh, ServedFresh, SessionLoadedFresh,
       FailedFresh, PageLoadedFresh
  <2>3. ASSUME NEW c \in Calls, NEW t \in Tabs,
               \/ Logout(c, t) \/ Reload(c, t) \/ RefreshSession(c, t) \/ OpenPage(c, t)
               \/ \E u \in Users : Login(c, t, u) \/ SetPassword(c, t, u)
        PROVE  \A s \in Tabs : (s \notin mixed' => Fresh(s)') /\ Asked(s)'
    BY <2>3, SentFresh, LoadsFresh, OpenPageFresh
  <2>4. QED
    BY <2>1, <2>2, <2>3, SwitchFresh, OutsideFresh DEF Next
<1>3. QED
  BY <1>1, <1>2 DEF JInv

LEMMA AlwaysJInv == Spec => []JInv
<1>1. JInv /\ [Next]_vars => JInv'
  BY NextJInv
<1>2. QED
  BY <1>1, InitJInv, PTL DEF Spec

\* A tab at rest shows the account of the cookie, unless its calls overlapped, one was
\* lost or the cookie was changed elsewhere (AuthContext.tsx:67-70, 109-115).
THEOREM QuietTabsShowTheCookie == Spec => []QuietTabShowsCookie
<1>1. JInv => QuietTabShowsCookie
  BY DEF JInv, Fresh, QuietTabShowsCookie
<1>2. QED
  BY <1>1, AlwaysJInv, PTL

\* A page shows rows of the organization its tab shows until another one is selected
\* (DashboardPage.tsx:22-26).
THEOREM PagesFollowTheOrganization == Spec => []PageFollowsOrganization
<1>1. JInv => PageFollowsOrganization
  BY DEF JInv, Asked, PageFollowsOrganization
<1>2. QED
  BY <1>1, AlwaysJInv, PTL
=============================================================================
