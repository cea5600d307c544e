-------------------------- MODULE CertificateLife --------------------------
(***************************************************************************)
(* A certificate after it was issued: it is verified by the public, down-      *)
(* loaded, e-mailed, revoked, edited and deleted (certificates/views.py,       *)
(* api_v1.py, services.py and tasks.py).  Only a revocation is a transaction;  *)
(* every other handler reads the row, commits statement after statement and    *)
(* writes back values it computed from what it read.  Handlers overlap and     *)
(* may die between two statements.                                             *)
(***************************************************************************)
EXTENDS Naturals, Sequences, FiniteSets

CONSTANTS
    Handlers,       \* requests and e-mail tasks for the certificate
    MaxDeaths,     \* bound: handlers that die
    None

ASSUME LifeAssumption == IsFiniteSet(Handlers) /\ MaxDeaths \in Nat /\ None \notin STRING

Statuses == {"draft", "issued", "expired", "revoked", "void"}

\* The columns of the row the handlers write.
Row == [status : Statuses, content : {"as issued", "changed"}, views : Nat, downloads : Nat]

\* What each kind of request still does once it has read the row; an edit that sends a
\* status is "restate".
Script == [ verify |-> <<"record", "count", "event", "usage", "tell">>,
            search |-> <<"answer">>,
            pdf    |-> <<"count", "event">>,
            mail   |-> <<"send", "event", "usage", "tell">>,
            revoke |-> <<"revoke", "tell">>,
            edit   |-> <<"save">>,
            restate |-> <<"save">>,
            delete |-> <<"delete">> ]

Kinds == DOMAIN Script

HandlerSteps == {"record", "count", "event", "usage", "tell", "answer", "send", "revoke", "save", "delete"}

VARIABLES
    row,            \* the Certificate row
    exists,         \* it is in the table
    expired,        \* its expiry_date is past
    kind, copy, todo, \* per request: what it is, the row it read, the steps left
    events,         \* CertificateEvent rows by kind
    usage,          \* UsageRecord: verification_views, emails_sent
    told,           \* webhook events dispatched
    acts,           \* VerificationEvent rows; e-mails given to the provider
    deaths,
    \* history
    late,           \* requests that began when the certificate was revoked
    shown,          \* the status a verification or a search showed
    edited, deleted, crossed

lifeVars == <<row, exists, expired, kind, copy, todo, events, usage, told, acts, deaths,
              late, shown, edited, deleted, crossed>>

LifeTypeOK ==
    /\ row \in Row
    /\ exists \in BOOLEAN /\ expired \in BOOLEAN
    /\ kind \in [Handlers -> Kinds \cup {"new", "ended"}]
    /\ copy \in [Handlers -> Row \cup {None}]
    /\ todo \in [Handlers -> Seq(HandlerSteps)]
    /\ events \in [{"verify", "pdf", "mail", "revoke"} -> Nat]
    /\ usage \in [{"verify", "mail"} -> Nat]
    /\ told \in [{"verify", "mail", "revoke"} -> Nat]
    /\ acts \in [{"verify", "mail"} -> Nat]
    /\ deaths \in 0..MaxDeaths
    /\ late \subseteq Handlers
    /\ shown \in [Handlers -> {"revoked", "void", "draft", "expired", "active", None}]
    /\ edited \in BOOLEAN /\ deleted \in BOOLEAN /\ crossed \in BOOLEAN

LifeInit ==
    /\ row = [status |-> "issued", content |-> "as issued", views |-> 0, downloads |-> 0]
    /\ exists = TRUE /\ expired = FALSE
    /\ kind = [q \in Handlers |-> "new"]
    /\ copy = [q \in Handlers |-> None]
    /\ todo = [q \in Handlers |-> <<>>]
    /\ events = [k \in {"verify", "pdf", "mail", "revoke"} |-> 0]
    /\ usage = [k \in {"verify", "mail"} |-> 0]
    /\ told = [k \in {"verify", "mail", "revoke"} |-> 0]
    /\ acts = [k \in {"verify", "mail"} |-> 0]
    /\ deaths = 0
    /\ late = {} /\ shown = [q \in Handlers |-> None]
    /\ edited = FALSE /\ deleted = FALSE /\ crossed = FALSE

\* Mutant: the date is looked at first.
ExpiryFirst(r) == IF expired THEN "expired" ELSE IF r.status = "issued" THEN "active" ELSE r.status

\* No code writes the status "expired", but an edit may send it.
PublicStatus(r) ==
    IF r.status \in {"revoked", "void", "draft"} THEN r.status
    ELSE IF expired THEN "expired"
    ELSE IF r.status = "issued" THEN "active" ELSE r.status

-----------------------------------------------------------------------------
(* Steps of a handler                                                        *)

Running(q) == todo[q] # <<>>
At(q, step) == Running(q) /\ Head(todo[q]) = step

\* The handler has read the row (get_object, filter(...).first()).
Read(q, k) ==
    /\ kind[q] = "new" /\ exists
    /\ kind' = [kind EXCEPT ![q] = k]
    /\ copy' = [copy EXCEPT ![q] = row]
    /\ todo' = [todo EXCEPT ![q] = Script[k]]
    /\ late' = IF row.status = "revoked" THEN late \cup {q} ELSE late
    /\ crossed' = (crossed \/ \E p \in Handlers : Running(p))
    /\ UNCHANGED <<row, exists, expired, events, usage, told, acts, deaths, shown, edited, deleted>>

Finish(q) ==
    /\ kind' = [kind EXCEPT ![q] = "ended"]
    /\ copy' = [copy EXCEPT ![q] = None]
    /\ todo' = [todo EXCEPT ![q] = <<>>]

\* The next step; a verification and a search are answered with the status of the
\* row they read.
Proceed(q) ==
    IF Len(todo[q]) = 1
    THEN /\ Finish(q)
         /\ shown' = IF kind[q] \in {"verify", "search"}
                       THEN [shown EXCEPT ![q] = PublicStatus(copy[q])] ELSE shown
    ELSE todo' = [todo EXCEPT ![q] = Tail(@)] /\ UNCHANGED <<kind, copy, shown>>

Fail(q) == Finish(q) /\ UNCHANGED shown

history == <<late, edited, deleted, crossed>>
rest    == <<expired, deaths, late, edited, crossed>>

\* PublicVerifySearchView finds the row by its number and writes nothing; an organization
\* that has switched the search off is left out.
Answer(q) ==
    /\ At(q, "answer")
    /\ Proceed(q)
    /\ UNCHANGED <<row, exists, events, usage, told, acts, deleted, rest>>

\* PublicVerifyView writes a VerificationEvent, send_certificate_email sends.
Act(q) ==
    /\ At(q, "record") \/ At(q, "send")
    /\ acts' = [acts EXCEPT ![kind[q]] = @ + 1]
    /\ Proceed(q)
    /\ UNCHANGED <<row, exists, events, usage, told, deleted, rest>>

\* Mutant: the view and the verification are counted in one column.
BumpTwice(r, k, old) == IF k = "verify" THEN [r EXCEPT !.views = old.views + 2]
                                        ELSE [r EXCEPT !.downloads = old.downloads + 1]

Bump(r, k, old) == IF k = "verify" THEN [r EXCEPT !.views = old.views + 1]
                                   ELSE [r EXCEPT !.downloads = old.downloads + 1]

\* Mutant: the save names no columns, so it writes all of them.
SaveCountAll(q) ==
    /\ At(q, "count")
    /\ exists' = TRUE /\ row' = Bump(copy[q], kind[q], copy[q])
    /\ Proceed(q)
    /\ UNCHANGED <<events, usage, told, acts, deleted, rest>>

\* The counter is incremented in Python and saved alone; saving named columns
\* of a row that is gone is an error.
SaveCount(q) ==
    /\ At(q, "count")
    /\ IF exists THEN row' = Bump(row, kind[q], copy[q]) /\ Proceed(q)
                 ELSE Fail(q) /\ UNCHANGED row
    /\ UNCHANGED <<exists, events, usage, told, acts, deleted, rest>>

\* The event refers to the row, so the insert fails when it is gone.
SaveEvent(q) ==
    /\ At(q, "event")
    /\ IF exists THEN events' = [events EXCEPT ![kind[q]] = @ + 1] /\ Proceed(q)
                 ELSE Fail(q) /\ UNCHANGED events
    /\ UNCHANGED <<row, exists, usage, told, acts, deleted, rest>>

CountUsage(q) ==
    /\ At(q, "usage")
    /\ usage' = [usage EXCEPT ![kind[q]] = @ + 1]
    /\ Proceed(q)
    /\ UNCHANGED <<row, exists, events, told, acts, deleted, rest>>

\* Mutant: the webhook is told before the usage is counted.
TellEarly(q) ==
    /\ At(q, "usage") \/ At(q, "tell")
    /\ told' = [told EXCEPT ![kind[q]] = @ + 1]
    /\ Proceed(q)
    /\ UNCHANGED <<row, exists, events, usage, acts, deleted, rest>>

\* dispatch_certificate_event; what follows is WebhookDelivery.
Tell(q) ==
    /\ At(q, "tell")
    /\ told' = [told EXCEPT ![kind[q]] = @ + 1]
    /\ Proceed(q)
    /\ UNCHANGED <<row, exists, events, usage, acts, deleted, rest>>

\* Mutant: the early return for a revoked certificate is gone.
RevokeAgain(q) ==
    /\ At(q, "revoke")
    /\ IF copy[q].status = "draft" \/ ~exists
       THEN Fail(q) /\ UNCHANGED <<row, events>>
       ELSE /\ row' = [row EXCEPT !.status = "revoked"]
            /\ events' = [events EXCEPT !["revoke"] = @ + 1]
            /\ Proceed(q)
    /\ UNCHANGED <<exists, usage, told, acts, deleted, rest>>

\* revoke_certificate, one transaction; the status it checks was read before.
Revoke(q) ==
    /\ At(q, "revoke")
    /\ IF copy[q].status \in {"revoked", "draft"} \/ ~exists
       THEN Fail(q) /\ UNCHANGED <<row, events>>
       ELSE /\ row' = [row EXCEPT !.status = "revoked"]
            /\ events' = [events EXCEPT !["revoke"] = @ + 1]
            /\ Proceed(q)
    /\ UNCHANGED <<exists, usage, told, acts, deleted, rest>>

\* PUT and PATCH: the serializer accepts any status, and the save writes every column
\* that was not sent as it was read; a row that is gone is inserted again.
Edit(q) ==
    /\ At(q, "save")
    /\ \E s \in IF kind[q] = "restate" THEN Statuses ELSE {copy[q].status},
          c \in {"changed", copy[q].content} :
         row' = [copy[q] EXCEPT !.status = s, !.content = c]
    /\ exists' = TRUE /\ edited' = TRUE
    /\ Proceed(q)
    /\ UNCHANGED <<expired, events, usage, told, acts, deaths, late, deleted, crossed>>

\* The events go with the row.
Delete(q) ==
    /\ At(q, "delete")
    /\ exists' = FALSE /\ deleted' = TRUE
    /\ events' = [k \in DOMAIN events |-> 0]
    /\ Proceed(q)
    /\ UNCHANGED <<row, usage, told, acts, rest>>

Die(q) ==
    /\ Running(q) /\ deaths < MaxDeaths
    /\ deaths' = deaths + 1
    /\ Fail(q)
    /\ UNCHANGED <<row, exists, expired, events, usage, told, acts, history>>

DayPasses ==
    /\ ~expired /\ expired' = TRUE
    /\ UNCHANGED <<row, exists, kind, copy, todo, events, usage, told, acts, deaths, shown, history>>

LifeNext ==
    \/ \E q \in Handlers :
         \/ \E k \in Kinds : Read(q, k)
         \/ Act(q) \/ Answer(q) \/ SaveCount(q) \/ SaveEvent(q) \/ CountUsage(q) \/ Tell(q)
         \/ Revoke(q) \/ Edit(q) \/ Delete(q) \/ Die(q)
    \/ DayPasses

LifeSpec == LifeInit /\ [][LifeNext]_lifeVars

-----------------------------------------------------------------------------
(* Properties                                                                *)

\* A revocation is undone only by a request that sends another status, or by an edit of
\* something else that overlapped it: one that read the row before and writes every column
\* back (views.py:147).  Counting a view or a download does not (views.py:237 and 499 save
\* named columns), nor does an edit that began after it, nor a deletion.
RevocationUndoneOnlyByEdit ==
    [][row.status = "revoked" /\ row'.status # "revoked" =>
          \E q \in Handlers : At(q, "save") /\ (kind[q] = "restate" \/ q \notin late)]_lifeVars

\* Revoking twice is answered without a second event, unless the two requests overlap
\* or an edit came between (services.py:179 checks a status read earlier).
RevokedOnce == events["revoke"] > 1 => crossed \/ edited

\* Whoever begins to verify or to search a revoked certificate is shown "revoked", also
\* when it expires or is edited meanwhile: the answer is made of the row that was read
\* (models.py:231, views.py:513).
RevokedIsShown ==
    \A q \in late : shown[q] # None => shown[q] = "revoked"

\* What a verification or an e-mail leaves behind is written in order: it is counted
\* as usage only with its event, and told to webhooks only when it was counted; nothing is
\* missing when no handler died and the row was never deleted (views.py:488-512,
\* tasks.py:169-180).
TrailInOrder ==
    ~deleted => \A k \in {"verify", "mail"} :
        /\ told[k] <= usage[k] /\ usage[k] <= events[k] /\ events[k] <= acts[k]
        /\ (\A q \in Handlers : ~Running(q)) /\ deaths = 0 => told[k] = acts[k]

\* Without overlap the counters on the row are exact; overlapping handlers lose
\* increments (views.py:237 and 499).
CountersExactAlone ==
    (\A q \in Handlers : ~Running(q)) /\ deaths = 0 /\ ~crossed /\ ~edited /\ ~deleted =>
        row.views = events["verify"] /\ row.downloads = events["pdf"]
=============================================================================
