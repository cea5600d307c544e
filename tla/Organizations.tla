---------------------------- MODULE Organizations ----------------------------
(***************************************************************************)
(* Registration with the provisioning of a new organization, and the team of   *)
(* an organization that exists: invitations, edits and removals of members     *)
(* (accounts/serializers.py, organizations/services.py and views.py).  None of *)
(* it is a transaction: each statement commits on its own, handlers overlap    *)
(* and may die between two statements.                                         *)
(***************************************************************************)
EXTENDS Naturals, Sequences, FiniteSets

CONSTANTS
    Requests,       \* requests to register, invite, edit or remove somebody
    People,         \* people, told apart by e-mail address or phone number
    Limit,          \* team_members of the plan
    FreeLimit,      \* team_members of the free plan, in force once the period is over
    LongNames,      \* bound: the names, besides short ones, that registrations come with
    MaxCrashes,     \* bound: handlers that die
    None

ASSUME OrganizationsAssumption ==
    /\ IsFiniteSet(Requests) /\ IsFiniteSet(People)
    /\ Limit \in Nat /\ FreeLimit \in 1..Limit      \* 0 would be no limit
    /\ LongNames \subseteq {"slug_full", "slug_over", "sender_over"}
    /\ MaxCrashes \in Nat

\* OrganizationMembership; "member" stands for every role but owner.
Row == [id : Nat, role : {"owner", "member"}, active : BOOLEAN]

\* What provision_organization gives an organization, in this order.
Provisioning == <<"owner", "branding", "profile", "mail", "subscription", "templates", "types">>
\* Parts an organization has one of, by a constraint; of the e-mail templates, the one
\* that provisioning inserts.
SingleRows == {"profile", "mail"}
Unique == {"branding"} \cup SingleRows
Parts == {Provisioning[i] : i \in DOMAIN Provisioning}

ASSUME NoneAssumption == None \notin Row /\ \A parts \in SUBSET Parts : None # parts

\* What a registration calls its organization, as far as the widths of the columns tell
\* names apart: "slug_full" has a slug with no room left for a number, "slug_over" is too
\* long for the slug and "sender_over" for email_from_name.
Names == {"short"} \cup LongNames

\* What each kind of request still does after its first look at the database.
Script == [ register |-> <<"account", "slug", "organization">> \o Provisioning,
            invite   |-> <<"lookup", "account", "join">>,
            remove   |-> <<"remove">>,
            edit     |-> <<"save">> ]

Steps == {"account", "slug", "organization", "lookup", "join", "revive", "remove", "save"} \cup Parts

VARIABLES
    users,          \* people who have an account
    team,           \* per person: the membership row of the organization, or None
    made,           \* per person: the number of membership rows inserted so far
    limit,          \* team_members in force
    org,            \* per registration: what its organization has got, or None
    name,           \* per registration: the name of its organization
    slug,           \* per registration: the number in the slug it chose, 0 before
    kind, who, copy, todo, \* per request: what it is, whom it is for, the row it read, steps left
    crashes,
    \* history
    edited,         \* a membership was edited
    extra,          \* edits that added an active member
    joint,          \* invitations that counted while another one was still to insert
    raced,          \* two removals of owners passed the check before either deleted
    slugRaced,      \* a registration lost its slug to another one
    visited,        \* settings were opened before provisioning had got there
    removed         \* people whose membership was deleted

vars == <<users, team, made, limit, org, name, slug, kind, who, copy, todo, crashes,
          edited, extra, joint, raced, slugRaced, visited, removed>>

history == <<edited, extra, joint, raced, slugRaced, visited, removed>>

TypeOK ==
    /\ users \subseteq People
    /\ team \in [People -> Row \cup {None}]
    /\ made \in [People -> Nat]
    /\ limit \in {Limit, FreeLimit}
    /\ org \in [Requests -> (SUBSET Parts) \cup {None}]
    /\ name \in [Requests -> Names]
    /\ slug \in [Requests -> Nat]
    /\ kind \in [Requests -> DOMAIN Script \cup {"new", "ended"}]
    /\ who \in [Requests -> People \cup {None}]
    /\ copy \in [Requests -> Row \cup {None}]
    /\ todo \in [Requests -> Seq(Steps)]
    /\ crashes \in 0..MaxCrashes
    /\ edited \in BOOLEAN /\ extra \in Nat /\ joint \in Nat /\ raced \in BOOLEAN
    /\ slugRaced \in BOOLEAN /\ visited \in BOOLEAN /\ removed \subseteq People

Members(t) == {p \in People : t[p] # None}
ActiveMembers(t) == {p \in Members(t) : t[p].active}
Owners(t) == {p \in ActiveMembers(t) : t[p].role = "owner"}

Init ==
    /\ team \in [People -> {None} \cup [id : {1}, role : {"owner", "member"}, active : BOOLEAN]]
    /\ Owners(team) # {} /\ Cardinality(ActiveMembers(team)) <= Limit
    /\ users = Members(team)
    /\ made = [p \in People |-> IF p \in users THEN 1 ELSE 0]
    /\ limit = Limit
    /\ org = [q \in Requests |-> None]
    /\ name = [q \in Requests |-> "short"]
    /\ slug = [q \in Requests |-> 0]
    /\ kind = [q \in Requests |-> "new"]
    /\ who = [q \in Requests |-> None]
    /\ copy = [q \in Requests |-> None]
    /\ todo = [q \in Requests |-> <<>>]
    /\ crashes = 0
    /\ edited = FALSE /\ extra = 0 /\ joint = 0 /\ raced = FALSE
    /\ slugRaced = FALSE /\ visited = FALSE /\ removed = {}

-----------------------------------------------------------------------------
(* Handlers                                                                  *)

Active(q) == todo[q] # <<>>
Busy == {q \in Requests : Active(q)}
Inviting == {q \in Busy : kind[q] = "invite"}
At(q, step) == Active(q) /\ Head(todo[q]) = step

Finish(q) ==
    /\ kind' = [kind EXCEPT ![q] = "ended"]
    /\ copy' = [copy EXCEPT ![q] = None]
    /\ todo' = [todo EXCEPT ![q] = <<>>]

Proceed(q) ==
    IF Len(todo[q]) = 1 THEN Finish(q)
                        ELSE todo' = [todo EXCEPT ![q] = Tail(@)] /\ UNCHANGED <<kind, copy>>

Begin(q, k, p, read) ==
    /\ kind[q] = "new"
    /\ kind' = [kind EXCEPT ![q] = k]
    /\ who' = [who EXCEPT ![q] = p]
    /\ copy' = [copy EXCEPT ![q] = read]
    /\ todo' = [todo EXCEPT ![q] = Script[k]]
    /\ UNCHANGED <<users, team, made, limit, org, slug, crashes, edited, extra, slugRaced,
                   visited, removed>>

\* RegisterSerializer.validate: nobody has the address yet.
BeginRegister(q, p) ==
    /\ p \notin users /\ Begin(q, "register", p, None)
    /\ \E n \in Names : name' = [name EXCEPT ![q] = n]
    /\ UNCHANGED <<joint, raced>>

\* Mutant: the seat that is asked for is not counted.
SeatLeftOffByOne(t) == limit = 0 \/ Cardinality(ActiveMembers(t)) <= limit

SeatLeft(t) == limit = 0 \/ Cardinality(ActiveMembers(t)) < limit

\* invite_member, up to the count of the members.
BeginInvite(q, p) ==
    /\ SeatLeft(team)
    /\ Begin(q, "invite", p, None)
    /\ joint' = IF Inviting # {} THEN joint + 1 ELSE joint
    /\ UNCHANGED <<name, raced>>

\* Mutant: any owner may go as long as there is one.
MayRemoveAnyOwner(t, row) == row.role = "owner" => Owners(t) # {}

\* perform_destroy: the role is that of the row read, the owners are counted.
MayRemove(t, row) == row.role = "owner" => Cardinality(Owners(t)) > 1

BeginRemove(q, p) ==
    /\ team[p] # None /\ MayRemove(team, team[p])
    /\ Begin(q, "remove", p, team[p])
    /\ raced' = (raced \/ (team[p].role = "owner"
                   /\ \E r \in Requests : At(r, "remove") /\ copy[r].role = "owner"))
    /\ UNCHANGED <<name, joint>>

BeginEdit(q, p) ==
    team[p] # None /\ Begin(q, "edit", p, team[p]) /\ UNCHANGED <<name, joint, raced>>

-----------------------------------------------------------------------------
(* Registration and provisioning                                             *)

\* invite_member looks for the account, which it may not have to create.
LookUp(q) ==
    /\ At(q, "lookup")
    /\ todo' = [todo EXCEPT ![q] = IF who[q] \in users THEN <<"join">> ELSE Tail(@)]
    /\ UNCHANGED <<users, team, made, limit, org, name, slug, kind, who, copy, crashes, history>>

\* create_user: the address is unique, so the second of two fails.
CreateAccount(q) ==
    /\ At(q, "account")
    /\ IF who[q] \in users THEN Finish(q) ELSE Proceed(q)
    /\ users' = users \cup {who[q]}
    /\ UNCHANGED <<team, made, limit, org, name, slug, who, crashes, history>>

\* The numbers in the table of the slugs that come from a name.
Taken(n) == {slug[r] : r \in {s \in Requests : org[s] # None /\ name[s] = n}}

\* unique_slug: the first free number.
ChooseSlug(q) ==
    /\ At(q, "slug")
    /\ slug' = [slug EXCEPT ![q] = CHOOSE i \in 1..Cardinality(Requests) :
                                      /\ i \notin Taken(name[q])
                                      /\ \A j \in 1..(i - 1) : j \in Taken(name[q])]
    /\ Proceed(q)
    /\ UNCHANGED <<users, team, made, limit, org, name, who, crashes, history>>

\* The slug, with its number from the second on, is no wider than its column.
SlugFits(q) == name[q] # "slug_over" /\ (name[q] = "slug_full" => slug[q] = 1)

\* The slug is unique too: whoever comes second fails, and so does whoever chose a slug
\* that does not fit, both with an account but without an organization.
CreateOrganization(q) ==
    /\ At(q, "organization")
    /\ IF SlugFits(q) /\ slug[q] \notin Taken(name[q])
       THEN Proceed(q) /\ org' = [org EXCEPT ![q] = {}] /\ UNCHANGED slugRaced
       ELSE Finish(q) /\ slugRaced' = (slugRaced \/ SlugFits(q)) /\ UNCHANGED org
    /\ UNCHANGED <<users, team, made, limit, name, slug, who, crashes, edited, extra, joint,
                   raced, visited, removed>>

\* Mutant: the organization has got templates, so provisioning is done.
ProvisionUntilSeeded(q) ==
    /\ Active(q) /\ Head(todo[q]) \in Parts
    /\ org' = [org EXCEPT ![q] = @ \cup {Head(todo[q])}]
    /\ IF Head(todo[q]) = "templates" THEN Finish(q) ELSE Proceed(q)
    /\ UNCHANGED <<users, team, made, limit, name, slug, who, crashes, history>>

\* The organization's name is that of the sender of its e-mails, in a narrower column.
SenderFits(q) == name[q] # "sender_over"

\* A part that its table refuses: there is one already, or the name does not fit.
Refused(q, part) == part \in org[q] \cap Unique \/ (part = "branding" /\ ~SenderFits(q))

\* One more part, or the end of provisioning where it is refused; templates are seeded
\* only when there are none.
Provision(q) ==
    /\ Active(q) /\ Head(todo[q]) \in Parts
    /\ IF Refused(q, Head(todo[q]))
       THEN Finish(q) /\ UNCHANGED org
       ELSE Proceed(q) /\ org' = [org EXCEPT ![q] = @ \cup {Head(todo[q])}]
    /\ UNCHANGED <<users, team, made, limit, name, slug, who, crashes, history>>

\* BrandingView and PublicProfileView create what is missing (get_or_create), and e-mail
\* and certificate templates can be saved, all while the registration still runs.
Visit(q, part) ==
    /\ org[q] # None /\ "owner" \in org[q] /\ part \notin org[q]
    /\ org' = [org EXCEPT ![q] = @ \cup {part}]
    /\ visited' = (visited \/ Active(q))
    /\ UNCHANGED <<users, team, made, limit, name, slug, kind, who, copy, todo, crashes,
                   edited, extra, joint, raced, slugRaced, removed>>

-----------------------------------------------------------------------------
(* The team                                                                  *)

NewRow(p) == [id |-> made[p] + 1, role |-> "member", active |-> TRUE]

\* get_or_create of the membership: a new row, an active one (refused) or one to revive.
Join(q) ==
    LET p == who[q] IN
    /\ At(q, "join")
    /\ \/ /\ team[p] = None
          /\ team' = [team EXCEPT ![p] = NewRow(p)]
          /\ made' = [made EXCEPT ![p] = @ + 1]
          /\ Finish(q)
       \/ /\ team[p] # None /\ team[p].active
          /\ Finish(q) /\ UNCHANGED <<team, made>>
       \/ /\ team[p] # None /\ ~team[p].active
          /\ copy' = [copy EXCEPT ![q] = team[p]]
          /\ todo' = [todo EXCEPT ![q] = <<"revive">>]
          /\ UNCHANGED <<team, made, kind>>
    /\ UNCHANGED <<users, limit, org, name, slug, who, crashes, history>>

\* The row the handler read is still in the table.
StillThere(q) == team[who[q]] # None /\ team[who[q]].id = copy[q].id

\* The columns is_active and role are saved, which fails when the row is gone.
Revive(q) ==
    /\ At(q, "revive")
    /\ team' = IF StillThere(q) THEN [team EXCEPT ![who[q]] = [@ EXCEPT !.active = TRUE, !.role = "member"]]
                                ELSE team
    /\ Finish(q)
    /\ UNCHANGED <<users, made, limit, org, name, slug, who, crashes, history>>

\* instance.delete(), by primary key.
Remove(q) ==
    /\ At(q, "remove")
    /\ IF StillThere(q) THEN /\ team' = [team EXCEPT ![who[q]] = None]
                             /\ removed' = removed \cup {who[q]}
                        ELSE UNCHANGED <<team, removed>>
    /\ Finish(q)
    /\ UNCHANGED <<users, made, limit, org, name, slug, who, crashes, edited, extra, joint,
                   raced, slugRaced, visited>>

\* PUT and PATCH write every column of the row they read; a row that is gone is inserted
\* again under its old key, unless the person has got a new one.
Save(q) ==
    LET p == who[q] IN
    /\ At(q, "save")
    /\ \E r \in {"owner", "member"}, a \in BOOLEAN :
         IF StillThere(q) \/ team[p] = None
         THEN /\ team' = [team EXCEPT ![p] = [copy[q] EXCEPT !.role = r, !.active = a]]
              /\ edited' = TRUE
              /\ extra' = IF a /\ p \notin ActiveMembers(team) THEN extra + 1 ELSE extra
         ELSE UNCHANGED <<team, edited, extra>>
    /\ Finish(q)
    /\ UNCHANGED <<users, made, limit, org, name, slug, who, crashes, joint, raced,
                   slugRaced, visited, removed>>

-----------------------------------------------------------------------------

Crash(q) ==
    /\ Active(q) /\ crashes < MaxCrashes
    /\ crashes' = crashes + 1
    /\ Finish(q)
    /\ UNCHANGED <<users, team, made, limit, org, name, slug, who, history>>

\* The period ends, or a plan is bought again.
PlanChanges ==
    /\ limit' \in {Limit, FreeLimit} \ {limit}
    /\ UNCHANGED <<users, team, made, org, name, slug, kind, who, copy, todo, crashes, history>>

Next ==
    \/ \E q \in Requests :
         \/ \E p \in People : BeginRegister(q, p) \/ BeginInvite(q, p) \/ BeginRemove(q, p) \/ BeginEdit(q, p)
         \/ LookUp(q) \/ CreateAccount(q) \/ ChooseSlug(q) \/ CreateOrganization(q) \/ Provision(q)
         \/ Join(q) \/ Revive(q) \/ Remove(q) \/ Save(q) \/ Crash(q)
         \/ \E part \in Unique \cup {"templates"} : Visit(q, part)
    \/ PlanChanges

Spec == Init /\ [][Next]_vars

-----------------------------------------------------------------------------
(* Properties                                                                *)

\* The active members exceed the plan's limit by no more than the invitations that
\* counted them while another was still to insert its own (services.py:126), and the
\* members that an edit made active without looking at the limit (serializers.py:59).
MembersWithinLimit == Cardinality(ActiveMembers(team)) <= Limit + joint + extra

\* The organization keeps an active owner unless two owners are removed at once
\* (views.py:105 counts before it deletes) or a membership is edited.
OwnerRemains == Owners(team) = {} => raced \/ edited

\* Once registrations have ended and no handler died: an organization has every part,
\* unless its settings were opened while it was being built or its name is too long for
\* the sender's (services.py:35, :40), and whoever got an account is in an organization,
\* unless two registrations chose one slug, the slug did not fit (services.py:25,
\* models.py:22) or the membership was deleted.
RegistrationIsWhole ==
    Busy = {} /\ crashes = 0 =>
        /\ visited \/ \A q \in Requests : SenderFits(q) => org[q] \in {None, Parts}
        /\ slugRaced \/ \A p \in users :
             \/ p \in removed \/ team[p] # None
             \/ \E q \in Requests : /\ who[q] = p
                                    /\ ~SlugFits(q) \/ (org[q] # None /\ "owner" \in org[q])
=============================================================================
