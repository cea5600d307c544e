------------------------ MODULE OrganizationsProofs ------------------------
(***************************************************************************)
(* Theorems about Organizations for any number of people and requests.  The    *)
(* argument for the seats: an invitation that is still to insert its member     *)
(* holds a seat, and one that counted beside it is counted in joint.  The       *)
(* argument for the owner: without edits nobody becomes an owner, and whoever   *)
(* is about to remove one has seen another.                                    *)
(***************************************************************************)
EXTENDS Organizations, FiniteSetTheorems, SequenceTheorems, WellFoundedInduction, TLAPS

RegisterSteps == {"account", "slug", "organization"} \cup Parts

\* The steps of a registration in order: an organization comes before its parts.
Ordered(s) ==
    /\ s \in Seq(RegisterSteps)
    /\ \A i \in 1..(Len(s) - 1) :
         /\ s[i] = "account" => s[i + 1] = "slug"
         /\ s[i] = "slug" => s[i + 1] = "organization"
         /\ s[i] \in Parts \cup {"organization"} => s[i + 1] \in Parts

\* Every request is somewhere in the script of its kind.
Scripted(q) ==
    /\ kind[q] \in DOMAIN Script
    /\ who[q] \in People
    /\ kind[q] = "register" =>
         /\ Ordered(todo[q])
         /\ IF Head(todo[q]) \in Parts THEN org[q] \in SUBSET Parts ELSE org[q] = None
    /\ kind[q] = "invite" => todo[q] \in {<<"lookup", "account", "join">>, <<"account", "join">>,
                                          <<"join">>, <<"revive">>}
    /\ kind[q] = "remove" => todo[q] = <<"remove">>
    /\ kind[q] = "edit" => todo[q] = <<"save">>
    /\ todo[q] \in {<<"revive">>, <<"remove">>, <<"save">>} => copy[q] \in Row

AllScripted == \A q \in Requests : Active(q) => Scripted(q)

Pending(q) == At(q, "remove") /\ copy[q].role = "owner"

OwnersKept ==
    ~edited =>
        /\ \A q \in Requests :
             At(q, "revive") \/ (At(q, "remove") /\ copy[q].role = "member") => who[q] \notin Owners(team)
        /\ ~raced =>
             /\ Owners(team) # {}
             /\ \A q \in Requests : Pending(q) => \E p \in Owners(team) : p # who[q]
             /\ \A q, r \in Requests : Pending(q) /\ Pending(r) => q = r

\* Every invitation under way has a seat, apart from those counted in joint.
SeatsKept ==
    /\ Cardinality(ActiveMembers(team)) <= Limit + joint + extra
    /\ Inviting # {} =>
         Cardinality(ActiveMembers(team)) + Cardinality(Inviting) <= Limit + joint + extra

\* A request that has not begun has no organization.
Unbegun == \A q \in Requests : kind[q] = "new" => org[q] = None

IInv == TypeOK /\ AllScripted /\ Unbegun /\ OwnersKept /\ SeatsKept

-----------------------------------------------------------------------------
(* Facts about the definitions                                               *)

LEMMA LeastOf ==
    ASSUME NEW T \in SUBSET Nat, T # {}
    PROVE  \E x \in T : \A y \in T : x <= y
<1> DEFINE R == OpToRel(<, Nat)
<1>1. IsWellFoundedOn(R, Nat)
  BY NatLessThanWellFounded
<1>2. \A x, y \in Nat : y < x => <<y, x>> \in R
  BY DEF OpToRel
<1> HIDE DEF R
<1>3. PICK x \in T : \A y \in T : ~(<<y, x>> \in R)
  BY <1>1, WFMin
<1>4. \A y \in T : ~(y < x)
  BY <1>2, <1>3
<1>5. QED
  BY <1>4

LEMMA PartsAre == Parts = {"owner", "branding", "profile", "mail", "subscription", "templates", "types"}
BY DEF Parts, Provisioning

LEMMA Scripts ==
    /\ DOMAIN Script = {"register", "invite", "remove", "edit"}
    /\ Script["register"] = <<"account", "slug", "organization">> \o Provisioning
    /\ Script["invite"] = <<"lookup", "account", "join">>
    /\ Script["remove"] = <<"remove">>
    /\ Script["edit"] = <<"save">>
BY DEF Script

\* The script of a registration, written out.
LEMMA RegisterIs ==
    LET s == Script["register"]
    IN  /\ s \in Seq(RegisterSteps) /\ Len(s) = 10
        /\ s[1] = "account" /\ s[2] = "slug" /\ s[3] = "organization" /\ s[4] = "owner"
        /\ s[5] = "branding" /\ s[6] = "profile" /\ s[7] = "mail" /\ s[8] = "subscription"
        /\ s[9] = "templates" /\ s[10] = "types"
<1> DEFINE opening == <<"account", "slug", "organization">>
           s == opening \o Provisioning
<1>1. Provisioning \in Seq(Parts) /\ Len(Provisioning) = 7
  BY PartsAre DEF Provisioning
<1>2. opening \in Seq(RegisterSteps) /\ Len(opening) = 3
  BY DEF RegisterSteps
<1>3. /\ opening[1] = "account" /\ opening[2] = "slug" /\ opening[3] = "organization"
      /\ Provisioning[1] = "owner" /\ Provisioning[2] = "branding" /\ Provisioning[3] = "profile"
      /\ Provisioning[4] = "mail" /\ Provisioning[5] = "subscription" /\ Provisioning[6] = "templates"
      /\ Provisioning[7] = "types"
  BY DEF Provisioning
<1> HIDE DEF opening, Parts, Provisioning
<1>4. Provisioning \in Seq(RegisterSteps)
  BY <1>1, SeqMonotonic DEF RegisterSteps
<1>5. /\ s \in Seq(RegisterSteps)
      /\ Len(s) = Len(opening) + Len(Provisioning)
      /\ \A i \in 1 .. Len(opening) + Len(Provisioning) :
            s[i] = IF i <= Len(opening) THEN opening[i] ELSE Provisioning[i - Len(opening)]
  BY <1>2, <1>4, ConcatProperties, Zenon
<1> HIDE DEF s
<1>6. Len(opening) + Len(Provisioning) = 10
  BY <1>1, <1>2
<1>7. \A i \in 1..10 : s[i] = IF i <= 3 THEN opening[i] ELSE Provisioning[i - 3]
  BY <1>2, <1>5, <1>6
<1>8. QED
  BY <1>3, <1>5, <1>6, <1>7, Scripts DEF s, opening

\* A registration starts in order.
LEMMA RegisterOrdered ==
    LET s == Script["register"]
    IN  Ordered(s) /\ s # <<>> /\ Head(s) = "account"
<1> DEFINE s == Script["register"]
<1>1. \A i \in 1..9 : i \in {1, 2, 3, 4, 5, 6, 7, 8, 9}
  OBVIOUS
<1> HIDE DEF s
<1>2. Ordered(s)
  <2>1. /\ s \in Seq(RegisterSteps) /\ Len(s) = 10
        /\ s[1] = "account" /\ s[2] = "slug" /\ s[3] = "organization"
        /\ s[4] = "owner" /\ s[5] = "branding" /\ s[6] = "profile" /\ s[7] = "mail"
        /\ s[8] = "subscription" /\ s[9] = "templates" /\ s[10] = "types"
    BY RegisterIs DEF s
  <2>2. \A i \in {3, 4, 5, 6, 7, 8, 9} : s[i + 1] \in Parts
    BY <2>1, PartsAre
  <2>3. \A i \in 1..9 : /\ s[i] = "account" => s[i + 1] = "slug"
                        /\ s[i] = "slug" => s[i + 1] = "organization"
    BY <1>1, <2>1
  <2>4. \A i \in 1..9 : s[i] \in Parts \cup {"organization"} => s[i + 1] \in Parts
    <3>1. s[1] \notin Parts \cup {"organization"} /\ s[2] \notin Parts \cup {"organization"}
      BY <2>1, PartsAre
    <3>2. QED
      BY <1>1, <2>2, <3>1
  <2>5. Len(s) - 1 = 9
    BY <2>1
  <2>6. QED
    BY <2>1, <2>3, <2>4, <2>5 DEF Ordered
<1>3. s # <<>> /\ Head(s) = s[1]
  BY RegisterIs DEF s
<1>4. QED
  BY <1>2, <1>3, RegisterIs DEF s

\* The people and the requests are finitely many, and so are the members and the
\* invitations.
LEMMA Finite ==
    ASSUME OrganizationsAssumption
    PROVE  /\ \A t : IsFiniteSet(ActiveMembers(t)) /\ Cardinality(ActiveMembers(t)) \in Nat
           /\ IsFiniteSet(Inviting) /\ Cardinality(Inviting) \in Nat
           /\ IsFiniteSet(Inviting') /\ Cardinality(Inviting') \in Nat
<1>1. \A t : ActiveMembers(t) \in SUBSET People
  BY DEF ActiveMembers, Members
<1>2. Inviting \in SUBSET Requests /\ Inviting' \in SUBSET Requests
  BY DEF Inviting, Busy
<1>3. QED
  BY <1>1, <1>2, FS_Subset, FS_CardinalityType DEF OrganizationsAssumption

-----------------------------------------------------------------------------
(* The script of a request                                                   *)

LEMMA RegisterGoesOn ==
    ASSUME NEW s, Ordered(s), s # <<>>
    PROVE  /\ Head(s) \in RegisterSteps
           /\ Ordered(Tail(s))
           /\ Len(s) # 1 => Tail(s) # <<>>
           /\ Tail(s) # <<>> =>
                /\ Head(s) = "account" => Head(Tail(s)) = "slug"
                /\ Head(s) = "slug" => Head(Tail(s)) = "organization"
                /\ Head(s) \in Parts \cup {"organization"} => Head(Tail(s)) \in Parts
<1>1. s \in Seq(RegisterSteps)
  BY DEF Ordered
<1>2. Len(s) \in Nat \ {0} /\ Head(s) = s[1] /\ s[1] \in RegisterSteps
  BY <1>1
<1> DEFINE t == Tail(s)
<1>3. t \in Seq(RegisterSteps) /\ Len(t) = Len(s) - 1 /\ \A i \in 1..Len(t) : t[i] = s[i + 1]
  BY <1>1, HeadTailProperties
<1> HIDE DEF t
<1>4. Ordered(t)
  <2>1. SUFFICES ASSUME NEW i \in 1..(Len(t) - 1)
                 PROVE  /\ t[i] = "account" => t[i + 1] = "slug"
                        /\ t[i] = "slug" => t[i + 1] = "organization"
                        /\ t[i] \in Parts \cup {"organization"} => t[i + 1] \in Parts
    BY <1>3 DEF Ordered
  <2>2. i \in 1..Len(t) /\ i + 1 \in 1..Len(t) /\ i + 1 \in 1..(Len(s) - 1)
    BY <1>2, <1>3
  <2>3. t[i] = s[i + 1] /\ t[i + 1] = s[i + 2]
    BY <1>3, <2>2
  <2>4. QED
    BY <2>2, <2>3 DEF Ordered
<1>5. Len(s) # 1 => t # <<>>
  BY <1>2, <1>3
<1>6. ASSUME t # <<>>
      PROVE  /\ Head(s) = "account" => Head(t) = "slug"
             /\ Head(s) = "slug" => Head(t) = "organization"
             /\ Head(s) \in Parts \cup {"organization"} => Head(t) \in Parts
  <2>1. Len(t) \in Nat \ {0} /\ Head(t) = t[1]
    BY <1>3, <1>6
  <2>2. 1 \in 1..(Len(s) - 1) /\ Head(t) = s[2]
    BY <1>2, <1>3, <2>1
  <2>3. QED
    BY <1>2, <2>2 DEF Ordered
<1>7. QED
  BY <1>2, <1>4, <1>5, <1>6 DEF t

\* Nothing about request r changes.
Same(r) ==
    /\ kind'[r] = kind[r] /\ who'[r] = who[r] /\ copy'[r] = copy[r]
    /\ todo'[r] = todo[r] /\ org'[r] = org[r]

LEMMA OneStep ==
    ASSUME AllScripted, NEW q \in Requests,
           \A r \in Requests \ {q} : Same(r),
           todo'[q] # <<>> => Scripted(q)'
    PROVE  AllScripted'
<1> SUFFICES ASSUME NEW r \in Requests, todo'[r] # <<>>
             PROVE  Scripted(r)'
  BY DEF AllScripted, Active
<1>1. CASE r = q
  BY <1>1
<1>2. CASE r # q
  BY <1>2 DEF Same, AllScripted, Active, Scripted
<1>3. QED
  BY <1>1, <1>2

LEMMA FinishStep ==
    ASSUME TypeOK, NEW q \in Requests, Finish(q)
    PROVE  /\ kind' \in [Requests -> DOMAIN Script \cup {"new", "ended"}]
           /\ copy' \in [Requests -> Row \cup {None}]
           /\ todo' \in [Requests -> Seq(Steps)]
           /\ todo'[q] = <<>>
           /\ \A r \in Requests \ {q} :
                kind'[r] = kind[r] /\ copy'[r] = copy[r] /\ todo'[r] = todo[r]
<1>1. <<>> \in Seq(Steps)
  BY EmptySeq
<1>2. todo' = [todo EXCEPT ![q] = <<>>] /\ todo \in [Requests -> Seq(Steps)]
  BY DEF Finish, TypeOK
<1>3. QED
  BY <1>1, <1>2 DEF Finish, TypeOK

\* Proceed ends the request or takes one step off what is left.
LEMMA ProceedStep ==
    ASSUME TypeOK, NEW q \in Requests, Active(q), Proceed(q)
    PROVE  /\ kind' \in [Requests -> DOMAIN Script \cup {"new", "ended"}]
           /\ copy' \in [Requests -> Row \cup {None}]
           /\ todo' \in [Requests -> Seq(Steps)]
           /\ \A r \in Requests \ {q} :
                kind'[r] = kind[r] /\ copy'[r] = copy[r] /\ todo'[r] = todo[r]
           /\ \/ todo'[q] = <<>>
              \/ /\ Len(todo[q]) # 1
                 /\ todo'[q] = Tail(todo[q]) /\ kind'[q] = kind[q] /\ copy'[q] = copy[q]
<1>1. CASE Len(todo[q]) = 1
  BY <1>1, FinishStep DEF Proceed
<1>2. CASE Len(todo[q]) # 1
  <2>1. Tail(todo[q]) \in Seq(Steps)
    BY HeadTailProperties DEF TypeOK, Active
  <2>2. QED
    BY <1>2, <2>1 DEF Proceed, TypeOK
<1>3. QED
  BY <1>1, <1>2

\* What the next step says about the kind of the request.
LEMMA StepOfKind ==
    ASSUME TypeOK, AllScripted, NEW q \in Requests, Active(q)
    PROVE  /\ Scripted(q)
           /\ Head(todo[q]) \in {"slug", "organization"} \cup Parts => kind[q] = "register"
           /\ Head(todo[q]) = "account" =>
                \/ kind[q] = "register"
                \/ kind[q] = "invite" /\ todo[q] = <<"account", "join">>
           /\ Head(todo[q]) = "lookup" => kind[q] = "invite" /\ todo[q] = <<"lookup", "account", "join">>
           /\ Head(todo[q]) = "join" => kind[q] = "invite" /\ todo[q] = <<"join">>
           /\ Head(todo[q]) = "revive" => kind[q] = "invite" /\ todo[q] = <<"revive">>
           /\ Head(todo[q]) = "remove" => kind[q] = "remove" /\ todo[q] = <<"remove">>
           /\ Head(todo[q]) = "save" => kind[q] = "edit" /\ todo[q] = <<"save">>
<1>1. Scripted(q)
  BY DEF AllScripted
<1>2. kind[q] \in {"register", "invite", "remove", "edit"}
  BY <1>1, Scripts DEF Scripted
<1>3. kind[q] = "register" => Head(todo[q]) \in {"account", "slug", "organization"} \cup Parts
  BY <1>1, RegisterGoesOn DEF Scripted, Active, RegisterSteps
<1>4. kind[q] = "invite" =>
         \/ todo[q] = <<"lookup", "account", "join">> /\ Head(todo[q]) = "lookup"
         \/ todo[q] = <<"account", "join">> /\ Head(todo[q]) = "account"
         \/ todo[q] = <<"join">> /\ Head(todo[q]) = "join"
         \/ todo[q] = <<"revive">> /\ Head(todo[q]) = "revive"
  <2>1. Head(<<"lookup", "account", "join">>) = "lookup" /\ Head(<<"account", "join">>) = "account"
        /\ Head(<<"join">>) = "join" /\ Head(<<"revive">>) = "revive"
    OBVIOUS
  <2>2. ASSUME kind[q] = "invite"
        PROVE  todo[q] \in {<<"lookup", "account", "join">>, <<"account", "join">>, <<"join">>, <<"revive">>}
    BY <1>1, <2>2 DEF Scripted
  <2>3. QED
    BY <2>1, <2>2, Zenon
<1>5. kind[q] = "remove" => todo[q] = <<"remove">> /\ Head(todo[q]) = "remove"
  BY <1>1 DEF Scripted
<1>6. kind[q] = "edit" => todo[q] = <<"save">> /\ Head(todo[q]) = "save"
  BY <1>1 DEF Scripted
<1>7. Parts = {"owner", "branding", "profile", "mail", "subscription", "templates", "types"}
  BY PartsAre
<1> HIDE DEF Parts
<1>8. CASE kind[q] = "register"
  <2>1. Head(todo[q]) \notin {"lookup", "join", "revive", "remove", "save"}
    BY <1>3, <1>7, <1>8
  <2>2. QED
    BY <1>1, <1>8, <2>1
<1>9. CASE kind[q] = "invite"
  <2>1. Head(todo[q]) \in {"lookup", "account", "join", "revive"}
    BY <1>4, <1>9
  <2>2. Head(todo[q]) \notin {"slug", "organization", "remove", "save"} \cup Parts
    BY <1>7, <2>1
  <2>3. QED
    BY <1>1, <1>4, <1>9, <2>1, <2>2
<1>10. CASE kind[q] = "remove" \/ kind[q] = "edit"
  BY <1>1, <1>5, <1>6, <1>7, <1>10
<1>11. QED
  BY <1>2, <1>8, <1>9, <1>10

\* A registration that goes on stays in order; its organization is there when its first
\* part is due.
LEMMA RegisterStep ==
    ASSUME TypeOK, AllScripted, NEW q \in Requests, Active(q), kind[q] = "register",
           Proceed(q), UNCHANGED who,
           \A r \in Requests \ {q} : org'[r] = org[r],
           IF Head(todo[q]) \in Parts \cup {"organization"}
             THEN org'[q] \in SUBSET Parts ELSE org'[q] = org[q]
    PROVE  AllScripted'
<1>1. Scripted(q) /\ Ordered(todo[q]) /\ todo[q] # <<>>
  BY StepOfKind DEF Scripted, Active
<1>2. \A r \in Requests \ {q} : Same(r)
  BY ProceedStep DEF Same
<1>3. ASSUME todo'[q] # <<>>
      PROVE  Scripted(q)'
  <2>1. todo'[q] = Tail(todo[q]) /\ kind'[q] = kind[q] /\ copy'[q] = copy[q]
    BY <1>3, ProceedStep
  <2>2. Ordered(todo'[q])
    BY <1>1, <2>1, RegisterGoesOn
  <2>3. \A x \in {"account", "slug", "organization"} : x \notin Parts
    BY PartsAre
  <2>4. IF Head(todo'[q]) \in Parts THEN org'[q] \in SUBSET Parts ELSE org'[q] = None
    <3>1. Head(todo[q]) \in {"account", "slug", "organization"} \cup Parts
      BY <1>1, RegisterGoesOn DEF RegisterSteps
    <3>2. CASE Head(todo[q]) \in Parts \cup {"organization"}
      BY <1>1, <1>3, <2>1, <3>2, RegisterGoesOn
    <3>3. CASE Head(todo[q]) \in {"account", "slug"}
      <4>1. Head(todo'[q]) \in {"slug", "organization"}
        BY <1>1, <1>3, <2>1, <3>3, RegisterGoesOn
      <4>2. org[q] = None /\ org'[q] = org[q]
        BY <1>1, <2>3, <3>3 DEF Scripted
      <4>3. QED
        BY <2>3, <4>1, <4>2
    <3>4. QED
      BY <3>1, <3>2, <3>3
  <2>5. todo'[q] \notin {<<"revive">>, <<"remove">>, <<"save">>}
    <3>1. Head(todo'[q]) \in {"account", "slug", "organization"} \cup Parts
      BY <1>3, <2>2, RegisterGoesOn DEF RegisterSteps
    <3>2. QED
      BY <3>1, PartsAre
  <2>6. QED
    BY <1>1, <2>1, <2>2, <2>4, <2>5 DEF Scripted
<1>4. QED
  BY <1>2, <1>3, OneStep

\* An invitation goes on: LookUp and CreateAccount leave the join.
LEMMA InviteTails ==
    /\ Tail(<<"lookup", "account", "join">>) = <<"account", "join">>
    /\ Tail(<<"account", "join">>) = <<"join">>
    /\ Len(<<"account", "join">>) = 2 /\ Len(<<"join">>) = 1 /\ Len(<<"revive">>) = 1
    /\ <<"join">> \in Seq(Steps) /\ <<"account", "join">> \in Seq(Steps)
    /\ <<"revive">> \in Seq(Steps)
BY DEF Steps

LEMMA ScriptTypes == \A k \in DOMAIN Script : Script[k] \in Seq(Steps) /\ Script[k] # <<>>
<1>1. Script["register"] \in Seq(Steps) /\ Script["register"] # <<>>
  <2>1. RegisterSteps \subseteq Steps
    BY DEF RegisterSteps, Steps
  <2>2. QED
    BY <2>1, RegisterOrdered, SeqMonotonic DEF Ordered
<1>2. <<"lookup", "account", "join">> \in Seq(Steps) /\ <<"remove">> \in Seq(Steps)
      /\ <<"save">> \in Seq(Steps)
  BY DEF Steps
<1>3. <<"lookup", "account", "join">> # <<>> /\ <<"remove">> # <<>> /\ <<"save">> # <<>>
  OBVIOUS
<1>4. QED
  BY <1>1, <1>2, <1>3, Scripts

\* A request that begins takes the script of its kind.
LEMMA BeginStep ==
    ASSUME TypeOK, AllScripted, NEW q \in Requests, NEW k \in DOMAIN Script, NEW p \in People,
           NEW read \in Row \cup {None}, Begin(q, k, p, read),
           k \in {"remove", "edit"} => read \in Row,
           k = "register" => org[q] = None
    PROVE  /\ AllScripted'
           /\ kind' \in [Requests -> DOMAIN Script \cup {"new", "ended"}]
           /\ who' \in [Requests -> People \cup {None}]
           /\ copy' \in [Requests -> Row \cup {None}]
           /\ todo' \in [Requests -> Seq(Steps)]
<1>1. kind' \in [Requests -> DOMAIN Script \cup {"new", "ended"}]
  BY DEF Begin, TypeOK
<1>2. who' \in [Requests -> People \cup {None}] /\ copy' \in [Requests -> Row \cup {None}]
  BY DEF Begin, TypeOK
<1>3. todo' \in [Requests -> Seq(Steps)]
  BY ScriptTypes DEF Begin, TypeOK
<1>4. \A r \in Requests \ {q} : Same(r)
  BY DEF Begin, Same, TypeOK
<1>5. kind'[q] = k /\ who'[q] = p /\ copy'[q] = read /\ todo'[q] = Script[k] /\ org'[q] = org[q]
  BY DEF Begin, TypeOK
<1>6. Scripted(q)'
  <2>1. k = "register" => Ordered(todo'[q]) /\ Head(todo'[q]) = "account" /\ org'[q] = None
    BY <1>5, RegisterOrdered
  <2>2. "account" \notin Parts
    BY PartsAre
  <2>3. k = "invite" => todo'[q] = <<"lookup", "account", "join">>
    BY <1>5, Scripts
  <2>4. k = "remove" => todo'[q] = <<"remove">>
    BY <1>5, Scripts
  <2>5. k = "edit" => todo'[q] = <<"save">>
    BY <1>5, Scripts
  <2>6. todo'[q] \in {<<"revive">>, <<"remove">>, <<"save">>} => copy'[q] \in Row
    <3>1. CASE k \in {"remove", "edit"}
      BY <1>5, <3>1
    <3>2. CASE k = "register"
      BY <2>1, <3>2
    <3>3. CASE k = "invite"
      BY <2>3, <3>3
    <3>4. QED
      BY <3>1, <3>2, <3>3, Scripts
  <2>7. QED
    BY <1>5, <2>1, <2>2, <2>3, <2>4, <2>5, <2>6, Scripts DEF Scripted
<1>7. AllScripted'
  BY <1>4, <1>6, OneStep
<1>8. QED
  BY <1>1, <1>2, <1>3, <1>7

\* A request that ends, or has ended, is in nobody's way.
LEMMA FinishScripted ==
    ASSUME TypeOK, AllScripted, NEW q \in Requests, Finish(q), UNCHANGED who,
           \A r \in Requests \ {q} : org'[r] = org[r]
    PROVE  AllScripted'
<1>1. \A r \in Requests \ {q} : Same(r)
  BY FinishStep DEF Same
<1>2. todo'[q] = <<>>
  BY FinishStep
<1>3. QED
  BY <1>1, <1>2, OneStep

-----------------------------------------------------------------------------
(* Type correctness                                                          *)

\* There is a free slug for everybody who asks: each slug that is taken belongs to
\* another request.
LEMMA FreeSlug ==
    ASSUME OrganizationsAssumption, TypeOK, NEW q \in Requests, org[q] = None
    PROVE  \E i \in 1..Cardinality(Requests) :
              i \notin Taken(name[q]) /\ \A j \in 1..(i - 1) : j \in Taken(name[q])
<1> DEFINE n == Cardinality(Requests)
           T == Taken(name[q])
           H == {s \in Requests : org[s] # None /\ name[s] = name[q]}
           f == [r \in H |-> slug[r]]
           Free == (1..n) \ T
<1>1. IsFiniteSet(Requests) /\ n \in Nat
  BY FS_CardinalityType DEF OrganizationsAssumption
<1>2. IsFiniteSet(H) /\ Cardinality(H) <= n /\ Cardinality(H) # n /\ Cardinality(H) \in Nat
  <2>1. H \in SUBSET Requests /\ H # Requests
    OBVIOUS
  <2>2. QED
    BY <1>1, <2>1, FS_Subset, FS_CardinalityType
<1>3. IsFiniteSet(T) /\ Cardinality(T) <= Cardinality(H)
  <2>1. f \in Surjection(H, T)
    BY DEF Taken, Surjection
  <2>2. QED
    BY <1>2, <2>1, FS_Surjection
<1>4. Free # {}
  <2>1. SUFFICES ASSUME (1..n) \in SUBSET T
                 PROVE  FALSE
    BY DEF Free
  <2>2. Cardinality(1..n) <= Cardinality(T)
    BY <1>3, <2>1, FS_Subset
  <2>3. Cardinality(1..n) = n
    BY <1>1, FS_Interval
  <2>4. Cardinality(T) \in Nat
    BY <1>3, FS_CardinalityType
  <2>5. QED
    BY <1>1, <1>2, <1>3, <2>2, <2>3, <2>4
<1>5. Free \in SUBSET Nat
  BY DEF Free
<1>6. PICK i \in Free : \A j \in Free : i <= j
  BY <1>4, <1>5, LeastOf
<1>7. \A j \in 1..(i - 1) : j \in T
  <2>1. i \in 1..n
    BY <1>6 DEF Free
  <2>2. SUFFICES ASSUME NEW j \in 1..(i - 1), j \notin T
                 PROVE  FALSE
    OBVIOUS
  <2>3. j \in Free
    BY <1>1, <2>1, <2>2 DEF Free
  <2>4. QED
    BY <1>1, <1>6, <2>1, <2>3
<1>8. QED
  BY <1>6, <1>7 DEF Free

\* The variables that say how far the requests are.
RequestTypes ==
    /\ kind \in [Requests -> DOMAIN Script \cup {"new", "ended"}]
    /\ who \in [Requests -> People \cup {None}]
    /\ copy \in [Requests -> Row \cup {None}]
    /\ todo \in [Requests -> Seq(Steps)]

LEMMA GoesOnTypes ==
    ASSUME TypeOK, NEW q \in Requests, Active(q), Proceed(q) \/ Finish(q), UNCHANGED who
    PROVE  RequestTypes'
<1>1. who' \in [Requests -> People \cup {None}]
  BY DEF TypeOK
<1>2. QED
  BY <1>1, ProceedStep, FinishStep DEF RequestTypes

\* The steps that begin a request.
LEMMA BeginTypes ==
    ASSUME OrganizationsAssumption, TypeOK, AllScripted, Unbegun,
           NEW q \in Requests, NEW p \in People,
           BeginRegister(q, p) \/ BeginInvite(q, p) \/ BeginRemove(q, p) \/ BeginEdit(q, p)
    PROVE  TypeOK' /\ AllScripted' /\ Unbegun'
<1>1. PICK k \in DOMAIN Script, read \in Row \cup {None} :
        /\ Begin(q, k, p, read)
        /\ k \in {"remove", "edit"} => read \in Row
  <2>1. None \in Row \cup {None} /\ team[p] \in Row \cup {None}
    BY DEF TypeOK
  <2>2. {"register", "invite", "remove", "edit"} = DOMAIN Script
    BY Scripts
  <2>3. CASE BeginRegister(q, p) \/ BeginInvite(q, p)
    BY <2>1, <2>2, <2>3 DEF BeginRegister, BeginInvite
  <2>4. CASE BeginRemove(q, p) \/ BeginEdit(q, p)
    BY <2>1, <2>2, <2>4 DEF BeginRemove, BeginEdit
  <2>5. QED
    BY <2>3, <2>4
<1>2. org[q] = None
  BY <1>1 DEF Begin, Unbegun
<1>3. AllScripted' /\ RequestTypes'
  BY <1>1, <1>2, BeginStep DEF RequestTypes
<1>4. Unbegun'
  BY <1>1 DEF Begin, Unbegun, TypeOK
<1>5. joint' \in Nat
  BY DEF BeginRegister, BeginInvite, BeginRemove, BeginEdit, TypeOK
<1>6. raced' \in BOOLEAN
  <2>1. CASE BeginRemove(q, p)
    BY <2>1 DEF BeginRemove
  <2>2. CASE raced' = raced
    BY <2>2 DEF TypeOK
  <2>3. QED
    BY <2>1, <2>2 DEF BeginRegister, BeginInvite, BeginEdit
<1>7. name' \in [Requests -> Names]
  <2>1. CASE \E n \in Names : name' = [name EXCEPT ![q] = n]
    BY <2>1 DEF TypeOK
  <2>2. CASE name' = name
    BY <2>2 DEF TypeOK
  <2>3. QED
    BY <2>1, <2>2 DEF BeginRegister, BeginInvite, BeginRemove, BeginEdit
<1>8. QED
  BY <1>1, <1>3, <1>4, <1>5, <1>6, <1>7 DEF Begin, RequestTypes, TypeOK

\* Nobody but the request that moves loses or gains an organization, and a request
\* that moves has begun.
LEMMA UnbegunKept ==
    ASSUME TypeOK, AllScripted, Unbegun, NEW q \in Requests, Active(q), Proceed(q) \/ Finish(q),
           \A r \in Requests \ {q} : org'[r] = org[r]
    PROVE  Unbegun'
<1>1. kind[q] # "new"
  BY Scripts DEF AllScripted, Scripted
<1>2. kind'[q] # "new"
  BY <1>1 DEF Finish, Proceed, TypeOK
<1>3. \A r \in Requests \ {q} : kind'[r] = kind[r]
  BY ProceedStep, FinishStep
<1>4. QED
  BY <1>2, <1>3 DEF Unbegun

\* The steps of a registration after the account.
LEMMA RegistrationTypes ==
    ASSUME OrganizationsAssumption, TypeOK, AllScripted, Unbegun, NEW q \in Requests,
           ChooseSlug(q) \/ CreateOrganization(q) \/ Provision(q)
    PROVE  TypeOK' /\ AllScripted' /\ Unbegun'
<1>1. Active(q) /\ kind[q] = "register" /\ Scripted(q) /\ UNCHANGED who
  <2>1. Active(q) /\ Head(todo[q]) \in {"slug", "organization"} \cup Parts /\ UNCHANGED who
    BY DEF ChooseSlug, CreateOrganization, Provision, At
  <2>2. QED
    BY <2>1, StepOfKind
<1>2. "slug" \notin Parts /\ "organization" \notin Parts
  BY PartsAre
<1>3. CASE ChooseSlug(q)
  <2>1. org[q] = None
    BY <1>1, <1>2, <1>3 DEF Scripted, ChooseSlug, At
  <2>2. (CHOOSE i \in 1..Cardinality(Requests) :
            i \notin Taken(name[q]) /\ \A j \in 1..(i - 1) : j \in Taken(name[q]))
          \in 1..Cardinality(Requests)
    BY <2>1, FreeSlug
  <2>3. slug' \in [Requests -> Nat]
    BY <1>3, <2>2, FS_CardinalityType DEF ChooseSlug, TypeOK, OrganizationsAssumption
  <2>4. AllScripted'
    BY <1>1, <1>2, <1>3, RegisterStep DEF ChooseSlug, At
  <2>5. RequestTypes' /\ Unbegun'
    BY <1>1, <1>3, GoesOnTypes, UnbegunKept DEF ChooseSlug
  <2>6. QED
    BY <1>3, <2>3, <2>4, <2>5 DEF ChooseSlug, TypeOK, RequestTypes, history
<1>4. CASE CreateOrganization(q)
  <2>1. org' \in [Requests -> (SUBSET Parts) \cup {None}]
        /\ \A r \in Requests \ {q} : org'[r] = org[r]
    BY <1>4 DEF CreateOrganization, TypeOK
  <2>2. slugRaced' \in BOOLEAN
    <3>1. CASE slugRaced' = (slugRaced \/ SlugFits(q))
      BY <3>1, Zenon
    <3>2. CASE slugRaced' = slugRaced
      BY <3>2 DEF TypeOK
    <3>3. QED
      BY <1>4, <3>1, <3>2 DEF CreateOrganization
  <2>3. RequestTypes' /\ Unbegun'
    BY <1>1, <1>4, <2>1, GoesOnTypes, UnbegunKept DEF CreateOrganization
  <2>4. AllScripted'
    <3>1. CASE ~(SlugFits(q) /\ slug[q] \notin Taken(name[q]))
      BY <1>1, <1>4, <2>1, <3>1, FinishScripted DEF CreateOrganization
    <3>2. CASE SlugFits(q) /\ slug[q] \notin Taken(name[q])
      <4>1. org'[q] \in SUBSET Parts /\ Proceed(q) /\ Head(todo[q]) = "organization"
        BY <1>4, <3>2 DEF CreateOrganization, At, TypeOK
      <4>2. QED
        BY <1>1, <2>1, <4>1, RegisterStep
    <3>3. QED
      BY <3>1, <3>2
  <2>5. QED
    BY <1>4, <2>1, <2>2, <2>3, <2>4 DEF CreateOrganization, TypeOK, RequestTypes
<1>5. CASE Provision(q)
  <2>1. org[q] \in SUBSET Parts /\ Head(todo[q]) \in Parts
    BY <1>1, <1>5 DEF Provision, Scripted
  <2>2. org' \in [Requests -> (SUBSET Parts) \cup {None}] /\ org'[q] \in SUBSET Parts
        /\ \A r \in Requests \ {q} : org'[r] = org[r]
    <3>1. org' = org \/ org' = [org EXCEPT ![q] = @ \cup {Head(todo[q])}]
      BY <1>5 DEF Provision
    <3>2. org[q] \cup {Head(todo[q])} \in SUBSET Parts
      BY <2>1
    <3>3. QED
      BY <2>1, <3>1, <3>2, SMTT(30) DEF TypeOK
  <2>3. RequestTypes' /\ Unbegun'
    BY <1>1, <1>5, <2>2, GoesOnTypes, UnbegunKept DEF Provision
  <2>4. AllScripted'
    <3>1. CASE Finish(q)
      BY <1>1, <2>2, <3>1, FinishScripted
    <3>2. CASE Proceed(q)
      BY <1>1, <2>1, <2>2, <3>2, RegisterStep
    <3>3. QED
      BY <1>5, <3>1, <3>2 DEF Provision
  <2>5. QED
    BY <1>5, <2>2, <2>3, <2>4 DEF Provision, TypeOK, RequestTypes, history
<1>6. QED
  BY <1>3, <1>4, <1>5

\* The account, of a registration or of an invitation.
LEMMA AccountTypes ==
    ASSUME OrganizationsAssumption, TypeOK, AllScripted, Unbegun, NEW q \in Requests,
           LookUp(q) \/ CreateAccount(q)
    PROVE  TypeOK' /\ AllScripted' /\ Unbegun'
<1>1. CASE LookUp(q)
  <2>1. Scripted(q) /\ kind[q] = "invite" /\ todo[q] = <<"lookup", "account", "join">>
    BY <1>1, StepOfKind DEF LookUp, At
  <2>2. todo'[q] \in {<<"join">>, <<"account", "join">>}
    BY <1>1, <2>1, InviteTails DEF LookUp, TypeOK
  <2>3. todo' \in [Requests -> Seq(Steps)]
    BY <1>1, <2>2, InviteTails DEF LookUp, TypeOK
  <2>4. \A r \in Requests \ {q} : Same(r)
    BY <1>1 DEF LookUp, Same, TypeOK
  <2>5. Scripted(q)'
    BY <1>1, <2>1, <2>2 DEF LookUp, Scripted
  <2>6. AllScripted'
    BY <2>4, <2>5, OneStep
  <2>7. Unbegun'
    BY <1>1 DEF LookUp, Unbegun
  <2>8. QED
    BY <1>1, <2>3, <2>6, <2>7 DEF LookUp, TypeOK, history
<1>2. CASE CreateAccount(q)
  <2>1. Active(q) /\ Head(todo[q]) = "account" /\ Scripted(q) /\ who[q] \in People
        /\ UNCHANGED <<who, org>>
    BY <1>2, StepOfKind DEF CreateAccount, At, Scripted
  <2>2. RequestTypes' /\ Unbegun'
    BY <1>2, <2>1, GoesOnTypes, UnbegunKept DEF CreateAccount
  <2>3. AllScripted'
    <3>1. CASE Finish(q)
      BY <2>1, <3>1, FinishScripted
    <3>2. CASE Proceed(q) /\ kind[q] = "register"
      BY <2>1, <3>2, PartsAre, RegisterStep
    <3>3. CASE Proceed(q) /\ kind[q] = "invite" /\ todo[q] = <<"account", "join">>
      <4>1. todo'[q] = <<"join">> /\ kind'[q] = "invite" /\ copy'[q] = copy[q]
        BY <3>3, InviteTails DEF Proceed, TypeOK
      <4>2. \A r \in Requests \ {q} : Same(r)
        BY <2>1, <3>3, ProceedStep DEF Same
      <4>3. Scripted(q)'
        BY <2>1, <3>3, <4>1 DEF Scripted
      <4>4. QED
        BY <4>2, <4>3, OneStep
    <3>4. QED
      BY <1>2, <2>1, <3>1, <3>2, <3>3, StepOfKind DEF CreateAccount
  <2>4. QED
    BY <1>2, <2>1, <2>2, <2>3 DEF CreateAccount, TypeOK, RequestTypes, history
<1>3. QED
  BY <1>1, <1>2

\* The last step of a request for a member, and the end of any request.
LEMMA TeamTypes ==
    ASSUME OrganizationsAssumption, TypeOK, AllScripted, Unbegun, NEW q \in Requests,
           Join(q) \/ Revive(q) \/ Remove(q) \/ Save(q) \/ Crash(q)
    PROVE  TypeOK' /\ AllScripted' /\ Unbegun'
<1>1. Active(q) /\ Scripted(q) /\ who[q] \in People /\ UNCHANGED <<who, org>>
  BY StepOfKind DEF Join, Revive, Remove, Save, Crash, At, Scripted, history
<1>2. ASSUME Finish(q)
      PROVE  RequestTypes' /\ AllScripted' /\ Unbegun'
  BY <1>1, <1>2, GoesOnTypes, FinishScripted, UnbegunKept
<1>3. CASE Join(q)
  <2>1. NewRow(who[q]) \in Row
    BY <1>1 DEF NewRow, Row, TypeOK
  <2>2. team' \in [People -> Row \cup {None}]
    BY <1>1, <1>3, <2>1, ZenonT(30) DEF Join, TypeOK
  <2>3. made' \in [People -> Nat]
    <3>1. made \in [People -> Nat] /\ made[who[q]] + 1 \in Nat
      BY <1>1 DEF TypeOK
    <3>2. made' = made \/ made' = [made EXCEPT ![who[q]] = made[who[q]] + 1]
      BY <1>3 DEF Join
    <3>3. QED
      BY <3>1, <3>2
  <2>4. RequestTypes' /\ AllScripted' /\ Unbegun'
    <3>1. CASE ~Finish(q)
      <4>1. team[who[q]] \in Row /\ copy' = [copy EXCEPT ![q] = team[who[q]]]
            /\ todo' = [todo EXCEPT ![q] = <<"revive">>] /\ kind' = kind
        BY <1>1, <1>3, <3>1 DEF Join, TypeOK
      <4>2. kind[q] = "invite"
        BY <1>3, StepOfKind DEF Join, At
      <4>3. RequestTypes'
        BY <1>1, <4>1, InviteTails DEF TypeOK, RequestTypes
      <4>4. Scripted(q)'
        BY <1>1, <4>1, <4>2 DEF Scripted, TypeOK
      <4>5. \A r \in Requests \ {q} : Same(r)
        BY <1>1, <4>1 DEF Same, TypeOK
      <4>6. Unbegun'
        BY <1>1, <4>1 DEF Unbegun
      <4>7. QED
        BY <4>3, <4>4, <4>5, <4>6, OneStep
    <3>2. QED
      BY <1>2, <3>1
  <2>5. QED
    BY <1>3, <2>2, <2>3, <2>4 DEF Join, TypeOK, RequestTypes, history
<1>4. CASE Revive(q)
  <2>1. team' \in [People -> Row \cup {None}]
    <3>1. CASE StillThere(q)
      <4>1. team[who[q]] \in Row
        BY <1>1, <3>1 DEF StillThere, TypeOK
      <4>2. team' = [team EXCEPT ![who[q]] = [team[who[q]] EXCEPT !.active = TRUE, !.role = "member"]]
        BY <1>4, <3>1 DEF Revive
      <4>3. [team[who[q]] EXCEPT !.active = TRUE, !.role = "member"] \in Row
        BY <4>1 DEF Row
      <4>4. QED
        BY <1>1, <4>2, <4>3 DEF TypeOK
    <3>2. CASE ~StillThere(q)
      BY <1>4, <3>2 DEF Revive, TypeOK
    <3>3. QED
      BY <3>1, <3>2
  <2>2. QED
    BY <1>2, <1>4, <2>1 DEF Revive, TypeOK, RequestTypes, history
<1>5. CASE Remove(q)
  <2>1. team' \in [People -> Row \cup {None}] /\ removed' \subseteq People
    BY <1>1, <1>5 DEF Remove, TypeOK
  <2>2. QED
    BY <1>2, <1>5, <2>1 DEF Remove, TypeOK, RequestTypes
<1>6. CASE Save(q)
  <2>1. copy[q] \in Row
    BY <1>1, <1>6, StepOfKind DEF Save, At, Scripted
  <2>2. PICK r \in {"owner", "member"}, a \in BOOLEAN :
           IF StillThere(q) \/ team[who[q]] = None
           THEN /\ team' = [team EXCEPT ![who[q]] = [copy[q] EXCEPT !.role = r, !.active = a]]
                /\ edited' = TRUE
                /\ extra' = IF a /\ who[q] \notin ActiveMembers(team) THEN extra + 1 ELSE extra
           ELSE UNCHANGED <<team, edited, extra>>
    BY <1>6 DEF Save
  <2>3. team' \in [People -> Row \cup {None}]
    <3>1. [copy[q] EXCEPT !.role = r, !.active = a] \in Row
      BY <2>1 DEF Row
    <3>2. QED
      BY <1>1, <2>2, <3>1, ZenonT(30) DEF TypeOK
  <2>4. extra' \in Nat
    BY <2>2 DEF TypeOK
  <2>5. edited' \in BOOLEAN
    <3>1. edited' = TRUE \/ edited' = edited
      BY <2>2
    <3>2. QED
      BY <3>1 DEF TypeOK
  <2>6. QED
    BY <1>2, <1>6, <2>3, <2>4, <2>5 DEF Save, TypeOK, RequestTypes
<1>7. CASE Crash(q)
  <2>1. crashes' \in 0..MaxCrashes
    BY <1>7 DEF Crash, TypeOK, OrganizationsAssumption
  <2>2. QED
    BY <1>2, <1>7, <2>1 DEF Crash, TypeOK, RequestTypes, history
<1>8. QED
  BY <1>3, <1>4, <1>5, <1>6, <1>7

\* Opening the settings, and a new plan.
LEMMA OutsideTypes ==
    ASSUME OrganizationsAssumption, TypeOK, AllScripted, Unbegun,
           \/ \E q \in Requests, part \in Unique \cup {"templates"} : Visit(q, part)
           \/ PlanChanges
    PROVE  TypeOK' /\ AllScripted' /\ Unbegun'
<1>1. CASE \E q \in Requests, part \in Unique \cup {"templates"} : Visit(q, part)
  <2>1. PICK q \in Requests, part \in Unique \cup {"templates"} : Visit(q, part)
    BY <1>1
  <2>2. part \in Parts
    BY PartsAre DEF Unique, SingleRows
  <2>3. org[q] \in SUBSET Parts /\ org[q] # None
    BY <2>1 DEF Visit, TypeOK
  <2>4. org' = [org EXCEPT ![q] = org[q] \cup {part}] /\ org[q] \cup {part} \in SUBSET Parts
    BY <2>1, <2>2, <2>3 DEF Visit
  <2>5. org' \in [Requests -> (SUBSET Parts) \cup {None}] /\ org'[q] \in SUBSET Parts
    BY <2>4 DEF TypeOK
  <2>6. AllScripted'
    <3>1. \A r \in Requests \ {q} : Same(r)
      BY <2>1, <2>4 DEF Visit, Same, TypeOK
    <3>2. ASSUME todo'[q] # <<>>
          PROVE  Scripted(q)'
      BY <2>1, <2>3, <2>5, <3>2 DEF Visit, AllScripted, Active, Scripted
    <3>3. QED
      BY <3>1, <3>2, OneStep
  <2>7. Unbegun'
    BY <2>1, <2>3, <2>4 DEF Visit, Unbegun, TypeOK
  <2>8. visited' \in BOOLEAN
    <3>1. visited' = (visited \/ Active(q))
      BY <2>1 DEF Visit
    <3>2. QED
      BY <3>1, Zenon
  <2>9. QED
    BY <2>1, <2>5, <2>6, <2>7, <2>8 DEF Visit, TypeOK
<1>2. CASE PlanChanges
  BY <1>2 DEF PlanChanges, history, TypeOK, AllScripted, Active, Scripted, Unbegun
<1>3. QED
  BY <1>1, <1>2

-----------------------------------------------------------------------------
(* Seats and owners where nothing happens to the team                        *)

LEMMA SeatsQuiet ==
    ASSUME OrganizationsAssumption, TypeOK, SeatsKept,
           ActiveMembers(team') \subseteq ActiveMembers(team), Inviting' \subseteq Inviting,
           joint' = joint, extra' = extra
    PROVE  SeatsKept'
<1>1. Cardinality(ActiveMembers(team')) <= Cardinality(ActiveMembers(team))
  BY Finite, FS_Subset
<1>2. Cardinality(Inviting') <= Cardinality(Inviting)
  BY Finite, FS_Subset
<1>3. /\ Cardinality(ActiveMembers(team)) \in Nat /\ Cardinality(ActiveMembers(team')) \in Nat
      /\ Cardinality(Inviting) \in Nat /\ Cardinality(Inviting') \in Nat
      /\ joint \in Nat /\ extra \in Nat /\ Limit \in Nat
  BY Finite DEF TypeOK, OrganizationsAssumption
<1>4. Inviting' # {} => Inviting # {}
  OBVIOUS
<1>5. QED
  BY <1>1, <1>2, <1>3, <1>4 DEF SeatsKept

\* The same owners, and no new request that is about to remove somebody or to revive
\* an owner.
LEMMA OwnersQuiet ==
    ASSUME OwnersKept, edited' = edited, raced' = raced,
           ~edited => Owners(team') = Owners(team),
           \A r \in Requests : todo'[r] # <<>> /\ Head(todo'[r]) \in {"remove", "revive"} =>
              \/ todo'[r] = todo[r] /\ copy'[r] = copy[r] /\ who'[r] = who[r]
              \/ Head(todo'[r]) = "revive" /\ who'[r] \notin Owners(team)
    PROVE  OwnersKept'
<1> SUFFICES ASSUME ~edited
             PROVE  OwnersKept'
  BY Zenon DEF OwnersKept
<1>1. Owners(team') = Owners(team)
  OBVIOUS
<1>2. ASSUME NEW q \in Requests,
             \/ At(q, "revive")' \/ (At(q, "remove") /\ copy[q].role = "member")'
      PROVE  who'[q] \notin Owners(team')
  BY <1>1, <1>2 DEF OwnersKept, At, Active
<1>3. \A q \in Requests : Pending(q)' => Pending(q) /\ who'[q] = who[q]
  BY DEF Pending, At, Active
<1>4. CASE ~raced
  <2>1. Owners(team') # {}
    BY <1>1, <1>4 DEF OwnersKept
  <2>2. \A q \in Requests : Pending(q)' => \E p \in Owners(team') : p # who'[q]
    BY <1>1, <1>3, <1>4 DEF OwnersKept
  <2>3. \A q, r \in Requests : Pending(q)' /\ Pending(r)' => q = r
    BY <1>3, <1>4 DEF OwnersKept
  <2>4. QED
    BY <1>2, <2>1, <2>2, <2>3, Zenon DEF OwnersKept
<1>5. CASE raced
  <2>1. raced'
    BY <1>5
  <2>2. QED
    BY <1>2, <2>1, Zenon DEF OwnersKept
<1>6. QED
  BY <1>4, <1>5

\* A step of a registration does nothing to the team.
LEMMA RegistrationKeeps ==
    ASSUME OrganizationsAssumption, IInv, NEW q \in Requests, Active(q), kind[q] = "register",
           Proceed(q) \/ Finish(q), UNCHANGED <<who, team, edited, extra, joint, raced>>
    PROVE  OwnersKept' /\ SeatsKept'
<1> TypeOK /\ AllScripted /\ OwnersKept /\ SeatsKept
  BY DEF IInv
<1>1. Ordered(todo[q]) /\ todo[q] # <<>>
  BY DEF AllScripted, Scripted, Active
<1>2. /\ \A r \in Requests \ {q} : kind'[r] = kind[r] /\ copy'[r] = copy[r] /\ todo'[r] = todo[r]
      /\ \/ todo'[q] = <<>>
         \/ todo'[q] = Tail(todo[q]) /\ kind'[q] = kind[q]
  <2>1. CASE Finish(q)
    BY <2>1, FinishStep
  <2>2. CASE Proceed(q)
    BY <2>2, ProceedStep
  <2>3. QED
    BY <2>1, <2>2
<1>3. todo'[q] # <<>> => Head(todo'[q]) \in RegisterSteps
  BY <1>1, <1>2, RegisterGoesOn
<1>4. "remove" \notin RegisterSteps /\ "revive" \notin RegisterSteps
  BY PartsAre DEF RegisterSteps
<1>5. OwnersKept'
  BY <1>2, <1>3, <1>4, OwnersQuiet
<1>6. Inviting' \subseteq Inviting
  BY <1>2 DEF Inviting, Busy, Active
<1>7. SeatsKept'
  BY <1>6, SeatsQuiet
<1>8. QED
  BY <1>5, <1>7

\* Neither does the end of a request.
LEMMA FinishKeeps ==
    ASSUME OrganizationsAssumption, IInv, NEW q \in Requests, Active(q),
           Finish(q), UNCHANGED <<who, team, edited, extra, joint, raced>>
    PROVE  OwnersKept' /\ SeatsKept'
<1> TypeOK /\ OwnersKept /\ SeatsKept
  BY DEF IInv
<1>1. /\ \A r \in Requests \ {q} : kind'[r] = kind[r] /\ copy'[r] = copy[r] /\ todo'[r] = todo[r]
      /\ todo'[q] = <<>>
  BY FinishStep
<1>2. OwnersKept'
  BY <1>1, OwnersQuiet
<1>3. Inviting' \subseteq Inviting
  BY <1>1 DEF Inviting, Busy, Active
<1>4. QED
  BY <1>2, <1>3, SeatsQuiet

-----------------------------------------------------------------------------
(* The steps that change the team                                            *)

LEMMA InitIInv ==
    ASSUME OrganizationsAssumption, Init
    PROVE  IInv
<1>1. TypeOK
  <2>1. team \in [People -> Row \cup {None}]
    BY DEF Init, Row
  <2>2. <<>> \in Seq(Steps)
    BY EmptySeq
  <2>3. /\ users \subseteq People /\ made \in [People -> Nat] /\ limit \in {Limit, FreeLimit}
        /\ crashes \in 0..MaxCrashes /\ extra \in Nat /\ joint \in Nat /\ removed \subseteq People
    BY DEF Init, Members, OrganizationsAssumption
  <2>4. /\ org \in [Requests -> (SUBSET Parts) \cup {None}]
        /\ name \in [Requests -> Names] /\ slug \in [Requests -> Nat]
        /\ kind \in [Requests -> DOMAIN Script \cup {"new", "ended"}]
        /\ who \in [Requests -> People \cup {None}]
        /\ copy \in [Requests -> Row \cup {None}]
        /\ todo \in [Requests -> Seq(Steps)]
    BY <2>2 DEF Init, Names
  <2>5. edited \in BOOLEAN /\ raced \in BOOLEAN /\ slugRaced \in BOOLEAN /\ visited \in BOOLEAN
    BY DEF Init
  <2>6. QED
    BY <2>1, <2>3, <2>4, <2>5 DEF TypeOK
<1>2. AllScripted /\ Unbegun /\ Inviting = {}
  BY DEF Init, AllScripted, Unbegun, Active, Inviting, Busy
<1>3. SeatsKept
  BY <1>2, Finite DEF Init, SeatsKept, OrganizationsAssumption
<1>4. OwnersKept
  BY DEF Init, OwnersKept, Pending, At, Active
<1>5. QED
  BY <1>1, <1>2, <1>3, <1>4 DEF IInv

\* One membership is written.
LEMMA TeamUpdate ==
    ASSUME TypeOK, NEW p \in People, NEW row, team' = [team EXCEPT ![p] = row]
    PROVE  /\ ActiveMembers(team') \subseteq ActiveMembers(team) \cup {p}
           /\ Owners(team) \ {p} \subseteq Owners(team') /\ Owners(team') \subseteq Owners(team) \cup {p}
           /\ row = None \/ row.role = "member" => p \notin Owners(team')
           /\ row = None \/ ~row.active => ActiveMembers(team') \subseteq ActiveMembers(team)
<1>1. \A o \in People \ {p} : team'[o] = team[o]
  BY DEF TypeOK
<1>2. team'[p] = row
  BY DEF TypeOK
<1>3. QED
  BY <1>1, <1>2 DEF ActiveMembers, Members, Owners

\* An invitation that ends uses the seat it held.
LEMMA SeatTaken ==
    ASSUME OrganizationsAssumption, TypeOK, SeatsKept, NEW q \in Inviting, NEW p \in People,
           Inviting' \subseteq Inviting \ {q},
           ActiveMembers(team') \subseteq ActiveMembers(team) \cup {p},
           joint' = joint, extra' = extra
    PROVE  SeatsKept'
<1>1. /\ Cardinality(ActiveMembers(team)) \in Nat /\ Cardinality(ActiveMembers(team')) \in Nat
      /\ Cardinality(Inviting) \in Nat /\ Cardinality(Inviting') \in Nat
      /\ joint \in Nat /\ extra \in Nat /\ Limit \in Nat
  BY Finite DEF TypeOK, OrganizationsAssumption
<1>2. Cardinality(ActiveMembers(team')) <= Cardinality(ActiveMembers(team)) + 1
  <2>1. /\ IsFiniteSet(ActiveMembers(team) \cup {p})
        /\ Cardinality(ActiveMembers(team) \cup {p}) <= Cardinality(ActiveMembers(team)) + 1
        /\ Cardinality(ActiveMembers(team) \cup {p}) \in Nat
    <3> DEFINE A == ActiveMembers(team)
    <3>1. IsFiniteSet(A) /\ Cardinality(A) \in Nat
      BY Finite
    <3> HIDE DEF A
    <3>2. /\ IsFiniteSet(A \cup {p})
          /\ Cardinality(A \cup {p}) = IF p \in A THEN Cardinality(A) ELSE Cardinality(A) + 1
      BY <3>1, FS_AddElement
    <3>3. Cardinality(A \cup {p}) <= Cardinality(A) + 1 /\ Cardinality(A \cup {p}) \in Nat
      BY <3>1, <3>2
    <3>4. QED
      BY <3>2, <3>3 DEF A
  <2>2. Cardinality(ActiveMembers(team')) <= Cardinality(ActiveMembers(team) \cup {p})
    BY <2>1, FS_Subset
  <2>3. QED
    BY <1>1, <2>1, <2>2
<1>3. Cardinality(Inviting') + 1 <= Cardinality(Inviting)
  <2>1. /\ IsFiniteSet(Inviting \ {q})
        /\ Cardinality(Inviting \ {q}) = Cardinality(Inviting) - 1
    BY Finite, FS_RemoveElement
  <2>2. Cardinality(Inviting') <= Cardinality(Inviting \ {q})
    BY <2>1, FS_Subset
  <2>3. QED
    BY <1>1, <2>1, <2>2
<1>4. Cardinality(ActiveMembers(team)) + Cardinality(Inviting) <= Limit + joint + extra
  BY DEF SeatsKept
<1>5. QED
  BY <1>1, <1>2, <1>3, <1>4 DEF SeatsKept

LEMMA LookUpKeeps ==
    ASSUME OrganizationsAssumption, IInv, NEW q \in Requests, LookUp(q)
    PROVE  OwnersKept' /\ SeatsKept'
<1> TypeOK /\ AllScripted /\ OwnersKept /\ SeatsKept
  BY DEF IInv
<1>1. todo[q] = <<"lookup", "account", "join">> /\ Active(q)
  BY StepOfKind DEF LookUp, At
<1>2. /\ todo'[q] \in {<<"join">>, <<"account", "join">>}
      /\ \A r \in Requests \ {q} : todo'[r] = todo[r]
  BY <1>1, InviteTails DEF LookUp, TypeOK
<1>3. Head(todo'[q]) \in {"join", "account"}
  BY <1>2
<1>4. OwnersKept'
  BY <1>2, <1>3, OwnersQuiet DEF LookUp, history
<1>5. Inviting' \subseteq Inviting
  BY <1>1, <1>2 DEF LookUp, Inviting, Busy, Active
<1>6. QED
  BY <1>4, <1>5, SeatsQuiet DEF LookUp, history

LEMMA CreateAccountKeeps ==
    ASSUME OrganizationsAssumption, IInv, NEW q \in Requests, CreateAccount(q)
    PROVE  OwnersKept' /\ SeatsKept'
<1> TypeOK /\ AllScripted /\ OwnersKept /\ SeatsKept
  BY DEF IInv
<1>1. /\ Active(q) /\ Head(todo[q]) = "account"
      /\ UNCHANGED <<who, team, edited, extra, joint, raced>>
  BY DEF CreateAccount, At, history
<1>2. CASE Finish(q)
  BY <1>1, <1>2, FinishKeeps
<1>3. CASE Proceed(q) /\ kind[q] = "register"
  BY <1>1, <1>3, RegistrationKeeps
<1>4. CASE Proceed(q) /\ kind[q] = "invite" /\ todo[q] = <<"account", "join">>
  <2>1. /\ todo'[q] = <<"join">> /\ kind' = kind
        /\ \A r \in Requests \ {q} : todo'[r] = todo[r] /\ copy'[r] = copy[r]
    BY <1>4, InviteTails DEF Proceed, TypeOK
  <2>2. OwnersKept'
    BY <1>1, <2>1, OwnersQuiet
  <2>3. Inviting' \subseteq Inviting
    BY <1>1, <2>1 DEF Inviting, Busy, Active
  <2>4. QED
    BY <1>1, <2>2, <2>3, SeatsQuiet
<1>5. QED
  BY <1>1, <1>2, <1>3, <1>4, StepOfKind DEF CreateAccount

\* A removal or an edit that begins holds the row of the person it is for.
LEMMA BeginKeeps ==
    ASSUME OrganizationsAssumption, IInv, NEW q \in Requests, NEW p \in People,
           BeginRegister(q, p) \/ BeginEdit(q, p)
    PROVE  OwnersKept' /\ SeatsKept'
<1> TypeOK /\ OwnersKept /\ SeatsKept
  BY DEF IInv
<1>1. PICK k \in {"register", "edit"}, read \in Row \cup {None} :
        Begin(q, k, p, read) /\ UNCHANGED <<joint, raced>>
  BY DEF BeginRegister, BeginEdit, TypeOK
<1>2. /\ todo'[q] = Script[k] /\ kind'[q] = k
      /\ \A r \in Requests \ {q} :
           todo'[r] = todo[r] /\ kind'[r] = kind[r] /\ copy'[r] = copy[r] /\ who'[r] = who[r]
  BY <1>1 DEF Begin, TypeOK
<1>3. Head(todo'[q]) \in {"account", "save"}
  BY <1>2, Scripts, RegisterOrdered
<1>4. OwnersKept'
  BY <1>1, <1>2, <1>3, OwnersQuiet DEF Begin
<1>5. Inviting' \subseteq Inviting
  BY <1>2 DEF Inviting, Busy, Active
<1>6. QED
  BY <1>1, <1>4, <1>5, SeatsQuiet DEF Begin

\* An invitation takes a seat that is free, or counts beside another one.
LEMMA BeginInviteKeeps ==
    ASSUME OrganizationsAssumption, IInv, NEW q \in Requests, NEW p \in People, BeginInvite(q, p)
    PROVE  OwnersKept' /\ SeatsKept'
<1> TypeOK /\ OwnersKept /\ SeatsKept
  BY DEF IInv
<1>1. Begin(q, "invite", p, None) /\ raced' = raced
  BY DEF BeginInvite
<1>2. /\ todo'[q] = <<"lookup", "account", "join">>
      /\ \A r \in Requests \ {q} :
           todo'[r] = todo[r] /\ kind'[r] = kind[r] /\ copy'[r] = copy[r] /\ who'[r] = who[r]
  BY <1>1, Scripts DEF Begin, TypeOK
<1>3. Head(todo'[q]) = "lookup"
  BY <1>2
<1>4. OwnersKept'
  BY <1>1, <1>2, <1>3, OwnersQuiet DEF Begin
<1>5. Inviting' \subseteq Inviting \cup {q}
  BY <1>2 DEF Inviting, Busy, Active
<1> DEFINE A == Cardinality(ActiveMembers(team))
           I == Cardinality(Inviting)
           J == Cardinality(Inviting')
<1>6. A \in Nat /\ I \in Nat /\ J \in Nat /\ joint \in Nat /\ extra \in Nat
  BY Finite DEF TypeOK
<1>7. J <= I + 1 /\ (Inviting = {} => J <= 1)
  <2>1. /\ IsFiniteSet(Inviting \cup {q})
        /\ Cardinality(Inviting \cup {q}) = IF q \in Inviting THEN I ELSE I + 1
    BY Finite, FS_AddElement
  <2>2. J <= Cardinality(Inviting \cup {q})
    BY <1>5, <2>1, FS_Subset
  <2>3. Inviting = {} => I = 0
    BY FS_EmptySet
  <2>4. QED
    BY <1>6, <2>1, <2>2, <2>3
<1>8. A <= Limit + joint + extra /\ (Inviting # {} => A + I <= Limit + joint + extra)
  BY DEF SeatsKept
<1>9. A < Limit
  BY <1>6 DEF BeginInvite, SeatLeft, TypeOK, OrganizationsAssumption
<1>10. UNCHANGED <<team, extra>> /\ joint' = IF Inviting # {} THEN joint + 1 ELSE joint
  BY <1>1 DEF Begin, BeginInvite
<1>11. A <= Limit + joint' + extra' /\ A + J <= Limit + joint' + extra'
  <2>1. CASE Inviting = {}
    BY <1>6, <1>7, <1>9, <1>10, <2>1 DEF OrganizationsAssumption
  <2>2. CASE Inviting # {}
    BY <1>6, <1>7, <1>8, <1>10, <2>2 DEF OrganizationsAssumption
  <2>3. QED
    BY <2>1, <2>2
<1>12. SeatsKept'
  BY <1>10, <1>11 DEF SeatsKept
<1>13. QED
  BY <1>4, <1>12

\* Who begins to remove an owner has counted another one.
LEMMA BeginRemoveKeeps ==
    ASSUME OrganizationsAssumption, IInv, NEW q \in Requests, NEW p \in People, BeginRemove(q, p)
    PROVE  OwnersKept' /\ SeatsKept'
<1> TypeOK /\ OwnersKept /\ SeatsKept /\ AllScripted
  BY DEF IInv
<1>1. Begin(q, "remove", p, team[p]) /\ joint' = joint /\ MayRemove(team, team[p])
  BY DEF BeginRemove
<1>2. /\ todo'[q] = <<"remove">> /\ kind'[q] = "remove" /\ copy'[q] = team[p] /\ who'[q] = p
      /\ \A r \in Requests \ {q} :
           todo'[r] = todo[r] /\ kind'[r] = kind[r] /\ copy'[r] = copy[r] /\ who'[r] = who[r]
      /\ UNCHANGED <<team, edited, extra>>
  BY <1>1, Scripts DEF Begin, TypeOK
<1>3. Inviting' \subseteq Inviting
  BY <1>2 DEF Inviting, Busy, Active
<1>4. SeatsKept'
  BY <1>1, <1>2, <1>3, SeatsQuiet
<1>5. ~Active(q)
  BY <1>1, Scripts DEF Begin, AllScripted, Scripted
<1>6. ASSUME team[p].role = "owner"
      PROVE  \E o \in Owners(team) : o # p
  <2>1. SUFFICES ASSUME Owners(team) \subseteq {p} PROVE FALSE
    OBVIOUS
  <2>2. IsFiniteSet({p}) /\ Cardinality({p}) = 1
    BY FS_Singleton
  <2>3. Cardinality(Owners(team)) <= 1 /\ Cardinality(Owners(team)) \in Nat
    BY <2>1, <2>2, FS_Subset, FS_CardinalityType
  <2>4. Cardinality(Owners(team)) > 1
    BY <1>1, <1>6 DEF MayRemove
  <2>5. QED
    BY <2>3, <2>4
<1>7. ~raced' =>
        /\ ~raced
        /\ team[p].role = "owner" => \A r \in Requests : ~Pending(r)
  BY Zenon DEF BeginRemove, Pending
<1>8. ASSUME ~edited, NEW r \in Requests,
             At(r, "revive")' \/ (At(r, "remove") /\ copy[r].role = "member")'
      PROVE  who'[r] \notin Owners(team')
  <2>1. CASE r = q
    <3>1. team[p].role = "member"
      BY <1>2, <1>8, <2>1 DEF At, Active
    <3>2. p \notin Owners(team)
      BY <3>1 DEF Owners
    <3>3. QED
      BY <1>2, <2>1, <3>2
  <2>2. CASE r # q
    BY <1>2, <1>8, <2>2 DEF OwnersKept, At, Active
  <2>3. QED
    BY <2>1, <2>2
<1>9. ASSUME ~edited, ~raced'
      PROVE  /\ Owners(team') # {}
             /\ \A r \in Requests : Pending(r)' => \E o \in Owners(team') : o # who'[r]
             /\ \A r, s \in Requests : Pending(r)' /\ Pending(s)' => r = s
  <2>1. \A r \in Requests \ {q} : Pending(r)' => Pending(r) /\ who'[r] = who[r]
    BY <1>2 DEF Pending, At, Active
  <2>2. Pending(q)' => team[p].role = "owner"
    BY <1>2 DEF Pending
  <2>3. QED
    BY <1>2, <1>6, <1>7, <1>9, <2>1, <2>2 DEF OwnersKept
<1>10. OwnersKept'
  BY <1>2, <1>8, <1>9, Zenon DEF OwnersKept
<1>11. QED
  BY <1>4, <1>10

\* A request that ends.
LEMMA Ended ==
    ASSUME TypeOK, NEW q \in Requests, Finish(q)
    PROVE  /\ todo'[q] = <<>>
           /\ \A r \in Requests \ {q} : todo'[r] = todo[r] /\ copy'[r] = copy[r] /\ kind'[r] = kind[r]
           /\ Inviting' \subseteq Inviting \ {q}
<1>1. /\ todo'[q] = <<>>
      /\ \A r \in Requests \ {q} : todo'[r] = todo[r] /\ copy'[r] = copy[r] /\ kind'[r] = kind[r]
  BY FinishStep
<1>2. Inviting' \subseteq Inviting \ {q}
  BY <1>1 DEF Inviting, Busy, Active
<1>3. QED
  BY <1>1, <1>2

LEMMA JoinKeeps ==
    ASSUME OrganizationsAssumption, IInv, NEW q \in Requests, Join(q)
    PROVE  OwnersKept' /\ SeatsKept'
<1> TypeOK /\ OwnersKept /\ SeatsKept /\ AllScripted
  BY DEF IInv
<1> DEFINE p == who[q]
<1>1. Active(q) /\ kind[q] = "invite" /\ p \in People /\ q \in Inviting
      /\ UNCHANGED <<who, edited, extra, joint, raced>>
  BY StepOfKind DEF Join, At, Scripted, Inviting, Busy, history
<1>2. CASE team[p] = None /\ team' = [team EXCEPT ![p] = NewRow(p)] /\ Finish(q)
  <2>1. NewRow(p).role = "member"
    BY DEF NewRow
  <2>2. Owners(team') = Owners(team) /\ ActiveMembers(team') \subseteq ActiveMembers(team) \cup {p}
    <3>1. p \notin Owners(team)
      BY <1>2 DEF Owners, ActiveMembers, Members
    <3>2. /\ Owners(team) \ {p} \subseteq Owners(team') /\ Owners(team') \subseteq Owners(team) \cup {p}
          /\ p \notin Owners(team') /\ ActiveMembers(team') \subseteq ActiveMembers(team) \cup {p}
      BY <1>1, <1>2, <2>1, TeamUpdate
    <3>3. QED
      BY <3>1, <3>2
  <2>3. OwnersKept'
    BY <1>1, <1>2, <2>2, Ended, OwnersQuiet
  <2>4. SeatsKept'
    BY <1>1, <1>2, <2>2, Ended, SeatTaken
  <2>5. QED
    BY <2>3, <2>4
<1>3. CASE team' = team /\ Finish(q)
  BY <1>1, <1>3, FinishKeeps
<1>4. CASE team[p] # None /\ ~team[p].active /\ UNCHANGED <<team, kind>>
           /\ copy' = [copy EXCEPT ![q] = team[p]] /\ todo' = [todo EXCEPT ![q] = <<"revive">>]
  <2>1. /\ todo'[q] = <<"revive">>
        /\ \A r \in Requests \ {q} : todo'[r] = todo[r] /\ copy'[r] = copy[r]
    BY <1>4 DEF TypeOK
  <2>2. Head(todo'[q]) = "revive" /\ p \notin Owners(team)
    BY <1>4, <2>1 DEF Owners, ActiveMembers
  <2>3. OwnersKept'
    BY <1>1, <1>4, <2>1, <2>2, OwnersQuiet
  <2>4. Inviting' \subseteq Inviting
    BY <1>1, <1>4, <2>1 DEF Inviting, Busy, Active
  <2>5. QED
    BY <1>1, <1>4, <2>3, <2>4, SeatsQuiet
<1>5. QED
  BY <1>2, <1>3, <1>4 DEF Join

\* Whoever is revived was no owner and becomes none.
LEMMA ReviveKeeps ==
    ASSUME OrganizationsAssumption, IInv, NEW q \in Requests, Revive(q)
    PROVE  OwnersKept' /\ SeatsKept'
<1> TypeOK /\ OwnersKept /\ SeatsKept /\ AllScripted
  BY DEF IInv
<1> DEFINE p == who[q]
<1>1. Active(q) /\ At(q, "revive") /\ p \in People /\ q \in Inviting /\ Finish(q)
      /\ UNCHANGED <<who, edited, extra, joint, raced>>
  BY StepOfKind DEF Revive, At, Scripted, Inviting, Busy, history
<1>2. CASE StillThere(q)
  <2>1. team[p] \in Row
    BY <1>1, <1>2 DEF StillThere, TypeOK
  <2>2. PICK row : row = [team[p] EXCEPT !.active = TRUE, !.role = "member"]
    OBVIOUS
  <2>3. row.role = "member" /\ team' = [team EXCEPT ![p] = row]
    BY <1>2, <2>1, <2>2 DEF Revive, Row
  <2>4. ~edited => Owners(team') = Owners(team)
    <3>1. ~edited => p \notin Owners(team)
      BY <1>1 DEF OwnersKept
    <3>2. /\ Owners(team) \ {p} \subseteq Owners(team') /\ Owners(team') \subseteq Owners(team) \cup {p}
          /\ p \notin Owners(team')
      BY <1>1, <2>3, TeamUpdate
    <3>3. QED
      BY <3>1, <3>2
  <2>5. ActiveMembers(team') \subseteq ActiveMembers(team) \cup {p}
    BY <1>1, <2>3, TeamUpdate
  <2>6. OwnersKept'
    BY <1>1, <2>4, Ended, OwnersQuiet
  <2>7. SeatsKept'
    BY <1>1, <2>5, Ended, SeatTaken
  <2>8. QED
    BY <2>6, <2>7
<1>3. CASE ~StillThere(q)
  BY <1>1, <1>3, FinishKeeps DEF Revive
<1>4. QED
  BY <1>2, <1>3

\* Whoever is removed was no owner, or leaves one behind.
LEMMA RemoveKeeps ==
    ASSUME OrganizationsAssumption, IInv, NEW q \in Requests, Remove(q)
    PROVE  OwnersKept' /\ SeatsKept'
<1> TypeOK /\ OwnersKept /\ SeatsKept /\ AllScripted
  BY DEF IInv
<1> DEFINE p == who[q]
<1>1. Active(q) /\ At(q, "remove") /\ p \in People /\ Finish(q) /\ copy[q] \in Row
      /\ UNCHANGED <<who, edited, extra, joint, raced>>
  BY StepOfKind DEF Remove, At, Scripted
<1>2. CASE StillThere(q)
  <2>1. team' = [team EXCEPT ![p] = None]
    BY <1>2 DEF Remove
  <2>2. ActiveMembers(team') \subseteq ActiveMembers(team) /\ Owners(team') = Owners(team) \ {p}
    <3>1. \A o \in People \ {p} : team'[o] = team[o]
      BY <2>1 DEF TypeOK
    <3>2. team'[p] = None
      BY <1>1, <2>1 DEF TypeOK
    <3>3. QED
      BY <3>1, <3>2 DEF ActiveMembers, Members, Owners
  <2>3. SeatsKept'
    BY <1>1, <2>2, Ended, SeatsQuiet
  <2>4. CASE copy[q].role = "member"
    <3>1. ~edited => Owners(team') = Owners(team)
      BY <1>1, <2>2, <2>4 DEF OwnersKept
    <3>2. OwnersKept'
      BY <1>1, <3>1, Ended, OwnersQuiet
    <3>3. QED
      BY <2>3, <3>2
  <2>5. CASE copy[q].role = "owner"
    <3>1. Pending(q)
      BY <1>1, <2>5 DEF Pending
    <3>2. todo'[q] = <<>> /\ \A r \in Requests \ {q} : todo'[r] = todo[r] /\ copy'[r] = copy[r]
      BY <1>1, Ended
    <3>3. ASSUME ~edited, NEW r \in Requests,
                 At(r, "revive")' \/ (At(r, "remove") /\ copy[r].role = "member")'
          PROVE  who'[r] \notin Owners(team')
      BY <1>1, <2>2, <3>2, <3>3 DEF OwnersKept, At, Active
    <3>4. \A r \in Requests : Pending(r)' => r # q /\ Pending(r)
      BY <3>2 DEF Pending, At, Active
    <3>5. ASSUME ~edited, ~raced
          PROVE  Owners(team') # {} /\ \A r \in Requests : ~Pending(r)'
      BY <2>2, <3>1, <3>4, <3>5 DEF OwnersKept
    <3>6. OwnersKept'
      BY <1>1, <3>3, <3>5, Zenon DEF OwnersKept
    <3>7. QED
      BY <2>3, <3>6
  <2>6. QED
    BY <1>1, <2>4, <2>5 DEF Row
<1>3. CASE ~StillThere(q)
  BY <1>1, <1>3, FinishKeeps DEF Remove
<1>4. QED
  BY <1>2, <1>3

\* An edit that makes somebody active is counted in extra.
LEMMA SaveKeeps ==
    ASSUME OrganizationsAssumption, IInv, NEW q \in Requests, Save(q)
    PROVE  OwnersKept' /\ SeatsKept'
<1> TypeOK /\ OwnersKept /\ SeatsKept /\ AllScripted
  BY DEF IInv
<1> DEFINE p == who[q]
<1>1. Active(q) /\ p \in People /\ Finish(q) /\ copy[q] \in Row /\ UNCHANGED <<who, joint, raced>>
  BY StepOfKind DEF Save, At, Scripted
<1>2. PICK r \in {"owner", "member"}, a \in BOOLEAN :
         IF StillThere(q) \/ team[p] = None
         THEN /\ team' = [team EXCEPT ![p] = [copy[q] EXCEPT !.role = r, !.active = a]]
              /\ edited' = TRUE
              /\ extra' = IF a /\ p \notin ActiveMembers(team) THEN extra + 1 ELSE extra
         ELSE UNCHANGED <<team, edited, extra>>
  BY DEF Save
<1>3. CASE StillThere(q) \/ team[p] = None
  <2>1. OwnersKept'
    BY <1>2, <1>3 DEF OwnersKept
  <2>2. PICK row : row = [copy[q] EXCEPT !.role = r, !.active = a]
    OBVIOUS
  <2>3. team' = [team EXCEPT ![p] = row] /\ row.active = a
    BY <1>1, <1>2, <1>3, <2>2 DEF Row
  <2> DEFINE A == ActiveMembers(team)
             B == ActiveMembers(team')
  <2>4. B \subseteq A \cup {p} /\ (~a => B \subseteq A)
    BY <1>1, <2>3, TeamUpdate
  <2>5. Inviting' \subseteq Inviting /\ joint' = joint
    BY <1>1, Ended
  <2>6. CASE ~a \/ p \in A
    <3>1. B \subseteq A /\ extra' = extra
      BY <1>2, <1>3, <2>4, <2>6
    <3>2. SeatsKept'
      BY <2>5, <3>1, SeatsQuiet
    <3>3. QED
      BY <2>1, <3>2
  <2>7. CASE a /\ p \notin A
    <3>1. extra' = extra + 1
      BY <1>2, <1>3, <2>7
    <3>2. /\ Cardinality(A) \in Nat /\ Cardinality(B) \in Nat
          /\ Cardinality(Inviting) \in Nat /\ Cardinality(Inviting') \in Nat
          /\ joint \in Nat /\ extra \in Nat /\ Limit \in Nat /\ IsFiniteSet(A)
      BY Finite DEF TypeOK, OrganizationsAssumption
    <3>3. Cardinality(B) <= Cardinality(A) + 1
      <4> HIDE DEF A, B
      <4>1. IsFiniteSet(A \cup {p}) /\ Cardinality(A \cup {p}) = Cardinality(A) + 1
        BY <2>7, <3>2, FS_AddElement
      <4>2. QED
        BY <2>4, <4>1, FS_Subset
    <3>4. Cardinality(Inviting') <= Cardinality(Inviting) /\ (Inviting' # {} => Inviting # {})
      BY <2>5, Finite, FS_Subset
    <3>5. SeatsKept'
      BY <2>5, <3>1, <3>2, <3>3, <3>4 DEF SeatsKept
    <3>6. QED
      BY <2>1, <3>5
  <2>8. QED
    BY <2>6, <2>7
<1>4. CASE ~(StillThere(q) \/ team[p] = None)
  BY <1>1, <1>2, <1>4, FinishKeeps
<1>5. QED
  BY <1>3, <1>4

-----------------------------------------------------------------------------
(* The inductive invariant and the theorems                                  *)

LEMMA NextIInv ==
    ASSUME OrganizationsAssumption, IInv, [Next]_vars
    PROVE  IInv'
<1> TypeOK /\ AllScripted /\ Unbegun /\ OwnersKept /\ SeatsKept
  BY DEF IInv
<1>1. CASE UNCHANGED vars
  BY <1>1 DEF vars, IInv, TypeOK, AllScripted, Scripted, Unbegun, OwnersKept, SeatsKept,
              Pending, At, Active, Inviting, Busy
<1>2. ASSUME NEW q \in Requests, NEW p \in People,
             BeginRegister(q, p) \/ BeginInvite(q, p) \/ BeginRemove(q, p) \/ BeginEdit(q, p)
      PROVE  IInv'
  BY <1>2, BeginTypes, BeginKeeps, BeginInviteKeeps, BeginRemoveKeeps DEF IInv
<1>3. ASSUME NEW q \in Requests, LookUp(q) \/ CreateAccount(q)
      PROVE  IInv'
  BY <1>3, AccountTypes, LookUpKeeps, CreateAccountKeeps DEF IInv
<1>4. ASSUME NEW q \in Requests, ChooseSlug(q) \/ CreateOrganization(q) \/ Provision(q)
      PROVE  IInv'
  <2>1. /\ Active(q)
        /\ Proceed(q) \/ Finish(q)
        /\ Head(todo[q]) \in {"slug", "organization"} \cup Parts
        /\ UNCHANGED <<who, team, edited, extra, joint, raced>>
    BY <1>4 DEF ChooseSlug, CreateOrganization, Provision, At, history
  <2>2. kind[q] = "register"
    BY <2>1, StepOfKind
  <2>3. QED
    BY <1>4, <2>1, <2>2, RegistrationTypes, RegistrationKeeps DEF IInv
<1>5. ASSUME NEW q \in Requests, Join(q) \/ Revive(q) \/ Remove(q) \/ Save(q) \/ Crash(q)
      PROVE  IInv'
  <2>1. CASE Crash(q)
    <3>1. OwnersKept' /\ SeatsKept'
      BY <2>1, FinishKeeps DEF Crash, history
    <3>2. QED
      BY <2>1, <3>1, TeamTypes DEF IInv
  <2>2. CASE ~Crash(q)
    BY <1>5, <2>2, TeamTypes, JoinKeeps, ReviveKeeps, RemoveKeeps, SaveKeeps DEF IInv
  <2>3. QED
    BY <2>1, <2>2
<1>6. ASSUME \/ \E q \in Requests, part \in Unique \cup {"templates"} : Visit(q, part)
             \/ PlanChanges
      PROVE  IInv'
  <2>1. UNCHANGED <<team, kind, who, copy, todo, edited, extra, joint, raced>>
    BY <1>6 DEF Visit, PlanChanges, history
  <2>2. OwnersKept' /\ SeatsKept'
    BY <2>1 DEF OwnersKept, SeatsKept, Pending, At, Active, Inviting, Busy
  <2>3. QED
    BY <1>6, <2>2, OutsideTypes DEF IInv
<1>7. QED
  BY <1>1, <1>2, <1>3, <1>4, <1>5, <1>6 DEF Next

\* The inductive invariant holds of every state.
LEMMA AlwaysIInv ==
    ASSUME OrganizationsAssumption
    PROVE  Spec => []IInv
<1>1. Init => IInv
  BY InitIInv
<1>2. IInv /\ [Next]_vars => IInv'
  BY NextIInv
<1>3. QED
  BY <1>1, <1>2, PTL DEF Spec

\* Rows, requests and organizations have their types; in particular a request that goes
\* on never holds a step that is in no script, and a free slug is always found.
THEOREM TypeCorrect == OrganizationsAssumption => (Spec => []TypeOK)
<1> SUFFICES ASSUME OrganizationsAssumption PROVE Spec => []TypeOK
  OBVIOUS
<1>1. IInv => TypeOK
  BY DEF IInv
<1>2. QED
  BY <1>1, AlwaysIInv, PTL

\* The plan's limit of members is exceeded by no more than the invitations that were
\* counted side by side and the members made active by an edit (services.py:126).
THEOREM MembersAreLimited == OrganizationsAssumption => (Spec => []MembersWithinLimit)
<1> SUFFICES ASSUME OrganizationsAssumption PROVE Spec => []MembersWithinLimit
  OBVIOUS
<1>1. IInv => MembersWithinLimit
  BY DEF IInv, SeatsKept, MembersWithinLimit
<1>2. QED
  BY <1>1, AlwaysIInv, PTL

\* An organization loses its last active owner only to an edit or to two removals that
\* counted the owners before either deleted one (views.py:105).
THEOREM AnOwnerRemains == OrganizationsAssumption => (Spec => []OwnerRemains)
<1> SUFFICES ASSUME OrganizationsAssumption PROVE Spec => []OwnerRemains
  OBVIOUS
<1>1. IInv => OwnerRemains
  BY DEF IInv, OwnersKept, OwnerRemains
<1>2. QED
  BY <1>1, AlwaysIInv, PTL
-----------------------------------------------------------------------------
(* What a registration leaves                                                *)

\* Nothing is done twice, and who has an account goes on to the owner's membership.
Planned(s) ==
    /\ \A i, j \in 1..Len(s) : s[i] = s[j] => i = j
    /\ \A i \in 1..Len(s) :
         /\ s[i] = "account" => i < Len(s) /\ s[i + 1] = "slug"
         /\ s[i] = "slug" => i < Len(s) /\ s[i + 1] = "organization"
         /\ s[i] = "organization" => i < Len(s) /\ s[i + 1] = "owner"

Elements(s) == {s[i] : i \in 1..Len(s)}

Registering(q) == Active(q) /\ kind[q] = "register"

AllPlanned == \A q \in Requests : Registering(q) => Planned(todo[q])

OnlyRegistrations == \A q \in Requests : kind[q] \in {"invite", "remove", "edit"} => org[q] = None

Got(q) == IF org[q] = None THEN {} ELSE org[q]

\* What an organization has got and what is still to do make up the whole, until a name
\* that is too long ends it.
PartsAccounted ==
    crashes = 0 /\ ~visited =>
        \A q \in Requests :
            Registering(q) \/ (org[q] # None /\ SenderFits(q)) => Got(q) = Parts \ Elements(todo[q])

\* A request that is about to bring its person into an organization, has done so, or could
\* not because of the slug.
Claims(q) ==
    \/ Registering(q) /\ Head(todo[q]) \in {"slug", "organization", "owner"}
    \/ At(q, "join")
    \/ org[q] # None /\ "owner" \in org[q]
    \/ kind[q] = "ended" /\ ~SlugFits(q)

\* The name that request r came with, and its slug, do not change.
SameName(r) == name'[r] = name[r] /\ slug'[r] = slug[r]

Settled(p) == p \in removed \/ team[p] # None

Placed ==
    crashes = 0 /\ ~slugRaced =>
        \A p \in users : Settled(p) \/ \E q \in Requests : who[q] = p /\ Claims(q)

WInv == AllPlanned /\ OnlyRegistrations /\ PartsAccounted /\ Placed

LEMMA RegisterPlanned == Planned(Script["register"]) /\ Parts \subseteq Elements(Script["register"])
<1> DEFINE s == Script["register"]
<1>1. \A i \in 1..10 : i \in {1, 2, 3, 4, 5, 6, 7, 8, 9, 10}
  OBVIOUS
<1>2. \A i \in {1, 2, 3, 4, 5, 6, 7, 8, 9, 10} : i \in 1..10
  OBVIOUS
<1> HIDE DEF s
<1>3. Planned(s)
  <2> DEFINE Place(x) ==
        CASE x = "account" -> 1 [] x = "slug" -> 2 [] x = "organization" -> 3 [] x = "owner" -> 4
          [] x = "branding" -> 5 [] x = "profile" -> 6 [] x = "mail" -> 7
          [] x = "subscription" -> 8 [] x = "templates" -> 9 [] OTHER -> 10
  <2>1. \A i \in 1..10 : Place(s[i]) = i
    BY <1>1, RegisterIs DEF s
  <2> HIDE DEF Place
  <2>2. \A i, j \in 1..10 : s[i] = s[j] => i = j
    BY <2>1
  <2>3. ASSUME NEW i \in 1..10
        PROVE  /\ s[i] = "account" => i = 1
               /\ s[i] = "slug" => i = 2
               /\ s[i] = "organization" => i = 3
    BY <1>1, RegisterIs DEF s
  <2>4. QED
    BY <2>2, <2>3, RegisterIs DEF Planned, s
<1>4. ASSUME NEW x \in Parts PROVE x \in Elements(s)
  <2>1. \E i \in {4, 5, 6, 7, 8, 9, 10} : s[i] = x
    BY RegisterIs, PartsAre DEF s
  <2>2. QED
    BY <1>2, <2>1, RegisterIs DEF Elements, s
<1>5. QED
  BY <1>3, <1>4 DEF s

LEMMA PlannedGoesOn ==
    ASSUME NEW S, NEW s \in Seq(S), s # <<>>, Planned(s)
    PROVE  /\ Planned(Tail(s))
           /\ Elements(Tail(s)) = Elements(s) \ {Head(s)}
           /\ Head(s) \in Elements(s)
           /\ Head(s) \in {"account", "slug", "organization"} => Len(s) # 1
           /\ Head(s) = "account" => Head(Tail(s)) = "slug"
           /\ Head(s) = "slug" => Head(Tail(s)) = "organization"
           /\ Head(s) = "organization" => Head(Tail(s)) = "owner"
           /\ Len(s) = 1 => Tail(s) = <<>>
<1> DEFINE t == Tail(s)
<1>1. Len(s) \in Nat \ {0} /\ Head(s) = s[1]
  OBVIOUS
<1>2. t \in Seq(S) /\ Len(t) = Len(s) - 1 /\ \A i \in 1..Len(t) : t[i] = s[i + 1]
  BY HeadTailProperties
<1> HIDE DEF t
<1>3. Planned(t)
  <2>1. \A i \in 1..Len(t) : i + 1 \in 1..Len(s) /\ (i + 1 < Len(s) => i < Len(t) /\ i + 1 \in 1..Len(t))
    BY <1>1, <1>2
  <2>2. ASSUME NEW i \in 1..Len(t), NEW j \in 1..Len(t), t[i] = t[j]
        PROVE  i = j
    <3>1. s[i + 1] = s[j + 1] /\ i + 1 \in 1..Len(s) /\ j + 1 \in 1..Len(s)
      BY <1>2, <2>1, <2>2
    <3>2. i + 1 = j + 1
      BY <3>1 DEF Planned
    <3>3. QED
      BY <3>2
  <2>3. ASSUME NEW i \in 1..Len(t)
        PROVE  /\ t[i] = "account" => i < Len(t) /\ t[i + 1] = "slug"
               /\ t[i] = "slug" => i < Len(t) /\ t[i + 1] = "organization"
               /\ t[i] = "organization" => i < Len(t) /\ t[i + 1] = "owner"
    <3>1. /\ t[i] = "account" => i + 1 < Len(s) /\ s[i + 1 + 1] = "slug"
          /\ t[i] = "slug" => i + 1 < Len(s) /\ s[i + 1 + 1] = "organization"
          /\ t[i] = "organization" => i + 1 < Len(s) /\ s[i + 1 + 1] = "owner"
      BY <1>2, <2>1 DEF Planned
    <3>2. QED
      BY <1>2, <2>1, <3>1
  <2>4. QED
    BY <2>2, <2>3 DEF Planned
<1>4. Elements(t) = Elements(s) \ {s[1]}
  <2>1. ASSUME NEW i \in 1..Len(t)
        PROVE  t[i] \in Elements(s) /\ t[i] # s[1]
    <3>1. t[i] = s[i + 1] /\ i + 1 \in 1..Len(s) /\ 1 \in 1..Len(s) /\ i + 1 # 1
      BY <1>1, <1>2
    <3>2. QED
      BY <3>1 DEF Elements, Planned
  <2>2. ASSUME NEW i \in 1..Len(s), s[i] # s[1]
        PROVE  s[i] \in Elements(t)
    <3>1. i - 1 \in 1..Len(t) /\ t[i - 1] = s[i]
      BY <1>1, <1>2, <2>2
    <3>2. QED
      BY <3>1 DEF Elements
  <2>3. QED
    BY <2>1, <2>2 DEF Elements
<1>5. s[1] \in Elements(s) /\ 1 \in 1..Len(s)
  BY <1>1 DEF Elements
<1>6. /\ s[1] = "account" => Len(s) # 1 /\ s[2] = "slug"
      /\ s[1] = "slug" => Len(s) # 1 /\ s[2] = "organization"
      /\ s[1] = "organization" => Len(s) # 1 /\ s[2] = "owner"
  BY <1>1, <1>5 DEF Planned
<1>7. Len(s) # 1 => Head(t) = s[2]
  <2>1. ASSUME Len(s) # 1 PROVE t # <<>> /\ 1 \in 1..Len(t)
    BY <1>1, <1>2, <2>1
  <2>2. QED
    BY <1>2, <2>1
<1>8. Len(s) = 1 => t = <<>>
  BY <1>2
<1>9. QED
  BY <1>1, <1>3, <1>4, <1>5, <1>6, <1>7, <1>8 DEF t

LEMMA NothingLeft == Elements(<<>>) = {}
BY DEF Elements

\* What a step of one request has to show.
LEMMA OneAccounted ==
    ASSUME WInv, NEW q \in Requests, \A r \in Requests \ {q} : Same(r) /\ SameName(r),
           Registering(q)' => Planned(todo[q])',
           kind'[q] \in {"invite", "remove", "edit"} => org'[q] = None,
           crashes' = 0 /\ ~visited' =>
               /\ crashes = 0 /\ ~visited
               /\ Registering(q)' \/ (org'[q] # None /\ SenderFits(q)') => Got(q)' = Parts \ Elements(todo[q])'
    PROVE  AllPlanned' /\ OnlyRegistrations' /\ PartsAccounted'
<1>1. \A r \in Requests \ {q} : /\ Registering(r)' = Registering(r) /\ Got(r)' = Got(r)
                                /\ SenderFits(r)' = SenderFits(r) /\ todo'[r] = todo[r]
                                /\ org'[r] = org[r] /\ kind'[r] = kind[r]
  BY DEF Same, SameName, SenderFits, Registering, Active, Got
<1>2. AllPlanned'
  BY <1>1 DEF WInv, AllPlanned, Planned
<1>3. OnlyRegistrations'
  BY <1>1 DEF WInv, OnlyRegistrations
<1>4. PartsAccounted'
  BY <1>1 DEF WInv, PartsAccounted, Elements
<1>5. QED
  BY <1>2, <1>3, <1>4

LEMMA OnePlaced ==
    ASSUME TypeOK, WInv, NEW q \in Requests, \A r \in Requests \ {q} : Same(r) /\ SameName(r),
           crashes' = 0 /\ ~slugRaced' => crashes = 0 /\ ~slugRaced,
           \A p \in People : Settled(p) => Settled(p)',
           crashes' = 0 /\ ~slugRaced' =>
               \A p \in users' :
                   p \notin users \/ (who[q] = p /\ Claims(q)) => Settled(p)' \/ (who'[q] = p /\ Claims(q)')
    PROVE  Placed'
<1> SUFFICES ASSUME crashes' = 0, ~slugRaced', NEW p \in users', ~Settled(p)'
             PROVE  \E r \in Requests : who'[r] = p /\ Claims(r)'
  BY DEF Placed, Settled
<1>1. CASE p \notin users
  BY <1>1
<1>2. CASE p \in users
  <2>1. PICK r \in Requests : who[r] = p /\ Claims(r)
    BY <1>2 DEF WInv, Placed, TypeOK
  <2>2. CASE r = q
    BY <2>1, <2>2
  <2>3. CASE r # q
    BY <2>1, <2>3 DEF Same, SameName, SlugFits, Claims, Registering, At, Active
  <2>4. QED
    BY <2>2, <2>3
<1>3. QED
  BY <1>1, <1>2

\* A request that begins has nothing yet and plans everything.
LEMMA BeginWhole ==
    ASSUME IInv, WInv, NEW q \in Requests, NEW p \in People,
           BeginRegister(q, p) \/ BeginInvite(q, p) \/ BeginRemove(q, p) \/ BeginEdit(q, p)
    PROVE  WInv'
<1> USE DEF IInv
<1>1. PICK k, read : k \in DOMAIN Script /\ Begin(q, k, p, read)
  BY Scripts DEF BeginRegister, BeginInvite, BeginRemove, BeginEdit
<1>2. org[q] = None
  BY <1>1 DEF Begin, Unbegun
<1>3. ~Claims(q)
  BY <1>1, <1>2, Scripts DEF Begin, Claims, Registering, At, AllScripted, Scripted
<1>4. \A r \in Requests \ {q} : Same(r) /\ SameName(r)
  <2>1. \A r \in Requests \ {q} : Same(r) /\ slug'[r] = slug[r]
    BY <1>1 DEF Begin, Same, TypeOK
  <2>2. \A r \in Requests \ {q} : name'[r] = name[r]
    BY DEF BeginRegister, BeginInvite, BeginRemove, BeginEdit, TypeOK
  <2>3. QED
    BY <2>1, <2>2 DEF SameName
<1>5. /\ kind'[q] = k /\ todo'[q] = Script[k] /\ org'[q] = None
      /\ UNCHANGED <<users, team, crashes, slugRaced, visited, removed>>
  BY <1>1, <1>2 DEF Begin, TypeOK
<1>6. AllPlanned' /\ OnlyRegistrations' /\ PartsAccounted'
  <2>1. k = "register" => Planned(todo'[q]) /\ {} = Parts \ Elements(todo'[q])
    BY <1>5, RegisterPlanned
  <2>2. Got(q)' = {}
    BY <1>5 DEF Got
  <2>3. Registering(q)' => Planned(todo[q])' /\ Got(q)' = Parts \ Elements(todo[q])'
    BY <1>5, <2>1, <2>2 DEF Registering, Planned, Elements
  <2>4. QED
    BY <1>4, <1>5, <2>3, OneAccounted DEF WInv, PartsAccounted
<1>7. Placed'
  BY <1>3, <1>4, <1>5, OnePlaced DEF Settled
<1>8. QED
  BY <1>6, <1>7 DEF WInv

\* The steps of a registration, as far as what is left goes.
LEMMA PlanGoesOn ==
    ASSUME TypeOK, WInv, NEW q \in Requests, Registering(q), Proceed(q)
    PROVE  /\ Planned(todo[q]) /\ todo'[q] = Tail(todo[q])
           /\ Planned(todo'[q])
           /\ Head(todo[q]) \in {"account", "slug", "organization"} =>
                Active(q)' /\ kind'[q] = "register"
           /\ kind'[q] \in {"register", "ended"}
           /\ Elements(todo'[q]) = Elements(todo[q]) \ {Head(todo[q])}
           /\ Head(todo[q]) \in Elements(todo[q])
           /\ Head(todo[q]) = "account" => Head(todo'[q]) = "slug"
           /\ Head(todo[q]) = "slug" => Head(todo'[q]) = "organization"
           /\ Head(todo[q]) = "organization" => Head(todo'[q]) = "owner"
<1>1. todo[q] \in Seq(Steps) /\ todo[q] # <<>> /\ kind[q] = "register" /\ Planned(todo[q])
  BY DEF TypeOK, Registering, Active, WInv, AllPlanned
<1>2. Len(todo[q]) = 1 => Tail(todo[q]) = <<>>
  BY <1>1, PlannedGoesOn
<1>3. todo'[q] = Tail(todo[q]) /\ kind'[q] \in {"register", "ended"}
      /\ (Len(todo[q]) # 1 => kind'[q] = "register" /\ todo'[q] # <<>>)
  <2>1. CASE Len(todo[q]) = 1
    BY <1>1, <1>2, <2>1 DEF Proceed, Finish, TypeOK
  <2>2. CASE Len(todo[q]) # 1
    <3>1. Tail(todo[q]) # <<>>
      <4> DEFINE t == Tail(todo[q])
      <4>1. t \in Seq(Steps) /\ Len(t) = Len(todo[q]) - 1 /\ Len(todo[q]) \in Nat \ {0}
        BY <1>1, HeadTailProperties
      <4> HIDE DEF t
      <4>2. Len(t) # 0
        BY <2>2, <4>1
      <4>3. t # <<>>
        BY <4>1, <4>2, EmptySeq
      <4>4. QED
        BY <4>3 DEF t
    <3>2. QED
      BY <1>1, <2>2, <3>1 DEF Proceed, TypeOK
  <2>3. QED
    BY <2>1, <2>2
<1>4. QED
  BY <1>1, <1>3, PlannedGoesOn DEF Active

\* A step of a request that is no registration, or that ends: what is written is kept.
LEMMA OtherWhole ==
    ASSUME IInv, WInv, NEW q \in Requests, Active(q), \A r \in Requests \ {q} : Same(r) /\ SameName(r),
           UNCHANGED <<who, org>>,
           kind'[q] \in {kind[q], "ended"},
           Registering(q)' => FALSE,
           crashes' = 0 => crashes = 0 /\ org[q] = None,
           UNCHANGED <<slugRaced, visited>>,
           \A p \in People : Settled(p) => Settled(p)',
           crashes' = 0 =>
               \A p \in users' :
                   p \notin users \/ (who[q] = p /\ Claims(q)) => Settled(p)' \/ (who'[q] = p /\ Claims(q)')
    PROVE  WInv'
<1> USE DEF IInv
<1>1. kind'[q] \in {"invite", "remove", "edit"} => org'[q] = None
  BY DEF WInv, OnlyRegistrations
<1>2. AllPlanned' /\ OnlyRegistrations' /\ PartsAccounted'
  BY <1>1, OneAccounted
<1>3. Placed'
  BY OnePlaced
<1>4. QED
  BY <1>2, <1>3 DEF WInv

\* The account: a registration goes on to its slug, an invitation to the membership.
LEMMA AccountWhole ==
    ASSUME IInv, WInv, NEW q \in Requests, LookUp(q) \/ CreateAccount(q)
    PROVE  WInv'
<1> USE DEF IInv
<1>1. CASE LookUp(q)
  <2>1. Scripted(q) /\ kind[q] = "invite" /\ todo[q] = <<"lookup", "account", "join">> /\ Active(q)
    BY <1>1, StepOfKind DEF LookUp, At
  <2>2. org[q] = None
    BY <2>1 DEF WInv, OnlyRegistrations
  <2>3. ~Claims(q)
    BY <2>1, <2>2 DEF Claims, Registering, At
  <2>4. \A r \in Requests \ {q} : Same(r) /\ SameName(r)
    BY <1>1 DEF LookUp, Same, SameName, TypeOK
  <2>5. /\ UNCHANGED <<users, team, removed, who, org, kind, slugRaced, visited, crashes>>
    BY <1>1 DEF LookUp, history
  <2>6. QED
    BY <2>1, <2>2, <2>3, <2>4, <2>5, OtherWhole DEF Settled, Registering
<1>2. CASE CreateAccount(q)
  <2>1. /\ Active(q) /\ Head(todo[q]) = "account" /\ Scripted(q) /\ who[q] \in People
        /\ UNCHANGED <<who, name, slug, org, team, removed, slugRaced, visited, crashes>>
        /\ users' = users \cup {who[q]}
    BY <1>2, StepOfKind DEF CreateAccount, At, Scripted, history
  <2>2. org[q] = None
    BY <2>1, StepOfKind, PartsAre DEF Scripted, WInv, OnlyRegistrations
  <2>3. ~Claims(q)
    BY <2>1, <2>2, Scripts DEF Claims, At, Scripted
  <2>4. CASE who[q] \in users
    <3>1. Finish(q) /\ users' = users
      BY <1>2, <2>1, <2>4 DEF CreateAccount
    <3>2. /\ \A r \in Requests \ {q} : Same(r) /\ SameName(r)
          /\ kind'[q] = "ended"
      BY <2>1, <3>1 DEF Finish, Same, SameName, TypeOK
    <3>3. QED
      BY <2>1, <2>2, <2>3, <3>1, <3>2, OtherWhole DEF Settled, Registering
  <2>5. CASE who[q] \notin users /\ kind[q] = "register"
    <3>1. Proceed(q) /\ Registering(q)
      BY <1>2, <2>1, <2>5 DEF CreateAccount, Registering
    <3>2. \A r \in Requests \ {q} : Same(r) /\ SameName(r)
      BY <2>1, <3>1, ProceedStep DEF Same, SameName
    <3>3. Registering(q)' /\ Planned(todo'[q]) /\ Head(todo'[q]) = "slug"
      BY <2>1, <3>1, PlanGoesOn DEF Registering
    <3>4. Claims(q)'
      BY <3>3 DEF Claims
    <3>5. Placed'
      BY <2>1, <2>3, <3>2, <3>4, OnePlaced DEF Settled
    <3>6. Elements(todo'[q]) = Elements(todo[q]) \ {"account"} /\ "account" \notin Parts
      BY <2>1, <3>1, PlanGoesOn, PartsAre
    <3>7. crashes = 0 /\ ~visited => Got(q) = Parts \ Elements(todo[q])
      BY <3>1 DEF WInv, PartsAccounted
    <3>8. crashes' = 0 /\ ~visited' => Got(q)' = Parts \ Elements(todo[q])'
      BY <2>1, <3>6, <3>7 DEF Got, Elements
    <3>9. AllPlanned' /\ OnlyRegistrations' /\ PartsAccounted'
      BY <2>1, <2>2, <3>2, <3>3, <3>8, OneAccounted DEF Planned
    <3>10. QED
      BY <3>5, <3>9 DEF WInv
  <2>6. CASE who[q] \notin users /\ kind[q] = "invite" /\ todo[q] = <<"account", "join">>
    <3>1. /\ todo'[q] = <<"join">> /\ kind'[q] = "invite"
          /\ \A r \in Requests \ {q} : Same(r) /\ SameName(r)
      BY <1>2, <2>1, <2>6, InviteTails DEF CreateAccount, Proceed, Same, SameName, TypeOK
    <3>2. Claims(q)'
      BY <3>1 DEF Claims, At, Active
    <3>3. QED
      BY <2>1, <2>2, <2>3, <2>6, <3>1, <3>2, OtherWhole DEF Settled, Registering
  <2>7. QED
    BY <2>1, <2>4, <2>5, <2>6, StepOfKind
<1>3. QED
  BY <1>1, <1>2

\* The slug, the organization and its parts, one after the other.
LEMMA RegistrationWhole ==
    ASSUME IInv, WInv, NEW q \in Requests, ChooseSlug(q) \/ CreateOrganization(q) \/ Provision(q)
    PROVE  WInv'
<1> USE DEF IInv
<1>1. /\ Active(q) /\ Head(todo[q]) \in {"slug", "organization"} \cup Parts
      /\ UNCHANGED <<users, team, removed, who, name, crashes, visited>>
  BY DEF ChooseSlug, CreateOrganization, Provision, At, history
<1>2. Registering(q) /\ Scripted(q)
  BY <1>1, StepOfKind DEF Registering
<1>3. ASSUME Finish(q)
      PROVE  /\ ~Registering(q)' /\ kind'[q] = "ended"
             /\ org' = org /\ slug' = slug => \A r \in Requests \ {q} : Same(r) /\ SameName(r)
  BY <1>1, <1>3, FinishStep DEF Finish, Same, SameName, TypeOK, Registering, Active
<1>4. crashes = 0 /\ ~visited => Got(q) = Parts \ Elements(todo[q])
  BY <1>2 DEF WInv, PartsAccounted
<1>5. \A x \in {"slug", "organization"} : x \notin Parts
  BY PartsAre
<1>6. \A p \in People : Settled(p) => Settled(p)'
  BY <1>1 DEF Settled
<1>7. CASE ChooseSlug(q)
  <2>1. Head(todo[q]) = "slug" /\ Proceed(q) /\ UNCHANGED <<org, slugRaced>>
    BY <1>7 DEF ChooseSlug, At, history
  <2>2. \A r \in Requests \ {q} : Same(r) /\ SameName(r)
    <3>1. \A r \in Requests \ {q} : slug'[r] = slug[r]
      BY <1>7 DEF ChooseSlug, TypeOK
    <3>2. QED
      BY <1>1, <2>1, <3>1, ProceedStep DEF Same, SameName
  <2>3. /\ Registering(q)' /\ Planned(todo'[q]) /\ Head(todo'[q]) = "organization"
        /\ Elements(todo'[q]) = Elements(todo[q]) \ {"slug"} /\ kind'[q] = "register"
    BY <1>2, <2>1, PlanGoesOn DEF Registering
  <2>4. Placed'
    BY <1>1, <1>6, <2>1, <2>2, <2>3, OnePlaced DEF Claims
  <2>5. crashes' = 0 /\ ~visited' => Got(q)' = Parts \ Elements(todo[q])'
    BY <1>1, <1>4, <1>5, <2>1, <2>3 DEF Got, Elements
  <2>6. AllPlanned' /\ OnlyRegistrations' /\ PartsAccounted'
    BY <1>1, <2>2, <2>3, <2>5, OneAccounted DEF Planned
  <2>7. QED
    BY <2>4, <2>6 DEF WInv
<1>8. CASE CreateOrganization(q) /\ ~(SlugFits(q) /\ slug[q] \notin Taken(name[q]))
  <2>1. /\ Head(todo[q]) = "organization" /\ Finish(q) /\ UNCHANGED <<org, slug>>
        /\ slugRaced' = (slugRaced \/ SlugFits(q))
    BY <1>8 DEF CreateOrganization, At
  <2>2. org[q] = None
    BY <1>2, <1>5, <2>1 DEF Scripted, Registering
  <2>3. Placed'
    <3>1. CASE SlugFits(q)
      <4>1. slugRaced'
        BY <2>1, <3>1, Zenon
      <4>2. QED
        BY <4>1 DEF Placed
    <3>2. CASE ~SlugFits(q)
      <4>1. Claims(q)'
        BY <1>1, <1>3, <2>1, <3>2 DEF Claims, SlugFits
      <4>2. slugRaced' = slugRaced
        <5>1. slugRaced \in BOOLEAN
          BY DEF TypeOK
        <5>2. QED
          BY <2>1, <3>2, <5>1, Zenon
      <4>3. QED
        BY <1>1, <1>3, <1>6, <2>1, <4>1, <4>2, OnePlaced
    <3>3. QED
      BY <3>1, <3>2
  <2>4. AllPlanned' /\ OnlyRegistrations' /\ PartsAccounted'
    BY <1>1, <1>3, <2>1, <2>2, OneAccounted
  <2>5. QED
    BY <2>3, <2>4 DEF WInv
<1>9. CASE CreateOrganization(q) /\ SlugFits(q) /\ slug[q] \notin Taken(name[q])
  <2>1. Head(todo[q]) = "organization" /\ Proceed(q) /\ slugRaced' = slugRaced
        /\ org' = [org EXCEPT ![q] = {}] /\ slug' = slug
    BY <1>9 DEF CreateOrganization, At
  <2>2. \A r \in Requests \ {q} : Same(r) /\ SameName(r)
    BY <1>1, <2>1, ProceedStep DEF Same, SameName, TypeOK
  <2>3. /\ Registering(q)' /\ Planned(todo'[q]) /\ Head(todo'[q]) = "owner"
        /\ Elements(todo'[q]) = Elements(todo[q]) \ {"organization"} /\ kind'[q] = "register"
    BY <1>2, <2>1, PlanGoesOn DEF Registering
  <2>4. Placed'
    BY <1>1, <1>6, <2>1, <2>2, <2>3, OnePlaced DEF Claims
  <2>5. org[q] = None /\ org'[q] = {}
    BY <1>2, <1>5, <2>1 DEF Scripted, Registering, TypeOK
  <2>6. Got(q) = {} /\ Got(q)' = {}
    BY <2>5 DEF Got
  <2>7. crashes' = 0 /\ ~visited' => Got(q)' = Parts \ Elements(todo[q])'
    BY <1>1, <1>4, <1>5, <2>3, <2>6 DEF Elements
  <2>8. AllPlanned' /\ OnlyRegistrations' /\ PartsAccounted'
    BY <1>1, <2>2, <2>3, <2>7, OneAccounted DEF Planned
  <2>9. QED
    BY <2>4, <2>8 DEF WInv
<1>10. CASE Provision(q)
  <2> DEFINE h == Head(todo[q])
  <2>1. h \in Parts /\ UNCHANGED <<slug, slugRaced>>
    BY <1>10 DEF Provision, history
  <2>2. org[q] \in SUBSET Parts /\ org[q] # None /\ Got(q) = org[q]
    BY <1>2, <2>1, NoneAssumption DEF Scripted, Registering, Got
  <2>3. h \in Elements(todo[q])
    <3>1. todo[q] \in Seq(Steps) /\ todo[q] # <<>> /\ Planned(todo[q])
      BY <1>2 DEF TypeOK, WInv, AllPlanned, Registering, Active
    <3>2. QED
      BY <3>1, PlannedGoesOn
  <2>4. Claims(q) => h = "owner" \/ "owner" \in org[q]
    BY <1>2, <1>5, <2>1, PartsAre DEF Claims, At, Registering
  <2>5. CASE Refused(q, h)
    <3>1. Finish(q) /\ org' = org
      BY <1>10, <2>5 DEF Provision
    <3>2. h # "owner"
      BY <2>5 DEF Refused, Unique, SingleRows
    <3>3. Claims(q) => Claims(q)'
      BY <2>2, <2>4, <3>1, <3>2 DEF Claims
    <3>4. Placed'
      BY <1>1, <1>3, <1>6, <2>1, <3>1, <3>3, OnePlaced
    <3>5. crashes = 0 /\ ~visited => ~SenderFits(q)
      BY <1>4, <2>2, <2>3, <2>5 DEF Refused
    <3>6. AllPlanned' /\ OnlyRegistrations' /\ PartsAccounted'
      <4>1. SenderFits(q)' = SenderFits(q)
        BY <1>1 DEF SenderFits
      <4>2. QED
        BY <1>1, <1>3, <2>1, <3>1, <3>5, <4>1, OneAccounted
    <3>7. QED
      BY <3>4, <3>6 DEF WInv
  <2>6. CASE ~Refused(q, h)
    <3>1. Proceed(q) /\ org' = [org EXCEPT ![q] = @ \cup {h}]
      BY <1>10, <2>6 DEF Provision
    <3>2. \A r \in Requests \ {q} : Same(r) /\ SameName(r)
      BY <1>1, <2>1, <3>1, ProceedStep DEF Same, SameName, TypeOK
    <3>3. org'[q] = org[q] \cup {h} /\ org'[q] \in SUBSET Parts /\ org'[q] # None
      BY <2>1, <2>2, <3>1, NoneAssumption DEF TypeOK
    <3>4. /\ Planned(todo'[q]) /\ Elements(todo'[q]) = Elements(todo[q]) \ {h}
          /\ kind'[q] \in {"register", "ended"}
      BY <1>2, <3>1, PlanGoesOn
    <3>5. Claims(q) => Claims(q)'
      BY <2>4, <3>3 DEF Claims
    <3>6. Placed'
      BY <1>1, <1>6, <2>1, <3>2, <3>5, OnePlaced
    <3>7. Got(q)' = org'[q]
      BY <3>3 DEF Got
    <3>8. crashes' = 0 /\ ~visited' => Got(q)' = Parts \ Elements(todo[q])'
      <4>1. Elements(todo[q])' = Elements(todo'[q])
        BY DEF Elements
      <4>2. crashes = 0 /\ ~visited => org[q] = Parts \ Elements(todo[q])
        BY <1>4, <2>2
      <4>3. QED
        BY <1>1, <2>1, <2>3, <3>3, <3>4, <3>7, <4>1, <4>2
    <3>9. AllPlanned' /\ OnlyRegistrations' /\ PartsAccounted'
      BY <1>1, <3>2, <3>4, <3>8, OneAccounted DEF Planned
    <3>10. QED
      BY <3>6, <3>9 DEF WInv
  <2>7. QED
    BY <2>5, <2>6
<1>11. QED
  BY <1>7, <1>8, <1>9, <1>10

\* The team: an invitation leaves its person a member, a removal is remembered.
LEMMA TeamWhole ==
    ASSUME IInv, WInv, NEW q \in Requests, Join(q) \/ Revive(q) \/ Remove(q) \/ Save(q)
    PROVE  WInv'
<1> USE DEF IInv
<1>1. /\ Active(q) /\ Head(todo[q]) \in {"join", "revive", "remove", "save"}
      /\ UNCHANGED <<users, who, name, slug, org, crashes, slugRaced, visited>>
  BY DEF Join, Revive, Remove, Save, At, history
<1>2. Scripted(q) /\ kind[q] \in {"invite", "remove", "edit"} /\ who[q] \in People
  BY <1>1, StepOfKind DEF Scripted
<1>3. org[q] = None
  BY <1>2 DEF WInv, OnlyRegistrations
<1>4. /\ \A r \in Requests \ {q} : Same(r) /\ SameName(r)
      /\ kind'[q] \in {kind[q], "ended"}
  <2>1. CASE Finish(q)
    BY <1>1, <2>1 DEF Finish, Same, SameName, TypeOK
  <2>2. CASE ~Finish(q)
    <3>1. \E f, t : UNCHANGED kind /\ copy' = [copy EXCEPT ![q] = f] /\ todo' = [todo EXCEPT ![q] = t]
      BY <2>2, Zenon DEF Join, Revive, Remove, Save
    <3>2. QED
      BY <1>1, <3>1 DEF Same, SameName, TypeOK
  <2>3. QED
    BY <2>1, <2>2
<1>5. /\ \A p \in People : Settled(p) => Settled(p)'
      /\ At(q, "join") => Settled(who[q])'
  <2>1. CASE Join(q)
    <3>1. NewRow(who[q]) # None
      <4>1. made[who[q]] + 1 \in Nat
        BY <1>2 DEF TypeOK
      <4>2. NewRow(who[q]) \in Row
        BY <4>1 DEF NewRow, Row
      <4>3. QED
        BY <4>2, NoneAssumption
    <3>2. team' = team \/ team' = [team EXCEPT ![who[q]] = NewRow(who[q])]
      BY <2>1 DEF Join
    <3>3. /\ removed' = removed
          /\ team'[who[q]] # None
          /\ \A p \in People : team[p] # None => team'[p] # None
      BY <1>2, <2>1, <3>1, <3>2 DEF Join, history, TypeOK
    <3>4. QED
      BY <1>1, <3>3 DEF Settled
  <2>2. CASE Revive(q)
    <3>1. StillThere(q) => [team[who[q]] EXCEPT !.active = TRUE, !.role = "member"] \in Row
      BY <1>2 DEF StillThere, Row, TypeOK
    <3>2. team' = team \/ (StillThere(q) /\ team' = [team EXCEPT ![who[q]] =
                                  [team[who[q]] EXCEPT !.active = TRUE, !.role = "member"]])
      BY <1>2, <2>2 DEF Revive, TypeOK
    <3>3. removed' = removed /\ \A p \in People : team[p] # None => team'[p] # None
      BY <1>2, <2>2, <3>1, <3>2, NoneAssumption DEF Revive, history, TypeOK
    <3>4. QED
      BY <2>2, <3>3 DEF Settled, Revive, At
  <2>3. CASE Remove(q)
    <3>1. \/ team' = team /\ removed' = removed
          \/ team' = [team EXCEPT ![who[q]] = None] /\ removed' = removed \cup {who[q]}
      BY <2>3 DEF Remove
    <3>2. QED
      BY <2>3, <3>1 DEF Settled, Remove, At, TypeOK
  <2>4. CASE Save(q)
    <3>1. copy[q] \in Row
      <4>1. todo[q] = <<"save">>
        BY <1>1, <2>4, StepOfKind DEF Save, At
      <4>2. QED
        BY <1>2, <4>1 DEF Scripted
    <3>2. \A r \in {"owner", "member"}, a \in BOOLEAN :
             [copy[q] EXCEPT !.role = r, !.active = a] \in Row
      BY <3>1 DEF Row
    <3>3. \/ team' = team
          \/ \E row \in Row : team' = [team EXCEPT ![who[q]] = row]
      BY <2>4, <3>2 DEF Save
    <3>4. removed' = removed /\ \A p \in People : team[p] # None => team'[p] # None
      BY <2>4, <3>3, NoneAssumption DEF Save, TypeOK
    <3>5. QED
      BY <2>4, <3>4 DEF Settled, Save, At
  <2>5. QED
    BY <2>1, <2>2, <2>3, <2>4
<1>6. Claims(q) => At(q, "join")
  BY <1>2, <1>3 DEF Claims, Registering
<1>7. ~Registering(q)'
  BY <1>2, <1>4 DEF Registering
<1>8. QED
  BY <1>1, <1>2, <1>3, <1>4, <1>5, <1>6, <1>7, OtherWhole

\* What happens beside the requests: a crash is counted, a visit during provisioning is
\* remembered, and afterwards there is nothing left for a visit to add.
LEMMA OutsideWhole ==
    ASSUME IInv, WInv
    PROVE  /\ \A q \in Requests : Crash(q) => WInv'
           /\ \A q \in Requests, part \in Unique \cup {"templates"} : Visit(q, part) => WInv'
           /\ PlanChanges \/ UNCHANGED vars => WInv'
<1> USE DEF IInv
<1>1. ASSUME NEW q \in Requests, Crash(q)
      PROVE  WInv'
  <2>1. /\ Active(q) /\ Finish(q) /\ crashes' # 0
        /\ UNCHANGED <<users, team, org, who, name, slug, slugRaced, visited, removed>>
    BY <1>1 DEF Crash, history, TypeOK
  <2>2. \A r \in Requests \ {q} : Same(r) /\ SameName(r)
    BY <2>1 DEF Finish, Same, SameName, TypeOK
  <2>3. kind'[q] = "ended" /\ ~Registering(q)'
    BY <2>1 DEF Finish, TypeOK, Registering
  <2>4. QED
    BY <2>1, <2>2, <2>3, OtherWhole DEF Settled
<1>2. ASSUME NEW q \in Requests, NEW part \in Unique \cup {"templates"}, Visit(q, part)
      PROVE  WInv'
  <2>1. /\ org[q] # None /\ "owner" \in org[q] /\ part \notin org[q] /\ part \in Parts
        /\ org' = [org EXCEPT ![q] = @ \cup {part}]
        /\ visited' = (visited \/ Active(q))
        /\ UNCHANGED <<users, team, removed, kind, who, name, slug, copy, todo, crashes, slugRaced>>
    BY <1>2, PartsAre DEF Visit, Unique, SingleRows
  <2>2. org'[q] = org[q] \cup {part} /\ org'[q] # None /\ org[q] \in SUBSET Parts
    BY <2>1, NoneAssumption DEF TypeOK
  <2>3. \A r \in Requests \ {q} : Same(r) /\ SameName(r)
    BY <2>1 DEF Same, SameName, TypeOK
  <2>4. kind'[q] \notin {"invite", "remove", "edit"} /\ (Registering(q)' => Planned(todo[q])')
    BY <2>1 DEF WInv, OnlyRegistrations, AllPlanned, Registering, Active, Planned
  <2>5. crashes' = 0 /\ ~visited' => ~Registering(q)' /\ ~SenderFits(q)' /\ crashes = 0 /\ ~visited
    <3>1. SUFFICES ASSUME crashes = 0, ~visited, ~Active(q), SenderFits(q) PROVE FALSE
      BY <2>1 DEF Registering, Active, SenderFits
    <3>2. org[q] = Parts \ Elements(todo[q])
      BY <2>1, <3>1 DEF WInv, PartsAccounted, Got
    <3>3. QED
      BY <2>1, <3>1, <3>2, NothingLeft DEF Active
  <2>6. AllPlanned' /\ OnlyRegistrations' /\ PartsAccounted'
    BY <2>3, <2>4, <2>5, OneAccounted
  <2>7. Claims(q) => Claims(q)'
    BY <2>1, <2>2 DEF Claims, Registering, Active, At, SlugFits
  <2>8. Placed'
    BY <2>1, <2>3, <2>7, OnePlaced DEF Settled
  <2>9. QED
    BY <2>6, <2>8 DEF WInv
<1>3. ASSUME PlanChanges \/ UNCHANGED vars
      PROVE  WInv'
  <2>1. UNCHANGED <<users, team, removed, kind, who, name, slug, org, copy, todo, crashes,
                    slugRaced, visited>>
    BY <1>3 DEF PlanChanges, history, vars
  <2>2. AllPlanned' /\ OnlyRegistrations' /\ PartsAccounted'
    BY <2>1 DEF WInv, AllPlanned, OnlyRegistrations, PartsAccounted, Registering, Active, Planned, Got,
                Elements, SenderFits
  <2>3. Placed'
    BY <2>1 DEF WInv, Placed, Settled, Claims, Registering, At, Active, SlugFits
  <2>4. QED
    BY <2>2, <2>3 DEF WInv
<1>4. QED
  BY <1>1, <1>2, <1>3

LEMMA InitWInv == Init => WInv
<1> SUFFICES ASSUME Init PROVE WInv
  OBVIOUS
<1>1. \A q \in Requests : ~Registering(q) /\ kind[q] = "new" /\ org[q] = None
  BY DEF Init, Registering, Active
<1>2. \A p \in users : Settled(p)
  BY DEF Init, Settled, Members
<1>3. QED
  BY <1>1, <1>2 DEF WInv, AllPlanned, OnlyRegistrations, PartsAccounted, Placed

LEMMA NextWInv ==
    ASSUME IInv, WInv, [Next]_vars
    PROVE  WInv'
BY BeginWhole, AccountWhole, RegistrationWhole, TeamWhole, OutsideWhole DEF Next

\* Without a crash, a visit during provisioning, a lost slug or a name too long for its
\* column, every organization ends with all of its parts, and everybody who got an account
\* with a membership or an organization (services.py:25, :35, :40).
THEOREM RegistrationsAreWhole == OrganizationsAssumption => (Spec => []RegistrationIsWhole)
<1> SUFFICES ASSUME OrganizationsAssumption PROVE Spec => []RegistrationIsWhole
  OBVIOUS
<1>1. Init => WInv
  BY InitWInv
<1>2. IInv /\ WInv /\ [Next]_vars => WInv'
  BY NextWInv
<1>3. ASSUME IInv, WInv PROVE RegistrationIsWhole
  <2>1. SUFFICES ASSUME Busy = {}, crashes = 0
                 PROVE  /\ visited \/ \A q \in Requests : SenderFits(q) => org[q] \in {None, Parts}
                        /\ slugRaced \/ \A p \in users :
                             \/ p \in removed \/ team[p] # None
                             \/ \E q \in Requests :
                                  /\ who[q] = p
                                  /\ ~SlugFits(q) \/ (org[q] # None /\ "owner" \in org[q])
    BY DEF RegistrationIsWhole
  <2>2. \A q \in Requests : ~Active(q) /\ todo[q] = <<>>
    BY <2>1 DEF Busy, Active
  <2>3. ASSUME ~visited, NEW q \in Requests, org[q] # None, SenderFits(q)
        PROVE  org[q] = Parts
    BY <1>3, <2>1, <2>2, <2>3, NothingLeft DEF WInv, PartsAccounted, Got
  <2>4. ASSUME ~slugRaced, NEW p \in users
        PROVE  \/ p \in removed \/ team[p] # None
               \/ \E q \in Requests :
                    /\ who[q] = p
                    /\ ~SlugFits(q) \/ (org[q] # None /\ "owner" \in org[q])
    BY <1>3, <2>1, <2>2, <2>4 DEF WInv, Placed, Settled, Claims, Registering, At
  <2>5. QED
    BY <2>3, <2>4
<1>4. QED
  BY <1>1, <1>2, <1>3, AlwaysIInv, PTL DEF Spec
=============================================================================
