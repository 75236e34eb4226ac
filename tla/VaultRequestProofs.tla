------------------------- MODULE VaultRequestProofs -------------------------
(***************************************************************************)
(* Proofs about what comes in from outside and what carries it, for any    *)
(* value of the constants: the internal routes' guards (JobGuards), the    *)
(* admin portal's owners (StoreAccess), the webhook (Webhook), the state   *)
(* of an installation (OAuthFlow), the saga that owns a request's          *)
(* transactions (RequestSaga), its calls of Clover (CloverCall) and the    *)
(* units of work it reads and saves aggregates with (UnitOfWork), each of  *)
(* its own specification and then of Vault's.                              *)
(***************************************************************************)
EXTENDS Vault, FiniteSetTheorems, TLAPS

-----------------------------------------------------------------------------
(* The internal routes.                                                     *)

Targets == [instance : Instances, kind : Kinds]

GuardTypeOK ==
  /\ guards \in [Instances -> SUBSET Kinds]
  /\ at \in [Requests -> {"none", "waiting", "running", "ended"}]
  /\ asked \in [Requests -> Targets \cup {Guards!Nowhere}]
  /\ reply \in [Requests -> {0, 200, 401, 409, 500}]

\* Who waits or runs asked an instance for a job.
Placed == \A r \in Requests : at[r] \in {"waiting", "running"} => asked[r] \in Targets

\* Whoever runs holds the guard.
Held == \A r \in Requests : at[r] = "running" => Guards!Guarded(r)

GuardInv == GuardTypeOK /\ Placed /\ Held /\ Guards!OneJobPerInstance

LEMMA InitGuards == Guards!Init => GuardInv
BY DEF Guards!Init, GuardInv, GuardTypeOK, Placed, Held, Guards!OneJobPerInstance

LEMMA AskKeeps ==
  ASSUME GuardInv, NEW r \in Requests, NEW i \in Instances, NEW k \in Kinds, Guards!Ask(r, i, k)
  PROVE  GuardInv'
<1>1. GuardTypeOK'
  BY DEF GuardInv, GuardTypeOK, Guards!Ask, Guards!Go, Targets
<1>2. Placed'
  BY DEF GuardInv, GuardTypeOK, Placed, Guards!Ask, Guards!Go, Targets
<1>3. Held'
  BY DEF GuardInv, GuardTypeOK, Held, Guards!Guarded, Guards!Ask, Guards!Go
<1>4. Guards!OneJobPerInstance'
  BY DEF GuardInv, GuardTypeOK, Guards!OneJobPerInstance, Guards!Ask, Guards!Go
<1> QED
  BY <1>1, <1>2, <1>3, <1>4 DEF GuardInv

LEMMA RefusalKeeps ==
  ASSUME GuardInv, NEW r \in Requests, Guards!Unauthorized(r) \/ Guards!Conflict(r)
  PROVE  GuardInv'
<1>1. GuardTypeOK'
  BY DEF GuardInv, GuardTypeOK, Guards!Unauthorized, Guards!Conflict, Guards!Reply, Guards!Go
<1>2. Placed'
  BY DEF GuardInv, GuardTypeOK, Placed, Guards!Unauthorized, Guards!Conflict, Guards!Reply, Guards!Go
<1>3. Held'
  BY DEF GuardInv, GuardTypeOK, Held, Guards!Guarded, Guards!Unauthorized, Guards!Conflict, Guards!Reply, Guards!Go
<1>4. Guards!OneJobPerInstance'
  BY DEF GuardInv, GuardTypeOK, Guards!OneJobPerInstance, Guards!Unauthorized, Guards!Conflict, Guards!Reply, Guards!Go
<1> QED
  BY <1>1, <1>2, <1>3, <1>4 DEF GuardInv

LEMMA AdmitKeeps ==
  ASSUME GuardInv, NEW r \in Requests, Guards!Admit(r)
  PROVE  GuardInv'
<1>1. asked[r] \in Targets /\ asked[r].instance \in Instances /\ asked[r].kind \in Kinds
  BY DEF GuardInv, GuardTypeOK, Placed, Guards!Admit, Targets
<1>2. GuardTypeOK'
  BY <1>1 DEF GuardInv, GuardTypeOK, Guards!Admit, Guards!Go
<1>3. Placed'
  BY <1>1 DEF GuardInv, GuardTypeOK, Placed, Guards!Admit, Guards!Go
<1>4. Held'
  BY <1>1 DEF GuardInv, GuardTypeOK, Placed, Held, Guards!Guarded, Guards!Admit, Guards!Go, Targets
<1>5. \A s \in Requests : at[s] = "running" => asked[s] # asked[r]
  BY DEF GuardInv, Held, Guards!Guarded, Guards!Admit, Guards!Free
<1>6. Guards!OneJobPerInstance'
  BY <1>5 DEF GuardInv, GuardTypeOK, Guards!OneJobPerInstance, Guards!Admit, Guards!Go
<1> QED
  BY <1>2, <1>3, <1>4, <1>6 DEF GuardInv

LEMMA CompletesKeeps ==
  ASSUME GuardInv, NEW r \in Requests, Guards!Completes(r)
  PROVE  GuardInv'
<1>1. asked[r] \in Targets
  BY DEF GuardInv, Placed, Guards!Completes
<1>2. GuardTypeOK'
  BY <1>1 DEF GuardInv, GuardTypeOK, Guards!Completes, Guards!Reply, Guards!Go, Targets
<1>3. Placed'
  BY DEF GuardInv, GuardTypeOK, Placed, Guards!Completes, Guards!Reply, Guards!Go
<1>4. ASSUME NEW s \in Requests, at'[s] = "running"
      PROVE  asked[s].kind \in guards'[asked[s].instance]
  <2>1. s # r /\ at[s] = "running" /\ asked[s] \in Targets /\ Guards!Guarded(s)
    BY <1>4 DEF GuardInv, GuardTypeOK, Placed, Held, Guards!Completes, Guards!Reply, Guards!Go
  <2>2. asked[s] # asked[r]
    BY <2>1 DEF GuardInv, Guards!OneJobPerInstance, Guards!Completes
  <2>3. asked[s].instance # asked[r].instance \/ asked[s].kind # asked[r].kind
    BY <1>1, <2>1, <2>2 DEF Targets
  <2> QED
    BY <1>1, <2>1, <2>3 DEF GuardInv, GuardTypeOK, Guards!Guarded, Guards!Completes, Targets
<1>5. Held'
  BY <1>4 DEF Held, Guards!Guarded, Guards!Completes, Guards!Reply
<1>6. Guards!OneJobPerInstance'
  BY DEF GuardInv, GuardTypeOK, Guards!OneJobPerInstance, Guards!Completes, Guards!Reply, Guards!Go
<1> QED
  BY <1>2, <1>3, <1>5, <1>6 DEF GuardInv

LEMMA BreaksKeeps ==
  ASSUME GuardInv, NEW r \in Requests, Guards!Breaks(r)
  PROVE  GuardInv'
<1>1. GuardTypeOK'
  BY DEF GuardInv, GuardTypeOK, Guards!Breaks, Guards!Reply, Guards!Go
<1>2. Placed'
  BY DEF GuardInv, GuardTypeOK, Placed, Guards!Breaks, Guards!Reply, Guards!Go
<1>3. Held'
  BY DEF GuardInv, GuardTypeOK, Held, Guards!Guarded, Guards!Breaks, Guards!Reply, Guards!Go
<1>4. Guards!OneJobPerInstance'
  BY DEF GuardInv, GuardTypeOK, Guards!OneJobPerInstance, Guards!Breaks, Guards!Reply, Guards!Go
<1> QED
  BY <1>1, <1>2, <1>3, <1>4 DEF GuardInv

LEMMA AgainKeeps ==
  ASSUME GuardInv, NEW r \in Requests, Guards!Again(r)
  PROVE  GuardInv'
<1>1. GuardTypeOK'
  BY DEF GuardInv, GuardTypeOK, Guards!Again, Guards!Go
<1>2. Placed'
  BY DEF GuardInv, GuardTypeOK, Placed, Guards!Again, Guards!Go
<1>3. Held'
  BY DEF GuardInv, GuardTypeOK, Held, Guards!Guarded, Guards!Again, Guards!Go
<1>4. Guards!OneJobPerInstance'
  BY DEF GuardInv, GuardTypeOK, Guards!OneJobPerInstance, Guards!Again, Guards!Go
<1> QED
  BY <1>1, <1>2, <1>3, <1>4 DEF GuardInv

LEMMA RecycleKeeps ==
  ASSUME GuardInv, NEW i \in Instances, Guards!Recycle(i)
  PROVE  GuardInv'
<1>1. GuardTypeOK'
  BY DEF GuardInv, GuardTypeOK, Guards!Recycle
<1>2. \A s \in Requests : at'[s] \in {"waiting", "running"} =>
        at'[s] = at[s] /\ asked[s].instance # i
  BY DEF GuardInv, GuardTypeOK, Guards!Recycle
<1>3. Placed'
  BY <1>2 DEF GuardInv, Placed, Guards!Recycle
<1>4. Held'
  BY <1>2 DEF GuardInv, GuardTypeOK, Placed, Held, Guards!Guarded, Guards!Recycle, Targets
<1>5. Guards!OneJobPerInstance'
  BY <1>2 DEF GuardInv, Guards!OneJobPerInstance, Guards!Recycle
<1> QED
  BY <1>1, <1>3, <1>4, <1>5 DEF GuardInv

LEMMA StepKeepsGuards == GuardInv /\ [Guards!Next]_(Guards!guardVars) => GuardInv'
<1> SUFFICES ASSUME GuardInv, [Guards!Next]_(Guards!guardVars)
             PROVE  GuardInv'
  OBVIOUS
<1>1. CASE UNCHANGED Guards!guardVars
  BY <1>1 DEF Guards!guardVars, GuardInv, GuardTypeOK, Placed, Held, Guards!Guarded, Guards!OneJobPerInstance
<1>2. ASSUME NEW r \in Requests, NEW i \in Instances, NEW k \in Kinds, Guards!Ask(r, i, k)
      PROVE  GuardInv'
  BY <1>2, AskKeeps
<1>3. ASSUME NEW r \in Requests, Guards!Unauthorized(r) \/ Guards!Conflict(r)
      PROVE  GuardInv'
  BY <1>3, RefusalKeeps
<1>4. ASSUME NEW r \in Requests, Guards!Admit(r)
      PROVE  GuardInv'
  BY <1>4, AdmitKeeps
<1>5. ASSUME NEW r \in Requests, Guards!Completes(r)
      PROVE  GuardInv'
  BY <1>5, CompletesKeeps
<1>6. ASSUME NEW r \in Requests, Guards!Breaks(r) \/ Guards!Again(r)
      PROVE  GuardInv'
  BY <1>6, BreaksKeeps, AgainKeeps
<1>7. ASSUME NEW i \in Instances, Guards!Recycle(i)
      PROVE  GuardInv'
  BY <1>7, RecycleKeeps
<1> QED
  BY <1>1, <1>2, <1>3, <1>4, <1>5, <1>6, <1>7 DEF Guards!Next

\* An instance never runs two jobs of a kind (the route guards of app/api/import and
\* app/api/process), for any number of instances, kinds and requests, whichever jobs
\* fail and whenever an instance is replaced.
THEOREM GuardsExclude == Guards!Spec => []Guards!OneJobPerInstance
<1>1. GuardInv => Guards!OneJobPerInstance
  BY DEF GuardInv
<1> QED
  BY InitGuards, StepKeepsGuards, <1>1, PTL DEF Guards!Spec

-----------------------------------------------------------------------------
(* The store and the admin portal.                                          *)

Memberships == [email : Emails, status : {"active", "disabled"}]

AccessTypeOK ==
  /\ members \in Seq(Memberships)
  /\ visit \in [Emails -> {"none", "session", "membership", "page", "login"}]
  /\ entitled \in [Emails -> BOOLEAN]

\* A visit knows of every active membership its address has had since it began.
VisitsSee == \A e \in Emails : visit[e] # "none" /\ Access!Active(members, e) => entitled[e]

AccessInv ==
  /\ AccessTypeOK
  /\ Access!OneMembershipPerEmail
  /\ Access!OwnerRemains
  /\ VisitsSee
  /\ Access!PagesForActiveOwners

Owners == {m \in DOMAIN members : members[m].status = "active"}

\* ensureOwnerPreservedOnDisable counts the active owners.
LEMMA OwnersCounted == Access!CountActiveOwners = Cardinality(Owners)
BY DEF Access!CountActiveOwners, Owners, Access!Cardinality, Cardinality

\* And one that is not the last leaves another active owner.
LEMMA AnotherOwner ==
  ASSUME NEW m \in DOMAIN members, members[m].status = "active", Access!CountActiveOwners - 1 # 0
  PROVE  \E n \in DOMAIN members : n # m /\ members[n].status = "active"
<1>1. SUFFICES ASSUME \A n \in DOMAIN members : members[n].status = "active" => n = m
               PROVE  FALSE
  OBVIOUS
<1>2. Owners = {m}
  BY <1>1 DEF Owners
<1>3. Cardinality({m}) = 1
  BY FS_Singleton
<1>4. Access!CountActiveOwners = 1
  BY <1>2, <1>3, OwnersCounted
<1> QED
  BY <1>4

LEMMA InitAccess == Access!Init => AccessInv
BY DEF Access!Init, AccessInv, AccessTypeOK, Access!OneMembershipPerEmail, Access!OwnerRemains, VisitsSee,
       Access!PagesForActiveOwners, Access!Active

\* A step that changes neither memberships nor visits.
LEMMA ElsewhereKeeps ==
  ASSUME AccessInv, UNCHANGED <<members, visit, entitled>>
  PROVE  AccessInv'
BY DEF AccessInv, AccessTypeOK, Access!OneMembershipPerEmail, Access!OwnerRemains, VisitsSee,
       Access!PagesForActiveOwners, Access!Active

\* A change of the memberships is seen by every visit.
LEMMA SetMembersKeeps ==
  ASSUME AccessInv, NEW memberships \in Seq(Memberships), Access!SetMembers(memberships), visit' = visit
  PROVE  AccessTypeOK' /\ VisitsSee' /\ Access!PagesForActiveOwners'
<1>1. AccessTypeOK'
  BY DEF AccessInv, AccessTypeOK, Access!SetMembers, Access!Active
<1>2. VisitsSee'
  BY DEF AccessInv, AccessTypeOK, VisitsSee, Access!SetMembers
<1>3. Access!PagesForActiveOwners'
  BY DEF AccessInv, AccessTypeOK, Access!PagesForActiveOwners, Access!SetMembers
<1> QED
  BY <1>1, <1>2, <1>3

LEMMA BootstrapOwnerKeeps ==
  ASSUME AccessInv, NEW e \in Emails, Access!BootstrapOwner(e)
  PROVE  AccessInv'
<1> DEFINE memberships == Append(members, Access!Member(e, "active"))
<1>1. /\ members \in Seq(Memberships) /\ Access!Member(e, "active") \in Memberships
      /\ Access!Member(e, "active").email = e /\ Access!Member(e, "active").status = "active"
  BY DEF AccessInv, AccessTypeOK, Access!Member, Memberships
<1>2. /\ memberships \in Seq(Memberships) /\ DOMAIN memberships = DOMAIN members \cup {Len(members) + 1}
      /\ \A m \in DOMAIN members : memberships[m] = members[m]
      /\ memberships[Len(members) + 1] = Access!Member(e, "active")
      /\ memberships # <<>>
  BY <1>1
<1>3. members' = memberships /\ Access!SetMembers(memberships) /\ visit' = visit
  BY DEF Access!BootstrapOwner, Access!SetMembers
<1>4. AccessTypeOK' /\ VisitsSee' /\ Access!PagesForActiveOwners'
  BY <1>2, <1>3, SetMembersKeeps
<1>5. \A m \in DOMAIN members : members[m].email # e
  BY DEF Access!BootstrapOwner, Access!FindByEmail
<1>6. Access!OneMembershipPerEmail'
  BY <1>1, <1>2, <1>3, <1>5 DEF AccessInv, Access!OneMembershipPerEmail
<1>7. Access!OwnerRemains'
  BY <1>1, <1>2, <1>3 DEF Access!OwnerRemains
<1> QED
  BY <1>4, <1>6, <1>7 DEF AccessInv

LEMMA StatusKeeps ==
  ASSUME AccessInv, NEW m \in DOMAIN members, NEW status \in {"active", "disabled"},
         Access!SetMembers([members EXCEPT ![m].status = status]), visit' = visit
  PROVE  /\ AccessTypeOK' /\ VisitsSee' /\ Access!PagesForActiveOwners' /\ Access!OneMembershipPerEmail'
         /\ DOMAIN members' = DOMAIN members
         /\ \A n \in DOMAIN members :
              members'[n].status = IF n = m THEN status ELSE members[n].status
<1> DEFINE memberships == [members EXCEPT ![m].status = status]
<1>1. members \in Seq(Memberships)
  BY DEF AccessInv, AccessTypeOK
<1>2. /\ memberships \in Seq(Memberships) /\ DOMAIN memberships = DOMAIN members
      /\ \A n \in DOMAIN members :
           /\ memberships[n].email = members[n].email
           /\ memberships[n].status = IF n = m THEN status ELSE members[n].status
  <2>1. members \in [1 .. Len(members) -> Memberships] /\ Len(members) \in Nat
    BY <1>1
  <2>2. memberships \in [1 .. Len(members) -> Memberships]
    BY <2>1 DEF Memberships
  <2>3. memberships \in Seq(Memberships)
    BY <2>1, <2>2
  <2>4. \A n \in DOMAIN members :
           /\ memberships[n].email = members[n].email
           /\ memberships[n].status = IF n = m THEN status ELSE members[n].status
    BY <2>1 DEF Memberships
  <2> QED
    BY <2>3, <2>4
<1>3. members' = memberships
  BY DEF Access!SetMembers
<1>4. AccessTypeOK' /\ VisitsSee' /\ Access!PagesForActiveOwners'
  BY <1>2, SetMembersKeeps
<1>5. Access!OneMembershipPerEmail'
  BY <1>2, <1>3 DEF AccessInv, Access!OneMembershipPerEmail
<1> QED
  BY <1>2, <1>3, <1>4, <1>5

LEMMA DisableKeeps ==
  ASSUME AccessInv, NEW m \in DOMAIN members, Access!DisableMembership(m)
  PROVE  AccessInv'
<1>1. PICK n \in DOMAIN members : n # m /\ members[n].status = "active"
  BY AnotherOwner DEF Access!DisableMembership
<1>2. Access!SetMembers([members EXCEPT ![m].status = "disabled"]) /\ visit' = visit
  BY DEF Access!DisableMembership
<1>3. /\ AccessTypeOK' /\ VisitsSee' /\ Access!PagesForActiveOwners' /\ Access!OneMembershipPerEmail'
      /\ n \in DOMAIN members' /\ members'[n].status = "active"
  BY <1>1, <1>2, StatusKeeps
<1>4. Access!OwnerRemains'
  BY <1>3 DEF Access!OwnerRemains
<1> QED
  BY <1>3, <1>4 DEF AccessInv

LEMMA ReactivateKeeps ==
  ASSUME AccessInv, NEW m \in DOMAIN members, Access!ReactivateMembership(m)
  PROVE  AccessInv'
<1>1. Access!SetMembers([members EXCEPT ![m].status = "active"]) /\ visit' = visit
  BY DEF Access!ReactivateMembership
<1>2. /\ AccessTypeOK' /\ VisitsSee' /\ Access!PagesForActiveOwners' /\ Access!OneMembershipPerEmail'
      /\ m \in DOMAIN members' /\ members'[m].status = "active"
  BY <1>1, StatusKeeps
<1>3. Access!OwnerRemains'
  BY <1>2 DEF Access!OwnerRemains
<1> QED
  BY <1>2, <1>3 DEF AccessInv

\* A step of a visit that leaves the memberships alone.
LEMMA GoKeeps ==
  ASSUME AccessInv, NEW e \in Emails,
         NEW step \in {"none", "session", "membership", "page", "login"},
         Access!Go(e, step), entitled' \in [Emails -> BOOLEAN],
         \A f \in Emails : f # e => entitled'[f] = entitled[f],
         step # "none" /\ Access!Active(members, e) => entitled'[e],
         step = "page" => entitled'[e]
  PROVE  AccessInv'
<1>1. members' = members /\ AccessTypeOK'
  BY DEF AccessInv, AccessTypeOK, Access!Go
<1>2. Access!OneMembershipPerEmail' /\ Access!OwnerRemains'
  BY <1>1 DEF AccessInv, Access!OneMembershipPerEmail, Access!OwnerRemains
<1>3. VisitsSee'
  BY <1>1 DEF AccessInv, AccessTypeOK, VisitsSee, Access!Go, Access!Active
<1>4. Access!PagesForActiveOwners'
  BY DEF AccessInv, AccessTypeOK, Access!PagesForActiveOwners, Access!Go
<1> QED
  BY <1>1, <1>2, <1>3, <1>4 DEF AccessInv

LEMMA VisitKeeps ==
  ASSUME AccessInv, NEW e \in Emails,
         Access!Visit(e) \/ Access!ReadSession(e) \/ Access!EndVisit(e)
  PROVE  AccessInv'
<1>1. CASE Access!Visit(e)
  <2>1. /\ entitled' \in [Emails -> BOOLEAN] /\ entitled'[e] = Access!Active(members, e)
        /\ \A f \in Emails : f # e => entitled'[f] = entitled[f]
    BY <1>1 DEF AccessInv, AccessTypeOK, Access!Visit, Access!Active
  <2> QED
    BY <1>1, <2>1, GoKeeps DEF Access!Visit
<1>2. CASE Access!ReadSession(e)
  <2>1. entitled' = entitled /\ (Access!Active(members, e) => entitled[e])
    BY <1>2 DEF AccessInv, AccessTypeOK, VisitsSee, Access!ReadSession
  <2>2. PICK step \in {"membership", "login"} : Access!Go(e, step)
    BY <1>2 DEF Access!ReadSession
  <2> QED
    BY <2>1, <2>2, GoKeeps DEF AccessInv, AccessTypeOK
<1>3. CASE Access!EndVisit(e)
  BY <1>3, GoKeeps DEF Access!EndVisit, AccessInv, AccessTypeOK
<1> QED
  BY <1>1, <1>2, <1>3

LEMMA ReadMembershipKeeps ==
  ASSUME AccessInv, NEW e \in Emails, Access!ReadMembership(e)
  PROVE  AccessInv'
<1>1. PICK permitted \in IF Access!FindByEmail(e) = {} THEN {FALSE}
                         ELSE {Access!Permits(m) : m \in Access!FindByEmail(e)} :
        Access!Go(e, IF permitted THEN "page" ELSE "login")
  BY DEF Access!ReadMembership
<1>2. permitted => \E m \in DOMAIN members : members[m].email = e /\ members[m].status = "active"
  BY <1>1 DEF Access!FindByEmail, Access!Permits
<1>3. permitted => Access!Active(members, e)
  <2>1. \A m \in DOMAIN members : members[m] \in Memberships
    BY DEF AccessInv, AccessTypeOK
  <2> QED
    BY <1>2, <2>1 DEF Access!Active, Access!Member, Memberships
<1>4. entitled' = entitled /\ (Access!Active(members, e) => entitled[e])
  BY DEF AccessInv, AccessTypeOK, VisitsSee, Access!ReadMembership
<1>5. CASE permitted
  <2>1. Access!Go(e, "page")
    BY <1>1, <1>5
  <2> QED
    BY <1>3, <1>4, <1>5, <2>1, GoKeeps DEF AccessInv, AccessTypeOK
<1>6. CASE ~permitted
  <2>1. Access!Go(e, "login")
    BY <1>1, <1>6
  <2> QED
    BY <1>4, <2>1, GoKeeps DEF AccessInv, AccessTypeOK
<1> QED
  BY <1>5, <1>6

LEMMA StepKeepsAccess == AccessInv /\ [Access!Next]_(Access!accessVars) => AccessInv'
<1> SUFFICES ASSUME AccessInv, [Access!Next]_(Access!accessVars)
             PROVE  AccessInv'
  OBVIOUS
<1>1. CASE UNCHANGED Access!accessVars
  BY <1>1, ElsewhereKeeps DEF Access!accessVars
<1>2. ASSUME Access!BootstrapStore \/ Access!ActivateStore \/ Access!DeactivateStore
             \/ \E name \in StoreNames : Access!RenameStore(name)
      PROVE  AccessInv'
  BY <1>2, ElsewhereKeeps
     DEF Access!BootstrapStore, Access!ActivateStore, Access!DeactivateStore, Access!RenameStore, Access!EditStore
<1>3. ASSUME NEW e \in Emails, Access!BootstrapOwner(e)
      PROVE  AccessInv'
  BY <1>3, BootstrapOwnerKeeps
<1>4. ASSUME NEW m \in DOMAIN members, Access!DisableMembership(m) \/ Access!ReactivateMembership(m)
      PROVE  AccessInv'
  BY <1>4, DisableKeeps, ReactivateKeeps
<1>5. ASSUME NEW e \in Emails,
             \/ Access!RequestLink(e) \/ Access!MailLink(e) \/ Access!MailFails(e) \/ Access!OpenLink(e)
             \/ Access!LinkExpires(e) \/ Access!SignOut(e)
      PROVE  AccessInv'
  BY <1>5, ElsewhereKeeps
     DEF Access!RequestLink, Access!MailLink, Access!MailFails, Access!OpenLink, Access!LinkExpires, Access!SignOut
<1>6. ASSUME NEW e \in Emails, Access!Visit(e) \/ Access!ReadSession(e) \/ Access!EndVisit(e)
      PROVE  AccessInv'
  BY <1>6, VisitKeeps
<1>7. ASSUME NEW e \in Emails, Access!ReadMembership(e)
      PROVE  AccessInv'
  BY <1>7, ReadMembershipKeeps
<1> QED
  BY <1>1, <1>2, <1>3, <1>4, <1>5, <1>6, <1>7 DEF Access!Next

LEMMA AccessHolds == Access!Spec => []AccessInv
BY InitAccess, StepKeepsAccess, PTL DEF Access!Spec

\* However memberships are bootstrapped, disabled and reactivated, a store that has any
\* keeps an active owner, and an address never has two.
THEOREM StoreKeepsAnOwner == Access!Spec => [](Access!OwnerRemains /\ Access!OneMembershipPerEmail)
<1>1. AccessInv => Access!OwnerRemains /\ Access!OneMembershipPerEmail
  BY DEF AccessInv
<1> QED
  BY AccessHolds, <1>1, PTL

\* requireActiveOwner: whatever becomes of sessions, links and memberships between its
\* steps, a private page is shown only to an address that had an active membership at
\* some moment of that request.
THEOREM PagesNeedAnOwner == Access!Spec => []Access!PagesForActiveOwners
<1>1. AccessInv => Access!PagesForActiveOwners
  BY DEF AccessInv
<1> QED
  BY AccessHolds, <1>1, PTL

-----------------------------------------------------------------------------
(* The webhook.                                                             *)

WebhookTypeOK ==
  /\ handling \in [Deliveries -> {"none", "auth", "insert"}]
  /\ batch \in [Deliveries -> Seq(Events)]
  /\ payload \in [Deliveries -> SUBSET Events]
  /\ inserted \in [Deliveries -> SUBSET {Hook!Row(e) : e \in Events}]

InBatch(d, e) == \E k \in DOMAIN batch[d] : batch[d][k] = e

\* What a request carries is still to be inserted or is there, in its transaction or
\* committed: an insert that finds the key taken finds it committed.
Accounted ==
  \A d \in Deliveries : \A e \in payload[d] :
    Hook!Wanted(e) => InBatch(d, e) \/ Hook!Row(e) \in rows \cup inserted[d]

Recorded == \A e \in accepted : Hook!Wanted(e) => Hook!Row(e) \in rows

WebhookInv == WebhookTypeOK /\ Accounted /\ Recorded

-----------------------------------------------------------------------------
\* Taking the head off a sequence keeps its other elements.
LEMMA TailKeeps ==
  ASSUME NEW s \in Seq(Events), s # <<>>
  PROVE  /\ Head(s) \in Events /\ Tail(s) \in Seq(Events)
         /\ \A k \in DOMAIN s :
              s[k] = Head(s) \/ \E j \in DOMAIN Tail(s) : Tail(s)[j] = s[k]
<1>1. Head(s) \in Events /\ Tail(s) \in Seq(Events)
  OBVIOUS
<1>2. ASSUME NEW k \in DOMAIN s, k # 1
      PROVE  \E j \in DOMAIN Tail(s) : Tail(s)[j] = s[k]
  <2>1. k \in 1 .. Len(s) /\ k - 1 \in 1 .. Len(Tail(s)) /\ Tail(s)[k - 1] = s[k]
    BY <1>2
  <2> QED
    BY <1>1, <2>1
<1>3. \A k \in DOMAIN s : k = 1 => s[k] = Head(s)
  OBVIOUS
<1> QED
  BY <1>1, <1>2, <1>3

LEMMA InitWebhook == Hook!Init => WebhookInv
BY DEF Hook!Init, WebhookInv, WebhookTypeOK, Accounted, Recorded

LEMMA DeliverKeeps ==
  ASSUME WebhookInv, NEW d \in Deliveries, NEW sending \in Hook!Batches, Hook!Deliver(d, sending)
  PROVE  WebhookInv'
<1>1. PICK n \in 1 .. MaxBatch : sending \in [1 .. n -> Events]
  BY DEF Hook!Batches
<1>2. sending \in Seq(Events) /\ {sending[k] : k \in DOMAIN sending} \in SUBSET Events
  BY <1>1
<1>3. WebhookTypeOK'
  BY <1>2 DEF WebhookInv, WebhookTypeOK, Hook!Deliver, Hook!Go
<1>4. Accounted'
  BY <1>2 DEF WebhookInv, WebhookTypeOK, Accounted, InBatch, Hook!Deliver
<1>5. Recorded'
  BY DEF WebhookInv, Recorded, Hook!Deliver
<1> QED
  BY <1>3, <1>4, <1>5 DEF WebhookInv

\* A request that ends holds nothing, and rows are never taken away.
LEMMA DropKeeps ==
  ASSUME WebhookInv, NEW d \in Deliveries, Hook!Drop(d), rows \subseteq rows'
  PROVE  WebhookTypeOK' /\ Accounted'
<1>1. WebhookTypeOK'
  BY DEF WebhookInv, WebhookTypeOK, Hook!Drop, Hook!Go
<1>2. ASSUME NEW f \in Deliveries, NEW e \in payload'[f], Hook!Wanted(e)
      PROVE  InBatch(f, e)' \/ Hook!Row(e) \in rows' \cup inserted'[f]
  <2>1. f # d /\ payload'[f] = payload[f] /\ batch'[f] = batch[f] /\ inserted'[f] = inserted[f]
    BY <1>2 DEF WebhookInv, WebhookTypeOK, Hook!Drop
  <2> QED
    BY <1>2, <2>1 DEF WebhookInv, Accounted, InBatch
<1> QED
  BY <1>1, <1>2 DEF Accounted

LEMMA EndKeeps ==
  ASSUME WebhookInv, NEW d \in Deliveries, Hook!Refuse(d) \/ Hook!Abort(d)
  PROVE  WebhookInv'
<1>1. Hook!Drop(d) /\ rows' = rows /\ accepted' = accepted
  BY DEF Hook!Refuse, Hook!Abort
<1>2. Recorded'
  BY <1>1 DEF WebhookInv, Recorded
<1> QED
  BY <1>1, <1>2, DropKeeps DEF WebhookInv

LEMMA SucceedKeeps ==
  ASSUME WebhookInv, NEW d \in Deliveries, Hook!Succeed(d)
  PROVE  WebhookInv'
<1>1. Hook!Drop(d) /\ rows' = rows \cup inserted[d]
      /\ accepted' \in {accepted, accepted \cup payload[d]} /\ batch[d] = <<>>
  BY DEF Hook!Succeed
<1>2. \A e \in payload[d] : Hook!Wanted(e) => Hook!Row(e) \in rows'
  BY <1>1 DEF WebhookInv, Accounted, InBatch
<1>3. Recorded'
  BY <1>1, <1>2 DEF WebhookInv, Recorded
<1> QED
  BY <1>1, <1>3, DropKeeps DEF WebhookInv

LEMMA AuthenticateKeeps ==
  ASSUME WebhookInv, NEW d \in Deliveries, Hook!Authenticate(d)
  PROVE  WebhookInv'
BY DEF WebhookInv, WebhookTypeOK, Accounted, Recorded, InBatch, Hook!Authenticate, Hook!Go

LEMMA SkipKeeps ==
  ASSUME WebhookInv, NEW d \in Deliveries, Hook!Skip(d)
  PROVE  WebhookInv'
<1>1. batch[d] \in Seq(Events) /\ batch[d] # <<>> /\ ~Hook!Wanted(Head(batch[d]))
  BY DEF WebhookInv, WebhookTypeOK, Hook!Skip
<1>2. WebhookTypeOK'
  BY <1>1, TailKeeps DEF WebhookInv, WebhookTypeOK, Hook!Skip
<1>3. ASSUME NEW f \in Deliveries, NEW e \in payload[f], Hook!Wanted(e)
      PROVE  InBatch(f, e)' \/ Hook!Row(e) \in rows \cup inserted[f]
  <2>1. InBatch(f, e) \/ Hook!Row(e) \in rows \cup inserted[f]
    BY <1>3 DEF WebhookInv, Accounted
  <2>2. ASSUME InBatch(f, e), f = d PROVE InBatch(f, e)'
    <3>1. batch'[f] = Tail(batch[d])
      BY <2>2 DEF WebhookInv, WebhookTypeOK, Hook!Skip
    <3> QED
      BY <1>1, <1>3, <2>2, <3>1, TailKeeps DEF InBatch
  <2>3. ASSUME InBatch(f, e), f # d PROVE InBatch(f, e)'
    BY <2>3 DEF WebhookInv, WebhookTypeOK, Hook!Skip, InBatch
  <2> QED
    BY <2>1, <2>2, <2>3
<1>4. Accounted'
  BY <1>3 DEF Accounted, Hook!Skip
<1>5. Recorded'
  BY DEF WebhookInv, Recorded, Hook!Skip
<1> QED
  BY <1>2, <1>4, <1>5 DEF WebhookInv

LEMMA InsertRowKeeps ==
  ASSUME WebhookInv, NEW d \in Deliveries, Hook!InsertRow(d)
  PROVE  WebhookInv'
<1>1. batch[d] \in Seq(Events) /\ batch[d] # <<>>
  BY DEF WebhookInv, WebhookTypeOK, Hook!InsertRow
<1>2. /\ batch'[d] = Tail(batch[d])
      /\ inserted'[d] = inserted[d] \cup ({Hook!Row(Head(batch[d]))} \ rows)
      /\ \A f \in Deliveries : f # d => batch'[f] = batch[f] /\ inserted'[f] = inserted[f]
      /\ rows' = rows /\ payload' = payload /\ accepted' = accepted /\ handling' = handling
  BY DEF WebhookInv, WebhookTypeOK, Hook!InsertRow
<1>3. WebhookTypeOK'
  <2>1. Head(batch[d]) \in Events /\ Tail(batch[d]) \in Seq(Events)
    BY <1>1, TailKeeps
  <2>2. {Hook!Row(Head(batch[d]))} \ rows \subseteq {Hook!Row(e) : e \in Events}
    BY <2>1
  <2> QED
    BY <2>1, <2>2 DEF WebhookInv, WebhookTypeOK, Hook!InsertRow
<1>4. ASSUME NEW f \in Deliveries, NEW e \in payload[f], Hook!Wanted(e)
      PROVE  InBatch(f, e)' \/ Hook!Row(e) \in rows \cup inserted'[f]
  <2>1. InBatch(f, e) \/ Hook!Row(e) \in rows \cup inserted[f]
    BY <1>4 DEF WebhookInv, Accounted
  <2>2. CASE f # d
    BY <1>2, <2>1, <2>2 DEF InBatch
  <2>3. CASE f = d /\ InBatch(d, e)
    <3>1. PICK k \in DOMAIN batch[d] : batch[d][k] = e
      BY <2>3 DEF InBatch
    <3>2. CASE e = Head(batch[d])
      BY <1>2, <2>3, <3>2
    <3>3. CASE \E j \in DOMAIN Tail(batch[d]) : Tail(batch[d])[j] = e
      BY <1>2, <2>3, <3>3 DEF InBatch
    <3> QED
      BY <1>1, <3>1, <3>2, <3>3, TailKeeps
  <2>4. CASE f = d /\ Hook!Row(e) \in rows \cup inserted[d]
    BY <1>2, <2>4
  <2> QED
    BY <2>1, <2>2, <2>3, <2>4
<1>5. Accounted'
  BY <1>2, <1>4 DEF Accounted
<1>6. Recorded'
  BY <1>2 DEF WebhookInv, Recorded
<1> QED
  BY <1>3, <1>5, <1>6 DEF WebhookInv

LEMMA StepKeepsWebhook == WebhookInv /\ [Hook!Next]_(Hook!webhookVars) => WebhookInv'
<1> SUFFICES ASSUME WebhookInv, [Hook!Next]_(Hook!webhookVars)
             PROVE  WebhookInv'
  OBVIOUS
<1>1. CASE UNCHANGED Hook!webhookVars
  BY <1>1 DEF Hook!webhookVars, WebhookInv, WebhookTypeOK, Accounted, Recorded, InBatch
<1>2. ASSUME NEW d \in Deliveries, NEW sending \in Hook!Batches, Hook!Deliver(d, sending)
      PROVE  WebhookInv'
  BY <1>2, DeliverKeeps
<1>3. ASSUME NEW d \in Deliveries, Hook!Refuse(d) \/ Hook!Abort(d)
      PROVE  WebhookInv'
  BY <1>3, EndKeeps
<1>4. ASSUME NEW d \in Deliveries, Hook!Succeed(d)
      PROVE  WebhookInv'
  BY <1>4, SucceedKeeps
<1>5. ASSUME NEW d \in Deliveries, Hook!Authenticate(d) \/ Hook!Skip(d) \/ Hook!InsertRow(d)
      PROVE  WebhookInv'
  BY <1>5, AuthenticateKeeps, SkipKeeps, InsertRowKeeps
<1> QED
  BY <1>1, <1>2, <1>3, <1>4, <1>5 DEF Hook!Next

\* What was answered with success waits in its inbox from then on, for any events, any
\* number of overlapping deliveries, and whichever of them fail.
THEOREM AcceptedStays == Hook!Spec => []Hook!AcceptedIsRecorded
<1>1. WebhookInv => Hook!AcceptedIsRecorded
  BY DEF WebhookInv, Recorded, Hook!AcceptedIsRecorded, Hook!Wanted, Hook!Row
<1> QED
  BY InitWebhook, StepKeepsWebhook, <1>1, PTL DEF Hook!Spec
-----------------------------------------------------------------------------
(* The installation of the app.                                             *)

\* What the browser is sent to begin with: a launch's answer carries its own state.
LaunchAnswer(n) == [cookie |-> n, to |-> "launch", id |-> n]

Callbacks ==
  [id : Nat, state : Nat, cookie : Nat, stage : {"check", "exchange", "persist"},
   stale : BOOLEAN]

OAuthTypeOK ==
  /\ sent \in Nat
  /\ jar \in Nat
  /\ returns \subseteq Callbacks
  /\ launches \in [1 .. MaxLaunches -> [config : {0, 1, 2}, exp : Int]]
  /\ config \in {1, 2}
  /\ now \in Int
  /\ StateTtl \in Int

\* Nonces are issued in order, so the next one is fresh.
NoncesInOrder == \E k \in 0 .. MaxLaunches : OAuth!Issued = 1 .. k

\* A state reaches the browser once: its answer is under way only until then.
StatesArriveOnce ==
  /\ authorized \subseteq OAuth!Issued
  /\ \A a \in answers :
       a.to = "launch" => \E n \in OAuth!Issued \ authorized : a = LaunchAnswer(n)

\* An answer of the handler clears the cookie.
HandledClears == \A a \in answers : a.to # "launch" /\ a.handled => a.clears

\* The cookie holds no state the handler has answered for.
JarIsUnspent ==
  /\ spent \subseteq authorized
  /\ jar \in authorized \cup {0}
  /\ jar \notin spent

\* A callback with a spent state came without that state's cookie.
StaleIsUnsealed == \A r \in returns : r.stale => r.state # r.cookie

OAuthInv ==
  /\ OAuthTypeOK
  /\ NoncesInOrder
  /\ StatesArriveOnce
  /\ HandledClears
  /\ JarIsUnspent
  /\ StaleIsUnsealed
  /\ OAuth!StateNotReplayed

LEMMA InitOAuth == OAuth!Init => OAuthInv
<1> SUFFICES ASSUME OAuth!Init PROVE OAuthInv
  OBVIOUS
<1>1. OAuthTypeOK
  BY OAuthAssumption DEF OAuth!Init, OAuthTypeOK
<1>2. OAuth!Issued = {} /\ 1 .. 0 = {} /\ 0 \in 0 .. MaxLaunches
  BY OAuthAssumption DEF OAuth!Init, OAuth!Issued
<1>3. NoncesInOrder
  BY <1>2 DEF NoncesInOrder
<1>4. StatesArriveOnce /\ HandledClears /\ JarIsUnspent /\ StaleIsUnsealed
  BY DEF OAuth!Init, StatesArriveOnce, HandledClears, JarIsUnspent, StaleIsUnsealed
<1>5. OAuth!StateNotReplayed
  BY DEF OAuth!Init, OAuth!StateNotReplayed
<1> QED
  BY <1>1, <1>3, <1>4, <1>5 DEF OAuthInv

\* A launch issues the nonce after all those issued.
LEMMA LaunchKeeps ==
  ASSUME OAuthInv, OAuth!Launch
  PROVE  OAuthInv'
<1>1. PICK k \in 0 .. MaxLaunches : OAuth!Issued = 1 .. k
  BY DEF OAuthInv, NoncesInOrder
<1>2. OAuth!Cardinality(OAuth!Issued) = k
  <2>1. Cardinality(1 .. k) = k
    BY <1>1, FS_Interval
  <2> QED
    BY <1>1, <2>1 DEF OAuth!Cardinality, Cardinality
<1> DEFINE n == k + 1
<1>3. /\ n \in 1 .. MaxLaunches
      /\ launches' = [launches EXCEPT ![n] = [config |-> config, exp |-> now + StateTtl]]
      /\ answers' = answers \cup {LaunchAnswer(n)}
  <2>1. n = OAuth!Cardinality(OAuth!Issued) + 1 /\ k \in Nat
    BY <1>1, <1>2, OAuthAssumption
  <2>2. /\ n <= MaxLaunches
        /\ launches' = [launches EXCEPT ![n] = [config |-> config, exp |-> now + StateTtl]]
        /\ answers' = answers \cup {[cookie |-> n, to |-> "launch", id |-> n]}
    BY <2>1 DEF OAuth!Launch
  <2> QED
    BY <2>1, <2>2, OAuthAssumption DEF LaunchAnswer
<1>4. UNCHANGED <<now, config, jar, returns, sent, authorized, spent, replayed>>
  BY DEF OAuth!Launch
<1>5. OAuthTypeOK'
  BY <1>3, <1>4 DEF OAuthInv, OAuthTypeOK
<1>6. /\ \A m \in 1 .. MaxLaunches : m # n => launches'[m] = launches[m]
      /\ launches'[n].config # 0
  BY <1>3 DEF OAuthInv, OAuthTypeOK
<1>7. OAuth!Issued' = 1 .. n
  <2>1. OAuth!Issued' = OAuth!Issued \cup {n}
    BY <1>3, <1>6 DEF OAuth!Issued
  <2> QED
    BY <1>1, <2>1
<1>8. NoncesInOrder'
  BY <1>3, <1>7, OAuthAssumption DEF NoncesInOrder
<1>9. OAuth!Issued \subseteq OAuth!Issued' /\ n \in OAuth!Issued' \ OAuth!Issued
  BY <1>1, <1>7
<1>10. StatesArriveOnce'
  BY <1>3, <1>4, <1>9 DEF OAuthInv, StatesArriveOnce
<1>11. HandledClears'
  BY <1>3 DEF OAuthInv, HandledClears, LaunchAnswer
<1>12. (JarIsUnspent /\ StaleIsUnsealed /\ OAuth!StateNotReplayed)'
  BY <1>4 DEF OAuthInv, JarIsUnspent, StaleIsUnsealed, OAuth!StateNotReplayed
<1> QED
  BY <1>5, <1>8, <1>10, <1>11, <1>12 DEF OAuthInv

LEMMA ArriveKeeps ==
  ASSUME OAuthInv, NEW a \in answers, OAuth!Arrive(a)
  PROVE  OAuthInv'
<1>1. UNCHANGED <<now, config, launches, returns, sent, replayed>> /\ answers' = answers \ {a}
  BY DEF OAuth!Arrive
<1>2. (OAuthTypeOK /\ NoncesInOrder /\ HandledClears /\ StaleIsUnsealed /\ OAuth!StateNotReplayed)'
      /\ OAuth!Issued' = OAuth!Issued /\ 0 \notin OAuth!Issued
  <2>1. jar' \in Nat
    BY OAuthAssumption
       DEF OAuth!Arrive, OAuthInv, OAuthTypeOK, StatesArriveOnce, OAuth!Issued, LaunchAnswer
  <2> QED
    BY <1>1, <2>1 DEF OAuthInv, OAuthTypeOK, NoncesInOrder, HandledClears, StaleIsUnsealed,
                      OAuth!StateNotReplayed, OAuth!Issued
<1>3. ASSUME a.to = "launch" PROVE StatesArriveOnce' /\ JarIsUnspent'
  <2>1. PICK n \in OAuth!Issued \ authorized : a = LaunchAnswer(n)
    BY <1>3 DEF OAuthInv, StatesArriveOnce
  <2>2. jar' = n /\ authorized' = authorized \cup {n} /\ spent' = spent
    BY <1>3, <2>1 DEF OAuth!Arrive, LaunchAnswer
  <2>3. ASSUME NEW b \in answers', b.to = "launch"
        PROVE  \E m \in OAuth!Issued \ authorized' : b = LaunchAnswer(m)
    <3>1. b # a /\ \E m \in OAuth!Issued \ authorized : b = LaunchAnswer(m)
      BY <1>1, <2>3 DEF OAuthInv, StatesArriveOnce
    <3> QED
      BY <2>1, <2>2, <3>1
  <2> QED
    BY <1>2, <2>1, <2>2, <2>3 DEF OAuthInv, StatesArriveOnce, JarIsUnspent
<1>4. ASSUME a.to # "launch" PROVE StatesArriveOnce' /\ JarIsUnspent'
  <2>1. authorized' = authorized /\ jar' = (IF a.clears THEN 0 ELSE jar)
        /\ spent' = (IF a.handled THEN spent \cup (authorized \ {0}) ELSE spent)
    BY <1>4 DEF OAuth!Arrive
  <2>2. StatesArriveOnce'
    BY <1>1, <1>2, <2>1 DEF OAuthInv, StatesArriveOnce
  <2>3. a.handled => a.clears
    BY <1>4 DEF OAuthInv, HandledClears
  <2>4. 0 \notin authorized
    BY <1>2 DEF OAuthInv, StatesArriveOnce
  <2> QED
    BY <2>1, <2>2, <2>3, <2>4 DEF OAuthInv, JarIsUnspent
<1> QED
  BY <1>2, <1>3, <1>4 DEF OAuthInv

LEMMA ReturnKeeps ==
  ASSUME OAuthInv, NEW n \in authorized, OAuth!Return(n)
  PROVE  OAuthInv'
<1> DEFINE r == [id |-> sent + 1, state |-> n, cookie |-> jar, stage |-> "check",
                 stale |-> n \in spent]
<1>1. UNCHANGED <<now, config, launches, jar, answers, authorized, spent, replayed>>
      /\ sent' = sent + 1 /\ returns' = returns \cup {r}
  BY DEF OAuth!Return
<1>2. n \in Nat /\ sent + 1 \in Nat /\ jar \in Nat /\ (n \in spent) \in BOOLEAN
  BY OAuthAssumption DEF OAuthInv, OAuthTypeOK, StatesArriveOnce, OAuth!Issued
<1>3. r \in Callbacks /\ r.state = n /\ r.cookie = jar
  BY <1>2 DEF Callbacks
<1>4. r.stale = (n \in spent)
  BY Zenon
<1>5. r.stale => r.state # r.cookie
  BY <1>3, <1>4 DEF OAuthInv, JarIsUnspent
<1>6. StaleIsUnsealed'
  BY <1>1, <1>5 DEF OAuthInv, StaleIsUnsealed
<1>7. OAuthTypeOK'
  BY <1>1, <1>2, <1>3 DEF OAuthInv, OAuthTypeOK
<1> QED
  BY <1>1, <1>6, <1>7
     DEF OAuthInv, NoncesInOrder, OAuth!Issued, StatesArriveOnce, HandledClears,
         JarIsUnspent, OAuth!StateNotReplayed

\* The handler's steps: a callback goes on as it was or is answered.
LEMMA HandlerKeeps ==
  ASSUME OAuthInv, NEW r \in returns,
         UNCHANGED <<now, config, launches, jar, sent, authorized, spent>>,
         \/ /\ answers' = answers
            /\ \E stg \in {"exchange", "persist"} :
                 returns' = (returns \ {r}) \cup {[r EXCEPT !.stage = stg]}
         \/ \E outcm \in {"rejected", "failed", "connected", "unhandled"} : OAuth!AnswerTo(r, outcm),
         \/ replayed' = replayed
         \/ ~r.stale /\ replayed' = (replayed \/ r.stale)
  PROVE  OAuthInv'
<1>1. /\ \A b \in answers' \ answers : b.to # "launch" /\ (b.handled => b.clears)
      /\ answers \subseteq answers'
  BY DEF OAuth!AnswerTo, OAuth!Clears
<1>2. StatesArriveOnce' /\ HandledClears'
  BY <1>1 DEF OAuthInv, StatesArriveOnce, OAuth!Issued, HandledClears
<1>3. OAuthTypeOK' /\ StaleIsUnsealed'
  <2>1. r \in Callbacks
    BY DEF OAuthInv, OAuthTypeOK
  <2>2. ASSUME NEW stg \in {"exchange", "persist"}
        PROVE  /\ [r EXCEPT !.stage = stg] \in Callbacks
               /\ [r EXCEPT !.stage = stg].state = r.state
               /\ [r EXCEPT !.stage = stg].cookie = r.cookie
               /\ [r EXCEPT !.stage = stg].stale = r.stale
    BY <2>1 DEF Callbacks
  <2>3. \A q \in returns' : q \in Callbacks /\ (q.stale => q.state # q.cookie)
    BY <2>2 DEF OAuthInv, OAuthTypeOK, StaleIsUnsealed, OAuth!AnswerTo
  <2> QED
    BY <2>3 DEF OAuthInv, OAuthTypeOK, StaleIsUnsealed
<1>4. OAuth!StateNotReplayed'
  BY DEF OAuthInv, OAuth!StateNotReplayed
<1>5. NoncesInOrder' /\ JarIsUnspent'
  BY DEF OAuthInv, NoncesInOrder, OAuth!Issued, JarIsUnspent
<1> QED
  BY <1>2, <1>3, <1>4, <1>5 DEF OAuthInv

LEMMA CallbackKeeps ==
  ASSUME OAuthInv, NEW r \in returns,
         \/ OAuth!Accept(r) \/ OAuth!Reject(r) \/ OAuth!Exchange(r)
         \/ OAuth!ExchangeFails(r) \/ OAuth!Connect(r) \/ OAuth!Unhandled(r)
  PROVE  OAuthInv'
<1>1. CASE OAuth!Accept(r)
  <2>1. r.state = r.cookie
    BY <1>1 DEF OAuth!Accept, OAuth!Valid
  <2>2. ~r.stale
    BY <2>1 DEF OAuthInv, StaleIsUnsealed
  <2> QED
    BY <1>1, <2>2, HandlerKeeps DEF OAuth!Accept
<1>2. CASE OAuth!Exchange(r)
  BY <1>2, HandlerKeeps DEF OAuth!Exchange
<1>3. CASE OAuth!Reject(r) \/ OAuth!ExchangeFails(r) \/ OAuth!Connect(r) \/ OAuth!Unhandled(r)
  BY <1>3, HandlerKeeps
     DEF OAuth!Reject, OAuth!ExchangeFails, OAuth!Connect, OAuth!Unhandled
<1> QED
  BY <1>1, <1>2, <1>3

LEMMA StepKeepsOAuth == OAuthInv /\ [OAuth!Next]_(OAuth!oauthVars) => OAuthInv'
<1> SUFFICES ASSUME OAuthInv, [OAuth!Next]_(OAuth!oauthVars)
             PROVE  OAuthInv'
  OBVIOUS
<1>1. CASE UNCHANGED OAuth!oauthVars
  BY <1>1 DEF OAuth!oauthVars, OAuthInv, OAuthTypeOK, NoncesInOrder, OAuth!Issued,
              StatesArriveOnce, HandledClears, JarIsUnspent, StaleIsUnsealed,
              OAuth!StateNotReplayed
<1>2. CASE OAuth!Tick \/ OAuth!Redeploy
  <2>1. OAuthTypeOK'
    BY <1>2 DEF OAuth!Tick, OAuth!Redeploy, OAuthInv, OAuthTypeOK
  <2>2. UNCHANGED <<launches, jar, answers, returns, authorized, spent, replayed>>
    BY <1>2 DEF OAuth!Tick, OAuth!Redeploy
  <2> QED
    BY <2>1, <2>2
       DEF OAuthInv, NoncesInOrder, OAuth!Issued, StatesArriveOnce, HandledClears,
           JarIsUnspent, StaleIsUnsealed, OAuth!StateNotReplayed
<1>3. CASE OAuth!Launch
  BY <1>3, LaunchKeeps
<1>4. ASSUME NEW a \in answers, OAuth!Arrive(a)
      PROVE  OAuthInv'
  BY <1>4, ArriveKeeps
<1>5. ASSUME NEW n \in authorized, OAuth!Return(n)
      PROVE  OAuthInv'
  BY <1>5, ReturnKeeps
<1>6. ASSUME NEW r \in returns,
             \/ OAuth!Accept(r) \/ OAuth!Reject(r) \/ OAuth!Exchange(r)
             \/ OAuth!ExchangeFails(r) \/ OAuth!Connect(r) \/ OAuth!Unhandled(r)
      PROVE  OAuthInv'
  BY <1>6, CallbackKeeps
<1> QED
  BY <1>1, <1>2, <1>3, <1>4, <1>5, <1>6 DEF OAuth!Next

\* route.ts:139: "so it cannot be replayed".  However many tabs launch, whatever is
\* redeployed and in whatever order answers arrive, no callback sent with a state the
\* handler has answered for is accepted.
THEOREM StateNeverReplayed == OAuth!Spec => []OAuth!StateNotReplayed
<1>1. OAuthInv => OAuth!StateNotReplayed
  BY DEF OAuthInv
<1> QED
  BY InitOAuth, StepKeepsOAuth, <1>1, PTL DEF OAuth!Spec
-----------------------------------------------------------------------------
(* The parts side by side.                                                  *)

\* A behaviour stays with its component.
LEMMA PartStays == [VaultNext]_vaultVars => part' = part
BY DEF VaultNext, vaultVars

\* While part says so, Vault starts and steps as the component does.
LEMMA GuardsPart ==
  /\ VaultInit /\ part = "guards" => Guards!Init
  /\ [VaultNext]_vaultVars /\ part = "guards" => [Guards!Next]_(Guards!guardVars)
<1>1. VaultInit /\ part = "guards" => Guards!Init
  BY DEF VaultInit, Components, Starts
<1>2. [VaultNext]_vaultVars /\ part = "guards" => [Guards!Next]_(Guards!guardVars)
  BY DEF VaultNext, vaultVars, Guards!guardVars, guardSide
<1> QED
  BY <1>1, <1>2

LEMMA AccessPart ==
  /\ VaultInit /\ part = "access" => Access!Init
  /\ [VaultNext]_vaultVars /\ part = "access" => [Access!Next]_(Access!accessVars)
<1>1. VaultInit /\ part = "access" => Access!Init
  BY DEF VaultInit, Components, Starts
<1>2. [VaultNext]_vaultVars /\ part = "access" => [Access!Next]_(Access!accessVars)
  BY DEF VaultNext, vaultVars, Access!accessVars, accessSide
<1> QED
  BY <1>1, <1>2

LEMMA HookPart ==
  /\ VaultInit /\ part = "webhook" => Hook!Init
  /\ [VaultNext]_vaultVars /\ part = "webhook" => [Hook!Next]_(Hook!webhookVars)
<1>1. VaultInit /\ part = "webhook" => Hook!Init
  BY DEF VaultInit, Components, Starts
<1>2. [VaultNext]_vaultVars /\ part = "webhook" => [Hook!Next]_(Hook!webhookVars)
  BY DEF VaultNext, vaultVars, Hook!webhookVars, webhookSide
<1> QED
  BY <1>1, <1>2

LEMMA OAuthPart ==
  /\ VaultInit /\ part = "oauth" => OAuth!Init
  /\ [VaultNext]_vaultVars /\ part = "oauth" => [OAuth!Next]_(OAuth!oauthVars)
<1>1. VaultInit /\ part = "oauth" => OAuth!Init
  BY DEF VaultInit, Components, Starts
<1>2. [VaultNext]_vaultVars /\ part = "oauth" => [OAuth!Next]_(OAuth!oauthVars)
  BY DEF VaultNext, vaultVars, OAuth!oauthVars, oauthSide
<1> QED
  BY <1>1, <1>2

\* The same of Vault: its store keeps an active owner.
THEOREM VaultKeepsOwner == VaultSpec => []StoreKeepsOwner
<1> DEFINE I == part = "access" => AccessInv
<1>1. VaultInit => I
  BY InitAccess, AccessPart
<1>2. I /\ [VaultNext]_vaultVars => I'
  BY StepKeepsAccess, AccessPart, PartStays
<1>3. I => StoreKeepsOwner
  BY DEF StoreKeepsOwner, AccessInv
<1> QED
  BY <1>1, <1>2, <1>3, PTL DEF VaultSpec

\* Of Vault: its private pages are for active owners.
THEOREM VaultGuardsPages == VaultSpec => []PagesAreGuarded
<1> DEFINE I == part = "access" => AccessInv
<1>1. VaultInit => I
  BY InitAccess, AccessPart
<1>2. I /\ [VaultNext]_vaultVars => I'
  BY StepKeepsAccess, AccessPart, PartStays
<1>3. I => PagesAreGuarded
  BY DEF PagesAreGuarded, AccessInv
<1> QED
  BY <1>1, <1>2, <1>3, PTL DEF VaultSpec

\* Of Vault: what its webhook accepted waits in an inbox.
THEOREM VaultKeepsAccepted == VaultSpec => []WebhookLosesNothing
<1> DEFINE I == part = "webhook" => WebhookInv
<1>1. VaultInit => I
  BY InitWebhook, HookPart
<1>2. I /\ [VaultNext]_vaultVars => I'
  BY StepKeepsWebhook, HookPart, PartStays
<1>3. I => WebhookLosesNothing
  BY DEF WebhookLosesNothing, WebhookInv, Recorded, Hook!AcceptedIsRecorded, Hook!Wanted,
         Hook!Row
<1> QED
  BY <1>1, <1>2, <1>3, PTL DEF VaultSpec

\* Of Vault: an answered state is not accepted again.
THEOREM VaultSpendsState == VaultSpec => []StateIsSpent
<1> DEFINE I == part = "oauth" => OAuthInv
<1>1. VaultInit => I
  BY InitOAuth, OAuthPart
<1>2. I /\ [VaultNext]_vaultVars => I'
  BY StepKeepsOAuth, OAuthPart, PartStays
<1>3. I => StateIsSpent
  BY DEF StateIsSpent, OAuthInv
<1> QED
  BY <1>1, <1>2, <1>3, PTL DEF VaultSpec

-----------------------------------------------------------------------------
(* A request and its saga.                                                  *)

StepsOK ==
  /\ Request!RequestTypeOK
  /\ adapter \in Request!Adapters
  /\ stage \in {"build", "handler", "commit", "close", "answer", "end"}
  /\ exit \in Request!Exits \cup {"none"}
  /\ commitExit \in {"none", "done", "failed"}

\* Participants that joined have a transaction, the others have none.
Building ==
  stage = "build" =>
    /\ adapter = "route" /\ exit = "none" /\ commitExit = "none"
    /\ \A p \in Request!P :
         /\ p <= joined => tx[p] = "open" /\ connection[p] = "reserved"
         /\ p > joined => tx[p] = "none" /\ connection[p] = "none"

\* The handler runs when all have joined; outside a saga nothing is ever acquired.
Handling ==
  stage = "handler" =>
    /\ exit = "none" /\ commitExit = "none"
    /\ adapter = "route" => \A p \in Request!P : tx[p] = "open" /\ connection[p] = "reserved"

NoSaga ==
  adapter # "route" =>
    /\ stage \in {"handler", "answer", "end"}
    /\ \A p \in Request!P : tx[p] = "none" /\ connection[p] = "none"

Committing ==
  stage = "commit" =>
    /\ adapter = "route" /\ exit = "value" /\ commitExit = "none" /\ turn > 0
    /\ \A p \in Request!P :
         /\ tx[p] = IF p < turn THEN "committed" ELSE "open"
         /\ connection[p] = "reserved"

\* From the first finalizer on: what was committed stands, what was not is rolled back
\* by the participant's turn, and a connection is returned after it.
Closing ==
  stage \in {"close", "answer", "end"} /\ adapter = "route" =>
    /\ exit # "none"
    /\ stage # "close" => turn = 0
    /\ exit = "value" =>
         \/ commitExit = "done" /\ \A p \in Request!P : tx[p] = "committed"
         \/ commitExit = "failed" /\ tx[1] # "open"
    /\ exit # "value" =>
         /\ commitExit = "none"
         /\ \A p \in Request!P :
              /\ tx[p] \in {"none", "open", "rolledBack"}
              /\ p > turn => tx[p] # "open"
              /\ exit = "httpError" => tx[p] # "none"
    /\ \A p \in Request!P : connection[p] = "returned" => p > turn

\* The answer is made of the exits.
Answered ==
  /\ stage # "end" => answer = Request!NoAnswer
  /\ stage = "end" /\ adapter = "route" =>
       answer.kind = CASE exit = "value" /\ commitExit # "failed" -> "success"
                       [] exit = "httpError" -> "refusal"
                       [] OTHER -> "serverError"

RequestInv == StepsOK /\ Building /\ Handling /\ NoSaga /\ Committing /\ Closing /\ Answered

LEMMA InitRequest == Request!Init => RequestInv
BY RequestAssumption
   DEF Request!Init, RequestInv, StepsOK, Request!RequestTypeOK, Building, Handling, NoSaga,
       Committing, Closing, Answered, Request!P, Request!Adapters

\* A step of the saga's begin.
LEMMA JoinKeeps ==
  ASSUME RequestInv, Request!Join \/ Request!CannotJoin \/ Request!Built \/ Request!QueueHeader
  PROVE  RequestInv'
<1> USE RequestAssumption
<1>1. CASE Request!Join
  BY <1>1
     DEF Request!Join, RequestInv, StepsOK, Request!RequestTypeOK, Building, Handling, NoSaga,
         Committing, Closing, Answered, Request!P
<1>2. CASE Request!CannotJoin
  <2>1. stage = "build" /\ adapter = "route" /\ joined + 1 \in Request!P /\ joined < Participants
        /\ stage' = "close" /\ turn' = Participants /\ exit' \in {"failure", "defect"}
        /\ UNCHANGED <<adapter, joined, tx, commitExit, queued, answer>>
    BY <1>2
       DEF Request!CannotJoin, RequestInv, Building, StepsOK, Request!RequestTypeOK, Request!P
  <2>2. PICK got \in {"none", "reserved"} :
          connection' = [connection EXCEPT ![joined + 1] = got]
    BY <1>2 DEF Request!CannotJoin
  <2>3. \A p \in Request!P : connection'[p] # "returned"
    BY <2>1, <2>2 DEF RequestInv, Building, StepsOK, Request!RequestTypeOK, Request!P
  <2>4. StepsOK'
    BY <2>1, <2>2 DEF RequestInv, StepsOK, Request!RequestTypeOK, Request!Exits
  <2>5. Closing'
    BY <2>1, <2>3 DEF RequestInv, Building, Closing, StepsOK, Request!RequestTypeOK, Request!P
  <2> QED
    BY <2>1, <2>4, <2>5 DEF RequestInv, Building, Handling, NoSaga, Committing, Answered
<1>3. CASE Request!Built
  BY <1>3
     DEF Request!Built, RequestInv, StepsOK, Request!RequestTypeOK, Building, Handling, NoSaga,
         Committing, Closing, Answered, Request!P
<1>4. CASE Request!QueueHeader
  BY <1>4
     DEF Request!QueueHeader, RequestInv, StepsOK, Request!RequestTypeOK, Building, Handling,
         NoSaga, Committing, Closing, Answered, Request!P
<1> QED
  BY <1>1, <1>2, <1>3, <1>4

LEMMA HandlerEndsKeeps ==
  ASSUME RequestInv, NEW e \in Request!Exits, Request!HandlerEnds(e)
  PROVE  RequestInv'
BY RequestAssumption
   DEF Request!HandlerEnds, RequestInv, StepsOK, Request!RequestTypeOK, Building, Handling,
       NoSaga, Committing, Closing, Answered, Request!P, Request!Exits

\* The participants before the turn have committed; one that cannot ends the commits.
LEMMA CommitKeeps ==
  ASSUME RequestInv, NEW done \in BOOLEAN, Request!Commit(done)
  PROVE  RequestInv'
<1> USE RequestAssumption
<1>1. stage = "commit" /\ adapter = "route" /\ exit = "value" /\ commitExit = "none"
      /\ turn \in Request!P /\ UNCHANGED <<adapter, joined, connection, exit, queued, answer>>
  BY DEF Request!Commit, RequestInv, Committing, StepsOK, Request!RequestTypeOK, Request!P
<1>2. tx' = [tx EXCEPT ![turn] = IF done THEN "committed" ELSE "refused"]
  BY DEF Request!Commit
<1>3. CASE done /\ turn < Participants
  <2>1. stage' = "commit" /\ turn' = turn + 1 /\ commitExit' = "none"
    BY <1>1, <1>3 DEF Request!Commit
  <2>2. StepsOK'
    BY <1>1, <1>2, <1>3, <2>1 DEF RequestInv, StepsOK, Request!RequestTypeOK, Request!P
  <2>3. Committing'
    BY <1>1, <1>2, <1>3, <2>1 DEF RequestInv, Committing, StepsOK, Request!RequestTypeOK, Request!P
  <2> QED
    BY <1>1, <2>1, <2>2, <2>3 DEF RequestInv, Building, Handling, NoSaga, Closing, Answered
<1>4. CASE ~(done /\ turn < Participants)
  <2>1. stage' = "close" /\ turn' = Participants
        /\ commitExit' = IF done THEN "done" ELSE "failed"
    BY <1>1, <1>4 DEF Request!Commit
  <2>2. StepsOK'
    BY <1>1, <1>2, <2>1 DEF RequestInv, StepsOK, Request!RequestTypeOK, Request!P
  <2>3. done => \A p \in Request!P : tx'[p] = "committed"
    BY <1>1, <1>2, <1>4 DEF RequestInv, Committing, StepsOK, Request!RequestTypeOK, Request!P
  <2>4. ~done => tx'[1] # "open"
    BY <1>1, <1>2 DEF RequestInv, Committing, StepsOK, Request!RequestTypeOK, Request!P
  <2>5. \A p \in Request!P : connection'[p] = "reserved"
    BY <1>1 DEF RequestInv, Committing
  <2>6. Closing'
    BY <1>1, <2>1, <2>3, <2>4, <2>5 DEF Closing
  <2> QED
    BY <1>1, <2>1, <2>2, <2>6 DEF RequestInv, Building, Handling, NoSaga, Committing, Answered
<1> QED
  BY <1>3, <1>4

\* A participant is rolled back before its connection is returned.
LEMMA FinalizeKeeps ==
  ASSUME RequestInv, Request!Finalize
  PROVE  RequestInv'
<1> USE RequestAssumption
<1>1. stage = "close" /\ adapter = "route" /\ turn \in Request!P
      /\ UNCHANGED <<adapter, stage, joined, exit, commitExit, queued, answer>>
  BY DEF Request!Finalize, RequestInv, NoSaga, StepsOK, Request!RequestTypeOK, Request!P,
         Request!Adapters
<1>2. CASE tx[turn] = "open" /\ exit # "value"
  <2>1. tx' = [tx EXCEPT ![turn] = "rolledBack"] /\ connection' = connection /\ turn' = turn
    BY <1>2 DEF Request!Finalize
  <2>2. StepsOK'
    BY <1>1, <2>1 DEF RequestInv, StepsOK, Request!RequestTypeOK
  <2>3. Closing'
    BY <1>1, <1>2, <2>1 DEF RequestInv, Closing, StepsOK, Request!RequestTypeOK, Request!P
  <2> QED
    BY <1>1, <2>2, <2>3 DEF RequestInv, Building, Handling, NoSaga, Committing, Answered
<1>3. CASE ~(tx[turn] = "open" /\ exit # "value")
  <2>1. connection' = [connection EXCEPT ![turn] = IF @ = "reserved" THEN "returned" ELSE @]
        /\ turn' = turn - 1 /\ tx' = tx
    BY <1>3 DEF Request!Finalize
  <2>2. StepsOK'
    BY <1>1, <2>1 DEF RequestInv, StepsOK, Request!RequestTypeOK, Request!P
  <2>3. Closing'
    BY <1>1, <1>3, <2>1 DEF RequestInv, Closing, StepsOK, Request!RequestTypeOK, Request!P
  <2> QED
    BY <1>1, <2>2, <2>3 DEF RequestInv, Building, Handling, NoSaga, Committing, Answered
<1> QED
  BY <1>2, <1>3

LEMMA AnswerKeeps ==
  ASSUME RequestInv, Request!Closed \/ Request!Respond \/ Request!Raise
  PROVE  RequestInv'
<1>1. CASE Request!Closed
  BY <1>1
     DEF Request!Closed, RequestInv, StepsOK, Request!RequestTypeOK, Building, Handling, NoSaga,
         Committing, Closing, Answered, Request!P
<1>2. ASSUME stage = "answer", stage' = "end",
             UNCHANGED <<adapter, joined, turn, tx, connection, exit, commitExit, queued>>
      PROVE  (StepsOK /\ Building /\ Handling /\ NoSaga /\ Committing /\ Closing)'
  BY <1>2
     DEF RequestInv, StepsOK, Request!RequestTypeOK, Building, Handling, NoSaga, Committing, Closing
<1>3. CASE Request!Respond
  <2>1. stage' = "end"
        /\ answer'.kind = CASE exit = "value" /\ commitExit # "failed" -> "success"
                            [] exit = "httpError" -> "refusal"
                            [] OTHER -> "serverError"
    BY <1>3 DEF Request!Respond, Request!RouteAnswer
  <2>2. Answered'
    BY <1>3, <2>1 DEF Answered, Request!Respond
  <2> QED
    BY <1>2, <1>3, <2>2 DEF Request!Respond, RequestInv
<1>4. CASE Request!Raise
  BY <1>2, <1>4 DEF Request!Raise, RequestInv, Answered
<1> QED
  BY <1>1, <1>3, <1>4

LEMMA StepKeepsRequest == RequestInv /\ [Request!Next]_(Request!requestVars) => RequestInv'
<1> SUFFICES ASSUME RequestInv, [Request!Next]_(Request!requestVars)
             PROVE  RequestInv'
  OBVIOUS
<1>1. CASE UNCHANGED Request!requestVars
  BY <1>1
     DEF Request!requestVars, RequestInv, StepsOK, Request!RequestTypeOK, Building, Handling,
         NoSaga, Committing, Closing, Answered
<1>2. CASE Request!Next
  BY <1>2, JoinKeeps, HandlerEndsKeeps, CommitKeeps, FinalizeKeeps, AnswerKeeps
     DEF Request!Next
<1> QED
  BY <1>1, <1>2

\* A connection goes back to the pool without its transaction.
LEMMA ReturnsWithout == RequestInv => Request!ReturnedWithoutTransaction
BY RequestAssumption
   DEF RequestInv, StepsOK, Request!RequestTypeOK, Building, Handling, NoSaga, Committing,
       Closing, Request!P, Request!ReturnedWithoutTransaction

\* An answer says what became of the transactions.
LEMMA AnswerTells == RequestInv => Request!AnswerTellsOutcome
<1> SUFFICES ASSUME RequestInv, adapter = "route", answer.kind # "none"
             PROVE  /\ answer.kind = "success" => \A p \in Request!P : tx[p] = "committed"
                    /\ answer.kind = "refusal" => \A p \in Request!P : tx[p] = "rolledBack"
                    /\ answer.kind = "serverError" /\ commitExit = "none" =>
                         \A p \in Request!P : tx[p] \in {"none", "rolledBack"}
                    /\ commitExit = "failed" => answer.kind = "serverError"
  BY DEF Request!AnswerTellsOutcome
<1>1. stage = "end" /\ turn = 0 /\ exit # "none"
  BY DEF RequestInv, Answered, Closing, Request!NoAnswer
<1>2. answer.kind = CASE exit = "value" /\ commitExit # "failed" -> "success"
                      [] exit = "httpError" -> "refusal"
                      [] OTHER -> "serverError"
  BY <1>1 DEF RequestInv, Answered
<1>3. CASE exit = "value"
  BY <1>1, <1>2, <1>3 DEF RequestInv, Closing
<1>4. CASE exit # "value"
  <2>1. commitExit = "none"
        /\ \A p \in Request!P : /\ tx[p] \in {"none", "open", "rolledBack"}
                                /\ p > turn => tx[p] # "open"
                                /\ exit = "httpError" => tx[p] # "none"
    BY <1>1, <1>4 DEF RequestInv, Closing
  <2>2. \A p \in Request!P : p > turn
    BY <1>1, RequestAssumption DEF Request!P
  <2>3. \A p \in Request!P : tx[p] \in {"none", "rolledBack"}
    BY <2>1, <2>2
  <2>4. answer.kind \in {"refusal", "serverError"} /\ (answer.kind = "refusal" => exit = "httpError")
    BY <1>2, <1>4
  <2> QED
    BY <2>1, <2>3, <2>4
<1> QED
  BY <1>3, <1>4

\* A connection goes back to the pool without a transaction, and a caller is told what
\* became of what it wrote, for any number of databases (with-saga.ts, define-route.ts).
THEOREM SagaEndsCleanly ==
  Request!Spec => [](Request!ReturnedWithoutTransaction /\ Request!AnswerTellsOutcome)
<1>1. Request!Spec => []RequestInv
  BY InitRequest, StepKeepsRequest, PTL DEF Request!Spec
<1>2. RequestInv => Request!ReturnedWithoutTransaction /\ Request!AnswerTellsOutcome
  BY ReturnsWithout, AnswerTells
<1> QED
  BY <1>1, <1>2, PTL

-----------------------------------------------------------------------------
(* A call of the Clover API.                                                *)

\* What `n` sleeps may take together.
Sleeps(n) == n * MaxWait

LEMMA SleepsGrow ==
  ASSUME NEW n \in Nat
  PROVE  /\ Sleeps(n) \in Nat
         /\ Sleeps(0) = 0
         /\ Sleeps(n + 1) = Sleeps(n) + MaxWait
         /\ n <= MaxRetries => Sleeps(n) <= Sleeps(MaxRetries)
BY CallAssumption DEF Sleeps

CallTypeOK ==
  /\ instant \in Nat
  /\ throttled \in Nat
  /\ asks \in Call!Forms
  /\ expires \in Nat
  /\ call \in {"resolve", "send", "flight", "sleep", "end"}
  /\ retries \in 0 .. MaxRetries
  /\ wake \in Nat
  /\ parked \in Nat
  /\ outcome \in {"none", "noToken", "unauthorized", "payload", "failure", "rateLimited"}

\* The token was resolved to outlast the skew.
TokenOutlastsSkew ==
  /\ call = "resolve" => instant = 0
  /\ call \in {"send", "flight", "sleep"} => expires > Skew

\* Each retry has slept at most once, and a sleep is counted before its retry.
ParkedInRetries ==
  IF call = "sleep" THEN retries < MaxRetries /\ parked <= Sleeps(retries + 1)
                    ELSE parked <= Sleeps(retries)

\* A throttling Clover gives the end of is slept through, but for what is above the
\* ceiling of each sleep.
RetriesWaitOut ==
  asks \in {"seconds", "date"} =>
    /\ call # "sleep" /\ instant < throttled => instant >= Sleeps(retries)
    /\ call = "sleep" => wake >= throttled \/ wake >= Sleeps(retries + 1)

Outcomes ==
  /\ outcome # "none" => call = "end"
  /\ outcome = "rateLimited" => retries = MaxRetries /\ instant < throttled
  /\ outcome = "unauthorized" => instant > Skew

CallInv ==
  CallTypeOK /\ TokenOutlastsSkew /\ ParkedInRetries /\ RetriesWaitOut /\ Outcomes

LEMMA InitCall == Call!Init => CallInv
BY CallAssumption, SleepsGrow
   DEF Call!Init, CallInv, CallTypeOK, TokenOutlastsSkew, ParkedInRetries, RetriesWaitOut,
       Outcomes, Call!Never

\* No delay is above the ceiling, and one below it ends with the throttling.
LEMMA DelayClamped ==
  ASSUME CallTypeOK, instant < throttled
  PROVE  /\ Call!RetryAfterDelay \in 0 .. MaxWait
         /\ asks \in {"seconds", "date"} =>
              \/ instant + Call!RetryAfterDelay >= throttled
              \/ Call!RetryAfterDelay = MaxWait
BY CallAssumption DEF CallTypeOK, Call!Forms, Call!RetryAfterDelay, Call!ClampRetryAfter

LEMMA BackoffKeeps ==
  ASSUME CallInv, Call!Backoff
  PROVE  CallInv'
<1> USE CallAssumption
<1>1. CallTypeOK /\ retries \in Nat /\ call = "flight" /\ instant < throttled
      /\ retries < MaxRetries
  BY DEF CallInv, CallTypeOK, Call!Backoff
<1>2. PICK delay \in 0 .. MaxWait :
        /\ delay = Call!RetryAfterDelay
        /\ asks \in {"seconds", "date"} => instant + delay >= throttled \/ delay = MaxWait
  BY <1>1, DelayClamped
<1>3. /\ wake' = instant + delay /\ parked' = parked + delay /\ call' = "sleep"
      /\ UNCHANGED <<instant, throttled, asks, expires, retries, outcome>>
  BY <1>2 DEF Call!Backoff
<1>4. Sleeps(retries + 1) = Sleeps(retries) + MaxWait /\ Sleeps(retries) \in Nat
  BY <1>1, SleepsGrow
<1>5. CallTypeOK'
  BY <1>1, <1>3 DEF CallTypeOK
<1>6. ParkedInRetries' /\ RetriesWaitOut'
  BY <1>1, <1>2, <1>3, <1>4 DEF CallInv, CallTypeOK, ParkedInRetries, RetriesWaitOut
<1>7. TokenOutlastsSkew' /\ Outcomes'
  BY <1>1, <1>3 DEF CallInv, TokenOutlastsSkew, Outcomes
<1> QED
  BY <1>5, <1>6, <1>7 DEF CallInv

LEMMA RetryKeeps ==
  ASSUME CallInv, Call!Retry
  PROVE  CallInv'
<1> USE CallAssumption
<1>1. CallTypeOK /\ retries \in Nat /\ call = "sleep" /\ instant >= wake
      /\ retries' = retries + 1 /\ call' = "send"
      /\ UNCHANGED <<instant, throttled, asks, expires, wake, parked, outcome>>
  BY DEF CallInv, CallTypeOK, Call!Retry
<1>2. Sleeps(retries + 1) \in Nat
  BY <1>1, SleepsGrow
<1>3. CallTypeOK'
  BY <1>1 DEF CallInv, CallTypeOK, ParkedInRetries
<1>4. ParkedInRetries' /\ RetriesWaitOut'
  BY <1>1, <1>2 DEF CallInv, CallTypeOK, ParkedInRetries, RetriesWaitOut
<1>5. TokenOutlastsSkew' /\ Outcomes'
  BY <1>1 DEF CallInv, TokenOutlastsSkew, Outcomes
<1> QED
  BY <1>3, <1>4, <1>5 DEF CallInv

LEMMA OtherCallKeeps ==
  ASSUME CallInv,
         \/ Call!Pass \/ Call!Resolve \/ Call!Refresh \/ Call!Send
         \/ Call!Answered \/ Call!Fails \/ Call!Exhausted
  PROVE  CallInv'
<1> USE CallAssumption
<1>1. CASE Call!Pass
  <2>1. Sleeps(retries) \in Nat
    BY SleepsGrow DEF CallInv, CallTypeOK
  <2> QED
    BY <1>1, <2>1
       DEF Call!Pass, CallInv, CallTypeOK, TokenOutlastsSkew, ParkedInRetries, RetriesWaitOut,
           Outcomes
<1>2. CASE Call!Resolve \/ Call!Refresh \/ Call!Send
  BY <1>2
     DEF Call!Resolve, Call!Refresh, Call!Send, Call!IsExpired, Call!Never, CallInv, CallTypeOK,
         TokenOutlastsSkew, ParkedInRetries, RetriesWaitOut, Outcomes
<1>3. CASE Call!Answered \/ Call!Fails \/ Call!Exhausted
  BY <1>3
     DEF Call!Answered, Call!Fails, Call!Exhausted, Call!Ends, CallInv, CallTypeOK,
         TokenOutlastsSkew, ParkedInRetries, RetriesWaitOut, Outcomes
<1> QED
  BY <1>1, <1>2, <1>3

LEMMA StepKeepsCall == CallInv /\ [Call!Next]_(Call!callVars) => CallInv'
<1> SUFFICES ASSUME CallInv, [Call!Next]_(Call!callVars)
             PROVE  CallInv'
  OBVIOUS
<1>1. CASE UNCHANGED Call!callVars
  BY <1>1 DEF Call!callVars, CallInv, CallTypeOK, TokenOutlastsSkew, ParkedInRetries,
              RetriesWaitOut, Outcomes
<1>2. CASE Call!Next
  BY <1>2, BackoffKeeps, RetryKeeps, OtherCallKeeps DEF Call!Next
<1> QED
  BY <1>1, <1>2

LEMMA CallRides == CallInv => Call!RidesOutBurst
<1> SUFFICES ASSUME CallInv PROVE Call!RidesOutBurst
  OBVIOUS
<1> USE CallAssumption
<1>1. outcome = "rateLimited" /\ asks \in {"seconds", "date"} => throttled > Sleeps(MaxRetries)
  BY SleepsGrow DEF CallInv, CallTypeOK, RetriesWaitOut, Outcomes
<1>2. parked <= Sleeps(MaxRetries)
  BY SleepsGrow DEF CallInv, CallTypeOK, ParkedInRetries
<1> QED
  BY <1>1, <1>2 DEF CallInv, Outcomes, Call!RidesOutBurst, Sleeps

\* A call gives up only after all its retries, and all of them together wait no longer
\* than their ceiling, whatever Clover asks for (make-request.ts).
THEOREM CallRidesOutBurst == Call!Spec => []Call!RidesOutBurst
<1>1. Call!Spec => []CallInv
  BY InitCall, StepKeepsCall, PTL DEF Call!Spec
<1> QED
  BY <1>1, CallRides, PTL

-----------------------------------------------------------------------------
(* Units of work on an aggregate.                                           *)

Aggregates == [version : Nat, events : Seq(Nat)]
Trackings == [base : Nat, events : Seq(Nat)] \cup {Unit!Untracked}

\* The version an aggregate has is the number of the events that made it.
InStep(a) == a.version = Len(a.events)

Begins(s, t) == Len(s) <= Len(t) /\ \A k \in 1 .. Len(s) : s[k] = t[k]

\* What a unit with tracked events `t` holds, `hs` with `l` the last of them, goes with
\* the aggregate `v` it sees: as long as nothing was committed after the tracked events'
\* base, they continue what it sees, and everything it holds is on their way.
Consistent(v, t, hs, l) ==
  IF t = Unit!Untracked
    THEN \A a \in hs : Begins(a.events, v.events)
    ELSE /\ t.base <= Len(v.events)
         /\ t.base = Len(v.events) =>
              /\ l.events = v.events \o t.events
              /\ \A a \in hs : Begins(a.events, v.events \o t.events)

UnitTypeOK ==
  /\ row \in Aggregates /\ InStep(row)
  /\ emitted \in Nat
  /\ held \in [Units -> SUBSET Aggregates]
  /\ \A u \in Units : \A a \in held[u] : InStep(a)
  /\ latest \in [Units -> Aggregates]
  /\ \A u \in Units : InStep(latest[u])
  /\ tracked \in [Units -> Trackings]
  /\ written \in [Units -> Aggregates \cup {Unit!Unwritten}]
  /\ \A u \in Units : written[u] # Unit!Unwritten => InStep(written[u])
  /\ appended \in [Units -> SUBSET [version : Nat, event : Nat]]

\* The lock of the row lets one unit write.
OneWriter ==
  \A u, v \in Units : written[u] # Unit!Unwritten /\ written[v] # Unit!Unwritten => u = v

\* What a unit has written continues the committed row.
WritesContinue ==
  \A u \in Units :
    IF written[u] = Unit!Unwritten THEN appended[u] = {}
                                   ELSE Begins(row.events, written[u].events)

\* The stream a unit sees is that of the row it sees.
StreamsReplay ==
  /\ log = Unit!Numbered(0, row.events)
  /\ \A u \in Units : log \cup appended[u] = Unit!Numbered(0, Unit!Visible(u).events)

UnitsConsistent ==
  \A u \in Units : Consistent(Unit!Visible(u), tracked[u], held[u], latest[u])

UnitInv == UnitTypeOK /\ OneWriter /\ WritesContinue /\ StreamsReplay /\ UnitsConsistent

LEMMA BeginsItself == ASSUME NEW s \in Seq(Nat) PROVE Begins(s, s) /\ Begins(<<>>, s)
BY DEF Begins

LEMMA BeginsChain ==
  ASSUME NEW s \in Seq(Nat), NEW t \in Seq(Nat), NEW r \in Seq(Nat), Begins(s, t), Begins(t, r)
  PROVE  Begins(s, r)
BY DEF Begins

LEMMA BeginsLonger ==
  ASSUME NEW s \in Seq(Nat), NEW t \in Seq(Nat), NEW r \in Seq(Nat), Begins(s, t)
  PROVE  Begins(s, t \o r)
BY DEF Begins

LEMMA BeginsWhole ==
  ASSUME NEW s \in Seq(Nat), NEW t \in Seq(Nat), Begins(s, t), Len(s) = Len(t)
  PROVE  s = t
<1>1. s \in [1 .. Len(s) -> Nat] /\ t \in [1 .. Len(s) -> Nat]
  OBVIOUS
<1>2. \A k \in 1 .. Len(s) : s[k] = t[k]
  BY DEF Begins
<1> QED
  BY <1>1, <1>2

LEMMA TrackingFacts ==
  ASSUME NEW t \in Trackings
  PROVE  /\ t.events \in Seq(Nat)
         /\ t # Unit!Untracked => t.base \in Nat
         /\ t = Unit!Untracked => t.base = -1 /\ t.events = <<>>
<1>1. Unit!Untracked.base = -1 /\ Unit!Untracked.events = <<>> /\ <<>> \in Seq(Nat)
  BY DEF Unit!Untracked
<1>2. CASE t = Unit!Untracked
  BY <1>1, <1>2
<1>3. CASE t \in [base : Nat, events : Seq(Nat)]
  <2>1. t.base \in Nat /\ t.events \in Seq(Nat)
    BY <1>3
  <2>2. t.base # -1
    BY <2>1
  <2> QED
    BY <1>1, <2>1, <2>2
<1> QED
  BY <1>2, <1>3 DEF Trackings

LEMMA ConcatFacts ==
  ASSUME NEW s \in Seq(Nat), NEW t \in Seq(Nat), NEW r \in Seq(Nat)
  PROVE  s \o <<>> = s /\ (s \o t) \o r = s \o (t \o r) /\ s \o t \in Seq(Nat)
<1>1. s \o t \in Seq(Nat) /\ t \o r \in Seq(Nat) /\ s \o <<>> \in Seq(Nat)
  OBVIOUS
<1>2. s \o <<>> = s
  BY <1>1
<1>3. (s \o t) \o r = s \o (t \o r)
  <2>1. (s \o t) \o r \in Seq(Nat) /\ s \o (t \o r) \in Seq(Nat)
    BY <1>1
  <2>2. Len((s \o t) \o r) = Len(s \o (t \o r))
    BY <1>1
  <2>3. ASSUME NEW k \in 1 .. Len((s \o t) \o r)
        PROVE  ((s \o t) \o r)[k] = (s \o (t \o r))[k]
    BY <1>1
  <2> QED
    BY <2>1, <2>2, <2>3
<1> QED
  BY <1>1, <1>2, <1>3

\* The stream of a longer history is the shorter one's and what follows it.
LEMMA NumberedConcat ==
  ASSUME NEW s \in Seq(Nat), NEW t \in Seq(Nat)
  PROVE  Unit!Numbered(0, s \o t) = Unit!Numbered(0, s) \cup Unit!Numbered(Len(s), t)
<1> DEFINE at0(k) == [version |-> 0 + k, event |-> (s \o t)[k]]
<1>1. /\ s \o t \in Seq(Nat) /\ Len(s \o t) = Len(s) + Len(t) /\ Len(s) \in Nat /\ Len(t) \in Nat
      /\ \A k \in 1 .. Len(s) : (s \o t)[k] = s[k]
      /\ \A k \in 1 .. Len(t) : (s \o t)[Len(s) + k] = t[k]
  OBVIOUS
<1>2. ASSUME NEW e \in Unit!Numbered(0, s \o t)
      PROVE  e \in Unit!Numbered(0, s) \cup Unit!Numbered(Len(s), t)
  <2>1. PICK k \in 1 .. Len(s \o t) : e = [version |-> 0 + k, event |-> (s \o t)[k]]
    BY <1>1, <1>2 DEF Unit!Numbered
  <2>2. CASE k <= Len(s)
    <3>1. k \in DOMAIN s /\ e = [version |-> 0 + k, event |-> s[k]]
      BY <1>1, <2>1, <2>2
    <3> QED
      BY <3>1 DEF Unit!Numbered
  <2>3. CASE k > Len(s)
    <3>1. k - Len(s) \in DOMAIN t
          /\ e = [version |-> Len(s) + (k - Len(s)), event |-> t[k - Len(s)]]
      <4>1. k - Len(s) \in 1 .. Len(t) /\ Len(s) + (k - Len(s)) = k /\ 0 + k = k
        BY <1>1, <2>1, <2>3
      <4>2. (s \o t)[Len(s) + (k - Len(s))] = t[k - Len(s)]
        BY <1>1, <4>1
      <4> QED
        BY <2>1, <4>1, <4>2
    <3> QED
      BY <3>1 DEF Unit!Numbered
  <2> QED
    BY <1>1, <2>1, <2>2, <2>3
<1>3. ASSUME NEW e \in Unit!Numbered(0, s) \cup Unit!Numbered(Len(s), t)
      PROVE  e \in Unit!Numbered(0, s \o t)
  <2>1. CASE e \in Unit!Numbered(0, s)
    <3>1. PICK k \in 1 .. Len(s) : e = [version |-> 0 + k, event |-> s[k]]
      BY <2>1 DEF Unit!Numbered
    <3>2. k \in DOMAIN (s \o t) /\ e = [version |-> 0 + k, event |-> (s \o t)[k]]
      BY <1>1, <3>1
    <3> QED
      BY <3>2 DEF Unit!Numbered
  <2>2. CASE e \in Unit!Numbered(Len(s), t)
    <3>1. PICK k \in 1 .. Len(t) : e = [version |-> Len(s) + k, event |-> t[k]]
      BY <2>2 DEF Unit!Numbered
    <3>2. Len(s) + k \in DOMAIN (s \o t) /\ 0 + (Len(s) + k) = Len(s) + k
          /\ (s \o t)[Len(s) + k] = t[k]
      BY <1>1, <3>1
    <3>3. e = [version |-> 0 + (Len(s) + k), event |-> (s \o t)[Len(s) + k]]
      BY <3>1, <3>2
    <3> QED
      BY <3>2, <3>3 DEF Unit!Numbered
  <2> QED
    BY <1>3, <2>1, <2>2
<1> QED
  BY <1>2, <1>3

\* What was tracked before something else was committed stays behind.
LEMMA ConsistentWhenGrown ==
  ASSUME NEW v \in Aggregates, NEW w \in Aggregates, NEW t \in Trackings,
         NEW hs \in SUBSET Aggregates, NEW l,
         Consistent(v, t, hs, l), Begins(v.events, w.events)
  PROVE  Consistent(w, t, hs, l)
<1>1. v.events \in Seq(Nat) /\ w.events \in Seq(Nat) /\ \A a \in hs : a.events \in Seq(Nat)
  BY DEF Aggregates
<1>2. CASE t = Unit!Untracked
  BY <1>1, <1>2, BeginsChain DEF Consistent
<1>3. CASE t # Unit!Untracked
  <2>1. t.base \in Nat /\ t.base <= Len(v.events) /\ Len(v.events) <= Len(w.events)
    BY <1>3, TrackingFacts DEF Consistent, Begins
  <2>2. ASSUME t.base = Len(w.events)
        PROVE  /\ v.events = w.events
               /\ t.base = Len(v.events)
    <3>1. Len(v.events) = Len(w.events)
      BY <1>1, <2>1, <2>2
    <3> QED
      BY <1>1, <2>2, <3>1, BeginsWhole
  <2>3. t.base <= Len(w.events)
    BY <1>1, <2>1
  <2> QED
    BY <1>3, <2>2, <2>3 DEF Consistent
<1> QED
  BY <1>2, <1>3

\* The aggregate that getById gives continues with what is tracked.
LEMMA ConsistentWhenLoaded ==
  ASSUME NEW v \in Aggregates, NEW t \in Trackings, NEW hs \in SUBSET Aggregates, NEW l,
         Consistent(v, t, hs, l)
  PROVE  Consistent(v, t, hs \cup {Unit!Apply(v, t.events)}, Unit!Apply(v, t.events))
<1>1. v.events \in Seq(Nat) /\ t.events \in Seq(Nat)
  BY TrackingFacts DEF Aggregates
<1>2. Unit!Apply(v, t.events).events = v.events \o t.events
  BY DEF Unit!Apply
<1>3. Begins(v.events \o t.events, v.events \o t.events)
      /\ (t = Unit!Untracked => v.events \o t.events = v.events)
  <2>1. v.events \o t.events \in Seq(Nat)
    BY <1>1
  <2>2. t = Unit!Untracked => v.events \o t.events = v.events
    BY <1>1, TrackingFacts, ConcatFacts
  <2> QED
    BY <2>1, <2>2, BeginsItself
<1> QED
  BY <1>2, <1>3 DEF Consistent

\* track: what is dispatched on an aggregate the tracked events end at continues them.
LEMMA ConsistentWhenTracked ==
  ASSUME NEW v \in Aggregates, NEW t \in Trackings, NEW hs \in SUBSET Aggregates, NEW l,
         NEW a \in hs, InStep(a), NEW evs \in Seq(Nat), NEW tt \in Trackings,
         Consistent(v, t, hs, l),
         \/ t = Unit!Untracked /\ tt = [base |-> a.version, events |-> evs]
         \/ /\ t # Unit!Untracked /\ a.version = t.base + Len(t.events)
            /\ tt = [base |-> t.base, events |-> t.events \o evs]
  PROVE  Consistent(v, tt, hs \cup {Unit!Apply(a, evs)}, Unit!Apply(a, evs))
<1>1. v.events \in Seq(Nat) /\ a.events \in Seq(Nat) /\ t.events \in Seq(Nat)
      /\ \A b \in hs : b.events \in Seq(Nat)
  BY TrackingFacts DEF Aggregates
<1>2. Unit!Apply(a, evs).events = a.events \o evs /\ a.version = Len(a.events)
      /\ a.events \o evs \in Seq(Nat)
  BY <1>1 DEF Unit!Apply, InStep
<1>3. CASE t = Unit!Untracked
  <2>1. \A b \in hs : Begins(b.events, v.events)
    BY <1>3 DEF Consistent
  <2>2. tt.base = Len(a.events) /\ tt.events = evs /\ Len(a.events) <= Len(v.events)
        /\ tt # Unit!Untracked
    BY <1>1, <1>2, <1>3, <2>1 DEF Begins, Unit!Untracked
  <2>3. ASSUME Len(a.events) = Len(v.events)
        PROVE  /\ a.events \o evs = v.events \o evs
               /\ \A b \in hs : Begins(b.events, v.events \o evs)
               /\ Begins(a.events \o evs, v.events \o evs)
    BY <1>1, <1>2, <2>1, <2>3, BeginsWhole, BeginsLonger, BeginsItself
  <2> QED
    BY <1>2, <2>2, <2>3 DEF Consistent
<1>4. CASE t # Unit!Untracked
  <2>1. /\ t.base <= Len(v.events)
        /\ t.base = Len(v.events) => \A b \in hs : Begins(b.events, v.events \o t.events)
    BY <1>4 DEF Consistent
  <2>2. tt.base = t.base /\ tt.events = t.events \o evs /\ t.base \in Nat /\ tt # Unit!Untracked
    <3>1. tt.base = t.base /\ tt.events = t.events \o evs /\ t.base \in Nat
      BY <1>4, TrackingFacts
    <3> QED
      BY <3>1, TrackingFacts
  <2>3. ASSUME t.base = Len(v.events)
        PROVE  /\ a.events \o evs = v.events \o (t.events \o evs)
               /\ \A b \in hs : Begins(b.events, v.events \o (t.events \o evs))
               /\ Begins(a.events \o evs, v.events \o (t.events \o evs))
    <3>1. v.events \o t.events \in Seq(Nat)
          /\ (v.events \o t.events) \o evs = v.events \o (t.events \o evs)
      <4>1. \A e, f, g \in Seq(Nat) : (e \o f) \o g = e \o (f \o g)
        BY ConcatFacts
      <4>2. v.events \in Seq(Nat) /\ t.events \in Seq(Nat) /\ evs \in Seq(Nat)
        BY <1>1
      <4>3. (v.events \o t.events) \o evs = v.events \o (t.events \o evs)
        BY <4>1, <4>2, ZenonT(30)
      <4> QED
        BY <4>2, <4>3
    <3>2. Len(a.events) = Len(v.events \o t.events) /\ Begins(a.events, v.events \o t.events)
      <4>1. Len(v.events \o t.events) = Len(v.events) + Len(t.events)
        BY <1>1
      <4>2. a.version = t.base + Len(t.events)
        BY <1>4
      <4> QED
        BY <1>2, <2>1, <2>3, <4>1, <4>2
    <3>3. a.events = v.events \o t.events
      BY <1>1, <3>1, <3>2, BeginsWhole
    <3>4. \A b \in hs : Begins(b.events, (v.events \o t.events) \o evs)
      BY <1>1, <2>1, <2>3, <3>1, BeginsLonger
    <3> QED
      BY <1>2, <3>1, <3>3, <3>4, BeginsItself
  <2> QED
    BY <1>2, <2>1, <2>2, <2>3 DEF Consistent
<1> QED
  BY <1>3, <1>4

LEMMA ApplyFacts ==
  ASSUME NEW a \in Aggregates, InStep(a), NEW evs \in Seq(Nat)
  PROVE  /\ Unit!Apply(a, evs) \in Aggregates /\ InStep(Unit!Apply(a, evs))
         /\ Unit!Apply(a, evs).events = a.events \o evs
<1>1. a.version \in Nat /\ a.events \in Seq(Nat) /\ a.version = Len(a.events)
  BY DEF Aggregates, InStep
<1>2. a.events \o evs \in Seq(Nat) /\ Len(a.events \o evs) = Len(a.events) + Len(evs)
  BY <1>1
<1> QED
  BY <1>1, <1>2 DEF Unit!Apply, Aggregates, InStep

LEMMA VisibleFacts ==
  ASSUME UnitInv, NEW u \in Units
  PROVE  /\ Unit!Visible(u) \in Aggregates /\ InStep(Unit!Visible(u))
         /\ Unit!Visible(u).events \in Seq(Nat)
         /\ Begins(row.events, Unit!Visible(u).events)
<1>1. row \in Aggregates /\ InStep(row) /\ row.events \in Seq(Nat)
  BY DEF UnitInv, UnitTypeOK, Aggregates
<1>2. Begins(row.events, row.events)
  BY <1>1, BeginsItself
<1>3. CASE written[u] = Unit!Unwritten
  BY <1>1, <1>2, <1>3 DEF Unit!Visible
<1>4. CASE written[u] # Unit!Unwritten
  <2>1. written[u] \in Aggregates /\ InStep(written[u])
    BY <1>4 DEF UnitInv, UnitTypeOK
  <2> QED
    BY <1>4, <2>1 DEF UnitInv, WritesContinue, Unit!Visible, Aggregates
<1> QED
  BY <1>3, <1>4

\* A step that leaves rows and streams alone, of a unit whose holdings go on together.
LEMMA HoldingKeeps ==
  ASSUME UnitInv, NEW u \in Units, NEW a \in Aggregates, InStep(a), NEW t \in Trackings,
         UNCHANGED <<row, log, written, appended>>, emitted' \in Nat,
         held' = [held EXCEPT ![u] = @ \cup {a}],
         latest' = [latest EXCEPT ![u] = a],
         tracked' = [tracked EXCEPT ![u] = t],
         Consistent(Unit!Visible(u), t, held[u] \cup {a}, a)
  PROVE  UnitInv'
<1>1. UnitTypeOK'
  BY DEF UnitInv, UnitTypeOK
<1>2. OneWriter' /\ WritesContinue' /\ StreamsReplay'
  BY DEF UnitInv, OneWriter, WritesContinue, StreamsReplay, Unit!Visible
<1>3. ASSUME NEW v \in Units
      PROVE  Consistent(Unit!Visible(v)', tracked'[v], held'[v], latest'[v])
  <2>1. Unit!Visible(v)' = Unit!Visible(v)
    BY DEF Unit!Visible
  <2>2. CASE v = u
    <3>1. tracked'[u] = t /\ held'[u] = held[u] \cup {a} /\ latest'[u] = a
      BY DEF UnitInv, UnitTypeOK
    <3> QED
      BY <2>1, <2>2, <3>1
  <2>3. CASE v # u
    <3>1. tracked'[v] = tracked[v] /\ held'[v] = held[v] /\ latest'[v] = latest[v]
      BY <2>3 DEF UnitInv, UnitTypeOK
    <3>2. Consistent(Unit!Visible(v), tracked[v], held[v], latest[v])
      BY DEF UnitInv, UnitsConsistent
    <3> QED
      BY <2>1, <3>1, <3>2
  <2> QED
    BY <2>2, <2>3
<1>4. UnitsConsistent'
  BY <1>3 DEF UnitsConsistent, Unit!Visible
<1> QED
  BY <1>1, <1>2, <1>4 DEF UnitInv

LEMMA GetByIdKeeps ==
  ASSUME UnitInv, NEW u \in Units, Unit!GetById(u)
  PROVE  UnitInv'
<1> DEFINE a == Unit!Apply(Unit!Visible(u), tracked[u].events)
<1>1. tracked[u] \in Trackings /\ tracked[u].events \in Seq(Nat)
      /\ held[u] \in SUBSET Aggregates
      /\ tracked \in [Units -> Trackings] /\ emitted \in Nat
  BY TrackingFacts DEF UnitInv, UnitTypeOK
<1>2. a \in Aggregates /\ InStep(a)
  BY <1>1, VisibleFacts, ApplyFacts
<1>3. Consistent(Unit!Visible(u), tracked[u], held[u], latest[u])
  BY DEF UnitInv, UnitsConsistent
<1>4. Consistent(Unit!Visible(u), tracked[u], held[u] \cup {a}, a)
  BY <1>1, <1>3, VisibleFacts, ConsistentWhenLoaded
<1>5. /\ held' = [held EXCEPT ![u] = @ \cup {a}] /\ latest' = [latest EXCEPT ![u] = a]
      /\ UNCHANGED <<row, log, emitted, tracked, written, appended>>
  BY DEF Unit!GetById, Unit!Load, Unit!Hold
<1>6. tracked' = [tracked EXCEPT ![u] = tracked[u]] /\ emitted' \in Nat
  BY <1>1, <1>5
<1> HIDE DEF a
<1> QED
  BY <1>1, <1>2, <1>4, <1>5, <1>6, HoldingKeeps

LEMMA DispatchKeeps ==
  ASSUME UnitInv, NEW u \in Units, NEW a \in held[u], NEW n \in 0 .. 2, Unit!Dispatch(u, a, n)
  PROVE  UnitInv'
<1> DEFINE evs == [k \in 1 .. n |-> emitted + k]
           b == Unit!Apply(a, evs)
           t == IF tracked[u] = Unit!Untracked
                  THEN [base |-> a.version, events |-> evs]
                  ELSE [base |-> tracked[u].base, events |-> tracked[u].events \o evs]
<1>1. tracked[u] \in Trackings /\ tracked[u].events \in Seq(Nat) /\ held[u] \in SUBSET Aggregates
      /\ tracked \in [Units -> Trackings] /\ emitted \in Nat
      /\ a \in Aggregates /\ InStep(a) /\ a.version \in Nat
      /\ (tracked[u] # Unit!Untracked => tracked[u].base \in Nat)
  BY TrackingFacts DEF UnitInv, UnitTypeOK, Aggregates
<1>2. evs \in Seq(Nat)
  BY <1>1
<1>3. /\ held' = [held EXCEPT ![u] = @ \cup {b}] /\ latest' = [latest EXCEPT ![u] = b]
      /\ UNCHANGED <<row, log, written, appended>> /\ emitted' = emitted + n
      /\ tracked' = [tracked EXCEPT ![u] = t]
  BY DEF Unit!Dispatch, Unit!Hold
<1> HIDE DEF evs
<1>4. tracked[u] = Unit!Untracked \/ a.version = tracked[u].base + Len(tracked[u].events)
  BY DEF Unit!Dispatch, Unit!Tracks
<1>5. t \in Trackings
  <2>1. [base |-> a.version, events |-> evs] \in Trackings
    BY <1>1, <1>2 DEF Trackings
  <2>2. tracked[u].events \o evs \in Seq(Nat)
    BY <1>1, <1>2
  <2>3. tracked[u] # Unit!Untracked =>
          [base |-> tracked[u].base, events |-> tracked[u].events \o evs] \in Trackings
    BY <1>1, <2>2 DEF Trackings
  <2> QED
    BY <2>1, <2>3
<1>6. b \in Aggregates /\ InStep(b)
  BY <1>1, <1>2, ApplyFacts
<1>7. Consistent(Unit!Visible(u), tracked[u], held[u], latest[u])
  BY DEF UnitInv, UnitsConsistent
<1>8. \/ tracked[u] = Unit!Untracked /\ t = [base |-> a.version, events |-> evs]
      \/ /\ tracked[u] # Unit!Untracked /\ a.version = tracked[u].base + Len(tracked[u].events)
         /\ t = [base |-> tracked[u].base, events |-> tracked[u].events \o evs]
  BY <1>4
<1> HIDE DEF t
<1>9. Consistent(Unit!Visible(u), t, held[u] \cup {b}, b)
  BY <1>1, <1>2, <1>5, <1>7, <1>8, VisibleFacts, ConsistentWhenTracked
<1>10. emitted' \in Nat
  BY <1>1, <1>3
<1> HIDE DEF b
<1> QED
  BY <1>3, <1>5, <1>6, <1>9, <1>10, HoldingKeeps

\* An append that finds its versions free starts where the stream ends.
LEMMA SaveIsNext ==
  ASSUME UnitInv, NEW u \in Units, Unit!Save(u)
  PROVE  /\ tracked[u] # Unit!Untracked
         /\ tracked[u].base = Len(Unit!Visible(u).events)
<1> DEFINE v == Unit!Visible(u)
           t == tracked[u]
<1>1. t \in Trackings /\ t.events \in Seq(Nat) /\ t.events # <<>> /\ t # Unit!Untracked
      /\ t.base \in Nat
  BY TrackingFacts DEF UnitInv, UnitTypeOK, Unit!Save
<1>2. v.events \in Seq(Nat) /\ t.base <= Len(v.events)
  BY <1>1, VisibleFacts DEF UnitInv, UnitsConsistent, Consistent
<1>3. ASSUME t.base < Len(v.events) PROVE FALSE
  <2>1. 1 \in DOMAIN t.events /\ t.base + 1 \in DOMAIN v.events /\ 0 + (t.base + 1) = t.base + 1
    BY <1>1, <1>2, <1>3
  <2>2. [version |-> t.base + 1, event |-> t.events[1]] \in Unit!Numbered(t.base, t.events)
    BY <2>1 DEF Unit!Numbered
  <2>3. [version |-> t.base + 1, event |-> v.events[t.base + 1]] \in log \cup appended[u]
    <3>1. [version |-> 0 + (t.base + 1), event |-> v.events[t.base + 1]] \in Unit!Numbered(0, v.events)
      BY <2>1 DEF Unit!Numbered
    <3> QED
      BY <2>1, <3>1 DEF UnitInv, StreamsReplay
  <2>4. t.base + 1 \in Unit!Versions(Unit!Numbered(t.base, t.events))
                       \cap Unit!Versions(log \cup appended[u])
    BY <2>2, <2>3 DEF Unit!Versions
  <2> QED
    BY <2>4 DEF Unit!Save, Unit!Taken
<1> QED
  BY <1>1, <1>2, <1>3

LEMMA SaveKeeps ==
  ASSUME UnitInv, NEW u \in Units, Unit!Save(u)
  PROVE  UnitInv'
<1> DEFINE v == Unit!Visible(u)
           t == tracked[u]
           l == latest[u]
<1>1. t \in Trackings /\ t # Unit!Untracked /\ t.base = Len(v.events) /\ t.events \in Seq(Nat)
  BY SaveIsNext, TrackingFacts DEF UnitInv, UnitTypeOK
<1>2. l.events = v.events \o t.events /\ \A a \in held[u] : Begins(a.events, v.events \o t.events)
  BY <1>1 DEF UnitInv, UnitsConsistent, Consistent
<1>3. l \in Aggregates /\ InStep(l) /\ l # Unit!Unwritten /\ v \in Aggregates
      /\ v.events \in Seq(Nat) /\ row.events \in Seq(Nat) /\ Begins(row.events, v.events)
  <2>1. l \in Aggregates /\ InStep(l) /\ row \in Aggregates
    BY DEF UnitInv, UnitTypeOK
  <2>2. l.version \in Nat /\ Unit!Unwritten.version = -1
    BY <2>1 DEF Aggregates, Unit!Unwritten
  <2> QED
    BY <2>1, <2>2, VisibleFacts DEF Aggregates
<1>4. /\ written' = [written EXCEPT ![u] = l]
      /\ appended' = [appended EXCEPT ![u] = @ \cup Unit!Numbered(t.base, t.events)]
      /\ tracked' = [tracked EXCEPT ![u] = Unit!Untracked]
      /\ UNCHANGED <<row, log, emitted, working, held, latest>>
      /\ \A w \in Units : w # u => written[w] = Unit!Unwritten
  BY DEF Unit!Save, Unit!Locked
<1>5. UnitTypeOK'
  <2>1. Unit!Numbered(t.base, t.events) \subseteq [version : Nat, event : Nat]
    <3>1. \A k \in DOMAIN t.events : t.base + k \in Nat /\ t.events[k] \in Nat
      BY <1>1, <1>3
    <3> QED
      BY <3>1 DEF Unit!Numbered
  <2>2. Unit!Untracked \in Trackings
    BY DEF Trackings
  <2> QED
    BY <1>3, <1>4, <2>1, <2>2 DEF UnitInv, UnitTypeOK
<1>6. written'[u] = l /\ tracked'[u] = Unit!Untracked
      /\ appended'[u] = appended[u] \cup Unit!Numbered(t.base, t.events)
      /\ \A w \in Units : w # u => /\ written'[w] = Unit!Unwritten /\ tracked'[w] = tracked[w]
                                   /\ appended'[w] = appended[w]
  BY <1>4 DEF UnitInv, UnitTypeOK
<1>7. OneWriter'
  BY <1>6 DEF OneWriter
<1>8. WritesContinue'
  <2>1. Begins(row.events, l.events)
    BY <1>1, <1>2, <1>3, BeginsLonger
  <2> QED
    BY <1>3, <1>4, <1>6, <2>1 DEF UnitInv, WritesContinue
<1>9. Unit!Visible(u)' = l /\ \A w \in Units : w # u => Unit!Visible(w)' = Unit!Visible(w)
  BY <1>3, <1>4, <1>6 DEF Unit!Visible
<1>10. StreamsReplay'
  <2>1. Unit!Numbered(0, l.events) = Unit!Numbered(0, v.events) \cup Unit!Numbered(t.base, t.events)
    BY <1>1, <1>2, <1>3, NumberedConcat
  <2>2. log \cup appended'[u] = Unit!Numbered(0, l.events)
    BY <1>6, <2>1 DEF UnitInv, StreamsReplay
  <2>3. \A w \in Units : log' \cup appended'[w] = Unit!Numbered(0, Unit!Visible(w)'.events)
    BY <1>4, <1>6, <1>9, <2>2 DEF UnitInv, StreamsReplay
  <2>4. log' = Unit!Numbered(0, row'.events)
    BY <1>4 DEF UnitInv, StreamsReplay
  <2> QED
    BY <2>3, <2>4 DEF StreamsReplay, Unit!Visible, Unit!Numbered
<1>11. UnitsConsistent'
  <2>1. Consistent(l, Unit!Untracked, held[u], latest[u])
    BY <1>2 DEF Consistent
  <2>2. \A w \in Units : Consistent(Unit!Visible(w)', tracked'[w], held'[w], latest'[w])
    BY <1>4, <1>6, <1>9, <2>1 DEF UnitInv, UnitsConsistent
  <2> QED
    BY <2>2 DEF UnitsConsistent, Unit!Visible
<1> QED
  BY <1>5, <1>7, <1>8, <1>10, <1>11 DEF UnitInv

\* A unit ends: whatever it committed or not, the others see at least what they saw.
LEMMA EndsKeeps ==
  ASSUME UnitInv, NEW u \in Units, Unit!CommitUnit(u) \/ Unit!Abort(u)
  PROVE  UnitInv'
<1>1. /\ held' = [held EXCEPT ![u] = {}]
      /\ latest' = [latest EXCEPT ![u] = Unit!Pristine]
      /\ tracked' = [tracked EXCEPT ![u] = Unit!Untracked]
      /\ written' = [written EXCEPT ![u] = Unit!Unwritten]
      /\ appended' = [appended EXCEPT ![u] = {}]
      /\ emitted' = emitted
      /\ \/ row' = Unit!Visible(u) /\ log' = log \cup appended[u]
         \/ UNCHANGED <<row, log>>
  BY DEF Unit!CommitUnit, Unit!Abort, Unit!End
<1>2. /\ held'[u] = {} /\ latest'[u] = Unit!Pristine /\ tracked'[u] = Unit!Untracked
      /\ written'[u] = Unit!Unwritten /\ appended'[u] = {}
      /\ \A w \in Units : w # u =>
           /\ held'[w] = held[w] /\ latest'[w] = latest[w] /\ tracked'[w] = tracked[w]
           /\ written'[w] = written[w] /\ appended'[w] = appended[w]
  BY <1>1 DEF UnitInv, UnitTypeOK
<1>3. /\ row' \in Aggregates /\ InStep(row)' /\ Begins(row.events, row'.events)
      /\ row.events \in Seq(Nat) /\ row'.events \in Seq(Nat) /\ row \in Aggregates
      /\ log' = Unit!Numbered(0, row'.events)
  <2>1. row \in Aggregates /\ InStep(row) /\ row.events \in Seq(Nat)
    BY DEF UnitInv, UnitTypeOK, Aggregates
  <2>2. Begins(row.events, row.events)
    BY <2>1, BeginsItself
  <2>3. CASE row' = Unit!Visible(u) /\ log' = log \cup appended[u]
    BY <2>1, <2>3, VisibleFacts DEF UnitInv, StreamsReplay, InStep
  <2>4. CASE UNCHANGED <<row, log>>
    BY <2>1, <2>2, <2>4 DEF UnitInv, StreamsReplay, InStep
  <2> QED
    BY <1>1, <2>3, <2>4
<1>4. Unit!Pristine \in Aggregates /\ InStep(Unit!Pristine) /\ Unit!Untracked \in Trackings
  BY DEF Aggregates, Unit!Pristine, InStep, Trackings
<1>5. UnitTypeOK'
  <2>1. /\ held' \in [Units -> SUBSET Aggregates] /\ latest' \in [Units -> Aggregates]
        /\ tracked' \in [Units -> Trackings]
        /\ written' \in [Units -> Aggregates \cup {Unit!Unwritten}]
        /\ appended' \in [Units -> SUBSET [version : Nat, event : Nat]] /\ emitted' \in Nat
    BY <1>1, <1>4 DEF UnitInv, UnitTypeOK
  <2>2. /\ \A w \in Units : \A a \in held'[w] : InStep(a)
        /\ \A w \in Units : InStep(latest'[w])
        /\ \A w \in Units : written'[w] # Unit!Unwritten => InStep(written'[w])
    BY <1>2, <1>4 DEF UnitInv, UnitTypeOK
  <2> QED
    BY <1>3, <2>1, <2>2 DEF UnitTypeOK, InStep
<1>6. OneWriter'
  BY <1>2 DEF UnitInv, OneWriter
\* A unit that has written what is not committed keeps the row from changing.
<1>7. ASSUME NEW w \in Units, w # u, written[w] # Unit!Unwritten
      PROVE  row' = row /\ log' = log
  <2>1. written[u] = Unit!Unwritten
    BY <1>7 DEF UnitInv, OneWriter
  <2>2. Unit!Visible(u) = row /\ appended[u] = {}
    BY <2>1 DEF UnitInv, WritesContinue, Unit!Visible
  <2> QED
    BY <1>1, <2>2
<1>8. WritesContinue'
  BY <1>2, <1>7 DEF UnitInv, WritesContinue
<1>9. ASSUME NEW w \in Units
      PROVE  /\ log' \cup appended'[w] = Unit!Numbered(0, Unit!Visible(w)'.events)
             /\ Consistent(Unit!Visible(w)', tracked'[w], held'[w], latest'[w])
  <2>1. CASE w = u
    <3>1. Unit!Visible(u)' = row'
      BY <1>2 DEF Unit!Visible
    <3> QED
      BY <1>2, <1>3, <2>1, <3>1 DEF Consistent
  <2>2. CASE w # u /\ written[w] # Unit!Unwritten
    <3>1. Unit!Visible(w)' = Unit!Visible(w) /\ log' = log
      BY <1>2, <1>7, <2>2 DEF Unit!Visible
    <3> QED
      BY <1>2, <2>2, <3>1 DEF UnitInv, StreamsReplay, UnitsConsistent
  <2>3. CASE w # u /\ written[w] = Unit!Unwritten
    <3>1. Unit!Visible(w)' = row' /\ Unit!Visible(w) = row /\ appended'[w] = {}
      BY <1>2, <2>3 DEF Unit!Visible, UnitInv, WritesContinue
    <3>2. Consistent(row, tracked[w], held[w], latest[w])
      BY <3>1 DEF UnitInv, UnitsConsistent
    <3>3. tracked[w] \in Trackings /\ held[w] \in SUBSET Aggregates
      BY DEF UnitInv, UnitTypeOK
    <3>4. Consistent(row', tracked[w], held[w], latest[w])
      BY <1>3, <3>2, <3>3, ConsistentWhenGrown
    <3> QED
      BY <1>2, <1>3, <2>3, <3>1, <3>4
  <2> QED
    BY <2>1, <2>2, <2>3
<1>10. StreamsReplay' /\ UnitsConsistent'
  BY <1>3, <1>9 DEF StreamsReplay, UnitsConsistent, Unit!Visible, Unit!Numbered
<1> QED
  BY <1>5, <1>6, <1>8, <1>10 DEF UnitInv

LEMMA InitUnit == Unit!Init => UnitInv
<1> SUFFICES ASSUME Unit!Init PROVE UnitInv
  OBVIOUS
<1>1. Unit!Pristine \in Aggregates /\ InStep(Unit!Pristine) /\ Unit!Untracked \in Trackings
      /\ Unit!Pristine.events = <<>>
  BY DEF Aggregates, Unit!Pristine, InStep, Trackings
<1>2. UnitTypeOK
  BY <1>1 DEF Unit!Init, UnitTypeOK
<1>3. OneWriter /\ WritesContinue
  BY DEF Unit!Init, OneWriter, WritesContinue
<1>4. Unit!Numbered(0, <<>>) = {}
  BY DEF Unit!Numbered
<1>5. \A u \in Units : Unit!Visible(u) = row
  BY DEF Unit!Init, Unit!Visible
<1>6. StreamsReplay
  BY <1>1, <1>4, <1>5 DEF Unit!Init, StreamsReplay
<1>7. UnitsConsistent
  BY <1>5 DEF Unit!Init, UnitsConsistent, Consistent
<1> QED
  BY <1>2, <1>3, <1>6, <1>7 DEF UnitInv

LEMMA StepKeepsUnit == UnitInv /\ [Unit!Next]_(Unit!unitVars) => UnitInv'
<1> SUFFICES ASSUME UnitInv, [Unit!Next]_(Unit!unitVars)
             PROVE  UnitInv'
  OBVIOUS
<1>1. CASE UNCHANGED Unit!unitVars
  BY <1>1 DEF Unit!unitVars, UnitInv, UnitTypeOK, OneWriter, WritesContinue, StreamsReplay,
              UnitsConsistent, Unit!Visible, InStep
<1>2. ASSUME NEW u \in Units,
             Unit!GetById(u) \/ Unit!Save(u) \/ Unit!CommitUnit(u) \/ Unit!Abort(u)
      PROVE  UnitInv'
  BY <1>2, GetByIdKeeps, SaveKeeps, EndsKeeps
<1>3. ASSUME NEW u \in Units, NEW a \in held[u], NEW n \in 0 .. 2, Unit!Dispatch(u, a, n)
      PROVE  UnitInv'
  BY <1>3, DispatchKeeps
<1> QED
  BY <1>1, <1>2, <1>3 DEF Unit!Next

LEMMA UnitReplays == UnitInv => Unit!RowIsReplay
BY DEF UnitInv, UnitTypeOK, StreamsReplay, InStep, Unit!RowIsReplay

\* The row stays the replay of its stream, for any units and any number of events
\* (repository.ts, event-tracker.ts).
THEOREM RowStaysReplay == Unit!Spec => []Unit!RowIsReplay
<1>1. Unit!Spec => []UnitInv
  BY InitUnit, StepKeepsUnit, PTL DEF Unit!Spec
<1> QED
  BY <1>1, UnitReplays, PTL

-----------------------------------------------------------------------------
(* Of Vault.                                                                *)

LEMMA RequestPart ==
  /\ VaultInit /\ part = "request" => Request!Init
  /\ [VaultNext]_vaultVars /\ part = "request" => [Request!Next]_(Request!requestVars)
<1>1. VaultInit /\ part = "request" => Request!Init
  BY DEF VaultInit, Components, Starts
<1>2. [VaultNext]_vaultVars /\ part = "request" => [Request!Next]_(Request!requestVars)
  BY DEF VaultNext, vaultVars, Request!requestVars, requestSide
<1> QED
  BY <1>1, <1>2

LEMMA CallPart ==
  /\ VaultInit /\ part = "call" => Call!Init
  /\ [VaultNext]_vaultVars /\ part = "call" => [Call!Next]_(Call!callVars)
<1>1. VaultInit /\ part = "call" => Call!Init
  BY DEF VaultInit, Components, Starts
<1>2. [VaultNext]_vaultVars /\ part = "call" => [Call!Next]_(Call!callVars)
  BY DEF VaultNext, vaultVars, Call!callVars, callSide
<1> QED
  BY <1>1, <1>2

LEMMA UnitPart ==
  /\ VaultInit /\ part = "unit" => Unit!Init
  /\ [VaultNext]_vaultVars /\ part = "unit" => [Unit!Next]_(Unit!unitVars)
<1>1. VaultInit /\ part = "unit" => Unit!Init
  BY DEF VaultInit, Components, Starts
<1>2. [VaultNext]_vaultVars /\ part = "unit" => [Unit!Next]_(Unit!unitVars)
  BY DEF VaultNext, vaultVars, Unit!unitVars, unitSide
<1> QED
  BY <1>1, <1>2

\* The same of Vault: its requests end cleanly.
THEOREM VaultEndsCleanly == VaultSpec => []RequestEndsCleanly
<1> DEFINE I == part = "request" => RequestInv
<1>1. VaultInit => I
  BY InitRequest, RequestPart
<1>2. I /\ [VaultNext]_vaultVars => I'
  BY StepKeepsRequest, RequestPart, PartStays
<1>3. I => RequestEndsCleanly
  BY ReturnsWithout, AnswerTells DEF RequestEndsCleanly
<1> QED
  BY <1>1, <1>2, <1>3, PTL DEF VaultSpec

\* Of Vault: its calls ride out a burst.
THEOREM VaultRidesBurst == VaultSpec => []BurstIsRidden
<1> DEFINE I == part = "call" => CallInv
<1>1. VaultInit => I
  BY InitCall, CallPart
<1>2. I /\ [VaultNext]_vaultVars => I'
  BY StepKeepsCall, CallPart, PartStays
<1>3. I => BurstIsRidden
  BY CallRides DEF BurstIsRidden
<1> QED
  BY <1>1, <1>2, <1>3, PTL DEF VaultSpec

\* Of Vault: its units of work keep the row a replay.
THEOREM VaultKeepsReplay == VaultSpec => []UnitsKeepTheReplay
<1> DEFINE I == part = "unit" => UnitInv
<1>1. VaultInit => I
  BY InitUnit, UnitPart
<1>2. I /\ [VaultNext]_vaultVars => I'
  BY StepKeepsUnit, UnitPart, PartStays
<1>3. I => UnitsKeepTheReplay
  BY UnitReplays DEF UnitsKeepTheReplay
<1> QED
  BY <1>1, <1>2, <1>3, PTL DEF VaultSpec
=============================================================================
