---------------------------- MODULE StoreAccess -----------------------------
(***************************************************************************)
(* Who gets into the admin portal: the store and its owner memberships      *)
(* (domain/store-account, store-membership, policies, permissions, and the  *)
(* bootstrap scripts), and the portal's sign-in by e-mailed link with the   *)
(* gate before every private page.  Owner is the only role the code has.    *)
(* Membership transactions are run one at a time here; the steps of         *)
(* sign-ins and page requests interleave with them.                         *)
(***************************************************************************)
EXTENDS Integers, Sequences, FiniteSets

CONSTANTS
  Emails,      \* e-mail addresses, as they are stored
  StoreNames,  \* names a store can have
  DefaultName, \* DEFAULT_STORE_NAME
  MaxMembers,  \* bound on membership rows
  MaxEdits     \* bound on disablings and changes to the store

VARIABLES
  account,  \* the bootstrap store's row, NoStore before it is created
  members,  \* membership rows, by id
  edits,    \* disablings and changes to the store so far
  letters,  \* addresses whose sign-in link is to be mailed after the answer
  links,    \* addresses with a sign-in link that is mailed and unused
  users,    \* addresses with an auth user
  sessions, \* addresses whose browser holds a session
  visit,    \* each browser's request for a private page: none or its step
  entitled  \* each visit met an active membership at some moment so far

accessVars == <<account, members, edits, letters, links, users, sessions, visit, entitled>>

NoStore == [name |-> "none", status |-> "none"]

Init ==
  /\ account = NoStore
  /\ members = <<>>
  /\ edits = 0
  /\ letters = {}
  /\ links = {}
  /\ users = {}
  /\ sessions = {}
  /\ visit = [e \in Emails |-> "none"]
  /\ entitled = [e \in Emails |-> FALSE]

Member(e, status) == [email |-> e, status |-> status]

Active(rows, e) == \E m \in DOMAIN rows : rows[m] = Member(e, "active")

\* Every visit under way sees what a committed change makes of the memberships.
SetMembers(rows) ==
  /\ members' = rows
  /\ entitled' = [e \in Emails |-> entitled[e] \/ Active(rows, e)]

-----------------------------------------------------------------------------
(* The store.                                                               *)

\* bootstrapStore: created once; run again it changes nothing, and fails if the store
\* was renamed.
BootstrapStore ==
  /\ account = NoStore
  /\ account' = [name |-> DefaultName, status |-> "active"]
  /\ UNCHANGED <<members, edits, letters, links, users, sessions, visit, entitled>>

EditStore(to) ==
  /\ account # NoStore
  /\ edits < MaxEdits
  /\ edits' = edits + 1
  /\ account' = to
  /\ UNCHANGED <<members, letters, links, users, sessions, visit, entitled>>

\* A blank name is refused; the time zone is not told apart.
RenameStore(name) == EditStore([account EXCEPT !.name = name])

ActivateStore ==
  /\ account.status = "inactive"
  /\ EditStore([account EXCEPT !.status = "active"])

DeactivateStore ==
  /\ account.status = "active"
  /\ EditStore([account EXCEPT !.status = "inactive"])

-----------------------------------------------------------------------------
(* Memberships.                                                             *)

\* findByStoreAndEmail: trimmed and lower case on both sides, as createMembership
\* stores it, however it was typed.
FindByEmail(e) == {m \in DOMAIN members : members[m].email = e}

\* bootstrapOwnerMembership: any membership of the address, a disabled one too, ends it.
BootstrapOwner(e) ==
  /\ account # NoStore
  /\ Len(members) < MaxMembers
  /\ FindByEmail(e) = {}
  /\ SetMembers(Append(members, Member(e, "active")))
  /\ UNCHANGED <<account, edits, letters, links, users, sessions, visit>>

\* Slip: every owner counts.
CountOwners == Cardinality(DOMAIN members)

CountActiveOwners == Cardinality({m \in DOMAIN members : members[m].status = "active"})

\* ensureOwnerPreservedOnDisable on the count without this one, then the action, then
\* save, in one transaction.
DisableMembership(m) ==
  /\ edits < MaxEdits
  /\ members[m].status = "active"
  /\ CountActiveOwners - 1 # 0
  /\ edits' = edits + 1
  /\ SetMembers([members EXCEPT ![m].status = "disabled"])
  /\ UNCHANGED <<account, letters, links, users, sessions, visit>>

ReactivateMembership(m) ==
  /\ members[m].status = "disabled"
  /\ SetMembers([members EXCEPT ![m].status = "active"])
  /\ UNCHANGED <<account, edits, letters, links, users, sessions, visit>>

-----------------------------------------------------------------------------
(* Sign-in.                                                                 *)

\* requestMagicLink: an address that is malformed is told so; any other one is told a
\* link is on its way, whether or not it has an active membership, unless it asks too
\* often.  Only for one that has, a mail is left to be sent after the answer.
RequestLink(e) ==
  /\ Active(members, e)
  /\ letters' = letters \cup {e}
  /\ UNCHANGED <<account, members, edits, links, users, sessions, visit, entitled>>

\* sendMagicLinkEmail, by SMTP or Resend, whatever became of the membership.
MailLink(e) ==
  /\ e \in letters
  /\ letters' = letters \ {e}
  /\ links' = links \cup {e}
  /\ UNCHANGED <<account, members, edits, users, sessions, visit, entitled>>

\* The mail cannot be sent; nobody is told.
MailFails(e) ==
  /\ e \in letters
  /\ letters' = letters \ {e}
  /\ UNCHANGED <<account, members, edits, links, users, sessions, visit, entitled>>

\* The link is opened in time: an address without a user gets one only while it has an
\* active membership, one with a user gets a session whatever became of it.
OpenLink(e) ==
  /\ e \in links
  /\ links' = links \ {e}
  /\ IF e \in users \/ Active(members, e)
       THEN users' = users \cup {e} /\ sessions' = sessions \cup {e}
       ELSE UNCHANGED <<users, sessions>>
  /\ UNCHANGED <<account, members, edits, letters, visit, entitled>>

LinkExpires(e) ==
  /\ e \in links
  /\ links' = links \ {e}
  /\ UNCHANGED <<account, members, edits, letters, users, sessions, visit, entitled>>

\* signOutAction: the browser is sent to the login page, whether or not it failed.
SignOut(e) ==
  /\ e \in sessions
  /\ sessions' = sessions \ {e}
  /\ UNCHANGED <<account, members, edits, letters, links, users, visit, entitled>>

-----------------------------------------------------------------------------
(* A private page.                                                          *)

Go(e, step) ==
  /\ visit' = [visit EXCEPT ![e] = step]
  /\ UNCHANGED <<account, members, edits, letters, links, users, sessions>>

Visit(e) ==
  /\ visit[e] = "none"
  /\ Go(e, "session")
  /\ entitled' = [entitled EXCEPT ![e] = Active(members, e)]

\* currentUser: nobody without a session; a session that cannot be read is an error,
\* not a visitor.
ReadSession(e) ==
  /\ visit[e] = "session"
  /\ Go(e, IF e \in sessions THEN "membership" ELSE "login")
  /\ UNCHANGED entitled

\* Slip: a role that grants the permission is enough.
PermitsRole(m) == TRUE

\* requirePermission: a disabled membership is denied whatever its role grants.
Permits(m) == members[m].status = "active"

\* requireActiveOwner: one membership of the address, whichever the database gives.
ReadMembership(e) ==
  /\ visit[e] = "membership"
  /\ LET found == FindByEmail(e)
     IN  \E permitted \in IF found = {} THEN {FALSE} ELSE {Permits(m) : m \in found} :
           Go(e, IF permitted THEN "page" ELSE "login")
  /\ UNCHANGED entitled

\* The page is rendered, or the browser is sent to the login page, or an error shown.
EndVisit(e) ==
  /\ visit[e] # "none"
  /\ Go(e, "none")
  /\ UNCHANGED entitled

Next ==
  \/ BootstrapStore \/ ActivateStore \/ DeactivateStore
  \/ \E name \in StoreNames : RenameStore(name)
  \/ \E e \in Emails : BootstrapOwner(e)
  \/ \E m \in DOMAIN members : DisableMembership(m) \/ ReactivateMembership(m)
  \/ \E e \in Emails :
       \/ RequestLink(e) \/ MailLink(e) \/ MailFails(e) \/ OpenLink(e) \/ LinkExpires(e) \/ SignOut(e)
       \/ Visit(e) \/ ReadSession(e) \/ ReadMembership(e) \/ EndVisit(e)

Spec == Init /\ [][Next]_accessVars

-----------------------------------------------------------------------------
(* Properties.                                                              *)

\* owner-preservation.ts: "a store must always retain at least one active owner".  Once
\* it has a membership it has an active one, whatever is disabled in whatever order.
OwnerRemains ==
  members # <<>> => \E m \in DOMAIN members : members[m].status = "active"

\* The gate reads one membership of an address, and the check for a link any: they
\* agree because an address never comes to have two, however it is typed.
OneMembershipPerEmail ==
  \A m, n \in DOMAIN members : members[m].email = members[n].email => m = n

\* Whatever becomes of sessions, links and memberships in the meantime, a page is shown
\* only to an address that had an active membership at some moment of that request.
PagesForActiveOwners ==
  \A e \in Emails : visit[e] = "page" => entitled[e]
=============================================================================
