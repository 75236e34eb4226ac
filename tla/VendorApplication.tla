------------------------- MODULE VendorApplication --------------------------
(***************************************************************************)
(* The marketing site's "become a vendor" form (BecomeVendorForm.tsx with   *)
(* become-a-vendor/actions.ts): a submission is screened, validated and     *)
(* mailed to the shop, and its answer decides what the form holds next.     *)
(* The mail provider may take a mail and still report an error; an answer   *)
(* may be lost on its way to the browser.                                   *)
(***************************************************************************)
EXTENDS Integers, FiniteSets

CONSTANTS
  Required,  \* the fields that must be filled
  Optional,  \* those that may stay empty
  Labels,    \* VENDOR_CATEGORIES
  MaxMails   \* bound on the mails

VARIABLES
  typed,    \* the form's inputs
  chosen,   \* its categories
  trap,     \* the honeypot field
  pending,  \* the submission under way, or none
  shown,    \* the state the form renders: status, errors, values
  mailbox,  \* mails the provider has taken
  told,     \* what the last answer was about
  mails     \* how many

applicationVars == <<typed, chosen, trap, pending, shown, mailbox, told, mails>>

Fields == Required \cup Optional
Empty  == [f \in Fields |-> "empty"]
Texts  == {"empty", "good", "bad"}
Nothing == [fields |-> Empty, labels |-> {}, trap |-> FALSE]
Idle   == [status |-> "idle", errors |-> {}, values |-> Nothing]

Init ==
  /\ typed = Empty
  /\ chosen = {}
  /\ trap = FALSE
  /\ pending = Nothing
  /\ shown = Idle
  /\ mailbox = {}
  /\ told = Nothing
  /\ mails = 0

Editing == shown.status # "success" /\ pending = Nothing

Type(f, text) ==
  /\ Editing
  /\ typed' = [typed EXCEPT ![f] = text]
  /\ UNCHANGED <<chosen, trap, pending, shown, mailbox, told, mails>>

ToggleCategory(label) ==
  /\ Editing
  /\ chosen' = IF label \in chosen THEN chosen \ {label} ELSE chosen \cup {label}
  /\ UNCHANGED <<typed, trap, pending, shown, mailbox, told, mails>>

\* Nobody sees the field; a program fills it.
FillTrap ==
  /\ Editing
  /\ trap' = TRUE
  /\ UNCHANGED <<typed, chosen, pending, shown, mailbox, told, mails>>

\* readValues: the button is disabled until the answer is there.
Submit ==
  /\ Editing
  /\ pending' = [fields |-> typed, labels |-> chosen, trap |-> trap]
  /\ pending' # Nothing
  /\ UNCHANGED <<typed, chosen, trap, shown, mailbox, told, mails>>

\* validate: an empty field, or one that does not read as what it should be.
FieldErrors(values) == {f \in Required : values.fields[f] # "good"}

\* The answers of an error echo the values.
Error(errors, values) == [status |-> "error", errors |-> errors, values |-> values]

Success == [status |-> "success", errors |-> {}, values |-> Nothing]

\* The answer arrives: React resets the form's inputs to the defaults of the new state,
\* the categories are the component's own, and the hidden field is empty again.
Answer(state) ==
  /\ shown' = state
  /\ told' = pending
  /\ pending' = Nothing
  /\ typed' = state.values.fields
  /\ trap' = FALSE
  /\ UNCHANGED chosen

Screened ==
  /\ pending # Nothing /\ pending.trap
  /\ Answer(Success)
  /\ UNCHANGED <<mailbox, mails>>

Invalid ==
  /\ pending # Nothing /\ ~pending.trap
  /\ FieldErrors(pending) # {}
  /\ Answer(Error(FieldErrors(pending), pending))
  /\ UNCHANGED <<mailbox, mails>>

Sendable ==
  /\ pending # Nothing /\ ~pending.trap
  /\ FieldErrors(pending) = {}
  /\ mails < MaxMails

\* buildEmail and the provider's answer: an error it reports, or a request that fails
\* after it has taken the mail.
Take ==
  /\ mailbox' = mailbox \cup {[fields |-> pending.fields, labels |-> pending.labels]}
  /\ mails' = mails + 1

Sent == Sendable /\ Take /\ Answer(Success)

SendFails ==
  /\ Sendable
  /\ Take \/ UNCHANGED <<mailbox, mails>>
  /\ Answer(Error({}, pending))

\* The action does not answer: its layer has no configuration, the process stops or the
\* connection is lost, with the mail taken or not.  The page is opened anew.
Reload ==
  /\ typed' = Empty
  /\ chosen' = {}
  /\ trap' = FALSE
  /\ pending' = Nothing
  /\ shown' = Idle
  /\ told' = Nothing

Unanswered ==
  /\ pending # Nothing
  /\ \/ Sendable /\ Take
     \/ UNCHANGED <<mailbox, mails>>
  /\ Reload

Reopen ==
  /\ shown.status = "success"
  /\ Reload
  /\ UNCHANGED <<mailbox, mails>>

Next ==
  \/ \E f \in Fields, text \in Texts : Type(f, text)
  \/ \E label \in Labels : ToggleCategory(label)
  \/ FillTrap \/ Submit \/ Screened \/ Invalid \/ Sent \/ SendFails
  \/ Unanswered \/ Reopen

Spec == Init /\ [][Next]_applicationVars

-----------------------------------------------------------------------------
(* Properties.                                                              *)

\* An applicant who reads "Application received" has an application at the shop, with
\* the categories that were chosen, unless the hidden field was filled; an answer of
\* error leaves every field as it was submitted, so that trying again sends the same
\* application; and no mail lacks a required field (become-a-vendor/actions.ts).
ApplicationKept ==
  /\ shown.status = "success" /\ ~told.trap =>
       [fields |-> told.fields, labels |-> told.labels] \in mailbox
  /\ shown.status = "error" =>
       shown.values.fields = told.fields /\ shown.values.labels = told.labels
  /\ \A mail \in mailbox : \A f \in Required : mail.fields[f] = "good"
=============================================================================
