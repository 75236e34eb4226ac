-------------------------- MODULE VendorWorkspace ---------------------------
(***************************************************************************)
(* The admin portal's vendor workspace in a browser (app/(app)/vendors): a  *)
(* roster kept in the layout, a panel that the host opens, keeps while it   *)
(* slides out and then unmounts, and the draft of a new vendor.  The path,  *)
(* the host's effect, its timer and the panel's redirect are asynchronous   *)
(* to each other.  Edits stay in the browser: nothing is persisted yet.     *)
(***************************************************************************)
EXTENDS Integers, FiniteSets

CONSTANTS
  Stored,   \* ids of the vendors the layout was rendered with
  Unknown,  \* ids of deep links that name no vendor
  Fresh,    \* ids a draft may be given
  Slots,    \* ids of the items of a vendor
  Contents, \* what an item may read: its name and price
  Null      \* no vendor, no item, no id

Roster == "/vendors"
New    == "/vendors/new"
Away   == "elsewhere"
Ids    == Stored \cup Unknown \cup Fresh
Paths  == {Roster, New, Away} \cup Ids

SyncStates == {"synced", "edited", "new", "removed"}

VARIABLES
  path,      \* the pathname
  roster,    \* each vendor's status and items; Null if not listed
  draft,     \* draftIdRef
  rendered,  \* renderId of the host
  open,      \* whether its panel is in or sliding out
  due,       \* the host's effect has to run
  timer,     \* its exit timer runs
  leaving,   \* the panel has asked for a redirect to the roster
  settled    \* what each item read when its vendor was last synced
workspaceVars == <<path, roster, draft, rendered, open, due, timer, leaving, settled>>

Item(content, linked, sync) == [content |-> content, linked |-> linked, sync |-> sync]

NoItems == [s \in Slots |-> Null]

\* toVendorViews: a stored vendor's items are Clover's.
Mounted ==
  [v \in Ids |->
     IF v \in Stored
       THEN [status |-> "active",
             items |-> [s \in Slots |-> Item(CHOOSE c \in Contents : TRUE, TRUE, "synced")]]
       ELSE Null]

Contains(items) == [s \in Slots |-> IF items[s] = Null THEN Null ELSE items[s].content]

AtMount == [v \in Ids |-> IF v \in Stored THEN Contains(Mounted[v].items) ELSE NoItems]

Init ==
  /\ path = Away
  /\ roster = Mounted
  /\ draft = Null /\ rendered = Null
  /\ open = FALSE /\ due = FALSE /\ timer = FALSE /\ leaving = FALSE
  /\ settled = AtMount

-----------------------------------------------------------------------------
(* The path and the host.                                                   *)

\* A link, a row, a control that closes the panel or the browser's history.  The host's
\* effect of the page before has run by then.
Navigate(p) ==
  /\ path # Away /\ p # path /\ p # Away
  /\ ~due
  /\ path' = p
  /\ due' = TRUE
  /\ UNCHANGED <<roster, draft, rendered, open, timer, leaving, settled>>

\* The layout's state begins anew; the panel of an edit that is linked to shows at once.
Remount(p) ==
  /\ path' = p
  /\ roster' = Mounted
  /\ draft' = Null
  /\ rendered' = IF p \in Ids THEN p ELSE Null
  /\ open' = (p \in Ids)
  /\ due' = (p # Away)
  /\ timer' = FALSE
  /\ leaving' = FALSE
  /\ settled' = AtMount

\* Another part of the portal unmounts the layout, and its state with it.
Exit    == path # Away /\ Remount(Away)
Enter(p) == path = Away /\ p # Away /\ Remount(p)

BlankVendor == [status |-> "active", items |-> NoItems]

\* crypto.randomUUID: ids are interchangeable, so one stands for all.
NewId == CHOOSE d \in Fresh : roster[d] = Null

\* Slip: a draft for every visit of the page.
EnsureDraftAlways(d) ==
  /\ d = NewId
  /\ draft' = d
  /\ roster' = [roster EXCEPT ![d] = BlankVendor]
  /\ settled' = [settled EXCEPT ![d] = NoItems]

\* The draft there is, or a blank vendor under an id of its own.
EnsureDraft(d) ==
  IF draft # Null
    THEN d = draft /\ UNCHANGED <<draft, roster, settled>>
    ELSE /\ d = NewId
         /\ draft' = d
         /\ roster' = [roster EXCEPT ![d] = BlankVendor]
         /\ settled' = [settled EXCEPT ![d] = NoItems]

\* The host's effect, after its cleanup has stopped the timer.
EnterNew(d) ==
  /\ due /\ path = New
  /\ EnsureDraft(d)
  /\ rendered' = d
  /\ open' = TRUE
  /\ due' = FALSE
  /\ timer' = FALSE
  /\ UNCHANGED <<path, leaving>>

EnterEdit ==
  /\ due /\ path \in Ids
  /\ rendered' = path
  /\ open' = TRUE
  /\ due' = FALSE
  /\ timer' = FALSE
  /\ UNCHANGED <<path, roster, draft, leaving, settled>>

EnterRoster ==
  /\ due /\ path = Roster
  /\ open' = FALSE
  /\ due' = FALSE
  /\ timer' = TRUE
  /\ UNCHANGED <<path, roster, draft, rendered, leaving, settled>>

\* The slide-out is over: the panel is unmounted and the draft discarded.
TimerFires ==
  /\ timer
  /\ timer' = FALSE
  /\ rendered' = Null
  /\ draft' = Null
  /\ IF draft = Null
       THEN UNCHANGED <<roster, settled>>
       ELSE /\ roster' = [roster EXCEPT ![draft] = Null]
            /\ settled' = [settled EXCEPT ![draft] = NoItems]
  /\ UNCHANGED <<path, open, due, leaving>>

Shows == rendered # Null /\ path # Away

\* The panel of a vendor that is not there sends the browser back to the roster.
AskRedirect ==
  /\ Shows /\ roster[rendered] = Null /\ ~leaving
  /\ leaving' = TRUE
  /\ UNCHANGED <<path, roster, draft, rendered, open, due, timer, settled>>

Redirect ==
  /\ leaving /\ ~due
  /\ leaving' = FALSE
  /\ path' = Roster
  /\ due' = (path # Roster)
  /\ UNCHANGED <<roster, draft, rendered, open, timer, settled>>

-----------------------------------------------------------------------------
(* The panel and the list.                                                  *)

Editable == Shows /\ roster[rendered] # Null

OnChange(field, value) ==
  /\ roster' = [roster EXCEPT ![rendered][field] = value]
  /\ UNCHANGED <<path, draft, rendered, open, due, timer, leaving>>

Flip(status) == IF status = "active" THEN "inactive" ELSE "active"

\* The panel's switch or the list's button; the name, tags, contact and pricing model are
\* fields of the same patch.
ToggleStatus(v) ==
  /\ path # Away /\ roster[v] # Null
  /\ roster' = [roster EXCEPT ![v].status = Flip(@)]
  /\ UNCHANGED <<path, draft, rendered, open, due, timer, leaving, settled>>

DraftItems == roster[rendered].items

SetSlot(s, item) == OnChange("items", [DraftItems EXCEPT ![s] = item]) /\ UNCHANGED settled

Edited(sync) == IF sync \in {"new", "removed"} THEN sync ELSE "edited"

\* The inputs of a removed item are disabled.
SetItem(s, content) ==
  /\ Editable /\ DraftItems[s] # Null /\ DraftItems[s].sync # "removed"
  /\ SetSlot(s, Item(content, DraftItems[s].linked, Edited(DraftItems[s].sync)))

AddItem(s) ==
  /\ Editable /\ DraftItems[s] = Null
  /\ SetSlot(s, Item(CHOOSE c \in Contents : TRUE, FALSE, "new"))

\* A new item disappears, another waits for the sync.
RemoveItem(s) ==
  /\ Editable /\ DraftItems[s] # Null /\ DraftItems[s].sync # "removed"
  /\ SetSlot(s, IF DraftItems[s].sync = "new" THEN Null ELSE [DraftItems[s] EXCEPT !.sync = "removed"])

RestoreItem(s) ==
  /\ Editable /\ DraftItems[s] # Null /\ DraftItems[s].sync = "removed"
  /\ SetSlot(s, [DraftItems[s] EXCEPT !.sync = IF DraftItems[s].linked THEN "edited" ELSE "new"])

\* Removed items go, the others are Clover's from now on.
SyncToClover ==
  LET kept == [s \in Slots |->
                 IF DraftItems[s] = Null \/ DraftItems[s].sync = "removed" THEN Null
                 ELSE Item(DraftItems[s].content, TRUE, "synced")]
  IN /\ Editable
     /\ OnChange("items", kept)
     /\ settled' = [settled EXCEPT ![rendered] = Contains(kept)]

Next ==
  \/ \E p \in Paths : Navigate(p) \/ Enter(p)
  \/ \E d \in Fresh : EnterNew(d)
  \/ Exit \/ EnterEdit \/ EnterRoster \/ TimerFires \/ AskRedirect \/ Redirect
  \/ SyncToClover
  \/ \E v \in Ids : ToggleStatus(v)
  \/ \E s \in Slots : AddItem(s) \/ RemoveItem(s) \/ RestoreItem(s)
  \/ \E s \in Slots, c \in Contents : SetItem(s, c)

Spec == Init /\ [][Next]_workspaceVars

-----------------------------------------------------------------------------
(* What the list shows, and the properties.                                 *)

Unsynced(v) == {s \in Slots : roster[v].items[s] # Null /\ roster[v].items[s].sync # "synced"}

ListRow(v) ==
  [status |-> roster[v].status, unsynced |-> Cardinality(Unsynced(v)),
   items |-> Cardinality({s \in Slots : roster[v].items[s] # Null
                                        /\ roster[v].items[s].sync # "removed"})]

\* Back on the roster with the slide-out over there is no panel and no draft, whatever
\* pages were opened, left and opened again meanwhile; and there is never a second
\* draft (vendor-panel-host.tsx:22-24, "never lingers after close").
DraftNeverLingers ==
  /\ path = Roster /\ ~due /\ ~timer =>
       rendered = Null /\ \A v \in Fresh : roster[v] = Null
  /\ Cardinality({v \in Fresh : roster[v] # Null}) <= 1

\* A vendor whose row shows nothing unsynced reads as it was last synced, with as many
\* items (vendor-slide-over.tsx: setItem, addItem, removeItem, restoreItem).
BadgeHidesNothing ==
  \A v \in Ids : roster[v] # Null /\ ListRow(v).unsynced = 0 =>
    /\ Contains(roster[v].items) = settled[v]
    /\ ListRow(v).items = Cardinality({s \in Slots : settled[v][s] # Null})

WorkspaceTellsTruth == DraftNeverLingers /\ BadgeHidesNothing
=============================================================================
