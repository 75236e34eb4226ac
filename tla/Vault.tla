-------------------------------- MODULE Vault -------------------------------
(***************************************************************************)
(* The components that share no state with each other, side by side: a     *)
(* behaviour is of one of them, "part" says which, and the variables of    *)
(* the others stay off.  What a property says is explained where it is     *)
(* defined, in the component's own module.                                 *)
(***************************************************************************)
EXTENDS VendorItems

CONSTANTS
  \* VendorSession.
  MaxListed,
  \* RequestSaga.
  Participants,
  \* UnitOfWork.
  Units, MaxEvents,
  \* OAuthFlow.
  MaxLaunches, MaxReturns, StateTtl, MaxNow,
  \* CloverCall.
  MaxRetries, DefaultWait, MaxWait, Skew, MaxInstant,
  \* JobGuards.
  Instances, Kinds, Requests,
  \* StoreAccess.
  Emails, StoreNames, DefaultName, MaxMembers, MaxEdits,
  \* Webhook.
  Events, Deliveries, MaxBatch, MaxAborts,
  \* OrdersRebuild.
  Orders, LastTime, Page, Batch, GiveUp, MaxCycles, MaxHooks,
  \* OrderFigures.
  Receipts, MaxRevisions,
  \* SalesReview.
  MonthLengths, FirstMonth, DaysPerWeek, Sellers, TrailingMonths, TopVendors,
  RecentLimit, Prices, MaxMoves,
  \* VendorWorkspace.
  Stored, Unknown, Fresh, Slots, Contents,
  \* VendorApplication.
  Required, Optional, Labels, MaxMails,
  \* MarketSite.
  Makers, Signs, Wares, FirstCatalog, Asked, Parts, FeaturedCount, Lifetimes,
  MaxChanges

ASSUME SessionAssumption == MaxListed \in Nat

ASSUME RequestAssumption == Participants \in Nat \ {0}

ASSUME OAuthAssumption ==
  /\ MaxLaunches \in Nat
  /\ StateTtl \in Nat

ASSUME CallAssumption ==
  /\ MaxRetries \in Nat
  /\ DefaultWait \in 0 .. MaxWait
  /\ MaxWait \in Nat
  /\ Skew \in Nat
  /\ MaxInstant \in Nat

ASSUME RebuildAssumption ==
  /\ LastTime \in Nat
  /\ Orders \in (SUBSET (1 .. LastTime)) \ {{}}
  /\ Page \in Nat /\ Page >= 2
  /\ Batch \in Nat \ {0}
  /\ GiveUp \in Nat \ {0}

ASSUME FiguresAssumption ==
  \A order \in Receipts :
    /\ order.lines \in Seq([price : Int, unitQty : Int, exchanged : BOOLEAN,
                            refunded : BOOLEAN,
                            discounts : Seq([amount : Int, percentage : Int])])
    /\ order.payments \in Seq([amount : Int, tax : Int, result : STRING])
    /\ order.total \in Int

ASSUME SalesAssumption ==
  /\ MonthLengths \in Seq(Nat \ {0}) /\ MonthLengths # <<>>
  /\ FirstMonth \in Nat
  /\ TrailingMonths \in Nat /\ TrailingMonths >= 2
  /\ DaysPerWeek \in Nat /\ TopVendors \in Nat /\ RecentLimit \in Nat
  /\ Prices \in Seq(Nat)

ASSUME WorkspaceAssumption ==
  /\ Stored \cap Fresh = {}
  /\ Unknown \cap Fresh = {}
  /\ {"/vendors", "/vendors/new", "elsewhere", Null}
       \cap (Stored \cup Unknown \cup Fresh) = {}
  /\ IsFiniteSet(Slots)
  /\ Contents # {} /\ Null \notin Contents
  /\ LET Cells == [content : Contents, linked : BOOLEAN,
                   sync : {"synced", "edited", "new", "removed"}]
     IN  /\ Null \notin Cells
         /\ Null \notin [status : {"active", "inactive"}, items : [Slots -> Cells \cup {Null}]]

ASSUME SiteAssumption ==
  /\ IsFiniteSet(Makers)
  /\ Signs \in Seq(Seq(STRING) \ {<<>>})
  /\ FirstCatalog \in [Makers -> [name : DOMAIN Signs, active : BOOLEAN,
                                  items : SUBSET DOMAIN Wares]]
  /\ FeaturedCount \in Nat
  /\ MaxChanges \in Nat

VARIABLES
  part,  \* the component this behaviour is of
  \* VendorSession.
  session, synced,
  \* RequestSaga.
  adapter, stage, joined, turn, tx, connection, exit, commitExit, queued, answer,
  \* UnitOfWork.
  row, log, emitted, working, held, latest, tracked, written, appended,
  \* OAuthFlow.
  now, config, launches, jar, answers, returns, sent, authorized, exchanged,
  connected, spent, replayed,
  \* CloverCall.
  instant, throttled, asks, expires, call, retries, wake, parked, outcome,
  \* JobGuards.
  guards, at, asked, reply,
  \* StoreAccess.
  account, members, edits, letters, links, users, sessions, visit, entitled,
  \* Webhook.
  rows, handling, batch, payload, inserted, accepted, aborts,
  \* OrdersRebuild.
  edition, rebuilt, queue, mark, script, doomed, owed, enqueued, loaded, worked,
  cycles, worker,
  \* OrderFigures.
  receipt, revision, booked, refused,
  \* SalesReview.
  ledger, today, page, figures, moved,
  \* VendorWorkspace.
  path, roster, draft, rendered, open, due, timer, leaving, settled,
  \* VendorApplication.
  typed, chosen, trap, pending, shown, mailbox, told, mails,
  \* MarketSite.
  catalog, cache, screen, changed

sessionSide == <<session, synced>>
requestSide == <<adapter, stage, joined, turn, tx, connection, exit, commitExit,
                 queued, answer>>
unitSide == <<row, log, emitted, working, held, latest, tracked, written,
              appended>>
oauthSide == <<now, config, launches, jar, answers, returns, sent, authorized,
               exchanged, connected, spent, replayed>>
callSide == <<instant, throttled, asks, expires, call, retries, wake, parked,
              outcome>>
guardSide == <<guards, at, asked, reply>>
accessSide == <<account, members, edits, letters, links, users, sessions, visit, entitled>>
webhookSide == <<rows, handling, batch, payload, inserted, accepted, aborts>>
rebuildSide == <<edition, rebuilt, queue, mark, script, doomed, owed, enqueued,
                 loaded, worked, cycles, worker>>
figuresSide == <<receipt, revision, booked, refused>>
salesSide == <<ledger, today, page, figures, moved>>
workspaceSide == <<path, roster, draft, rendered, open, due, timer, leaving,
                   settled>>
applySide == <<typed, chosen, trap, pending, shown, mailbox, told, mails>>
siteSide == <<catalog, cache, screen, changed>>

Session   == INSTANCE VendorSession
Request   == INSTANCE RequestSaga
Unit      == INSTANCE UnitOfWork
OAuth     == INSTANCE OAuthFlow
Call      == INSTANCE CloverCall
Guards    == INSTANCE JobGuards
Access    == INSTANCE StoreAccess
Hook      == INSTANCE Webhook
Rebuild   == INSTANCE OrdersRebuild
Figures   == INSTANCE OrderFigures
Sales     == INSTANCE SalesReview
Workspace == INSTANCE VendorWorkspace
Apply     == INSTANCE VendorApplication
Site      == INSTANCE MarketSite

Components ==
  {"items", "session", "request", "unit", "oauth", "call", "guards", "access",
   "webhook", "rebuild", "figures", "sales", "workspace", "apply", "site"}

Starts(p) ==
  CASE p = "items" -> Init
    [] p = "session" -> Session!Init
    [] p = "request" -> Request!Init
    [] p = "unit" -> Unit!Init
    [] p = "oauth" -> OAuth!Init
    [] p = "call" -> Call!Init
    [] p = "guards" -> Guards!Init
    [] p = "access" -> Access!Init
    [] p = "webhook" -> Hook!Init
    [] p = "rebuild" -> Rebuild!Init
    [] p = "figures" -> Figures!Init
    [] p = "sales" -> Sales!Init
    [] p = "workspace" -> Workspace!Init
    [] p = "apply" -> Apply!Init
    [] p = "site" -> Site!Init

Off(p) ==
  CASE p = "items" ->
          /\ clover = Null /\ title = Null /\ changes = Null /\ inbox = Null
          /\ vendors = Null /\ holder = Null /\ stored = Null /\ stream = Null
          /\ overlap = Null /\ pc = Null /\ msg = Null /\ attempt = Null
          /\ fetched = Null /\ rest = Null /\ base = Null /\ vendor = Null
          /\ owner = Null /\ events = Null /\ faults = Null
    [] p = "session" ->
          /\ session = Null /\ synced = Null
    [] p = "request" ->
          /\ adapter = Null /\ stage = Null /\ joined = Null /\ turn = Null
          /\ tx = Null /\ connection = Null /\ exit = Null /\ commitExit = Null
          /\ queued = Null /\ answer = Null
    [] p = "unit" ->
          /\ row = Null /\ log = Null /\ emitted = Null /\ working = Null
          /\ held = Null /\ latest = Null /\ tracked = Null /\ written = Null
          /\ appended = Null
    [] p = "oauth" ->
          /\ now = Null /\ config = Null /\ launches = Null /\ jar = Null
          /\ answers = Null /\ returns = Null /\ sent = Null /\ authorized = Null
          /\ exchanged = Null /\ connected = Null /\ spent = Null
          /\ replayed = Null
    [] p = "call" ->
          /\ instant = Null /\ throttled = Null /\ asks = Null /\ expires = Null
          /\ call = Null /\ retries = Null /\ wake = Null /\ parked = Null
          /\ outcome = Null
    [] p = "guards" ->
          /\ guards = Null /\ at = Null /\ asked = Null /\ reply = Null
    [] p = "access" ->
          /\ account = Null /\ members = Null /\ edits = Null /\ letters = Null
          /\ links = Null /\ users = Null /\ sessions = Null /\ visit = Null /\ entitled = Null
    [] p = "webhook" ->
          /\ rows = Null /\ handling = Null /\ batch = Null /\ payload = Null
          /\ inserted = Null /\ accepted = Null /\ aborts = Null
    [] p = "rebuild" ->
          /\ edition = Null /\ rebuilt = Null /\ queue = Null /\ mark = Null
          /\ script = Null /\ doomed = Null /\ owed = Null /\ enqueued = Null
          /\ loaded = Null /\ worked = Null /\ cycles = Null /\ worker = Null
    [] p = "figures" ->
          /\ receipt = Null /\ revision = Null /\ booked = Null /\ refused = Null
    [] p = "sales" ->
          /\ ledger = Null /\ today = Null /\ page = Null /\ figures = Null
          /\ moved = Null
    [] p = "workspace" ->
          /\ path = Null /\ roster = Null /\ draft = Null /\ rendered = Null
          /\ open = Null /\ due = Null /\ timer = Null /\ leaving = Null
          /\ settled = Null
    [] p = "apply" ->
          /\ typed = Null /\ chosen = Null /\ trap = Null /\ pending = Null
          /\ shown = Null /\ mailbox = Null /\ told = Null /\ mails = Null
    [] p = "site" ->
          /\ catalog = Null /\ cache = Null /\ screen = Null /\ changed = Null

VaultInit ==
  /\ part \in Components
  /\ \A p \in Components : IF p = part THEN Starts(p) ELSE Off(p)

VaultNext ==
  \/ /\ part = "items" /\ Next
     /\ UNCHANGED <<part, sessionSide, requestSide, unitSide, oauthSide, callSide,
                   accessSide, webhookSide, rebuildSide, figuresSide, salesSide,
                   workspaceSide, applySide, siteSide, guardSide>>
  \/ /\ part = "session" /\ Session!Next
     /\ UNCHANGED <<part, vars, requestSide, unitSide, oauthSide, callSide,
                   accessSide, webhookSide, rebuildSide, figuresSide, salesSide,
                   workspaceSide, applySide, siteSide, guardSide>>
  \/ /\ part = "request" /\ Request!Next
     /\ UNCHANGED <<part, vars, sessionSide, unitSide, oauthSide, callSide,
                   accessSide, webhookSide, rebuildSide, figuresSide, salesSide,
                   workspaceSide, applySide, siteSide, guardSide>>
  \/ /\ part = "unit" /\ Unit!Next
     /\ UNCHANGED <<part, vars, sessionSide, requestSide, oauthSide, callSide,
                   accessSide, webhookSide, rebuildSide, figuresSide, salesSide,
                   workspaceSide, applySide, siteSide, guardSide>>
  \/ /\ part = "oauth" /\ OAuth!Next
     /\ UNCHANGED <<part, vars, sessionSide, requestSide, unitSide, callSide,
                   accessSide, webhookSide, rebuildSide, figuresSide, salesSide,
                   workspaceSide, applySide, siteSide, guardSide>>
  \/ /\ part = "call" /\ Call!Next
     /\ UNCHANGED <<part, vars, sessionSide, requestSide, unitSide, oauthSide,
                   accessSide, webhookSide, rebuildSide, figuresSide, salesSide,
                   workspaceSide, applySide, siteSide, guardSide>>
  \/ /\ part = "guards" /\ Guards!Next
     /\ UNCHANGED <<part, vars, sessionSide, requestSide, unitSide, oauthSide,
                   callSide, accessSide, webhookSide, rebuildSide, figuresSide,
                   salesSide, workspaceSide, applySide, siteSide>>
  \/ /\ part = "access" /\ Access!Next
     /\ UNCHANGED <<part, vars, sessionSide, requestSide, unitSide, oauthSide,
                   callSide, webhookSide, rebuildSide, figuresSide, salesSide,
                   workspaceSide, applySide, siteSide, guardSide>>
  \/ /\ part = "webhook" /\ Hook!Next
     /\ UNCHANGED <<part, vars, sessionSide, requestSide, unitSide, oauthSide,
                   callSide, accessSide, rebuildSide, figuresSide, salesSide,
                   workspaceSide, applySide, siteSide, guardSide>>
  \/ /\ part = "rebuild" /\ Rebuild!Next
     /\ UNCHANGED <<part, vars, sessionSide, requestSide, unitSide, oauthSide,
                   callSide, accessSide, webhookSide, figuresSide, salesSide,
                   workspaceSide, applySide, siteSide, guardSide>>
  \/ /\ part = "figures" /\ Figures!Next
     /\ UNCHANGED <<part, vars, sessionSide, requestSide, unitSide, oauthSide,
                   callSide, accessSide, webhookSide, rebuildSide, salesSide,
                   workspaceSide, applySide, siteSide, guardSide>>
  \/ /\ part = "sales" /\ Sales!Next
     /\ UNCHANGED <<part, vars, sessionSide, requestSide, unitSide, oauthSide,
                   callSide, accessSide, webhookSide, rebuildSide, figuresSide,
                   workspaceSide, applySide, siteSide, guardSide>>
  \/ /\ part = "workspace" /\ Workspace!Next
     /\ UNCHANGED <<part, vars, sessionSide, requestSide, unitSide, oauthSide,
                   callSide, accessSide, webhookSide, rebuildSide, figuresSide,
                   salesSide, applySide, siteSide, guardSide>>
  \/ /\ part = "apply" /\ Apply!Next
     /\ UNCHANGED <<part, vars, sessionSide, requestSide, unitSide, oauthSide,
                   callSide, accessSide, webhookSide, rebuildSide, figuresSide,
                   salesSide, workspaceSide, siteSide, guardSide>>
  \/ /\ part = "site" /\ Site!Next
     /\ UNCHANGED <<part, vars, sessionSide, requestSide, unitSide, oauthSide,
                   callSide, accessSide, webhookSide, rebuildSide, figuresSide,
                   salesSide, workspaceSide, applySide, guardSide>>

vaultVars ==
  <<part, vars, sessionSide, requestSide, unitSide, oauthSide, callSide, accessSide,
    webhookSide, rebuildSide, figuresSide, salesSide, workspaceSide, applySide, siteSide,
    guardSide>>

VaultSpec == VaultInit /\ [][VaultNext]_vaultVars
-----------------------------------------------------------------------------
(* The components' properties, each for the behaviours of its component.     *)

VaultTypeOK ==
  /\ part \in Components
  /\ part = "items" => VendorTypeOK
  /\ part = "session" => Session!SessionTypeOK
  /\ part = "request" => Request!RequestTypeOK
  /\ part = "guards" => Guards!OneJobPerInstance
  /\ part = "access" => Access!OneMembershipPerEmail
  /\ part = "site" => Site!SiteTypeOK

\* Whatever drains overlap, the stored row, items and version of a vendor that shares
\* its category with no other are what its events replay to (repositories/vendors.ts:
\* save).
VendorIsItsStream == part = "items" => StreamGivesVendor

\* No stale snapshot that another saga saves takes away an applied item
\* (jobs/vendor-items.ts: processVendorItems).
NoItemDropped == part = "items" => NothingDropped

\* With one drain at a time the vendors hold what Clover holds, whatever was changed
\* there between the message and the fetch (jobs/vendor-items.ts: upsertItem).
VendorsFollowClover == part = "items" => SettledIsCurrent

\* With one drain at a time two messages of one category do not both create its
\* vendor (jobs/vendor-items.ts: resolveVendorByCategories).
NoTwinVendors == part = "items" => OneVendorPerCategory

\* Whatever was done to a vendor before, syncing a list mirrors it, and syncing it
\* again does nothing (vendor.actions.ts: syncCloverItems).
ListIsMirrored == part = "session" => Session!SyncMirrors

\* A request's connection goes back without its transaction, and its answer says what
\* became of what it wrote, whichever step of it fails or is cut short
\* (with-saga.ts, database-saga-scoped.ts, define-route.ts).
RequestEndsCleanly ==
  part = "request" => Request!ReturnedWithoutTransaction /\ Request!AnswerTellsOutcome

\* Units of work that read and save the same aggregates in any order leave each row
\* equal to the replay of its stream (event-tracker.ts, repository.ts).
UnitsKeepTheReplay == part = "unit" => Unit!RowIsReplay

\* A state the handler has answered for is not accepted a second time, whatever tabs
\* and redeploys cross it (oauth/callback/route.ts, oauth-state.ts).
StateIsSpent == part = "oauth" => OAuth!StateNotReplayed

\* A throttled call gives up only after all its retries, and waits no longer than they
\* may (make-request.ts: executeWithRateLimitRetry).
BurstIsRidden == part = "call" => Call!RidesOutBurst

\* A store that has members has an active owner (owner-preservation.ts).
StoreKeepsOwner == part = "access" => Access!OwnerRemains

\* A page of the admin portal is only for an address that had an active membership
\* during the request (require-active-owner.ts).
PagesAreGuarded == part = "access" => Access!PagesForActiveOwners

\* What the webhook accepted waits in an inbox, however deliveries overlap or fail
\* (webhook/route.ts: recordWebhookEvents).
WebhookLosesNothing == part = "webhook" => Hook!AcceptedIsRecorded

\* A rebuild that reports completion has every order, whatever the deployed drain did
\* meanwhile (scripts/run-orders-backfill.ts).
RebuildLosesNothing == part = "rebuild" => Rebuild!RebuildComplete

\* A booked order's figures are those of Clover's latest order, none left from an
\* earlier revision (jobs/orders.ts, order.actions.ts).
FiguresAreCurrent == part = "figures" => Figures!FiguresFollowOrder

\* The queries behind one page of figures bound the same days, weeks and months
\* (sales-review/page.tsx, (dashboard)/page.tsx).
PagesAgree == part = "sales" => Sales!PageAgrees

\* No draft outlives its panel and no edit hides behind a synced badge
\* (vendors-context.tsx, vendor-panel-host.tsx, vendor-slide-over.tsx).
WorkspaceIsHonest == part = "workspace" => Workspace!WorkspaceTellsTruth

\* The public site: a card that is followed arrives, a vendor searched by name is
\* found first (lib/vendors), and an application that was confirmed reached the shop
\* while one that failed can be sent again as it was (become-a-vendor/actions.ts).
SiteIsHonest ==
  /\ part = "site" => Site!CardsResolve /\ Site!FoundByName
  /\ part = "apply" => Apply!ApplicationKept
=============================================================================
