---------------------------- MODULE VendorItems ----------------------------
(***************************************************************************)
(* The vendor-items drain (apps/integrations/clover/lib/jobs/vendor-items.ts*)
(* with repositories/vendors.ts): each inbox message is a saga that fetches *)
(* the Clover item as it is now, finds or creates the vendor its categories *)
(* name, applies the item and saves the vendor, its items and its events.   *)
(* Drains may overlap: READ COMMITTED transactions, one per message, whose  *)
(* conflicts are the row locks and the unique indexes.                      *)
(***************************************************************************)
EXTENDS VendorDomain, FiniteSets

CONSTANTS
  Drains,       \* drains that may run at the same time
  VendorIds,    \* random vendor ids
  CustomId,     \* CUSTOM_ITEM_VENDOR_ID
  CustomName,   \* CUSTOM_ITEM_VENDOR_NAME
  CategoryName, \* what a category's id reads as, where Clover has no name for it
  Titles,       \* the names Clover may give a category
  FirstTitle,   \* the name each has at first
  Filings,      \* the category lists items are filed under
  MaxAttempts,  \* MAX_ATTEMPTS
  MaxMishaps     \* bound on the changes at Clover and the faults together

\* The rows of fcv_vendors.
VendorRows ==
  [name: Names, status: {"active", "inactive"}, share: BasisPoints,
   category: Categories \cup {Null}, version: Nat \ {0}]

ASSUME VendorAssumption ==
  /\ CustomId \notin VendorIds
  /\ CustomName \in Names
  /\ CategoryName \in [Categories -> Names]
  /\ FirstTitle \in Titles
  /\ Titles \subseteq Names \cup {Blank}
  /\ Filings \subseteq Seq(Categories)
  /\ Items \subseteq Nat /\ IsFiniteSet(Items)
  /\ Null \notin VendorIds \cup {CustomId} \cup ItemData \cup Categories \cup Names
  /\ Null \notin [filing: Filings, data: ItemData]
  /\ Null \notin VendorRows
  /\ MaxAttempts \in Nat \ {0}
  /\ MaxMishaps \in Nat

VARIABLES
  \* Clover.
  clover,    \* each item: its filing and its data, Null unless it exists
  title,     \* each category's name, possibly blank
  changes,   \* changes so far
  \* The database.
  inbox,     \* messages in the order received
  vendors,   \* fcv_vendors: row by id, Null if there is none
  holder,    \* fcv_vendor_items.vendor_id by clover_item_id
  stored,    \* fcv_vendor_items' name and price by clover_item_id
  stream,    \* fcv_aggregate_events of each vendor
  \* The drains.
  overlap,   \* TRUE: drains of several processes, which no guard keeps apart
  pc, msg, attempt, fetched, rest, base, vendor, owner, events,
  faults

cloverSide == <<clover, title, changes>>
tables == <<inbox, vendors, holder, stored, stream>>
saga   == <<pc, msg, attempt, fetched, rest, base, vendor, owner, events>>
vars   == <<cloverSide, tables, overlap, saga, faults>>

Ids == VendorIds \cup {CustomId}
Row(snapshot, version) ==
  [name |-> snapshot.name, status |-> snapshot.status, share |-> snapshot.share,
   category |-> snapshot.category, version |-> version]

Item(d) == inbox[msg[d]].item

Message(kind, i) ==
  [kind |-> kind, item |-> i, status |-> "pending", attempts |-> 0, errors |-> {}]

\* The first import has enqueued every item of the catalogue.  An item added later
\* is, to the drains, one whose message nobody has loaded yet.
Init ==
  /\ \E data \in ItemData : clover \in [Items -> [filing: Filings, data: {data}]]
  /\ title = [c \in Categories |-> FirstTitle]
  /\ changes = 0
  /\ inbox = SetToSeq({Message("upsert", i) : i \in Items})
  /\ vendors = [v \in Ids |-> Null]
  /\ holder = [i \in Items |-> Null]
  /\ stored = [i \in Items |-> Null]
  /\ stream = [v \in Ids |-> <<>>]
  /\ overlap \in BOOLEAN
  /\ pc = [d \in Drains |-> "idle"]
  /\ msg = [d \in Drains |-> 0]
  /\ attempt = [d \in Drains |-> 0]
  /\ fetched = [d \in Drains |-> Null]
  /\ rest = [d \in Drains |-> <<>>]
  /\ base = [d \in Drains |-> 0]
  /\ vendor = [d \in Drains |-> Pristine]
  /\ owner = [d \in Drains |-> Null]
  /\ events = [d \in Drains |-> <<>>]
  /\ faults = 0

-----------------------------------------------------------------------------
(* Clover.  A change of an item is announced by a message of its own.       *)

Announce(kind, i) ==
  /\ changes + faults < MaxMishaps
  /\ changes' = changes + 1
  /\ inbox' = Append(inbox, Message(kind, i))
  /\ UNCHANGED <<title, vendors, holder, stored, stream, overlap, saga, faults>>

\* A merchant edits an item: its filing, its name or its price.
EditItem(i, filing, data) ==
  /\ clover[i] # Null
  /\ clover[i] # [filing |-> filing, data |-> data]
  /\ clover' = [clover EXCEPT ![i] = [filing |-> filing, data |-> data]]
  /\ Announce("upsert", i)

\* An item that is deleted does not come back under its id.
DeleteItem(i) ==
  /\ clover[i] # Null
  /\ clover' = [clover EXCEPT ![i] = Null]
  /\ Announce("delete", i)

\* A category is renamed: no message says so.
RenameCategory(c, t) ==
  /\ changes + faults < MaxMishaps
  /\ title[c] # t
  /\ changes' = changes + 1
  /\ title' = [title EXCEPT ![c] = t]
  /\ UNCHANGED <<clover, tables, overlap, saga, faults>>

-----------------------------------------------------------------------------
(* A saga.                                                                  *)

Goto(d, place) == pc' = [pc EXCEPT ![d] = place]

Forget(d) ==
  /\ Goto(d, "idle")
  /\ msg' = [msg EXCEPT ![d] = 0]
  /\ attempt' = [attempt EXCEPT ![d] = 0]
  /\ fetched' = [fetched EXCEPT ![d] = Null]
  /\ rest' = [rest EXCEPT ![d] = <<>>]
  /\ base' = [base EXCEPT ![d] = 0]
  /\ vendor' = [vendor EXCEPT ![d] = Pristine]
  /\ owner' = [owner EXCEPT ![d] = Null]
  /\ events' = [events EXCEPT ![d] = <<>>]

\* Slip: nothing keeps the drains of a process apart.
LoadUnguarded(d) ==
  /\ pc[d] = "idle"
  /\ \E k \in DOMAIN inbox :
       /\ inbox[k].status = "pending"
       /\ msg' = [msg EXCEPT ![d] = k]
       /\ attempt' = [attempt EXCEPT ![d] = inbox[k].attempts + 1]
       /\ Goto(d, IF inbox[k].kind = "delete" THEN "find" ELSE "fetch")
  /\ UNCHANGED <<cloverSide, tables, overlap, fetched, rest, base, vendor, owner, events, faults>>

\* A drain of the same process waits for the one that runs.
Load(d) ==
  /\ pc[d] = "idle"
  /\ overlap \/ \A e \in Drains : pc[e] = "idle"
  /\ \E k \in DOMAIN inbox :
       /\ inbox[k].status = "pending"
       /\ msg' = [msg EXCEPT ![d] = k]
       /\ attempt' = [attempt EXCEPT ![d] = inbox[k].attempts + 1]
       /\ Goto(d, IF inbox[k].kind = "delete" THEN "find" ELSE "fetch")
  /\ UNCHANGED <<cloverSide, tables, overlap, fetched, rest, base, vendor, owner, events, faults>>

\* getCloverItem: the item, and its categories with their names, as they are now.
Fetch(d) ==
  /\ pc[d] = "fetch"
  /\ clover[Item(d)] # Null
  /\ LET item == clover[Item(d)]
     IN /\ fetched' = [fetched EXCEPT ![d] =
                         [filing |-> item.filing, data |-> item.data, title |-> title]]
        /\ rest' = [rest EXCEPT ![d] = item.filing]
  /\ Goto(d, "resolve")
  /\ UNCHANGED <<cloverSide, tables, overlap, msg, attempt, base, vendor, owner, events, faults>>

HeldBy(v) == {i \in Items : holder[i] = v}

\* The vendor the rows of a join give, ordered by item id: the columns come from
\* the first row, the items from all of them.
FirstOf(S) ==
  LET lowest(v) == Min(HeldBy(v))
      holding == {v \in S : HeldBy(v) # {}}
  IN IF holding = {} THEN S
     ELSE {v \in holding : \A w \in holding : lowest(v) <= lowest(w)}

LoadedFrom(v, S) ==
  [version |-> vendors[v].version,
   snapshot |-> [name |-> vendors[v].name, status |-> vendors[v].status,
                 share |-> vendors[v].share, category |-> vendors[v].category,
                 items |-> [i \in Items |-> IF holder[i] \in S THEN stored[i] ELSE Null]]]

\* The actions dispatched on `before`: the events they emitted and where they lead.
\* Without an event the saga has nothing to save.
Dispatched(d, id, before, emitted) ==
  /\ fetched' = [fetched EXCEPT ![d] = Null]
  /\ rest' = [rest EXCEPT ![d] = <<>>]
  /\ owner' = [owner EXCEPT ![d] = id]
  /\ base' = [base EXCEPT ![d] = before.version]
  /\ vendor' = [vendor EXCEPT ![d] = ApplyEvents(before, emitted)]
  /\ events' = [events EXCEPT ![d] = emitted]
  /\ Goto(d, IF emitted = <<>> THEN "commit" ELSE "row")

LinkedTo(c) == {v \in Ids : vendors[v] # Null /\ vendors[v].category = c}

\* getByCloverCategoryId found a vendor: its name follows the category's.
UseVendor(d) ==
  /\ pc[d] = "resolve"
  /\ rest[d] # <<>>
  /\ LET c == Head(rest[d])
     IN \E v \in FirstOf(LinkedTo(c)) :
          LET before  == LoadedFrom(v, LinkedTo(c))
              renamed == SyncCloverCategoryName(before.snapshot, fetched[d].title[c])
              named   == ApplyEvents(before, renamed).snapshot
          IN Dispatched(d, v, before,
               renamed \o ApplyCloverItem(named, Item(d), fetched[d].data))
  /\ UNCHANGED <<cloverSide, tables, overlap, msg, attempt, faults>>

NewVendor(d, id, name, category) ==
  LET created == Create(name, Null, category)
      named   == ApplyEvents(Pristine, created).snapshot
  IN Dispatched(d, id, Pristine,
       created \o ApplyCloverItem(named, Item(d), fetched[d].data))

\* No vendor for this category: on to the next one of the item.
TryNextCategory(d) ==
  /\ pc[d] = "resolve"
  /\ Len(rest[d]) > 1
  /\ LinkedTo(Head(rest[d])) = {}
  /\ rest' = [rest EXCEPT ![d] = Tail(@)]
  /\ UNCHANGED <<cloverSide, tables, overlap, pc, msg, attempt, fetched, base, vendor, owner, events, faults>>

\* An id nobody uses stands for a random one.
Unused == {v \in VendorIds : vendors[v] = Null /\ \A d \in Drains : owner[d] # v}

\* Nor for the last one: a vendor for the first category is created, named after it
\* or, failing that, its id.
CreateVendor(d) ==
  /\ pc[d] = "resolve"
  /\ Len(rest[d]) = 1
  /\ LinkedTo(Head(rest[d])) = {}
  /\ LET c == Head(fetched[d].filing)
         name == fetched[d].title[c]
     IN /\ Unused # {}
        /\ NewVendor(d, CHOOSE v \in Unused : TRUE,
                     IF name = Blank THEN CategoryName[c] ELSE name, c)
  /\ UNCHANGED <<cloverSide, tables, overlap, msg, attempt, faults>>

\* The shared vendor for an item under no category, created on first use.
UseCustomVendor(d) ==
  /\ pc[d] = "resolve"
  /\ fetched[d].filing = <<>>
  /\ IF vendors[CustomId] = Null
       THEN NewVendor(d, CustomId, CustomName, Null)
       ELSE LET before == LoadedFrom(CustomId, {CustomId})
            IN Dispatched(d, CustomId, before,
                 ApplyCloverItem(before.snapshot, Item(d), fetched[d].data))
  /\ UNCHANGED <<cloverSide, tables, overlap, msg, attempt, faults>>

\* removeItem, getByCloverItemId: nobody holds the item, which is success.
NobodyHolds(d) ==
  /\ pc[d] = "find"
  /\ holder[Item(d)] = Null
  /\ Goto(d, "commit")
  /\ UNCHANGED <<cloverSide, tables, overlap, msg, attempt, fetched, rest, base, vendor, owner, events, faults>>

FindHolder(d) ==
  /\ pc[d] = "find"
  /\ holder[Item(d)] # Null
  /\ owner' = [owner EXCEPT ![d] = holder[Item(d)]]
  /\ Goto(d, "remove")
  /\ UNCHANGED <<cloverSide, tables, overlap, msg, attempt, fetched, rest, base, vendor, events, faults>>

\* The vendor, loaded in a statement of its own, may not hold the item any more.
Unlist(d) ==
  /\ pc[d] = "remove"
  /\ LET before == LoadedFrom(owner[d], {owner[d]})
     IN Dispatched(d, owner[d], before, RemoveCloverItem(before.snapshot, Item(d)))
  /\ UNCHANGED <<cloverSide, tables, overlap, msg, attempt, faults>>

-----------------------------------------------------------------------------
(* Vendor.repository.save: the vendor's row, its items, then its events.    *)

\* A saga that has written the vendor's row holds it until it ends.
RowHeld(v, d) ==
  \E e \in Drains \ {d} :
    owner[e] = v /\ events[e] # <<>> /\ pc[e] \in {"items", "commit"}

\* The row is upserted and the vendor's items are deleted: nobody else has them.
SaveRow(d) ==
  /\ pc[d] = "row"
  /\ ~RowHeld(owner[d], d)
  /\ Goto(d, "items")
  /\ UNCHANGED <<cloverSide, tables, overlap, msg, attempt, fetched, rest, base, vendor, owner, events, faults>>

NewItems(d) == {i \in Items : vendor[d].snapshot.items[i] # Null}

\* Items whose index entries the saga e has touched: deleted, then inserted too.
Touched(e) ==
  CASE pc[e] = "items" -> HeldBy(owner[e])
    [] pc[e] = "commit" /\ events[e] # <<>> ->
         HeldBy(owner[e]) \cup NewItems(e)
    [] OTHER -> {}

WaitsFor(d, e) == pc[d] = "items" /\ e # d /\ NewItems(d) \cap Touched(e) # {}

Waits(d) == \E e \in Drains : WaitsFor(d, e)

HeldElsewhere(d) == {i \in NewItems(d) : holder[i] \notin {Null, owner[d]}}

SaveItems(d) ==
  /\ pc[d] = "items"
  /\ ~Waits(d)
  /\ HeldElsewhere(d) = {}
  /\ Goto(d, "commit")
  /\ UNCHANGED <<cloverSide, tables, overlap, msg, attempt, fetched, rest, base, vendor, owner, events, faults>>

\* Slip: the events go to the end of the stream, whatever the saga had loaded.
VersionTakenNever(d) == FALSE

\* The unique index on the stream's versions.
VersionTaken(d) == events[d] # <<>> /\ Len(stream[owner[d]]) > base[d]

\* Slip: the items of the snapshot are added to those the vendor has.
SavedItemsOnly(d) ==
  /\ holder' = [i \in Items |-> IF i \in NewItems(d) THEN owner[d] ELSE holder[i]]
  /\ stored' = [i \in Items |->
                  IF i \in NewItems(d) THEN vendor[d].snapshot.items[i] ELSE stored[i]]

\* The vendor's items are those of its snapshot.
SavedItems(d) ==
  LET v == owner[d]
      items == vendor[d].snapshot.items
  IN /\ holder' = [i \in Items |-> CASE i \in NewItems(d) -> v
                                     [] i \in HeldBy(v) \ NewItems(d) -> Null
                                     [] OTHER -> holder[i]]
     /\ stored' = [i \in Items |-> CASE i \in NewItems(d) -> items[i]
                                     [] i \in HeldBy(v) \ NewItems(d) -> Null
                                     [] OTHER -> stored[i]]

\* The events and the mark are written, and COMMIT makes the saga's writes visible.
\* The row's lock keeps the stream as it is from SaveRow on.
Commit(d) ==
  /\ pc[d] = "commit"
  /\ ~VersionTaken(d)
  /\ inbox' = [inbox EXCEPT ![msg[d]].status = "processed", ![msg[d]].attempts = attempt[d]]
  /\ IF events[d] = <<>>
       THEN UNCHANGED <<vendors, holder, stored, stream>>
       ELSE /\ vendors' = [vendors EXCEPT
                             ![owner[d]] = Row(vendor[d].snapshot, vendor[d].version)]
            /\ SavedItems(d)
            /\ stream' = [stream EXCEPT ![owner[d]] = @ \o events[d]]
  /\ Forget(d)
  /\ UNCHANGED <<cloverSide, overlap, faults>>

-----------------------------------------------------------------------------
(* Failure.                                                                 *)

\* Slip: given up one attempt too late.
RecordFailureLate(d) ==
  /\ inbox' = [inbox EXCEPT
                 ![msg[d]].attempts = attempt[d],
                 ![msg[d]].status = IF attempt[d] > MaxAttempts THEN "dead" ELSE "pending"]
  /\ Forget(d)
  /\ UNCHANGED <<cloverSide, vendors, holder, stored, stream, overlap>>

\* Rolled back; the failure is recorded unless another drain recorded the attempt.
RecordFailure(d) ==
  /\ inbox' =
       IF attempt[d] \in inbox[msg[d]].errors THEN inbox
       ELSE [inbox EXCEPT
               ![msg[d]].errors = @ \cup {attempt[d]},
               ![msg[d]].attempts = attempt[d],
               ![msg[d]].status = IF attempt[d] >= MaxAttempts THEN "dead" ELSE "pending"]
  /\ Forget(d)
  /\ UNCHANGED <<cloverSide, vendors, holder, stored, stream, overlap>>

\* Clover answers 404 for an item that is gone.
NotFound(d) ==
  /\ pc[d] = "fetch"
  /\ clover[Item(d)] = Null
  /\ RecordFailure(d)
  /\ UNCHANGED faults

\* The unique index on clover_item_id: another vendor holds one of the items.
ItemTaken(d) ==
  /\ pc[d] = "items"
  /\ ~Waits(d)
  /\ HeldElsewhere(d) # {}
  /\ RecordFailure(d)
  /\ UNCHANGED faults

\* Two sagas wait for each other's items: PostgreSQL ends one of them.
Deadlock(d) ==
  /\ \E e \in Drains : WaitsFor(d, e) /\ WaitsFor(e, d)
  /\ RecordFailure(d)
  /\ UNCHANGED faults

\* Another saga appended these versions since the vendor was loaded.
Conflict(d) ==
  /\ pc[d] = "commit"
  /\ VersionTaken(d)
  /\ RecordFailure(d)
  /\ UNCHANGED faults

\* Clover, the database or the process fails; a process that stops records nothing.
Fail(d) ==
  /\ pc[d] # "idle"
  /\ changes + faults < MaxMishaps
  /\ faults' = faults + 1
  /\ \/ RecordFailure(d)
     \/ Forget(d) /\ UNCHANGED <<cloverSide, tables, overlap>>

-----------------------------------------------------------------------------
Merchant ==
  \/ \E i \in Items, filing \in Filings, data \in ItemData : EditItem(i, filing, data)
  \/ \E i \in Items : DeleteItem(i)
  \/ \E c \in Categories, t \in Titles : RenameCategory(c, t)

Drain(d) ==
  \/ Load(d) \/ Fetch(d) \/ UseVendor(d) \/ TryNextCategory(d) \/ CreateVendor(d)
  \/ UseCustomVendor(d) \/ NobodyHolds(d) \/ FindHolder(d) \/ Unlist(d)
  \/ SaveRow(d) \/ SaveItems(d) \/ Commit(d)
  \/ NotFound(d) \/ ItemTaken(d) \/ Deadlock(d) \/ Conflict(d)

Next == Merchant \/ \E d \in Drains : Drain(d) \/ Fail(d)

Spec == Init /\ [][Next]_vars
-----------------------------------------------------------------------------
(* Properties.                                                              *)

Messages ==
  [kind: {"upsert", "delete"}, item: Items, status: {"pending", "processed", "dead"},
   attempts: 0 .. MaxAttempts, errors: SUBSET (1 .. MaxAttempts)]

VendorTypeOK ==
  /\ inbox \in Seq(Messages)
  /\ vendors \in [Ids -> VendorRows \cup {Null}]
  /\ holder \in [Items -> Ids \cup {Null}]
  /\ stored \in [Items -> ItemData \cup {Null}]
  /\ msg \in [Drains -> 0 .. Len(inbox)]
  /\ owner \in [Drains -> Ids \cup {Null}]
  /\ \A d \in Drains : pc[d] # "idle" => msg[d] # 0 /\ attempt[d] \in 1 .. MaxAttempts

\* The vendor a stored row, its items and its version make.
StoredVendor(v) == LoadedFrom(v, {v})

\* Two drains that overlap may both create a vendor for a category: from then on a
\* saga loads a mixture of the two, and what it saves is the mixture.
Twinned(v) ==
  \E w \in Ids \ {v} :
    /\ vendors[w] # Null /\ vendors[v] # Null
    /\ vendors[w].category = vendors[v].category /\ vendors[v].category # Null

\* Replaying a vendor's events gives the stored vendor, its items and its version,
\* whatever drains overlap and whatever stale snapshots they hold, for a vendor that
\* is the only one of its category (vendors.ts: save, loadVendorWithItems;
\* repository.ts: save).
StreamGivesVendor ==
  \A v \in Ids :
    IF vendors[v] = Null THEN stream[v] = <<>> /\ HeldBy(v) = {}
    ELSE Twinned(v) \/ ApplyEvents(Pristine, stream[v]) = StoredVendor(v)

Deleted(i)    == \E k \in DOMAIN inbox : inbox[k].item = i /\ inbox[k].kind = "delete"
Upsert(i, k)  == inbox[k].kind = "upsert" /\ inbox[k].item = i
Working(i)    == \E d \in Drains : pc[d] # "idle" /\ Item(d) = i
Quiet(i)      == ~Working(i) /\ \A k \in DOMAIN inbox : inbox[k].item = i => inbox[k].status # "pending"

\* "nothing is dropped" (vendor-items.ts:67): an item that was applied once and never
\* deleted stays with a vendor, whatever stale snapshots other sagas save.
NothingDropped ==
  \A i \in Items :
    ~Deleted(i) /\ (\E k \in DOMAIN inbox : Upsert(i, k) /\ inbox[k].status = "processed")
      => holder[i] # Null

\* One drain at a time: once an item's messages have all been processed, the vendors
\* hold it as Clover has it, and not at all if Clover dropped it, although messages
\* say nothing but that something changed.
SettledIsCurrent ==
  ~overlap =>
    \A i \in Items :
      Quiet(i) /\ (\A k \in DOMAIN inbox : inbox[k].item = i => inbox[k].status = "processed")
        => stored[i] = (IF clover[i] = Null THEN Null ELSE clover[i].data)

\* vendors.ts:211: "clover_category_id identifies at most one vendor".  No index says
\* so: it holds while one drain at a time looks for a vendor before it creates one.
OneVendorPerCategory ==
  ~overlap => \A c \in Categories : Cardinality(LinkedTo(c)) <= 1

\* vendor-items.ts:195: an item under no category goes to the shared vendor "so it is
\* never dropped and can be re-filed later", and its class comment routes every item
\* to its category's vendor: no message of an item Clover has is given up for good
\* while nothing fails and drains do not overlap.
RefilingSucceeds ==
  ~overlap /\ faults = 0 =>
    \A k \in DOMAIN inbox : inbox[k].status = "dead" => clover[inbox[k].item] = Null
=============================================================================
