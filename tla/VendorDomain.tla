---------------------------- MODULE VendorDomain ----------------------------
(***************************************************************************)
(* The Vendor aggregate (domain/vendor): what each action decides from a    *)
(* snapshot and how each event changes one.  Actions are pure: an operator  *)
(* gives the events an action emits, and a second one says when it refuses. *)
(* Timestamps are left out; a name and a price are one datum of the item.   *)
(***************************************************************************)
EXTENDS Integers, Sequences, SequencesExt

CONSTANTS
  Items,       \* Clover item ids
  ItemData,    \* what an item carries: its name and its price in cents
  Names,       \* texts that are not blank
  Categories,  \* Clover category ids
  Blank,       \* a text that is empty once trimmed
  Null         \* no value: no category, no item, no snapshot

\* A share of the sales, in basis points.
BasisPoints  == 0 .. 10000
DefaultShare == 6000

Snapshots ==
  [name: Names, status: {"active", "inactive"}, share: BasisPoints,
   category: Categories \cup {Null}, items: [Items -> ItemData \cup {Null}]]

NoItems == [i \in Items |-> Null]

-----------------------------------------------------------------------------
(* Events.                                                                  *)

Created(name, share, category) ==
  [type |-> "VendorCreated", name |-> name, share |-> share, category |-> category]
Renamed(name)         == [type |-> "VendorRenamed", name |-> name]
Linked(category)      == [type |-> "VendorCloverCategoryLinked", category |-> category]
Activated             == [type |-> "VendorActivated"]
Deactivated           == [type |-> "VendorDeactivated"]
ItemAdded(item, data) == [type |-> "VendorItemAdded", item |-> item, data |-> data]
ItemUpdated(item, data) == [type |-> "VendorItemUpdated", item |-> item, data |-> data]
ItemRemoved(item)     == [type |-> "VendorItemRemoved", item |-> item]

\* The event's handler, on the snapshot before it (Null on a pristine vendor).
Handle(snapshot, event) ==
  CASE event.type = "VendorCreated" ->
         [name |-> event.name, status |-> "active", share |-> event.share,
          category |-> event.category, items |-> NoItems]
    [] event.type = "VendorRenamed" -> [snapshot EXCEPT !.name = event.name]
    [] event.type = "VendorCloverCategoryLinked" ->
         [snapshot EXCEPT !.category = event.category]
    [] event.type = "VendorActivated" -> [snapshot EXCEPT !.status = "active"]
    [] event.type = "VendorDeactivated" -> [snapshot EXCEPT !.status = "inactive"]
    [] event.type = "VendorItemAdded" ->
         [snapshot EXCEPT !.items[event.item] = event.data]
    [] event.type = "VendorItemUpdated" ->
         [snapshot EXCEPT !.items[event.item] = IF @ = Null THEN @ ELSE event.data]
    [] event.type = "VendorItemRemoved" -> [snapshot EXCEPT !.items[event.item] = Null]

\* A pristine vendor, and the reducer: every event moves the version by one.
Pristine == [version |-> 0, snapshot |-> Null]

Reduce(vendor, event) ==
  [version |-> vendor.version + 1, snapshot |-> Handle(vendor.snapshot, event)]

\* applyEvents: the fold every dispatch and every replay makes.
ApplyEvents(vendor, events) ==
  LET after[n \in 0 .. Len(events)] ==
        IF n = 0 THEN vendor ELSE Reduce(after[n - 1], events[n])
  IN after[Len(events)]

-----------------------------------------------------------------------------
(* Actions.                                                                 *)

CreateRefused(name, share, category) ==
  \/ name = Blank
  \/ share \notin BasisPoints \cup {Null}
  \/ category = Blank

\* A missing share is the default, a missing category is null.
Create(name, share, category) ==
  <<Created(name, IF share = Null THEN DefaultShare ELSE share, category)>>

RenameRefused(name) == name = Blank
Rename(name) == <<Renamed(name)>>

LinkCloverCategoryRefused(category) == category = Blank
LinkCloverCategory(category) == <<Linked(category)>>

ActivateRefused(snapshot) == snapshot.status = "active"
Activate == <<Activated>>

DeactivateRefused(snapshot) == snapshot.status = "inactive"
Deactivate == <<Deactivated>>

\* Clover's name of the category, unless it is blank or the vendor's already.
SyncCloverCategoryName(snapshot, name) ==
  IF name \in {Blank, snapshot.name} THEN <<>> ELSE <<Renamed(name)>>

\* normalizeItem: a blank id or a price that is no amount of cents.
ItemRefused(item, data) == item = Blank \/ data \notin ItemData

\* Slip: an item the vendor holds already is left as it is.
ApplyCloverItemOnce(snapshot, item, data) ==
  IF snapshot.items[item] = Null THEN <<ItemAdded(item, data)>> ELSE <<>>

ApplyCloverItem(snapshot, item, data) ==
  CASE snapshot.items[item] = Null -> <<ItemAdded(item, data)>>
    [] snapshot.items[item] = data -> <<>>
    [] OTHER -> <<ItemUpdated(item, data)>>

RemoveCloverItem(snapshot, item) ==
  IF snapshot.items[item] = Null THEN <<>> ELSE <<ItemRemoved(item)>>

\* normalizeIncomingItems: one refused item or a repeated id refuses the list.
SyncCloverItemsRefused(incoming) ==
  \/ \E k \in DOMAIN incoming : ItemRefused(incoming[k].item, incoming[k].data)
  \/ \E j, k \in DOMAIN incoming : j # k /\ incoming[j].item = incoming[k].item

\* Slip: items Clover does not list any more are kept.
SyncKeepsGone(snapshot, incoming) ==
  FoldLeft(LAMBDA done, next : done \o ApplyCloverItem(snapshot, next.item, next.data),
           <<>>, incoming)

\* The incoming items in their order, then a removal of each item not among them.
SyncCloverItems(snapshot, incoming) ==
  LET kept == {incoming[k].item : k \in DOMAIN incoming}
      upserts == FoldLeft(LAMBDA done, next :
                            done \o ApplyCloverItem(snapshot, next.item, next.data),
                          <<>>, incoming)
      gone == SetToSeq({i \in Items \ kept : snapshot.items[i] # Null})
  IN upserts \o [k \in DOMAIN gone |-> ItemRemoved(gone[k])]
=============================================================================
