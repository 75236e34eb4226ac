---------------------------- MODULE VendorSession ----------------------------
(***************************************************************************)
(* A vendor in memory and everything its actions may do to it, in any order *)
(* (domain/vendor: vendor.actions.ts through vendor.aggregate-root.ts):     *)
(* VendorItems has the few of them the drain dispatches and stores.         *)
(***************************************************************************)
EXTENDS VendorDomain

CONSTANT MaxListed  \* bound on the items of a list that is synced

VARIABLES
  session,  \* the snapshot; Null on a pristine vendor
  synced    \* the list the last action synced, <<>> after any other
vendorSessionVars == <<session, synced>>

NoList == <<>>
Lists  == UNION {[1 .. n -> [item: Items \cup {Blank}, data: ItemData]] : n \in 1 .. MaxListed}
Texts  == Names \cup {Blank}

Init == session = Null /\ synced = NoList

Emit(events) ==
  session' = ApplyEvents([version |-> 0, snapshot |-> session], events).snapshot

Do(events) == Emit(events) /\ synced' = NoList

DoCreate(name, share, category) ==
  /\ session = Null
  /\ ~CreateRefused(name, share, category)
  /\ Do(Create(name, share, category))

DoRename(name) ==
  session # Null /\ ~RenameRefused(name) /\ Do(Rename(name))

DoLink(category) ==
  session # Null /\ ~LinkCloverCategoryRefused(category) /\ Do(LinkCloverCategory(category))

DoActivate   == session # Null /\ ~ActivateRefused(session) /\ Do(Activate)
DoDeactivate == session # Null /\ ~DeactivateRefused(session) /\ Do(Deactivate)

DoSyncName(name) == session # Null /\ Do(SyncCloverCategoryName(session, name))

DoApply(item, data) ==
  session # Null /\ ~ItemRefused(item, data) /\ Do(ApplyCloverItem(session, item, data))

DoRemove(item) == session # Null /\ Do(RemoveCloverItem(session, item))

DoSync(incoming) ==
  /\ session # Null
  /\ ~SyncCloverItemsRefused(incoming)
  /\ Emit(SyncCloverItems(session, incoming))
  /\ synced' = incoming

Next ==
  \/ \E name \in Texts, share \in {Null, 10000, 10001}, c \in Categories \cup {Null, Blank} :
       DoCreate(name, share, c)
  \/ \E name \in Texts : DoRename(name) \/ DoSyncName(name)
  \/ \E c \in Categories \cup {Blank} : DoLink(c)
  \/ DoActivate \/ DoDeactivate
  \/ \E i \in Items \cup {Blank}, d \in ItemData \cup {Null} : DoApply(i, d)
  \/ \E i \in Items : DoRemove(i)
  \/ \E incoming \in Lists : DoSync(incoming)

Spec == Init /\ [][Next]_vendorSessionVars
-----------------------------------------------------------------------------
(* Properties.                                                              *)

SessionTypeOK == session \in Snapshots \cup {Null}

\* A sync mirrors Clover's list whatever had been done to the vendor before: it holds
\* the listed items with their data and no other, and a second sync of the same list
\* finds nothing to do (vendor.actions.ts: syncCloverItems).
SyncMirrors ==
  synced # NoList =>
    /\ \A i \in Items, d \in ItemData :
         session.items[i] = d <=> \E k \in DOMAIN synced : synced[k] = [item |-> i, data |-> d]
    /\ SyncCloverItems(session, synced) = <<>>
=============================================================================
