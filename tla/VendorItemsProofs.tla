-------------------------- MODULE VendorItemsProofs --------------------------
(***************************************************************************)
(* Proofs about the vendor-items drain, for any value of the constants, any *)
(* number of drains and any way they overlap: a vendor is its stream        *)
(* (StreamInv), nothing is dropped (DropInv) and, while drains take turns,  *)
(* a category has one vendor and what is stored is current (SerialInv).     *)
(* First the fold that replays events, then what a vendor's actions emit,   *)
(* then the drain: a step of the saga itself, a dispatch, a save or an end. *)
(***************************************************************************)
EXTENDS VendorItems, SequenceTheorems, FiniteSetTheorems, TLAPS

-----------------------------------------------------------------------------
(* Replaying events.                                                        *)

\* A set of numbers has a least one.
LEMMA LeastNumber ==
  ASSUME NEW S \in SUBSET Nat, S # {}
  PROVE  \E n \in S : \A m \in S : n <= m
<1> DEFINE upTo == {0 .. n : n \in S}
<1>1. upTo \subseteq FiniteSubsetsOf(Nat) /\ upTo # {}
  <2>1. ASSUME NEW n \in S PROVE 0 .. n \in FiniteSubsetsOf(Nat)
    BY FS_Interval DEF FiniteSubsetsOf
  <2> QED
    BY <2>1
<1>2. PICK X \in upTo : \A Y \in upTo : <<Y, X>> \notin StrictSubsetOrdering(Nat)
  BY <1>1, FS_StrictSubsetOrderingWellFounded, WFMin
<1>3. PICK n \in S : X = 0 .. n
  OBVIOUS
<1>4. ASSUME NEW m \in S, m < n PROVE FALSE
  <2>1. 0 .. m \in upTo /\ 0 .. m \subseteq 0 .. n /\ 0 .. m # 0 .. n
    BY <1>4
  <2> HIDE DEF upTo
  <2>2. \A A, B \in SUBSET Nat :
          A \subseteq B /\ A # B => <<A, B>> \in StrictSubsetOrdering(Nat)
    BY DEF StrictSubsetOrdering
  <2>3. <<0 .. m, 0 .. n>> \in StrictSubsetOrdering(Nat)
    BY <2>1, <2>2
  <2> QED
    BY <1>2, <1>3, <2>1, <2>3
<1>5. n \in Nat /\ \A m \in S : m \in Nat /\ ~(m < n)
  BY <1>4
<1> QED
  BY <1>5

\* What applyEvents has got to after each of the events up to the k-th.
Follows(f, v, es, k) ==
  /\ f = [n \in 0 .. k |-> f[n]]
  /\ f[0] = v
  /\ \A n \in 1 .. k : f[n] = Reduce(f[n - 1], es[n])

LEMMA FoldExists ==
  ASSUME NEW v, NEW es, NEW k \in Nat
  PROVE  \E f : Follows(f, v, es, k)
<1> DEFINE bad == {n \in Nat : ~ \E f : Follows(f, v, es, n)}
<1>1. SUFFICES ASSUME bad # {} PROVE FALSE
  OBVIOUS
<1>2. bad \in SUBSET Nat
  OBVIOUS
<1>3. PICK n \in bad : \A m \in bad : n <= m
  BY <1>1, <1>2, LeastNumber
<1>4. Follows([m \in 0 .. 0 |-> v], v, es, 0)
  BY DEF Follows
<1>5. n \in Nat /\ n # 0
  BY <1>4
<1>6. n - 1 \in Nat /\ n - 1 \notin bad
  BY <1>3, <1>5
<1>7. PICK g : Follows(g, v, es, n - 1)
  BY <1>6
<1> DEFINE f == [m \in 0 .. n |-> IF m = n THEN Reduce(g[n - 1], es[n]) ELSE g[m]]
<1>8. g[0] = v /\ \A m \in 1 .. n - 1 : g[m] = Reduce(g[m - 1], es[m])
  BY <1>7 DEF Follows
<1>9. \A m \in 1 .. n : f[m] = Reduce(f[m - 1], es[m])
  <2> SUFFICES ASSUME NEW m \in 1 .. n PROVE f[m] = Reduce(f[m - 1], es[m])
    OBVIOUS
  <2>1. f[m - 1] = g[m - 1]
    BY <1>5
  <2> QED
    BY <1>5, <1>8, <2>1
<1>10. f = [m \in 0 .. n |-> f[m]] /\ f[0] = v
  BY <1>5, <1>8
<1> HIDE DEF f
<1>11. Follows(f, v, es, n)
  BY <1>9, <1>10 DEF Follows
<1> QED
  BY <1>11

LEMMA FoldUnique ==
  ASSUME NEW v, NEW es, NEW es2, NEW k \in Nat, NEW l \in Nat, k <= l,
         \A n \in 1 .. k : es[n] = es2[n],
         NEW f, Follows(f, v, es, k), NEW g, Follows(g, v, es2, l)
  PROVE  \A n \in 0 .. k : f[n] = g[n]
<1> DEFINE bad == {n \in 0 .. k : f[n] # g[n]}
<1>1. SUFFICES ASSUME bad # {} PROVE FALSE
  OBVIOUS
<1>2. bad \in SUBSET Nat
  OBVIOUS
<1>3. PICK n \in bad : \A m \in bad : n <= m
  BY <1>1, <1>2, LeastNumber
<1>4. n # 0
  BY DEF Follows
<1>5. n - 1 \in 0 .. k /\ n - 1 \notin bad /\ n \in 1 .. k /\ n \in 1 .. l
  BY <1>3, <1>4
<1>6. f[n - 1] = g[n - 1]
  BY <1>5
<1> QED
  BY <1>5, <1>6 DEF Follows

LEMMA FoldGives ==
  ASSUME NEW v, NEW es, NEW k \in Nat, Len(es) = k,
         NEW f, Follows(f, v, es, k)
  PROVE  ApplyEvents(v, es) = f[k]
<1> DEFINE IsFold(h) == h = [n \in 0 .. Len(es) |->
                               IF n = 0 THEN v ELSE Reduce(h[n - 1], es[n])]
           after == CHOOSE h : IsFold(h)
<1>1. ApplyEvents(v, es) = after[Len(es)]
  BY DEF ApplyEvents
<1>2. IsFold(f)
  <2>1. f = [n \in 0 .. k |-> f[n]]
        /\ f[0] = v /\ \A n \in 1 .. k : f[n] = Reduce(f[n - 1], es[n])
    BY DEF Follows
  <2>2. \A n \in 0 .. k : f[n] = IF n = 0 THEN v ELSE Reduce(f[n - 1], es[n])
    BY <2>1
  <2>3. [n \in 0 .. k |-> f[n]]
          = [n \in 0 .. Len(es) |-> IF n = 0 THEN v ELSE Reduce(f[n - 1], es[n])]
    BY <2>2
  <2> QED
    BY <2>1, <2>3
<1>3. IsFold(after)
  <2> HIDE DEF IsFold
  <2> QED
    BY <1>2, Zenon
<1> HIDE DEF after
<1>4. Follows(after, v, es, k)
  BY <1>3 DEF Follows
<1>5. after[k] = f[k]
  BY <1>4, FoldUnique
<1> QED
  BY <1>1, <1>5

LEMMA FoldOfNone == \A v : ApplyEvents(v, <<>>) = v
<1> SUFFICES ASSUME NEW v PROVE ApplyEvents(v, <<>>) = v
  OBVIOUS
<1>1. PICK f : Follows(f, v, <<>>, 0)
  BY FoldExists
<1>2. ApplyEvents(v, <<>>) = f[0]
  BY <1>1, FoldGives
<1> QED
  BY <1>1, <1>2 DEF Follows

LEMMA FoldOfOne == \A v, e : ApplyEvents(v, <<e>>) = Reduce(v, e)
<1> SUFFICES ASSUME NEW v, NEW e PROVE ApplyEvents(v, <<e>>) = Reduce(v, e)
  OBVIOUS
<1>1. PICK f : Follows(f, v, <<e>>, 1)
  BY FoldExists
<1>2. ApplyEvents(v, <<e>>) = f[1]
  BY <1>1, FoldGives
<1>3. f[0] = v /\ f[1] = Reduce(f[0], <<e>>[1])
  BY <1>1 DEF Follows
<1> QED
  BY <1>2, <1>3

\* Replaying what was appended to a stream goes on from what the stream gave before.
LEMMA FoldGoesOn ==
  ASSUME NEW S, NEW s \in Seq(S), NEW t \in Seq(S), NEW v
  PROVE  ApplyEvents(v, s \o t) = ApplyEvents(ApplyEvents(v, s), t)
<1> DEFINE a == Len(s)
           b == Len(t)
<1>1. a \in Nat /\ b \in Nat /\ Len(s \o t) = a + b
  OBVIOUS
<1>2. PICK f : Follows(f, v, s, a)
  BY <1>1, FoldExists
<1>3. ApplyEvents(v, s) = f[a]
  BY <1>1, <1>2, FoldGives
<1>4. PICK g : Follows(g, f[a], t, b)
  BY <1>1, FoldExists
<1>5. ApplyEvents(f[a], t) = g[b]
  BY <1>1, <1>4, FoldGives
<1> DEFINE h == [k \in 0 .. a + b |-> IF k <= a THEN f[k] ELSE g[k - a]]
<1>6. \A k \in 1 .. a : (s \o t)[k] = s[k]
  BY <1>1
<1>7. \A k \in a + 1 .. a + b : (s \o t)[k] = t[k - a] /\ k - a \in 1 .. b
  BY <1>1
<1>8. f[0] = v /\ (\A k \in 1 .. a : f[k] = Reduce(f[k - 1], s[k]))
      /\ g[0] = f[a] /\ (\A k \in 1 .. b : g[k] = Reduce(g[k - 1], t[k]))
  BY <1>2, <1>4 DEF Follows
<1> HIDE DEF a, b
<1>9. /\ h = [k \in 0 .. a + b |-> h[k]]
      /\ \A k \in 0 .. a : h[k] = f[k]
      /\ \A k \in 0 .. b : h[a + k] = g[k]
  <2>1. \A k \in 0 .. a : h[k] = f[k]
    BY <1>1
  <2>2. ASSUME NEW k \in 0 .. b PROVE h[a + k] = g[k]
    <3>1. a + k \in 0 .. a + b /\ a + k - a = k
      BY <1>1
    <3>2. CASE k = 0
      BY <1>1, <1>8, <2>1, <3>2
    <3>3. CASE k # 0
      <4>1. ~(a + k <= a)
        BY <1>1, <3>3
      <4>2. h[a + k] = g[a + k - a]
        BY <1>1, <3>1, <4>1
      <4> QED
        BY <3>1, <4>2
    <3> QED
      BY <3>2, <3>3
  <2> QED
    BY <2>1, <2>2
<1> HIDE DEF h
<1>10. \A k \in 1 .. a + b : h[k] = Reduce(h[k - 1], (s \o t)[k])
  <2> SUFFICES ASSUME NEW k \in 1 .. a + b PROVE h[k] = Reduce(h[k - 1], (s \o t)[k])
    OBVIOUS
  <2>1. CASE k <= a
    <3>1. k \in 1 .. a /\ k \in 0 .. a /\ k - 1 \in 0 .. a
      BY <1>1, <2>1
    <3>2. h[k] = f[k] /\ h[k - 1] = f[k - 1] /\ (s \o t)[k] = s[k]
      BY <1>6, <1>9, <3>1
    <3> QED
      BY <1>8, <3>1, <3>2
  <2>2. CASE k > a
    <3> DEFINE l == k - a
    <3>1. k \in a + 1 .. a + b /\ l \in 1 .. b /\ l \in 0 .. b /\ l - 1 \in 0 .. b
          /\ k = a + l /\ k - 1 = a + (l - 1)
      BY <1>1, <2>2
    <3>2. (s \o t)[k] = t[l]
      BY <1>7, <3>1
    <3> HIDE DEF l
    <3>3. h[k] = g[l] /\ h[k - 1] = g[l - 1]
      BY <1>9, <3>1
    <3>4. g[l] = Reduce(g[l - 1], t[l])
      BY <1>8, <3>1
    <3> QED
      BY <3>2, <3>3, <3>4
  <2> QED
    BY <1>1, <2>1, <2>2
<1>11. Follows(h, v, s \o t, a + b)
  <2>1. h[0] = v
    <3>1. 0 \in 0 .. a
      BY <1>1
    <3> QED
      BY <1>8, <1>9, <3>1
  <2>2. h = [k \in 0 .. a + b |-> h[k]]
    BY <1>9
  <2> QED
    <3>1. \A F, w, E, K :
            F = [k \in 0 .. K |-> F[k]] /\ F[0] = w
              /\ (\A k \in 1 .. K : F[k] = Reduce(F[k - 1], E[k])) => Follows(F, w, E, K)
      BY DEF Follows
    <3> QED
      BY <1>10, <2>1, <2>2, <3>1
<1>12. ApplyEvents(v, s \o t) = h[a + b]
  <2> DEFINE total == a + b
             both == s \o t
  <2>1. total \in Nat /\ Len(both) = total /\ Follows(h, v, both, total)
    BY <1>1, <1>11
  <2> HIDE DEF total, both
  <2>2. ApplyEvents(v, both) = h[total]
    BY <2>1, FoldGives
  <2> QED
    BY <2>2 DEF total, both
<1>13. h[a + b] = g[b]
  <2>1. b \in 0 .. b
    BY <1>1
  <2> QED
    BY <1>9, <2>1
<1> QED
  BY <1>3, <1>5, <1>12, <1>13

-----------------------------------------------------------------------------
(* The invariant of every behaviour.                                        *)

VendorEvents ==
  [type : {"VendorCreated"}, name : Names, share : BasisPoints, category : Categories \cup {Null}]
    \cup [type : {"VendorRenamed"}, name : Names]
    \cup [type : {"VendorItemAdded", "VendorItemUpdated"}, item : Items, data : ItemData]
    \cup [type : {"VendorItemRemoved"}, item : Items]

Versions == [version : Nat, snapshot : Snapshots \cup {Null}]

Listings == [filing : Filings, data : ItemData, title : [Categories -> Titles]]

TablesOK ==
  /\ clover \in [Items -> [filing : Filings, data : ItemData] \cup {Null}]
  /\ title \in [Categories -> Titles]
  /\ inbox \in Seq(Messages)
  /\ vendors \in [Ids -> VendorRows \cup {Null}]
  /\ holder \in [Items -> Ids \cup {Null}]
  /\ stored \in [Items -> ItemData \cup {Null}]
  /\ stream \in [Ids -> Seq(VendorEvents)]

SagasOK ==
  /\ pc \in [Drains -> {"idle", "fetch", "resolve", "find", "remove", "row", "items", "commit"}]
  /\ msg \in [Drains -> Nat]
  /\ attempt \in [Drains -> Nat]
  /\ fetched \in [Drains -> Listings \cup {Null}]
  /\ rest \in [Drains -> Seq(Categories)]
  /\ base \in [Drains -> Nat]
  /\ vendor \in [Drains -> Versions]
  /\ owner \in [Drains -> Ids \cup {Null}]
  /\ events \in [Drains -> Seq(VendorEvents)]

\* Where a saga stands says what it works on.
Stands(d) ==
  /\ pc[d] = "idle" => msg[d] = 0
  /\ pc[d] # "idle" => msg[d] \in 1 .. Len(inbox) /\ attempt[d] \in 1 .. MaxAttempts
  /\ pc[d] \in {"fetch", "resolve"} => inbox[msg[d]].kind = "upsert"
  /\ pc[d] \in {"find", "remove"} => inbox[msg[d]].kind = "delete"
  /\ pc[d] = "resolve" =>
       /\ fetched[d] \in Listings
       /\ rest[d] # <<>> => fetched[d].filing # <<>>
  /\ pc[d] = "remove" => owner[d] \in Ids /\ vendors[owner[d]] # Null
  /\ pc[d] \in {"idle", "fetch", "resolve", "find", "remove"} => events[d] = <<>>
  /\ pc[d] \in {"row", "items"} => events[d] # <<>>

\* A message is given up at its last attempt.
PendingIsTried ==
  \A k \in DOMAIN inbox : inbox[k].status = "pending" => inbox[k].attempts < MaxAttempts

VendorTypes == TablesOK /\ SagasOK /\ (\A d \in Drains : Stands(d)) /\ PendingIsTried

\* A vendor's row, its items and its stream come into being together.
RowsAgree ==
  /\ \A v \in Ids :
       /\ vendors[v] = Null => stream[v] = <<>> /\ HeldBy(v) = {}
       /\ vendors[v] # Null => vendors[v].version = Len(stream[v])
  /\ \A i \in Items : holder[i] = Null <=> stored[i] = Null

\* Nobody has saved the saga's vendor since it was loaded.
IsFresh(d) == Len(stream[owner[d]]) = base[d]

\* What a saga that has something to save will save.
Saves(d) ==
  events[d] # <<>> =>
    /\ owner[d] \in Ids
    /\ vendor[d].snapshot \in Snapshots
    /\ vendor[d].version = base[d] + Len(events[d])
    /\ base[d] <= Len(stream[owner[d]])
    /\ IsFresh(d) /\ base[d] = 0 => vendor[d] = ApplyEvents(Pristine, events[d])
    /\ IsFresh(d) /\ base[d] # 0 =>
         /\ vendor[d].snapshot.category = vendors[owner[d]].category
         /\ ~Twinned(owner[d]) => vendor[d] = ApplyEvents(StoredVendor(owner[d]), events[d])

Writes(d) == pc[d] \in {"items", "commit"} /\ events[d] # <<>>

\* Rows are locked from SaveRow on, items from SaveItems on.
LocksApart ==
  /\ \A d, e \in Drains : d # e /\ Writes(d) /\ Writes(e) => owner[d] # owner[e]
  /\ \A d \in Drains : pc[d] = "commit" /\ events[d] # <<>> => HeldElsewhere(d) = {}
  /\ \A d, e \in Drains :
       d # e /\ pc[d] = "commit" /\ pc[e] = "commit" /\ events[d] # <<>> /\ events[e] # <<>>
         => NewItems(d) \cap NewItems(e) = {}

StreamInv ==
  VendorTypes /\ RowsAgree /\ (\A d \in Drains : Saves(d)) /\ LocksApart /\ StreamGivesVendor

\* A saga takes from its vendor only an item that is deleted, and an upsert leaves its
\* own item there.
KeepsItems(d) ==
  /\ events[d] # <<>> =>
       /\ IsFresh(d) => \A i \in HeldBy(owner[d]) \ NewItems(d) : Deleted(i)
       /\ inbox[msg[d]].kind = "upsert" => Item(d) \in NewItems(d)
  /\ pc[d] = "commit" /\ events[d] = <<>> /\ inbox[msg[d]].kind = "upsert" =>
       holder[Item(d)] # Null \/ Deleted(Item(d))

DropInv == StreamInv /\ (\A d \in Drains : KeepsItems(d)) /\ NothingDropped

-----------------------------------------------------------------------------
(* The invariant of the behaviours in which drains do not overlap.          *)

OneByOne ==
  /\ \A d, e \in Drains : pc[d] # "idle" /\ pc[e] # "idle" => d = e
  /\ \A d \in Drains : pc[d] # "idle" => inbox[msg[d]].status = "pending"

NoTwins == \A v \in Ids : ~Twinned(v)

\* A vendor is created for a category that has none.
CreatesOne(d) ==
  /\ pc[d] = "resolve" /\ rest[d] # <<>> /\ rest[d] # fetched[d].filing =>
       LinkedTo(Head(fetched[d].filing)) = {}
  /\ events[d] # <<>> /\ base[d] = 0 =>
       vendor[d].snapshot.category = Null \/ LinkedTo(vendor[d].snapshot.category) = {}

\* Clover's item is the saga's, or another message will tell.
Tells(d, data) ==
  \/ clover[Item(d)] # Null /\ clover[Item(d)].data = data
  \/ \E k \in DOMAIN inbox : k # msg[d] /\ inbox[k].item = Item(d) /\ inbox[k].status = "pending"

AppliesCurrent(d) ==
  /\ pc[d] = "resolve" => Tells(d, fetched[d].data)
  /\ pc[d] = "remove" => holder[Item(d)] = owner[d]
  /\ events[d] # <<>> =>
       /\ \A i \in Items \ {Item(d)} :
            vendor[d].snapshot.items[i] = IF holder[i] = owner[d] THEN stored[i] ELSE Null
       /\ IF inbox[msg[d]].kind = "upsert"
            THEN /\ vendor[d].snapshot.items[Item(d)] # Null
                 /\ Tells(d, vendor[d].snapshot.items[Item(d)])
            ELSE vendor[d].snapshot.items[Item(d)] = Null /\ holder[Item(d)] = owner[d]
  /\ pc[d] = "commit" /\ events[d] = <<>> =>
       IF inbox[msg[d]].kind = "upsert"
         THEN Tells(d, stored[Item(d)])
         ELSE stored[Item(d)] = Null

\* Clover's news are in the inbox.
CloverIsHeard ==
  /\ \A i \in Items : Deleted(i) => clover[i] = Null
  /\ \A i \in Items : \E k \in DOMAIN inbox : inbox[k].item = i

\* An item whose messages are all processed is stored as Clover has it.
ProcessedIsCurrent ==
  \A i \in Items :
    (\A k \in DOMAIN inbox : inbox[k].item = i => inbox[k].status = "processed")
      => stored[i] = (IF clover[i] = Null THEN Null ELSE clover[i].data)

SerialInv ==
  /\ CloverIsHeard
  /\ ~overlap =>
       /\ OneByOne /\ NoTwins /\ ProcessedIsCurrent
       /\ \A d \in Drains : CreatesOne(d) /\ AppliesCurrent(d)
-----------------------------------------------------------------------------
(* What the aggregate's events do to a version of a vendor.                 *)

\* Applied to `before`, the events lead to `after`: as many versions on, in the same
\* category, with these items.
LeadsTo(before, emitted, after, items) ==
  /\ emitted \in Seq(VendorEvents)
  /\ after = ApplyEvents(before, emitted)
  /\ after \in [version : Nat, snapshot : Snapshots]
  /\ after.version = before.version + Len(emitted)
  /\ after.snapshot.category = before.snapshot.category
  /\ after.snapshot.items = items

LEMMA SnapshotFields ==
  ASSUME NEW s \in Snapshots
  PROVE  /\ s = [name |-> s.name, status |-> s.status, share |-> s.share,
                 category |-> s.category, items |-> s.items]
         /\ s.name \in Names /\ s.status \in {"active", "inactive"} /\ s.share \in BasisPoints
         /\ s.category \in Categories \cup {Null} /\ s.items \in [Items -> ItemData \cup {Null}]
BY DEF Snapshots

LEMMA SnapshotRenamed ==
  ASSUME NEW s \in Snapshots, NEW t \in Names
  PROVE  /\ [s EXCEPT !.name = t] \in Snapshots
         /\ [s EXCEPT !.name = t].category = s.category
         /\ [s EXCEPT !.name = t].items = s.items
BY DEF Snapshots

LEMMA SnapshotRelisted ==
  ASSUME NEW s \in Snapshots, NEW i \in Items, NEW x \in ItemData \cup {Null}
  PROVE  /\ [s EXCEPT !.items[i] = x] \in Snapshots
         /\ [s EXCEPT !.items[i] = x].category = s.category
         /\ [s EXCEPT !.items[i] = x].items = [s.items EXCEPT ![i] = x]
<1> DEFINE J == [s.items EXCEPT ![i] = x]
<1>1. J \in [Items -> ItemData \cup {Null}] /\ [s EXCEPT !.items[i] = x] = [s EXCEPT !.items = J]
  BY DEF Snapshots
<1> HIDE DEF J
<1>2. [s EXCEPT !.items = J] \in Snapshots /\ [s EXCEPT !.items = J].category = s.category
      /\ [s EXCEPT !.items = J].items = J
  BY <1>1 DEF Snapshots
<1> QED
  BY <1>1, <1>2 DEF J

LEMMA NothingLeads ==
  ASSUME NEW before \in [version : Nat, snapshot : Snapshots]
  PROVE  LeadsTo(before, <<>>, before, before.snapshot.items)
BY FoldOfNone DEF LeadsTo

\* One event that changes the name or an item.
LEMMA EventLeads ==
  ASSUME NEW before \in [version : Nat, snapshot : Snapshots], NEW event \in VendorEvents,
         NEW s \in Snapshots, Handle(before.snapshot, event) = s,
         s.category = before.snapshot.category
  PROVE  \E after : LeadsTo(before, <<event>>, after, s.items)
<1> DEFINE after == [version |-> before.version + 1, snapshot |-> s]
<1>1. ApplyEvents(before, <<event>>) = after
  BY FoldOfOne DEF Reduce
<1>2. after \in [version : Nat, snapshot : Snapshots] /\ <<event>> \in Seq(VendorEvents)
      /\ Len(<<event>>) = 1
  OBVIOUS
<1>3. LeadsTo(before, <<event>>, after, s.items)
  BY <1>1, <1>2 DEF LeadsTo
<1> QED
  BY <1>3

LEMMA NameLeads ==
  ASSUME NEW before \in [version : Nat, snapshot : Snapshots], NEW t \in Names \cup {Blank}
  PROVE  \E after : LeadsTo(before, SyncCloverCategoryName(before.snapshot, t), after,
                            before.snapshot.items)
<1> DEFINE s == before.snapshot
<1>1. s \in Snapshots
  OBVIOUS
<1>2. CASE t \in {Blank, s.name}
  <2>1. SyncCloverCategoryName(s, t) = <<>>
    BY <1>2 DEF SyncCloverCategoryName
  <2> QED
    BY <2>1, NothingLeads
<1>3. CASE t \notin {Blank, s.name}
  <2> DEFINE u == [s EXCEPT !.name = t]
  <2>1. SyncCloverCategoryName(s, t) = <<Renamed(t)>>
    BY <1>3 DEF SyncCloverCategoryName
  <2>2. Renamed(t) \in VendorEvents
    BY <1>3 DEF VendorEvents, Renamed
  <2>3. u \in Snapshots /\ u.category = s.category /\ u.items = s.items
    <3>1. t \in Names
      BY <1>3
    <3> QED
      BY <1>1, <3>1, SnapshotRenamed
  <2>4. Handle(s, Renamed(t)) = u
    BY DEF Handle, Renamed
  <2> HIDE DEF u
  <2> QED
    BY <2>1, <2>2, <2>3, <2>4, EventLeads
<1> QED
  BY <1>2, <1>3

LEMMA ItemLeads ==
  ASSUME NEW before \in [version : Nat, snapshot : Snapshots], NEW i \in Items,
         NEW x \in ItemData
  PROVE  \E after : LeadsTo(before, ApplyCloverItem(before.snapshot, i, x), after,
                            [before.snapshot.items EXCEPT ![i] = x])
<1> DEFINE s == before.snapshot
           u == [s EXCEPT !.items[i] = x]
<1>1. s \in Snapshots /\ s.items \in [Items -> ItemData \cup {Null}]
  BY SnapshotFields
<1>2. u \in Snapshots /\ u.category = s.category /\ u.items = [s.items EXCEPT ![i] = x]
  BY <1>1, SnapshotRelisted
<1>3. CASE s.items[i] = Null
  <2>1. ApplyCloverItem(s, i, x) = <<ItemAdded(i, x)>>
    <3>1. Null # x
      BY VendorAssumption
    <3>2. s.items[i] # x
      BY <1>3, <3>1
    <3> QED
      BY <1>3, <3>2 DEF ApplyCloverItem
  <2>2. ItemAdded(i, x) \in VendorEvents
    BY DEF VendorEvents, ItemAdded
  <2>3. Handle(s, ItemAdded(i, x)) = u
    BY DEF Handle, ItemAdded
  <2> HIDE DEF u
  <2> QED
    BY <1>2, <2>1, <2>2, <2>3, EventLeads
<1>4. CASE s.items[i] # Null /\ s.items[i] = x
  <2>1. ApplyCloverItem(s, i, x) = <<>>
    BY <1>4 DEF ApplyCloverItem
  <2>2. [s.items EXCEPT ![i] = x] = s.items
    BY <1>1, <1>4
  <2> QED
    BY <2>1, <2>2, NothingLeads
<1>5. CASE s.items[i] # Null /\ s.items[i] # x
  <2>1. ApplyCloverItem(s, i, x) = <<ItemUpdated(i, x)>>
    BY <1>5 DEF ApplyCloverItem
  <2>2. ItemUpdated(i, x) \in VendorEvents
    BY DEF VendorEvents, ItemUpdated
  <2>3. Handle(s, ItemUpdated(i, x)) = u
    BY <1>1, <1>5 DEF Handle, ItemUpdated
  <2> HIDE DEF u
  <2> QED
    BY <1>2, <2>1, <2>2, <2>3, EventLeads
<1> QED
  BY <1>3, <1>4, <1>5

LEMMA RemovalLeads ==
  ASSUME NEW before \in [version : Nat, snapshot : Snapshots], NEW i \in Items
  PROVE  \E after : LeadsTo(before, RemoveCloverItem(before.snapshot, i), after,
                            [before.snapshot.items EXCEPT ![i] = Null])
<1> DEFINE s == before.snapshot
           u == [s EXCEPT !.items[i] = Null]
<1>1. s \in Snapshots /\ s.items \in [Items -> ItemData \cup {Null}]
  BY SnapshotFields
<1>2. u \in Snapshots /\ u.category = s.category /\ u.items = [s.items EXCEPT ![i] = Null]
  BY <1>1, SnapshotRelisted
<1>3. CASE s.items[i] = Null
  <2>1. RemoveCloverItem(s, i) = <<>>
    BY <1>3 DEF RemoveCloverItem
  <2>2. [s.items EXCEPT ![i] = Null] = s.items
    BY <1>1, <1>3
  <2> QED
    BY <2>1, <2>2, NothingLeads
<1>4. CASE s.items[i] # Null
  <2>1. RemoveCloverItem(s, i) = <<ItemRemoved(i)>>
    BY <1>4 DEF RemoveCloverItem
  <2>2. ItemRemoved(i) \in VendorEvents
    BY DEF VendorEvents, ItemRemoved
  <2>3. Handle(s, ItemRemoved(i)) = u
    BY DEF Handle, ItemRemoved
  <2> HIDE DEF u
  <2> QED
    BY <1>2, <2>1, <2>2, <2>3, EventLeads
<1> QED
  BY <1>3, <1>4

\* One change after another.
LEMMA LeadsOn ==
  ASSUME NEW before \in [version : Nat, snapshot : Snapshots], NEW s, NEW t, NEW between, NEW after,
         NEW I, NEW J, LeadsTo(before, s, between, I), LeadsTo(between, t, after, J)
  PROVE  LeadsTo(before, s \o t, after, J)
<1>1. s \in Seq(VendorEvents) /\ t \in Seq(VendorEvents)
  BY DEF LeadsTo
<1>2. s \o t \in Seq(VendorEvents) /\ Len(s \o t) = Len(s) + Len(t) /\ Len(s) \in Nat /\ Len(t) \in Nat
  BY <1>1
<1>3. ApplyEvents(before, s \o t) = ApplyEvents(ApplyEvents(before, s), t)
  BY <1>1, FoldGoesOn
<1>4. between = ApplyEvents(before, s) /\ after = ApplyEvents(between, t)
  BY DEF LeadsTo
<1>5. /\ after \in [version : Nat, snapshot : Snapshots]
      /\ between \in [version : Nat, snapshot : Snapshots]
      /\ between.version = before.version + Len(s) /\ after.version = between.version + Len(t)
      /\ between.snapshot.category = before.snapshot.category
      /\ after.snapshot.category = between.snapshot.category
      /\ after.snapshot.items = J
  BY DEF LeadsTo
<1>6. before.version \in Nat /\ after.version = before.version + Len(s \o t)
  BY <1>2, <1>5
<1> QED
  BY <1>2, <1>3, <1>4, <1>5, <1>6 DEF LeadsTo

LEMMA Joined ==
  \A s, t \in Seq(VendorEvents) : s \o t \in Seq(VendorEvents) /\ Len(s \o t) = Len(s) + Len(t)
OBVIOUS

\* A vendor is created with its first item.
Creation(name, category, i, x) ==
  Create(name, Null, category)
    \o ApplyCloverItem(ApplyEvents(Pristine, Create(name, Null, category)).snapshot, i, x)

LEMMA CreationLeads ==
  ASSUME NEW name \in Names, NEW category \in Categories \cup {Null}, NEW i \in Items,
         NEW x \in ItemData, NEW emitted, emitted = Creation(name, category, i, x)
  PROVE  \E after \in [version : Nat, snapshot : Snapshots] :
           /\ emitted \in Seq(VendorEvents) /\ emitted # <<>>
           /\ after = ApplyEvents(Pristine, emitted)
           /\ after.version = Len(emitted)
           /\ after.snapshot.category = category
           /\ after.snapshot.items = [NoItems EXCEPT ![i] = x]
<1> DEFINE created == Create(name, Null, category)
           event == Created(name, DefaultShare, category)
           s == [name |-> name, status |-> "active", share |-> DefaultShare,
                 category |-> category, items |-> NoItems]
           between == [version |-> 1, snapshot |-> s]
           added == ApplyCloverItem(s, i, x)
<1>1. created = <<event>>
  BY DEF Create
<1> DefaultShare \in BasisPoints
  BY DEF DefaultShare, BasisPoints
<1>2. event \in VendorEvents /\ created \in Seq(VendorEvents) /\ Len(created) = 1
  BY <1>1 DEF VendorEvents, Created
<1>3. Handle(Null, event) = s
  BY DEF Handle, Created
<1>4. ApplyEvents(Pristine, created) = between
  BY <1>1, <1>3, FoldOfOne DEF Reduce, Pristine
<1>5. s \in Snapshots
  BY DEF Snapshots, NoItems
<1>6. between \in [version : Nat, snapshot : Snapshots] /\ between.snapshot = s
      /\ between.version = 1 /\ s.items = NoItems /\ s.category = category
  BY <1>5
<1> HIDE DEF created, event, s, between
<1>7. PICK after : LeadsTo(between, added, after, [NoItems EXCEPT ![i] = x])
  BY <1>6, ItemLeads
<1>8. added \in Seq(VendorEvents) /\ Len(added) \in Nat /\ after = ApplyEvents(between, added)
      /\ after \in [version : Nat, snapshot : Snapshots] /\ after.version = 1 + Len(added)
      /\ after.snapshot.category = category /\ after.snapshot.items = [NoItems EXCEPT ![i] = x]
  BY <1>6, <1>7 DEF LeadsTo
<1> HIDE DEF added
<1>9. created \o added \in Seq(VendorEvents) /\ Len(created \o added) = 1 + Len(added)
      /\ created \o added # <<>>
  <2>1. created \o added \in Seq(VendorEvents) /\ Len(created \o added) = 1 + Len(added)
    <3>1. Len(created \o added) = Len(created) + Len(added) /\ created \o added \in Seq(VendorEvents)
      BY <1>2, <1>8, Joined
    <3> QED
      BY <1>2, <3>1
  <2>2. Len(<<>>) = 0
    OBVIOUS
  <2> QED
    BY <1>8, <2>1, <2>2
<1>10. ApplyEvents(Pristine, created \o added) = after
  BY <1>2, <1>4, <1>8, FoldGoesOn
<1>11. ApplyCloverItem(ApplyEvents(Pristine, created).snapshot, i, x) = added
  BY <1>4, <1>6 DEF added
<1>12. emitted = created \o added
  BY <1>11 DEF created, Creation
<1> QED
  BY <1>8, <1>9, <1>10, <1>12
-----------------------------------------------------------------------------
(* Type correctness.                                                        *)

LEMMA Sequenced ==
  ASSUME NEW S, IsFiniteSet(S)
  PROVE  /\ SetToSeq(S) \in Seq(S)
         /\ \A x \in S : \E k \in DOMAIN SetToSeq(S) : SetToSeq(S)[k] = x
<1> DEFINE c == Cardinality(S)
           s == SetToSeq(S)
<1>1. c \in Nat /\ ExistsBijection(1 .. c, S)
  BY FS_CardinalityType
<1>2. \E f \in [1 .. c -> S] : IsInjective(f)
  BY <1>1 DEF ExistsBijection, Bijection, Injection, IsInjective
<1>3. s \in [1 .. c -> S] /\ IsInjective(s)
  BY <1>2 DEF SetToSeq
<1> HIDE DEF s
<1>4. s \in Injection(1 .. c, S)
  BY <1>3 DEF Injection, IsInjective
<1>5. IsFiniteSet(1 .. c) /\ Cardinality(1 .. c) = c
  BY <1>1, FS_Interval
<1>6. s \in Surjection(1 .. c, S)
  BY <1>4, <1>5, FS_Injection
<1>7. \A x \in S : \E k \in 1 .. c : s[k] = x
  BY <1>6 DEF Surjection
<1>8. DOMAIN s = 1 .. c /\ s \in Seq(S)
  BY <1>1, <1>3
<1> QED
  BY <1>7, <1>8 DEF s

\* The first import's messages.
LEMMA FirstMessages ==
  ASSUME Init
  PROVE  /\ inbox \in Seq({Message("upsert", i) : i \in Items})
         /\ \A i \in Items : \E k \in DOMAIN inbox : inbox[k] = Message("upsert", i)
<1> DEFINE S == {Message("upsert", i) : i \in Items}
           f == [i \in Items |-> Message("upsert", i)]
<1>1. f \in Surjection(Items, S)
  BY DEF Surjection
<1>2. IsFiniteSet(Items)
  BY VendorAssumption
<1>3. IsFiniteSet(S)
  BY <1>1, <1>2, FS_Surjection
<1>4. inbox = SetToSeq(S)
  BY DEF Init
<1> HIDE DEF S
<1>5. inbox \in Seq(S) /\ \A x \in S : \E k \in DOMAIN inbox : inbox[k] = x
  BY <1>3, <1>4, Sequenced
<1> QED
  BY <1>5 DEF S

LEMMA MessageTyped ==
  \A i \in Items, kind \in {"upsert", "delete"} :
    /\ Message(kind, i) \in Messages
    /\ Message(kind, i).kind = kind /\ Message(kind, i).item = i
    /\ Message(kind, i).status = "pending" /\ Message(kind, i).attempts = 0
BY VendorAssumption DEF Messages, Message

LEMMA InitTyped == Init => VendorTypes
<1> SUFFICES ASSUME Init PROVE VendorTypes
  OBVIOUS
<1>1. inbox \in Seq(Messages) /\ \A k \in DOMAIN inbox : inbox[k].attempts = 0
  BY FirstMessages, MessageTyped
<1>2. TablesOK
  <2>1. clover \in [Items -> [filing : Filings, data : ItemData] \cup {Null}]
    BY DEF Init
  <2>2. title \in [Categories -> Titles]
    BY VendorAssumption DEF Init
  <2>3. \A v \in Ids : <<>> \in Seq(VendorEvents)
    OBVIOUS
  <2> QED
    BY <1>1, <2>1, <2>2, <2>3 DEF Init, TablesOK
<1>3. SagasOK
  BY DEF Init, SagasOK, Pristine, Versions
<1>4. \A d \in Drains : Stands(d)
  BY DEF Init, Stands
<1>5. PendingIsTried
  BY <1>1, VendorAssumption DEF PendingIsTried
<1> QED
  BY <1>2, <1>3, <1>4, <1>5 DEF VendorTypes

LEMMA TypesGive ==
  VendorTypes => VendorTypeOK
<1> SUFFICES ASSUME VendorTypes PROVE VendorTypeOK
  OBVIOUS
<1>1. TablesOK /\ SagasOK /\ \A d \in Drains : Stands(d)
  BY DEF VendorTypes
<1>2. msg \in [Drains -> 0 .. Len(inbox)]
  <2>1. Len(inbox) \in Nat
    BY <1>1 DEF TablesOK
  <2> QED
    BY <1>1, <2>1 DEF SagasOK, Stands
<1>3. \A d \in Drains : pc[d] # "idle" => msg[d] # 0 /\ attempt[d] \in 1 .. MaxAttempts
  BY <1>1 DEF Stands
<1> QED
  BY <1>1, <1>2, <1>3 DEF VendorTypeOK, TablesOK, SagasOK

\* What Clover announces is appended.
LEMMA Announced ==
  ASSUME VendorTypes, NEW kind \in {"upsert", "delete"}, NEW i \in Items, Announce(kind, i)
  PROVE  /\ inbox' \in Seq(Messages) /\ Len(inbox') = Len(inbox) + 1
         /\ DOMAIN inbox = 1 .. Len(inbox) /\ DOMAIN inbox' = 1 .. Len(inbox) + 1
         /\ \A k \in DOMAIN inbox : inbox'[k] = inbox[k]
         /\ inbox'[Len(inbox) + 1] = Message(kind, i)
BY MessageTyped DEF Announce, VendorTypes, TablesOK

LEMMA MerchantTyped ==
  ASSUME VendorTypes, Merchant
  PROVE  VendorTypes'
<1>1. TablesOK /\ SagasOK /\ (\A d \in Drains : Stands(d)) /\ PendingIsTried
  BY DEF VendorTypes
<1>2. ASSUME NEW kind \in {"upsert", "delete"}, NEW i \in Items, Announce(kind, i),
             clover' \in [Items -> [filing : Filings, data : ItemData] \cup {Null}]
      PROVE  VendorTypes'
  <2>1. TablesOK'
    BY <1>1, <1>2, Announced DEF TablesOK, Announce
  <2>2. SagasOK'
    BY <1>1, <1>2 DEF SagasOK, Announce, saga
  <2>3. \A d \in Drains : Stands(d)'
    <3> SUFFICES ASSUME NEW d \in Drains PROVE Stands(d)'
      OBVIOUS
    <3>1. Stands(d)
      BY <1>1
    <3>2. pc'[d] # "idle" => msg'[d] \in 1 .. Len(inbox') /\ inbox'[msg[d]] = inbox[msg[d]]
      BY <1>1, <1>2, <3>1, Announced DEF Stands, Announce, saga, SagasOK
    <3> QED
      BY <1>2, <3>1, <3>2 DEF Stands, Announce, saga
  <2>4. PendingIsTried'
    <3>1. 0 < MaxAttempts
      BY VendorAssumption
    <3>2. ASSUME NEW k \in DOMAIN inbox', inbox'[k].status = "pending"
          PROVE  inbox'[k].attempts < MaxAttempts
      <4>1. CASE k \in DOMAIN inbox
        BY <1>1, <1>2, <3>2, <4>1, Announced DEF PendingIsTried
      <4>2. CASE k \notin DOMAIN inbox
        <5>1. k = Len(inbox) + 1
          BY <1>1, <1>2, <4>2, Announced DEF TablesOK
        <5> QED
          BY <1>2, <3>1, <5>1, Announced, MessageTyped
      <4> QED
        BY <4>1, <4>2
    <3> QED
      BY <3>2 DEF PendingIsTried
  <2> QED
    BY <2>1, <2>2, <2>3, <2>4 DEF VendorTypes
<1>3. ASSUME NEW i \in Items, NEW filing \in Filings, NEW data \in ItemData, EditItem(i, filing, data)
      PROVE  VendorTypes'
  BY <1>1, <1>2, <1>3 DEF EditItem, TablesOK
<1>4. ASSUME NEW i \in Items, DeleteItem(i)
      PROVE  VendorTypes'
  BY <1>1, <1>2, <1>4 DEF DeleteItem, TablesOK
<1>5. ASSUME NEW c \in Categories, NEW t \in Titles, RenameCategory(c, t)
      PROVE  VendorTypes'
  <2>1. TablesOK'
    BY <1>1, <1>5 DEF TablesOK, RenameCategory, tables
  <2>2. SagasOK'
    BY <1>1, <1>5 DEF SagasOK, RenameCategory, saga
  <2>3. \A d \in Drains : Stands(d)'
    BY <1>1, <1>5 DEF Stands, RenameCategory, saga, tables
  <2>4. PendingIsTried'
    BY <1>1, <1>5 DEF PendingIsTried, RenameCategory, tables
  <2> QED
    BY <2>1, <2>2, <2>3, <2>4 DEF VendorTypes
<1> QED
  BY <1>3, <1>4, <1>5 DEF Merchant

-----------------------------------------------------------------------------
\* A message's row is changed: its place, its item and its kind stay.
LEMMA Remarked ==
  ASSUME VendorTypes, NEW d \in Drains, pc[d] # "idle",
         NEW m \in Messages, m.item = Item(d), m.kind = inbox[msg[d]].kind,
         inbox' = [inbox EXCEPT ![msg[d]] = m],
         m.status = "pending" => m.attempts < MaxAttempts
  PROVE  /\ inbox' \in Seq(Messages) /\ Len(inbox') = Len(inbox) /\ DOMAIN inbox' = DOMAIN inbox
         /\ msg[d] \in DOMAIN inbox /\ inbox'[msg[d]] = m
         /\ \A k \in DOMAIN inbox :
              /\ k # msg[d] => inbox'[k] = inbox[k]
              /\ inbox'[k].item = inbox[k].item /\ inbox'[k].kind = inbox[k].kind
         /\ PendingIsTried'
<1>1. inbox \in Seq(Messages) /\ Stands(d) /\ PendingIsTried
  BY DEF VendorTypes, TablesOK
<1>2. msg[d] \in DOMAIN inbox
  BY <1>1 DEF Stands
<1>3. inbox' \in Seq(Messages) /\ Len(inbox') = Len(inbox) /\ DOMAIN inbox' = DOMAIN inbox
  BY <1>1, <1>2, ExceptSeq
<1>4. inbox'[msg[d]] = m /\ \A k \in DOMAIN inbox : k # msg[d] => inbox'[k] = inbox[k]
  BY <1>1, <1>2
<1>5. PendingIsTried'
  BY <1>1, <1>2, <1>3, <1>4 DEF PendingIsTried
<1> QED
  BY <1>2, <1>3, <1>4, <1>5 DEF Item

LEMMA MessageFields ==
  ASSUME NEW m \in Messages
  PROVE  /\ m = [kind |-> m.kind, item |-> m.item, status |-> m.status,
                 attempts |-> m.attempts, errors |-> m.errors]
         /\ m.kind \in {"upsert", "delete"} /\ m.item \in Items
         /\ m.status \in {"pending", "processed", "dead"}
         /\ m.attempts \in 0 .. MaxAttempts /\ m.errors \subseteq 1 .. MaxAttempts
BY DEF Messages

\* What a saga does to its message: nothing, or it ends with this status.
Marks(d, statuses) ==
  /\ inbox' \in Seq(Messages) /\ Len(inbox') = Len(inbox) /\ DOMAIN inbox' = DOMAIN inbox
  /\ msg[d] \in DOMAIN inbox /\ inbox'[msg[d]].status \in statuses
  /\ \A k \in DOMAIN inbox :
       /\ k # msg[d] => inbox'[k] = inbox[k]
       /\ inbox'[k].item = inbox[k].item /\ inbox'[k].kind = inbox[k].kind
  /\ PendingIsTried'

LEMMA EntryMarked ==
  ASSUME NEW S, NEW s \in Seq(S), NEW k \in DOMAIN s, NEW status, NEW a
  PROVE  [s EXCEPT ![k].status = status, ![k].attempts = a]
           = [s EXCEPT ![k] = [s[k] EXCEPT !.status = status, !.attempts = a]]
OBVIOUS

LEMMA EntryFailed ==
  ASSUME NEW S, NEW s \in Seq(S), NEW k \in DOMAIN s, NEW status, NEW a
  PROVE  [s EXCEPT ![k].errors = @ \cup {a}, ![k].attempts = a, ![k].status = status]
           = [s EXCEPT ![k] = [s[k] EXCEPT !.errors = s[k].errors \cup {a}, !.attempts = a,
                                           !.status = status]]
OBVIOUS

LEMMA CommitMarks ==
  ASSUME VendorTypes, NEW d \in Drains, Commit(d)
  PROVE  Marks(d, {"processed"})
<1>1. inbox \in Seq(Messages) /\ Stands(d) /\ pc[d] = "commit" /\ attempt[d] \in 1 .. MaxAttempts
  BY DEF VendorTypes, TablesOK, Commit, Stands
<1>2. msg[d] \in DOMAIN inbox /\ inbox[msg[d]] \in Messages /\ DOMAIN inbox = 1 .. Len(inbox)
  BY <1>1 DEF Stands
<1> DEFINE n == inbox[msg[d]]
           m == [n EXCEPT !.status = "processed", !.attempts = attempt[d]]
<1>3. attempt[d] \in 0 .. MaxAttempts
  BY <1>1, VendorAssumption
<1>4. m \in Messages /\ m.item = Item(d) /\ m.kind = inbox[msg[d]].kind /\ m.status = "processed"
  <2>1. n \in Messages /\ n.item = Item(d) /\ "processed" \in {"pending", "processed", "dead"}
    BY <1>2 DEF Item
  <2>2. m \in Messages /\ m.item = n.item /\ m.kind = n.kind /\ m.status = "processed"
    <3> HIDE DEF n
    <3> QED
      BY <1>3, <2>1 DEF Messages
  <2> QED
    BY <2>1, <2>2
<1>5. inbox' = [inbox EXCEPT ![msg[d]] = m]
  <2>1. inbox' = [inbox EXCEPT ![msg[d]].status = "processed", ![msg[d]].attempts = attempt[d]]
    BY DEF Commit
  <2> QED
    BY <1>1, <1>2, <2>1, EntryMarked
<1> HIDE DEF m
<1> QED
  BY <1>1, <1>4, <1>5, Remarked DEF Marks

LEMMA FailureMarks ==
  ASSUME VendorTypes, NEW d \in Drains, pc[d] # "idle", RecordFailure(d)
  PROVE  inbox' = inbox \/ Marks(d, {"pending", "dead"})
<1>1. inbox \in Seq(Messages) /\ Stands(d) /\ attempt[d] \in 1 .. MaxAttempts
  BY DEF VendorTypes, TablesOK, Stands
<1>2. msg[d] \in DOMAIN inbox /\ inbox[msg[d]] \in Messages /\ DOMAIN inbox = 1 .. Len(inbox)
  BY <1>1 DEF Stands
<1>3. SUFFICES ASSUME attempt[d] \notin inbox[msg[d]].errors
               PROVE  Marks(d, {"pending", "dead"})
  BY DEF RecordFailure
<1> DEFINE n == inbox[msg[d]]
           E == n.errors \cup {attempt[d]}
           to == IF attempt[d] >= MaxAttempts THEN "dead" ELSE "pending"
           m == [n EXCEPT !.errors = E, !.attempts = attempt[d], !.status = to]
<1>4. MaxAttempts \in Nat /\ attempt[d] \in 0 .. MaxAttempts
  BY <1>1, VendorAssumption
<1>5. to \in {"pending", "dead"} /\ (to = "pending" => attempt[d] < MaxAttempts)
  BY <1>4
<1>6. E \in SUBSET (1 .. MaxAttempts)
  BY <1>1, <1>2, MessageFields
<1>7. inbox' = [inbox EXCEPT ![msg[d]] = m]
  <2>1. inbox' = [inbox EXCEPT ![msg[d]].errors = @ \cup {attempt[d]},
                               ![msg[d]].attempts = attempt[d], ![msg[d]].status = to]
    BY <1>3 DEF RecordFailure
  <2> HIDE DEF to
  <2> QED
    BY <1>1, <1>2, <2>1, EntryFailed
<1> HIDE DEF E, to
<1>8. m \in Messages /\ m.item = Item(d) /\ m.kind = inbox[msg[d]].kind
      /\ m.status = to /\ m.attempts = attempt[d]
  <2>1. n \in Messages /\ n.item = Item(d)
    BY <1>2 DEF Item
  <2>2. m \in Messages /\ m.item = n.item /\ m.kind = n.kind
        /\ m.status = to /\ m.attempts = attempt[d]
    <3> HIDE DEF n
    <3> QED
      BY <1>4, <1>5, <1>6, <2>1 DEF Messages
  <2> QED
    BY <2>1, <2>2
<1> HIDE DEF m
<1> QED
  BY <1>1, <1>5, <1>7, <1>8, Remarked DEF Marks
-----------------------------------------------------------------------------
(* What the dispatching steps of a saga have in common.                     *)

ItemsOf(S) == [i \in Items |-> IF holder[i] \in S THEN stored[i] ELSE Null]

\* What the saga's message makes of its item.
Applied(d) == IF pc[d] = "resolve" THEN fetched[d].data ELSE Null

\* A vendor is created, for nothing or for a category that had none.
Creates(d, v) ==
  /\ pc[d] = "resolve"
  /\ vendors[v] = Null /\ base'[d] = 0 /\ events'[d] # <<>>
  /\ vendor'[d] = ApplyEvents(Pristine, events'[d])
  /\ vendor'[d].snapshot.items = [NoItems EXCEPT ![Item(d)] = Applied(d)]
  /\ \/ vendor'[d].snapshot.category = Null
     \/ /\ Len(rest[d]) = 1 /\ LinkedTo(Head(rest[d])) = {}
        /\ vendor'[d].snapshot.category = Head(fetched[d].filing)

\* A vendor is loaded, alone or with all of its category.
Updates(d, v, S) ==
  /\ vendors[v] # Null /\ v \in S /\ base'[d] = vendors[v].version
  /\ S = {v} \/ (pc[d] = "resolve" /\ vendors[v].category \in Categories
                  /\ S = LinkedTo(vendors[v].category))
  /\ pc[d] = "remove" => v = owner[d]
  /\ vendor'[d] = ApplyEvents(LoadedFrom(v, S), events'[d])
  /\ vendor'[d].snapshot.category = vendors[v].category
  /\ vendor'[d].snapshot.items = [ItemsOf(S) EXCEPT ![Item(d)] = Applied(d)]

\* What the saga holds of the vendor `v` when its actions have been dispatched.
Holds(d, v) ==
  /\ pc[d] \in {"resolve", "remove"}
  /\ fetched' = [fetched EXCEPT ![d] = Null]
  /\ rest' = [rest EXCEPT ![d] = <<>>]
  /\ owner' = [owner EXCEPT ![d] = v]
  /\ base' = [base EXCEPT ![d] = base'[d]] /\ base'[d] \in Nat
  /\ vendor' = [vendor EXCEPT ![d] = vendor'[d]]
  /\ vendor'[d] \in [version : Nat, snapshot : Snapshots]
  /\ events' = [events EXCEPT ![d] = events'[d]] /\ events'[d] \in Seq(VendorEvents)
  /\ vendor'[d].version = base'[d] + Len(events'[d])
  /\ pc' = [pc EXCEPT ![d] = IF events'[d] = <<>> THEN "commit" ELSE "row"]
  /\ UNCHANGED <<cloverSide, tables, overlap, msg, attempt, faults>>

Dispatches(d, v) == Holds(d, v) /\ (Creates(d, v) \/ \E S \in SUBSET Ids : Updates(d, v, S))

LEMMA RowFields ==
  \A r \in VendorRows :
    /\ r.name \in Names /\ r.status \in {"active", "inactive"} /\ r.share \in BasisPoints
    /\ r.category \in Categories \cup {Null} /\ r.version \in Nat \ {0}
BY DEF VendorRows

Whole(r, I) ==
  [version |-> r.version,
   snapshot |-> [name |-> r.name, status |-> r.status, share |-> r.share,
                 category |-> r.category, items |-> I]]

LEMMA WholeTyped ==
  ASSUME NEW r \in VendorRows, NEW I \in [Items -> ItemData \cup {Null}]
  PROVE  /\ Whole(r, I) \in [version : Nat, snapshot : Snapshots]
         /\ Whole(r, I).version = r.version
         /\ Whole(r, I).snapshot.category = r.category
         /\ Whole(r, I).snapshot.items = I
<1> DEFINE n == r.name
           t == r.status
           h == r.share
           c == r.category
           s == [name |-> n, status |-> t, share |-> h, category |-> c, items |-> I]
<1>1. s \in Snapshots /\ s.category = c /\ s.items = I
  <2>1. n \in Names /\ t \in {"active", "inactive"} /\ h \in BasisPoints
        /\ c \in Categories \cup {Null}
    BY RowFields
  <2> HIDE DEF n, t, h, c
  <2> QED
    BY <2>1 DEF Snapshots
<1>2. Whole(r, I) = [version |-> r.version, snapshot |-> s]
  BY DEF Whole
<1>3. r.version \in Nat
  BY RowFields
<1> HIDE DEF s
<1> QED
  BY <1>1, <1>2, <1>3

LEMMA LoadedTyped ==
  ASSUME VendorTypes, NEW v \in Ids, vendors[v] # Null, NEW S
  PROVE  /\ LoadedFrom(v, S) \in [version : Nat, snapshot : Snapshots]
         /\ LoadedFrom(v, S).version = vendors[v].version
         /\ LoadedFrom(v, S).snapshot.category = vendors[v].category
         /\ LoadedFrom(v, S).snapshot.items = ItemsOf(S)
<1>1. vendors[v] \in VendorRows
  BY DEF VendorTypes, TablesOK
<1>2. stored \in [Items -> ItemData \cup {Null}]
  BY DEF VendorTypes, TablesOK
<1>3. ItemsOf(S) \in [Items -> ItemData \cup {Null}]
  BY <1>2 DEF ItemsOf
<1>4. LoadedFrom(v, S) = Whole(vendors[v], ItemsOf(S))
  BY DEF LoadedFrom, ItemsOf, Whole
<1> QED
  BY <1>1, <1>3, <1>4, WholeTyped

\* Dispatching events that lead somewhere.
LEMMA DispatchHolds ==
  ASSUME VendorTypes, NEW d \in Drains, pc[d] \in {"resolve", "remove"}, NEW v \in Ids,
         NEW before, NEW emitted, NEW after,
         Dispatched(d, v, before, emitted),
         UNCHANGED <<cloverSide, tables, overlap, msg, attempt, faults>>,
         before.version \in Nat, emitted \in Seq(VendorEvents),
         after = ApplyEvents(before, emitted),
         after \in [version : Nat, snapshot : Snapshots],
         after.version = before.version + Len(emitted)
  PROVE  /\ Holds(d, v)
         /\ base'[d] = before.version /\ vendor'[d] = after /\ events'[d] = emitted
<1>1. base \in [Drains -> Nat] /\ vendor \in [Drains -> Versions]
      /\ events \in [Drains -> Seq(VendorEvents)]
  BY DEF VendorTypes, SagasOK
<1>2. /\ fetched' = [fetched EXCEPT ![d] = Null]
      /\ rest' = [rest EXCEPT ![d] = <<>>]
      /\ owner' = [owner EXCEPT ![d] = v]
      /\ base' = [base EXCEPT ![d] = before.version]
      /\ vendor' = [vendor EXCEPT ![d] = after]
      /\ events' = [events EXCEPT ![d] = emitted]
      /\ pc' = [pc EXCEPT ![d] = IF emitted = <<>> THEN "commit" ELSE "row"]
  BY DEF Dispatched, Goto
<1>3. base'[d] = before.version /\ vendor'[d] = after /\ events'[d] = emitted
  BY <1>1, <1>2
<1>4. Holds(d, v)
  BY <1>2, <1>3 DEF Holds
<1> QED
  BY <1>3, <1>4

LEMMA DispatchedUpdates ==
  ASSUME VendorTypes, NEW d \in Drains, pc[d] \in {"resolve", "remove"}, NEW v \in Ids,
         NEW S \in SUBSET Ids, NEW emitted, NEW after,
         vendors[v] # Null, v \in S,
         S = {v} \/ (pc[d] = "resolve" /\ vendors[v].category \in Categories
                       /\ S = LinkedTo(vendors[v].category)),
         pc[d] = "remove" => v = owner[d],
         LeadsTo(LoadedFrom(v, S), emitted, after, [ItemsOf(S) EXCEPT ![Item(d)] = Applied(d)]),
         Dispatched(d, v, LoadedFrom(v, S), emitted),
         UNCHANGED <<cloverSide, tables, overlap, msg, attempt, faults>>
  PROVE  Dispatches(d, v)
<1> DEFINE before == LoadedFrom(v, S)
<1>1. before.version = vendors[v].version /\ before.version \in Nat
      /\ before.snapshot.category = vendors[v].category
  BY LoadedTyped
<1>2. Dispatched(d, v, before, emitted)
  OBVIOUS
<1>3. /\ emitted \in Seq(VendorEvents)
      /\ after = ApplyEvents(before, emitted)
      /\ after \in [version : Nat, snapshot : Snapshots]
      /\ after.version = before.version + Len(emitted)
      /\ after.snapshot.category = before.snapshot.category
      /\ after.snapshot.items = [ItemsOf(S) EXCEPT ![Item(d)] = Applied(d)]
  BY DEF LeadsTo
<1> HIDE DEF before
<1>4. /\ Holds(d, v)
      /\ base'[d] = before.version /\ vendor'[d] = after /\ events'[d] = emitted
  BY <1>1, <1>2, <1>3, DispatchHolds
<1>5. Updates(d, v, S)
  BY <1>1, <1>3, <1>4 DEF Updates, before
<1> QED
  BY <1>4, <1>5 DEF Dispatches

LEMMA DispatchedCreates ==
  ASSUME VendorTypes, NEW d \in Drains, pc[d] = "resolve", NEW v \in Ids,
         NEW name \in Names, NEW category \in Categories \cup {Null},
         vendors[v] = Null,
         \/ category = Null
         \/ /\ Len(rest[d]) = 1 /\ LinkedTo(Head(rest[d])) = {}
            /\ category = Head(fetched[d].filing),
         Item(d) \in Items, fetched[d].data \in ItemData,
         NewVendor(d, v, name, category),
         UNCHANGED <<cloverSide, tables, overlap, msg, attempt, faults>>
  PROVE  Dispatches(d, v)
<1> DEFINE x == fetched[d].data
           i == Item(d)
           emitted == Creation(name, category, i, x)
<1>1. Dispatched(d, v, Pristine, emitted)
  BY DEF NewVendor, Creation
<1>2. i \in Items /\ x \in ItemData
  OBVIOUS
<1> HIDE DEF x, i
<1>3. PICK after \in [version : Nat, snapshot : Snapshots] :
        /\ emitted \in Seq(VendorEvents) /\ emitted # <<>>
        /\ after = ApplyEvents(Pristine, emitted)
        /\ after.version = Len(emitted)
        /\ after.snapshot.category = category
        /\ after.snapshot.items = [NoItems EXCEPT ![i] = x]
  BY <1>2, CreationLeads
<1> HIDE DEF emitted
<1>4. Pristine.version = 0
  BY DEF Pristine
<1>5. after.version = Pristine.version + Len(emitted)
  BY <1>3, <1>4
<1>6. /\ Holds(d, v)
      /\ base'[d] = 0 /\ vendor'[d] = after /\ events'[d] = emitted
  BY <1>1, <1>3, <1>4, <1>5, DispatchHolds
<1>7. Creates(d, v)
  BY <1>3, <1>6 DEF Creates, Applied, x, i
<1> QED
  BY <1>6, <1>7 DEF Dispatches
-----------------------------------------------------------------------------
(* What the steps of a drain leave alone.                                   *)

SameSaga(e) ==
  /\ pc'[e] = pc[e] /\ msg'[e] = msg[e] /\ attempt'[e] = attempt[e]
  /\ fetched'[e] = fetched[e] /\ rest'[e] = rest[e] /\ base'[e] = base[e]
  /\ vendor'[e] = vendor[e] /\ owner'[e] = owner[e] /\ events'[e] = events[e]

\* A step of the saga itself: the tables stay as they are.
Local(d) ==
  /\ UNCHANGED <<clover, title, inbox, vendors, holder, stored, stream, overlap>>
  /\ SagasOK'
  /\ Stands(d)'
  /\ \A e \in Drains \ {d} : SameSaga(e)

\* A step before the dispatch; a removal finds nothing to remove.
Early(d) ==
  /\ Local(d) /\ events'[d] = <<>>
  /\ pc'[d] = "commit" => inbox[msg'[d]].kind = "delete"

\* The end of a saga that is rolled back.
Ends(d) ==
  /\ Forget(d)
  /\ inbox' = inbox \/ Marks(d, {"pending", "dead"})
  /\ UNCHANGED <<clover, title, vendors, holder, stored, stream, overlap>>

LEMMA LocalTyped ==
  ASSUME VendorTypes, NEW d \in Drains, Local(d)
  PROVE  VendorTypes'
<1>1. TablesOK'
  BY DEF VendorTypes, TablesOK, Local
<1>2. PendingIsTried'
  BY DEF VendorTypes, PendingIsTried, Local
<1>3. ASSUME NEW e \in Drains \ {d} PROVE Stands(e)'
  BY <1>3 DEF VendorTypes, Stands, Local, SameSaga
<1> QED
  BY <1>1, <1>2, <1>3 DEF VendorTypes, Local

LEMMA ForgetsOnly ==
  ASSUME VendorTypes, NEW d \in Drains, Forget(d)
  PROVE  /\ SagasOK'
         /\ \A e \in Drains \ {d} : SameSaga(e)
         /\ pc'[d] = "idle" /\ msg'[d] = 0 /\ events'[d] = <<>>
<1>1. SagasOK
  BY DEF VendorTypes
<1>2. Pristine \in Versions
  BY DEF Pristine, Versions
<1>3. SagasOK'
  BY <1>1, <1>2 DEF SagasOK, Forget, Goto
<1>4. \A e \in Drains \ {d} : SameSaga(e)
  BY <1>1 DEF SagasOK, Forget, Goto, SameSaga
<1>5. pc'[d] = "idle" /\ msg'[d] = 0 /\ events'[d] = <<>>
  BY <1>1 DEF SagasOK, Forget, Goto
<1> QED
  BY <1>3, <1>4, <1>5

LEMMA EndTyped ==
  ASSUME VendorTypes, NEW d \in Drains, Forget(d), TablesOK', PendingIsTried',
         DOMAIN inbox' = DOMAIN inbox, Len(inbox') = Len(inbox),
         \A k \in DOMAIN inbox : inbox'[k].item = inbox[k].item /\ inbox'[k].kind = inbox[k].kind,
         \A v \in Ids : vendors[v] # Null => vendors'[v] # Null
  PROVE  VendorTypes'
<1>1. SagasOK' /\ (\A e \in Drains \ {d} : SameSaga(e)) /\ pc'[d] = "idle" /\ msg'[d] = 0
      /\ events'[d] = <<>>
  BY ForgetsOnly
<1>2. Stands(d)'
  BY <1>1 DEF Stands
<1>3. ASSUME NEW e \in Drains \ {d} PROVE Stands(e)'
  <2>1. Stands(e) /\ SameSaga(e)
    BY <1>1 DEF VendorTypes
  <2>2. DOMAIN inbox = 1 .. Len(inbox)
    BY DEF VendorTypes, TablesOK
  <2> QED
    BY <2>1, <2>2 DEF Stands, SameSaga
<1> QED
  BY <1>1, <1>2, <1>3 DEF VendorTypes

LEMMA EndsTyped ==
  ASSUME VendorTypes, NEW d \in Drains, Ends(d)
  PROVE  /\ VendorTypes'
         /\ DOMAIN inbox' = DOMAIN inbox
         /\ \A k \in DOMAIN inbox :
              /\ inbox'[k].item = inbox[k].item /\ inbox'[k].kind = inbox[k].kind
              /\ inbox'[k] = inbox[k] \/ (k = msg[d] /\ inbox'[k].status \in {"pending", "dead"})
<1>1. TablesOK /\ PendingIsTried
  BY DEF VendorTypes
<1>2. /\ inbox' \in Seq(Messages) /\ DOMAIN inbox' = DOMAIN inbox /\ Len(inbox') = Len(inbox)
      /\ PendingIsTried'
      /\ \A k \in DOMAIN inbox :
              /\ inbox'[k].item = inbox[k].item /\ inbox'[k].kind = inbox[k].kind
              /\ inbox'[k] = inbox[k] \/ (k = msg[d] /\ inbox'[k].status \in {"pending", "dead"})
  <2>1. CASE inbox' = inbox
    BY <1>1, <2>1 DEF TablesOK, PendingIsTried
  <2>2. CASE Marks(d, {"pending", "dead"})
    BY <2>2 DEF Marks
  <2> QED
    BY <2>1, <2>2 DEF Ends
<1>3. TablesOK'
  BY <1>1, <1>2 DEF TablesOK, Ends
<1>4. Forget(d) /\ vendors' = vendors
  BY DEF Ends
<1>5. VendorTypes'
  BY <1>2, <1>3, <1>4, EndTyped
<1> QED
  BY <1>2, <1>5

LEMMA LoadEarly ==
  ASSUME VendorTypes, NEW d \in Drains, Load(d)
  PROVE  Early(d)
<1>1. SagasOK /\ Stands(d) /\ inbox \in Seq(Messages) /\ PendingIsTried /\ MaxAttempts \in Nat
  BY VendorAssumption DEF VendorTypes, TablesOK
<1>2. PICK k \in DOMAIN inbox :
        /\ inbox[k].status = "pending"
        /\ msg' = [msg EXCEPT ![d] = k]
        /\ attempt' = [attempt EXCEPT ![d] = inbox[k].attempts + 1]
        /\ pc' = [pc EXCEPT ![d] = IF inbox[k].kind = "delete" THEN "find" ELSE "fetch"]
  BY DEF Load, Goto
<1>3. k \in 1 .. Len(inbox) /\ k \in Nat /\ inbox[k].attempts \in Nat /\ inbox[k].attempts < MaxAttempts
      /\ inbox[k].kind \in {"upsert", "delete"}
  <2>1. k \in 1 .. Len(inbox) /\ inbox[k] \in Messages
    BY <1>1
  <2> QED
    BY <1>1, <1>2, <2>1, MessageFields DEF PendingIsTried
<1>4. UNCHANGED <<clover, title, changes, inbox, vendors, holder, stored, stream, overlap, fetched,
                  rest, base, vendor, owner, events, faults>>
  BY DEF Load, cloverSide, tables
<1>5. pc[d] = "idle" /\ events[d] = <<>>
  BY <1>1 DEF Load, Stands
<1>6. msg'[d] = k /\ attempt'[d] = inbox[k].attempts + 1 /\ attempt'[d] \in 1 .. MaxAttempts
      /\ pc'[d] = (IF inbox[k].kind = "delete" THEN "find" ELSE "fetch")
  BY <1>1, <1>2, <1>3 DEF SagasOK
<1>7. SagasOK'
  BY <1>1, <1>2, <1>3, <1>4, SMTT(30) DEF SagasOK
<1>8. Stands(d)'
  BY <1>1, <1>3, <1>4, <1>5, <1>6 DEF Stands
<1>9. \A e \in Drains \ {d} : SameSaga(e)
  BY <1>1, <1>2, <1>4 DEF SagasOK, SameSaga
<1> QED
  BY <1>4, <1>5, <1>6, <1>7, <1>8, <1>9 DEF Early, Local

LEMMA ItemTyped ==
  ASSUME VendorTypes, NEW d \in Drains, pc[d] # "idle"
  PROVE  Item(d) \in Items /\ msg[d] \in DOMAIN inbox /\ inbox[msg[d]] \in Messages
<1>1. inbox \in Seq(Messages) /\ Stands(d)
  BY DEF VendorTypes, TablesOK
<1>2. msg[d] \in DOMAIN inbox /\ inbox[msg[d]] \in Messages
  BY <1>1 DEF Stands
<1> QED
  BY <1>2, MessageFields DEF Item

LEMMA FetchEarly ==
  ASSUME VendorTypes, NEW d \in Drains, Fetch(d)
  PROVE  Early(d) /\ fetched'[d].data = clover[Item(d)].data
<1>1. SagasOK /\ Stands(d) /\ TablesOK
  BY DEF VendorTypes
<1>2. pc[d] = "fetch" /\ Item(d) \in Items
  BY ItemTyped DEF Fetch
<1> DEFINE item == clover[Item(d)]
           listing == [filing |-> item.filing, data |-> item.data, title |-> title]
<1>3. item.filing \in Filings /\ item.data \in ItemData
  <2>1. item \in [filing : Filings, data : ItemData]
    BY <1>1, <1>2 DEF TablesOK, Fetch
  <2> HIDE DEF item
  <2> QED
    BY <2>1
<1>4. item.filing \in Seq(Categories) /\ title \in [Categories -> Titles]
  BY <1>1, <1>3, VendorAssumption DEF TablesOK
<1>5. /\ fetched' = [fetched EXCEPT ![d] = listing]
      /\ rest' = [rest EXCEPT ![d] = item.filing]
      /\ pc' = [pc EXCEPT ![d] = "resolve"]
      /\ UNCHANGED <<clover, title, inbox, vendors, holder, stored, stream, overlap, msg, attempt,
                     base, vendor, owner, events>>
  BY DEF Fetch, Goto, cloverSide, tables
<1> HIDE DEF item
<1>6. listing \in Listings /\ listing.filing = item.filing /\ listing.data = item.data
  BY <1>3, <1>4 DEF Listings
<1> HIDE DEF listing
<1>7. fetched'[d] = listing /\ rest'[d] = item.filing /\ pc'[d] = "resolve" /\ events'[d] = <<>>
  BY <1>1, <1>2, <1>5 DEF SagasOK, Stands
<1>8. SagasOK'
  BY <1>1, <1>4, <1>5, <1>6 DEF SagasOK
<1>9. Stands(d)'
  BY <1>1, <1>2, <1>5, <1>6, <1>7 DEF Stands
<1>10. \A e \in Drains \ {d} : SameSaga(e)
  BY <1>1, <1>5 DEF SagasOK, SameSaga
<1> QED
  BY <1>5, <1>6, <1>7, <1>8, <1>9, <1>10 DEF Early, Local, item

LEMMA NextEarly ==
  ASSUME VendorTypes, NEW d \in Drains, TryNextCategory(d)
  PROVE  Early(d)
<1>1. SagasOK /\ Stands(d)
  BY DEF VendorTypes
<1>2. /\ rest[d] \in Seq(Categories) /\ Len(rest[d]) > 1
      /\ rest' = [rest EXCEPT ![d] = Tail(rest[d])] /\ pc[d] = "resolve"
      /\ UNCHANGED <<clover, title, inbox, vendors, holder, stored, stream, overlap, pc, msg, attempt,
                     fetched, base, vendor, owner, events>>
  BY <1>1 DEF TryNextCategory, cloverSide, tables, SagasOK
<1>3. Tail(rest[d]) \in Seq(Categories) /\ rest[d] # <<>>
  BY <1>2
<1>4. SagasOK'
  BY <1>1, <1>2, <1>3 DEF SagasOK
<1>5. Stands(d)'
  BY <1>1, <1>2, <1>3 DEF Stands, SagasOK
<1>6. \A e \in Drains \ {d} : SameSaga(e)
  BY <1>1, <1>2 DEF SagasOK, SameSaga
<1>7. events'[d] = <<>>
  BY <1>1, <1>2 DEF Stands
<1> QED
  BY <1>2, <1>4, <1>5, <1>6, <1>7 DEF Early, Local

LEMMA FindEarly ==
  ASSUME VendorTypes, RowsAgree, NEW d \in Drains, NobodyHolds(d) \/ FindHolder(d)
  PROVE  Early(d)
<1>1. SagasOK /\ Stands(d) /\ TablesOK
  BY DEF VendorTypes
<1>2. pc[d] = "find" /\ Item(d) \in Items
  BY ItemTyped DEF NobodyHolds, FindHolder
<1>3. CASE NobodyHolds(d)
  <2>1. /\ pc' = [pc EXCEPT ![d] = "commit"]
        /\ UNCHANGED <<clover, title, inbox, vendors, holder, stored, stream, overlap, msg, attempt,
                       fetched, rest, base, vendor, owner, events>>
    BY <1>3 DEF NobodyHolds, Goto, cloverSide, tables
  <2>2. pc'[d] = "commit"
    BY <1>1, <2>1 DEF SagasOK
  <2>3. SagasOK'
    BY <1>1, <2>1 DEF SagasOK
  <2>4. Stands(d)' /\ events'[d] = <<>> /\ inbox[msg'[d]].kind = "delete"
    BY <1>1, <1>2, <2>1, <2>2 DEF Stands
  <2>5. \A e \in Drains \ {d} : SameSaga(e)
    BY <1>1, <2>1 DEF SagasOK, SameSaga
  <2> QED
    BY <2>1, <2>3, <2>4, <2>5 DEF Early, Local
<1>4. CASE FindHolder(d)
  <2> DEFINE v == holder[Item(d)]
  <2>1. /\ pc' = [pc EXCEPT ![d] = "remove"] /\ owner' = [owner EXCEPT ![d] = v]
        /\ UNCHANGED <<clover, title, inbox, vendors, holder, stored, stream, overlap, msg, attempt,
                       fetched, rest, base, vendor, events>>
    BY <1>4 DEF FindHolder, Goto, cloverSide, tables
  <2>2. v \in Ids /\ vendors[v] # Null
    <3>1. v \in Ids
      BY <1>1, <1>2, <1>4 DEF TablesOK, FindHolder
    <3> QED
      BY <1>2, <3>1 DEF RowsAgree, HeldBy
  <2> HIDE DEF v
  <2>3. pc'[d] = "remove" /\ owner'[d] = v
    BY <1>1, <2>1 DEF SagasOK
  <2>4. SagasOK'
    BY <1>1, <2>1, <2>2 DEF SagasOK
  <2>5. Stands(d)' /\ events'[d] = <<>>
    BY <1>1, <1>2, <2>1, <2>2, <2>3 DEF Stands
  <2>6. \A e \in Drains \ {d} : SameSaga(e)
    BY <1>1, <2>1 DEF SagasOK, SameSaga
  <2> QED
    BY <2>1, <2>3, <2>4, <2>5, <2>6 DEF Early, Local
<1> QED
  BY <1>3, <1>4

LEMMA HoldsLocal ==
  ASSUME VendorTypes, NEW d \in Drains, NEW v \in Ids, Holds(d, v)
  PROVE  Local(d) /\ owner'[d] = v /\ msg' = msg
         /\ pc'[d] = (IF events'[d] = <<>> THEN "commit" ELSE "row")
<1>1. SagasOK /\ Stands(d)
  BY DEF VendorTypes
<1>2. UNCHANGED <<clover, title, inbox, vendors, holder, stored, stream, overlap, msg, attempt>>
  BY DEF Holds, cloverSide, tables
<1>3. owner'[d] = v /\ pc'[d] = (IF events'[d] = <<>> THEN "commit" ELSE "row")
      /\ vendor'[d] \in Versions
  BY <1>1 DEF SagasOK, Holds, Versions
<1>4. SagasOK'
  <2>1. fetched' \in [Drains -> Listings \cup {Null}] /\ rest' \in [Drains -> Seq(Categories)]
        /\ owner' \in [Drains -> Ids \cup {Null}]
    BY <1>1 DEF SagasOK, Holds
  <2>2. base' \in [Drains -> Nat] /\ events' \in [Drains -> Seq(VendorEvents)]
    BY <1>1 DEF SagasOK, Holds
  <2>3. vendor' \in [Drains -> Versions]
    BY <1>1, <1>3 DEF SagasOK, Holds
  <2>4. pc' \in [Drains -> {"idle", "fetch", "resolve", "find", "remove", "row", "items", "commit"}]
    BY <1>1 DEF SagasOK, Holds
  <2> QED
    BY <1>1, <1>2, <2>1, <2>2, <2>3, <2>4 DEF SagasOK
<1>5. Stands(d)'
  BY <1>1, <1>2, <1>3 DEF Stands, Holds
<1>6. \A e \in Drains \ {d} : SameSaga(e)
  BY <1>1, <1>2 DEF SagasOK, SameSaga, Holds
<1> QED
  BY <1>2, <1>3, <1>4, <1>5, <1>6 DEF Local

LEMMA SavingLocal ==
  ASSUME VendorTypes, NEW d \in Drains, SaveRow(d) \/ SaveItems(d)
  PROVE  /\ Local(d)
         /\ UNCHANGED <<msg, base, vendor, owner, events>>
         /\ pc[d] \in {"row", "items"}
         /\ pc'[d] = IF pc[d] = "row" THEN "items" ELSE "commit"
<1>1. SagasOK /\ Stands(d)
  BY DEF VendorTypes
<1>2. /\ UNCHANGED <<clover, title, inbox, vendors, holder, stored, stream, overlap, msg, attempt,
                     fetched, rest, base, vendor, owner, events>>
      /\ pc[d] \in {"row", "items"}
      /\ pc' = [pc EXCEPT ![d] = IF pc[d] = "row" THEN "items" ELSE "commit"]
  BY DEF SaveRow, SaveItems, Goto, cloverSide, tables
<1>3. pc'[d] = IF pc[d] = "row" THEN "items" ELSE "commit"
  BY <1>1, <1>2 DEF SagasOK
<1>4. SagasOK'
  BY <1>1, <1>2 DEF SagasOK
<1>5. Stands(d)'
  BY <1>1, <1>2, <1>3 DEF Stands
<1>6. \A e \in Drains \ {d} : SameSaga(e)
  BY <1>1, <1>2 DEF SagasOK, SameSaga
<1> QED
  BY <1>2, <1>3, <1>4, <1>5, <1>6 DEF Local
-----------------------------------------------------------------------------
\* What a dispatching saga knows.
LEMMA ResolveTyped ==
  ASSUME VendorTypes, NEW d \in Drains, pc[d] = "resolve"
  PROVE  /\ fetched[d].data \in ItemData /\ fetched[d].filing \in Seq(Categories)
         /\ \A c \in Categories : fetched[d].title[c] \in Names \cup {Blank}
         /\ rest[d] \in Seq(Categories)
         /\ rest[d] # <<>> => fetched[d].filing # <<>>
         /\ Item(d) \in Items /\ inbox[msg[d]].kind = "upsert"
<1>1. SagasOK /\ Stands(d) /\ Item(d) \in Items
  BY ItemTyped DEF VendorTypes
<1>2. fetched[d] \in Listings /\ (rest[d] # <<>> => fetched[d].filing # <<>>)
      /\ inbox[msg[d]].kind = "upsert"
  BY <1>1 DEF Stands
<1>3. \A l \in Listings :
        l.data \in ItemData /\ l.filing \in Filings /\ l.title \in [Categories -> Titles]
  BY DEF Listings
<1>4. fetched[d].data \in ItemData /\ fetched[d].filing \in Filings
      /\ fetched[d].title \in [Categories -> Titles]
  BY <1>2, <1>3
<1>5. fetched[d].filing \in Seq(Categories)
      /\ \A c \in Categories : fetched[d].title[c] \in Names \cup {Blank}
  BY <1>4, VendorAssumption
<1>6. rest[d] \in Seq(Categories)
  BY <1>1 DEF SagasOK
<1> QED
  BY <1>1, <1>2, <1>4, <1>5, <1>6

LEMMA UseDispatches ==
  ASSUME VendorTypes, NEW d \in Drains, UseVendor(d)
  PROVE  \E v \in Ids : Dispatches(d, v)
<1> DEFINE c == Head(rest[d])
           S == LinkedTo(c)
           i == Item(d)
           x == fetched[d].data
           t == fetched[d].title[c]
<1>1. pc[d] = "resolve" /\ rest[d] # <<>>
  BY DEF UseVendor
<1>2. c \in Categories /\ x \in ItemData /\ t \in Names \cup {Blank} /\ i \in Items
  BY <1>1, ResolveTyped
<1>3. PICK v \in FirstOf(S) :
        LET before  == LoadedFrom(v, S)
            renamed == SyncCloverCategoryName(before.snapshot, t)
            named   == ApplyEvents(before, renamed).snapshot
        IN Dispatched(d, v, before, renamed \o ApplyCloverItem(named, i, x))
  BY DEF UseVendor
<1>4. UNCHANGED <<cloverSide, tables, overlap, msg, attempt, faults>>
  BY DEF UseVendor
<1>5. v \in S /\ v \in Ids /\ S \in SUBSET Ids /\ vendors[v] # Null /\ vendors[v].category = c
  <2>1. v \in S
    BY DEF FirstOf
  <2> QED
    BY <2>1 DEF LinkedTo
<1>6. S = LinkedTo(vendors[v].category)
  BY <1>5
<1> DEFINE before  == LoadedFrom(v, S)
           renamed == SyncCloverCategoryName(before.snapshot, t)
           between == ApplyEvents(before, renamed)
           added   == ApplyCloverItem(between.snapshot, i, x)
<1>7. Dispatched(d, v, before, renamed \o added)
  BY <1>3
<1>8. before \in [version : Nat, snapshot : Snapshots] /\ before.snapshot.items = ItemsOf(S)
  BY <1>5, LoadedTyped
<1> HIDE DEF c, S, i, x, t, before
<1>9. LeadsTo(before, renamed, between, ItemsOf(S))
  <2>1. PICK b : LeadsTo(before, renamed, b, before.snapshot.items)
    BY <1>2, <1>8, NameLeads
  <2>2. b = between
    BY <2>1 DEF LeadsTo
  <2> QED
    BY <1>8, <2>1, <2>2
<1> HIDE DEF renamed, between
<1>10. between \in [version : Nat, snapshot : Snapshots] /\ between.snapshot.items = ItemsOf(S)
  BY <1>9 DEF LeadsTo
<1>11. PICK after : LeadsTo(between, added, after, [ItemsOf(S) EXCEPT ![i] = x])
  BY <1>2, <1>10, ItemLeads
<1> HIDE DEF added
<1>12. LeadsTo(before, renamed \o added, after, [ItemsOf(S) EXCEPT ![i] = x])
  BY <1>8, <1>9, <1>11, LeadsOn
<1>13. x = Applied(d)
  BY <1>1 DEF Applied, x
<1> DEFINE both == renamed \o added
<1> HIDE DEF both
<1>14. LeadsTo(LoadedFrom(v, S), both, after, [ItemsOf(S) EXCEPT ![Item(d)] = Applied(d)])
  BY <1>12, <1>13 DEF before, i, both
<1>15. Dispatched(d, v, LoadedFrom(v, S), both)
  BY <1>7 DEF before, both
<1>16. vendors[v].category \in Categories
  BY <1>2, <1>5
<1> QED
  BY <1>1, <1>4, <1>5, <1>6, <1>14, <1>15, <1>16, DispatchedUpdates

LEMMA CreateDispatches ==
  ASSUME VendorTypes, NEW d \in Drains, CreateVendor(d)
  PROVE  \E v \in Ids : Dispatches(d, v)
<1> DEFINE c == Head(fetched[d].filing)
           v == CHOOSE u \in Unused : TRUE
           name == IF fetched[d].title[c] = Blank THEN CategoryName[c] ELSE fetched[d].title[c]
<1>1. /\ pc[d] = "resolve" /\ Len(rest[d]) = 1 /\ LinkedTo(Head(rest[d])) = {}
      /\ Unused # {} /\ NewVendor(d, v, name, c)
      /\ UNCHANGED <<cloverSide, tables, overlap, msg, attempt, faults>>
  BY DEF CreateVendor
<1>2. v \in Ids /\ vendors[v] = Null
  <2>1. v \in Unused
    BY <1>1
  <2> QED
    BY <2>1 DEF Unused, Ids
<1>3. rest[d] # <<>>
  <2>1. Len(<<>>) = 0
    OBVIOUS
  <2> QED
    BY <1>1, <2>1
<1>4. c \in Categories /\ fetched[d].title[c] \in Names \cup {Blank}
      /\ fetched[d].data \in ItemData /\ Item(d) \in Items
  BY <1>1, <1>3, ResolveTyped
<1>5. name \in Names
  BY <1>4, VendorAssumption
<1> HIDE DEF v, name
<1>6. Dispatches(d, v)
  BY <1>1, <1>2, <1>4, <1>5, DispatchedCreates
<1> QED
  BY <1>2, <1>6

LEMMA CustomDispatches ==
  ASSUME VendorTypes, NEW d \in Drains, UseCustomVendor(d)
  PROVE  \E v \in Ids : Dispatches(d, v)
<1>1. pc[d] = "resolve" /\ CustomId \in Ids /\ CustomName \in Names
      /\ UNCHANGED <<cloverSide, tables, overlap, msg, attempt, faults>>
  BY VendorAssumption DEF UseCustomVendor, Ids
<1>2. fetched[d].data \in ItemData /\ Item(d) \in Items
  BY <1>1, ResolveTyped
<1>3. CASE vendors[CustomId] = Null
  <2>1. NewVendor(d, CustomId, CustomName, Null)
    BY <1>3 DEF UseCustomVendor
  <2> QED
    BY <1>1, <1>2, <1>3, <2>1, DispatchedCreates
<1>4. CASE vendors[CustomId] # Null
  <2> DEFINE S == {CustomId}
             before == LoadedFrom(CustomId, S)
             added == ApplyCloverItem(before.snapshot, Item(d), fetched[d].data)
  <2>1. Dispatched(d, CustomId, before, added)
    BY <1>4 DEF UseCustomVendor
  <2>2. before \in [version : Nat, snapshot : Snapshots] /\ before.snapshot.items = ItemsOf(S)
    BY <1>1, <1>4, LoadedTyped
  <2> HIDE DEF before
  <2>3. PICK after : LeadsTo(before, added, after, [ItemsOf(S) EXCEPT ![Item(d)] = fetched[d].data])
    BY <1>2, <2>2, ItemLeads
  <2> HIDE DEF added
  <2>4. LeadsTo(LoadedFrom(CustomId, S), added, after, [ItemsOf(S) EXCEPT ![Item(d)] = Applied(d)])
    BY <1>1, <2>3 DEF before, Applied
  <2>5. Dispatched(d, CustomId, LoadedFrom(CustomId, S), added)
    BY <2>1 DEF before
  <2>6. S \in SUBSET Ids /\ CustomId \in S
    BY <1>1
  <2> QED
    BY <1>1, <1>4, <2>4, <2>5, <2>6, DispatchedUpdates
<1> QED
  BY <1>3, <1>4

LEMMA UnlistDispatches ==
  ASSUME VendorTypes, NEW d \in Drains, Unlist(d)
  PROVE  \E v \in Ids : Dispatches(d, v)
<1> DEFINE v == owner[d]
           S == {v}
           before == LoadedFrom(v, S)
           gone == RemoveCloverItem(before.snapshot, Item(d))
<1>1. pc[d] = "remove" /\ Dispatched(d, v, before, gone)
      /\ UNCHANGED <<cloverSide, tables, overlap, msg, attempt, faults>>
  BY DEF Unlist
<1>2. v \in Ids /\ vendors[v] # Null
  BY <1>1 DEF VendorTypes, Stands
<1>3. Item(d) \in Items
  BY <1>1, ItemTyped
<1>4. before \in [version : Nat, snapshot : Snapshots] /\ before.snapshot.items = ItemsOf(S)
  BY <1>2, LoadedTyped
<1> HIDE DEF before
<1>5. PICK after : LeadsTo(before, gone, after, [ItemsOf(S) EXCEPT ![Item(d)] = Null])
  BY <1>3, <1>4, RemovalLeads
<1> HIDE DEF gone
<1>6. LeadsTo(LoadedFrom(v, S), gone, after, [ItemsOf(S) EXCEPT ![Item(d)] = Applied(d)])
  BY <1>1, <1>5 DEF before, Applied
<1>7. Dispatched(d, v, LoadedFrom(v, S), gone)
  BY <1>1 DEF before
<1>8. S \in SUBSET Ids /\ v \in S /\ v = owner[d]
  BY <1>2
<1> HIDE DEF v
<1>9. Dispatches(d, v)
  BY <1>1, <1>2, <1>6, <1>7, <1>8, DispatchedUpdates
<1> QED
  BY <1>2, <1>9

\* A drain takes a step of its saga, saves, or gives up.
LEMMA DrainDoes ==
  ASSUME VendorTypes, RowsAgree, NEW d \in Drains, Drain(d) \/ Fail(d)
  PROVE  \/ /\ Early(d)
            /\ Load(d) \/ Fetch(d) \/ TryNextCategory(d) \/ NobodyHolds(d) \/ FindHolder(d)
         \/ \E v \in Ids : Dispatches(d, v)
         \/ SaveRow(d) \/ SaveItems(d)
         \/ Commit(d)
         \/ pc[d] # "idle" /\ Ends(d)
<1>1. ASSUME pc[d] # "idle", RecordFailure(d) PROVE Ends(d)
  <2>1. inbox' = inbox \/ Marks(d, {"pending", "dead"})
    BY <1>1, FailureMarks
  <2> QED
    BY <1>1, <2>1 DEF Ends, RecordFailure, cloverSide
<1>2. CASE Fail(d)
  <2>1. pc[d] # "idle"
    BY <1>2 DEF Fail
  <2>2. CASE RecordFailure(d)
    BY <1>1, <2>1, <2>2
  <2>3. CASE Forget(d) /\ UNCHANGED <<cloverSide, tables, overlap>>
    BY <2>1, <2>3 DEF Ends, cloverSide, tables
  <2> QED
    BY <1>2, <2>2, <2>3 DEF Fail
<1>3. CASE NotFound(d) \/ ItemTaken(d) \/ Conflict(d)
  BY <1>1, <1>3 DEF NotFound, ItemTaken, Conflict
<1>4. CASE Deadlock(d)
  BY <1>1, <1>4 DEF Deadlock, WaitsFor
<1>5. CASE Load(d) \/ Fetch(d) \/ TryNextCategory(d) \/ NobodyHolds(d) \/ FindHolder(d)
  BY <1>5, LoadEarly, FetchEarly, NextEarly, FindEarly
<1>6. CASE UseVendor(d) \/ CreateVendor(d) \/ UseCustomVendor(d) \/ Unlist(d)
  BY <1>6, UseDispatches, CreateDispatches, CustomDispatches, UnlistDispatches
<1>7. CASE SaveRow(d) \/ SaveItems(d) \/ Commit(d)
  BY <1>7
<1> QED
  BY <1>2, <1>3, <1>4, <1>5, <1>6, <1>7 DEF Drain
-----------------------------------------------------------------------------
(* A vendor is its stream.                                                  *)

LEMMA QuietSaves ==
  ASSUME NEW d \in Drains, Saves(d),
         vendor'[d] = vendor[d], base'[d] = base[d], owner'[d] = owner[d], events'[d] = events[d],
         UNCHANGED <<vendors, holder, stored, stream>>
  PROVE  Saves(d)'
BY DEF Saves, IsFresh, Twinned, StoredVendor, LoadedFrom

LEMMA QuietLocks ==
  ASSUME LocksApart, NEW d \in Drains, \A e \in Drains \ {d} : SameSaga(e), holder' = holder,
         ~Writes(d)'
  PROVE  LocksApart'
<1>1. \A e \in Drains : Writes(e)' => e # d /\ Writes(e) /\ owner'[e] = owner[e] /\ vendor'[e] = vendor[e]
                                        /\ pc'[e] = pc[e] /\ events'[e] = events[e]
  BY DEF Writes, SameSaga
<1>2. \A e \in Drains : pc'[e] = "commit" /\ events'[e] # <<>> => Writes(e)'
  BY DEF Writes
<1>3. \A e, f \in Drains : e # f /\ Writes(e)' /\ Writes(f)' => owner'[e] # owner'[f]
  BY <1>1 DEF LocksApart
<1>4. \A e \in Drains : pc'[e] = "commit" /\ events'[e] # <<>> => HeldElsewhere(e)' = {}
  BY <1>1, <1>2 DEF LocksApart, HeldElsewhere, NewItems
<1>5. \A e, f \in Drains :
        e # f /\ pc'[e] = "commit" /\ pc'[f] = "commit" /\ events'[e] # <<>> /\ events'[f] # <<>>
          => NewItems(e)' \cap NewItems(f)' = {}
  BY <1>1, <1>2 DEF LocksApart, NewItems
<1> QED
  BY <1>3, <1>4, <1>5 DEF LocksApart

\* Nothing is saved.
LEMMA QuietRows ==
  ASSUME UNCHANGED <<vendors, holder, stored, stream>>
  PROVE  /\ RowsAgree => RowsAgree'
         /\ StreamGivesVendor => StreamGivesVendor'
BY DEF RowsAgree, HeldBy, StreamGivesVendor, Twinned, StoredVendor, LoadedFrom

LEMMA RowTyped ==
  ASSUME VendorTypes, NEW v \in Ids, vendors[v] # Null
  PROVE  /\ vendors[v] \in VendorRows /\ vendors[v].version \in Nat /\ vendors[v].version # 0
         /\ vendors[v].category \in Categories \cup {Null}
<1> DEFINE r == vendors[v]
<1>1. r \in VendorRows
  BY DEF VendorTypes, TablesOK
<1> HIDE DEF r
<1>2. r.version \in Nat \ {0} /\ r.category \in Categories \cup {Null}
  BY <1>1, RowFields
<1> QED
  BY <1>1, <1>2 DEF r

LEMMA DispatchSaves ==
  ASSUME VendorTypes, RowsAgree, NEW d \in Drains, NEW v \in Ids, Dispatches(d, v)
  PROVE  Saves(d)' /\ Local(d) /\ ~Writes(d)'
<1>1. Holds(d, v) /\ Local(d) /\ owner'[d] = v
      /\ pc'[d] = (IF events'[d] = <<>> THEN "commit" ELSE "row")
  BY HoldsLocal DEF Dispatches
<1>2. ~Writes(d)'
  BY <1>1 DEF Writes
<1>3. /\ stream' = stream /\ vendors' = vendors /\ holder' = holder /\ stored' = stored
      /\ vendor'[d] \in [version : Nat, snapshot : Snapshots]
      /\ vendor'[d].version = base'[d] + Len(events'[d])
      /\ stream[v] \in Seq(VendorEvents)
  BY <1>1 DEF Local, Holds, VendorTypes, TablesOK
<1>4. vendor'[d].snapshot \in Snapshots
  <2> DEFINE w == vendor'[d]
  <2>1. w \in [version : Nat, snapshot : Snapshots]
    BY <1>3
  <2> HIDE DEF w
  <2>2. w.snapshot \in Snapshots
    BY <2>1
  <2> QED
    BY <2>2 DEF w
<1>5. ASSUME Creates(d, v) PROVE Saves(d)'
  <2>1. stream[v] = <<>> /\ Len(stream[v]) = 0 /\ base'[d] = 0
        /\ vendor'[d] = ApplyEvents(Pristine, events'[d])
    BY <1>5 DEF Creates, RowsAgree
  <2>2. owner'[d] \in Ids /\ base'[d] <= Len(stream'[owner'[d]])
    BY <1>1, <1>3, <2>1
  <2> QED
    BY <1>3, <1>4, <2>1, <2>2 DEF Saves
<1>6. ASSUME NEW S \in SUBSET Ids, Updates(d, v, S)
      PROVE  Saves(d)'
  <2>1. vendors[v] # Null /\ base'[d] = vendors[v].version /\ base'[d] = Len(stream[v])
    BY <1>6 DEF Updates, RowsAgree
  <2>2. base'[d] # 0
    BY <2>1, RowTyped
  <2>3. vendor'[d].snapshot.category = vendors[v].category
        /\ vendor'[d] = ApplyEvents(LoadedFrom(v, S), events'[d])
    BY <1>6 DEF Updates
  <2>4. ASSUME ~Twinned(v) PROVE vendor'[d] = ApplyEvents(StoredVendor(v), events'[d])
    <3>1. CASE S = {v}
      BY <2>3, <3>1 DEF StoredVendor
    <3>2. CASE vendors[v].category \in Categories /\ S = LinkedTo(vendors[v].category)
      <4>1. vendors[v].category # Null
        BY <3>2, VendorAssumption
      <4>2. S = {v}
        BY <1>6, <2>1, <2>4, <3>2, <4>1 DEF LinkedTo, Twinned, Updates
      <4> QED
        BY <3>1, <4>2
    <3> QED
      BY <1>6, <3>1, <3>2 DEF Updates
  <2>5. (Twinned(v) <=> Twinned(v)') /\ StoredVendor(v)' = StoredVendor(v)
    BY <1>3 DEF Twinned, StoredVendor, LoadedFrom
  <2>6. owner'[d] \in Ids /\ base'[d] <= Len(stream'[owner'[d]])
    BY <1>1, <1>3, <2>1
  <2>7. ~Twinned(owner[d])' => vendor'[d] = ApplyEvents(StoredVendor(owner[d])', events'[d])
    BY <1>1, <1>3, <2>4 DEF Twinned, StoredVendor, LoadedFrom
  <2> QED
    BY <1>1, <1>3, <1>4, <2>2, <2>3, <2>6, <2>7 DEF Saves
<1> QED
  BY <1>1, <1>2, <1>5, <1>6 DEF Dispatches

LEMMA LocalStream ==
  ASSUME StreamInv, NEW d \in Drains, Local(d), Saves(d)', LocksApart'
  PROVE  StreamInv'
<1>1. VendorTypes'
  BY LocalTyped DEF StreamInv
<1>2. RowsAgree' /\ StreamGivesVendor'
  BY QuietRows DEF StreamInv, Local
<1>3. \A e \in Drains \ {d} : Saves(e)'
  BY QuietSaves DEF StreamInv, Local, SameSaga
<1> QED
  BY <1>1, <1>2, <1>3 DEF StreamInv

LEMMA EarlyStream ==
  ASSUME StreamInv, NEW d \in Drains, Early(d)
  PROVE  StreamInv'
<1>1. Saves(d)' /\ ~Writes(d)'
  BY DEF Early, Saves, Writes
<1>2. LocksApart'
  BY <1>1, QuietLocks DEF StreamInv, Early, Local
<1> QED
  BY <1>1, <1>2, LocalStream DEF Early

LEMMA DispatchStream ==
  ASSUME StreamInv, NEW d \in Drains, NEW v \in Ids, Dispatches(d, v)
  PROVE  StreamInv'
<1>1. Saves(d)' /\ Local(d) /\ ~Writes(d)'
  BY DispatchSaves DEF StreamInv
<1>2. LocksApart'
  BY <1>1, QuietLocks DEF StreamInv, Local
<1> QED
  BY <1>1, <1>2, LocalStream

LEMMA SaveRowStream ==
  ASSUME StreamInv, NEW d \in Drains, SaveRow(d)
  PROVE  StreamInv'
<1>1. /\ Local(d) /\ UNCHANGED <<msg, base, vendor, owner, events>>
      /\ pc[d] = "row" /\ pc'[d] = "items" /\ ~RowHeld(owner[d], d)
      /\ \A e \in Drains \ {d} : SameSaga(e)
  BY SavingLocal DEF StreamInv, SaveRow, Local
<1>2. Saves(d)'
  BY <1>1, QuietSaves DEF StreamInv, Local
<1>3. LocksApart'
  <2>1. \A e \in Drains \ {d} : (Writes(e)' <=> Writes(e)) /\ pc'[e] = pc[e]
    BY <1>1 DEF Writes, SameSaga
  <2>2. \A e \in Drains \ {d} : Writes(e) => owner[e] # owner[d]
    BY <1>1 DEF RowHeld, Writes
  <2>3. \A e, f \in Drains : e # f /\ Writes(e)' /\ Writes(f)' => owner'[e] # owner'[f]
    BY <1>1, <2>1, <2>2 DEF StreamInv, LocksApart
  <2>4. \A e \in Drains : pc'[e] = "commit" /\ events'[e] # <<>> => HeldElsewhere(e)' = {}
    BY <1>1, <2>1 DEF StreamInv, LocksApart, HeldElsewhere, NewItems, Local
  <2>5. \A e, f \in Drains :
          e # f /\ pc'[e] = "commit" /\ pc'[f] = "commit" /\ events'[e] # <<>> /\ events'[f] # <<>>
            => NewItems(e)' \cap NewItems(f)' = {}
    BY <1>1, <2>1 DEF StreamInv, LocksApart, NewItems
  <2> QED
    BY <2>3, <2>4, <2>5 DEF LocksApart
<1> QED
  BY <1>1, <1>2, <1>3, LocalStream

LEMMA SaveItemsStream ==
  ASSUME StreamInv, NEW d \in Drains, SaveItems(d)
  PROVE  StreamInv'
<1>1. /\ Local(d) /\ UNCHANGED <<msg, base, vendor, owner, events>>
      /\ pc[d] = "items" /\ pc'[d] = "commit" /\ ~Waits(d) /\ HeldElsewhere(d) = {}
      /\ \A e \in Drains \ {d} : SameSaga(e)
  BY SavingLocal DEF StreamInv, SaveItems, Local
<1>2. Saves(d)'
  BY <1>1, QuietSaves DEF StreamInv, Local
<1>3. LocksApart'
  <2>1. \A e \in Drains : Writes(e)' <=> Writes(e)
    BY <1>1 DEF Writes, SameSaga
  <2>2. \A e \in Drains \ {d} : pc'[e] = pc[e]
    BY <1>1 DEF SameSaga
  <2>3. \A e \in Drains \ {d} : pc[e] = "commit" /\ events[e] # <<>>
                                  => NewItems(d) \cap NewItems(e) = {}
    BY <1>1 DEF Waits, WaitsFor, Touched
  <2>4. \A e, f \in Drains : e # f /\ Writes(e)' /\ Writes(f)' => owner'[e] # owner'[f]
    BY <1>1, <2>1 DEF StreamInv, LocksApart
  <2>5. \A e \in Drains : pc'[e] = "commit" /\ events'[e] # <<>> => HeldElsewhere(e)' = {}
    BY <1>1, <2>2 DEF StreamInv, LocksApart, HeldElsewhere, NewItems, Local
  <2>6. \A e, f \in Drains :
          e # f /\ pc'[e] = "commit" /\ pc'[f] = "commit" /\ events'[e] # <<>> /\ events'[f] # <<>>
            => NewItems(e)' \cap NewItems(f)' = {}
    BY <1>1, <2>2, <2>3 DEF StreamInv, LocksApart, NewItems
  <2> QED
    BY <2>4, <2>5, <2>6 DEF LocksApart
<1> QED
  BY <1>1, <1>2, <1>3, LocalStream

LEMMA EndsStream ==
  ASSUME StreamInv, NEW d \in Drains, Ends(d)
  PROVE  StreamInv'
<1>1. VendorTypes' /\ (\A e \in Drains \ {d} : SameSaga(e)) /\ pc'[d] = "idle" /\ events'[d] = <<>>
  BY EndsTyped, ForgetsOnly DEF StreamInv, Ends
<1>2. RowsAgree' /\ StreamGivesVendor'
  BY QuietRows DEF StreamInv, Ends
<1>3. \A e \in Drains : Saves(e)'
  <2>1. Saves(d)'
    BY <1>1 DEF Saves
  <2>2. \A e \in Drains \ {d} : Saves(e)'
    BY <1>1, QuietSaves DEF StreamInv, Ends, SameSaga
  <2> QED
    BY <2>1, <2>2
<1>4. LocksApart'
  BY <1>1, QuietLocks DEF StreamInv, Ends, Writes
<1> QED
  BY <1>1, <1>2, <1>3, <1>4 DEF StreamInv
-----------------------------------------------------------------------------
(* What a commit writes.                                                    *)

\* The saga saves a vendor nobody else has saved since it was loaded.
SavesFresh(d) ==
  /\ events[d] # <<>> /\ events[d] \in Seq(VendorEvents)
  /\ owner[d] \in Ids /\ vendor[d].snapshot \in Snapshots
  /\ base[d] = Len(stream[owner[d]]) /\ IsFresh(d)
  /\ vendor[d].version = base[d] + Len(events[d]) /\ vendor[d].version \in Nat \ {0}
  /\ vendors[owner[d]] = Null => base[d] = 0
  /\ vendors[owner[d]] # Null =>
       base[d] # 0 /\ vendor[d].snapshot.category = vendors[owner[d]].category
  /\ HeldElsewhere(d) = {}
  /\ vendor[d].snapshot.items \in [Items -> ItemData \cup {Null}]
  /\ Row(vendor[d].snapshot, vendor[d].version) \in VendorRows

\* Its vendor's items are those of its snapshot, the others' are what they were.
Saved(d) ==
  /\ holder' = [i \in Items |-> IF i \in NewItems(d) THEN owner[d]
                                ELSE IF holder[i] = owner[d] THEN Null ELSE holder[i]]
  /\ stored' = [i \in Items |-> IF i \in NewItems(d) THEN vendor[d].snapshot.items[i]
                                ELSE IF holder[i] = owner[d] THEN Null ELSE stored[i]]
  /\ vendors' = [vendors EXCEPT ![owner[d]] = Row(vendor[d].snapshot, vendor[d].version)]
  /\ stream' = [stream EXCEPT ![owner[d]] = stream[owner[d]] \o events[d]]

LEMMA SnapshotParts ==
  \A s \in Snapshots :
    /\ s.name \in Names /\ s.status \in {"active", "inactive"} /\ s.share \in BasisPoints
    /\ s.category \in Categories \cup {Null}
BY DEF Snapshots

LEMMA RowMade ==
  ASSUME NEW s \in Snapshots, NEW n \in Nat \ {0}
  PROVE  Row(s, n) \in VendorRows
<1> DEFINE a == s.name
           t == s.status
           h == s.share
           c == s.category
<1>1. a \in Names /\ t \in {"active", "inactive"} /\ h \in BasisPoints /\ c \in Categories \cup {Null}
  BY SnapshotParts
<1>2. Row(s, n) = [name |-> a, status |-> t, share |-> h, category |-> c, version |-> n]
  BY DEF Row
<1> DEFINE made == [name |-> a, status |-> t, share |-> h, category |-> c, version |-> n]
<1> HIDE DEF a, t, h, c
<1>3. made \in VendorRows
  BY <1>1 DEF VendorRows
<1> HIDE DEF made
<1>4. Row(s, n) = made
  BY <1>2 DEF made
<1> QED
  BY <1>3, <1>4

LEMMA CommitFresh ==
  ASSUME StreamInv, NEW d \in Drains, Commit(d), events[d] # <<>>
  PROVE  SavesFresh(d)
<1>1. VendorTypes /\ RowsAgree /\ Saves(d) /\ LocksApart
  BY DEF StreamInv
<1>2. pc[d] = "commit" /\ ~VersionTaken(d)
  BY DEF Commit
<1>3. base \in [Drains -> Nat] /\ stream \in [Ids -> Seq(VendorEvents)]
      /\ events[d] \in Seq(VendorEvents)
  BY <1>1 DEF VendorTypes, SagasOK, TablesOK
<1>4. /\ owner[d] \in Ids /\ vendor[d].snapshot \in Snapshots
      /\ vendor[d].version = base[d] + Len(events[d])
      /\ base[d] <= Len(stream[owner[d]])
  BY <1>1 DEF Saves
<1> DEFINE o == owner[d]
           n == Len(stream[o])
<1>5. base[d] \in Nat /\ n \in Nat /\ Len(events[d]) \in Nat /\ Len(events[d]) # 0
  BY <1>3, <1>4
<1>6. base[d] = n
  BY <1>2, <1>4, <1>5 DEF VersionTaken
<1>7. IsFresh(d)
  BY <1>6 DEF IsFresh
<1>8. vendors[o] = Null => base[d] = 0
  <2>1. Len(<<>>) = 0
    OBVIOUS
  <2> QED
    BY <1>1, <1>4, <1>6, <2>1 DEF RowsAgree
<1>9. ASSUME vendors[o] # Null
      PROVE  base[d] # 0 /\ vendor[d].snapshot.category = vendors[o].category
  <2>1. base[d] = vendors[o].version
    BY <1>1, <1>4, <1>6, <1>9 DEF RowsAgree
  <2>2. base[d] # 0
    BY <1>1, <1>4, <1>9, <2>1, RowTyped
  <2> QED
    BY <1>1, <1>7, <2>2 DEF Saves
<1>10. HeldElsewhere(d) = {}
  BY <1>1, <1>2 DEF LocksApart
<1>11. vendor[d].snapshot.items \in [Items -> ItemData \cup {Null}]
  BY <1>4, SnapshotFields
<1>12. vendor[d].version \in Nat \ {0}
  BY <1>4, <1>5
<1>13. Row(vendor[d].snapshot, vendor[d].version) \in VendorRows
  BY <1>4, <1>12, RowMade
<1> QED
  BY <1>3, <1>4, <1>6, <1>7, <1>8, <1>9, <1>10, <1>11, <1>12, <1>13 DEF SavesFresh

LEMMA CommitSaves ==
  ASSUME StreamInv, NEW d \in Drains, Commit(d), events[d] # <<>>
  PROVE  Saved(d)
<1> DEFINE N == NewItems(d)
           v == owner[d]
           x(i) == vendor[d].snapshot.items[i]
<1>1. SavedItems(d) /\ stream' = [stream EXCEPT ![v] = @ \o events[d]]
      /\ vendors' = [vendors EXCEPT ![v] = Row(vendor[d].snapshot, vendor[d].version)]
  BY DEF Commit
<1>2. holder' = [i \in Items |-> CASE i \in N -> v
                                   [] i \in HeldBy(v) \ N -> Null
                                   [] OTHER -> holder[i]]
  BY <1>1 DEF SavedItems
<1>3. stored' = [i \in Items |-> CASE i \in N -> x(i)
                                   [] i \in HeldBy(v) \ N -> Null
                                   [] OTHER -> stored[i]]
  BY <1>1 DEF SavedItems
<1> HIDE DEF N, x
<1>4. \A i \in Items : (i \in HeldBy(v) <=> holder[i] = v)
  BY DEF HeldBy
<1> HIDE DEF v
<1>5. holder' = [i \in Items |-> IF i \in N THEN v ELSE IF holder[i] = v THEN Null ELSE holder[i]]
  BY <1>2, <1>4
<1>6. stored' = [i \in Items |-> IF i \in N THEN x(i) ELSE IF holder[i] = v THEN Null ELSE stored[i]]
  BY <1>3, <1>4
<1> QED
  BY <1>1, <1>5, <1>6 DEF Saved, N, v, x

\* What is so after a save.
LEMMA SavedGives ==
  ASSUME VendorTypes, NEW d \in Drains, SavesFresh(d), Saved(d)
  PROVE  /\ \A i \in Items :
              /\ i \in NewItems(d) =>
                   /\ holder'[i] = owner[d] /\ stored'[i] = vendor[d].snapshot.items[i]
                   /\ stored'[i] # Null /\ holder[i] \in {Null, owner[d]}
              /\ i \notin NewItems(d) =>
                   /\ vendor[d].snapshot.items[i] = Null
                   /\ holder[i] = owner[d] => holder'[i] = Null /\ stored'[i] = Null
                   /\ holder[i] # owner[d] => holder'[i] = holder[i] /\ stored'[i] = stored[i]
         /\ vendors'[owner[d]] = Row(vendor[d].snapshot, vendor[d].version)
         /\ stream'[owner[d]] = stream[owner[d]] \o events[d]
         /\ \A v \in Ids \ {owner[d]} :
              /\ vendors'[v] = vendors[v] /\ stream'[v] = stream[v] /\ HeldBy(v)' = HeldBy(v)
              /\ \A i \in Items : holder'[i] = v <=> holder[i] = v
              /\ \A i \in Items : holder[i] = v => stored'[i] = stored[i]
<1>1. /\ vendors \in [Ids -> VendorRows \cup {Null}] /\ stream \in [Ids -> Seq(VendorEvents)]
      /\ holder \in [Items -> Ids \cup {Null}] /\ owner[d] \in Ids
  BY DEF VendorTypes, TablesOK, SavesFresh
<1>2. Null \notin Ids
  BY VendorAssumption DEF Ids
<1>3. \A i \in Items :
        /\ i \in NewItems(d) =>
             /\ holder'[i] = owner[d] /\ stored'[i] = vendor[d].snapshot.items[i]
             /\ stored'[i] # Null /\ holder[i] \in {Null, owner[d]}
        /\ i \notin NewItems(d) =>
             /\ vendor[d].snapshot.items[i] = Null
             /\ holder[i] = owner[d] => holder'[i] = Null /\ stored'[i] = Null
             /\ holder[i] # owner[d] => holder'[i] = holder[i] /\ stored'[i] = stored[i]
  BY DEF Saved, SavesFresh, HeldElsewhere, NewItems
<1>4. vendors'[owner[d]] = Row(vendor[d].snapshot, vendor[d].version)
      /\ stream'[owner[d]] = stream[owner[d]] \o events[d]
  BY <1>1 DEF Saved
<1>5. ASSUME NEW v \in Ids \ {owner[d]}
      PROVE  /\ vendors'[v] = vendors[v] /\ stream'[v] = stream[v] /\ HeldBy(v)' = HeldBy(v)
             /\ \A i \in Items : holder'[i] = v <=> holder[i] = v
             /\ \A i \in Items : holder[i] = v => stored'[i] = stored[i]
  <2>1. vendors'[v] = vendors[v] /\ stream'[v] = stream[v]
    BY <1>1 DEF Saved
  <2>2. \A i \in Items : holder'[i] = v <=> holder[i] = v
    BY <1>2, <1>3
  <2>3. HeldBy(v)' = HeldBy(v)
    BY <2>2 DEF HeldBy
  <2>4. \A i \in Items : holder[i] = v => stored'[i] = stored[i]
    BY <1>2, <1>3
  <2> QED
    BY <2>1, <2>2, <2>3, <2>4
<1> QED
  BY <1>3, <1>4, <1>5

LEMMA NullIsNone ==
  Null \notin VendorRows /\ Null \notin Ids /\ Null \notin ItemData /\ Null \notin Categories
BY VendorAssumption DEF Ids

\* A save does not end a twinship.
LEMMA TwinsStay ==
  ASSUME VendorTypes, NEW d \in Drains, SavesFresh(d), Saved(d), NEW v \in Ids, Twinned(v)
  PROVE  Twinned(v)'
<1>1. \A w \in Ids : vendors[w] # Null =>
        vendors'[w] # Null /\ vendors'[w].category = vendors[w].category
  <2> SUFFICES ASSUME NEW w \in Ids, vendors[w] # Null
               PROVE  vendors'[w] # Null /\ vendors'[w].category = vendors[w].category
    OBVIOUS
  <2>1. CASE w = owner[d]
    <3>1. vendors'[w] = Row(vendor[d].snapshot, vendor[d].version)
      BY <2>1, SavedGives
    <3>2. vendors'[w] # Null
      <4>1. Row(vendor[d].snapshot, vendor[d].version) \in VendorRows
        BY DEF SavesFresh
      <4> QED
        BY <3>1, <4>1, NullIsNone
    <3>3. vendor[d].snapshot.category = vendors[w].category
      BY <2>1 DEF SavesFresh
    <3>4. vendors'[w].category = vendor[d].snapshot.category
      BY <3>1 DEF Row
    <3> QED
      BY <3>2, <3>3, <3>4
  <2>2. CASE w # owner[d]
    <3>1. w \in Ids \ {owner[d]}
      BY <2>2
    <3>2. vendors'[w] = vendors[w]
      BY <3>1, SavedGives
    <3> QED
      BY <3>2
  <2> QED
    BY <2>1, <2>2
<1> QED
  BY <1>1 DEF Twinned

\* The saved row and items are the saga's vendor.
LEMMA SavedVendor ==
  ASSUME VendorTypes, NEW d \in Drains, SavesFresh(d), Saved(d), NEW o \in Ids, o = owner[d]
  PROVE  StoredVendor(o)' = vendor[d]
<1> DEFINE s == vendor[d].snapshot
           n == vendor[d].version
           J == [i \in Items |-> IF holder'[i] \in {o} THEN stored'[i] ELSE Null]
<1>1. s \in Snapshots /\ vendor[d] = [version |-> n, snapshot |-> s]
  BY DEF SavesFresh, VendorTypes, SagasOK, Versions
<1>2. Null \notin Ids
  BY VendorAssumption DEF Ids
<1>3. s.items \in [Items -> ItemData \cup {Null}]
  BY DEF SavesFresh
<1>4. J = s.items
  <2>1. s.items = [i \in Items |-> s.items[i]]
    BY <1>3
  <2>2. ASSUME NEW i \in Items PROVE J[i] = s.items[i]
    <3>1. CASE i \in NewItems(d)
      <4>1. holder'[i] = o /\ stored'[i] = s.items[i]
        BY <3>1, SavedGives
      <4> QED
        BY <4>1
    <3>2. CASE i \notin NewItems(d)
      <4>1. s.items[i] = Null
        BY <3>2 DEF NewItems
      <4>2. holder'[i] # o
        BY <1>2, <3>2, SavedGives
      <4> QED
        BY <4>1, <4>2
    <3> QED
      BY <3>1, <3>2
  <2> QED
    BY <2>1, <2>2
<1>5. vendors'[o] = Row(s, n)
  BY SavedGives
<1>6. /\ vendors'[o].version = n /\ vendors'[o].name = s.name /\ vendors'[o].status = s.status
      /\ vendors'[o].share = s.share /\ vendors'[o].category = s.category
  <2> HIDE DEF s, n
  <2> QED
    BY <1>5 DEF Row
<1>7. StoredVendor(o)' =
        [version |-> vendors'[o].version,
         snapshot |-> [name |-> vendors'[o].name, status |-> vendors'[o].status,
                       share |-> vendors'[o].share, category |-> vendors'[o].category,
                       items |-> J]]
  BY DEF StoredVendor, LoadedFrom
<1> HIDE DEF J, s, n
<1>8. s = [name |-> s.name, status |-> s.status, share |-> s.share,
           category |-> s.category, items |-> s.items]
  BY <1>1, SnapshotFields
<1> QED
  BY <1>1, <1>4, <1>6, <1>7, <1>8
\* The other vendors are what they were.
LEMMA OthersStay ==
  ASSUME VendorTypes, NEW d \in Drains, SavesFresh(d), Saved(d),
         NEW o \in Ids, o = owner[d], NEW w \in Ids \ {o}
  PROVE  /\ vendors'[w] = vendors[w] /\ stream'[w] = stream[w] /\ HeldBy(w)' = HeldBy(w)
         /\ StoredVendor(w)' = StoredVendor(w)
<1>1. w \in Ids \ {owner[d]}
  OBVIOUS
<1>2. /\ vendors'[w] = vendors[w] /\ stream'[w] = stream[w] /\ HeldBy(w)' = HeldBy(w)
      /\ \A i \in Items : holder'[i] = w <=> holder[i] = w
      /\ \A i \in Items : holder[i] = w => stored'[i] = stored[i]
  BY <1>1, SavedGives
<1>3. [i \in Items |-> IF holder'[i] \in {w} THEN stored'[i] ELSE Null]
        = [i \in Items |-> IF holder[i] \in {w} THEN stored[i] ELSE Null]
  BY <1>2
<1>4. StoredVendor(w)' = StoredVendor(w)
  BY <1>2, <1>3 DEF StoredVendor, LoadedFrom
<1> QED
  BY <1>2, <1>4

LEMMA CommitTyped ==
  ASSUME StreamInv, NEW d \in Drains, Commit(d)
  PROVE  /\ VendorTypes'
         /\ (\A e \in Drains \ {d} : SameSaga(e)) /\ pc'[d] = "idle" /\ events'[d] = <<>>
<1>1. VendorTypes /\ TablesOK /\ Marks(d, {"processed"}) /\ Forget(d)
  BY CommitMarks DEF StreamInv, VendorTypes, Commit
<1>2. (\A e \in Drains \ {d} : SameSaga(e)) /\ pc'[d] = "idle" /\ events'[d] = <<>>
  BY <1>1, ForgetsOnly
<1>3. /\ inbox' \in Seq(Messages) /\ DOMAIN inbox' = DOMAIN inbox /\ Len(inbox') = Len(inbox)
      /\ PendingIsTried'
      /\ \A k \in DOMAIN inbox : inbox'[k].item = inbox[k].item /\ inbox'[k].kind = inbox[k].kind
  BY <1>1 DEF Marks
<1>4. clover' = clover /\ title' = title
  BY DEF Commit, cloverSide
<1>5. CASE events[d] = <<>>
  <2>1. UNCHANGED <<vendors, holder, stored, stream>>
    BY <1>5 DEF Commit
  <2>2. TablesOK'
    BY <1>1, <1>3, <1>4, <2>1 DEF TablesOK
  <2>3. VendorTypes'
    BY <1>1, <1>3, <2>1, <2>2, EndTyped
  <2> QED
    BY <1>2, <2>3
<1>6. CASE events[d] # <<>>
  <2>1. SavesFresh(d) /\ Saved(d)
    BY <1>6, CommitFresh, CommitSaves
  <2> DEFINE o == owner[d]
  <2>2. /\ Row(vendor[d].snapshot, vendor[d].version) \in VendorRows /\ o \in Ids
        /\ events[d] \in Seq(VendorEvents)
        /\ vendor[d].snapshot.items \in [Items -> ItemData \cup {Null}]
    BY <2>1 DEF SavesFresh
  <2>3. vendors' \in [Ids -> VendorRows \cup {Null}]
    BY <1>1, <2>1, <2>2 DEF TablesOK, Saved
  <2>4. holder' \in [Items -> Ids \cup {Null}]
    BY <1>1, <2>1, <2>2 DEF TablesOK, Saved
  <2>5. stored' \in [Items -> ItemData \cup {Null}]
    BY <1>1, <2>1, <2>2 DEF TablesOK, Saved
  <2>6. stream' \in [Ids -> Seq(VendorEvents)]
    <3>1. stream \in [Ids -> Seq(VendorEvents)] /\ stream' = [stream EXCEPT ![o] = stream[o] \o events[d]]
      BY <1>1, <2>1 DEF TablesOK, Saved
    <3>2. stream[o] \o events[d] \in Seq(VendorEvents)
      BY <2>2, <3>1
    <3> QED
      BY <2>2, <3>1, <3>2
  <2>7. TablesOK'
    BY <1>1, <1>3, <1>4, <2>3, <2>4, <2>5, <2>6 DEF TablesOK
  <2>8. \A v \in Ids : vendors[v] # Null => vendors'[v] # Null
    <3> SUFFICES ASSUME NEW v \in Ids, vendors[v] # Null PROVE vendors'[v] # Null
      OBVIOUS
    <3>1. CASE v = o
      <4>1. vendors'[v] = Row(vendor[d].snapshot, vendor[d].version)
        BY <1>1, <2>1, <3>1, SavedGives
      <4> QED
        BY <2>2, <4>1, NullIsNone
    <3>2. CASE v # o
      <4>1. v \in Ids \ {owner[d]}
        BY <3>2
      <4> QED
        BY <1>1, <2>1, <4>1, SavedGives
    <3> QED
      BY <3>1, <3>2
  <2>9. VendorTypes'
    BY <1>1, <1>3, <2>7, <2>8, EndTyped
  <2> QED
    BY <1>2, <2>9
<1> QED
  BY <1>5, <1>6

LEMMA AppendLonger ==
  ASSUME NEW S, NEW s \in Seq(S), NEW t \in Seq(S), t # <<>>
  PROVE  s \o t \in Seq(S) /\ Len(s \o t) = Len(s) + Len(t) /\ Len(t) \in Nat \ {0} /\ Len(s) \in Nat
OBVIOUS

LEMMA CommitRows ==
  ASSUME StreamInv, NEW d \in Drains, SavesFresh(d), Saved(d)
  PROVE  RowsAgree'
<1> DEFINE o == owner[d]
<1>1. VendorTypes /\ RowsAgree /\ o \in Ids
      /\ holder \in [Items -> Ids \cup {Null}] /\ Null \notin Ids
  BY NullIsNone DEF StreamInv, SavesFresh, VendorTypes, TablesOK
<1>2. vendors'[o] # Null /\ vendors'[o].version = vendor[d].version
  <2>1. vendors'[o] = Row(vendor[d].snapshot, vendor[d].version)
        /\ vendors'[o] \in VendorRows
    BY <1>1, SavedGives DEF SavesFresh
  <2> QED
    BY <2>1, NullIsNone DEF Row
<1>3. Len(stream'[o]) = vendor[d].version
  <2>1. stream'[o] = stream[o] \o events[d] /\ stream[o] \in Seq(VendorEvents)
    BY <1>1, SavedGives DEF VendorTypes, TablesOK
  <2>2. Len(stream'[o]) = Len(stream[o]) + Len(events[d])
    BY <2>1, AppendLonger DEF SavesFresh
  <2> QED
    BY <2>2 DEF SavesFresh
<1>4. ASSUME NEW v \in Ids
      PROVE  /\ vendors'[v] = Null => stream'[v] = <<>> /\ HeldBy(v)' = {}
             /\ vendors'[v] # Null => vendors'[v].version = Len(stream'[v])
  <2>1. CASE v = o
    BY <1>2, <1>3, <2>1
  <2>2. CASE v # o
    <3>1. v \in Ids \ {o}
      BY <2>2
    <3>2. vendors'[v] = vendors[v] /\ stream'[v] = stream[v] /\ HeldBy(v)' = HeldBy(v)
      BY <1>1, <3>1, OthersStay
    <3> QED
      BY <1>1, <3>2 DEF RowsAgree
  <2> QED
    BY <2>1, <2>2
<1>5. \A i \in Items : holder'[i] = Null <=> stored'[i] = Null
  <2> SUFFICES ASSUME NEW i \in Items PROVE holder'[i] = Null <=> stored'[i] = Null
    OBVIOUS
  <2>1. holder[i] = Null <=> stored[i] = Null
    BY <1>1 DEF RowsAgree
  <2>2. CASE i \in NewItems(d)
    <3>1. holder'[i] = o /\ stored'[i] # Null
      BY <1>1, <2>2, SavedGives
    <3> QED
      BY <1>1, <3>1
  <2>3. CASE i \notin NewItems(d)
    BY <1>1, <2>1, <2>3, SavedGives
  <2> QED
    BY <2>2, <2>3
<1> QED
  BY <1>4, <1>5 DEF RowsAgree

\* Who saves the same vendor finds the version taken; who saves another is not concerned.
LEMMA CommitLeaves ==
  ASSUME StreamInv, NEW d \in Drains, SavesFresh(d), Saved(d),
         NEW e \in Drains, SameSaga(e)
  PROVE  Saves(e)'
<1> DEFINE o == owner[d]
           w == owner[e]
<1>1. VendorTypes /\ Saves(e) /\ o \in Ids /\ stream[o] \in Seq(VendorEvents)
      /\ base[e] \in Nat
  BY DEF StreamInv, SavesFresh, VendorTypes, TablesOK, SagasOK
<1>2. /\ vendor'[e] = vendor[e] /\ base'[e] = base[e] /\ owner'[e] = w /\ events'[e] = events[e]
  BY DEF SameSaga
<1>3. SUFFICES ASSUME events[e] # <<>> PROVE Saves(e)'
  BY <1>2 DEF Saves
<1>4. /\ w \in Ids /\ vendor[e].snapshot \in Snapshots
      /\ vendor[e].version = base[e] + Len(events[e])
      /\ base[e] <= Len(stream[w])
  BY <1>1, <1>3 DEF Saves
<1>5. CASE w = o
  <2>1. stream'[o] = stream[o] \o events[d]
    BY <1>1, SavedGives
  <2>2. Len(stream'[o]) = Len(stream[o]) + Len(events[d]) /\ Len(events[d]) \in Nat \ {0}
        /\ Len(stream[o]) \in Nat
    BY <1>1, <2>1, AppendLonger DEF SavesFresh
  <2> DEFINE n == Len(stream[o])
             k == Len(events[d])
             b == base[e]
             m == Len(stream'[o])
  <2>3. b \in Nat /\ n \in Nat /\ k \in Nat \ {0} /\ b <= n /\ m = n + k
    BY <1>1, <1>4, <1>5, <2>2
  <2>4. b <= m /\ m # b
    <3> HIDE DEF n, k, b, m
    <3> QED
      BY <2>3
  <2>5. base'[e] <= Len(stream'[w]) /\ Len(stream'[w]) # base'[e]
    BY <1>2, <1>5, <2>4
  <2> QED
    BY <1>2, <1>4, <2>5 DEF Saves, IsFresh
<1>6. CASE w # o
  <2>1. w \in Ids \ {o}
    BY <1>4, <1>6
  <2>2. PICK x \in Ids \ {o} : x = w
    BY <2>1
  <2> HIDE DEF w, o
  <2>3. vendors'[x] = vendors[x] /\ stream'[x] = stream[x] /\ StoredVendor(x)' = StoredVendor(x)
    BY <1>1, OthersStay DEF o
  <2>4. Twinned(x) => Twinned(x)'
    BY <1>1, TwinsStay DEF o
  <2>5. IsFresh(e)' <=> IsFresh(e)
    BY <1>2, <2>2, <2>3 DEF IsFresh, w
  <2>6. IsFresh(e) /\ base[e] = 0 => vendor[e] = ApplyEvents(Pristine, events[e])
    BY <1>1, <1>3 DEF Saves
  <2>7. IsFresh(e) /\ base[e] # 0 =>
          /\ vendor[e].snapshot.category = vendors[x].category
          /\ ~Twinned(x) => vendor[e] = ApplyEvents(StoredVendor(x), events[e])
    BY <1>1, <1>3, <2>2 DEF Saves, w
  <2>8. ~Twinned(x)' => vendor[e] = ApplyEvents(StoredVendor(x)', events[e])
        \/ ~(IsFresh(e) /\ base[e] # 0)
    BY <2>3, <2>4, <2>7
  <2>9. /\ owner'[e] = x
        /\ ~Twinned(owner[e])' => ~Twinned(x)'
        /\ StoredVendor(owner[e])' = StoredVendor(x)'
    BY <1>2, <2>2 DEF Twinned, StoredVendor, LoadedFrom, w
  <2> QED
    BY <1>2, <1>4, <2>2, <2>3, <2>5, <2>6, <2>7, <2>8, <2>9 DEF Saves, w
<1> QED
  BY <1>5, <1>6

LEMMA CommitLocks ==
  ASSUME StreamInv, NEW d \in Drains, pc[d] = "commit", SavesFresh(d), Saved(d),
         \A e \in Drains \ {d} : SameSaga(e), pc'[d] = "idle"
  PROVE  LocksApart'
<1>1. VendorTypes /\ LocksApart
  BY DEF StreamInv
<1>2. \A e \in Drains : Writes(e)' => e # d /\ Writes(e) /\ owner'[e] = owner[e] /\ vendor'[e] = vendor[e]
                                        /\ pc'[e] = pc[e] /\ events'[e] = events[e]
  BY DEF Writes, SameSaga
<1>3. \A e \in Drains : pc'[e] = "commit" /\ events'[e] # <<>> => Writes(e)'
  BY DEF Writes
<1>4. \A e, f \in Drains : e # f /\ Writes(e)' /\ Writes(f)' => owner'[e] # owner'[f]
  BY <1>1, <1>2 DEF LocksApart
<1>5. ASSUME NEW e \in Drains, pc'[e] = "commit", events'[e] # <<>>
      PROVE  HeldElsewhere(e)' = {}
  <2>1. /\ e # d /\ pc[e] = "commit" /\ events[e] # <<>>
        /\ owner'[e] = owner[e] /\ vendor'[e] = vendor[e]
    BY <1>2, <1>3, <1>5
  <2>2. NewItems(e) \cap NewItems(d) = {} /\ HeldElsewhere(e) = {}
    BY <1>1, <2>1 DEF LocksApart, SavesFresh
  <2>3. ASSUME NEW i \in Items, vendor[e].snapshot.items[i] # Null
        PROVE  holder'[i] \in {Null, owner[e]}
    <3>1. i \in NewItems(e) /\ i \notin NewItems(d) /\ holder[i] \in {Null, owner[e]}
      BY <2>2, <2>3 DEF NewItems, HeldElsewhere
    <3> QED
      BY <1>1, <3>1, SavedGives
  <2> QED
    BY <2>1, <2>3 DEF HeldElsewhere, NewItems
<1>6. \A e, f \in Drains :
        e # f /\ pc'[e] = "commit" /\ pc'[f] = "commit" /\ events'[e] # <<>> /\ events'[f] # <<>>
          => NewItems(e)' \cap NewItems(f)' = {}
  BY <1>1, <1>2, <1>3 DEF LocksApart, NewItems
<1> QED
  BY <1>4, <1>5, <1>6 DEF LocksApart

\* The saved vendor is its stream, unless it had a twin when it was loaded.
LEMMA CommitReplays ==
  ASSUME StreamInv, NEW d \in Drains, SavesFresh(d), Saved(d)
  PROVE  StreamGivesVendor'
<1>1. VendorTypes /\ RowsAgree /\ StreamGivesVendor /\ owner[d] \in Ids /\ Saves(d)
  BY DEF StreamInv, SavesFresh
<1>2. PICK o \in Ids : o = owner[d]
  BY <1>1
<1>3. vendors'[o] # Null
  <2>1. vendors'[o] = Row(vendor[d].snapshot, vendor[d].version) /\ vendors'[o] \in VendorRows
    BY <1>1, <1>2, SavedGives DEF SavesFresh
  <2> QED
    BY <2>1, NullIsNone
<1>4. StoredVendor(o)' = vendor[d]
  BY <1>1, <1>2, SavedVendor
<1>5. stream'[o] = stream[o] \o events[d] /\ stream[o] \in Seq(VendorEvents)
      /\ events[d] \in Seq(VendorEvents) /\ events[d] # <<>> /\ IsFresh(d)
      /\ base[d] = Len(stream[o])
  BY <1>1, <1>2, SavedGives DEF SavesFresh, VendorTypes, TablesOK
<1>6. ASSUME ~Twinned(o)' PROVE ApplyEvents(Pristine, stream'[o]) = vendor[d]
  <2>1. CASE base[d] = 0
    <3>1. stream[o] = <<>>
      BY <1>5, <2>1, EmptySeq
    <3>2. stream'[o] = events[d]
      BY <1>5, <3>1, ConcatEmptySeq
    <3>3. vendor[d] = ApplyEvents(Pristine, events[d])
      BY <1>1, <1>5, <2>1 DEF Saves
    <3> QED
      BY <3>2, <3>3
  <2>2. CASE base[d] # 0
    <3>1. ~Twinned(o)
      BY <1>1, <1>2, <1>6, TwinsStay
    <3>2. vendors[o] # Null
      BY <1>2, <2>2, <1>1 DEF SavesFresh
    <3>3. vendor[d] = ApplyEvents(StoredVendor(o), events[d])
      BY <1>1, <1>2, <1>5, <2>2, <3>1 DEF Saves
    <3>4. ApplyEvents(Pristine, stream[o]) = StoredVendor(o)
      BY <1>1, <3>1, <3>2 DEF StreamGivesVendor
    <3>5. ApplyEvents(Pristine, stream[o] \o events[d])
            = ApplyEvents(ApplyEvents(Pristine, stream[o]), events[d])
      BY <1>5, FoldGoesOn
    <3> QED
      BY <1>5, <3>3, <3>4, <3>5
  <2> QED
    BY <2>1, <2>2
<1>7. ASSUME NEW v \in Ids
      PROVE  IF vendors'[v] = Null THEN stream'[v] = <<>> /\ HeldBy(v)' = {}
             ELSE Twinned(v)' \/ ApplyEvents(Pristine, stream'[v]) = StoredVendor(v)'
  <2>1. CASE v = o
    <3>1. StoredVendor(v)' = vendor[d] /\ (Twinned(v)' <=> Twinned(o)')
      BY <1>4, <2>1
    <3> QED
      BY <1>3, <1>6, <2>1, <3>1
  <2>2. CASE v # o
    <3>1. v \in Ids \ {o}
      BY <2>2
    <3>2. vendors'[v] = vendors[v] /\ stream'[v] = stream[v] /\ HeldBy(v)' = HeldBy(v)
          /\ StoredVendor(v)' = StoredVendor(v)
      BY <1>1, <1>2, <3>1, OthersStay
    <3>3. Twinned(v) => Twinned(v)'
      BY <1>1, TwinsStay
    <3>4. IF vendors[v] = Null THEN stream[v] = <<>> /\ HeldBy(v) = {}
          ELSE Twinned(v) \/ ApplyEvents(Pristine, stream[v]) = StoredVendor(v)
      BY <1>1 DEF StreamGivesVendor
    <3> QED
      BY <3>2, <3>3, <3>4
  <2> QED
    BY <2>1, <2>2
<1> QED
  BY <1>7 DEF StreamGivesVendor

LEMMA CommitStream ==
  ASSUME StreamInv, NEW d \in Drains, Commit(d)
  PROVE  StreamInv'
<1>1. VendorTypes' /\ (\A e \in Drains \ {d} : SameSaga(e)) /\ pc'[d] = "idle" /\ events'[d] = <<>>
  BY CommitTyped
<1>2. Saves(d)' /\ pc[d] = "commit" /\ ~Writes(d)'
  BY <1>1 DEF Saves, Commit, Writes
<1>3. CASE events[d] = <<>>
  <2>1. UNCHANGED <<vendors, holder, stored, stream>>
    BY <1>3 DEF Commit
  <2>2. RowsAgree' /\ StreamGivesVendor'
    BY <2>1, QuietRows DEF StreamInv
  <2>3. \A e \in Drains \ {d} : Saves(e)'
    BY <1>1, <2>1, QuietSaves DEF StreamInv, SameSaga
  <2>4. LocksApart'
    BY <1>1, <1>2, <2>1, QuietLocks DEF StreamInv
  <2> QED
    BY <1>1, <1>2, <2>2, <2>3, <2>4 DEF StreamInv
<1>4. CASE events[d] # <<>>
  <2>1. SavesFresh(d) /\ Saved(d)
    BY <1>4, CommitFresh, CommitSaves
  <2>2. RowsAgree' /\ StreamGivesVendor'
    BY <2>1, CommitRows, CommitReplays
  <2>3. \A e \in Drains \ {d} : Saves(e)'
    BY <1>1, <2>1, CommitLeaves
  <2>4. LocksApart'
    BY <1>1, <1>2, <2>1, CommitLocks
  <2> QED
    BY <1>1, <1>2, <2>2, <2>3, <2>4 DEF StreamInv
<1> QED
  BY <1>3, <1>4
-----------------------------------------------------------------------------
(* Every step keeps the invariant.                                          *)

\* Clover and its messages are not the sagas' business.
LEMMA MerchantLeaves ==
  ASSUME Merchant
  PROVE  UNCHANGED <<vendors, holder, stored, stream, overlap, saga>>
BY DEF Merchant, EditItem, DeleteItem, RenameCategory, Announce, tables

LEMMA AloneStream ==
  ASSUME StreamInv, VendorTypes', UNCHANGED <<vendors, holder, stored, stream, saga>>
  PROVE  StreamInv'
<1>1. RowsAgree' /\ StreamGivesVendor'
  BY QuietRows DEF StreamInv
<1>2. UNCHANGED <<pc, msg, base, vendor, owner, events>>
  BY DEF saga
<1>3. \A d \in Drains : Saves(d)'
  BY <1>2, QuietSaves DEF StreamInv
<1>4. LocksApart'
  BY <1>2 DEF StreamInv, LocksApart, Writes, HeldElsewhere, NewItems
<1> QED
  BY <1>1, <1>3, <1>4 DEF StreamInv

LEMMA StutterTyped ==
  ASSUME VendorTypes, UNCHANGED vars
  PROVE  VendorTypes'
<1>1. UNCHANGED <<clover, title, inbox, vendors, holder, stored, stream, saga, pc, msg, attempt,
                  fetched, rest, base, vendor, owner, events>>
  BY DEF vars, cloverSide, tables, saga
<1>2. TablesOK' /\ PendingIsTried'
  BY <1>1 DEF VendorTypes, TablesOK, PendingIsTried
<1>3. SagasOK'
  BY <1>1 DEF VendorTypes, SagasOK
<1>4. \A d \in Drains : Stands(d)'
  BY <1>1 DEF VendorTypes, Stands
<1> QED
  BY <1>2, <1>3, <1>4 DEF VendorTypes

LEMMA InitStream ==
  ASSUME Init
  PROVE  StreamInv
<1>1. VendorTypes
  BY InitTyped
<1>2. Null \notin Ids
  BY NullIsNone
<1>3. RowsAgree /\ StreamGivesVendor
  BY <1>2 DEF Init, RowsAgree, StreamGivesVendor, HeldBy
<1>4. \A d \in Drains : events[d] = <<>>
  BY DEF Init
<1>5. (\A d \in Drains : Saves(d)) /\ LocksApart
  BY <1>4 DEF Saves, LocksApart, Writes
<1> QED
  BY <1>1, <1>3, <1>5 DEF StreamInv

LEMMA NextStream ==
  ASSUME StreamInv, [Next]_vars
  PROVE  StreamInv'
<1>1. CASE Merchant
  <2>1. VendorTypes'
    BY <1>1, MerchantTyped DEF StreamInv
  <2> QED
    BY <1>1, <2>1, MerchantLeaves, AloneStream
<1>2. ASSUME NEW d \in Drains, Drain(d) \/ Fail(d)
      PROVE  StreamInv'
  <2>1. \/ Early(d)
        \/ \E v \in Ids : Dispatches(d, v)
        \/ SaveRow(d) \/ SaveItems(d)
        \/ Commit(d)
        \/ pc[d] # "idle" /\ Ends(d)
    BY <1>2, DrainDoes DEF StreamInv
  <2> QED
    BY <2>1, EarlyStream, DispatchStream, SaveRowStream, SaveItemsStream, CommitStream, EndsStream
<1>3. CASE UNCHANGED vars
  <2>1. VendorTypes'
    BY <1>3, StutterTyped DEF StreamInv
  <2>2. UNCHANGED <<vendors, holder, stored, stream, saga>>
    BY <1>3 DEF vars, tables
  <2> QED
    BY <2>1, <2>2, AloneStream
<1> QED
  BY <1>1, <1>2, <1>3 DEF Next

\* Whatever a vendor's stream has grown to, its row is what it replays to, and what each
\* saga has collected would extend it (repository.ts: save; vendors.ts: save).
THEOREM VendorsStream == Spec => []StreamInv
<1>1. Init => StreamInv
  BY InitStream
<1>2. StreamInv /\ [Next]_vars => StreamInv'
  BY NextStream
<1> QED
  BY <1>1, <1>2, PTL DEF Spec

\* What the drains write is well formed, whatever they overlap with and wherever they
\* fail (vendor-items.ts; vendors.ts: save).
THEOREM VendorTypeCorrect == Spec => []VendorTypeOK
<1>1. StreamInv => VendorTypeOK
  BY TypesGive DEF StreamInv
<1> QED
  BY <1>1, VendorsStream, PTL

\* Every vendor is its stream replayed: the guard on the stream's versions and the lock
\* on the vendor's row are all that keeps stale snapshots from being saved
\* (repository.ts: save; vendors.ts: save).
THEOREM VendorsAreTheirStreams == Spec => []StreamGivesVendor
<1>1. StreamInv => StreamGivesVendor
  BY DEF StreamInv
<1> QED
  BY <1>1, VendorsStream, PTL
-----------------------------------------------------------------------------
(* Nothing is dropped.                                                      *)

\* The messages a step leaves, but for the mark on the saga's.
MessagesStay == \A k \in DOMAIN inbox :
  k \in DOMAIN inbox' /\ inbox'[k].item = inbox[k].item /\ inbox'[k].kind = inbox[k].kind

LEMMA DeletedStays ==
  ASSUME MessagesStay
  PROVE  \A i : Deleted(i) => Deleted(i)'
BY DEF MessagesStay, Deleted

LEMMA KeepsOn ==
  ASSUME MessagesStay, UNCHANGED <<holder, stream>>,
         NEW e \in Drains, SameSaga(e), KeepsItems(e), pc[e] # "idle" => msg[e] \in DOMAIN inbox,
         pc[e] = "idle" => events[e] = <<>>
  PROVE  KeepsItems(e)'
<1>1. \A i : Deleted(i) => Deleted(i)'
  BY DeletedStays
<1>2. pc[e] # "idle" => inbox'[msg[e]].item = inbox[msg[e]].item /\ inbox'[msg[e]].kind = inbox[msg[e]].kind
  BY DEF MessagesStay
<1> QED
  BY <1>1, <1>2 DEF KeepsItems, SameSaga, IsFresh, HeldBy, NewItems, Item

LEMMA InPlace ==
  ASSUME VendorTypes, NEW e \in Drains
  PROVE  /\ pc[e] # "idle" => msg[e] \in DOMAIN inbox
         /\ pc[e] = "idle" => events[e] = <<>>
BY ItemTyped DEF VendorTypes, Stands

\* A message is marked processed by a commit only.
NoneProcessed == \A k \in DOMAIN inbox' :
  inbox'[k].status = "processed" => k \in DOMAIN inbox /\ inbox[k].status = "processed"

LEMMA NothingNew ==
  ASSUME MessagesStay, NothingDropped, holder' = holder,
         NoneProcessed
  PROVE  NothingDropped'
<1>1. \A i : Deleted(i) => Deleted(i)'
  BY DeletedStays
<1> QED
  BY <1>1 DEF NothingDropped, MessagesStay, NoneProcessed, Upsert

LEMMA LocalDropsNone ==
  ASSUME DropInv, NEW d \in Drains, Local(d), KeepsItems(d)', StreamInv'
  PROVE  DropInv'
<1>1. MessagesStay /\ NoneProcessed /\ UNCHANGED <<inbox, holder, stream>> /\ VendorTypes
  BY DEF MessagesStay, NoneProcessed, Local, DropInv, StreamInv
<1>2. \A e \in Drains \ {d} : KeepsItems(e)'
  BY <1>1, KeepsOn, InPlace DEF Local, DropInv
<1>3. NothingDropped'
  BY <1>1, NothingNew DEF DropInv
<1> QED
  BY <1>2, <1>3 DEF DropInv

LEMMA EarlyDropsNone ==
  ASSUME DropInv, NEW d \in Drains, Early(d)
  PROVE  DropInv'
<1>1. StreamInv'
  BY EarlyStream DEF DropInv
<1>2. KeepsItems(d)'
  BY DEF Early, Local, KeepsItems
<1> QED
  BY <1>1, <1>2, LocalDropsNone DEF Early

LEMMA DispatchDropsNone ==
  ASSUME DropInv, NEW d \in Drains, NEW v \in Ids, Dispatches(d, v)
  PROVE  DropInv'
<1>1. VendorTypes /\ RowsAgree /\ Stands(d) /\ Holds(d, v) /\ Null \notin Ids /\ Null \notin ItemData
  BY NullIsNone DEF DropInv, StreamInv, VendorTypes, Dispatches
<1>2. Local(d) /\ owner'[d] = v /\ msg' = msg /\ inbox' = inbox /\ holder' = holder
      /\ pc[d] \in {"resolve", "remove"}
  BY <1>1, HoldsLocal DEF Holds, Local
<1> DEFINE i == Item(d)
           J == vendor'[d].snapshot.items
<1>3. i \in Items /\ msg[d] \in DOMAIN inbox /\ Item(d)' = i
  BY <1>1, <1>2, ItemTyped DEF Item
<1>4. inbox[msg[d]].kind = "upsert" => pc[d] = "resolve"
  BY <1>1, <1>2 DEF Stands
<1>5. pc[d] = "resolve" => Applied(d) # Null
  BY <1>1, ResolveTyped DEF Applied
<1>6. pc[d] = "remove" => Deleted(i)
  BY <1>1, <1>3 DEF Stands, Deleted, Item
<1>7. \A x : Deleted(x)' <=> Deleted(x)
  BY <1>2 DEF Deleted
<1>8. NewItems(d)' = {x \in Items : J[x] # Null} /\ HeldBy(v)' = HeldBy(v)
  BY <1>2 DEF NewItems, HeldBy
<1>9. CASE Creates(d, v)
  <2>1. J = [NoItems EXCEPT ![i] = Applied(d)] /\ pc[d] = "resolve" /\ events'[d] # <<>>
    BY <1>9 DEF Creates
  <2>2. J[i] = Applied(d)
    BY <1>3, <2>1 DEF NoItems
  <2>3. HeldBy(v) = {}
    BY <1>1, <1>9 DEF RowsAgree, Creates
  <2>4. i \in NewItems(d)'
    BY <1>3, <1>5, <1>8, <2>1, <2>2
  <2>5. HeldBy(owner[d])' = {}
    BY <1>2, <1>8, <2>3 DEF HeldBy
  <2>6. KeepsItems(d)'
    BY <1>3, <2>1, <2>4, <2>5 DEF KeepsItems
  <2>7. StreamInv'
    BY DispatchStream DEF DropInv
  <2> QED
    BY <1>2, <2>6, <2>7, LocalDropsNone
<1>10. ASSUME NEW S \in SUBSET Ids, Updates(d, v, S)
       PROVE  DropInv'
  <2>1. J = [ItemsOf(S) EXCEPT ![i] = Applied(d)] /\ v \in S
    BY <1>10 DEF Updates
  <2>2. J[i] = Applied(d) /\ \A x \in Items \ {i} : J[x] = IF holder[x] \in S THEN stored[x] ELSE Null
    BY <1>3, <2>1 DEF ItemsOf
  <2>3. ASSUME NEW x \in Items, holder[x] = v, J[x] = Null PROVE Deleted(x)
    <3>1. stored[x] # Null
      BY <1>1, <2>3 DEF RowsAgree
    <3>2. x = i
      BY <2>1, <2>2, <2>3, <3>1
    <3> QED
      BY <1>2, <1>5, <1>6, <2>2, <2>3, <3>2
  <2>4. \A x \in HeldBy(owner[d])' \ NewItems(d)' : Deleted(x)'
    BY <1>2, <1>7, <1>8, <2>3 DEF HeldBy
  <2>5. inbox[msg[d]].kind = "upsert" => i \in NewItems(d)'
    BY <1>3, <1>4, <1>5, <1>8, <2>2
  <2>6. ASSUME events'[d] = <<>>, pc[d] = "resolve" PROVE holder[i] # Null
    <3>1. vendor'[d] = LoadedFrom(v, S)
      BY <1>10, <2>6, FoldOfNone DEF Updates
    <3>2. J = ItemsOf(S)
      BY <1>1, <1>10, <3>1, LoadedTyped DEF Updates
    <3>3. ItemsOf(S)[i] # Null
      BY <1>5, <2>2, <2>6, <3>2
    <3> QED
      BY <1>1, <1>3, <3>3 DEF ItemsOf
  <2>7. KeepsItems(d)'
    BY <1>2, <1>3, <1>4, <2>4, <2>5, <2>6 DEF KeepsItems
  <2>8. StreamInv'
    BY DispatchStream DEF DropInv
  <2> QED
    BY <1>2, <2>7, <2>8, LocalDropsNone
<1> QED
  BY <1>9, <1>10 DEF Dispatches

LEMMA SavingDropsNone ==
  ASSUME DropInv, NEW d \in Drains, SaveRow(d) \/ SaveItems(d)
  PROVE  DropInv'
<1>1. /\ Local(d) /\ UNCHANGED <<msg, base, vendor, owner, events>>
      /\ pc[d] \in {"row", "items"} /\ VendorTypes /\ Stands(d) /\ KeepsItems(d)
  BY SavingLocal DEF DropInv, StreamInv, VendorTypes
<1>2. events[d] # <<>> /\ UNCHANGED <<inbox, holder, stream>>
  BY <1>1 DEF Stands, Local
<1>3. KeepsItems(d)'
  BY <1>1, <1>2 DEF KeepsItems, IsFresh, HeldBy, NewItems, Item, Deleted
<1>4. StreamInv'
  BY SaveRowStream, SaveItemsStream DEF DropInv
<1> QED
  BY <1>1, <1>3, <1>4, LocalDropsNone

LEMMA EndsDropNone ==
  ASSUME DropInv, NEW d \in Drains, Ends(d)
  PROVE  DropInv'
<1>1. VendorTypes /\ UNCHANGED <<holder, stream>>
      /\ (\A e \in Drains \ {d} : SameSaga(e)) /\ pc'[d] = "idle" /\ events'[d] = <<>>
  BY ForgetsOnly DEF DropInv, StreamInv, Ends
<1>2. MessagesStay
      /\ NoneProcessed
  BY <1>1, EndsTyped DEF MessagesStay, NoneProcessed
<1>3. KeepsItems(d)'
  BY <1>1 DEF KeepsItems
<1>4. \A e \in Drains \ {d} : KeepsItems(e)'
  BY <1>1, <1>2, KeepsOn, InPlace DEF DropInv
<1>5. NothingDropped'
  BY <1>1, <1>2, NothingNew DEF DropInv
<1>6. StreamInv'
  BY EndsStream DEF DropInv
<1> QED
  BY <1>3, <1>4, <1>5, <1>6 DEF DropInv

LEMMA CommitDropsNone ==
  ASSUME DropInv, NEW d \in Drains, Commit(d)
  PROVE  DropInv'
<1>1. StreamInv /\ VendorTypes /\ KeepsItems(d) /\ pc[d] = "commit" /\ NothingDropped
      /\ holder \in [Items -> Ids \cup {Null}] /\ Null \notin Ids
  BY NullIsNone DEF DropInv, StreamInv, Commit, VendorTypes, TablesOK
<1>2. StreamInv'
  BY <1>1, CommitStream
<1>3. (\A e \in Drains \ {d} : SameSaga(e)) /\ pc'[d] = "idle" /\ events'[d] = <<>>
  BY <1>1, CommitTyped
<1>4. Marks(d, {"processed"})
  BY <1>1, CommitMarks
<1>5. MessagesStay
  BY <1>4 DEF Marks, MessagesStay
<1>6. \A i : Deleted(i) => Deleted(i)'
  BY <1>5, DeletedStays
<1>7. Item(d) \in Items /\ msg[d] \in DOMAIN inbox
  BY <1>1, ItemTyped
\* What had a holder has one, or was deleted.
<1>8. ASSUME NEW i \in Items, holder[i] # Null
      PROVE  holder'[i] # Null \/ Deleted(i)
  <2>1. CASE events[d] = <<>>
    BY <1>8, <2>1 DEF Commit
  <2>2. CASE events[d] # <<>>
    <3>1. SavesFresh(d) /\ Saved(d)
      BY <1>1, <2>2, CommitFresh, CommitSaves
    <3>2. IsFresh(d) /\ owner[d] # Null
      BY <1>1, <3>1 DEF SavesFresh
    <3>3. CASE i \in NewItems(d)
      BY <1>1, <3>1, <3>2, <3>3, SavedGives
    <3>4. CASE i \notin NewItems(d) /\ holder[i] = owner[d]
      BY <1>1, <2>2, <3>2, <3>4 DEF KeepsItems, HeldBy
    <3>5. CASE i \notin NewItems(d) /\ holder[i] # owner[d]
      BY <1>1, <1>8, <3>1, <3>5, SavedGives
    <3> QED
      BY <3>3, <3>4, <3>5
  <2> QED
    BY <2>1, <2>2
\* An upsert leaves its item with a holder.
<1>9. ASSUME inbox[msg[d]].kind = "upsert"
      PROVE  holder'[Item(d)] # Null \/ Deleted(Item(d))
  <2>1. CASE events[d] = <<>>
    BY <1>1, <1>9, <2>1 DEF Commit, KeepsItems
  <2>2. CASE events[d] # <<>>
    <3>1. SavesFresh(d) /\ Saved(d)
      BY <1>1, <2>2, CommitFresh, CommitSaves
    <3>2. Item(d) \in NewItems(d) /\ owner[d] # Null
      BY <1>1, <1>9, <2>2, <3>1 DEF KeepsItems, SavesFresh
    <3> QED
      BY <1>1, <1>7, <3>1, <3>2, SavedGives
  <2> QED
    BY <2>1, <2>2
<1>10. NothingDropped'
  <2> SUFFICES ASSUME NEW i \in Items, ~Deleted(i)',
                      NEW k \in DOMAIN inbox', Upsert(i, k)', inbox'[k].status = "processed"
               PROVE  holder'[i] # Null
    BY DEF NothingDropped
  <2>1. k \in DOMAIN inbox /\ inbox[k].item = i /\ inbox[k].kind = "upsert" /\ ~Deleted(i)
    BY <1>4, <1>6 DEF Marks, Upsert
  <2>2. CASE k = msg[d]
    BY <1>9, <2>1, <2>2 DEF Item
  <2>3. CASE k # msg[d]
    <3>1. inbox[k].status = "processed"
      BY <1>4, <2>1, <2>3 DEF Marks
    <3>2. holder[i] # Null
      BY <1>1, <2>1, <3>1 DEF NothingDropped, Upsert
    <3> QED
      BY <1>8, <2>1, <3>2
  <2> QED
    BY <2>2, <2>3
<1>11. ASSUME NEW e \in Drains \ {d} PROVE KeepsItems(e)'
  <2>1. KeepsItems(e) /\ SameSaga(e) /\ Saves(e)
        /\ (pc[e] # "idle" => msg[e] \in DOMAIN inbox /\ Item(e) \in Items)
        /\ (pc[e] = "idle" => events[e] = <<>>)
    BY <1>1, <1>3, InPlace, ItemTyped DEF DropInv, StreamInv
  <2>2. pc[e] # "idle" => inbox'[msg[e]].item = inbox[msg[e]].item /\ inbox'[msg[e]].kind = inbox[msg[e]].kind
    BY <1>5, <2>1 DEF MessagesStay
  <2>3. ASSUME events[e] # <<>>, IsFresh(e)'
        PROVE  \A i \in HeldBy(owner[e])' \ NewItems(e)' : Deleted(i)'
    <3>1. owner[e] \in Ids /\ owner'[e] = owner[e] /\ vendor'[e] = vendor[e] /\ base'[e] = base[e]
      BY <2>1, <2>3 DEF Saves, SameSaga
    <3>2. CASE events[d] = <<>>
      <4>1. UNCHANGED <<holder, stream>>
        BY <3>2 DEF Commit
      <4> QED
        BY <1>6, <2>1, <2>3, <3>1, <4>1 DEF KeepsItems, IsFresh, HeldBy, NewItems
    <3>3. CASE events[d] # <<>>
      <4>1. SavesFresh(d) /\ Saved(d)
        BY <1>1, <3>3, CommitFresh, CommitSaves
      <4>2. owner[e] # owner[d]
        <5>1. SUFFICES ASSUME owner[e] = owner[d] PROVE FALSE
          OBVIOUS
        <5> DEFINE o == owner[d]
                   n == Len(stream[o])
                   k == Len(events[d])
                   b == base[e]
                   m == Len(stream'[o])
        <5>2. /\ o \in Ids /\ stream[o] \in Seq(VendorEvents) /\ stream'[o] = stream[o] \o events[d]
              /\ events[d] \in Seq(VendorEvents) /\ events[d] # <<>> /\ b \in Nat /\ b <= n
          BY <1>1, <2>1, <2>3, <4>1, <5>1, SavedGives
             DEF SavesFresh, VendorTypes, TablesOK, SagasOK, Saves
        <5>3. m = n + k /\ n \in Nat /\ k \in Nat \ {0}
          BY <5>2, AppendLonger
        <5>4. m = b
          BY <2>3, <3>1, <5>1 DEF IsFresh
        <5> HIDE DEF n, k, b, m
        <5> QED
          BY <5>2, <5>3, <5>4
      <4>3. owner[e] \in Ids \ {owner[d]}
        BY <3>1, <4>2
      <4>4. \A v \in Ids \ {owner[d]} : HeldBy(v)' = HeldBy(v) /\ stream'[v] = stream[v]
        BY <1>1, <4>1, SavedGives
      <4>5. HeldBy(owner[e])' = HeldBy(owner[e]) /\ stream'[owner[e]] = stream[owner[e]]
        BY <3>1, <4>3, <4>4 DEF HeldBy
      <4>6. IsFresh(e) /\ NewItems(e)' = NewItems(e)
        BY <2>3, <3>1, <4>5 DEF IsFresh, NewItems
      <4> QED
        BY <1>6, <2>1, <2>3, <4>5, <4>6 DEF KeepsItems
    <3> QED
      BY <3>2, <3>3
  <2>4. ASSUME pc[e] = "commit", events[e] = <<>>, inbox[msg[e]].kind = "upsert"
        PROVE  holder'[Item(e)] # Null \/ Deleted(Item(e))'
    <3>1. PICK i \in Items : i = Item(e)
      BY <2>1, <2>4
    <3>2. Item(e)' = i
      BY <2>1, <2>2, <2>4, <3>1 DEF SameSaga, Item
    <3>3. holder[i] # Null \/ Deleted(i)
      BY <2>1, <2>4, <3>1 DEF KeepsItems
    <3>4. holder'[i] # Null \/ Deleted(i)
      BY <1>8, <3>3
    <3>5. Deleted(i) => Deleted(i)'
      BY <1>6
    <3>6. Deleted(i)' => Deleted(Item(e))'
      BY <3>2 DEF Deleted
    <3> QED
      BY <3>1, <3>4, <3>5, <3>6
  <2>5. pc[e] # "idle" => Item(e)' = Item(e) /\ msg'[e] = msg[e]
    BY <2>1, <2>2 DEF SameSaga, Item
  <2>6. pc'[e] = pc[e] /\ events'[e] = events[e] /\ NewItems(e)' = NewItems(e)
        /\ inbox'[msg'[e]].kind = inbox'[msg[e]].kind
    BY <2>1 DEF SameSaga, NewItems
  <2>7. events[e] # <<>> => pc[e] # "idle"
    BY <2>1
  <2> QED
    BY <2>1, <2>2, <2>3, <2>4, <2>5, <2>6, <2>7 DEF KeepsItems
<1>12. KeepsItems(d)'
  BY <1>3 DEF KeepsItems
<1> QED
  BY <1>2, <1>10, <1>11, <1>12 DEF DropInv

\* Clover's messages are new ones.
LEMMA MerchantAnnounces ==
  ASSUME VendorTypes, Merchant
  PROVE  /\ MessagesStay
         /\ \A k \in DOMAIN inbox : inbox'[k] = inbox[k]
         /\ \A k \in DOMAIN inbox' \ DOMAIN inbox : inbox'[k].status = "pending"
<1>1. ASSUME NEW kind \in {"upsert", "delete"}, NEW i \in Items, Announce(kind, i)
      PROVE  /\ \A k \in DOMAIN inbox : k \in DOMAIN inbox' /\ inbox'[k] = inbox[k]
             /\ \A k \in DOMAIN inbox' \ DOMAIN inbox : inbox'[k].status = "pending"
  <2>1. /\ DOMAIN inbox = 1 .. Len(inbox) /\ DOMAIN inbox' = 1 .. Len(inbox) + 1
        /\ \A k \in DOMAIN inbox : inbox'[k] = inbox[k]
        /\ inbox'[Len(inbox) + 1] = Message(kind, i) /\ Len(inbox) \in Nat
    BY <1>1, Announced DEF VendorTypes, TablesOK
  <2>2. \A k \in DOMAIN inbox' \ DOMAIN inbox : k = Len(inbox) + 1
    BY <2>1
  <2>3. Message(kind, i).status = "pending"
    BY DEF Message
  <2> QED
    BY <2>1, <2>2, <2>3
<1>2. /\ \A k \in DOMAIN inbox : k \in DOMAIN inbox' /\ inbox'[k] = inbox[k]
      /\ \A k \in DOMAIN inbox' \ DOMAIN inbox : inbox'[k].status = "pending"
  <2>1. ASSUME NEW i \in Items, NEW filing \in Filings, NEW data \in ItemData, EditItem(i, filing, data)
        PROVE  Announce("upsert", i)
    BY <2>1 DEF EditItem
  <2>2. ASSUME NEW i \in Items, DeleteItem(i) PROVE Announce("delete", i)
    BY <2>2 DEF DeleteItem
  <2>3. ASSUME NEW c \in Categories, NEW t \in Titles, RenameCategory(c, t) PROVE inbox' = inbox
    BY <2>3 DEF RenameCategory, tables
  <2> QED
    BY <1>1, <2>1, <2>2, <2>3 DEF Merchant
<1> QED
  BY <1>2 DEF MessagesStay

LEMMA AloneDropsNone ==
  ASSUME DropInv, StreamInv', MessagesStay, UNCHANGED <<holder, stream, saga>>,
         NoneProcessed
  PROVE  DropInv'
<1>1. \A e \in Drains : SameSaga(e)
  BY DEF saga, SameSaga
<1>2. \A e \in Drains : KeepsItems(e)'
  BY <1>1, KeepsOn, InPlace DEF DropInv, StreamInv
<1>3. NothingDropped'
  BY NothingNew DEF DropInv
<1> QED
  BY <1>2, <1>3 DEF DropInv

LEMMA NextDropsNone ==
  ASSUME DropInv, [Next]_vars
  PROVE  DropInv'
<1>1. StreamInv /\ VendorTypes /\ RowsAgree /\ StreamInv'
  BY NextStream DEF DropInv, StreamInv
<1>2. CASE Merchant
  <2>1. /\ MessagesStay
        /\ NoneProcessed
    BY <1>1, <1>2, MerchantAnnounces DEF NoneProcessed
  <2>2. UNCHANGED <<holder, stream, saga>>
    BY <1>2, MerchantLeaves
  <2> QED
    BY <1>1, <2>1, <2>2, AloneDropsNone
<1>3. ASSUME NEW d \in Drains, Drain(d) \/ Fail(d)
      PROVE  DropInv'
  <2>1. \/ Early(d)
        \/ \E v \in Ids : Dispatches(d, v)
        \/ SaveRow(d) \/ SaveItems(d)
        \/ Commit(d)
        \/ pc[d] # "idle" /\ Ends(d)
    BY <1>1, <1>3, DrainDoes
  <2> QED
    BY <2>1, EarlyDropsNone, DispatchDropsNone, SavingDropsNone, CommitDropsNone, EndsDropNone
<1>4. CASE UNCHANGED vars
  <2>1. UNCHANGED <<inbox, holder, stream, saga>>
    BY <1>4 DEF vars, tables
  <2>2. MessagesStay
        /\ NoneProcessed
    BY <2>1 DEF MessagesStay, NoneProcessed
  <2> QED
    BY <1>1, <2>1, <2>2, AloneDropsNone
<1> QED
  BY <1>2, <1>3, <1>4 DEF Next

LEMMA InitDrops ==
  ASSUME Init
  PROVE  DropInv
<1>1. StreamInv
  BY InitStream
<1>2. \A d \in Drains : KeepsItems(d)
  BY DEF Init, KeepsItems
<1>3. NothingDropped
  BY FirstMessages, MessageTyped DEF NothingDropped
<1> QED
  BY <1>1, <1>2, <1>3 DEF DropInv

\* An item that was applied and never deleted stays with a vendor, whatever stale
\* snapshots other sagas save (vendor-items.ts).
THEOREM NothingIsDropped == Spec => []NothingDropped
<1>1. Init => DropInv
  BY InitDrops
<1>2. DropInv /\ [Next]_vars => DropInv'
  BY NextDropsNone
<1>3. DropInv => NothingDropped
  BY DEF DropInv
<1> QED
  BY <1>1, <1>2, <1>3, PTL DEF Spec
-----------------------------------------------------------------------------
(* One drain at a time.                                                     *)

\* While one saga runs, the others do not.
LEMMA OthersIdle ==
  ASSUME VendorTypes, OneByOne, NEW d \in Drains, pc[d] # "idle",
         \A e \in Drains \ {d} : SameSaga(e)
  PROVE  \A e \in Drains \ {d} :
           /\ pc[e] = "idle" /\ pc'[e] = "idle" /\ events'[e] = <<>>
           /\ CreatesOne(e)' /\ AppliesCurrent(e)'
<1> SUFFICES ASSUME NEW e \in Drains \ {d}
             PROVE  /\ pc[e] = "idle" /\ pc'[e] = "idle" /\ events'[e] = <<>>
                    /\ CreatesOne(e)' /\ AppliesCurrent(e)'
  OBVIOUS
<1>1. pc[e] = "idle"
  BY DEF OneByOne
<1>2. pc'[e] = "idle" /\ events'[e] = <<>>
  BY <1>1, InPlace DEF SameSaga
<1> QED
  BY <1>1, <1>2 DEF CreatesOne, AppliesCurrent

LEMMA HeardStays ==
  ASSUME CloverIsHeard, UNCHANGED clover, DOMAIN inbox' = DOMAIN inbox, MessagesStay
  PROVE  CloverIsHeard'
BY DEF CloverIsHeard, Deleted, MessagesStay

\* A step of the only saga that runs.
LEMMA LocalSerial ==
  ASSUME VendorTypes, SerialInv, NEW d \in Drains, Local(d), pc[d] # "idle", msg'[d] = msg[d],
         ~overlap => CreatesOne(d)' /\ AppliesCurrent(d)'
  PROVE  SerialInv'
<1>1. UNCHANGED <<clover, inbox, vendors, holder, stored, overlap>>
      /\ \A e \in Drains \ {d} : SameSaga(e)
  BY DEF Local
<1>2. CloverIsHeard'
  BY <1>1, HeardStays DEF SerialInv, MessagesStay
<1>3. ASSUME ~overlap
      PROVE  /\ OneByOne' /\ NoTwins' /\ ProcessedIsCurrent'
             /\ \A e \in Drains : CreatesOne(e)' /\ AppliesCurrent(e)'
  <2>1. OneByOne /\ NoTwins /\ ProcessedIsCurrent
    BY <1>3 DEF SerialInv
  <2>2. \A e \in Drains \ {d} : pc'[e] = "idle" /\ CreatesOne(e)' /\ AppliesCurrent(e)'
    BY <1>1, <2>1, OthersIdle
  <2>3. OneByOne'
    BY <1>1, <2>1, <2>2 DEF OneByOne
  <2>4. NoTwins'
    BY <1>1, <2>1 DEF NoTwins, Twinned
  <2>5. ProcessedIsCurrent'
    BY <1>1, <2>1 DEF ProcessedIsCurrent
  <2> QED
    BY <1>3, <2>2, <2>3, <2>4, <2>5
<1> QED
  BY <1>1, <1>2, <1>3 DEF SerialInv

LEMMA LoadSerial ==
  ASSUME VendorTypes, SerialInv, NEW d \in Drains, Load(d)
  PROVE  SerialInv'
<1>1. Local(d) /\ events'[d] = <<>> /\ SagasOK
  BY LoadEarly DEF Early, VendorTypes
<1>2. UNCHANGED <<clover, inbox, vendors, holder, stored, overlap>>
      /\ \A e \in Drains \ {d} : SameSaga(e)
  BY <1>1 DEF Local
<1>3. PICK k \in DOMAIN inbox :
        /\ inbox[k].status = "pending" /\ msg' = [msg EXCEPT ![d] = k]
        /\ pc' = [pc EXCEPT ![d] = IF inbox[k].kind = "delete" THEN "find" ELSE "fetch"]
  BY DEF Load, Goto
<1>4. CloverIsHeard'
  BY <1>2, HeardStays DEF SerialInv, MessagesStay
<1>5. ASSUME ~overlap
      PROVE  /\ OneByOne' /\ NoTwins' /\ ProcessedIsCurrent'
             /\ \A e \in Drains : CreatesOne(e)' /\ AppliesCurrent(e)'
  <2>1. OneByOne /\ NoTwins /\ ProcessedIsCurrent /\ \A e \in Drains : pc[e] = "idle"
    BY <1>5 DEF SerialInv, Load
  <2>2. ASSUME NEW e \in Drains \ {d}
        PROVE  pc'[e] = "idle" /\ CreatesOne(e)' /\ AppliesCurrent(e)'
    <3>1. pc'[e] = "idle" /\ events'[e] = <<>>
      BY <1>2, <2>1, InPlace DEF SameSaga
    <3> QED
      BY <3>1 DEF CreatesOne, AppliesCurrent
  <2>3. msg'[d] = k /\ pc'[d] \in {"find", "fetch"}
    BY <1>1, <1>3 DEF SagasOK
  <2>4. OneByOne'
    BY <1>2, <1>3, <2>2, <2>3 DEF OneByOne
  <2>5. CreatesOne(d)' /\ AppliesCurrent(d)'
    BY <1>1, <2>3 DEF CreatesOne, AppliesCurrent
  <2>6. NoTwins'
    BY <1>2, <2>1 DEF NoTwins, Twinned
  <2>7. ProcessedIsCurrent'
    BY <1>2, <2>1 DEF ProcessedIsCurrent
  <2> QED
    BY <2>2, <2>4, <2>5, <2>6, <2>7
<1> QED
  BY <1>2, <1>4, <1>5 DEF SerialInv

LEMMA FetchSerial ==
  ASSUME VendorTypes, SerialInv, NEW d \in Drains, Fetch(d)
  PROVE  SerialInv'
<1>1. Local(d) /\ events'[d] = <<>> /\ fetched'[d].data = clover[Item(d)].data
  BY FetchEarly DEF Early
<1>2. SagasOK /\ pc[d] = "fetch" /\ clover[Item(d)] # Null /\ msg' = msg /\ inbox' = inbox /\ clover' = clover
  BY DEF Fetch, VendorTypes, cloverSide, tables
<1>3. pc'[d] = "resolve" /\ rest'[d] = clover[Item(d)].filing
      /\ fetched'[d].filing = clover[Item(d)].filing
  BY <1>2 DEF Fetch, Goto, SagasOK
<1>4. Item(d)' = Item(d)
  BY <1>2 DEF Item
<1>5. CreatesOne(d)'
  BY <1>1, <1>3 DEF CreatesOne
<1>6. AppliesCurrent(d)'
  BY <1>1, <1>2, <1>3, <1>4 DEF AppliesCurrent, Tells
<1> QED
  BY <1>1, <1>2, <1>5, <1>6, LocalSerial

LEMMA NextSerial ==
  ASSUME VendorTypes, SerialInv, NEW d \in Drains, TryNextCategory(d)
  PROVE  SerialInv'
<1>1. Local(d) /\ events'[d] = <<>>
  BY NextEarly DEF Early
<1>2. /\ SagasOK /\ pc[d] = "resolve" /\ rest[d] \in Seq(Categories) /\ Len(rest[d]) > 1
      /\ UNCHANGED <<pc, msg, fetched, inbox, clover, vendors, holder, stored>>
      /\ rest'[d] = Tail(rest[d]) /\ LinkedTo(Head(rest[d])) = {}
  BY DEF TryNextCategory, VendorTypes, SagasOK, cloverSide, tables
<1>3. ASSUME ~overlap PROVE CreatesOne(d)' /\ AppliesCurrent(d)'
  <2>1. CreatesOne(d) /\ AppliesCurrent(d)
    BY <1>3 DEF SerialInv
  <2>2. rest[d] # <<>>
    BY <1>2
  <2>3. LinkedTo(Head(fetched[d].filing)) = {}
    BY <1>2, <2>1, <2>2 DEF CreatesOne
  <2>4. CreatesOne(d)'
    BY <1>1, <1>2, <2>3 DEF CreatesOne, LinkedTo
  <2>5. AppliesCurrent(d)'
    BY <1>1, <1>2, <2>1 DEF AppliesCurrent, Tells, Item
  <2> QED
    BY <2>4, <2>5
<1> QED
  BY <1>1, <1>2, <1>3, LocalSerial

LEMMA FindSerial ==
  ASSUME VendorTypes, RowsAgree, SerialInv, NEW d \in Drains, NobodyHolds(d) \/ FindHolder(d)
  PROVE  SerialInv'
<1>1. Local(d) /\ events'[d] = <<>>
  BY FindEarly DEF Early
<1>2. /\ SagasOK /\ pc[d] = "find" /\ Item(d) \in Items /\ inbox[msg[d]].kind = "delete"
      /\ UNCHANGED <<msg, inbox, holder, stored>>
  BY ItemTyped DEF NobodyHolds, FindHolder, VendorTypes, Stands, cloverSide, tables
<1>3. Item(d)' = Item(d)
  BY <1>2 DEF Item
<1>4. pc'[d] \in {"commit", "remove"}
      /\ (pc'[d] = "commit" => stored[Item(d)] = Null)
      /\ (pc'[d] = "remove" => owner'[d] = holder[Item(d)])
  <2>1. CASE NobodyHolds(d)
    BY <1>2, <2>1 DEF NobodyHolds, Goto, SagasOK, RowsAgree
  <2>2. CASE FindHolder(d)
    BY <1>2, <2>2 DEF FindHolder, Goto, SagasOK
  <2> QED
    BY <2>1, <2>2
<1>5. CreatesOne(d)'
  BY <1>1, <1>4 DEF CreatesOne
<1>6. AppliesCurrent(d)'
  BY <1>1, <1>2, <1>3, <1>4 DEF AppliesCurrent
<1> QED
  BY <1>1, <1>2, <1>5, <1>6, LocalSerial

LEMMA SavingSerial ==
  ASSUME VendorTypes, SerialInv, NEW d \in Drains, SaveRow(d) \/ SaveItems(d)
  PROVE  SerialInv'
<1>1. /\ Local(d) /\ UNCHANGED <<msg, base, vendor, owner, events>>
      /\ pc[d] \in {"row", "items"} /\ pc'[d] \in {"items", "commit"} /\ events[d] # <<>>
  BY SavingLocal DEF VendorTypes, Stands
<1>2. UNCHANGED <<clover, inbox, vendors, holder, stored>>
  BY <1>1 DEF Local
<1>3. ASSUME ~overlap PROVE CreatesOne(d)' /\ AppliesCurrent(d)'
  <2>1. CreatesOne(d) /\ AppliesCurrent(d)
    BY <1>3 DEF SerialInv
  <2>2. CreatesOne(d)'
    BY <1>1, <1>2, <2>1 DEF CreatesOne, LinkedTo
  <2>3. AppliesCurrent(d)'
    BY <1>1, <1>2, <2>1 DEF AppliesCurrent, Tells, Item
  <2> QED
    BY <2>2, <2>3
<1> QED
  BY <1>1, <1>3, LocalSerial

LEMMA DispatchSerial ==
  ASSUME VendorTypes, RowsAgree, SerialInv, NEW d \in Drains, NEW v \in Ids, Dispatches(d, v)
  PROVE  SerialInv'
<1>1. Stands(d) /\ Holds(d, v) /\ Null \notin Ids /\ Null \notin ItemData /\ Null \notin Categories
  BY NullIsNone DEF VendorTypes, Dispatches
<1>2. Local(d) /\ owner'[d] = v /\ msg' = msg /\ inbox' = inbox /\ holder' = holder /\ stored' = stored
      /\ vendors' = vendors /\ clover' = clover
      /\ pc[d] \in {"resolve", "remove"} /\ pc'[d] = (IF events'[d] = <<>> THEN "commit" ELSE "row")
  BY <1>1, HoldsLocal DEF Holds, Local
<1> DEFINE i == Item(d)
           J == vendor'[d].snapshot.items
<1>3. i \in Items /\ msg[d] \in DOMAIN inbox /\ Item(d)' = i
  BY <1>1, <1>2, ItemTyped DEF Item
<1>4. /\ pc[d] = "resolve" => inbox[msg[d]].kind = "upsert"
      /\ pc[d] = "remove" => inbox[msg[d]].kind = "delete"
  BY <1>1 DEF Stands
<1>5. pc[d] = "resolve" => Applied(d) # Null /\ Applied(d) = fetched[d].data
  BY <1>1, ResolveTyped DEF Applied
<1>6. pc[d] = "remove" => Applied(d) = Null
  BY DEF Applied
<1>7. SUFFICES ASSUME ~overlap PROVE CreatesOne(d)' /\ AppliesCurrent(d)'
  BY <1>1, <1>2, LocalSerial
<1>8. CreatesOne(d) /\ AppliesCurrent(d) /\ NoTwins
  BY <1>7 DEF SerialInv
\* What the saga will save of the other items, and of its own.
<1>9. ASSUME \A x \in Items \ {i} : J[x] = IF holder[x] = v THEN stored[x] ELSE Null,
             J[i] = Applied(d), pc[d] = "remove" => v = owner[d],
             events'[d] = <<>> => stored[i] = Applied(d)
      PROVE  AppliesCurrent(d)'
  <2>1. pc[d] = "resolve" => Tells(d, Applied(d))
    BY <1>5, <1>8 DEF AppliesCurrent
  <2>2. pc[d] = "remove" => holder[i] = v
    BY <1>8, <1>9 DEF AppliesCurrent
  <2>3. pc'[d] \notin {"resolve", "remove"}
    BY <1>2
  <2>4. ASSUME events'[d] # <<>>
        PROVE  /\ \A x \in Items \ {i} : J[x] = IF holder[x] = owner'[d] THEN stored[x] ELSE Null
               /\ IF inbox[msg[d]].kind = "upsert" THEN J[i] # Null /\ Tells(d, J[i])
                  ELSE J[i] = Null /\ holder[i] = owner'[d]
    BY <1>2, <1>4, <1>5, <1>6, <1>9, <2>1, <2>2
  <2>5. ASSUME events'[d] = <<>>
        PROVE  IF inbox[msg[d]].kind = "upsert" THEN Tells(d, stored[i]) ELSE stored[i] = Null
    BY <1>2, <1>4, <1>6, <1>9, <2>1, <2>5
  <2> HIDE DEF i
  <2>6. events'[d] # <<>> =>
          /\ \A x \in Items \ {Item(d)'} : J[x] = IF holder'[x] = owner'[d] THEN stored'[x] ELSE Null
          /\ IF inbox'[msg'[d]].kind = "upsert"
               THEN J[Item(d)'] # Null /\ Tells(d, vendor[d].snapshot.items[Item(d)])'
             ELSE J[Item(d)'] = Null /\ holder'[Item(d)'] = owner'[d]
    BY <1>2, <1>3, <2>4 DEF Tells, i
  <2>7. events'[d] = <<>> =>
          IF inbox'[msg'[d]].kind = "upsert" THEN Tells(d, stored[Item(d)])' ELSE stored'[Item(d)'] = Null
    BY <1>2, <1>3, <2>5 DEF Tells, i
  <2> QED
    BY <2>3, <2>6, <2>7 DEF AppliesCurrent
<1>10. ASSUME Creates(d, v) PROVE CreatesOne(d)' /\ AppliesCurrent(d)'
  <2>1. J = [NoItems EXCEPT ![i] = Applied(d)] /\ pc[d] = "resolve" /\ events'[d] # <<>>
    BY <1>10 DEF Creates
  <2>2. \A x \in Items \ {i} : J[x] = Null
    BY <1>3, <2>1 DEF NoItems
  <2>3. J[i] = Applied(d)
    BY <1>3, <2>1 DEF NoItems
  <2>4. \A x \in Items : holder[x] # v
    BY <1>10 DEF Creates, RowsAgree, HeldBy
  <2>5. AppliesCurrent(d)'
    BY <1>9, <2>1, <2>2, <2>3, <2>4
  <2>6. \/ vendor'[d].snapshot.category = Null
        \/ LinkedTo(vendor'[d].snapshot.category) = {}
    <3>1. SUFFICES ASSUME Len(rest[d]) = 1, LinkedTo(Head(rest[d])) = {},
                          vendor'[d].snapshot.category = Head(fetched[d].filing)
                   PROVE  LinkedTo(Head(fetched[d].filing)) = {}
      BY <1>10 DEF Creates
    <3>2. rest[d] # <<>>
      <4>1. Len(<<>>) = 0
        OBVIOUS
      <4> QED
        BY <3>1, <4>1
    <3> QED
      BY <1>8, <2>1, <3>1, <3>2 DEF CreatesOne
  <2>7. CreatesOne(d)'
    BY <1>2, <2>6 DEF CreatesOne, LinkedTo
  <2> QED
    BY <2>5, <2>7
<1>11. ASSUME NEW S \in SUBSET Ids, Updates(d, v, S)
       PROVE  CreatesOne(d)' /\ AppliesCurrent(d)'
  <2>1. J = [ItemsOf(S) EXCEPT ![i] = Applied(d)] /\ v \in S /\ vendors[v] # Null
        /\ base'[d] = vendors[v].version /\ (pc[d] = "remove" => v = owner[d])
    BY <1>11 DEF Updates
  <2>2. S = {v}
    <3>1. CASE vendors[v].category \in Categories /\ S = LinkedTo(vendors[v].category)
      <4>1. ~Twinned(v) /\ vendors[v].category # Null
        BY <1>1, <1>8, <3>1 DEF NoTwins
      <4> QED
        BY <2>1, <3>1, <4>1 DEF Twinned, LinkedTo
    <3> QED
      BY <1>11, <3>1 DEF Updates
  <2>3. J[i] = Applied(d)
    BY <1>3, <2>1 DEF ItemsOf
  <2>4. \A x \in Items \ {i} : J[x] = IF holder[x] = v THEN stored[x] ELSE Null
    BY <1>3, <2>1, <2>2 DEF ItemsOf
  <2>5. ASSUME events'[d] = <<>> PROVE stored[i] = Applied(d)
    <3>1. vendor'[d] = LoadedFrom(v, S)
      BY <1>11, <2>5, FoldOfNone DEF Updates
    <3>2. J = ItemsOf(S)
      BY <2>1, <3>1, LoadedTyped
    <3>3. Applied(d) = IF holder[i] = v THEN stored[i] ELSE Null
      BY <1>3, <2>2, <2>3, <3>2 DEF ItemsOf
    <3>4. CASE pc[d] = "resolve"
      BY <1>5, <3>3, <3>4
    <3>5. CASE pc[d] = "remove"
      BY <1>8, <2>1, <3>3, <3>5 DEF AppliesCurrent
    <3> QED
      BY <1>2, <3>4, <3>5
  <2>6. AppliesCurrent(d)'
    BY <1>9, <2>1, <2>3, <2>4, <2>5
  <2>7. base'[d] # 0
    BY <2>1, RowTyped
  <2>8. CreatesOne(d)'
    BY <1>2, <2>7 DEF CreatesOne
  <2> QED
    BY <2>6, <2>8
<1> QED
  BY <1>10, <1>11 DEF Dispatches
\* A saga that ends leaves every saga idle.
LEMMA AfterEnd ==
  ASSUME VendorTypes, OneByOne, NEW d \in Drains, pc[d] # "idle", Forget(d)
  PROVE  OneByOne' /\ \A e \in Drains : CreatesOne(e)' /\ AppliesCurrent(e)'
<1>1. (\A e \in Drains \ {d} : SameSaga(e)) /\ pc'[d] = "idle" /\ events'[d] = <<>>
  BY ForgetsOnly
<1>2. \A e \in Drains \ {d} : pc'[e] = "idle" /\ CreatesOne(e)' /\ AppliesCurrent(e)'
  BY <1>1, OthersIdle
<1>3. CreatesOne(d)' /\ AppliesCurrent(d)'
  BY <1>1 DEF CreatesOne, AppliesCurrent
<1>4. OneByOne'
  BY <1>1, <1>2 DEF OneByOne
<1> QED
  BY <1>2, <1>3, <1>4

LEMMA EndsSerial ==
  ASSUME VendorTypes, SerialInv, NEW d \in Drains, pc[d] # "idle", Ends(d)
  PROVE  SerialInv'
<1>1. Forget(d) /\ UNCHANGED <<clover, vendors, holder, stored, overlap>>
  BY DEF Ends
<1>2. /\ DOMAIN inbox' = DOMAIN inbox
      /\ \A k \in DOMAIN inbox :
           /\ inbox'[k].item = inbox[k].item /\ inbox'[k].kind = inbox[k].kind
           /\ inbox'[k] = inbox[k] \/ (k = msg[d] /\ inbox'[k].status \in {"pending", "dead"})
  BY EndsTyped
<1>3. CloverIsHeard'
  BY <1>1, <1>2, HeardStays DEF SerialInv, MessagesStay
<1>4. ASSUME ~overlap
      PROVE  /\ OneByOne' /\ NoTwins' /\ ProcessedIsCurrent'
             /\ \A e \in Drains : CreatesOne(e)' /\ AppliesCurrent(e)'
  <2>1. OneByOne /\ NoTwins /\ ProcessedIsCurrent
    BY <1>4 DEF SerialInv
  <2>2. OneByOne' /\ \A e \in Drains : CreatesOne(e)' /\ AppliesCurrent(e)'
    BY <1>1, <2>1, AfterEnd
  <2>3. NoTwins'
    BY <1>1, <2>1 DEF NoTwins, Twinned
  <2>4. \A k \in DOMAIN inbox : inbox'[k].status = "processed" => inbox[k].status = "processed"
    BY <1>2
  <2>5. ProcessedIsCurrent'
    BY <1>1, <1>2, <2>1, <2>4 DEF ProcessedIsCurrent
  <2> QED
    BY <2>2, <2>3, <2>5
<1> QED
  BY <1>1, <1>3, <1>4 DEF SerialInv

\* The vendor saved is the only one of its category.
LEMMA SavedAlone ==
  ASSUME VendorTypes, NoTwins, NEW d \in Drains, SavesFresh(d), Saved(d), CreatesOne(d)
  PROVE  NoTwins'
<1>1. PICK o \in Ids : o = owner[d]
  BY DEF SavesFresh
<1>2. \A v \in Ids \ {o} : vendors'[v] = vendors[v]
  BY <1>1, SavedGives
<1>3. vendors'[o].category = vendor[d].snapshot.category
  <2>1. vendors'[o] = Row(vendor[d].snapshot, vendor[d].version)
    BY <1>1, SavedGives
  <2> QED
    BY <2>1 DEF Row
<1>4. ASSUME NEW w \in Ids \ {o}, vendors[w] # Null, vendors[w].category # Null,
             vendors[w].category = vendors'[o].category
      PROVE  FALSE
  <2>1. CASE base[d] = 0
    <3>1. LinkedTo(vendor[d].snapshot.category) = {}
      BY <1>3, <1>4, <2>1 DEF CreatesOne, SavesFresh
    <3> QED
      BY <1>3, <1>4, <3>1 DEF LinkedTo
  <2>2. CASE base[d] # 0
    <3>1. vendors[o] # Null /\ vendor[d].snapshot.category = vendors[o].category
      BY <1>1, <2>2 DEF SavesFresh
    <3> QED
      BY <1>3, <1>4, <3>1 DEF NoTwins, Twinned
  <2> QED
    BY <2>1, <2>2
<1>5. ASSUME NEW v \in Ids, NEW w \in Ids \ {v}, vendors'[w] # Null, vendors'[v] # Null,
             vendors'[w].category = vendors'[v].category, vendors'[v].category # Null
      PROVE  FALSE
  <2>1. CASE v = o
    BY <1>2, <1>4, <1>5, <2>1
  <2>2. CASE w = o
    BY <1>2, <1>4, <1>5, <2>2
  <2>3. CASE v # o /\ w # o
    BY <1>2, <1>5, <2>3 DEF NoTwins, Twinned
  <2> QED
    BY <2>1, <2>2, <2>3
<1> QED
  BY <1>5 DEF NoTwins, Twinned

\* A commit changes what is stored of the saga's item only, to what it applied.
LEMMA SavedItem ==
  ASSUME VendorTypes, RowsAgree, NEW d \in Drains, pc[d] = "commit", Commit(d), AppliesCurrent(d),
         events[d] # <<>> => SavesFresh(d) /\ Saved(d)
  PROVE  /\ \A i \in Items \ {Item(d)} : stored'[i] = stored[i]
         /\ IF inbox[msg[d]].kind = "upsert" THEN Tells(d, stored'[Item(d)]) ELSE stored'[Item(d)] = Null
<1>1. Item(d) \in Items
  BY ItemTyped
<1>2. CASE events[d] = <<>>
  <2>1. stored' = stored
    BY <1>2 DEF Commit
  <2> QED
    BY <1>2, <2>1 DEF AppliesCurrent
<1>3. CASE events[d] # <<>>
  <2> DEFINE J == vendor[d].snapshot.items
  <2>1. /\ \A i \in Items \ {Item(d)} : J[i] = IF holder[i] = owner[d] THEN stored[i] ELSE Null
        /\ IF inbox[msg[d]].kind = "upsert" THEN J[Item(d)] # Null /\ Tells(d, J[Item(d)])
           ELSE J[Item(d)] = Null /\ holder[Item(d)] = owner[d]
    BY <1>3 DEF AppliesCurrent
  <2>2. \A i \in Items :
          /\ i \in NewItems(d) <=> J[i] # Null
          /\ i \in NewItems(d) => stored'[i] = J[i]
          /\ i \notin NewItems(d) =>
               /\ holder[i] = owner[d] => stored'[i] = Null
               /\ holder[i] # owner[d] => stored'[i] = stored[i]
    BY <1>3, SavedGives DEF NewItems
  <2> HIDE DEF J
  <2>3. ASSUME NEW i \in Items \ {Item(d)} PROVE stored'[i] = stored[i]
    BY <2>1, <2>2
  <2>4. IF inbox[msg[d]].kind = "upsert" THEN stored'[Item(d)] = J[Item(d)] ELSE stored'[Item(d)] = Null
    BY <1>1, <2>1, <2>2
  <2> QED
    BY <2>1, <2>3, <2>4
<1> QED
  BY <1>2, <1>3

LEMMA CommitSerial ==
  ASSUME StreamInv, SerialInv, NEW d \in Drains, Commit(d)
  PROVE  SerialInv'
<1>1. VendorTypes /\ RowsAgree /\ pc[d] = "commit" /\ Forget(d)
      /\ UNCHANGED <<clover, overlap>> /\ Marks(d, {"processed"})
  BY CommitMarks DEF StreamInv, Commit, cloverSide
<1>2. /\ DOMAIN inbox' = DOMAIN inbox /\ MessagesStay /\ msg[d] \in DOMAIN inbox
      /\ \A k \in DOMAIN inbox : k # msg[d] => inbox'[k] = inbox[k]
  BY <1>1 DEF Marks, MessagesStay
<1>3. CloverIsHeard'
  BY <1>1, <1>2, HeardStays DEF SerialInv
<1>4. events[d] # <<>> => SavesFresh(d) /\ Saved(d)
  BY CommitFresh, CommitSaves
<1>5. ASSUME ~overlap
      PROVE  /\ OneByOne' /\ NoTwins' /\ ProcessedIsCurrent'
             /\ \A e \in Drains : CreatesOne(e)' /\ AppliesCurrent(e)'
  <2>1. OneByOne /\ NoTwins /\ ProcessedIsCurrent /\ CreatesOne(d) /\ AppliesCurrent(d)
    BY <1>5 DEF SerialInv
  <2>2. OneByOne' /\ \A e \in Drains : CreatesOne(e)' /\ AppliesCurrent(e)'
    BY <1>1, <2>1, AfterEnd
  <2>3. NoTwins'
    <3>1. CASE events[d] = <<>>
      <4>1. vendors' = vendors
        BY <3>1 DEF Commit
      <4> QED
        BY <2>1, <4>1 DEF NoTwins, Twinned
    <3>2. CASE events[d] # <<>>
      BY <1>1, <1>4, <2>1, <3>2, SavedAlone
    <3> QED
      BY <3>1, <3>2
  <2>4. /\ \A i \in Items \ {Item(d)} : stored'[i] = stored[i]
        /\ IF inbox[msg[d]].kind = "upsert" THEN Tells(d, stored'[Item(d)]) ELSE stored'[Item(d)] = Null
    BY <1>1, <1>4, <2>1, SavedItem
  <2>5. ASSUME NEW i \in Items,
               \A k \in DOMAIN inbox' : inbox'[k].item = i => inbox'[k].status = "processed"
        PROVE  stored'[i] = IF clover[i] = Null THEN Null ELSE clover[i].data
    <3>1. CASE i # Item(d)
      <4>1. \A k \in DOMAIN inbox : inbox[k].item = i => k # msg[d]
        BY <3>1 DEF Item
      <4>2. \A k \in DOMAIN inbox : inbox[k].item = i => inbox[k].status = "processed"
        BY <1>2, <2>5, <4>1
      <4> QED
        BY <2>1, <2>4, <3>1, <4>2 DEF ProcessedIsCurrent
    <3>2. CASE i = Item(d) /\ inbox[msg[d]].kind = "upsert"
      <4>1. ~ \E k \in DOMAIN inbox : k # msg[d] /\ inbox[k].item = i /\ inbox[k].status = "pending"
        BY <1>2, <2>5
      <4> QED
        BY <2>4, <3>2, <4>1 DEF Tells
    <3>3. CASE i = Item(d) /\ inbox[msg[d]].kind = "delete"
      <4>1. Deleted(i)
        BY <1>2, <3>3 DEF Deleted, Item
      <4>2. clover[i] = Null
        BY <4>1 DEF SerialInv, CloverIsHeard
      <4> QED
        BY <2>4, <3>3, <4>2
    <3>4. inbox[msg[d]].kind \in {"upsert", "delete"}
      BY <1>1, ItemTyped, MessageFields
    <3> QED
      BY <3>1, <3>2, <3>3, <3>4
  <2>6. ProcessedIsCurrent'
    BY <1>1, <2>5 DEF ProcessedIsCurrent
  <2> QED
    BY <2>2, <2>3, <2>6
<1> QED
  BY <1>1, <1>3, <1>5 DEF SerialInv

-----------------------------------------------------------------------------
\* What Clover's steps do to its items and to the inbox.
LEMMA MerchantTells ==
  ASSUME VendorTypes, Merchant
  PROVE  /\ MessagesStay /\ \A k \in DOMAIN inbox : inbox'[k] = inbox[k]
         /\ \/ clover' = clover /\ inbox' = inbox
            \/ \E i \in Items :
                 /\ \A j \in Items \ {i} : clover'[j] = clover[j]
                 /\ clover[i] # Null
                 /\ \E k \in DOMAIN inbox' \ DOMAIN inbox :
                      /\ inbox'[k].item = i /\ inbox'[k].status = "pending"
                      /\ DOMAIN inbox' = DOMAIN inbox \cup {k}
                      /\ inbox'[k].kind = "delete" => clover'[i] = Null
<1>1. MessagesStay /\ \A k \in DOMAIN inbox : inbox'[k] = inbox[k]
  BY MerchantAnnounces
<1>2. ASSUME NEW kind \in {"upsert", "delete"}, NEW i \in Items, Announce(kind, i),
             NEW x, clover' = [clover EXCEPT ![i] = x], clover[i] # Null, kind = "delete" => x = Null
      PROVE  \E j \in Items :
                 /\ \A h \in Items \ {j} : clover'[h] = clover[h]
                 /\ clover[j] # Null
                 /\ \E k \in DOMAIN inbox' \ DOMAIN inbox :
                      /\ inbox'[k].item = j /\ inbox'[k].status = "pending"
                      /\ DOMAIN inbox' = DOMAIN inbox \cup {k}
                      /\ inbox'[k].kind = "delete" => clover'[j] = Null
  <2> DEFINE k == Len(inbox) + 1
  <2>1. /\ DOMAIN inbox = 1 .. Len(inbox) /\ DOMAIN inbox' = 1 .. Len(inbox) + 1
        /\ inbox'[k] = Message(kind, i) /\ Len(inbox) \in Nat
        /\ clover \in [Items -> [filing : Filings, data : ItemData] \cup {Null}]
    BY <1>2, Announced DEF VendorTypes, TablesOK
  <2>2. k \in DOMAIN inbox' \ DOMAIN inbox /\ DOMAIN inbox' = DOMAIN inbox \cup {k}
    BY <2>1
  <2>3. Message(kind, i).item = i /\ Message(kind, i).status = "pending" /\ Message(kind, i).kind = kind
    BY MessageTyped
  <2>4. (\A h \in Items \ {i} : clover'[h] = clover[h]) /\ clover'[i] = x
    BY <1>2, <2>1
  <2> HIDE DEF k
  <2> QED
    BY <1>2, <2>1, <2>2, <2>3, <2>4
<1>3. ASSUME NEW i \in Items, NEW filing \in Filings, NEW data \in ItemData, EditItem(i, filing, data)
      PROVE  /\ Announce("upsert", i) /\ clover[i] # Null
             /\ clover' = [clover EXCEPT ![i] = [filing |-> filing, data |-> data]]
  BY <1>3 DEF EditItem
<1>4. ASSUME NEW i \in Items, DeleteItem(i)
      PROVE  Announce("delete", i) /\ clover' = [clover EXCEPT ![i] = Null] /\ clover[i] # Null
  BY <1>4 DEF DeleteItem
<1>5. ASSUME NEW c \in Categories, NEW t \in Titles, RenameCategory(c, t)
      PROVE  clover' = clover /\ inbox' = inbox
  BY <1>5 DEF RenameCategory, tables
<1>6. CASE \E i \in Items, filing \in Filings, data \in ItemData : EditItem(i, filing, data)
  BY <1>1, <1>2, <1>3, <1>6
<1>7. CASE \E i \in Items : DeleteItem(i)
  BY <1>1, <1>2, <1>4, <1>7
<1>8. CASE \E c \in Categories, t \in Titles : RenameCategory(c, t)
  BY <1>1, <1>5, <1>8
<1> QED
  BY <1>6, <1>7, <1>8 DEF Merchant

\* The sagas and their tables stand still.
LEMMA AloneSerial ==
  ASSUME VendorTypes, SerialInv, UNCHANGED <<vendors, holder, stored, stream, overlap, saga>>,
         MessagesStay, \A k \in DOMAIN inbox : inbox'[k] = inbox[k],
         \/ clover' = clover /\ inbox' = inbox
         \/ \E i \in Items :
              /\ \A j \in Items \ {i} : clover'[j] = clover[j]
              /\ clover[i] # Null
              /\ \E k \in DOMAIN inbox' \ DOMAIN inbox :
                   /\ inbox'[k].item = i /\ inbox'[k].status = "pending"
                   /\ DOMAIN inbox' = DOMAIN inbox \cup {k}
                   /\ inbox'[k].kind = "delete" => clover'[i] = Null
  PROVE  SerialInv'
<1>1. UNCHANGED <<pc, msg, fetched, rest, base, vendor, owner, events>>
  BY DEF saga
<1>2. CloverIsHeard
  BY DEF SerialInv
<1>3. CASE clover' = clover /\ inbox' = inbox
  <2>1. CloverIsHeard'
    BY <1>2, <1>3 DEF CloverIsHeard, Deleted
  <2>2. \A d \in Drains : (CreatesOne(d) => CreatesOne(d)') /\ (AppliesCurrent(d) => AppliesCurrent(d)')
    BY <1>1, <1>3 DEF CreatesOne, AppliesCurrent, LinkedTo, Tells, Item
  <2>3. (OneByOne => OneByOne') /\ (NoTwins => NoTwins') /\ (ProcessedIsCurrent => ProcessedIsCurrent')
    BY <1>1, <1>3 DEF OneByOne, NoTwins, Twinned, ProcessedIsCurrent
  <2> QED
    BY <2>1, <2>2, <2>3 DEF SerialInv
<1>4. CASE ~(clover' = clover /\ inbox' = inbox)
  <2>1. PICK i \in Items :
          /\ \A j \in Items \ {i} : clover'[j] = clover[j]
          /\ clover[i] # Null
          /\ \E k \in DOMAIN inbox' \ DOMAIN inbox :
               /\ inbox'[k].item = i /\ inbox'[k].status = "pending"
               /\ DOMAIN inbox' = DOMAIN inbox \cup {k}
               /\ inbox'[k].kind = "delete" => clover'[i] = Null
    BY <1>4
  <2>2. PICK k \in DOMAIN inbox' \ DOMAIN inbox :
          /\ inbox'[k].item = i /\ inbox'[k].status = "pending"
          /\ DOMAIN inbox' = DOMAIN inbox \cup {k}
          /\ inbox'[k].kind = "delete" => clover'[i] = Null
    BY <2>1
  <2>3. CloverIsHeard'
    BY <1>2, <2>1, <2>2 DEF CloverIsHeard, Deleted, MessagesStay
  <2>4. ASSUME NEW d \in Drains, pc[d] # "idle"
        PROVE  msg[d] \in DOMAIN inbox /\ inbox'[msg[d]] = inbox[msg[d]] /\ Item(d)' = Item(d)
               /\ Item(d) \in Items /\ k # msg[d]
    BY <1>1, <2>2, <2>4, ItemTyped DEF Item
  <2>5. OneByOne => OneByOne'
    BY <1>1, <2>4 DEF OneByOne
  <2>6. NoTwins => NoTwins'
    BY DEF NoTwins, Twinned
  <2>7. ASSUME ProcessedIsCurrent PROVE ProcessedIsCurrent'
    <3> SUFFICES ASSUME NEW j \in Items,
                        \A m \in DOMAIN inbox' : inbox'[m].item = j => inbox'[m].status = "processed"
                 PROVE  stored'[j] = (IF clover'[j] = Null THEN Null ELSE clover'[j].data)
      BY DEF ProcessedIsCurrent
    <3>1. j # i
      BY <2>2
    <3>2. \A m \in DOMAIN inbox : inbox[m].item = j => inbox[m].status = "processed"
      BY <2>2
    <3> QED
      BY <2>1, <2>7, <3>1, <3>2 DEF ProcessedIsCurrent
  <2>8. \A d \in Drains : CreatesOne(d) => CreatesOne(d)'
    BY <1>1 DEF CreatesOne, LinkedTo
  <2>9. ASSUME NEW d \in Drains, AppliesCurrent(d) PROVE AppliesCurrent(d)'
    <3>1. CASE pc[d] = "idle"
      <4>1. events[d] = <<>>
        BY <3>1, InPlace
      <4> QED
        BY <1>1, <3>1, <4>1 DEF AppliesCurrent
    <3>2. CASE pc[d] # "idle"
      <4>1. msg[d] \in DOMAIN inbox /\ inbox'[msg[d]] = inbox[msg[d]] /\ Item(d)' = Item(d)
            /\ Item(d) \in Items /\ k # msg[d]
        BY <2>4, <3>2
      <4>2. ASSUME NEW x, Tells(d, x)
            PROVE  \/ clover'[Item(d)] # Null /\ clover'[Item(d)].data = x
                   \/ \E m \in DOMAIN inbox' :
                        m # msg[d] /\ inbox'[m].item = Item(d) /\ inbox'[m].status = "pending"
        <5>1. CASE Item(d) = i
          BY <2>2, <4>1, <5>1
        <5>2. CASE Item(d) # i
          BY <2>1, <2>2, <4>1, <4>2, <5>2 DEF Tells
        <5> QED
          BY <5>1, <5>2
      <4>3. Tells(d, fetched[d].data) => Tells(d, fetched[d].data)'
        BY <1>1, <4>1, <4>2 DEF Tells
      <4>4. Tells(d, vendor[d].snapshot.items[Item(d)]) => Tells(d, vendor[d].snapshot.items[Item(d)])'
        BY <1>1, <4>1, <4>2 DEF Tells
      <4>5. Tells(d, stored[Item(d)]) => Tells(d, stored[Item(d)])'
        BY <1>1, <4>1, <4>2 DEF Tells
      <4> QED
        BY <1>1, <2>9, <4>1, <4>3, <4>4, <4>5 DEF AppliesCurrent
    <3> QED
      BY <3>1, <3>2
  <2> QED
    BY <2>3, <2>5, <2>6, <2>7, <2>8, <2>9 DEF SerialInv
<1> QED
  BY <1>3, <1>4

LEMMA SerialStays ==
  ASSUME StreamInv, SerialInv, [Next]_vars
  PROVE  SerialInv'
<1>1. VendorTypes /\ RowsAgree
  BY DEF StreamInv
<1>2. CASE Merchant
  BY <1>1, <1>2, MerchantLeaves, MerchantTells, AloneSerial
<1>3. ASSUME NEW d \in Drains, Drain(d) \/ Fail(d)
      PROVE  SerialInv'
  <2>1. \/ /\ Early(d)
           /\ Load(d) \/ Fetch(d) \/ TryNextCategory(d) \/ NobodyHolds(d) \/ FindHolder(d)
        \/ \E v \in Ids : Dispatches(d, v)
        \/ SaveRow(d) \/ SaveItems(d)
        \/ Commit(d)
        \/ pc[d] # "idle" /\ Ends(d)
    BY <1>1, <1>3, DrainDoes
  <2> QED
    BY <1>1, <2>1, LoadSerial, FetchSerial, NextSerial, FindSerial, DispatchSerial, SavingSerial,
       CommitSerial, EndsSerial
<1>4. CASE UNCHANGED vars
  <2>1. UNCHANGED <<clover, inbox, vendors, holder, stored, stream, overlap, saga>>
    BY <1>4 DEF vars, tables, cloverSide
  <2>2. MessagesStay /\ \A k \in DOMAIN inbox : inbox'[k] = inbox[k]
    BY <2>1 DEF MessagesStay
  <2> QED
    BY <1>1, <2>1, <2>2, AloneSerial
<1> QED
  BY <1>2, <1>3, <1>4 DEF Next

LEMMA InitSerial ==
  ASSUME Init
  PROVE  SerialInv
<1>1. inbox \in Seq({Message("upsert", i) : i \in Items})
      /\ \A i \in Items : \E k \in DOMAIN inbox : inbox[k] = Message("upsert", i)
  BY FirstMessages
<1>2. \A k \in DOMAIN inbox : inbox[k].kind = "upsert" /\ inbox[k].status = "pending"
  BY <1>1, MessageTyped
<1>3. \A i \in Items : \E k \in DOMAIN inbox : inbox[k].item = i
  BY <1>1, MessageTyped
<1>4. CloverIsHeard
  BY <1>2, <1>3 DEF CloverIsHeard, Deleted
<1>5. ProcessedIsCurrent
  BY <1>2, <1>3 DEF ProcessedIsCurrent
<1>6. OneByOne /\ NoTwins /\ \A d \in Drains : CreatesOne(d) /\ AppliesCurrent(d)
  BY DEF Init, OneByOne, NoTwins, Twinned, CreatesOne, AppliesCurrent
<1> QED
  BY <1>4, <1>5, <1>6 DEF SerialInv

\* While the drains of one process take turns, no category gains a second vendor and no
\* saga saves what another has outdated (inbox.ts, vendor-items.ts).
THEOREM VendorsSerial == Spec => [](StreamInv /\ SerialInv)
<1>1. Init => StreamInv /\ SerialInv
  BY InitStream, InitSerial
<1>2. StreamInv /\ SerialInv /\ [Next]_vars => StreamInv' /\ SerialInv'
  BY NextStream, SerialStays
<1> QED
  BY <1>1, <1>2, PTL DEF Spec

LEMMA TwinlessIsOne == SerialInv => OneVendorPerCategory
<1> SUFFICES ASSUME SerialInv, ~overlap, NEW c \in Categories
             PROVE  Cardinality(LinkedTo(c)) <= 1
  BY DEF OneVendorPerCategory
<1>1. \A v, w \in LinkedTo(c) : v = w
  BY NullIsNone DEF SerialInv, NoTwins, Twinned, LinkedTo
<1>2. CASE LinkedTo(c) = {}
  BY <1>2, FS_EmptySet
<1>3. ASSUME NEW v \in LinkedTo(c) PROVE Cardinality(LinkedTo(c)) <= 1
  <2>1. LinkedTo(c) = {v}
    BY <1>1
  <2>2. Cardinality({v}) = 1
    BY FS_Singleton
  <2> QED
    BY <2>1, <2>2
<1> QED
  BY <1>2, <1>3

\* While the drains of one process take turns, a Clover category has at most one vendor:
\* no index says so (vendors.ts:211).
THEOREM OneVendorEach == Spec => []OneVendorPerCategory
BY TwinlessIsOne, VendorsSerial, PTL

\* While the drains of one process take turns, an item whose messages are all processed
\* is stored as Clover has it (vendor-items.ts).
THEOREM SettledItemsAreCurrent == Spec => []SettledIsCurrent
<1>1. SerialInv => SettledIsCurrent
  BY DEF SerialInv, ProcessedIsCurrent, SettledIsCurrent
<1> QED
  BY <1>1, VendorsSerial, PTL
=============================================================================
