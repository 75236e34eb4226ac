------------------------- MODULE VaultVendorProofs --------------------------
(***************************************************************************)
(* Proofs about a vendor in memory and in public, for any value of the     *)
(* constants: the list that is synced with Clover's (VendorSession) and    *)
(* the marketing site's caches, pages and search (MarketSite), each of its *)
(* own specification and then of Vault's; and that Vault's state has its   *)
(* type. What the two are built on is a fold: its values are followed from *)
(* one end to the other by descent from a least counterexample.            *)
(***************************************************************************)
EXTENDS VaultWorkProofs

-----------------------------------------------------------------------------
(* A synced list is mirrored. The upserts of a sync are a fold, unfolded    *)
(* from the front and followed event by event; then the removals, of the    *)
(* items nobody listed.                                                     *)

\* Concatenating pieces in order, as FoldLeft does it.
Concatenates(h, a, n) ==
  h = [S \in SUBSET (1 .. n) |-> IF S = {} THEN <<>> ELSE h[S \ {Max(S)}] \o a[Max(S)]]

LEMMA MaxIs ==
  ASSUME NEW S \in SUBSET Nat, NEW m \in S, \A n \in S : n <= m
  PROVE  Max(S) = m
<1>1. Max(S) \in S /\ \A n \in S : Max(S) >= n
  <2>1. \E x \in S : \A n \in S : x >= n
    BY DEF Max
  <2> QED
    BY <2>1 DEF Max
<1>2. Max(S) \in Nat /\ m \in Nat /\ Max(S) <= m /\ Max(S) >= m
  BY <1>1
<1> QED
  BY <1>2

LEMMA MaxOfBounded ==
  ASSUME NEW n \in Nat, NEW S \in SUBSET (1 .. n), S # {}
  PROVE  Max(S) \in S /\ \A m \in S : m <= Max(S)
<1>1. S \in SUBSET (0 .. n)
  OBVIOUS
<1>2. PICK m \in S : \A k \in S : k <= m
  BY <1>1, GreatestNumber
<1>3. Max(S) = m
  <2>1. S \in SUBSET Nat
    OBVIOUS
  <2> QED
    BY <1>2, <2>1, MaxIs
<1> QED
  BY <1>2, <1>3

LEMMA ConcatExists ==
  ASSUME NEW a, NEW n \in Nat
  PROVE  \E h : Concatenates(h, a, n)
<1> DEFINE bad == {k \in Nat : ~ \E h : Concatenates(h, a, k)}
<1>1. SUFFICES ASSUME bad # {} PROVE FALSE
  OBVIOUS
<1>2. bad \in SUBSET Nat
  OBVIOUS
<1>3. PICK k \in bad : \A m \in bad : k <= m
  BY <1>1, <1>2, LeastNumber
<1>4. k # 0
  <2> DEFINE h == [S \in SUBSET (1 .. 0) |-> <<>>]
  <2>1. \A S \in SUBSET (1 .. 0) : S = {}
    OBVIOUS
  <2>2. h = [S \in SUBSET (1 .. 0) |->
               IF S = {} THEN <<>> ELSE h[S \ {Max(S)}] \o a[Max(S)]]
    BY <2>1
  <2> HIDE DEF h
  <2>3. \E g : Concatenates(g, a, 0)
    BY <2>2 DEF Concatenates
  <2> QED
    BY <1>3, <2>3
<1>5. k \in Nat /\ k - 1 \in Nat /\ k - 1 \notin bad
  BY <1>3, <1>4
<1>6. PICK g : Concatenates(g, a, k - 1)
  BY <1>5
<1> DEFINE h == [S \in SUBSET (1 .. k) |-> IF k \in S THEN g[S \ {k}] \o a[k] ELSE g[S]]
<1>7. \A S \in SUBSET (1 .. k) :
        h[S] = IF S = {} THEN <<>> ELSE h[S \ {Max(S)}] \o a[Max(S)]
  <2> SUFFICES ASSUME NEW S \in SUBSET (1 .. k)
               PROVE  h[S] = IF S = {} THEN <<>> ELSE h[S \ {Max(S)}] \o a[Max(S)]
    OBVIOUS
  <2>1. CASE k \in S
    <3>1. Max(S) = k
      <4>1. S \in SUBSET Nat /\ \A m \in S : m <= k
        BY <1>5
      <4> QED
        BY <2>1, <4>1, MaxIs
    <3>2. h[S \ {k}] = g[S \ {k}]
      OBVIOUS
    <3> QED
      BY <2>1, <3>1, <3>2
  <2>2. CASE k \notin S
    <3>1. S \in SUBSET (1 .. k - 1)
      BY <1>5, <2>2
    <3>2. g[S] = IF S = {} THEN <<>> ELSE g[S \ {Max(S)}] \o a[Max(S)]
      BY <1>6, <3>1 DEF Concatenates
    <3>3. h[S] = g[S] /\ h[S \ {Max(S)}] = g[S \ {Max(S)}]
      BY <2>2
    <3> QED
      BY <3>2, <3>3
  <2> QED
    BY <2>1, <2>2
<1>8. Concatenates(h, a, k)
  <2>1. h = [S \in SUBSET (1 .. k) |-> h[S]]
    OBVIOUS
  <2> HIDE DEF h
  <2> QED
    BY <1>7, <2>1 DEF Concatenates
<1> QED
  BY <1>3, <1>8

\* What the concatenation has got to after each of the pieces.
LEMMA ConcatGrows ==
  ASSUME NEW a, NEW n \in Nat, NEW h, Concatenates(h, a, n)
  PROVE  /\ h[{}] = <<>>
         /\ \A k \in 1 .. n : h[1 .. k] = h[1 .. k - 1] \o a[k]
<1>1. {} \in SUBSET (1 .. n)
  OBVIOUS
<1>2. h[{}] = <<>>
  BY <1>1 DEF Concatenates
<1>3. ASSUME NEW k \in 1 .. n PROVE h[1 .. k] = h[1 .. k - 1] \o a[k]
  <2>1. 1 .. k \in SUBSET (1 .. n) /\ 1 .. k # {} /\ 1 .. k \in SUBSET Nat
        /\ (1 .. k) \ {k} = 1 .. k - 1
    OBVIOUS
  <2>2. Max(1 .. k) = k
    <3>1. k \in 1 .. k /\ \A m \in 1 .. k : m <= k
      OBVIOUS
    <3> QED
      BY <2>1, <3>1, MaxIs
  <2>3. h[1 .. k] = h[(1 .. k) \ {Max(1 .. k)}] \o a[Max(1 .. k)]
    BY <2>1 DEF Concatenates
  <2> QED
    BY <2>1, <2>2, <2>3
<1> QED
  BY <1>2, <1>3

Upserts(s, incoming) ==
  FoldLeft(LAMBDA done, next : done \o ApplyCloverItem(s, next.item, next.data), <<>>, incoming)

\* What the upserts have got to after each of the incoming items.
Upserting(u, s, incoming, n) ==
  /\ u[0] = <<>>
  /\ \A k \in 1 .. n :
       u[k] = u[k - 1] \o ApplyCloverItem(s, incoming[k].item, incoming[k].data)
  /\ Upserts(s, incoming) = u[n]

LEMMA UpsertsGrow ==
  ASSUME NEW s, NEW n \in Nat, NEW incoming, DOMAIN incoming = 1 .. n
  PROVE  \E u : Upserting(u, s, incoming, n)
<1> DEFINE a == [k \in 1 .. n |-> ApplyCloverItem(s, incoming[k].item, incoming[k].data)]
           IsFold(h) ==
             h = [S \in SUBSET DOMAIN incoming |->
                    IF S = {} THEN <<>>
                    ELSE h[S \ {Max(S)}]
                           \o ApplyCloverItem(s, incoming[Max(S)].item, incoming[Max(S)].data)]
           iter == CHOOSE h : IsFold(h)
<1>1. Upserts(s, incoming) = iter[DOMAIN incoming]
  BY DEF Upserts, FoldLeft, MapThenFoldSet
<1>2. \A h : IsFold(h) <=> Concatenates(h, a, n)
  <2> SUFFICES ASSUME NEW h PROVE IsFold(h) <=> Concatenates(h, a, n)
    OBVIOUS
  <2>1. \A S \in SUBSET (1 .. n) : S # {} =>
          a[Max(S)] = ApplyCloverItem(s, incoming[Max(S)].item, incoming[Max(S)].data)
    <3> SUFFICES ASSUME NEW S \in SUBSET (1 .. n), S # {}
                 PROVE  a[Max(S)] = ApplyCloverItem(s, incoming[Max(S)].item, incoming[Max(S)].data)
      OBVIOUS
    <3>1. Max(S) \in 1 .. n
      BY MaxOfBounded
    <3> QED
      BY <3>1
  <2> DEFINE F == [S \in SUBSET DOMAIN incoming |->
                    IF S = {} THEN <<>>
                    ELSE h[S \ {Max(S)}]
                           \o ApplyCloverItem(s, incoming[Max(S)].item, incoming[Max(S)].data)]
             G == [S \in SUBSET (1 .. n) |->
                     IF S = {} THEN <<>> ELSE h[S \ {Max(S)}] \o a[Max(S)]]
  <2> HIDE DEF a
  <2>2. F = G
    BY <2>1
  <2> QED
    BY <2>2 DEF Concatenates
<1> HIDE DEF a, IsFold
<1>3. IsFold(iter)
  <2>1. PICK h : Concatenates(h, a, n)
    BY ConcatExists
  <2>2. IsFold(h)
    BY <1>2, <2>1
  <2> QED
    BY <2>2
<1> HIDE DEF iter
<1>4. Concatenates(iter, a, n)
  BY <1>2, <1>3
<1>5. /\ iter[{}] = <<>>
      /\ \A k \in 1 .. n : iter[1 .. k] = iter[1 .. k - 1] \o a[k]
  BY <1>4, ConcatGrows
<1> DEFINE u == [k \in 0 .. n |-> iter[1 .. k]]
<1>6. u[0] = <<>>
  <2>1. 1 .. 0 = {} /\ 0 \in 0 .. n
    OBVIOUS
  <2> QED
    BY <1>5, <2>1
<1>7. \A k \in 1 .. n :
        u[k] = u[k - 1] \o ApplyCloverItem(s, incoming[k].item, incoming[k].data)
  <2> SUFFICES ASSUME NEW k \in 1 .. n
               PROVE  u[k] = u[k - 1] \o ApplyCloverItem(s, incoming[k].item, incoming[k].data)
    OBVIOUS
  <2>1. k \in 0 .. n /\ k - 1 \in 0 .. n
    OBVIOUS
  <2>2. a[k] = ApplyCloverItem(s, incoming[k].item, incoming[k].data)
    BY DEF a
  <2> QED
    BY <1>5, <2>1, <2>2
<1>8. u[n] = Upserts(s, incoming)
  BY <1>1
<1> HIDE DEF u
<1> QED
  BY <1>6, <1>7, <1>8 DEF Upserting

\* A list Clover may send: no item twice.
IsList(incoming) ==
  /\ incoming \in Seq([item : Items, data : ItemData])
  /\ \A j, k \in DOMAIN incoming : j # k => incoming[j].item # incoming[k].item

\* The first k of the list are there, and of the other items what was there before.
Mirrors(incoming, k, old, new) ==
  /\ old \in [Items -> ItemData \cup {Null}] /\ new \in [Items -> ItemData \cup {Null}]
  /\ \A j \in 1 .. k : new[incoming[j].item] = incoming[j].data
  /\ \A i \in Items : (\A j \in 1 .. k : incoming[j].item # i) => new[i] = old[i]

\* What the fields of a snapshot may be.
Statuses == {"active", "inactive"}
Filed    == Categories \cup {Null}
Holdings == [Items -> ItemData \cup {Null}]

LEMMA SnapshotsAre ==
  Snapshots = [name: Names, status: Statuses, share: BasisPoints, category: Filed, items: Holdings]
BY DEF Snapshots, Statuses, Filed, Holdings

LEMMA SnapshotItems ==
  ASSUME NEW s \in Snapshots
  PROVE  s.items \in [Items -> ItemData \cup {Null}]
<1>1. s.items \in Holdings
  BY SnapshotsAre
<1> QED
  BY <1>1 DEF Holdings

LEMMA SnapshotMarked ==
  ASSUME NEW s \in Snapshots
  PROVE  /\ \A c \in Categories : [s EXCEPT !.category = c] \in Snapshots
         /\ \A m \in {"active", "inactive"} : [s EXCEPT !.status = m] \in Snapshots
<1>1. /\ \A c \in Filed : [s EXCEPT !.category = c] \in Snapshots
      /\ \A m \in Statuses : [s EXCEPT !.status = m] \in Snapshots
  BY SnapshotsAre
<1> QED
  BY <1>1 DEF Filed, Statuses

LEMMA ListFields ==
  ASSUME NEW incoming, IsList(incoming)
  PROVE  /\ Len(incoming) \in Nat /\ DOMAIN incoming = 1 .. Len(incoming)
         /\ \A k \in 1 .. Len(incoming) :
              /\ incoming[k].item \in Items /\ incoming[k].data \in ItemData
              /\ incoming[k] = [item |-> incoming[k].item, data |-> incoming[k].data]
<1> DEFINE R == [item : Items, data : ItemData]
<1>1. incoming \in Seq(R)
  BY DEF IsList
<1> HIDE DEF R
<1>2. /\ Len(incoming) \in Nat /\ DOMAIN incoming = 1 .. Len(incoming)
      /\ \A k \in 1 .. Len(incoming) : incoming[k] \in R
  BY <1>1
<1> QED
  BY <1>2 DEF R

LEMMA UpsertsLead ==
  ASSUME NEW before \in [version : Nat, snapshot : Snapshots], NEW incoming, IsList(incoming),
         NEW u, Upserting(u, before.snapshot, incoming, Len(incoming))
  PROVE  \E after, J : /\ LeadsTo(before, u[Len(incoming)], after, J)
                       /\ Mirrors(incoming, Len(incoming), before.snapshot.items, J)
<1> DEFINE n == Len(incoming)
           s == before.snapshot
           Leads(k) == \E after, J : /\ LeadsTo(before, u[k], after, J)
                                     /\ Mirrors(incoming, k, s.items, J)
           bad == {k \in 0 .. n : ~Leads(k)}
<1>1. SUFFICES ASSUME bad # {} PROVE FALSE
  <2>1. n \in 0 .. n
    BY ListFields
  <2> HIDE DEF n
  <2>2. ~(\E m : m \in bad) => Leads(n)
    BY <2>1
  <2> QED
    BY <2>2 DEF n
<1> USE DEF Upserting
<1>2. n \in Nat /\ DOMAIN incoming = 1 .. n /\ bad \in SUBSET Nat
      /\ \A k \in 1 .. n : incoming[k].item \in Items /\ incoming[k].data \in ItemData
  <2>1. n \in Nat
    BY ListFields
  <2> HIDE DEF Leads, n
  <2>2. bad \in SUBSET Nat
    BY <2>1
  <2> QED
    BY <2>1, <2>2, ListFields DEF n
<1>3. s \in Snapshots /\ s.items \in [Items -> ItemData \cup {Null}]
  BY SnapshotItems
<1>4. PICK k \in bad : \A m \in bad : k <= m
  BY <1>1, <1>2, LeastNumber
<1>5. k # 0
  <2>1. LeadsTo(before, u[0], before, s.items)
    BY NothingLeads
  <2>2. Mirrors(incoming, 0, s.items, s.items)
    BY <1>3 DEF Mirrors
  <2>3. Leads(0)
    BY <2>1, <2>2
  <2> QED
    BY <1>4, <2>3
<1>6. k \in 1 .. n /\ k - 1 \in 0 .. n /\ k - 1 \notin bad
  BY <1>2, <1>4, <1>5
<1>7. PICK between, I : /\ LeadsTo(before, u[k - 1], between, I)
                        /\ Mirrors(incoming, k - 1, s.items, I)
  BY <1>6
<1> DEFINE i == incoming[k].item
           x == incoming[k].data
<1>8. i \in Items /\ x \in ItemData
  BY <1>2, <1>6
<1>9. \A j \in 1 .. k - 1 : incoming[j].item # i
  BY <1>2, <1>6 DEF IsList
<1>10. between \in [version : Nat, snapshot : Snapshots] /\ between.snapshot.items = I
  BY <1>7 DEF LeadsTo
<1>11. I[i] = s.items[i]
  BY <1>7, <1>8, <1>9 DEF Mirrors
<1>12. ApplyCloverItem(between.snapshot, i, x) = ApplyCloverItem(s, i, x)
  BY <1>10, <1>11 DEF ApplyCloverItem
<1>13. PICK after : LeadsTo(between, ApplyCloverItem(s, i, x), after, [I EXCEPT ![i] = x])
  BY <1>8, <1>10, <1>12, ItemLeads
<1>14. LeadsTo(before, u[k], after, [I EXCEPT ![i] = x])
  <2>1. u[k] = u[k - 1] \o ApplyCloverItem(s, i, x)
    BY <1>6
  <2> QED
    BY <1>7, <1>13, <2>1, LeadsOn
<1>15. Mirrors(incoming, k, s.items, [I EXCEPT ![i] = x])
  <2> DEFINE J == [I EXCEPT ![i] = x]
  <2>1. I \in [Items -> ItemData \cup {Null}]
    BY <1>7 DEF Mirrors
  <2>2. J \in [Items -> ItemData \cup {Null}] /\ J[i] = x
        /\ \A o \in Items : o # i => J[o] = I[o]
    BY <1>8, <2>1
  <2>3. \A j \in 1 .. k : j = k \/ j \in 1 .. k - 1
    BY <1>6
  <2>4. \A j \in 1 .. k - 1 : j \in 1 .. n /\ j \in 1 .. k
    BY <1>2, <1>6
  <2>5. k \in 1 .. k
    BY <1>6
  <2> HIDE DEF J
  <2>6. \A j \in 1 .. k : J[incoming[j].item] = incoming[j].data
    <3> SUFFICES ASSUME NEW j \in 1 .. k PROVE J[incoming[j].item] = incoming[j].data
      OBVIOUS
    <3>1. CASE j = k
      BY <2>2, <3>1
    <3>2. CASE j \in 1 .. k - 1
      <4>1. incoming[j].item \in Items /\ incoming[j].item # i
        BY <1>2, <1>9, <2>4, <3>2
      <4> QED
        BY <1>7, <2>2, <3>2, <4>1 DEF Mirrors
    <3> QED
      BY <2>3, <3>1, <3>2
  <2>7. ASSUME NEW o \in Items, \A j \in 1 .. k : incoming[j].item # o
        PROVE  J[o] = s.items[o]
    <3>1. o # i /\ \A j \in 1 .. k - 1 : incoming[j].item # o
      BY <2>4, <2>5, <2>7
    <3> QED
      BY <1>7, <2>2, <3>1 DEF Mirrors
  <2>8. Mirrors(incoming, k, s.items, J)
    BY <1>3, <2>2, <2>6, <2>7 DEF Mirrors
  <2> QED
    BY <2>8 DEF J
<1>16. Leads(k)
  BY <1>14, <1>15
<1> QED
  BY <1>4, <1>16

\* SetToSeq lists a finite set without repeating itself.
LEMMA ListsAll ==
  ASSUME NEW S, IsFiniteSet(S)
  PROVE  /\ Cardinality(S) \in Nat
         /\ SetToSeq(S) \in [1 .. Cardinality(S) -> S]
         /\ \A j, k \in 1 .. Cardinality(S) : SetToSeq(S)[j] = SetToSeq(S)[k] => j = k
         /\ \A x \in S : \E k \in 1 .. Cardinality(S) : SetToSeq(S)[k] = x
<1> DEFINE n == Cardinality(S)
           g == SetToSeq(S)
<1>1. n \in Nat /\ ExistsBijection(1 .. n, S)
  BY FS_CardinalityType
<1>2. \E f \in [1 .. n -> S] : IsInjective(f)
  BY <1>1 DEF ExistsBijection, Bijection, Injection
<1>3. g \in [1 .. n -> S] /\ IsInjective(g)
  BY <1>2 DEF SetToSeq
<1> HIDE DEF g
<1>4. g \in Injection(1 .. n, S)
  BY <1>3 DEF Injection
<1>5. IsFiniteSet(1 .. n) /\ Cardinality(1 .. n) = n
  <2>1. 1 \in Int /\ n \in Int
    BY <1>1
  <2>2. IsFiniteSet(1 .. n) /\ Cardinality(1 .. n) = IF 1 > n THEN 0 ELSE n - 1 + 1
    BY <2>1, FS_Interval
  <2> HIDE DEF n
  <2> QED
    BY <1>1, <2>2
<1>6. g \in Surjection(1 .. n, S)
  <2> HIDE DEF n
  <2> QED
    BY <1>4, <1>5, FS_Injection DEF n
<1>7. \A x \in S : \E k \in 1 .. n : g[k] = x
  BY <1>6 DEF Surjection
<1>8. \A j, k \in 1 .. n : g[j] = g[k] => j = k
  BY <1>3 DEF IsInjective
<1> QED
  BY <1>1, <1>3, <1>7, <1>8 DEF g

RemovalsReach(before, g, n) ==
  \E after, J : /\ LeadsTo(before, [j \in 1 .. n |-> ItemRemoved(g[j])], after, J)
                /\ J = [i \in Items |-> IF \E j \in 1 .. n : g[j] = i THEN Null
                                        ELSE before.snapshot.items[i]]

\* Removing some of what is listed, one after the other.
LEMMA RemovalsLead ==
  ASSUME NEW before \in [version : Nat, snapshot : Snapshots], NEW n \in Nat, NEW g,
         g \in [1 .. n -> Items], \A j, k \in 1 .. n : g[j] = g[k] => j = k,
         \A k \in 1 .. n : before.snapshot.items[g[k]] # Null
  PROVE  RemovalsReach(before, g, n)
<1> DEFINE s == before.snapshot
           Removed(k) == [i \in Items |-> IF \E j \in 1 .. k : g[j] = i THEN Null ELSE s.items[i]]
           Emitted(k) == [j \in 1 .. k |-> ItemRemoved(g[j])]
           Leads(k) == \E after, J : LeadsTo(before, Emitted(k), after, J) /\ J = Removed(k)
           bad == {k \in 0 .. n : ~Leads(k)}
<1>1. SUFFICES ASSUME bad # {} PROVE FALSE
  <2>1. n \in 0 .. n
    OBVIOUS
  <2>2. Leads(n) => RemovalsReach(before, g, n)
    BY Zenon DEF RemovalsReach
  <2> HIDE DEF Leads
  <2> QED
    BY <2>1, <2>2
<1>2. bad \in SUBSET Nat
  OBVIOUS
<1>3. s \in Snapshots /\ s.items \in [Items -> ItemData \cup {Null}]
  BY SnapshotItems
<1>4. PICK k \in bad : \A m \in bad : k <= m
  BY <1>1, <1>2, LeastNumber
<1>5. k # 0
  <2>1. Emitted(0) = <<>>
    OBVIOUS
  <2>2. Removed(0) = s.items
    BY <1>3
  <2> HIDE DEF Emitted, Removed
  <2>3. LeadsTo(before, Emitted(0), before, s.items)
    BY <2>1, NothingLeads
  <2>4. Leads(0)
    BY <2>2, <2>3
  <2> QED
    BY <1>4, <2>4
<1> HIDE DEF Emitted, Removed, Leads
<1>6. k \in 1 .. n /\ k - 1 \in 0 .. n /\ k - 1 \notin bad
  BY <1>4, <1>5
<1>7. PICK between, I : LeadsTo(before, Emitted(k - 1), between, I) /\ I = Removed(k - 1)
  BY <1>6 DEF Leads
<1>8. g[k] \in Items /\ s.items[g[k]] # Null
  BY <1>6
<1>9. I \in [Items -> ItemData \cup {Null}] /\ I[g[k]] = s.items[g[k]]
  <2>1. \A j \in 1 .. k - 1 : j \in 1 .. n /\ j # k
    BY <1>6
  <2>2. \A j \in 1 .. k - 1 : g[j] # g[k]
    BY <1>6, <2>1
  <2> QED
    BY <1>3, <1>7, <1>8, <2>2 DEF Removed
<1>10. between \in [version : Nat, snapshot : Snapshots] /\ between.snapshot.items = I
  BY <1>7 DEF LeadsTo
<1>11. RemoveCloverItem(between.snapshot, g[k]) = <<ItemRemoved(g[k])>>
  BY <1>8, <1>9, <1>10 DEF RemoveCloverItem
<1>12. PICK after : LeadsTo(between, <<ItemRemoved(g[k])>>, after, [I EXCEPT ![g[k]] = Null])
  <2>1. PICK after : LeadsTo(between, RemoveCloverItem(between.snapshot, g[k]), after,
                             [between.snapshot.items EXCEPT ![g[k]] = Null])
    BY <1>8, <1>10, RemovalLeads
  <2> QED
    BY <1>10, <1>11, <2>1
<1>13. Emitted(k) = Emitted(k - 1) \o <<ItemRemoved(g[k])>>
  BY <1>6 DEF Emitted
<1>14. Removed(k) = [I EXCEPT ![g[k]] = Null]
  <2>1. \A i \in Items : (\E j \in 1 .. k : g[j] = i)
                           <=> (i = g[k] \/ \E j \in 1 .. k - 1 : g[j] = i)
    <3>1. \A j : j \in 1 .. k <=> j = k \/ j \in 1 .. k - 1
      BY <1>6
    <3> QED
      BY <3>1
  <2>2. \A i \in Items : I[i] = IF \E j \in 1 .. k - 1 : g[j] = i THEN Null ELSE s.items[i]
    BY <1>7 DEF Removed
  <2>3. \A i \in Items : [I EXCEPT ![g[k]] = Null][i]
                           = IF \E j \in 1 .. k : g[j] = i THEN Null ELSE s.items[i]
    BY <1>8, <1>9, <2>1, <2>2
  <2> QED
    BY <1>9, <2>3 DEF Removed
<1>15. LeadsTo(before, Emitted(k), after, Removed(k))
  BY <1>7, <1>12, <1>13, <1>14, LeadsOn
<1> QED
  BY <1>4, <1>15 DEF Leads

LEMMA MirrorOf ==
  ASSUME NEW incoming, IsList(incoming), NEW J \in [Items -> ItemData \cup {Null}],
         \A k \in DOMAIN incoming : J[incoming[k].item] = incoming[k].data,
         \A i \in Items : (\A k \in DOMAIN incoming : incoming[k].item # i) => J[i] = Null
  PROVE  \A i \in Items, d \in ItemData :
           J[i] = d <=> \E k \in DOMAIN incoming : incoming[k] = [item |-> i, data |-> d]
<1> SUFFICES ASSUME NEW i \in Items, NEW d \in ItemData
             PROVE  J[i] = d <=> \E k \in DOMAIN incoming : incoming[k] = [item |-> i, data |-> d]
  OBVIOUS
<1>1. d # Null
  BY VendorAssumption
<1>2. \A k \in DOMAIN incoming :
        incoming[k] = [item |-> incoming[k].item, data |-> incoming[k].data]
  BY ListFields
<1>3. ASSUME J[i] = d
      PROVE  \E k \in DOMAIN incoming : incoming[k] = [item |-> i, data |-> d]
  <2>1. PICK k \in DOMAIN incoming : incoming[k].item = i
    BY <1>1, <1>3
  <2>2. incoming[k].data = d
    BY <1>3, <2>1
  <2> QED
    BY <1>2, <2>1, <2>2
<1>4. ASSUME NEW k \in DOMAIN incoming, incoming[k] = [item |-> i, data |-> d]
      PROVE  J[i] = d
  BY <1>4
<1> QED
  BY <1>3, <1>4

\* What syncing a list emits leaves the listed items and no other.
LEMMA SyncLeads ==
  ASSUME NEW before \in [version : Nat, snapshot : Snapshots], NEW incoming, IsList(incoming)
  PROVE  \E after, J : /\ LeadsTo(before, SyncCloverItems(before.snapshot, incoming), after, J)
                       /\ J \in [Items -> ItemData \cup {Null}]
                       /\ \A k \in DOMAIN incoming : J[incoming[k].item] = incoming[k].data
                       /\ \A i \in Items : (\A k \in DOMAIN incoming : incoming[k].item # i)
                                             => J[i] = Null
<1> DEFINE n == Len(incoming)
           s == before.snapshot
           kept == {incoming[k].item : k \in DOMAIN incoming}
           gone == {i \in Items \ kept : s.items[i] # Null}
           g == SetToSeq(gone)
           c == Cardinality(gone)
           removals == [k \in DOMAIN g |-> ItemRemoved(g[k])]
<1>1. n \in Nat /\ DOMAIN incoming = 1 .. n
  BY ListFields
<1>2. s \in Snapshots /\ s.items \in [Items -> ItemData \cup {Null}]
  BY SnapshotItems
<1>3. SyncCloverItems(s, incoming) = Upserts(s, incoming) \o removals
  BY DEF SyncCloverItems, Upserts
<1>4. PICK u : Upserting(u, s, incoming, n)
  <2> HIDE DEF s, n
  <2> QED
    BY <1>1, UpsertsGrow
<1>5. PICK between, I : LeadsTo(before, u[n], between, I) /\ Mirrors(incoming, n, s.items, I)
  BY <1>4, UpsertsLead
<1>6. between \in [version : Nat, snapshot : Snapshots] /\ between.snapshot.items = I
  BY <1>5 DEF LeadsTo
<1>7. /\ c \in Nat /\ g \in [1 .. c -> gone]
      /\ \A j, k \in 1 .. c : g[j] = g[k] => j = k
      /\ \A x \in gone : \E k \in 1 .. c : g[k] = x
  <2>1. IsFiniteSet(gone)
    <3>1. gone \subseteq Items
      OBVIOUS
    <3> QED
      BY <3>1, FS_Subset, VendorAssumption
  <2> HIDE DEF gone
  <2> QED
    BY <2>1, ListsAll
<1>8. \A i \in gone : i \in Items /\ I[i] = s.items[i] /\ I[i] # Null
  <2> SUFFICES ASSUME NEW i \in gone PROVE i \in Items /\ I[i] = s.items[i] /\ I[i] # Null
    OBVIOUS
  <2>1. i \in Items /\ s.items[i] # Null /\ \A k \in 1 .. n : incoming[k].item # i
    BY <1>1
  <2> QED
    BY <1>5, <2>1 DEF Mirrors
<1> HIDE DEF g, c, gone, n, s
<1>9. g \in [1 .. c -> Items] /\ \A k \in 1 .. c : between.snapshot.items[g[k]] # Null
  BY <1>6, <1>7, <1>8
<1>10. PICK after, J : /\ LeadsTo(between, [j \in 1 .. c |-> ItemRemoved(g[j])], after, J)
                       /\ J = [i \in Items |-> IF \E j \in 1 .. c : g[j] = i THEN Null
                                               ELSE between.snapshot.items[i]]
  <2>1. c \in Nat /\ \A j, k \in 1 .. c : g[j] = g[k] => j = k
    BY <1>7
  <2>2. RemovalsReach(between, g, c)
    BY <1>6, <1>9, <2>1, RemovalsLead
  <2> QED
    BY <2>2 DEF RemovalsReach
<1>11. removals = [j \in 1 .. c |-> ItemRemoved(g[j])]
  BY <1>7
<1>12. LeadsTo(before, SyncCloverItems(s, incoming), after, J)
  <2> HIDE DEF removals
  <2>1. LeadsTo(before, u[n] \o removals, after, J)
    BY <1>5, <1>6, <1>10, <1>11, LeadsOn
  <2> QED
    BY <1>3, <1>4, <2>1 DEF Upserting
<1>13. I \in [Items -> ItemData \cup {Null}]
  BY <1>5 DEF Mirrors
<1>14. \A i \in Items : J[i] = IF i \in gone THEN Null ELSE I[i]
  <2>1. \A i : (\E j \in 1 .. c : g[j] = i) <=> i \in gone
    BY <1>7
  <2> QED
    BY <1>6, <1>10, <2>1
<1>15. J \in [Items -> ItemData \cup {Null}]
  <2>1. J = [i \in Items |-> J[i]]
    BY <1>10
  <2>2. \A i \in Items : J[i] \in ItemData \cup {Null}
    BY <1>13, <1>14
  <2> QED
    BY <2>1, <2>2
<1>16. ASSUME NEW k \in DOMAIN incoming
       PROVE  J[incoming[k].item] = incoming[k].data
  <2>1. k \in 1 .. n /\ incoming[k].item \notin gone
    BY <1>1 DEF gone
  <2>2. incoming[k].item \in Items
    BY <2>1, ListFields DEF n
  <2>3. I[incoming[k].item] = incoming[k].data
    BY <1>5, <2>1 DEF Mirrors
  <2> QED
    BY <1>14, <2>1, <2>2, <2>3
<1>17. ASSUME NEW i \in Items, \A k \in DOMAIN incoming : incoming[k].item # i
       PROVE  J[i] = Null
  <2>1. i \in gone <=> s.items[i] # Null
    BY <1>17 DEF gone
  <2>2. I[i] = s.items[i]
    BY <1>1, <1>5, <1>17 DEF Mirrors
  <2> QED
    BY <1>14, <2>1, <2>2
<1> QED
  BY <1>12, <1>15, <1>16, <1>17 DEF s

\* A second sync of the same list finds nothing to do.
LEMMA SyncAgain ==
  ASSUME NEW s, NEW incoming, IsList(incoming),
         \A k \in DOMAIN incoming : s.items[incoming[k].item] = incoming[k].data,
         \A i \in Items : (\A k \in DOMAIN incoming : incoming[k].item # i) => s.items[i] = Null
  PROVE  SyncCloverItems(s, incoming) = <<>>
<1> DEFINE n == Len(incoming)
           kept == {incoming[k].item : k \in DOMAIN incoming}
           gone == {i \in Items \ kept : s.items[i] # Null}
           g == SetToSeq(gone)
           removals == [k \in DOMAIN g |-> ItemRemoved(g[k])]
<1>1. n \in Nat /\ DOMAIN incoming = 1 .. n
      /\ \A k \in 1 .. n : incoming[k].data \in ItemData
  BY ListFields
<1>2. SyncCloverItems(s, incoming) = Upserts(s, incoming) \o removals
  BY DEF SyncCloverItems, Upserts
<1>3. PICK u : Upserting(u, s, incoming, n)
  <2> HIDE DEF n
  <2> QED
    BY <1>1, UpsertsGrow
<1>4. \A k \in 1 .. n : ApplyCloverItem(s, incoming[k].item, incoming[k].data) = <<>>
  <2> SUFFICES ASSUME NEW k \in 1 .. n
               PROVE  ApplyCloverItem(s, incoming[k].item, incoming[k].data) = <<>>
    OBVIOUS
  <2>1. incoming[k].data \in ItemData /\ s.items[incoming[k].item] = incoming[k].data
    BY <1>1
  <2>2. incoming[k].data # Null
    BY <2>1, VendorAssumption
  <2> QED
    BY <2>1, <2>2 DEF ApplyCloverItem
<1>5. u[n] = <<>>
  <2> DEFINE bad == {k \in 0 .. n : u[k] # <<>>}
  <2>1. SUFFICES ASSUME bad # {} PROVE FALSE
    BY <1>1
  <2>2. bad \in SUBSET Nat
    OBVIOUS
  <2>3. PICK k \in bad : \A m \in bad : k <= m
    BY <2>1, <2>2, LeastNumber
  <2>4. k # 0
    BY <1>3, <2>3 DEF Upserting
  <2>5. k \in 1 .. n /\ k - 1 \in 0 .. n /\ k - 1 \notin bad
    BY <1>1, <2>3, <2>4
  <2>6. u[k - 1] = <<>>
    BY <2>5
  <2>7. u[k] = <<>> \o <<>>
    BY <1>3, <1>4, <2>5, <2>6 DEF Upserting
  <2>8. <<>> \o <<>> = <<>>
    OBVIOUS
  <2> QED
    BY <2>3, <2>7, <2>8
<1>6. gone = {}
  OBVIOUS
<1>7. removals = <<>>
  <2>1. Cardinality({}) = 0 /\ IsFiniteSet({})
    BY FS_EmptySet
  <2>2. g \in [1 .. 0 -> gone]
    BY <1>6, <2>1, ListsAll
  <2> HIDE DEF g, gone
  <2>3. DOMAIN g = 1 .. 0
    BY <2>2
  <2>4. removals = [k \in 1 .. 0 |-> ItemRemoved(g[k])]
    BY <2>3
  <2> QED
    BY <2>4
<1>8. <<>> \o <<>> = <<>>
  OBVIOUS
<1> HIDE DEF removals
<1> QED
  BY <1>2, <1>3, <1>5, <1>7, <1>8 DEF Upserting

LEMMA SameFold == \A v, es : Session!ApplyEvents(v, es) = ApplyEvents(v, es)
BY DEF Session!ApplyEvents, ApplyEvents, Session!Reduce, Reduce, Session!Handle, Handle,
       Session!NoItems, NoItems

LEMMA SameUpsert == \A s, i, d : Session!ApplyCloverItem(s, i, d) = ApplyCloverItem(s, i, d)
BY DEF Session!ApplyCloverItem, ApplyCloverItem, Session!ItemAdded, ItemAdded,
       Session!ItemUpdated, ItemUpdated

LEMMA SameMax == \A S : Session!Max(S) = Max(S)
BY DEF Session!Max, Max

LEMMA SameToSeq == \A S : Session!SetToSeq(S) = SetToSeq(S)
BY DEF Session!SetToSeq, SetToSeq, Session!IsInjective, IsInjective, Session!Cardinality, Cardinality

LEMMA SameSync == \A s, l : Session!SyncCloverItems(s, l) = SyncCloverItems(s, l)
<1> SUFFICES ASSUME NEW s, NEW l
             PROVE  Session!SyncCloverItems(s, l) = SyncCloverItems(s, l)
  OBVIOUS
<1> DEFINE op(done, next) == done \o ApplyCloverItem(s, next.item, next.data)
           op2(done, next) == done \o Session!ApplyCloverItem(s, next.item, next.data)
<1>1. Session!FoldLeft(LAMBDA done, next :
                            done \o Session!ApplyCloverItem(s, next.item, next.data), <<>>, l)
       = Upserts(s, l)
  BY SameUpsert, SameMax DEF Session!FoldLeft, Session!MapThenFoldSet, Upserts, FoldLeft, MapThenFoldSet
<1> QED
  BY <1>1, SameToSeq DEF Session!SyncCloverItems, SyncCloverItems, Session!ItemRemoved, ItemRemoved, Upserts

SessionInv == Session!SessionTypeOK /\ Session!SyncMirrors

\* The vendor in memory before what an action emits.
InMemory == [version |-> 0, snapshot |-> session]

LEMMA InitSession == Session!Init => SessionInv
BY DEF Session!Init, SessionInv, Session!SessionTypeOK, Session!SyncMirrors, Session!NoList

LEMMA SameBasisPoints == Session!BasisPoints = BasisPoints
BY DEF Session!BasisPoints, BasisPoints

LEMMA SameSnapshots == Session!Snapshots = Snapshots
BY SameBasisPoints DEF Session!Snapshots, Snapshots

\* What an action emits leads to a snapshot, and no list was synced.
LEMMA DoKeeps ==
  ASSUME NEW given, Session!Do(given), NEW after,
         after = ApplyEvents(InMemory, given), after.snapshot \in Snapshots
  PROVE  SessionInv'
<1>1. session' = after.snapshot /\ synced' = Session!NoList
  BY SameFold DEF Session!Do, Session!Emit, InMemory
<1>3. Session!SessionTypeOK'
  BY <1>1, SameSnapshots DEF Session!SessionTypeOK
<1>4. Session!SyncMirrors'
  BY <1>1 DEF Session!SyncMirrors, Session!NoList
<1> QED
  BY <1>3, <1>4 DEF SessionInv

LEMMA EventKeeps ==
  ASSUME NEW event, Session!Do(<<event>>), Handle(session, event) \in Snapshots
  PROVE  SessionInv'
<1> DEFINE after == Reduce(InMemory, event)
<1>1. after = ApplyEvents(InMemory, <<event>>)
  BY FoldOfOne
<1>2. after.snapshot \in Snapshots
  BY DEF Reduce, InMemory
<1> HIDE DEF after
<1> QED
  BY <1>1, <1>2, DoKeeps

LEMMA LeadingKeeps ==
  ASSUME NEW given, NEW fromThere, Session!Do(fromThere), fromThere = given,
         NEW after, NEW J, LeadsTo(InMemory, given, after, J)
  PROVE  SessionInv'
<1>1. after = ApplyEvents(InMemory, given) /\ after.snapshot \in Snapshots
  BY DEF LeadsTo
<1> QED
  BY <1>1, DoKeeps

LEMMA HeldIsTyped ==
  ASSUME session \in Snapshots
  PROVE  InMemory \in [version : Nat, snapshot : Snapshots] /\ InMemory.snapshot = session
BY DEF InMemory

LEMMA ShareIsAccepted ==
  ASSUME NEW name, NEW share, NEW c, ~Session!CreateRefused(name, share, c)
  PROVE  name # Blank /\ c # Blank /\ (share = Null \/ share \in BasisPoints)
BY SameBasisPoints DEF Session!CreateRefused

LEMMA CreateKeeps ==
  ASSUME NEW name \in Session!Texts, NEW share, NEW c \in Categories \cup {Null, Blank},
         Session!DoCreate(name, share, c)
  PROVE  SessionInv'
<1> DEFINE dealt == IF share = Null THEN DefaultShare ELSE share
           event == Created(name, dealt, c)
           made == [name |-> name, status |-> "active", share |-> dealt,
                    category |-> c, items |-> NoItems]
<1>1. ~Session!CreateRefused(name, share, c)
  BY DEF Session!DoCreate
<1>2. name # Blank /\ c # Blank /\ (share = Null \/ share \in BasisPoints)
  BY <1>1, ShareIsAccepted
<1>3. name \in Names /\ c \in Filed
  BY <1>2 DEF Session!Texts, Filed
<1>4. DefaultShare \in BasisPoints
  BY DEF DefaultShare, BasisPoints
<1>5. dealt \in BasisPoints
  BY <1>2, <1>4
<1>6. Session!Do(<<event>>)
  BY DEF Session!DoCreate, Session!Create, Session!Created, Created, Session!DefaultShare,
         DefaultShare
<1> HIDE DEF dealt
<1>7. Handle(session, event) = made
  BY DEF Handle, Created
<1>8. "active" \in Statuses /\ NoItems \in Holdings
  BY DEF Statuses, NoItems, Holdings
<1>9. made \in Snapshots
  BY <1>3, <1>5, <1>8, SnapshotsAre
<1> HIDE DEF event, made
<1>10. Handle(session, event) \in Snapshots
  BY <1>7, <1>9
<1> QED
  BY <1>6, <1>10, EventKeeps

LEMMA PlainKeeps ==
  ASSUME session \in Snapshots
  PROVE  /\ \A name \in Session!Texts : Session!DoRename(name) => SessionInv'
         /\ \A c \in Categories \cup {Blank} : Session!DoLink(c) => SessionInv'
         /\ Session!DoActivate => SessionInv'
         /\ Session!DoDeactivate => SessionInv'
<1>1. ASSUME NEW name \in Session!Texts, Session!DoRename(name) PROVE SessionInv'
  <2>1. name \in Names /\ Session!Do(<<Renamed(name)>>)
    BY <1>1 DEF Session!DoRename, Session!RenameRefused, Session!Texts, Session!Rename,
                Session!Renamed, Renamed
  <2>2. Handle(session, Renamed(name)) = [session EXCEPT !.name = name]
    BY DEF Handle, Renamed
  <2>3. Handle(session, Renamed(name)) \in Snapshots
    BY <2>1, <2>2, SnapshotRenamed
  <2> QED
    BY <2>1, <2>3, EventKeeps
<1>2. ASSUME NEW c \in Categories \cup {Blank}, Session!DoLink(c) PROVE SessionInv'
  <2>1. c \in Categories /\ Session!Do(<<Linked(c)>>)
    BY <1>2 DEF Session!DoLink, Session!LinkCloverCategoryRefused, Session!LinkCloverCategory,
                Session!Linked, Linked
  <2>2. Handle(session, Linked(c)) = [session EXCEPT !.category = c]
    BY DEF Handle, Linked
  <2>3. Handle(session, Linked(c)) \in Snapshots
    BY <2>1, <2>2, SnapshotMarked
  <2> QED
    BY <2>1, <2>3, EventKeeps
<1>3. ASSUME Session!DoActivate PROVE SessionInv'
  <2>1. Session!Do(<<Activated>>)
    BY <1>3 DEF Session!DoActivate, Session!Activate, Session!Activated, Activated
  <2>2. Handle(session, Activated) = [session EXCEPT !.status = "active"]
    BY DEF Handle, Activated
  <2>3. Handle(session, Activated) \in Snapshots
    BY <2>2, SnapshotMarked
  <2> QED
    BY <2>1, <2>3, EventKeeps
<1>4. ASSUME Session!DoDeactivate PROVE SessionInv'
  <2>1. Session!Do(<<Deactivated>>)
    BY <1>4 DEF Session!DoDeactivate, Session!Deactivate, Session!Deactivated, Deactivated
  <2>2. Handle(session, Deactivated) = [session EXCEPT !.status = "inactive"]
    BY DEF Handle, Deactivated
  <2>3. Handle(session, Deactivated) \in Snapshots
    BY <2>2, SnapshotMarked
  <2> QED
    BY <2>1, <2>3, EventKeeps
<1> QED
  BY <1>1, <1>2, <1>3, <1>4

LEMMA CloverKeeps ==
  ASSUME session \in Snapshots
  PROVE  /\ \A name \in Session!Texts : Session!DoSyncName(name) => SessionInv'
         /\ \A i \in Items \cup {Blank}, d \in ItemData \cup {Null} :
              Session!DoApply(i, d) => SessionInv'
         /\ \A i \in Items : Session!DoRemove(i) => SessionInv'
<1>1. ASSUME NEW name \in Session!Texts, Session!DoSyncName(name) PROVE SessionInv'
  <2>1. Session!SyncCloverCategoryName(session, name) = SyncCloverCategoryName(session, name)
    BY DEF Session!SyncCloverCategoryName, SyncCloverCategoryName, Session!Renamed, Renamed
  <2>2. PICK after : LeadsTo(InMemory, SyncCloverCategoryName(InMemory.snapshot, name), after,
                             InMemory.snapshot.items)
    BY HeldIsTyped, NameLeads DEF Session!Texts
  <2>3. Session!Do(SyncCloverCategoryName(session, name))
    BY <1>1, <2>1 DEF Session!DoSyncName
  <2> QED
    BY <2>2, <2>3, HeldIsTyped, LeadingKeeps
<1>2. ASSUME NEW i \in Items \cup {Blank}, NEW d \in ItemData \cup {Null}, Session!DoApply(i, d)
      PROVE  SessionInv'
  <2>1. i \in Items /\ d \in ItemData /\ Session!Do(ApplyCloverItem(session, i, d))
    BY <1>2, SameUpsert DEF Session!DoApply, Session!ItemRefused
  <2>2. PICK after : LeadsTo(InMemory, ApplyCloverItem(InMemory.snapshot, i, d), after,
                             [InMemory.snapshot.items EXCEPT ![i] = d])
    BY <2>1, HeldIsTyped, ItemLeads
  <2> QED
    BY <2>1, <2>2, HeldIsTyped, LeadingKeeps
<1>3. ASSUME NEW i \in Items, Session!DoRemove(i) PROVE SessionInv'
  <2>1. Session!RemoveCloverItem(session, i) = RemoveCloverItem(session, i)
    BY DEF Session!RemoveCloverItem, RemoveCloverItem, Session!ItemRemoved, ItemRemoved
  <2>2. PICK after : LeadsTo(InMemory, RemoveCloverItem(InMemory.snapshot, i), after,
                             [InMemory.snapshot.items EXCEPT ![i] = Null])
    BY HeldIsTyped, RemovalLeads
  <2>3. Session!Do(RemoveCloverItem(session, i))
    BY <1>3, <2>1 DEF Session!DoRemove
  <2> QED
    BY <2>2, <2>3, HeldIsTyped, LeadingKeeps
<1> QED
  BY <1>1, <1>2, <1>3

\* A list that is not refused is one Clover may send.
LEMMA TakenIsList ==
  ASSUME NEW incoming \in Session!Lists, ~Session!SyncCloverItemsRefused(incoming)
  PROVE  IsList(incoming)
<1> DEFINE R == [item: Items \cup {Blank}, data: ItemData]
           S == [item : Items, data : ItemData]
<1>1. PICK n \in 1 .. MaxListed : incoming \in [1 .. n -> R]
  BY DEF Session!Lists
<1>2. n \in Nat
  BY <1>1, SessionAssumption
<1>3. \A k \in 1 .. n : incoming[k].item # Blank
  BY <1>1 DEF Session!SyncCloverItemsRefused, Session!ItemRefused
<1>4. \A k \in 1 .. n : incoming[k] \in S
  BY <1>1, <1>3
<1> HIDE DEF R, S
<1>5. incoming \in Seq(S)
  BY <1>1, <1>2, <1>4
<1>6. \A j, k \in DOMAIN incoming : j # k => incoming[j].item # incoming[k].item
  BY DEF Session!SyncCloverItemsRefused
<1> QED
  BY <1>5, <1>6 DEF IsList, S

LEMMA SyncMakesMirror ==
  ASSUME session \in Snapshots, NEW incoming \in Session!Lists, Session!DoSync(incoming)
  PROVE  SessionInv'
<1>1. IsList(incoming)
  BY TakenIsList DEF Session!DoSync
<1>2. InMemory \in [version : Nat, snapshot : Snapshots] /\ InMemory.snapshot = session
  BY HeldIsTyped
<1>3. PICK after, J : /\ LeadsTo(InMemory, SyncCloverItems(InMemory.snapshot, incoming), after, J)
                      /\ J \in [Items -> ItemData \cup {Null}]
                      /\ \A k \in DOMAIN incoming : J[incoming[k].item] = incoming[k].data
                      /\ \A i \in Items : (\A k \in DOMAIN incoming : incoming[k].item # i)
                                            => J[i] = Null
  BY <1>1, <1>2, SyncLeads
<1>4. session' = ApplyEvents(InMemory, SyncCloverItems(session, incoming)).snapshot
      /\ synced' = incoming
  BY SameFold, SameSync DEF Session!DoSync, Session!Emit, InMemory
<1>5. session' = after.snapshot /\ session' \in Snapshots /\ session'.items = J
  BY <1>2, <1>3, <1>4 DEF LeadsTo
<1>6. \A i \in Items, d \in ItemData :
        J[i] = d <=> \E k \in DOMAIN incoming : incoming[k] = [item |-> i, data |-> d]
  BY <1>1, <1>3, MirrorOf
<1>7. SyncCloverItems(session', incoming) = <<>>
  BY <1>1, <1>3, <1>5, SyncAgain
<1>8. Session!SyncCloverItems(session', synced') = <<>>
  BY <1>4, <1>7, SameSync
<1>9. Session!SessionTypeOK'
  BY <1>5, SameSnapshots DEF Session!SessionTypeOK
<1>10. \A i \in Items, d \in ItemData :
         session'.items[i] = d <=> \E k \in DOMAIN synced' : synced'[k] = [item |-> i, data |-> d]
  BY <1>4, <1>5, <1>6
<1>11. Session!SyncMirrors'
  BY <1>8, <1>10 DEF Session!SyncMirrors
<1> QED
  BY <1>9, <1>11 DEF SessionInv

LEMMA StepKeepsSession ==
  SessionInv /\ [Session!Next]_(Session!vendorSessionVars) => SessionInv'
<1> SUFFICES ASSUME SessionInv, [Session!Next]_(Session!vendorSessionVars)
             PROVE  SessionInv'
  OBVIOUS
<1>1. CASE UNCHANGED Session!vendorSessionVars
  BY <1>1 DEF Session!vendorSessionVars, SessionInv, Session!SessionTypeOK, Session!SyncMirrors
<1>2. ASSUME NEW name \in Session!Texts, NEW share \in {Null, 10000, 10001},
             NEW c \in Categories \cup {Null, Blank}, Session!DoCreate(name, share, c)
      PROVE  SessionInv'
  BY <1>2, CreateKeeps
<1>3. session # Null => session \in Snapshots
  BY SameSnapshots DEF SessionInv, Session!SessionTypeOK
<1>4. ASSUME session # Null,
             \/ \E name \in Session!Texts : Session!DoRename(name) \/ Session!DoSyncName(name)
             \/ \E c \in Categories \cup {Blank} : Session!DoLink(c)
             \/ Session!DoActivate \/ Session!DoDeactivate
             \/ \E i \in Items \cup {Blank}, d \in ItemData \cup {Null} : Session!DoApply(i, d)
             \/ \E i \in Items : Session!DoRemove(i)
             \/ \E incoming \in Session!Lists : Session!DoSync(incoming)
      PROVE  SessionInv'
  BY <1>3, <1>4, PlainKeeps, CloverKeeps, SyncMakesMirror
<1>5. ASSUME Session!Next PROVE SessionInv'
  <2>1. session # Null \/ \E name \in Session!Texts, share \in {Null, 10000, 10001},
                              c \in Categories \cup {Null, Blank} : Session!DoCreate(name, share, c)
    BY <1>5 DEF Session!Next, Session!DoRename, Session!DoSyncName, Session!DoLink,
                Session!DoActivate, Session!DoDeactivate, Session!DoApply, Session!DoRemove,
                Session!DoSync
  <2> QED
    BY <1>2, <1>4, <1>5, <2>1 DEF Session!Next
<1> QED
  BY <1>1, <1>5

\* Whatever is done to a vendor and in whatever order, a sync leaves it with exactly the
\* listed items and their data, and a second sync of the same list emits nothing
\* (VendorSession: syncCloverItems of vendor.actions.ts through the handlers).
THEOREM SyncsAreMirrors == Session!Spec => []Session!SyncMirrors
<1>1. SessionInv => Session!SyncMirrors
  BY DEF SessionInv
<1> QED
  BY <1>1, InitSession, StepKeepsSession, PTL DEF Session!Spec

-----------------------------------------------------------------------------
(* The marketing site: pieces put together.                                 *)

LEMMA Glued ==
  ASSUME NEW R, NEW s \in Seq(R), NEW t \in Seq(R)
  PROVE  /\ s \o t \in Seq(R) /\ DOMAIN (s \o t) = 1 .. Len(s) + Len(t)
         /\ Len(s) \in Nat /\ Len(t) \in Nat /\ DOMAIN s = 1 .. Len(s) /\ DOMAIN t = 1 .. Len(t)
         /\ \A i \in 1 .. Len(s) : (s \o t)[i] = s[i]
         /\ \A i \in 1 .. Len(t) : (s \o t)[Len(s) + i] = t[i]
         /\ \A i \in 1 .. Len(s) + Len(t) :
              \/ i \in 1 .. Len(s) /\ (s \o t)[i] = s[i]
              \/ i - Len(s) \in 1 .. Len(t) /\ (s \o t)[i] = t[i - Len(s)]
OBVIOUS

LEMMA FlatGrows ==
  ASSUME NEW R, NEW n \in Nat \ {0}, NEW pieces, pieces[n] \in Seq(R),
         NEW f, FlatIn(R, f, pieces, n - 1)
  PROVE  FlatIn(R, f \o pieces[n], pieces, n)
<1> DEFINE p == pieces[n]
           g == f \o p
           a == Len(f)
           b == Len(p)
<1>1. f \in Seq(R) /\ p \in Seq(R)
  BY DEF FlatIn
<1>2. /\ g \in Seq(R) /\ DOMAIN g = 1 .. a + b /\ a \in Nat /\ b \in Nat
      /\ DOMAIN f = 1 .. a /\ DOMAIN p = 1 .. b
      /\ \A i \in 1 .. a : g[i] = f[i]
      /\ \A i \in 1 .. b : g[a + i] = p[i]
      /\ \A i \in 1 .. a + b : \/ i \in 1 .. a /\ g[i] = f[i]
                               \/ i - a \in 1 .. b /\ g[i] = p[i - a]
  BY <1>1, Glued
<1> HIDE DEF g, a, b
<1>3. /\ \A m \in 1 .. n - 1 : m \in 1 .. n
      /\ n \in 1 .. n
      /\ \A m \in 1 .. n : m \in 1 .. n - 1 \/ m = n
      /\ \A m \in 1 .. n : m <= n
  OBVIOUS
<1>4. \A i \in 1 .. b : p[i] \in Shown(p)
  BY <1>2 DEF Shown
<1>5. ASSUME NEW i \in DOMAIN g
      PROVE  \E m \in 1 .. n : g[i] \in Shown(pieces[m])
  <2>1. \/ i \in 1 .. a /\ g[i] = f[i]
        \/ i - a \in 1 .. b /\ g[i] = p[i - a]
    BY <1>2, <1>5
  <2>2. i \in 1 .. a => \E m \in 1 .. n - 1 : f[i] \in Shown(pieces[m])
    BY <1>2 DEF FlatIn, Flat
  <2> QED
    BY <1>3, <1>4, <2>1, <2>2
<1>6. ASSUME NEW m \in 1 .. n
      PROVE  Shown(pieces[m]) \subseteq Shown(g)
  <2>1. CASE m \in 1 .. n - 1
    <3>1. Shown(pieces[m]) \subseteq Shown(f)
      BY <2>1 DEF FlatIn, Flat
    <3>2. Shown(f) \subseteq Shown(g)
      <4>1. \A i \in DOMAIN f : i \in DOMAIN g /\ g[i] = f[i]
        BY <1>2
      <4> QED
        BY <4>1 DEF Shown
    <3> QED
      BY <3>1, <3>2
  <2>2. CASE m = n
    <3>1. \A i \in DOMAIN p : a + i \in DOMAIN g /\ g[a + i] = p[i]
      BY <1>2
    <3>2. Shown(p) \subseteq Shown(g)
      BY <3>1 DEF Shown
    <3> QED
      BY <2>2, <3>2
  <2> QED
    BY <1>3, <2>1, <2>2
<1>7. ASSUME NEW i \in DOMAIN g, NEW j \in DOMAIN g, i < j
      PROVE  \E m, k \in 1 .. n : m <= k /\ g[i] \in Shown(pieces[m]) /\ g[j] \in Shown(pieces[k])
  <2>1. PICK m \in 1 .. n : g[i] \in Shown(pieces[m])
    BY <1>5
  <2>2. CASE j - a \in 1 .. b /\ g[j] = p[j - a]
    <3>1. g[j] \in Shown(pieces[n])
      BY <1>4, <2>2
    <3> QED
      BY <1>3, <2>1, <3>1
  <2>3. CASE j \in 1 .. a /\ g[j] = f[j]
    <3>1. i \in 1 .. a /\ g[i] = f[i]
      BY <1>2, <1>7, <2>3
    <3>2. \E h, k \in 1 .. n - 1 : h <= k /\ f[i] \in Shown(pieces[h]) /\ f[j] \in Shown(pieces[k])
      BY <1>2, <1>7, <2>3, <3>1 DEF FlatIn, Flat
    <3> QED
      BY <1>3, <2>3, <3>1, <3>2
  <2> QED
    BY <1>2, <2>2, <2>3
<1>8. Flat(g, pieces, n)
  BY <1>2, <1>5, <1>6, <1>7 DEF Flat
<1> QED
  BY <1>2, <1>8 DEF FlatIn, g

LEMMA FlattenIs ==
  ASSUME NEW R, NEW n \in Nat, NEW pieces \in [1 .. n -> Seq(R)]
  PROVE  FlatIn(R, FlattenSeq(pieces), pieces, n)
<1>1. pieces \in Seq(Seq(R)) /\ Len(pieces) = n /\ DOMAIN pieces = 1 .. n
  OBVIOUS
<1>2. CASE n = 0
  <2>1. pieces = <<>> /\ FlattenSeq(pieces) = pieces
    BY <1>1, <1>2 DEF FlattenSeq
  <2>2. <<>> \in Seq(R) /\ DOMAIN <<>> = {} /\ 1 .. n = {}
    BY <1>2
  <2> QED
    BY <2>1, <2>2 DEF FlatIn, Flat
<1>3. CASE n # 0
  <2> DEFINE IsFlat(h) == h = [i \in 1 .. Len(pieces) |->
                                 IF i = 1 THEN pieces[i] ELSE h[i - 1] \o pieces[i]]
             f == CHOOSE h : IsFlat(h)
  <2>1. FlattenSeq(pieces) = f[n]
    BY <1>1, <1>3 DEF FlattenSeq
  <2>2. \A h : IsFlat(h) <=> Flattens(h, pieces, n)
    BY <1>1 DEF Flattens
  <2> HIDE DEF IsFlat
  <2>3. Flattens(f, pieces, n)
    <3>1. PICK h : Flattens(h, pieces, n)
      BY FlattenExists
    <3>2. IsFlat(h)
      BY <2>2, <3>1
    <3>3. IsFlat(f)
      BY <3>2
    <3> QED
      BY <2>2, <3>3
  <2> HIDE DEF f
  <2>4. \A i \in 1 .. n : f[i] = IF i = 1 THEN pieces[i] ELSE f[i - 1] \o pieces[i]
    BY <2>3 DEF Flattens
  <2> DEFINE bad == {k \in 1 .. n : ~FlatIn(R, f[k], pieces, k)}
  <2>5. bad = {}
    <3>1. SUFFICES ASSUME bad # {} PROVE FALSE
      OBVIOUS
    <3>2. bad \in SUBSET Nat
      OBVIOUS
    <3>3. PICK k \in bad : \A m \in bad : k <= m
      BY <3>1, <3>2, LeastNumber
    <3>4. k \in 1 .. n /\ pieces[k] \in Seq(R)
      BY <3>3
    <3>5. CASE k = 1
      <4>1. FlatIn(R, <<>>, pieces, 0)
        <5>1. <<>> \in Seq(R) /\ DOMAIN <<>> = {} /\ 1 .. 0 = {}
          OBVIOUS
        <5> QED
          BY <5>1 DEF FlatIn, Flat
      <4>2. FlatIn(R, <<>> \o pieces[1], pieces, 1)
        <5>1. 1 \in Nat \ {0} /\ 1 - 1 = 0
          OBVIOUS
        <5> QED
          BY <3>4, <3>5, <4>1, <5>1, FlatGrows
      <4>3. <<>> \o pieces[1] = f[1]
        BY <2>4, <3>4, <3>5
      <4> QED
        BY <3>3, <3>5, <4>2, <4>3
    <3>6. CASE k # 1
      <4>1. k - 1 \in 1 .. n /\ k - 1 \notin bad /\ k \in Nat \ {0}
        BY <3>3, <3>4, <3>6
      <4>2. FlatIn(R, f[k - 1], pieces, k - 1)
        BY <4>1
      <4>3. f[k] = f[k - 1] \o pieces[k]
        BY <2>4, <3>4, <3>6
      <4>4. FlatIn(R, f[k - 1] \o pieces[k], pieces, k)
        BY <3>4, <4>1, <4>2, FlatGrows
      <4> QED
        BY <3>3, <4>3, <4>4
    <3> QED
      BY <3>5, <3>6
  <2>6. n \in 1 .. n
    BY <1>3
  <2> QED
    BY <2>1, <2>5, <2>6
<1> QED
  BY <1>2, <1>3

-----------------------------------------------------------------------------
(* Its search.                                                              *)

LEMMA SameFlatten == \A s : Site!FlattenSeq(s) = FlattenSeq(s)
BY DEF Site!FlattenSeq, FlattenSeq

\* The chosen shelf are the shelf at the chosen places.
LEMMA ChosenAre ==
  ASSUME NEW R, NEW shelf \in Seq(R), NEW places
  PROVE  /\ Site!Chosen(shelf, places) \in Seq(R)
         /\ \A x : x \in Shown(Site!Chosen(shelf, places))
                     <=> \E i \in DOMAIN shelf : i \in places /\ x = shelf[i]
<1> DEFINE n == Len(shelf)
           pieces == [i \in 1 .. n |-> IF i \in places THEN <<shelf[i]>> ELSE <<>>]
           c == Site!Chosen(shelf, places)
<1>1. n \in Nat /\ DOMAIN shelf = 1 .. n /\ \A i \in 1 .. n : shelf[i] \in R
  OBVIOUS
<1>2. c = FlattenSeq(pieces)
  BY <1>1, SameFlatten DEF Site!Chosen
<1>3. \A i \in 1 .. n : pieces[i] = IF i \in places THEN <<shelf[i]>> ELSE <<>>
  OBVIOUS
<1>4. pieces \in [1 .. n -> Seq(R)]
  <2>1. \A i \in 1 .. n : <<shelf[i]>> \in Seq(R) /\ <<>> \in Seq(R)
    BY <1>1
  <2> QED
    BY <1>3, <2>1
<1> HIDE DEF pieces, n
<1>5. FlatIn(R, FlattenSeq(pieces), pieces, n)
  BY <1>1, <1>4, FlattenIs
<1> HIDE DEF c
<1>6. \A i \in 1 .. n : Shown(pieces[i]) = IF i \in places THEN {shelf[i]} ELSE {}
  <2>1. \A x : Shown(<<x>>) = {x}
    BY DEF Shown
  <2>2. Shown(<<>>) = {}
    BY DEF Shown
  <2> QED
    BY <1>3, <2>1, <2>2
<1>7. ASSUME NEW x \in Shown(c)
      PROVE  \E i \in DOMAIN shelf : i \in places /\ x = shelf[i]
  <2>1. PICK j \in DOMAIN c : x = c[j]
    BY DEF Shown
  <2>2. PICK i \in 1 .. n : c[j] \in Shown(pieces[i])
    BY <1>2, <1>5 DEF FlatIn, Flat
  <2> QED
    BY <1>1, <1>6, <2>1, <2>2
<1>8. ASSUME NEW i \in DOMAIN shelf, i \in places
      PROVE  shelf[i] \in Shown(c)
  <2>1. shelf[i] \in Shown(pieces[i])
    BY <1>1, <1>6, <1>8
  <2> QED
    BY <1>1, <1>2, <1>5, <2>1 DEF FlatIn, Flat
<1>9. c \in Seq(R)
  BY <1>2, <1>5 DEF FlatIn
<1> QED
  BY <1>7, <1>8, <1>9 DEF c

\* A search puts every card it finds in one of five tiers, the best first.
LEMMA SearchFinds ==
  ASSUME NEW R, NEW shelf \in Seq(R), NEW query, query # <<>>
  PROVE  LET found == Site!SearchVendors(shelf, query)
         IN  /\ found \in Seq(R)
             /\ Shown(found) \subseteq Shown(shelf)
             /\ \A i \in DOMAIN shelf : Site!ScoreVendor(shelf[i], query) = 5
                                         => shelf[i] \in Shown(found)
             /\ \A i, j \in DOMAIN found :
                  i < j /\ Site!ScoreVendor(found[j], query) = 5
                    => Site!ScoreVendor(found[i], query) = 5
<1> DEFINE Places(n) == {i \in DOMAIN shelf : Site!ScoreVendor(shelf[i], query) = n}
           pieces == [k \in 1 .. 5 |-> Site!Chosen(shelf, Places(6 - k))]
           found == Site!SearchVendors(shelf, query)
<1>1. found = FlattenSeq(pieces)
  BY SameFlatten DEF Site!SearchVendors
<1>2. /\ pieces \in [1 .. 5 -> Seq(R)]
      /\ \A k \in 1 .. 5 : \A x : x \in Shown(pieces[k])
           <=> \E i \in DOMAIN shelf : i \in Places(6 - k) /\ x = shelf[i]
  BY ChosenAre
<1>3. \A k \in 1 .. 5 : \A x \in Shown(pieces[k]) :
        /\ x \in Shown(shelf)
        /\ Site!ScoreVendor(x, query) = 6 - k
  <2>1. \A i \in DOMAIN shelf : shelf[i] \in Shown(shelf)
    BY DEF Shown
  <2> HIDE DEF pieces
  <2> QED
    BY <1>2, <2>1
<1>4. \A i \in DOMAIN shelf : Site!ScoreVendor(shelf[i], query) = 5 => shelf[i] \in Shown(pieces[1])
  <2>1. 1 \in 1 .. 5 /\ 6 - 1 = 5
    OBVIOUS
  <2> HIDE DEF pieces
  <2> QED
    BY <1>2, <2>1
<1> HIDE DEF pieces
<1>5. FlatIn(R, FlattenSeq(pieces), pieces, 5)
  BY <1>2, FlattenIs
<1> HIDE DEF found
<1>6. found \in Seq(R)
  BY <1>1, <1>5 DEF FlatIn
<1>7. Shown(found) \subseteq Shown(shelf)
  <2> SUFFICES ASSUME NEW j \in DOMAIN found PROVE found[j] \in Shown(shelf)
    BY DEF Shown
  <2>1. PICK k \in 1 .. 5 : found[j] \in Shown(pieces[k])
    BY <1>1, <1>5 DEF FlatIn, Flat
  <2> QED
    BY <1>3, <2>1
<1>8. \A i \in DOMAIN shelf : Site!ScoreVendor(shelf[i], query) = 5 => shelf[i] \in Shown(found)
  <2>1. Shown(pieces[1]) \subseteq Shown(found)
    BY <1>1, <1>5 DEF FlatIn, Flat
  <2> QED
    BY <1>4, <2>1
<1>9. ASSUME NEW i \in DOMAIN found, NEW j \in DOMAIN found, i < j,
             Site!ScoreVendor(found[j], query) = 5
      PROVE  Site!ScoreVendor(found[i], query) = 5
  <2>1. PICK m, k \in 1 .. 5 : m <= k /\ found[i] \in Shown(pieces[m])
                                 /\ found[j] \in Shown(pieces[k])
    BY <1>1, <1>5, <1>9 DEF FlatIn, Flat
  <2>2. 6 - k = 5
    BY <1>3, <1>9, <2>1
  <2>3. m = 1
    BY <2>1, <2>2
  <2> QED
    BY <1>3, <2>1, <2>3
<1> QED
  BY <1>6, <1>7, <1>8, <1>9 DEF found

\* Rows put in order of name.
LEMMA NamedInOrder ==
  ASSUME NEW R, NEW shelf \in Seq(R), \A i \in DOMAIN shelf : shelf[i].name \in DOMAIN Signs
  PROVE  LET named == Site!ByName(shelf)
         IN  /\ named \in Seq(R) /\ Shown(named) = Shown(shelf)
             /\ \A i, j \in DOMAIN named : i < j => named[i].name <= named[j].name
<1> DEFINE N == Len(Signs)
           Places(n) == {i \in DOMAIN shelf : shelf[i].name = n}
           pieces == [n \in 1 .. N |-> Site!Chosen(shelf, Places(n))]
           named == Site!ByName(shelf)
<1>1. N \in Nat /\ DOMAIN Signs = 1 .. N
  BY SiteAssumption
<1>2. named = FlattenSeq(pieces)
  BY <1>1, SameFlatten DEF Site!ByName
<1>3. /\ pieces \in [1 .. N -> Seq(R)]
      /\ \A n \in 1 .. N : \A x : x \in Shown(pieces[n])
           <=> \E i \in DOMAIN shelf : i \in Places(n) /\ x = shelf[i]
  BY ChosenAre
<1>4. \A n \in 1 .. N : \A x \in Shown(pieces[n]) : x \in Shown(shelf) /\ x.name = n
  <2>1. \A i \in DOMAIN shelf : shelf[i] \in Shown(shelf)
    BY DEF Shown
  <2> HIDE DEF pieces
  <2> QED
    BY <1>3, <2>1
<1>5. \A i \in DOMAIN shelf : shelf[i] \in Shown(pieces[shelf[i].name])
  BY <1>1, <1>3
<1> HIDE DEF pieces, N
<1>6. FlatIn(R, FlattenSeq(pieces), pieces, N)
  BY <1>1, <1>3, FlattenIs
<1> HIDE DEF named
<1>7. named \in Seq(R)
  BY <1>2, <1>6 DEF FlatIn
<1>8. Shown(named) \subseteq Shown(shelf)
  <2> SUFFICES ASSUME NEW j \in DOMAIN named PROVE named[j] \in Shown(shelf)
    BY DEF Shown
  <2>1. PICK n \in 1 .. N : named[j] \in Shown(pieces[n])
    BY <1>2, <1>6 DEF FlatIn, Flat
  <2> QED
    BY <1>4, <2>1
<1>9. Shown(shelf) \subseteq Shown(named)
  <2> SUFFICES ASSUME NEW i \in DOMAIN shelf PROVE shelf[i] \in Shown(named)
    BY DEF Shown
  <2>1. shelf[i].name \in 1 .. N
    BY <1>1
  <2>2. Shown(pieces[shelf[i].name]) \subseteq Shown(named)
    BY <1>2, <1>6, <2>1 DEF FlatIn, Flat
  <2> QED
    BY <1>5, <2>2
<1>10. ASSUME NEW i \in DOMAIN named, NEW j \in DOMAIN named, i < j
       PROVE  named[i].name <= named[j].name
  <2>1. PICK m, k \in 1 .. N : m <= k /\ named[i] \in Shown(pieces[m])
                                 /\ named[j] \in Shown(pieces[k])
    BY <1>2, <1>6, <1>10 DEF FlatIn, Flat
  <2> QED
    BY <1>4, <2>1
<1> QED
  BY <1>7, <1>8, <1>9, <1>10 DEF named

\* The best tier holds the shelf of the name that is asked for and no other.
LEMMA BestIsNamed ==
  ASSUME NEW card, card.name \in DOMAIN Signs, NEW query
  PROVE  Site!ScoreVendor(card, query) = 5 <=> Signs[card.name] = query
<1>1. Site!ScoreVendor(card, query) = 5 => Signs[card.name] = query
  BY DEF Site!ScoreVendor
<1>2. ASSUME Signs[card.name] = query
      PROVE  Site!ScoreVendor(card, query) = 5
  <2>1. \A t \in Site!Words(query) : t \in Site!SearchKey(card) /\ Site!Inside(t, t)
    BY <1>2 DEF Site!SearchKey, Site!Inside
  <2>2. ~ \E t \in Site!Words(query) : \A w \in Site!SearchKey(card) : ~Site!Inside(t, w)
    BY <2>1
  <2> QED
    BY <1>2, <2>2 DEF Site!ScoreVendor
<1> QED
  BY <1>1, <1>2

-----------------------------------------------------------------------------
(* Its caches and what a visitor sees.                                      *)

\* The rows of the catalogue and the cards made of them.
Records == [name : DOMAIN Signs, active : BOOLEAN, items : SUBSET DOMAIN Wares]
Cards   == [of : Makers, name : DOMAIN Signs, items : SUBSET DOMAIN Wares]

\* What is kept in a cache.
Entries == [content : Seq(Cards), age : Nat, altered : SUBSET Makers]

\* The listed vendors and their rows, by the catalogue.
ListedIn(cat) == {v \in Makers : cat[v].active /\ cat[v].items # {}}
RowIn(cat, v) == [of |-> v, name |-> cat[v].name, items |-> cat[v].items]

\* A card of a vendor that did not change since is its row, and it is listed.
IsCurrent(cat, card, altered) ==
  card.of \in altered \/ (card.of \in ListedIn(cat) /\ card = RowIn(cat, card.of))

AllCurrent(cat, cards, altered) ==
  cards \in Seq(Cards) /\ \A i \in DOMAIN cards : IsCurrent(cat, cards[i], altered)

\* The directory has every listed vendor that did not change since, in order of name.
DirectoryOK(cat, content, altered) ==
  /\ AllCurrent(cat, content, altered)
  /\ \A v \in ListedIn(cat) \ altered : \E i \in DOMAIN content : content[i] = RowIn(cat, v)
  /\ \A i, j \in DOMAIN content : i < j => content[i].name <= content[j].name

\* A vendor that did not change since has a page under its slug: its own, or that of
\* another of the same slug that comes first in order of name.
PageOK(cat, slug, content, altered) ==
  /\ AllCurrent(cat, content, altered)
  /\ Len(content) <= 1
  /\ \A i \in DOMAIN content : Signs[content[i].name] = slug
  /\ \A v \in ListedIn(cat) \ altered : Signs[cat[v].name] = slug =>
       /\ Len(content) = 1
       /\ content[1] = RowIn(cat, v) \/ (content[1].of # v /\ content[1].name <= cat[v].name)

\* What is kept under a key.
EntryOK(cat, k, entry) ==
  /\ k = Site!Directory => DirectoryOK(cat, entry.content, entry.altered)
  /\ k = Site!Featured => AllCurrent(cat, entry.content, entry.altered)
  /\ \A n \in DOMAIN Signs : k = Site!SitePage(Signs[n]) =>
       PageOK(cat, Signs[n], entry.content, entry.altered)

CacheOK(cat, kept) ==
  /\ DOMAIN kept \subseteq Site!Keys /\ Site!Directory \in DOMAIN kept
  /\ kept \in [DOMAIN kept -> Entries]
  /\ \A k \in DOMAIN kept : EntryOK(cat, k, kept[k])

\* What a search shows.
Searched(where, query, cards) ==
  \A i, j \in DOMAIN cards :
    i < j => IF where = "az" THEN cards[i].name <= cards[j].name
             ELSE Signs[cards[j].name] = query => Signs[cards[i].name] = query

Finds(cat, query, cards, altered) ==
  \A v \in ListedIn(cat) \ altered :
    Signs[cat[v].name] = query => \E i \in DOMAIN cards : cards[i] = RowIn(cat, v)

\* A card that was followed has arrived.
Arrived(cards, altered) ==
  LET card == Head(cards)
  IN  card.of \in altered
      \/ /\ Len(cards) = 2
         /\ \/ cards[2] = card
            \/ /\ cards[2].of # card.of
               /\ Signs[cards[2].name] = Signs[card.name]
               /\ cards[2].name <= card.name

ScreenOK(cat, kept, seen) ==
  /\ seen \in [at : {"none", "home", "directory", "az", "page"}, query : Asked \cup {<<>>},
               cards : Seq(Cards), altered : SUBSET Makers]
  /\ seen.at # "page" => AllCurrent(cat, seen.cards, seen.altered)
  /\ seen.at \in {"directory", "az"} =>
       /\ kept[Site!Directory].altered \subseteq seen.altered
       /\ Searched(seen.at, seen.query, seen.cards)
       /\ Finds(cat, seen.query, seen.cards, seen.altered)
  /\ seen.at = "page" => Arrived(seen.cards, seen.altered)

SiteInv ==
  /\ catalog \in [Makers -> Records]
  /\ changed \in 0 .. MaxChanges
  /\ CacheOK(catalog, cache)
  /\ ScreenOK(catalog, cache, screen)

LEMMA TailOfPrefixed ==
  ASSUME NEW R, NEW x \in R, NEW s \in Seq(R)
  PROVE  Tail(<<x>> \o s) = s /\ (<<x>> \o s)[1] = x
<1> DEFINE p == <<x>>
           g == p \o s
<1>1. p \in Seq(R) /\ Len(p) = 1 /\ p[1] = x
  OBVIOUS
<1> HIDE DEF p
<1>2. /\ g \in Seq(R) /\ Len(g) = 1 + Len(s) /\ Len(s) \in Nat /\ g[1] = x
      /\ \A i \in 1 .. Len(s) : g[i + 1] = s[i]
  <2>1. /\ g \in Seq(R) /\ DOMAIN g = 1 .. Len(p) + Len(s) /\ Len(s) \in Nat
        /\ \A i \in 1 .. Len(p) : g[i] = p[i]
        /\ \A i \in 1 .. Len(s) : g[Len(p) + i] = s[i]
    <3>1. p \in Seq(R)
      BY <1>1
    <3> QED
      BY <3>1, Glued
  <2> HIDE DEF g
  <2>2. \A i \in 1 .. Len(s) : g[i + 1] = s[i]
    <3> SUFFICES ASSUME NEW i \in 1 .. Len(s) PROVE g[i + 1] = s[i]
      OBVIOUS
    <3>1. Len(p) + i = i + 1
      BY <1>1, <2>1
    <3> QED
      BY <2>1, <3>1
  <2>3. Len(g) = 1 + Len(s)
    BY <1>1, <2>1
  <2> QED
    BY <1>1, <2>1, <2>2, <2>3
<1> HIDE DEF g
<1>3. /\ Tail(g) \in Seq(R) /\ Len(Tail(g)) = Len(s)
      /\ \A i \in 1 .. Len(s) : Tail(g)[i] = g[i + 1]
  BY <1>2
<1>4. Tail(g) = s
  BY <1>2, <1>3
<1> QED
  BY <1>2, <1>4 DEF g, p

\* The keys of the caches differ, and a page's tells its slug.
LEMMA KeysDiffer ==
  /\ Site!Directory # Site!Featured
  /\ \A n \in DOMAIN Signs :
       /\ Site!SitePage(Signs[n]) \notin {Site!Directory, Site!Featured}
       /\ Tail(Site!SitePage(Signs[n])) = Signs[n]
       /\ Site!SitePage(Signs[n]) \in Site!Keys
  /\ \A m, n \in DOMAIN Signs :
       Site!SitePage(Signs[m]) = Site!SitePage(Signs[n]) => Signs[m] = Signs[n]
  /\ \A k \in Site!Keys : k \in {Site!Directory, Site!Featured}
                          \/ \E n \in DOMAIN Signs : k = Site!SitePage(Signs[n])
<1>1. \A n \in DOMAIN Signs : Signs[n] \in Seq(STRING) /\ Signs[n] # <<>>
  BY SiteAssumption
<1>2. ASSUME NEW s \in Seq(STRING)
      PROVE  /\ Tail(<<"page">> \o s) = s
             /\ (<<"page">> \o s)[1] = "page"
  <2> DEFINE W == STRING \cup {"page"}
  <2>1. "page" \in W
    OBVIOUS
  <2>2. s \in [1 .. Len(s) -> W] /\ Len(s) \in Nat
    OBVIOUS
  <2>3. s \in Seq(W)
    <3> HIDE DEF W
    <3> QED
      BY <2>2
  <2> QED
    BY <2>1, <2>3, TailOfPrefixed
<1>3. Site!Directory[1] = "vendors" /\ Site!Featured[1] = "featured-vendors"
  BY DEF Site!Directory, Site!Featured
<1>4. \A n \in DOMAIN Signs :
        /\ Site!SitePage(Signs[n])[1] = "page"
        /\ Tail(Site!SitePage(Signs[n])) = Signs[n]
  BY <1>1, <1>2 DEF Site!SitePage
<1>5. \A n \in DOMAIN Signs : Site!SitePage(Signs[n]) \in Site!Keys
  BY DEF Site!Keys, Site!Pages
<1>6. \A k \in Site!Keys : k \in {Site!Directory, Site!Featured}
                          \/ \E n \in DOMAIN Signs : k = Site!SitePage(Signs[n])
  BY DEF Site!Keys, Site!Pages
<1> QED
  BY <1>3, <1>4, <1>5, <1>6

LEMMA SameRows ==
  /\ Site!Listed = ListedIn(catalog)
  /\ \A v : Site!Row(v) = RowIn(catalog, v)
BY DEF Site!Listed, ListedIn, Site!Row, RowIn

LEMMA RowIsCard ==
  ASSUME catalog \in [Makers -> Records], NEW v \in Makers
  PROVE  /\ RowIn(catalog, v) \in Cards /\ RowIn(catalog, v).of = v
         /\ RowIn(catalog, v).name = catalog[v].name /\ catalog[v].name \in DOMAIN Signs
BY DEF RowIn, Cards, Records

\* An arrangement of listed rows.
LEMMA ArrangedAre ==
  ASSUME catalog \in [Makers -> Records], NEW n \in Nat,
         NEW s \in Site!Arrangements({RowIn(catalog, v) : v \in ListedIn(catalog)}, n)
  PROVE  s \in Seq(Cards) /\ AllCurrent(catalog, s, {}) /\ DOMAIN s = 1 .. n
<1>1. s \in [1 .. n -> {RowIn(catalog, v) : v \in ListedIn(catalog)}]
  BY DEF Site!Arrangements
<1>2. \A i \in 1 .. n : \E v \in ListedIn(catalog) : s[i] = RowIn(catalog, v)
  BY <1>1
<1>3. \A v \in ListedIn(catalog) : v \in Makers
  BY DEF ListedIn
<1>4. \A i \in 1 .. n : s[i] \in Cards /\ s[i].of \in ListedIn(catalog) /\ s[i] = RowIn(catalog, s[i].of)
  BY <1>2, <1>3, RowIsCard
<1> HIDE DEF Cards
<1>5. s \in Seq(Cards) /\ DOMAIN s = 1 .. n
  BY <1>1, <1>4
<1> QED
  BY <1>4, <1>5 DEF AllCurrent, IsCurrent

LEMMA ListedFinite ==
  ASSUME catalog \in [Makers -> Records]
  PROVE  /\ IsFiniteSet({RowIn(catalog, v) : v \in ListedIn(catalog)})
         /\ Cardinality({RowIn(catalog, v) : v \in ListedIn(catalog)}) \in Nat
<1>1. IsFiniteSet(ListedIn(catalog))
  <2>1. ListedIn(catalog) \subseteq Makers
    BY DEF ListedIn
  <2> QED
    BY <2>1, SiteAssumption, FS_Subset
<1> DEFINE f == [v \in ListedIn(catalog) |-> RowIn(catalog, v)]
           S == {RowIn(catalog, v) : v \in ListedIn(catalog)}
<1>2. IsFiniteSet(S)
  <2>1. f \in Surjection(ListedIn(catalog), S)
    BY DEF Surjection
  <2> QED
    BY <1>1, <2>1, FS_Surjection
<1> QED
  BY <1>2, FS_CardinalityType

\* What the directory is built of.
LEMMA LoadedAre ==
  ASSUME catalog \in [Makers -> Records], NEW s \in Site!LoadVendorData
  PROVE  s \in Seq(Cards) /\ DirectoryOK(catalog, s, {})
<1> DEFINE S == {RowIn(catalog, v) : v \in ListedIn(catalog)}
           n == Cardinality(S)
<1>1. IsFiniteSet(S) /\ n \in Nat
  BY ListedFinite
<1>2. s \in Site!Arrangements(S, n) /\ \A i, j \in DOMAIN s : i < j => s[i].name <= s[j].name
  <2>1. {Site!Row(v) : v \in Site!Listed} = S
    BY SameRows
  <2>2. Site!Cardinality(S) = Cardinality(S)
    BY DEF Site!Cardinality, Cardinality
  <2> HIDE DEF S
  <2>3. s \in Site!Arrangements(S, Site!Cardinality(S))
        /\ \A i, j \in DOMAIN s : i < j => s[i].name <= s[j].name
    BY <2>1 DEF Site!LoadVendorData
  <2> QED
    BY <2>2, <2>3
<1>3. s \in Seq(Cards) /\ AllCurrent(catalog, s, {}) /\ DOMAIN s = 1 .. n
  BY <1>1, <1>2, ArrangedAre
<1>4. s \in [1 .. n -> S] /\ \A i, j \in 1 .. n : i # j => s[i] # s[j]
  BY <1>2 DEF Site!Arrangements
<1> HIDE DEF S
<1>5. \A x \in S : \E i \in 1 .. n : s[i] = x
  <2>1. s \in Injection(1 .. n, S)
    BY <1>4 DEF Injection, IsInjective
  <2>2. IsFiniteSet(1 .. n) /\ Cardinality(1 .. n) = n
    <3>1. 1 \in Int /\ n \in Int
      BY <1>1
    <3>2. IsFiniteSet(1 .. n) /\ Cardinality(1 .. n) = IF 1 > n THEN 0 ELSE n - 1 + 1
      BY <3>1, FS_Interval
    <3> HIDE DEF n
    <3> QED
      BY <1>1, <3>2
  <2>3. s \in Surjection(1 .. n, S)
    <3> HIDE DEF n
    <3> QED
      BY <1>1, <2>1, <2>2, FS_Injection DEF n
  <2> QED
    BY <2>3 DEF Surjection
<1>6. \A v \in ListedIn(catalog) : \E i \in DOMAIN s : s[i] = RowIn(catalog, v)
  BY <1>3, <1>5 DEF S
<1> QED
  BY <1>2, <1>3, <1>6 DEF DirectoryOK

LEMMA DrawnAre ==
  ASSUME catalog \in [Makers -> Records], NEW s \in Site!SelectFeaturedVendors
  PROVE  s \in Seq(Cards) /\ AllCurrent(catalog, s, {})
<1> DEFINE S == {RowIn(catalog, v) : v \in ListedIn(catalog)}
           n == IF Cardinality(S) < FeaturedCount THEN Cardinality(S) ELSE FeaturedCount
<1>1. n \in Nat
  BY ListedFinite, SiteAssumption
<1>2. s \in Site!Arrangements(S, n)
  <2>1. {Site!Row(v) : v \in Site!Listed} = S
    BY SameRows
  <2>2. Site!Cardinality(S) = Cardinality(S)
    BY DEF Site!Cardinality, Cardinality
  <2> HIDE DEF S
  <2> QED
    BY <2>1, <2>2 DEF Site!SelectFeaturedVendors, Site!Drawn
<1> HIDE DEF n
<1> QED
  BY <1>1, <1>2, ArrangedAre

LEMMA CardFields ==
  ASSUME NEW cards \in Seq(Cards)
  PROVE  /\ DOMAIN cards = 1 .. Len(cards) /\ Len(cards) \in Nat
         /\ \A i \in DOMAIN cards : cards[i] \in Cards /\ cards[i].name \in DOMAIN Signs
                                    /\ cards[i].of \in Makers
<1>1. /\ DOMAIN cards = 1 .. Len(cards) /\ Len(cards) \in Nat
      /\ \A i \in DOMAIN cards : cards[i] \in Cards
  <2> HIDE DEF Cards
  <2> QED
    OBVIOUS
<1>2. \A c \in Cards : c.name \in DOMAIN Signs /\ c.of \in Makers
  BY DEF Cards
<1> QED
  BY <1>1, <1>2

LEMMA NameIsNumber ==
  /\ \A n \in DOMAIN Signs : n \in Nat
  /\ \A n \in DOMAIN Signs : Signs[n] \in Seq(STRING) /\ Signs[n] # <<>>
BY SiteAssumption

\* The page of a slug, rendered from a directory.
LEMMA PageOfDirectory ==
  ASSUME NEW cat \in [Makers -> Records], NEW shelf, NEW altered,
         DirectoryOK(cat, shelf, altered), NEW n \in DOMAIN Signs
  PROVE  PageOK(cat, Signs[n], Site!GetVendorBySlug(shelf, Signs[n]), altered)
<1> DEFINE places == {i \in DOMAIN shelf : Site!Slug(shelf[i].name) = Signs[n]}
           first == CHOOSE i \in places : \A j \in places : i <= j
           content == Site!GetVendorBySlug(shelf, Signs[n])
<1>1. shelf \in Seq(Cards) /\ \A i \in DOMAIN shelf : IsCurrent(cat, shelf[i], altered)
  BY DEF DirectoryOK, AllCurrent
<1>2. /\ DOMAIN shelf = 1 .. Len(shelf) /\ Len(shelf) \in Nat
      /\ \A i \in DOMAIN shelf : shelf[i] \in Cards /\ shelf[i].name \in DOMAIN Signs
  BY <1>1, CardFields
<1>3. \A v \in ListedIn(cat) \ altered : Signs[cat[v].name] = Signs[n]
        => \E i \in places : shelf[i] = RowIn(cat, v) /\ shelf[i].name = cat[v].name
                             /\ shelf[i].of = v
  <2> SUFFICES ASSUME NEW v \in ListedIn(cat) \ altered, Signs[cat[v].name] = Signs[n]
               PROVE  \E i \in places : shelf[i] = RowIn(cat, v) /\ shelf[i].name = cat[v].name
                                        /\ shelf[i].of = v
    OBVIOUS
  <2>1. PICK i \in DOMAIN shelf : shelf[i] = RowIn(cat, v)
    BY DEF DirectoryOK
  <2>2. shelf[i].name = cat[v].name /\ shelf[i].of = v
    BY <2>1 DEF RowIn
  <2>3. i \in places
    BY <2>2 DEF Site!Slug
  <2> QED
    BY <2>1, <2>2, <2>3
<1>4. CASE places = {}
  <2>1. content = <<>>
    BY <1>4 DEF Site!GetVendorBySlug
  <2>2. <<>> \in Seq(Cards) /\ DOMAIN <<>> = {} /\ Len(<<>>) = 0
    OBVIOUS
  <2> HIDE DEF places, content
  <2>3. PageOK(cat, Signs[n], content, altered)
    BY <1>3, <1>4, <2>1, <2>2 DEF PageOK, AllCurrent
  <2> QED
    BY <2>3 DEF content
<1>5. CASE places # {}
  <2>1. content = <<shelf[first]>>
    BY <1>5 DEF Site!GetVendorBySlug
  <2>2. places \in SUBSET Nat
    BY <1>2
  <2>3. first \in places /\ \A j \in places : first <= j
    <3>1. PICK m \in places : \A j \in places : m <= j
      BY <1>5, <2>2, LeastNumber
    <3> HIDE DEF places
    <3> QED
      BY <3>1
  <2> HIDE DEF first
  <2>4. first \in DOMAIN shelf /\ Signs[shelf[first].name] = Signs[n]
    BY <2>3 DEF Site!Slug
  <2> DEFINE card == shelf[first]
  <2>5. card \in Cards /\ IsCurrent(cat, card, altered) /\ card.name \in DOMAIN Signs
    BY <1>1, <1>2, <2>4
  <2>6. ASSUME NEW v \in ListedIn(cat) \ altered, Signs[cat[v].name] = Signs[n]
        PROVE  card = RowIn(cat, v) \/ (card.of # v /\ card.name <= cat[v].name)
    <3>1. PICK i \in places : shelf[i] = RowIn(cat, v) /\ shelf[i].name = cat[v].name
      BY <1>3, <2>6
    <3>2. CASE first = i
      BY <3>1, <3>2
    <3>3. CASE first # i
      <4>1. first < i /\ i \in DOMAIN shelf
        BY <2>2, <2>3, <3>3
      <4>2. card.name <= cat[v].name
        BY <2>4, <3>1, <4>1 DEF DirectoryOK
      <4>3. card.of = v => card = RowIn(cat, v)
        BY <2>5 DEF IsCurrent
      <4> QED
        BY <4>2, <4>3
    <3> QED
      BY <3>2, <3>3
  <2> HIDE DEF card, content, places
  <2>7. content = <<card>>
    BY <2>1 DEF card
  <2>8. content \in Seq(Cards) /\ DOMAIN content = {1} /\ Len(content) = 1 /\ content[1] = card
    <3> HIDE DEF Cards
    <3> QED
      BY <2>5, <2>7
  <2>9. Signs[card.name] = Signs[n]
    BY <2>4 DEF card
  <2>10. PageOK(cat, Signs[n], content, altered)
    BY <2>5, <2>6, <2>8, <2>9 DEF PageOK, AllCurrent
  <2> QED
    BY <2>10 DEF content
<1> QED
  BY <1>4, <1>5

-----------------------------------------------------------------------------

LEMMA EntryFields ==
  ASSUME NEW e \in Entries
  PROVE  /\ e = [content |-> e.content, age |-> e.age, altered |-> e.altered]
         /\ e.content \in Seq(Cards) /\ e.age \in Nat /\ e.altered \in SUBSET Makers
<1> DEFINE C == Seq(Cards)
           M == SUBSET Makers
<1>1. e \in [content : C, age : Nat, altered : M]
  BY DEF Entries
<1> HIDE DEF C, M
<1>2. /\ e = [content |-> e.content, age |-> e.age, altered |-> e.altered]
      /\ e.content \in C /\ e.age \in Nat /\ e.altered \in M
  BY <1>1
<1> QED
  BY <1>2 DEF C, M

LEMMA EntryMade ==
  ASSUME NEW c \in Seq(Cards), NEW a \in Nat, NEW m \in SUBSET Makers
  PROVE  /\ [content |-> c, age |-> a, altered |-> m] \in Entries
         /\ [content |-> c, age |-> a, altered |-> m].content = c
         /\ [content |-> c, age |-> a, altered |-> m].altered = m
<1> DEFINE C == Seq(Cards)
           M == SUBSET Makers
<1>1. c \in C /\ m \in M
  OBVIOUS
<1> HIDE DEF C, M
<1>2. [content |-> c, age |-> a, altered |-> m] \in [content : C, age : Nat, altered : M]
  BY <1>1
<1> QED
  BY <1>2 DEF Entries, C, M

\* What is built for a key may be kept there.
LEMMA BuiltIsOK ==
  ASSUME catalog \in [Makers -> Records], CacheOK(catalog, cache), NEW k \in Site!Keys,
         NEW entry \in Site!EntriesOf(k)
  PROVE  entry \in Entries /\ EntryOK(catalog, k, entry)
<1>1. CASE k = Site!Directory
  <2>1. PICK s \in Site!LoadVendorData : entry = Site!NewEntry(s)
    BY <1>1 DEF Site!EntriesOf
  <2>2. s \in Seq(Cards) /\ DirectoryOK(catalog, s, {})
    BY LoadedAre
  <2>3. entry \in Entries /\ entry.content = s /\ entry.altered = {}
    BY <2>1, <2>2, EntryMade DEF Site!NewEntry
  <2> QED
    BY <1>1, <2>2, <2>3, KeysDiffer DEF EntryOK
<1>2. CASE k = Site!Featured
  <2>1. PICK s \in Site!SelectFeaturedVendors : entry = Site!NewEntry(s)
    BY <1>2, KeysDiffer DEF Site!EntriesOf
  <2>2. s \in Seq(Cards) /\ AllCurrent(catalog, s, {})
    BY DrawnAre
  <2>3. entry \in Entries /\ entry.content = s /\ entry.altered = {}
    BY <2>1, <2>2, EntryMade DEF Site!NewEntry
  <2> QED
    BY <1>2, <2>2, <2>3, KeysDiffer DEF EntryOK
<1>3. CASE k \notin {Site!Directory, Site!Featured}
  <2>1. PICK n \in DOMAIN Signs : k = Site!SitePage(Signs[n])
    BY <1>3, KeysDiffer
  <2> DEFINE d == cache[Site!Directory]
             content == Site!GetVendorBySlug(d.content, Signs[n])
  <2>2. entry = [content |-> content, age |-> 0, altered |-> d.altered]
    <3>1. entry = Site!Rendered(k)
      BY <1>3 DEF Site!EntriesOf
    <3>2. Tail(k) = Signs[n]
      BY <2>1, KeysDiffer
    <3> QED
      BY <3>1, <3>2 DEF Site!Rendered
  <2>3. d \in Entries /\ DirectoryOK(catalog, d.content, d.altered)
    BY DEF CacheOK, EntryOK
  <2>4. PageOK(catalog, Signs[n], content, d.altered)
    BY <2>3, PageOfDirectory
  <2>5. content \in Seq(Cards) /\ d.altered \in SUBSET Makers
    BY <2>3, <2>4, EntryFields DEF PageOK, AllCurrent
  <2> HIDE DEF content, d
  <2>6. entry \in Entries /\ entry.content = content /\ entry.altered = d.altered
    BY <2>2, <2>5, EntryMade
  <2>7. \A m \in DOMAIN Signs : k = Site!SitePage(Signs[m]) => Signs[m] = Signs[n]
    BY <2>1, KeysDiffer
  <2> QED
    BY <1>3, <2>4, <2>6, <2>7 DEF EntryOK
<1> QED
  BY <1>1, <1>2, <1>3

LEMMA KeptIsOK ==
  ASSUME NEW cat, NEW old, CacheOK(cat, old), NEW k \in Site!Keys, NEW entry \in Entries,
         EntryOK(cat, k, entry), NEW new,
         new = [x \in DOMAIN old \cup {k} |-> IF x = k THEN entry ELSE old[x]]
  PROVE  CacheOK(cat, new)
<1>1. DOMAIN new = DOMAIN old \cup {k} /\ new[k] = entry
      /\ \A x \in DOMAIN old : x # k => new[x] = old[x]
  OBVIOUS
<1>2. \A x \in DOMAIN new : new[x] \in Entries /\ EntryOK(cat, x, new[x])
  BY <1>1 DEF CacheOK
<1>3. new \in [DOMAIN new -> Entries]
  <2> HIDE DEF Entries
  <2> QED
    BY <1>2
<1> QED
  BY <1>1, <1>2, <1>3 DEF CacheOK

LEMMA NewMade ==
  ASSUME NEW c \in Seq(Cards)
  PROVE  /\ Site!NewEntry(c) \in Entries
         /\ Site!NewEntry(c).content = c /\ Site!NewEntry(c).altered = {}
<1>1. 0 \in Nat /\ {} \in SUBSET Makers
  OBVIOUS
<1> QED
  BY <1>1, EntryMade DEF Site!NewEntry

\* What is kept when the site is built.
LEMMA FirstEntry ==
  ASSUME catalog \in [Makers -> Records],
         NEW shelf \in Site!LoadVendorData, NEW picked \in Site!SelectFeaturedVendors,
         NEW k \in Site!Keys, NEW entry,
         entry = Site!NewEntry(CASE k = Site!Directory -> shelf
                                 [] k = Site!Featured -> picked
                                 [] OTHER -> Site!GetVendorBySlug(shelf, Tail(k)))
  PROVE  entry \in Entries /\ EntryOK(catalog, k, entry)
<1>1. shelf \in Seq(Cards) /\ DirectoryOK(catalog, shelf, {})
  BY LoadedAre
<1>2. picked \in Seq(Cards) /\ AllCurrent(catalog, picked, {})
  BY DrawnAre
<1>3. CASE k = Site!Directory
  <2>1. entry = Site!NewEntry(shelf)
    BY <1>3, KeysDiffer
  <2>2. entry \in Entries /\ entry.content = shelf /\ entry.altered = {}
    BY <1>1, <2>1, NewMade
  <2> QED
    BY <1>1, <1>3, <2>2, KeysDiffer DEF EntryOK
<1>4. CASE k = Site!Featured
  <2>1. entry = Site!NewEntry(picked)
    BY <1>4, KeysDiffer
  <2>2. entry \in Entries /\ entry.content = picked /\ entry.altered = {}
    BY <1>2, <2>1, NewMade
  <2> QED
    BY <1>2, <1>4, <2>2, KeysDiffer DEF EntryOK
<1>5. CASE k \notin {Site!Directory, Site!Featured}
  <2>1. PICK n \in DOMAIN Signs : k = Site!SitePage(Signs[n])
    BY <1>5, KeysDiffer
  <2> DEFINE content == Site!GetVendorBySlug(shelf, Signs[n])
  <2>2. entry = Site!NewEntry(content)
    <3>1. Tail(k) = Signs[n]
      BY <2>1, KeysDiffer
    <3> QED
      BY <1>5, <3>1
  <2>3. PageOK(catalog, Signs[n], content, {})
    BY <1>1, PageOfDirectory
  <2>4. content \in Seq(Cards)
    BY <2>3 DEF PageOK, AllCurrent
  <2> HIDE DEF content
  <2>5. entry \in Entries /\ entry.content = content /\ entry.altered = {}
    BY <2>2, <2>4, NewMade
  <2>6. \A m \in DOMAIN Signs : k = Site!SitePage(Signs[m]) => Signs[m] = Signs[n]
    BY <2>1, KeysDiffer
  <2> QED
    BY <1>5, <2>3, <2>5, <2>6 DEF EntryOK
<1> QED
  BY <1>3, <1>4, <1>5

LEMMA ShownIsMade ==
  ASSUME NEW where \in {"none", "home", "directory", "az", "page"},
         NEW query \in Asked \cup {<<>>}, NEW cards \in Seq(Cards), NEW altered \in SUBSET Makers
  PROVE  [at |-> where, query |-> query, cards |-> cards, altered |-> altered]
           \in [at : {"none", "home", "directory", "az", "page"}, query : Asked \cup {<<>>},
                cards : Seq(Cards), altered : SUBSET Makers]
<1> DEFINE C == Seq(Cards)
           M == SUBSET Makers
           A == {"none", "home", "directory", "az", "page"}
           Q == Asked \cup {<<>>}
<1>1. cards \in C /\ altered \in M /\ where \in A /\ query \in Q
  OBVIOUS
<1> HIDE DEF C, M, A, Q
<1>2. [at |-> where, query |-> query, cards |-> cards, altered |-> altered]
        \in [at : A, query : Q, cards : C, altered : M]
  BY <1>1
<1> QED
  BY <1>2 DEF C, M, A, Q

LEMMA NothingIsCards ==
  <<>> \in Seq(Cards) /\ DOMAIN <<>> = {} /\ \A cat, altered : AllCurrent(cat, <<>>, altered)
<1>1. <<>> \in Seq(Cards) /\ DOMAIN <<>> = {}
  <2> HIDE DEF Cards
  <2> QED
    OBVIOUS
<1> QED
  BY <1>1 DEF AllCurrent

LEMMA InitSite == Site!Init => SiteInv
<1> SUFFICES ASSUME Site!Init PROVE SiteInv
  OBVIOUS
<1>1. catalog \in [Makers -> Records] /\ changed \in 0 .. MaxChanges
  BY SiteAssumption DEF Site!Init, Records
<1>2. PICK shelf \in Site!LoadVendorData, picked \in Site!SelectFeaturedVendors, built \in BOOLEAN :
        LET pages == {Site!SitePage(Site!Slug(shelf[i].name)) : i \in DOMAIN shelf}
        IN  cache = [k \in {Site!Directory} \cup pages \cup (IF built THEN {Site!Featured} ELSE {}) |->
                       Site!NewEntry(CASE k = Site!Directory -> shelf
                                       [] k = Site!Featured -> picked
                                       [] OTHER -> Site!GetVendorBySlug(shelf, Tail(k)))]
  BY DEF Site!Init
<1> DEFINE pages == {Site!SitePage(Site!Slug(shelf[i].name)) : i \in DOMAIN shelf}
           F(k) == Site!NewEntry(CASE k = Site!Directory -> shelf
                                   [] k = Site!Featured -> picked
                                   [] OTHER -> Site!GetVendorBySlug(shelf, Tail(k)))
           D == {Site!Directory} \cup pages \cup (IF built THEN {Site!Featured} ELSE {})
<1>3. cache = [k \in D |-> F(k)]
  BY <1>2
<1>4. shelf \in Seq(Cards)
  BY <1>1, LoadedAre
<1>5. D \subseteq Site!Keys /\ Site!Directory \in D
  <2>1. \A i \in DOMAIN shelf : shelf[i].name \in DOMAIN Signs
    BY <1>4, CardFields
  <2>2. pages \subseteq Site!Keys
    BY <2>1, KeysDiffer DEF Site!Slug
  <2>3. Site!Directory \in Site!Keys /\ Site!Featured \in Site!Keys
    BY DEF Site!Keys
  <2> HIDE DEF pages
  <2> QED
    BY <2>2, <2>3
<1>6. \A k \in Site!Keys : F(k) \in Entries /\ EntryOK(catalog, k, F(k))
  BY <1>1, FirstEntry
<1> HIDE DEF F, D
<1>7. DOMAIN cache = D /\ \A k \in D : cache[k] \in Entries /\ EntryOK(catalog, k, cache[k])
  BY <1>3, <1>5, <1>6
<1>8. cache \in [DOMAIN cache -> Entries]
  <2> HIDE DEF Entries
  <2> QED
    BY <1>3, <1>7
<1>9. CacheOK(catalog, cache)
  BY <1>5, <1>7, <1>8 DEF CacheOK
<1>10. screen = [at |-> "none", query |-> <<>>, cards |-> <<>>, altered |-> {}]
  BY DEF Site!Init, Site!NoScreen
<1>11. ScreenOK(catalog, cache, screen)
  <2>1. /\ screen.at = "none" /\ screen.query = <<>> /\ screen.cards = <<>> /\ screen.altered = {}
        /\ screen \in [at : {"none", "home", "directory", "az", "page"}, query : Asked \cup {<<>>},
                       cards : Seq(Cards), altered : SUBSET Makers]
    BY <1>10, NothingIsCards, ShownIsMade
  <2> QED
    BY <2>1, NothingIsCards DEF ScreenOK
<1> QED
  BY <1>1, <1>9, <1>11 DEF SiteInv

\* A screen of cards that are not followed yet.
LEMMA HomeIsOK ==
  ASSUME NEW cat, NEW kept, NEW cards, NEW altered \in SUBSET Makers,
         AllCurrent(cat, cards, altered)
  PROVE  ScreenOK(cat, kept, Site!Shows("home", <<>>, cards, altered))
<1> DEFINE seen == Site!Shows("home", <<>>, cards, altered)
<1>1. seen = [at |-> "home", query |-> <<>>, cards |-> cards, altered |-> altered]
  BY DEF Site!Shows
<1>2. cards \in Seq(Cards)
  BY DEF AllCurrent
<1>3. /\ seen.at = "home" /\ seen.cards = cards /\ seen.altered = altered
      /\ seen \in [at : {"none", "home", "directory", "az", "page"}, query : Asked \cup {<<>>},
                   cards : Seq(Cards), altered : SUBSET Makers]
  <2>1. seen \in [at : {"none", "home", "directory", "az", "page"}, query : Asked \cup {<<>>},
                   cards : Seq(Cards), altered : SUBSET Makers]
    BY <1>1, <1>2, ShownIsMade
  <2> QED
    BY <1>1, <2>1
<1> HIDE DEF seen
<1>4. ScreenOK(cat, kept, seen)
  BY <1>3 DEF ScreenOK
<1> QED
  BY <1>4 DEF seen

\* A screen is as good with another entry kept.
LEMMA ScreenStays ==
  ASSUME NEW cat, NEW old, NEW seen, ScreenOK(cat, old, seen), NEW new,
         new[Site!Directory].altered \subseteq old[Site!Directory].altered
  PROVE  ScreenOK(cat, new, seen)
BY DEF ScreenOK

LEMMA HomeStep == SiteInv /\ (Site!OpenHome \/ Site!OpenHomeWithout) => SiteInv'
<1> SUFFICES ASSUME SiteInv, Site!OpenHome \/ Site!OpenHomeWithout PROVE SiteInv'
  OBVIOUS
<1>1. /\ catalog \in [Makers -> Records] /\ changed \in 0 .. MaxChanges
      /\ CacheOK(catalog, cache) /\ ScreenOK(catalog, cache, screen)
  BY DEF SiteInv
<1>2. catalog' = catalog /\ changed' = changed
  BY DEF Site!OpenHome, Site!OpenHomeWithout
<1>3. CASE Site!OpenHome /\ Site!Featured \in DOMAIN cache
  <2> DEFINE e == cache[Site!Featured]
  <2>1. cache' = cache /\ screen' = Site!Shows("home", <<>>, e.content, e.altered)
    BY <1>3 DEF Site!OpenHome, Site!Home
  <2>2. e \in Entries /\ AllCurrent(catalog, e.content, e.altered)
    BY <1>1, <1>3 DEF CacheOK, EntryOK
  <2>3. e.altered \in SUBSET Makers
    BY <2>2, EntryFields
  <2> HIDE DEF e
  <2>4. ScreenOK(catalog, cache, screen')
    BY <2>1, <2>2, <2>3, HomeIsOK
  <2> QED
    BY <1>1, <1>2, <2>1, <2>4 DEF SiteInv
<1>4. CASE Site!OpenHome /\ Site!Featured \notin DOMAIN cache
  <2>1. PICK entry \in Site!EntriesOf(Site!Featured) :
          /\ screen' = Site!Shows("home", <<>>, entry.content, {})
          /\ cache' = Site!Kept(Site!Featured, entry)
    BY <1>4 DEF Site!OpenHome, Site!Home
  <2>2. Site!Featured \in Site!Keys
    BY DEF Site!Keys
  <2>3. entry \in Entries /\ EntryOK(catalog, Site!Featured, entry)
    BY <1>1, <2>2, BuiltIsOK
  <2>4. CacheOK(catalog, cache')
    <3>1. cache' = [x \in DOMAIN cache \cup {Site!Featured} |->
                      IF x = Site!Featured THEN entry ELSE cache[x]]
      BY <2>1 DEF Site!Kept
    <3> QED
      BY <1>1, <2>2, <2>3, <3>1, KeptIsOK
  <2>5. AllCurrent(catalog, entry.content, {})
    <3>1. PICK s \in Site!SelectFeaturedVendors : entry = Site!NewEntry(s)
      BY KeysDiffer DEF Site!EntriesOf
    <3>2. s \in Seq(Cards) /\ AllCurrent(catalog, s, {})
      BY <1>1, DrawnAre
    <3> QED
      BY <3>1, <3>2, NewMade
  <2>6. ScreenOK(catalog, cache', screen')
    <3>1. {} \in SUBSET Makers
      OBVIOUS
    <3> QED
      BY <2>1, <2>5, <3>1, HomeIsOK
  <2> QED
    BY <1>1, <1>2, <2>4, <2>6 DEF SiteInv
<1>5. CASE Site!OpenHomeWithout
  <2>1. cache' = cache /\ screen' = Site!Shows("home", <<>>, <<>>, {})
    BY <1>5 DEF Site!OpenHomeWithout, Site!Home
  <2>2. AllCurrent(catalog, <<>>, {}) /\ {} \in SUBSET Makers
    BY NothingIsCards
  <2>3. ScreenOK(catalog, cache, screen')
    BY <2>1, <2>2, HomeIsOK
  <2> QED
    BY <1>1, <1>2, <2>1, <2>3 DEF SiteInv
<1> QED
  BY <1>3, <1>4, <1>5

LEMMA RefreshStep ==
  ASSUME SiteInv, NEW k \in Site!Keys, Site!Refresh(k)
  PROVE  SiteInv'
<1>1. /\ catalog \in [Makers -> Records] /\ changed \in 0 .. MaxChanges
      /\ CacheOK(catalog, cache) /\ ScreenOK(catalog, cache, screen)
  BY DEF SiteInv
<1>2. catalog' = catalog /\ changed' = changed /\ screen' = screen
  BY DEF Site!Refresh
<1>3. PICK entry \in Site!EntriesOf(k) : cache' = Site!Kept(k, entry)
  BY DEF Site!Refresh
<1>4. entry \in Entries /\ EntryOK(catalog, k, entry)
  BY <1>1, BuiltIsOK
<1>5. CacheOK(catalog, cache')
  BY <1>1, <1>3, <1>4, KeptIsOK DEF Site!Kept
<1>6. Site!Directory \in DOMAIN cache
  BY <1>1 DEF CacheOK
<1>7. cache'[Site!Directory].altered \subseteq cache[Site!Directory].altered
  <2>1. CASE k = Site!Directory
    <3>1. PICK s \in Site!LoadVendorData : entry = Site!NewEntry(s)
      BY <2>1 DEF Site!EntriesOf
    <3>2. s \in Seq(Cards)
      BY <1>1, LoadedAre
    <3>3. entry.altered = {}
      BY <3>1, <3>2, NewMade
    <3>4. cache'[Site!Directory] = entry
      BY <1>3, <2>1 DEF Site!Kept
    <3> QED
      BY <3>3, <3>4
  <2>2. CASE k # Site!Directory
    <3>1. cache'[Site!Directory] = cache[Site!Directory]
      BY <1>3, <1>6, <2>2 DEF Site!Kept
    <3> QED
      BY <3>1
  <2> QED
    BY <2>1, <2>2
<1>8. ScreenOK(catalog, cache', screen)
  BY <1>1, <1>7, ScreenStays
<1> QED
  BY <1>1, <1>2, <1>5, <1>8 DEF SiteInv

LEMMA HourStep == SiteInv /\ Site!HourPasses => SiteInv'
<1> SUFFICES ASSUME SiteInv, Site!HourPasses PROVE SiteInv'
  OBVIOUS
<1>1. /\ catalog \in [Makers -> Records] /\ changed \in 0 .. MaxChanges
      /\ CacheOK(catalog, cache) /\ ScreenOK(catalog, cache, screen)
  BY DEF SiteInv
<1>2. /\ catalog' = catalog /\ changed' = changed /\ screen' = screen
      /\ cache' = [k \in DOMAIN cache |-> Site!Older(cache[k], k)]
  BY DEF Site!HourPasses
<1>3. ASSUME NEW k \in DOMAIN cache
      PROVE  /\ cache'[k] \in Entries /\ cache'[k].content = cache[k].content
             /\ cache'[k].altered = cache[k].altered
  <2>1. cache[k] \in Entries /\ cache'[k] = Site!Older(cache[k], k)
    BY <1>1, <1>2 DEF CacheOK
  <2> DEFINE e == cache[k]
             c == e.content
             m == e.altered
             a == IF e.age < Site!Lifetime(k) THEN e.age + 1 ELSE e.age
  <2>2. e = [content |-> c, age |-> e.age, altered |-> m] /\ c \in Seq(Cards) /\ e.age \in Nat
        /\ m \in SUBSET Makers
    BY <2>1, EntryFields
  <2>3. cache'[k] = [content |-> c, age |-> a, altered |-> m] /\ a \in Nat
    <3> HIDE DEF c, m
    <3>1. e = [content |-> c, age |-> e.age, altered |-> m] /\ e.age \in Nat
      BY <2>2
    <3>2. [e EXCEPT !.age = @ + 1] = [content |-> c, age |-> e.age + 1, altered |-> m]
      BY <3>1
    <3> QED
      BY <2>1, <3>1, <3>2 DEF Site!Older
  <2> HIDE DEF c, m, a
  <2>4. cache'[k] \in Entries /\ cache'[k].content = c /\ cache'[k].altered = m
    BY <2>2, <2>3, EntryMade
  <2> QED
    BY <2>4 DEF c, m
<1>4. DOMAIN cache' = DOMAIN cache
  BY <1>2
<1>5. \A k \in DOMAIN cache : EntryOK(catalog, k, cache'[k])
  BY <1>1, <1>3 DEF CacheOK, EntryOK
<1>6. cache' \in [DOMAIN cache' -> Entries]
  <2>1. \A k \in DOMAIN cache : cache'[k] \in Entries
    BY <1>3
  <2> HIDE DEF Entries
  <2> QED
    BY <1>2, <2>1
<1>7. CacheOK(catalog, cache')
  BY <1>1, <1>4, <1>5, <1>6 DEF CacheOK
<1>8. ScreenOK(catalog, cache', screen)
  <2>1. cache'[Site!Directory].altered \subseteq cache[Site!Directory].altered
    BY <1>1, <1>3 DEF CacheOK
  <2> QED
    BY <1>1, <2>1, ScreenStays
<1> QED
  BY <1>1, <1>2, <1>7, <1>8 DEF SiteInv

\* What a search shows of the directory.
LEMMA FoundAre ==
  ASSUME NEW cat \in [Makers -> Records], NEW shelf, NEW altered \in SUBSET Makers,
         DirectoryOK(cat, shelf, altered), NEW query, NEW az \in BOOLEAN, az => query # <<>>
  PROVE  LET found == Site!SearchVendors(shelf, query)
             cards == IF az THEN Site!ByName(found) ELSE found
         IN  /\ AllCurrent(cat, cards, altered)
             /\ Searched(IF az THEN "az" ELSE "directory", query, cards)
             /\ Finds(cat, query, cards, altered)
<1> DEFINE found == Site!SearchVendors(shelf, query)
           cards == IF az THEN Site!ByName(found) ELSE found
           where == IF az THEN "az" ELSE "directory"
<1>1. shelf \in Seq(Cards) /\ \A i \in DOMAIN shelf : IsCurrent(cat, shelf[i], altered)
  BY DEF DirectoryOK, AllCurrent
<1>2. \A i \in DOMAIN shelf : shelf[i] \in Cards /\ shelf[i].name \in DOMAIN Signs
  BY <1>1, CardFields
<1>3. \A v \in ListedIn(cat) \ altered : cat[v].name \in DOMAIN Signs
  <2>1. \A r \in Records : r.name \in DOMAIN Signs
    BY DEF Records
  <2> QED
    BY <2>1 DEF ListedIn
<1>4. CASE query = <<>>
  <2>1. found = shelf /\ cards = shelf /\ where = "directory"
    BY <1>4 DEF Site!SearchVendors
  <2>2. \A n \in DOMAIN Signs : Signs[n] # query
    BY <1>4, NameIsNumber
  <2>3. AllCurrent(cat, cards, altered)
    BY <2>1 DEF DirectoryOK
  <2>4. Searched(where, query, cards)
    BY <1>2, <2>1, <2>2 DEF Searched
  <2>5. Finds(cat, query, cards, altered)
    BY <1>3, <2>2 DEF Finds
  <2> QED
    BY <2>3, <2>4, <2>5
<1>5. CASE query # <<>>
  <2>1. /\ found \in Seq(Cards) /\ Shown(found) \subseteq Shown(shelf)
        /\ \A i \in DOMAIN shelf : Site!ScoreVendor(shelf[i], query) = 5
                                    => shelf[i] \in Shown(found)
        /\ \A i, j \in DOMAIN found :
             i < j /\ Site!ScoreVendor(found[j], query) = 5
               => Site!ScoreVendor(found[i], query) = 5
    BY <1>1, <1>5, SearchFinds
  <2> HIDE DEF found
  <2>2. \A i \in DOMAIN found : found[i] \in Cards /\ found[i].name \in DOMAIN Signs
    BY <2>1, CardFields
  <2>3. \A i \in DOMAIN found : Site!ScoreVendor(found[i], query) = 5
                                 <=> Signs[found[i].name] = query
    BY <2>2, BestIsNamed
  <2>4. \A i \in DOMAIN shelf : Site!ScoreVendor(shelf[i], query) = 5
                                 <=> Signs[shelf[i].name] = query
    BY <1>2, BestIsNamed
  <2>5. /\ cards \in Seq(Cards) /\ Shown(cards) = Shown(found)
        /\ az => \A i, j \in DOMAIN cards : i < j => cards[i].name <= cards[j].name
    <3>1. LET named == Site!ByName(found)
          IN  /\ named \in Seq(Cards) /\ Shown(named) = Shown(found)
              /\ \A i, j \in DOMAIN named : i < j => named[i].name <= named[j].name
      BY <2>1, <2>2, NamedInOrder
    <3> QED
      BY <2>1, <3>1
  <2>6. \A x \in Shown(cards) : IsCurrent(cat, x, altered)
    <3>1. \A x \in Shown(shelf) : IsCurrent(cat, x, altered)
      BY <1>1 DEF Shown
    <3> QED
      BY <2>1, <2>5, <3>1
  <2>7. AllCurrent(cat, cards, altered)
    <3>1. \A i \in DOMAIN cards : cards[i] \in Shown(cards)
      BY DEF Shown
    <3> HIDE DEF cards
    <3> QED
      BY <2>5, <2>6, <3>1 DEF AllCurrent
  <2>8. Searched(where, query, cards)
    <3>1. CASE az
      BY <2>5, <3>1 DEF Searched
    <3>2. CASE ~az
      <4>1. cards = found /\ where = "directory"
        BY <3>2
      <4>2. \A i, j \in DOMAIN cards :
              i < j => (Signs[cards[j].name] = query => Signs[cards[i].name] = query)
        BY <2>1, <2>3, <4>1
      <4> HIDE DEF cards
      <4> QED
        BY <4>1, <4>2 DEF Searched
    <3> QED
      BY <3>1, <3>2
  <2>9. Finds(cat, query, cards, altered)
    <3> SUFFICES ASSUME NEW v \in ListedIn(cat) \ altered, Signs[cat[v].name] = query
                 PROVE  \E i \in DOMAIN cards : cards[i] = RowIn(cat, v)
      BY DEF Finds
    <3>1. PICK i \in DOMAIN shelf : shelf[i] = RowIn(cat, v)
      BY DEF DirectoryOK
    <3>2. shelf[i].name = cat[v].name
      BY <3>1 DEF RowIn
    <3>3. shelf[i] \in Shown(found)
      BY <2>1, <2>4, <3>2
    <3>4. RowIn(cat, v) \in Shown(cards)
      BY <2>5, <3>1, <3>3
    <3> HIDE DEF cards
    <3> QED
      BY <3>4 DEF Shown
  <2> QED
    BY <2>7, <2>8, <2>9 DEF found
<1> QED
  BY <1>4, <1>5

LEMMA DirectoryStep ==
  ASSUME SiteInv, NEW query \in Asked, NEW az \in BOOLEAN, Site!OpenDirectory(query, az)
  PROVE  SiteInv'
<1> DEFINE d == cache[Site!Directory]
           found == Site!SearchVendors(d.content, query)
           cards == IF az THEN Site!ByName(found) ELSE found
           where == IF az THEN "az" ELSE "directory"
<1>1. /\ catalog \in [Makers -> Records] /\ changed \in 0 .. MaxChanges
      /\ CacheOK(catalog, cache)
  BY DEF SiteInv
<1>2. /\ catalog' = catalog /\ changed' = changed /\ cache' = cache
      /\ az => query # <<>>
      /\ screen' = [at |-> where, query |-> query, cards |-> cards, altered |-> d.altered]
  BY DEF Site!OpenDirectory, Site!Shows
<1>3. d \in Entries /\ DirectoryOK(catalog, d.content, d.altered)
  BY <1>1 DEF CacheOK, EntryOK
<1>4. d.altered \in SUBSET Makers
  BY <1>3, EntryFields
<1>5. /\ AllCurrent(catalog, cards, d.altered)
      /\ Searched(where, query, cards)
      /\ Finds(catalog, query, cards, d.altered)
  BY <1>1, <1>2, <1>3, <1>4, FoundAre
<1>6. cards \in Seq(Cards)
  BY <1>5 DEF AllCurrent
<1>7. where \in {"directory", "az"}
  OBVIOUS
<1> HIDE DEF cards, where, found
<1>8. /\ screen'.at = where /\ screen'.query = query /\ screen'.cards = cards
      /\ screen'.altered = d.altered
      /\ screen' \in [at : {"none", "home", "directory", "az", "page"}, query : Asked \cup {<<>>},
                      cards : Seq(Cards), altered : SUBSET Makers]
  <2>1. query \in Asked \cup {<<>>} /\ where \in {"none", "home", "directory", "az", "page"}
    BY <1>7
  <2>2. screen' \in [at : {"none", "home", "directory", "az", "page"}, query : Asked \cup {<<>>},
                     cards : Seq(Cards), altered : SUBSET Makers]
    BY <1>2, <1>4, <1>6, <2>1, ShownIsMade
  <2> QED
    BY <1>2, <2>2
<1>9. ScreenOK(catalog, cache, screen')
  BY <1>5, <1>7, <1>8 DEF ScreenOK
<1> QED
  BY <1>1, <1>2, <1>9 DEF SiteInv

LEMMA PrefixedCards ==
  ASSUME NEW card \in Cards, NEW content \in Seq(Cards)
  PROVE  LET seen == <<card>> \o content
         IN  /\ seen \in Seq(Cards) /\ Head(seen) = card
             /\ Len(content) = 1 => Len(seen) = 2 /\ seen[2] = content[1]
<1> DEFINE p == <<card>>
           seen == p \o content
<1>1. p \in Seq(Cards) /\ Len(p) = 1 /\ p[1] = card
  <2> HIDE DEF Cards
  <2> QED
    OBVIOUS
<1> HIDE DEF p
<1>2. /\ seen \in Seq(Cards) /\ DOMAIN seen = 1 .. Len(p) + Len(content) /\ Len(content) \in Nat
      /\ \A i \in 1 .. Len(p) : seen[i] = p[i]
      /\ \A i \in 1 .. Len(content) : seen[Len(p) + i] = content[i]
  <2>1. p \in Seq(Cards) /\ content \in Seq(Cards)
    BY <1>1
  <2> HIDE DEF Cards
  <2> QED
    BY <2>1, Glued
<1> HIDE DEF seen, Cards
<1>3. seen[1] = card
  <2>1. 1 \in 1 .. Len(p)
    BY <1>1
  <2> QED
    BY <1>1, <1>2, <2>1
<1>4. Len(content) = 1 => Len(seen) = 2 /\ seen[2] = content[1]
  <2> SUFFICES ASSUME Len(content) = 1 PROVE Len(seen) = 2 /\ seen[2] = content[1]
    OBVIOUS
  <2>1. Len(p) + 1 = 2 /\ 1 \in 1 .. Len(content) /\ Len(p) + Len(content) = 2
    BY <1>1
  <2>2. seen[2] = content[1]
    BY <1>2, <2>1
  <2>3. Len(seen) = 2
    BY <1>2, <2>1
  <2> QED
    BY <2>2, <2>3
<1>5. Head(seen) = seen[1]
  BY <1>2
<1> QED
  BY <1>2, <1>3, <1>4, <1>5 DEF seen, p

\* Whoever follows a card of a page kept or rendered now arrives.
LEMMA CardArrives ==
  ASSUME NEW cat \in [Makers -> Records], NEW cards, NEW old \in SUBSET Makers,
         AllCurrent(cat, cards, old), NEW i \in DOMAIN cards,
         NEW content, NEW since \in SUBSET Makers,
         PageOK(cat, Signs[cards[i].name], content, since)
  PROVE  /\ <<cards[i]>> \o content \in Seq(Cards)
         /\ Arrived(<<cards[i]>> \o content, old \cup since)
<1> DEFINE card == cards[i]
           seen == <<card>> \o content
<1>1. card \in Cards /\ IsCurrent(cat, card, old) /\ card.name \in DOMAIN Signs
  BY CardFields DEF AllCurrent
<1>2. content \in Seq(Cards)
  BY DEF PageOK, AllCurrent
<1>3. PageOK(cat, Signs[card.name], content, since)
  OBVIOUS
<1> HIDE DEF card
<1>4. /\ seen \in Seq(Cards) /\ Head(seen) = card
      /\ Len(content) = 1 => Len(seen) = 2 /\ seen[2] = content[1]
  BY <1>1, <1>2, PrefixedCards
<1> HIDE DEF seen
<1>5. ASSUME card.of \notin old \cup since
      PROVE  /\ Len(seen) = 2
             /\ \/ seen[2] = card
                \/ /\ seen[2].of # card.of
                   /\ Signs[seen[2].name] = Signs[card.name]
                   /\ seen[2].name <= card.name
  <2>1. card.of \in ListedIn(cat) \ since /\ card = RowIn(cat, card.of)
    BY <1>1, <1>5 DEF IsCurrent
  <2>2. card.name = cat[card.of].name
    BY <2>1 DEF RowIn
  <2>3. /\ Len(content) = 1
        /\ content[1] = RowIn(cat, card.of)
           \/ (content[1].of # card.of /\ content[1].name <= cat[card.of].name)
    BY <1>3, <2>1, <2>2 DEF PageOK
  <2>4. Signs[content[1].name] = Signs[card.name]
    <3>1. 1 \in DOMAIN content
      <4> HIDE DEF Cards
      <4> QED
        BY <1>2, <2>3
    <3> QED
      BY <1>3, <3>1 DEF PageOK
  <2> QED
    BY <1>4, <2>1, <2>2, <2>3, <2>4
<1>6. Arrived(seen, old \cup since)
  BY <1>4, <1>5 DEF Arrived
<1> QED
  BY <1>4, <1>6 DEF seen, card

LEMMA FollowStep ==
  ASSUME SiteInv, NEW i \in DOMAIN screen.cards, Site!Follow(i)
  PROVE  SiteInv'
<1> DEFINE card == screen.cards[i]
           slug == Signs[card.name]
           key == Site!SitePage(slug)
           visited == IF key \in DOMAIN cache THEN cache[key] ELSE Site!Rendered(key)
<1>1. /\ catalog \in [Makers -> Records] /\ changed \in 0 .. MaxChanges
      /\ CacheOK(catalog, cache) /\ ScreenOK(catalog, cache, screen)
  BY DEF SiteInv
<1>2. /\ catalog' = catalog /\ changed' = changed /\ screen.at \in {"home", "directory", "az"}
      /\ cache' = Site!Kept(key, visited)
      /\ screen' = Site!Shows("page", <<>>, <<card>> \o visited.content,
                              screen.altered \cup visited.altered)
  BY DEF Site!Follow, Site!Slug
<1>3. AllCurrent(catalog, screen.cards, screen.altered) /\ screen.altered \in SUBSET Makers
  <2>1. AllCurrent(catalog, screen.cards, screen.altered)
    BY <1>1, <1>2 DEF ScreenOK
  <2>2. screen.altered \in SUBSET Makers
    <3> DEFINE C == Seq(Cards)
               M == SUBSET Makers
               A == {"none", "home", "directory", "az", "page"}
               Q == Asked \cup {<<>>}
    <3>1. screen \in [at : A, query : Q, cards : C, altered : M]
      BY <1>1 DEF ScreenOK
    <3> HIDE DEF C, M, A, Q
    <3>2. screen.altered \in M
      BY <3>1
    <3> QED
      BY <3>2 DEF M
  <2> QED
    BY <2>1, <2>2
<1>4. card.name \in DOMAIN Signs
  BY <1>3, CardFields DEF AllCurrent
<1>5. key \in Site!Keys /\ key \notin {Site!Directory, Site!Featured}
  BY <1>4, KeysDiffer
<1>6. visited \in Entries /\ EntryOK(catalog, key, visited)
  <2>1. CASE key \in DOMAIN cache
    BY <1>1, <2>1 DEF CacheOK
  <2>2. CASE key \notin DOMAIN cache
    <3>1. visited \in Site!EntriesOf(key)
      BY <1>5, <2>2 DEF Site!EntriesOf
    <3> HIDE DEF visited, key
    <3> QED
      BY <1>1, <1>5, <3>1, BuiltIsOK
  <2> QED
    BY <2>1, <2>2
<1>7. PageOK(catalog, slug, visited.content, visited.altered)
  BY <1>4, <1>6 DEF EntryOK
<1>8. visited.altered \in SUBSET Makers
  BY <1>6, EntryFields
<1> DEFINE seen == <<card>> \o visited.content
           since == screen.altered \cup visited.altered
<1>9. seen \in Seq(Cards) /\ Arrived(seen, since)
  <2> HIDE DEF visited
  <2> QED
    BY <1>1, <1>3, <1>7, <1>8, CardArrives
<1>10. since \in SUBSET Makers
  BY <1>3, <1>8
<1>11. CacheOK(catalog, cache')
  <2> HIDE DEF visited, key
  <2>1. cache' = [x \in DOMAIN cache \cup {key} |-> IF x = key THEN visited ELSE cache[x]]
    BY <1>2 DEF Site!Kept
  <2> QED
    BY <1>1, <1>5, <1>6, <2>1, KeptIsOK
<1>12. screen' = [at |-> "page", query |-> <<>>, cards |-> seen, altered |-> since]
  BY <1>2 DEF Site!Shows
<1> HIDE DEF seen, since, visited, key, card
<1>13. /\ screen'.at = "page" /\ screen'.cards = seen /\ screen'.altered = since
       /\ screen' \in [at : {"none", "home", "directory", "az", "page"}, query : Asked \cup {<<>>},
                       cards : Seq(Cards), altered : SUBSET Makers]
  <2>1. screen' \in [at : {"none", "home", "directory", "az", "page"}, query : Asked \cup {<<>>},
                     cards : Seq(Cards), altered : SUBSET Makers]
    BY <1>9, <1>10, <1>12, ShownIsMade
  <2> QED
    BY <1>12, <2>1
<1>14. ScreenOK(catalog, cache', screen')
  BY <1>9, <1>13 DEF ScreenOK
<1> QED
  BY <1>1, <1>2, <1>11, <1>14 DEF SiteInv

\* What a change of one vendor leaves of the others.
LEMMA OtherRowsStay ==
  ASSUME NEW cat \in [Makers -> Records], NEW v \in Makers, NEW after \in Records,
         NEW new, new = [cat EXCEPT ![v] = after]
  PROVE  /\ new \in [Makers -> Records]
         /\ \A w \in Makers \ {v} : (w \in ListedIn(new) <=> w \in ListedIn(cat))
                                    /\ RowIn(new, w) = RowIn(cat, w) /\ new[w] = cat[w]
<1>1. new \in [Makers -> Records] /\ \A w \in Makers \ {v} : new[w] = cat[w]
  <2> HIDE DEF Records
  <2> QED
    OBVIOUS
<1> QED
  BY <1>1 DEF ListedIn, RowIn

LEMMA CurrentStays ==
  ASSUME NEW cat, NEW new, NEW v \in Makers, NEW altered,
         \A w \in Makers \ {v} : (w \in ListedIn(new) <=> w \in ListedIn(cat))
                                 /\ RowIn(new, w) = RowIn(cat, w) /\ new[w] = cat[w],
         NEW cards, AllCurrent(cat, cards, altered)
  PROVE  AllCurrent(new, cards, altered \cup {v})
<1>1. cards \in Seq(Cards)
  BY DEF AllCurrent
<1>2. \A i \in DOMAIN cards : cards[i].of \in Makers
  BY <1>1, CardFields
<1>3. \A i \in DOMAIN cards : IsCurrent(new, cards[i], altered \cup {v})
  BY <1>2 DEF AllCurrent, IsCurrent
<1> QED
  BY <1>1, <1>3 DEF AllCurrent

LEMMA EntryStays ==
  ASSUME NEW cat, NEW new, NEW v \in Makers, NEW k, NEW entry, NEW other,
         other.content = entry.content, other.altered = entry.altered \cup {v},
         \A w \in Makers \ {v} : (w \in ListedIn(new) <=> w \in ListedIn(cat))
                                 /\ RowIn(new, w) = RowIn(cat, w) /\ new[w] = cat[w],
         EntryOK(cat, k, entry)
  PROVE  EntryOK(new, k, other)
<1> DEFINE s == entry.content
           m == entry.altered
<1>1. \A w \in ListedIn(new) \ (m \cup {v}) :
        w \in ListedIn(cat) \ m /\ RowIn(new, w) = RowIn(cat, w) /\ new[w] = cat[w]
  BY DEF ListedIn
<1>2. AllCurrent(cat, s, m) => AllCurrent(new, s, m \cup {v})
  BY CurrentStays
<1> HIDE DEF s, m
<1>3. DirectoryOK(cat, s, m) => DirectoryOK(new, s, m \cup {v})
  BY <1>1, <1>2 DEF DirectoryOK
<1>4. \A n \in DOMAIN Signs : PageOK(cat, Signs[n], s, m) => PageOK(new, Signs[n], s, m \cup {v})
  BY <1>1, <1>2 DEF PageOK
<1>5. other.content = s /\ other.altered = m \cup {v}
  BY DEF s, m
<1> QED
  BY <1>2, <1>3, <1>4, <1>5 DEF EntryOK, s, m

LEMMA ChangeStep ==
  ASSUME SiteInv, NEW v \in Makers, Site!CatalogChanges(v)
  PROVE  SiteInv'
<1>1. /\ catalog \in [Makers -> Records] /\ changed \in 0 .. MaxChanges
      /\ CacheOK(catalog, cache) /\ ScreenOK(catalog, cache, screen)
  BY DEF SiteInv
<1>2. PICK after \in Site!Changes(catalog[v]) : catalog' = [catalog EXCEPT ![v] = after]
  BY DEF Site!CatalogChanges
<1>3. changed' \in 0 .. MaxChanges
  <2>1. changed < MaxChanges /\ changed' = changed + 1
    BY DEF Site!CatalogChanges
  <2> QED
    BY <1>1, <2>1, SiteAssumption
<1>4. after \in Records
  <2>1. catalog[v] \in [name : DOMAIN Signs, active : BOOLEAN, items : SUBSET DOMAIN Wares]
    BY <1>1 DEF Records
  <2> DEFINE W == DOMAIN Wares
             M == SUBSET W
             N == DOMAIN Signs
  <2>2. {} \in M /\ W \in M
    OBVIOUS
  <2>3. catalog[v] \in [name : N, active : BOOLEAN, items : M]
    BY <2>1
  <2>4. after \in {[catalog[v] EXCEPT !.name = n] : n \in N}
           \cup {[catalog[v] EXCEPT !.active = ~@], [catalog[v] EXCEPT !.items = {}],
                 [catalog[v] EXCEPT !.items = W]}
    BY <1>2 DEF Site!Changes
  <2> HIDE DEF W, M, N
  <2>5. after \in [name : N, active : BOOLEAN, items : M]
    BY <2>2, <2>3, <2>4
  <2> QED
    BY <2>5 DEF Records, W, M, N
<1>5. /\ catalog' \in [Makers -> Records]
      /\ \A w \in Makers \ {v} : (w \in ListedIn(catalog') <=> w \in ListedIn(catalog))
                                 /\ RowIn(catalog', w) = RowIn(catalog, w)
                                 /\ catalog'[w] = catalog[w]
  BY <1>1, <1>2, <1>4, OtherRowsStay
<1>6. /\ cache' = [k \in DOMAIN cache |-> [cache[k] EXCEPT !.altered = @ \cup {v}]]
      /\ screen' = [screen EXCEPT !.altered = @ \cup {v}]
  BY DEF Site!CatalogChanges
<1>7. ASSUME NEW k \in DOMAIN cache
      PROVE  /\ cache'[k] \in Entries /\ cache'[k].content = cache[k].content
             /\ cache'[k].altered = cache[k].altered \cup {v}
             /\ EntryOK(catalog', k, cache'[k])
  <2> DEFINE e == cache[k]
             c == e.content
             m == e.altered
             a == e.age
  <2>1. cache[k] \in Entries /\ EntryOK(catalog, k, cache[k])
        /\ cache'[k] = [cache[k] EXCEPT !.altered = @ \cup {v}]
    BY <1>1, <1>6 DEF CacheOK
  <2>2. e = [content |-> c, age |-> a, altered |-> m] /\ c \in Seq(Cards) /\ a \in Nat
        /\ m \in SUBSET Makers
    BY <2>1, EntryFields
  <2>3. cache'[k] = [content |-> c, age |-> a, altered |-> m \cup {v}]
    <3> HIDE DEF c, m, a
    <3>1. e = [content |-> c, age |-> a, altered |-> m]
      BY <2>2
    <3>2. [e EXCEPT !.altered = @ \cup {v}] = [content |-> c, age |-> a, altered |-> m \cup {v}]
      BY <3>1
    <3> QED
      BY <2>1, <3>2
  <2>4. m \cup {v} \in SUBSET Makers
    BY <2>2
  <2>5. /\ cache'[k] \in Entries /\ cache'[k].content = c /\ cache'[k].altered = m \cup {v}
    <3> HIDE DEF c, m, a
    <3> QED
      BY <2>2, <2>3, <2>4, EntryMade
  <2>6. EntryOK(catalog', k, cache'[k])
    BY <1>5, <2>1, <2>5, EntryStays
  <2> QED
    BY <2>5, <2>6
<1>8. DOMAIN cache' = DOMAIN cache
  BY <1>6
<1>9. cache' \in [DOMAIN cache' -> Entries]
  <2>1. \A k \in DOMAIN cache : cache'[k] \in Entries
    BY <1>7
  <2> HIDE DEF Entries
  <2> QED
    BY <1>6, <2>1
<1>10. CacheOK(catalog', cache')
  BY <1>1, <1>7, <1>8, <1>9 DEF CacheOK
<1>11. /\ screen'.at = screen.at /\ screen'.query = screen.query /\ screen'.cards = screen.cards
       /\ screen'.altered = screen.altered \cup {v}
       /\ screen' \in [at : {"none", "home", "directory", "az", "page"}, query : Asked \cup {<<>>},
                       cards : Seq(Cards), altered : SUBSET Makers]
  <2> DEFINE C == Seq(Cards)
             M == SUBSET Makers
             A == {"none", "home", "directory", "az", "page"}
             Q == Asked \cup {<<>>}
  <2>1. screen \in [at : A, query : Q, cards : C, altered : M]
    BY <1>1 DEF ScreenOK
  <2>2. \A m \in M : m \cup {v} \in M
    OBVIOUS
  <2> HIDE DEF C, M, A, Q
  <2>3. /\ screen'.at = screen.at /\ screen'.query = screen.query /\ screen'.cards = screen.cards
        /\ screen'.altered = screen.altered \cup {v}
        /\ screen' \in [at : A, query : Q, cards : C, altered : M]
    BY <1>6, <2>1, <2>2
  <2> QED
    BY <2>3 DEF C, M, A, Q
<1>12. screen.at # "page" => AllCurrent(catalog', screen.cards, screen.altered \cup {v})
  BY <1>1, <1>5, CurrentStays DEF ScreenOK
<1>13. ASSUME screen.at \in {"directory", "az"}
       PROVE  /\ cache'[Site!Directory].altered \subseteq screen'.altered
              /\ Searched(screen.at, screen.query, screen.cards)
              /\ Finds(catalog', screen.query, screen.cards, screen.altered \cup {v})
  <2>1. /\ cache[Site!Directory].altered \subseteq screen.altered
        /\ Searched(screen.at, screen.query, screen.cards)
        /\ Finds(catalog, screen.query, screen.cards, screen.altered)
    BY <1>1, <1>13 DEF ScreenOK
  <2>2. cache'[Site!Directory].altered = cache[Site!Directory].altered \cup {v}
    BY <1>1, <1>7 DEF CacheOK
  <2>3. \A w \in ListedIn(catalog') \ (screen.altered \cup {v}) :
          w \in ListedIn(catalog) \ screen.altered /\ RowIn(catalog', w) = RowIn(catalog, w)
          /\ catalog'[w] = catalog[w]
    BY <1>5 DEF ListedIn
  <2>4. Finds(catalog', screen.query, screen.cards, screen.altered \cup {v})
    BY <2>1, <2>3 DEF Finds
  <2> QED
    BY <1>11, <2>1, <2>2, <2>4
<1>14. screen.at = "page" => Arrived(screen.cards, screen.altered \cup {v})
  BY <1>1 DEF ScreenOK, Arrived
<1>15. ScreenOK(catalog', cache', screen')
  BY <1>11, <1>12, <1>13, <1>14 DEF ScreenOK
<1> QED
  BY <1>3, <1>5, <1>10, <1>15 DEF SiteInv

-----------------------------------------------------------------------------

LEMMA StepKeepsSite == SiteInv /\ [Site!Next]_(Site!siteVars) => SiteInv'
<1> SUFFICES ASSUME SiteInv, [Site!Next]_(Site!siteVars) PROVE SiteInv'
  OBVIOUS
<1>1. CASE UNCHANGED Site!siteVars
  BY <1>1 DEF Site!siteVars, SiteInv
<1>2. CASE Site!Next
  BY <1>2, HomeStep, DirectoryStep, FollowStep, RefreshStep, HourStep, ChangeStep DEF Site!Next
<1> QED
  BY <1>1, <1>2

LEMMA SiteIsTyped == SiteInv => Site!SiteTypeOK
BY DEF SiteInv, CacheOK, Site!SiteTypeOK

LEMMA SiteResolves == SiteInv => Site!CardsResolve
BY DEF SiteInv, ScreenOK, Arrived, Site!CardsResolve, Site!Slug

LEMMA SiteFinds == SiteInv => Site!FoundByName
<1> SUFFICES ASSUME SiteInv, screen.at \in {"directory", "az"}
             PROVE  /\ Searched(screen.at, screen.query, screen.cards)
                    /\ \A i \in DOMAIN cache[Site!Directory].content :
                         LET card == cache[Site!Directory].content[i]
                         IN  Signs[card.name] = screen.query /\ card.of \notin screen.altered =>
                               \E j \in DOMAIN screen.cards : screen.cards[j] = card
  BY DEF Site!FoundByName, Searched
<1> DEFINE d == cache[Site!Directory]
<1>1. /\ Searched(screen.at, screen.query, screen.cards)
      /\ Finds(catalog, screen.query, screen.cards, screen.altered)
      /\ d.altered \subseteq screen.altered
  BY DEF SiteInv, ScreenOK
<1>2. AllCurrent(catalog, d.content, d.altered)
  BY DEF SiteInv, CacheOK, EntryOK, DirectoryOK
<1>3. ASSUME NEW i \in DOMAIN d.content, Signs[d.content[i].name] = screen.query,
             d.content[i].of \notin screen.altered
      PROVE  \E j \in DOMAIN screen.cards : screen.cards[j] = d.content[i]
  <2> DEFINE card == d.content[i]
  <2>1. card.of \in ListedIn(catalog) \ screen.altered /\ card = RowIn(catalog, card.of)
    BY <1>1, <1>2, <1>3 DEF AllCurrent, IsCurrent
  <2>2. card.name = catalog[card.of].name
    BY <2>1 DEF RowIn
  <2> QED
    BY <1>1, <1>3, <2>1, <2>2 DEF Finds
<1> QED
  BY <1>1, <1>3

\* Of any vendors, any ages of the caches and any order of visits, rebuilds and changes:
\* a card that is followed arrives at its vendor's page, or at that of an earlier vendor
\* of the same slug (MarketSite: getVendorBySlug over the caches of data.ts).
THEOREM CardsArrive == Site!Spec => []Site!CardsResolve
<1> QED
  BY InitSite, StepKeepsSite, SiteResolves, PTL DEF Site!Spec

\* Who is searched for by name is found, ahead of all others, however the directory is
\* stored (MarketSite: searchVendors of search.ts).
THEOREM SearchIsHonest == Site!Spec => []Site!FoundByName
<1> QED
  BY InitSite, StepKeepsSite, SiteFinds, PTL DEF Site!Spec

-----------------------------------------------------------------------------
(* Of Vault.                                                                *)

LEMMA SessionPart ==
  /\ VaultInit /\ part = "session" => Session!Init
  /\ [VaultNext]_vaultVars /\ part = "session" => [Session!Next]_(Session!vendorSessionVars)
<1>1. VaultInit /\ part = "session" => Session!Init
  BY DEF VaultInit, Components, Starts
<1>2. [VaultNext]_vaultVars /\ part = "session" => [Session!Next]_(Session!vendorSessionVars)
  BY DEF VaultNext, vaultVars, Session!vendorSessionVars, sessionSide
<1> QED
  BY <1>1, <1>2

\* Of Vault: a synced vendor mirrors Clover's list.
THEOREM VaultMirrors == VaultSpec => []ListIsMirrored
<1> DEFINE I == part = "session" => SessionInv
<1>1. VaultInit => I
  BY InitSession, SessionPart
<1>2. I /\ [VaultNext]_vaultVars => I'
  BY StepKeepsSession, SessionPart, PartStays
<1>3. I => ListIsMirrored
  BY DEF SessionInv, ListIsMirrored
<1> QED
  BY <1>1, <1>2, <1>3, PTL DEF VaultSpec

LEMMA SitePart ==
  /\ VaultInit /\ part = "site" => Site!Init
  /\ [VaultNext]_vaultVars /\ part = "site" => [Site!Next]_(Site!siteVars)
<1>1. VaultInit /\ part = "site" => Site!Init
  BY DEF VaultInit, Components, Starts
<1>2. [VaultNext]_vaultVars /\ part = "site" => [Site!Next]_(Site!siteVars)
  BY DEF VaultNext, vaultVars, Site!siteVars, siteSide
<1> QED
  BY <1>1, <1>2

LEMMA ApplyPart ==
  /\ VaultInit /\ part = "apply" => Apply!Init
  /\ [VaultNext]_vaultVars /\ part = "apply" => [Apply!Next]_(Apply!applicationVars)
<1>1. VaultInit /\ part = "apply" => Apply!Init
  BY DEF VaultInit, Components, Starts
<1>2. [VaultNext]_vaultVars /\ part = "apply" => [Apply!Next]_(Apply!applicationVars)
  BY DEF VaultNext, vaultVars, Apply!applicationVars, applySide
<1> QED
  BY <1>1, <1>2

\* Of Vault: followed cards arrive, searches find, applications are kept.
THEOREM VaultSiteIsHonest == VaultSpec => []SiteIsHonest
<1> DEFINE I == (part = "site" => SiteInv) /\ (part = "apply" => Apply!ApplicationKept)
<1>1. VaultInit => I
  <2>1. Apply!Init => Apply!ApplicationKept
    BY DEF Apply!Init, Apply!ApplicationKept, Apply!Idle
  <2> QED
    BY <2>1, InitSite, SitePart, ApplyPart
<1>2. I /\ [VaultNext]_vaultVars => I'
  <2>1. Apply!ApplicationKept /\ [Apply!Next]_(Apply!applicationVars) => Apply!ApplicationKept'
    BY AnswerKeepsApplication DEF Apply!applicationVars, Apply!ApplicationKept
  <2> QED
    BY <2>1, StepKeepsSite, SitePart, ApplyPart, PartStays
<1>3. I => SiteIsHonest
  BY SiteResolves, SiteFinds DEF SiteIsHonest
<1> QED
  BY <1>1, <1>2, <1>3, PTL DEF VaultSpec

\* What is typed of the components.
Typed ==
  /\ part \in Components
  /\ part = "items" => StreamInv
  /\ part = "session" => SessionInv
  /\ part = "request" => RequestInv
  /\ part = "guards" => GuardInv
  /\ part = "access" => AccessInv
  /\ part = "site" => SiteInv

LEMMA ItemsAreTyped == StreamInv => VendorTypeOK
<1> SUFFICES ASSUME StreamInv PROVE VendorTypeOK
  OBVIOUS
<1>1. TablesOK /\ SagasOK /\ \A d \in Drains : Stands(d)
  BY DEF StreamInv, VendorTypes
<1> QED
  BY <1>1 DEF TablesOK, SagasOK, Stands, VendorTypeOK

\* Of Vault: the state of its component has its type, no instance of a function has two
\* jobs, and no address two memberships.
THEOREM VaultIsTyped == VaultSpec => []VaultTypeOK
<1>1. VaultInit => Typed
  <2>1. VaultInit => part \in Components
    BY DEF VaultInit
  <2> QED
    BY <2>1, InitStream, InitSession, InitRequest, InitGuards, InitAccess, InitSite,
       ItemsPart, SessionPart, RequestPart, GuardsPart, AccessPart, SitePart DEF Typed
<1>2. Typed /\ [VaultNext]_vaultVars => Typed'
  BY NextStream, StepKeepsSession, StepKeepsRequest, StepKeepsGuards, StepKeepsAccess,
     StepKeepsSite, ItemsPart, SessionPart, RequestPart, GuardsPart, AccessPart, SitePart,
     PartStays DEF Typed
<1>3. Typed => VaultTypeOK
  BY ItemsAreTyped, SiteIsTyped
     DEF Typed, SessionInv, RequestInv, StepsOK, GuardInv, AccessInv, VaultTypeOK
<1> QED
  BY <1>1, <1>2, <1>3, PTL DEF VaultSpec
=============================================================================
