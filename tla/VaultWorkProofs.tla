-------------------------- MODULE VaultWorkProofs ---------------------------
(***************************************************************************)
(* Proofs about what staff and visitors set going and what they are shown, *)
(* for any value of the constants: the script that rebuilds the orders     *)
(* (OrdersRebuild), the vendor workspace (VendorWorkspace), the application*)
(* form (VendorApplication), the figures of an order (OrderFigures) and the*)
(* two pages that add up the orders (SalesReview), each of its own         *)
(* specification and then of Vault's, where what VendorItemsProofs proves of*)
(* the vendor-items drain holds too.                                       *)
(***************************************************************************)
EXTENDS VaultRequestProofs, VendorItemsProofs

-----------------------------------------------------------------------------
(* The script that rebuilds the orders.                                     *)

Sources == {"import", "hook"}
InboxKeys == [order : Orders, time : Nat, from : Sources]
RowStates == {"pending", "processed", "dead"}
InboxRows == [order : Orders, time : Nat, from : Sources, attempts : Nat, state : RowStates]
DeployedSagas == [step : {"fetched", "written", "marked"}, key : InboxKeys, fetched : Nat]

RebuildTypeOK ==
  /\ edition \in [Orders -> 1 .. LastTime]
  /\ rebuilt \in [Orders -> Nat]
  /\ queue \subseteq InboxRows /\ IsFiniteSet(queue)
  /\ mark \in Nat
  /\ script \in {"deleteInbox", "deleteOrders", "commitReset", "import", "load", "drain",
                 "done", "failed"}
  /\ doomed \in [messages : SUBSET InboxKeys, orders : SUBSET Orders]
  /\ owed \in [Orders -> Nat]
  /\ enqueued \in Nat /\ worked \in Nat
  /\ loaded \subseteq InboxRows
  /\ worker \in DeployedSagas \cup {Rebuild!Idle}

\* Clover is ahead of whatever was read from it.
CloverIsAhead ==
  /\ \A o, p \in Orders : edition[o] = edition[p] => o = p
  /\ \E o \in Orders : mark <= edition[o]
  /\ \A o \in Orders : rebuilt[o] <= edition[o] /\ owed[o] <= edition[o]
  /\ \A m \in queue \cup loaded : m.time <= edition[m.order]
  /\ worker # Rebuild!Idle =>
       worker.key.time <= worker.fetched /\ worker.fetched <= edition[worker.key.order]

\* The inbox has a row per key, and gives up on none early.
RowPerKey == \A m, n \in queue : Rebuild!Key(m) = Rebuild!Key(n) => m = n

DeadAreTried == \A m \in queue : m.state = "dead" => m.attempts >= GiveUp

\* The reset deletes everything the app's own imports have enqueued.
ImportsDoomed ==
  script \in {"deleteOrders", "commitReset"} =>
    \A m \in queue : m.from = "import" => Rebuild!Key(m) \in doomed.messages

Rebuilding == script \in {"import", "load", "drain", "done"}

\* An order in the inbox as new as it was at the reset, or newer.
Covered(o) ==
  \E m \in queue : m.order = o /\ m.from = "import" /\ m.time >= owed[o]

InStoreOrDead(o) ==
  rebuilt[o] >= owed[o]
    \/ \E m \in queue : m.order = o /\ m.state = "dead" /\ m.time >= owed[o]

\* After it, what an import enqueued and a drain processed is in the store, and all that
\* changed up to the watermark has been enqueued.
RebuildGoesOn ==
  Rebuilding =>
    /\ \A m \in queue : m.from = "import" /\ m.state = "processed" => rebuilt[m.order] >= m.time
    /\ \A m \in queue : m.from = "import" => m.time <= mark
    /\ \A o \in Orders : edition[o] <= mark =>
         \E m \in queue : m.order = o /\ m.time = edition[o] /\ m.from = "import"

\* A cycle that has found nothing leaves nothing to find.
CleanCycle ==
  /\ script = "load" /\ enqueued = 0 => \A o \in Orders : Covered(o)
  /\ script = "drain" /\ enqueued = 0 /\ worked = 0 =>
       loaded = {} /\ \A o \in Orders : InStoreOrDead(o)
  /\ script = "done" => \A o \in Orders : InStoreOrDead(o)

RebuildInv ==
  /\ RebuildTypeOK /\ CloverIsAhead /\ RowPerKey /\ DeadAreTried /\ ImportsDoomed
  /\ RebuildGoesOn /\ CleanCycle

LEMMA RebuildCounts ==
  \A S : Rebuild!Cardinality(S) = Cardinality(S)
BY DEF Rebuild!Cardinality, Cardinality

\* A bounded set of numbers has a greatest one.
LEMMA GreatestNumber ==
  ASSUME NEW b \in Nat, NEW S \in SUBSET (0 .. b), S # {}
  PROVE  \E n \in S : \A m \in S : m <= n
<1> DEFINE below == {b - n : n \in S}
<1>1. below \in SUBSET Nat /\ below # {}
  <2>1. \A n \in S : n \in 0 .. b
    OBVIOUS
  <2>2. \A n \in 0 .. b : b - n \in Nat
    OBVIOUS
  <2> QED
    BY <2>1, <2>2
<1>2. PICK d \in below : \A e \in below : d <= e
  BY <1>1, LeastNumber
<1>3. PICK n \in S : d = b - n
  OBVIOUS
<1>4. ASSUME NEW m \in S PROVE m <= n
  <2>1. b - m \in below /\ m \in 0 .. b /\ n \in 0 .. b
    OBVIOUS
  <2> QED
    BY <1>2, <1>3, <2>1
<1> QED
  BY <1>4

LEMMA ImageFinite ==
  ASSUME NEW S, IsFiniteSet(S), NEW f, DOMAIN f = S
  PROVE  IsFiniteSet({f[x] : x \in S})
<1> DEFINE T == {f[x] : x \in S}
           g == [x \in S |-> f[x]]
<1>1. g \in Surjection(S, T)
  BY DEF Surjection
<1> HIDE DEF T, g
<1>2. IsFiniteSet(T)
  BY <1>1, FS_Surjection
<1> QED
  BY <1>2 DEF T

LEMMA OrdersFinite == IsFiniteSet(Orders) /\ \A S \in SUBSET Orders : IsFiniteSet(S)
<1>1. LastTime \in Nat /\ 1 \in Int /\ LastTime \in Int /\ Orders \in SUBSET (1 .. LastTime)
  BY RebuildAssumption
<1>2. IsFiniteSet(1 .. LastTime)
  BY <1>1, FS_Interval
<1>3. IsFiniteSet(Orders)
  BY <1>1, <1>2, FS_Subset
<1> QED
  BY <1>3, FS_Subset

\* Clock is the last of Clover's changes.
LEMMA ClockIsLast ==
  ASSUME edition \in [Orders -> 1 .. LastTime]
  PROVE  /\ \A o \in Orders : edition[o] <= Rebuild!Clock
         /\ \E o \in Orders : edition[o] = Rebuild!Clock
<1> DEFINE T == {edition[o] : o \in Orders}
<1>1. T \in SUBSET (0 .. LastTime) /\ T # {} /\ LastTime \in Nat
  BY RebuildAssumption
<1>2. \E t \in T : \A u \in T : u <= t
  BY <1>1, GreatestNumber
<1>3. \E t \in T : \A o \in Orders : edition[o] <= t
  BY <1>2
<1>4. Rebuild!Clock = CHOOSE t \in T : \A o \in Orders : edition[o] <= t
  BY DEF Rebuild!Clock
<1>5. Rebuild!Clock \in T /\ \A o \in Orders : edition[o] <= Rebuild!Clock
  BY <1>3, <1>4
<1> QED
  BY <1>5

LEMMA KeyFacts ==
  ASSUME NEW m \in InboxRows
  PROVE  /\ Rebuild!Key(m) \in InboxKeys
         /\ Rebuild!Key(m).order = m.order
         /\ Rebuild!Key(m).time = m.time
         /\ Rebuild!Key(m).from = m.from
BY DEF InboxRows, InboxKeys, Rebuild!Key

LEMMA MessageFacts ==
  ASSUME edition \in [Orders -> 1 .. LastTime], NEW o \in Orders, NEW f \in Sources
  PROVE  /\ Rebuild!Message(o, f) \in InboxRows
         /\ Rebuild!Message(o, f).order = o
         /\ Rebuild!Message(o, f).time = edition[o]
         /\ Rebuild!Message(o, f).from = f
         /\ Rebuild!Message(o, f).state = "pending"
<1>1. edition[o] \in Nat
  BY RebuildAssumption
<1> QED
  BY <1>1 DEF InboxRows, RowStates, Rebuild!Message

\* An update of the rows of a key leaves the others, and every key its row.
LEMMA ReplaceFacts ==
  ASSUME queue \subseteq InboxRows, IsFiniteSet(queue), RowPerKey,
         NEW key, NEW n \in Nat, NEW to \in RowStates,
         queue' = Rebuild!Replace(key, n, to)
  PROVE  /\ queue' \subseteq InboxRows /\ IsFiniteSet(queue')
         /\ \A m, r \in queue' : Rebuild!Key(m) = Rebuild!Key(r) => m = r
         /\ \A m \in queue' : Rebuild!Key(m) # key => m \in queue
         /\ \A m \in queue' : Rebuild!Key(m) = key => m.attempts = n /\ m.state = to
         /\ \A m \in queue' : \E r \in queue : Rebuild!Key(r) = Rebuild!Key(m)
         /\ \A r \in queue : \E m \in queue' : Rebuild!Key(m) = Rebuild!Key(r)
         /\ \A r \in queue : Rebuild!Key(r) # key => r \in queue'
<1> DEFINE R == Rebuild!Rows(key)
           up(m) == [m EXCEPT !.attempts = n, !.state = to]
<1>1. queue' = (queue \ R) \cup {up(m) : m \in R}
  BY DEF Rebuild!Replace
<1>2. R \subseteq queue /\ \A m \in queue : m \in R <=> Rebuild!Key(m) = key
  BY DEF Rebuild!Rows
<1>3. \A m \in R : up(m) \in InboxRows /\ Rebuild!Key(up(m)) = key
                   /\ up(m).attempts = n /\ up(m).state = to
  <2> HIDE DEF R
  <2>1. ASSUME NEW m \in R
        PROVE  /\ up(m) \in InboxRows /\ Rebuild!Key(up(m)) = Rebuild!Key(m)
               /\ up(m).attempts = n /\ up(m).state = to
    BY <1>2 DEF InboxRows, Rebuild!Key
  <2> QED
    BY <1>2, <2>1
<1> HIDE DEF up, R
<1>4. \A m, r \in R : m = r
  BY <1>2 DEF RowPerKey
<1>5. IsFiniteSet(queue')
  <2>1. IsFiniteSet(queue \ R)
    BY <1>2, FS_Subset
  <2>2. CASE R = {}
    BY <1>1, <2>1, <2>2
  <2>3. CASE R # {}
    <3>1. PICK r : r \in R
      BY <2>3
    <3>2. queue' = (queue \ R) \cup {up(r)}
      BY <1>1, <1>4, <3>1
    <3> QED
      BY <2>1, <3>2, FS_AddElement
  <2> QED
    BY <2>2, <2>3
<1>6. \A m \in queue' : (m \in queue /\ Rebuild!Key(m) # key) \/ (\E r \in R : m = up(r))
  BY <1>1, <1>2
<1>7. \A m, r \in queue' : Rebuild!Key(m) = Rebuild!Key(r) => m = r
  BY <1>3, <1>4, <1>6 DEF RowPerKey
<1>8. \A r \in queue : Rebuild!Key(r) # key => r \in queue'
  BY <1>1, <1>2
<1>9. \A r \in queue : \E m \in queue' : Rebuild!Key(m) = Rebuild!Key(r)
  <2>1. ASSUME NEW r \in R PROVE up(r) \in queue' /\ Rebuild!Key(up(r)) = Rebuild!Key(r)
    BY <1>1, <1>2, <1>3
  <2> QED
    BY <1>2, <1>8, <2>1
<1>10. queue' \subseteq InboxRows
  BY <1>3, <1>6
<1>11. \A m \in queue' : \E r \in queue : Rebuild!Key(r) = Rebuild!Key(m)
  BY <1>2, <1>3, <1>6
<1>12. \A m \in queue' : Rebuild!Key(m) # key => m \in queue
  BY <1>3, <1>6
<1>13. \A m \in queue' : Rebuild!Key(m) = key => m.attempts = n /\ m.state = to
  BY <1>3, <1>6
<1> QED
  BY <1>5, <1>7, <1>8, <1>9, <1>10, <1>11, <1>12, <1>13

\* What the steps of a saga, and of its failure, have in common.
LEMMA RowStepKeeps ==
  ASSUME RebuildInv, NEW key \in InboxKeys, NEW n \in Nat, NEW to \in RowStates,
         queue' = Rebuild!Replace(key, n, to),
         UNCHANGED <<edition, mark, script, doomed, owed, enqueued, worked>>,
         loaded' \subseteq loaded, worker' \in {worker, Rebuild!Idle},
         rebuilt' \in [Orders -> Nat],
         \A o \in Orders : rebuilt[o] <= rebuilt'[o] /\ rebuilt'[o] <= edition[o],
         to = "processed" => rebuilt'[key.order] >= key.time,
         to = "dead" => n >= GiveUp,
         \/ to = "processed"
         \/ \A m \in queue : Rebuild!Key(m) = key => m.state # "dead"
         \/ script = "drain" /\ loaded # {}
  PROVE  RebuildInv'
<1>1. /\ queue' \subseteq InboxRows /\ IsFiniteSet(queue')
      /\ \A m, r \in queue' : Rebuild!Key(m) = Rebuild!Key(r) => m = r
      /\ \A m \in queue' : Rebuild!Key(m) # key => m \in queue
      /\ \A m \in queue' : Rebuild!Key(m) = key => m.attempts = n /\ m.state = to
      /\ \A m \in queue' : \E r \in queue : Rebuild!Key(r) = Rebuild!Key(m)
      /\ \A r \in queue : \E m \in queue' : Rebuild!Key(m) = Rebuild!Key(r)
      /\ \A r \in queue : Rebuild!Key(r) # key => r \in queue'
  <2>1. queue \subseteq InboxRows /\ IsFiniteSet(queue) /\ RowPerKey
    BY DEF RebuildInv, RebuildTypeOK
  <2> QED
    BY <2>1, ReplaceFacts
<1>2. /\ \A m \in queue' : \E r \in queue : r.order = m.order /\ r.time = m.time /\ r.from = m.from
      /\ \A r \in queue : \E m \in queue' : r.order = m.order /\ r.time = m.time /\ r.from = m.from
      /\ \A m \in queue' : Rebuild!Key(m) = key => m.order = key.order /\ m.time = key.time
      /\ \A r \in queue : Rebuild!Key(r) = key => r.order = key.order /\ r.time = key.time
  <2>1. queue \subseteq InboxRows
    BY DEF RebuildInv, RebuildTypeOK
  <2>2. \A m \in queue \cup queue' :
          /\ Rebuild!Key(m).order = m.order
          /\ Rebuild!Key(m).time = m.time
          /\ Rebuild!Key(m).from = m.from
    BY <1>1, <2>1, KeyFacts
  <2>3. \A m \in queue' : \E r \in queue : r.order = m.order /\ r.time = m.time /\ r.from = m.from
    BY <1>1, <2>2
  <2>4. \A r \in queue : \E m \in queue' : r.order = m.order /\ r.time = m.time /\ r.from = m.from
    BY <1>1, <2>2
  <2> QED
    BY <2>2, <2>3, <2>4
<1>3. RebuildTypeOK'
  BY <1>1 DEF RebuildInv, RebuildTypeOK, Rebuild!Idle
<1>4. CloverIsAhead'
  <2>1. \A m \in queue' \cup loaded' : m.time <= edition[m.order]
    BY <1>2 DEF RebuildInv, CloverIsAhead
  <2> QED
    BY <2>1 DEF RebuildInv, CloverIsAhead, Rebuild!Idle
<1>5. RowPerKey'
  BY <1>1 DEF RowPerKey, Rebuild!Key
<1>6. DeadAreTried'
  BY <1>1 DEF RebuildInv, DeadAreTried
<1>7. ImportsDoomed'
  <2>1. \A m \in queue' : m.from = "import" =>
          \E r \in queue : r.from = "import" /\ Rebuild!Key(r) = Rebuild!Key(m)
    <3>1. queue \subseteq InboxRows /\ queue' \subseteq InboxRows
      BY <1>1 DEF RebuildInv, RebuildTypeOK
    <3> QED
      BY <1>1, <3>1, KeyFacts
  <2> QED
    BY <2>1 DEF RebuildInv, ImportsDoomed, Rebuild!Key
<1>8. RebuildGoesOn'
  <2> SUFFICES ASSUME Rebuilding
               PROVE  /\ \A m \in queue' : m.from = "import" /\ m.state = "processed" =>
                           rebuilt'[m.order] >= m.time
                      /\ \A m \in queue' : m.from = "import" => m.time <= mark
                      /\ \A o \in Orders : edition[o] <= mark =>
                           \E m \in queue' : m.order = o /\ m.time = edition[o] /\ m.from = "import"
    BY DEF RebuildGoesOn, Rebuilding
  <2>1. ASSUME NEW m \in queue', m.from = "import", m.state = "processed"
        PROVE  rebuilt'[m.order] >= m.time
    <3>1. CASE Rebuild!Key(m) = key
      BY <1>1, <1>2, <2>1, <3>1
    <3>2. CASE Rebuild!Key(m) # key
      <4>1. m \in queue /\ rebuilt[m.order] >= m.time
        BY <1>1, <2>1, <3>2 DEF RebuildInv, RebuildGoesOn
      <4>2. m.order \in Orders /\ m.time \in Nat
        BY <1>1 DEF InboxRows
      <4> QED
        BY <4>1, <4>2 DEF RebuildInv, RebuildTypeOK
    <3> QED
      BY <3>1, <3>2
  <2>2. \A m \in queue' : m.from = "import" => m.time <= mark
    BY <1>2 DEF RebuildInv, RebuildGoesOn
  <2>3. ASSUME NEW o \in Orders, edition[o] <= mark
        PROVE  \E m \in queue' : m.order = o /\ m.time = edition[o] /\ m.from = "import"
    BY <1>2, <2>3 DEF RebuildInv, RebuildGoesOn
  <2> QED
    BY <2>1, <2>2, <2>3
<1>9. \A o \in Orders : Covered(o) => Covered(o)'
  BY <1>2 DEF Covered
<1>10. script = "done" \/ (script = "drain" /\ loaded = {}) =>
         \A o \in Orders : InStoreOrDead(o) => InStoreOrDead(o)'
  <2> SUFFICES ASSUME script = "done" \/ (script = "drain" /\ loaded = {}),
                      NEW o \in Orders, InStoreOrDead(o)
               PROVE  InStoreOrDead(o)'
    OBVIOUS
  <2>1. rebuilt[o] \in Nat /\ rebuilt'[o] \in Nat /\ owed[o] \in Nat
        /\ rebuilt[o] <= rebuilt'[o] /\ owed' = owed
    BY DEF RebuildInv, RebuildTypeOK
  <2>2. CASE rebuilt[o] >= owed[o]
    BY <2>1, <2>2 DEF InStoreOrDead
  <2>3. CASE \E m \in queue : m.order = o /\ m.state = "dead" /\ m.time >= owed[o]
    <3>1. PICK m \in queue : m.order = o /\ m.state = "dead" /\ m.time >= owed[o]
      BY <2>3
    <3>2. CASE Rebuild!Key(m) # key
      BY <1>1, <2>1, <3>1, <3>2 DEF InStoreOrDead
    <3>3. CASE Rebuild!Key(m) = key
      <4>1. to = "processed"
        BY <3>1, <3>3
      <4>2. key.order = o /\ key.time >= owed[o] /\ key.time \in Nat
        BY <1>2, <3>1, <3>3 DEF InboxKeys
      <4> QED
        BY <2>1, <4>1, <4>2 DEF InStoreOrDead
    <3> QED
      BY <3>2, <3>3
  <2> QED
    BY <2>2, <2>3 DEF InStoreOrDead
<1>11. CleanCycle'
  BY <1>9, <1>10 DEF RebuildInv, CleanCycle
<1> QED
  BY <1>3, <1>4, <1>5, <1>6, <1>7, <1>8, <1>11 DEF RebuildInv

LEMMA EditionFacts ==
  ASSUME RebuildInv
  PROVE  /\ edition \in [Orders -> 1 .. LastTime]
         /\ \A o \in Orders : edition[o] \in Nat /\ edition[o] >= 1
<1>1. edition \in [Orders -> 1 .. LastTime] /\ LastTime \in Nat
  BY RebuildAssumption DEF RebuildInv, RebuildTypeOK
<1> QED
  BY <1>1

\* The steps of Clover and of the deployed drain.
LEMMA ModifyKeeps ==
  ASSUME RebuildInv, NEW o \in Orders, Rebuild!Modify(o)
  PROVE  RebuildInv'
<1> DEFINE t == Rebuild!Clock + 1
<1>1. /\ edition \in [Orders -> 1 .. LastTime]
      /\ \A p \in Orders : edition[p] <= Rebuild!Clock
      /\ Rebuild!Clock \in 1 .. LastTime
  BY ClockIsLast DEF RebuildInv, RebuildTypeOK
<1>2. t \in 1 .. LastTime /\ \A p \in Orders : edition[p] < t
  <2>1. LastTime \in Nat /\ Rebuild!Clock < LastTime
    BY RebuildAssumption DEF Rebuild!Modify
  <2> QED
    BY <1>1, <2>1
<1>3. /\ edition' = [edition EXCEPT ![o] = t]
      /\ UNCHANGED <<rebuilt, queue, mark, worker, script, doomed, owed, enqueued, loaded,
                     worked>>
  BY DEF Rebuild!Modify, Rebuild!ScriptUnchanged
<1> HIDE DEF t
<1>4. /\ edition' \in [Orders -> 1 .. LastTime] /\ edition'[o] = t
      /\ \A p \in Orders : p # o => edition'[p] = edition[p]
      /\ \A p \in Orders : edition[p] \in Nat /\ edition'[p] \in Nat /\ edition[p] <= edition'[p]
  BY <1>1, <1>2, <1>3
<1>5. RebuildTypeOK'
  BY <1>3, <1>4 DEF RebuildInv, RebuildTypeOK
<1>6. CloverIsAhead'
  <2>1. \A p, r \in Orders : edition'[p] = edition'[r] => p = r
    BY <1>2, <1>4 DEF RebuildInv, CloverIsAhead
  <2>2. \E p \in Orders : mark <= edition'[p]
    BY <1>4 DEF RebuildInv, RebuildTypeOK, CloverIsAhead
  <2>3. \A p \in Orders : rebuilt[p] <= edition'[p] /\ owed[p] <= edition'[p]
    BY <1>4 DEF RebuildInv, RebuildTypeOK, CloverIsAhead
  <2>4. \A m \in queue \cup loaded : m.time <= edition'[m.order]
    <3>1. \A m \in queue \cup loaded : m.order \in Orders /\ m.time \in Nat
      BY DEF RebuildInv, RebuildTypeOK, InboxRows
    <3> QED
      BY <1>4, <3>1 DEF RebuildInv, CloverIsAhead
  <2>5. worker # Rebuild!Idle =>
          worker.key.time <= worker.fetched /\ worker.fetched <= edition'[worker.key.order]
    <3>1. worker # Rebuild!Idle => worker.key.order \in Orders /\ worker.fetched \in Nat
      BY DEF RebuildInv, RebuildTypeOK, DeployedSagas, InboxKeys
    <3> QED
      BY <1>4, <3>1 DEF RebuildInv, CloverIsAhead
  <2> QED
    BY <1>3, <2>1, <2>2, <2>3, <2>4, <2>5 DEF CloverIsAhead, Rebuild!Idle
<1>7. RebuildGoesOn'
  <2>1. \E p \in Orders : mark <= edition[p]
    BY DEF RebuildInv, CloverIsAhead
  <2>2. mark < t
    BY <1>1, <1>2, <2>1 DEF RebuildInv, RebuildTypeOK
  <2>3. \A p \in Orders : edition'[p] <= mark => edition'[p] = edition[p]
    BY <1>1, <1>2, <1>4, <2>2 DEF RebuildInv, RebuildTypeOK
  <2> QED
    BY <1>3, <2>3 DEF RebuildInv, RebuildGoesOn, Rebuilding
<1>8. (RowPerKey /\ DeadAreTried /\ ImportsDoomed)'
  BY <1>3 DEF RebuildInv, RowPerKey, DeadAreTried, ImportsDoomed, Rebuild!Key
<1>9. CleanCycle'
  BY <1>3 DEF RebuildInv, CleanCycle, Covered, InStoreOrDead
<1> QED
  BY <1>5, <1>6, <1>7, <1>8, <1>9 DEF RebuildInv

\* A message that is added, with the time its order has in Clover.
LEMMA NotifyKeeps ==
  ASSUME RebuildInv, NEW o \in Orders, Rebuild!Notify(o)
  PROVE  RebuildInv'
<1> DEFINE m == Rebuild!Message(o, "hook")
<1>1. /\ queue' = queue \cup {m} /\ \A r \in queue : Rebuild!Key(r) # Rebuild!Key(m)
      /\ UNCHANGED <<edition, rebuilt, mark, worker, script, doomed, owed, enqueued, loaded,
                     worked>>
  BY DEF Rebuild!Notify, Rebuild!ScriptUnchanged
<1>2. m \in InboxRows /\ m.order = o /\ m.time = edition[o] /\ m.from = "hook"
      /\ m.state = "pending"
  BY MessageFacts DEF RebuildInv, RebuildTypeOK, Sources
<1> HIDE DEF m
<1>3. RebuildTypeOK'
  <2>1. IsFiniteSet(queue \cup {m})
    BY FS_AddElement DEF RebuildInv, RebuildTypeOK
  <2> QED
    BY <1>1, <1>2, <2>1 DEF RebuildInv, RebuildTypeOK
<1>4. CloverIsAhead'
  <2>1. edition[o] \in Nat
    BY RebuildAssumption DEF RebuildInv, RebuildTypeOK
  <2>2. \A r \in queue' \cup loaded' : r.time <= edition[r.order]
    BY <1>1, <1>2, <2>1 DEF RebuildInv, CloverIsAhead
  <2> QED
    BY <1>1, <2>2 DEF RebuildInv, CloverIsAhead, Rebuild!Idle
<1>5. RowPerKey'
  BY <1>1 DEF RebuildInv, RowPerKey, Rebuild!Key
<1>6. (DeadAreTried /\ ImportsDoomed)'
  BY <1>1, <1>2 DEF RebuildInv, DeadAreTried, ImportsDoomed, Rebuild!Key
<1>7. RebuildGoesOn'
  <2>1. \A r \in queue : r \in queue'
    BY <1>1
  <2> QED
    BY <1>1, <1>2, <2>1 DEF RebuildInv, RebuildGoesOn, Rebuilding
<1>8. CleanCycle'
  BY <1>1 DEF RebuildInv, CleanCycle, Covered, InStoreOrDead
<1> QED
  BY <1>3, <1>4, <1>5, <1>6, <1>7, <1>8 DEF RebuildInv

\* A saga's step that only moves on.
LEMMA WorkerKeeps ==
  ASSUME RebuildInv, worker' \in DeployedSagas \cup {Rebuild!Idle},
         worker' # Rebuild!Idle =>
           worker'.key.time <= worker'.fetched /\ worker'.fetched <= edition[worker'.key.order],
         UNCHANGED <<edition, rebuilt, queue, mark, script, doomed, owed, enqueued, loaded,
                     worked>>
  PROVE  RebuildInv'
BY DEF RebuildInv, RebuildTypeOK, CloverIsAhead, RowPerKey, DeadAreTried, ImportsDoomed,
       RebuildGoesOn, Rebuilding, CleanCycle, Covered, InStoreOrDead, Rebuild!Key, Rebuild!Idle

LEMMA DeployedKeeps ==
  ASSUME RebuildInv,
         \/ \E m \in queue : Rebuild!Begin(m)
         \/ Rebuild!Write \/ Rebuild!MarkProcessed \/ Rebuild!SagaCommits \/ Rebuild!SagaFails
  PROVE  RebuildInv'
<1>1. ASSUME NEW m \in queue, Rebuild!Begin(m) PROVE RebuildInv'
  <2>1. m \in InboxRows /\ m.time <= edition[m.order] /\ m.order \in Orders /\ m.time \in Nat
    BY DEF RebuildInv, RebuildTypeOK, CloverIsAhead, InboxRows
  <2>2. edition[m.order] \in Nat
    BY <2>1, EditionFacts
  <2>3. worker' = [step |-> "fetched", key |-> Rebuild!Key(m), fetched |-> edition[m.order]]
    BY <1>1 DEF Rebuild!Begin
  <2>4. worker' \in DeployedSagas /\ worker'.key.time <= worker'.fetched
        /\ worker'.fetched <= edition[worker'.key.order]
    BY <2>1, <2>2, <2>3, KeyFacts DEF DeployedSagas
  <2> QED
    BY <1>1, <2>4, WorkerKeeps DEF Rebuild!Begin, Rebuild!ScriptUnchanged
<1>2. worker.step # "idle" => worker \in DeployedSagas /\ worker # Rebuild!Idle
  BY DEF RebuildInv, RebuildTypeOK, Rebuild!Idle
<1>3. ASSUME Rebuild!Write \/ Rebuild!MarkProcessed PROVE RebuildInv'
  <2>1. worker \in DeployedSagas /\ worker # Rebuild!Idle
    BY <1>2, <1>3 DEF Rebuild!Write, Rebuild!MarkProcessed
  <2>2. worker' = [worker EXCEPT !.step = "written"] \/ worker' = [worker EXCEPT !.step = "marked"]
    BY <1>3 DEF Rebuild!Write, Rebuild!MarkProcessed
  <2>3. worker' \in DeployedSagas /\ worker'.key = worker.key /\ worker'.fetched = worker.fetched
    BY <2>1, <2>2 DEF DeployedSagas
  <2> QED
    BY <1>3, <2>1, <2>3, WorkerKeeps
       DEF Rebuild!Write, Rebuild!MarkProcessed, Rebuild!ScriptUnchanged, RebuildInv, CloverIsAhead
<1>4. ASSUME Rebuild!SagaCommits PROVE RebuildInv'
  <2>1. worker \in DeployedSagas /\ worker # Rebuild!Idle
    BY <1>2, <1>4 DEF Rebuild!SagaCommits
  <2>2. worker.key \in InboxKeys /\ worker.key.order \in Orders /\ worker.key.time \in Nat
        /\ worker.fetched \in Nat
        /\ worker.key.time <= worker.fetched /\ worker.fetched <= edition[worker.key.order]
    BY <2>1 DEF RebuildInv, CloverIsAhead, DeployedSagas, InboxKeys
  <2>3. rebuilt' = [rebuilt EXCEPT ![worker.key.order] =
                      IF @ >= worker.fetched THEN @ ELSE worker.fetched]
    BY <1>4 DEF Rebuild!SagaCommits
  <2>4. /\ rebuilt' \in [Orders -> Nat] /\ rebuilt'[worker.key.order] >= worker.key.time
        /\ \A o \in Orders : rebuilt[o] <= rebuilt'[o] /\ rebuilt'[o] <= edition[o]
    <3>1. \A o \in Orders : rebuilt[o] \in Nat /\ rebuilt[o] <= edition[o] /\ edition[o] \in Nat
      BY RebuildAssumption DEF RebuildInv, RebuildTypeOK, CloverIsAhead
    <3>2. rebuilt \in [Orders -> Nat]
      BY DEF RebuildInv, RebuildTypeOK
    <3> QED
      BY <2>2, <2>3, <3>1, <3>2
  <2>5. queue' = Rebuild!Replace(worker.key, 0, "processed")
    BY <1>4 DEF Rebuild!SagaCommits
  <2> QED
    BY <1>4, <2>2, <2>4, <2>5, RowStepKeeps
       DEF Rebuild!SagaCommits, Rebuild!ScriptUnchanged, RowStates
<1>5. ASSUME Rebuild!SagaFails PROVE RebuildInv'
  <2>1. worker \in DeployedSagas /\ worker.key \in InboxKeys
    BY <1>5 DEF Rebuild!SagaFails, RebuildInv, RebuildTypeOK, DeployedSagas
  <2>2. CASE queue' = queue
    BY <1>5, <2>2, WorkerKeeps DEF Rebuild!SagaFails, Rebuild!ScriptUnchanged
  <2>3. CASE queue' # queue
    <3>1. PICK r \in Rebuild!Rows(worker.key) :
            /\ r.attempts < GiveUp
            /\ queue' = Rebuild!Replace(worker.key, r.attempts + 1,
                                        Rebuild!AfterFailure(r.attempts + 1))
      BY <1>5, <2>3 DEF Rebuild!SagaFails
    <3>2. r \in queue /\ Rebuild!Key(r) = worker.key /\ r.attempts \in Nat
      BY <3>1 DEF Rebuild!Rows, RebuildInv, RebuildTypeOK, InboxRows
    <3>3. \A m \in queue : Rebuild!Key(m) = worker.key => m.state # "dead"
      <4>1. \A m \in queue : Rebuild!Key(m) = worker.key => m = r
        BY <3>2 DEF RebuildInv, RowPerKey
      <4>2. r.state # "dead"
        BY <3>1, <3>2, RebuildAssumption DEF RebuildInv, DeadAreTried
      <4> QED
        BY <4>1, <4>2
    <3>4. /\ Rebuild!AfterFailure(r.attempts + 1) \in {"pending", "dead"}
          /\ Rebuild!AfterFailure(r.attempts + 1) = "dead" => r.attempts + 1 >= GiveUp
      BY <3>2, RebuildAssumption DEF Rebuild!AfterFailure
    <3>5. r.attempts + 1 \in Nat
      BY <3>2
    <3>6. rebuilt \in [Orders -> Nat] /\ \A o \in Orders : rebuilt[o] <= rebuilt[o] /\ rebuilt[o] <= edition[o]
      BY DEF RebuildInv, RebuildTypeOK, CloverIsAhead
    <3> QED
      BY <1>5, <2>1, <3>1, <3>3, <3>4, <3>5, <3>6, RowStepKeeps
         DEF Rebuild!SagaFails, Rebuild!ScriptUnchanged, RowStates
  <2> QED
    BY <2>2, <2>3
<1> QED
  BY <1>1, <1>3, <1>4, <1>5

\* The reset: it deletes every message of the imports, and the watermark.
LEMMA ResetKeeps ==
  ASSUME RebuildInv,
         Rebuild!DeleteInbox \/ Rebuild!DeleteOrders \/ Rebuild!CommitReset \/ Rebuild!ResetFails
  PROVE  RebuildInv'
<1>1. ASSUME Rebuild!DeleteInbox \/ Rebuild!DeleteOrders \/ Rebuild!ResetFails PROVE RebuildInv'
  <2>1. /\ UNCHANGED <<edition, rebuilt, queue, mark, owed, enqueued, loaded, worked, worker>>
        /\ script' \in {"deleteOrders", "commitReset", "failed"}
    BY <1>1 DEF Rebuild!DeleteInbox, Rebuild!DeleteOrders, Rebuild!ResetFails
  <2>2. doomed' \in [messages : SUBSET InboxKeys, orders : SUBSET Orders]
    <3>1. {Rebuild!Key(m) : m \in queue} \in SUBSET InboxKeys
      BY KeyFacts DEF RebuildInv, RebuildTypeOK
    <3>2. Rebuild!HasRows \in SUBSET Orders
      BY DEF Rebuild!HasRows
    <3>3. doomed \in [messages : SUBSET InboxKeys, orders : SUBSET Orders]
      BY DEF RebuildInv, RebuildTypeOK
    <3>4. CASE Rebuild!DeleteInbox
      BY <3>1, <3>3, <3>4 DEF Rebuild!DeleteInbox
    <3>5. CASE Rebuild!DeleteOrders
      BY <3>2, <3>3, <3>5 DEF Rebuild!DeleteOrders
    <3>6. CASE Rebuild!ResetFails
      BY <3>6 DEF Rebuild!ResetFails, Rebuild!NothingDoomed
    <3> QED
      BY <1>1, <3>4, <3>5, <3>6
  <2>3. ImportsDoomed'
    <3>1. CASE Rebuild!DeleteInbox
      <4>1. doomed'.messages = {Rebuild!Key(m) : m \in queue}
        BY <3>1 DEF Rebuild!DeleteInbox, RebuildInv, RebuildTypeOK
      <4> QED
        BY <2>1, <4>1 DEF ImportsDoomed, Rebuild!Key
    <3>2. CASE Rebuild!DeleteOrders
      <4>1. doomed'.messages = doomed.messages /\ script = "deleteOrders"
        BY <3>2 DEF Rebuild!DeleteOrders, RebuildInv, RebuildTypeOK
      <4> QED
        BY <2>1, <4>1 DEF RebuildInv, ImportsDoomed, Rebuild!Key
    <3>3. CASE Rebuild!ResetFails
      BY <3>3 DEF Rebuild!ResetFails, ImportsDoomed
    <3> QED
      BY <1>1, <3>1, <3>2, <3>3
  <2>4. RebuildTypeOK'
    BY <2>1, <2>2 DEF RebuildInv, RebuildTypeOK
  <2>5. (CloverIsAhead /\ RowPerKey /\ DeadAreTried)'
    BY <2>1 DEF RebuildInv, CloverIsAhead, RowPerKey, DeadAreTried, Rebuild!Key, Rebuild!Idle
  <2>6. (RebuildGoesOn /\ CleanCycle)'
    BY <2>1 DEF RebuildGoesOn, Rebuilding, CleanCycle
  <2> QED
    BY <2>3, <2>4, <2>5, <2>6 DEF RebuildInv
<1>2. ASSUME Rebuild!CommitReset PROVE RebuildInv'
  <2>1. /\ script = "commitReset" /\ script' = "import"
        /\ queue' = {m \in queue : Rebuild!Key(m) \notin doomed.messages}
        /\ rebuilt' = [o \in Orders |-> IF o \in doomed.orders THEN 0 ELSE rebuilt[o]]
        /\ mark' = 0 /\ owed' = edition /\ doomed' = Rebuild!NothingDoomed
        /\ UNCHANGED <<edition, enqueued, loaded, worked, worker>>
    BY <1>2 DEF Rebuild!CommitReset
  <2>2. queue' \subseteq queue /\ \A m \in queue' : m.from # "import"
    BY <2>1 DEF RebuildInv, ImportsDoomed
  <2>3. /\ edition \in [Orders -> 1 .. LastTime]
        /\ \A o \in Orders : edition[o] \in Nat /\ edition[o] >= 1
    BY EditionFacts
  <2>4. RebuildTypeOK'
    <3>1. IsFiniteSet(queue')
      BY <2>2, FS_Subset DEF RebuildInv, RebuildTypeOK
    <3>2. owed' \in [Orders -> Nat] /\ rebuilt' \in [Orders -> Nat]
      BY <2>1, <2>3 DEF RebuildInv, RebuildTypeOK
    <3> QED
      BY <2>1, <2>2, <3>1, <3>2 DEF RebuildInv, RebuildTypeOK, Rebuild!NothingDoomed
  <2>5. CloverIsAhead'
    <3>1. \A o \in Orders : rebuilt'[o] <= edition[o] /\ owed'[o] <= edition[o]
      BY <2>1, <2>3 DEF RebuildInv, CloverIsAhead
    <3>2. \E o \in Orders : mark' <= edition[o]
      BY <2>1, <2>3, RebuildAssumption
    <3>3. \A m \in queue' \cup loaded' : m.time <= edition[m.order]
      BY <2>1, <2>2 DEF RebuildInv, CloverIsAhead
    <3> QED
      BY <2>1, <3>1, <3>2, <3>3 DEF RebuildInv, CloverIsAhead, Rebuild!Idle
  <2>6. (RowPerKey /\ DeadAreTried /\ ImportsDoomed)'
    BY <2>1, <2>2 DEF RebuildInv, RowPerKey, DeadAreTried, ImportsDoomed, Rebuild!Key
  <2>7. RebuildGoesOn'
    BY <2>1, <2>2, <2>3 DEF RebuildGoesOn
  <2>8. CleanCycle'
    BY <2>1 DEF CleanCycle
  <2> QED
    BY <2>4, <2>5, <2>6, <2>7, <2>8 DEF RebuildInv
<1> QED
  BY <1>1, <1>2

\* A page that brings nothing new was all there is: what it lists has the watermark's
\* time, so it lists one order, and a page has room for two.
LEMMA NothingNewIsAll ==
  ASSUME RebuildInv, script = "import",
         \A o \in Rebuild!Listed : \E m \in queue : Rebuild!Key(m) = Rebuild!Key(Rebuild!Message(o, "import"))
  PROVE  \A o \in Orders : edition[o] <= mark
<1> DEFINE L == Rebuild!Listed
           E == Rebuild!Eligible
           before(o) == {p \in E : edition[p] < edition[o]}
<1>1. /\ edition \in [Orders -> 1 .. LastTime]
      /\ \A o \in Orders : edition[o] \in Nat /\ edition[o] >= 1
  BY EditionFacts
<1>2. E \subseteq Orders /\ L \subseteq E /\ \A o \in Orders : o \in E <=> edition[o] >= mark
  BY DEF Rebuild!Eligible, Rebuild!Listed
<1>3. \A o \in E : o \in L <=> Cardinality(before(o)) < Page
  BY RebuildCounts DEF Rebuild!Listed
<1>4. ASSUME NEW o \in L PROVE edition[o] = mark
  <2>1. o \in Orders
    BY <1>2
  <2>2. PICK m \in queue : Rebuild!Key(m) = Rebuild!Key(Rebuild!Message(o, "import"))
    OBVIOUS
  <2>3. m \in InboxRows
    BY DEF RebuildInv, RebuildTypeOK
  <2>4. m.time = edition[o] /\ m.from = "import"
    BY <1>1, <2>1, <2>2, <2>3, KeyFacts, MessageFacts DEF Sources
  <2>5. m.time <= mark
    BY <2>4 DEF RebuildInv, RebuildGoesOn, Rebuilding
  <2> QED
    BY <1>1, <1>2, <2>1, <2>4, <2>5 DEF RebuildInv, RebuildTypeOK
<1>5. ASSUME NEW o \in E \ L PROVE FALSE
  <2> DEFINE times == {edition[p] : p \in E \ L}
  <2>1. times \in SUBSET Nat /\ times # {}
    BY <1>1, <1>2
  <2>2. PICK p \in E \ L : \A q \in E \ L : edition[p] <= edition[q]
    <3>1. \E t \in times : \A u \in times : t <= u
      BY <2>1, LeastNumber
    <3> QED
      BY <3>1
  <2>3. before(p) \subseteq L
    <3> SUFFICES ASSUME NEW q \in E, edition[q] < edition[p], q \notin L PROVE FALSE
      OBVIOUS
    <3>1. edition[p] <= edition[q] /\ edition[p] \in Nat /\ edition[q] \in Nat
      BY <1>1, <1>2, <2>2
    <3> QED
      BY <3>1
  <2>4. \A q, r \in before(p) : q = r
    <3>1. \A q, r \in before(p) : edition[q] = edition[r] /\ q \in Orders /\ r \in Orders
      BY <1>2, <1>4, <2>3
    <3> QED
      BY <3>1 DEF RebuildInv, CloverIsAhead
  <2>5. Cardinality(before(p)) <= 1
    <3>1. CASE before(p) = {}
      BY <3>1, FS_EmptySet
    <3>2. CASE before(p) # {}
      <4>1. PICK q : q \in before(p)
        BY <3>2
      <4>2. before(p) = {q}
        BY <2>4, <4>1
      <4> HIDE DEF before
      <4> QED
        BY <4>2, FS_Singleton
    <3> QED
      BY <3>1, <3>2
  <2>6. Cardinality(before(p)) \in Nat
    <3>1. IsFiniteSet(before(p))
      BY <1>2, OrdersFinite
    <3> QED
      BY <3>1, FS_CardinalityType
  <2> QED
    BY <1>3, <2>2, <2>5, <2>6, RebuildAssumption
<1> QED
  BY <1>1, <1>2, <1>4, <1>5 DEF RebuildInv, RebuildTypeOK

\* The import adds what a page lists and the inbox does not know yet.
LEMMA ImportKeeps ==
  ASSUME RebuildInv, Rebuild!Import
  PROVE  RebuildInv'
<1> DEFINE L == Rebuild!Listed
           note(o) == Rebuild!Message(o, "import")
           known == {Rebuild!Key(m) : m \in queue}
           new == {m \in {note(o) : o \in L} : Rebuild!Key(m) \notin known}
<1>1. /\ edition \in [Orders -> 1 .. LastTime]
      /\ \A o \in Orders : edition[o] \in Nat /\ edition[o] >= 1
  BY EditionFacts
<1>2. L \subseteq Orders /\ \A o \in L : edition[o] >= mark
  BY DEF Rebuild!Listed, Rebuild!Eligible
<1>3. /\ script = "import" /\ script' = "load"
      /\ queue' = queue \cup new /\ enqueued' = Cardinality(new)
      /\ mark' = IF L = {} THEN mark
                           ELSE CHOOSE t \in {edition[o] : o \in L} : \A o \in L : edition[o] <= t
      /\ UNCHANGED <<edition, rebuilt, doomed, owed, loaded, worked, worker>>
  BY RebuildCounts DEF Rebuild!Import
<1>4. \A o \in Orders :
        /\ note(o) \in InboxRows /\ note(o).order = o /\ note(o).time = edition[o]
        /\ note(o).from = "import" /\ note(o).state = "pending"
        /\ Rebuild!Key(note(o)).order = o /\ Rebuild!Key(note(o)).time = edition[o]
        /\ Rebuild!Key(note(o)).from = "import"
  BY <1>1, MessageFacts, KeyFacts DEF Sources
<1> HIDE DEF note
<1>5. IsFiniteSet(new)
  <2> DEFINE f == [o \in L |-> note(o)]
  <2>1. IsFiniteSet({f[o] : o \in L})
    <3>1. IsFiniteSet(L) /\ DOMAIN f = L
      BY <1>2, OrdersFinite
    <3> HIDE DEF f
    <3> QED
      BY <3>1, ImageFinite
  <2>2. new \in SUBSET {f[o] : o \in L}
    OBVIOUS
  <2> QED
    BY <2>1, <2>2, FS_Subset
<1>6. \A m \in new : \E o \in L : m = note(o) /\ \A r \in queue : Rebuild!Key(r) # Rebuild!Key(m)
  OBVIOUS
<1>7. \A o \in L : \E m \in queue \cup new : Rebuild!Key(m) = Rebuild!Key(note(o))
  OBVIOUS
<1>8. Cardinality(new) \in Nat /\ (Cardinality(new) = 0 => new = {})
  BY <1>5, FS_CardinalityType, FS_EmptySet
\* The watermark is the last time listed.
<1>9. /\ mark' \in Nat /\ mark <= mark' /\ \A o \in L : edition[o] <= mark'
      /\ \E o \in Orders : mark' <= edition[o]
      /\ L # {} => \E o \in L : edition[o] = mark'
  <2>1. mark \in Nat /\ \E o \in Orders : mark <= edition[o]
    BY DEF RebuildInv, RebuildTypeOK, CloverIsAhead
  <2>2. CASE L = {}
    BY <1>3, <2>1, <2>2
  <2>3. CASE L # {}
    <3> DEFINE T == {edition[o] : o \in L}
    <3>1. T \in SUBSET (0 .. LastTime) /\ T # {} /\ LastTime \in Nat
      <4>1. LastTime \in Nat
        BY RebuildAssumption
      <4>2. \A o \in L : edition[o] \in 0 .. LastTime
        BY <1>1, <1>2, <4>1
      <4> QED
        BY <2>3, <4>1, <4>2
    <3>2. \E t \in T : \A u \in T : u <= t
      BY <3>1, GreatestNumber
    <3>3. \E t \in T : \A o \in L : edition[o] <= t
      BY <3>2
    <3>4. mark' = CHOOSE t \in T : \A o \in L : edition[o] <= t
      BY <1>3, <2>3
    <3>5. mark' \in T /\ \A o \in L : edition[o] <= mark'
      BY <3>3, <3>4
    <3>6. PICK o \in L : edition[o] = mark'
      BY <3>5
    <3> QED
      BY <1>1, <1>2, <2>1, <2>3, <3>5, <3>6
  <2> QED
    BY <2>2, <2>3
\* Listed are all that changed up to it.
<1>10. \A o \in Orders : edition[o] >= mark /\ edition[o] <= mark' /\ L # {} => o \in L
  <2> SUFFICES ASSUME NEW o \in Orders, edition[o] >= mark, edition[o] <= mark', L # {}
               PROVE  o \in L
    OBVIOUS
  <2>1. PICK z \in L : edition[z] = mark'
    BY <1>9
  <2> DEFINE E == Rebuild!Eligible
             before(p) == {q \in E : edition[q] < edition[p]}
  <2>2. o \in E /\ E \subseteq Orders
    BY DEF Rebuild!Eligible
  <2>3. before(o) \subseteq before(z)
    BY <1>1, <1>2, <2>1, <2>2
  <2>4. IsFiniteSet(before(z)) /\ IsFiniteSet(before(o))
    BY <2>2, OrdersFinite
  <2>5. Cardinality(before(o)) <= Cardinality(before(z))
        /\ Cardinality(before(o)) \in Nat /\ Cardinality(before(z)) \in Nat
    <3> HIDE DEF before
    <3> QED
      BY <2>3, <2>4, FS_Subset, FS_CardinalityType
  <2>6. Cardinality(before(z)) < Page
    BY <2>1, RebuildCounts DEF Rebuild!Listed
  <2>7. Cardinality(before(o)) < Page
    <3> HIDE DEF before
    <3> QED
      BY <2>5, <2>6, RebuildAssumption
  <2> QED
    BY <2>2, <2>7, RebuildCounts DEF Rebuild!Listed
<1> HIDE DEF L, known, new
<1>11. new \subseteq InboxRows
       /\ \A m \in new : m.order \in L /\ m.time = edition[m.order] /\ m.from = "import"
                         /\ m.state = "pending" /\ Rebuild!Key(m).order = m.order
  BY <1>2, <1>4, <1>6
<1>12. RebuildTypeOK'
  <2>1. IsFiniteSet(queue \cup new)
    BY <1>5, FS_Union DEF RebuildInv, RebuildTypeOK
  <2> QED
    BY <1>3, <1>8, <1>9, <1>11, <2>1 DEF RebuildInv, RebuildTypeOK
<1>13. CloverIsAhead'
  <2>1. \A m \in new : m.time <= edition[m.order]
    BY <1>1, <1>2, <1>11
  <2>2. \A m \in queue' \cup loaded' : m.time <= edition[m.order]
    BY <1>3, <2>1 DEF RebuildInv, CloverIsAhead
  <2> QED
    BY <1>3, <1>9, <2>2 DEF RebuildInv, CloverIsAhead, Rebuild!Idle
<1>14. RowPerKey'
  <2>1. \A m, r \in new : Rebuild!Key(m) = Rebuild!Key(r) => m = r
    BY <1>2, <1>4, <1>6
  <2>2. \A m, r \in queue' : Rebuild!Key(m) = Rebuild!Key(r) => m = r
    BY <1>3, <1>6, <2>1 DEF RebuildInv, RowPerKey
  <2> QED
    BY <2>2 DEF RowPerKey, Rebuild!Key
<1>15. (DeadAreTried /\ ImportsDoomed)'
  BY <1>3, <1>11 DEF RebuildInv, DeadAreTried, ImportsDoomed
<1>16. RebuildGoesOn'
  <2>1. \A m \in queue' : m.from = "import" /\ m.state = "processed" => rebuilt[m.order] >= m.time
    BY <1>3, <1>11 DEF RebuildInv, RebuildGoesOn, Rebuilding
  <2>2. \A m \in queue' : m.from = "import" => m.time <= mark'
    <3>1. \A m \in queue : m.time \in Nat
      BY DEF RebuildInv, RebuildTypeOK, InboxRows
    <3>2. \A m \in queue : m.from = "import" => m.time <= mark
      BY <1>3 DEF RebuildInv, RebuildGoesOn, Rebuilding
    <3>3. mark \in Nat
      BY DEF RebuildInv, RebuildTypeOK
    <3> QED
      BY <1>3, <1>9, <1>11, <3>1, <3>2, <3>3
  <2>3. ASSUME NEW o \in Orders, edition[o] <= mark'
        PROVE  \E m \in queue' : m.order = o /\ m.time = edition[o] /\ m.from = "import"
    <3>1. CASE edition[o] <= mark
      <4>1. \E m \in queue : m.order = o /\ m.time = edition[o] /\ m.from = "import"
        BY <1>3, <3>1 DEF RebuildInv, RebuildGoesOn, Rebuilding
      <4> QED
        BY <1>3, <4>1
    <3>2. CASE o \in L
      <4>1. PICK m \in queue' : Rebuild!Key(m) = Rebuild!Key(note(o))
        BY <1>3, <1>7, <3>2
      <4>2. m \in InboxRows
        BY <1>12 DEF RebuildTypeOK
      <4>3. m.order = o /\ m.time = edition[o] /\ m.from = "import"
        BY <1>4, <4>1, <4>2, KeyFacts
      <4> QED
        BY <4>3
    <3>3. CASE ~(edition[o] <= mark) /\ o \notin L
      <4>1. edition[o] \in Nat /\ mark \in Nat
        BY <1>1 DEF RebuildInv, RebuildTypeOK
      <4>2. edition[o] >= mark
        BY <3>3, <4>1
      <4>3. L = {}
        BY <1>10, <2>3, <3>3, <4>2
      <4>4. mark' = mark
        BY <1>3, <4>3
      <4> QED
        BY <2>3, <3>3, <4>4
    <3> QED
      BY <3>1, <3>2, <3>3
  <2> QED
    <3>1. edition' = edition /\ rebuilt' = rebuilt
      BY <1>3
    <3> QED
      BY <2>1, <2>2, <2>3, <3>1 DEF RebuildGoesOn
<1>17. CleanCycle'
  <2> SUFFICES ASSUME enqueued' = 0, NEW o \in Orders PROVE Covered(o)'
    BY <1>3 DEF CleanCycle
  <2>1. new = {}
    BY <1>3, <1>8
  <2>2. \A p \in L : \E m \in queue : Rebuild!Key(m) = Rebuild!Key(note(p))
    BY <1>7, <2>1
  <2>3. edition[o] <= mark
    BY <1>3, <2>2, NothingNewIsAll DEF L, note
  <2>4. PICK m \in queue : m.order = o /\ m.time = edition[o] /\ m.from = "import"
    BY <1>3, <2>3 DEF RebuildInv, RebuildGoesOn, Rebuilding
  <2>5. owed[o] <= edition[o] /\ m \in queue'
    BY <1>3 DEF RebuildInv, CloverIsAhead
  <2>6. owed[o] \in Nat
    BY DEF RebuildInv, RebuildTypeOK
  <2> QED
    BY <1>1, <1>3, <2>4, <2>5, <2>6 DEF Covered
<1> QED
  BY <1>12, <1>13, <1>14, <1>15, <1>16, <1>17 DEF RebuildInv

\* A drain that loads nothing has found nothing pending.
LEMMA LoadKeeps ==
  ASSUME RebuildInv, Rebuild!Load
  PROVE  RebuildInv'
<1> DEFINE pendingRows == {m \in queue : m.state = "pending"}
<1>1. PICK some \in SUBSET pendingRows :
        /\ Cardinality(some) = Batch \/ (some = pendingRows /\ Cardinality(some) < Batch)
        /\ loaded' = some /\ worked' = Cardinality(some)
  BY RebuildCounts DEF Rebuild!Load
<1>2. script = "load" /\ script' = "drain"
      /\ UNCHANGED <<edition, rebuilt, queue, mark, doomed, owed, enqueued, worker>>
  BY DEF Rebuild!Load
<1>3. IsFiniteSet(some)
  BY FS_Subset DEF RebuildInv, RebuildTypeOK
<1>4. Cardinality(some) \in Nat /\ (Cardinality(some) = 0 => some = {})
  BY <1>3, FS_CardinalityType, FS_EmptySet
<1>5. RebuildTypeOK'
  BY <1>1, <1>2, <1>4 DEF RebuildInv, RebuildTypeOK
<1>6. (CloverIsAhead /\ RowPerKey /\ DeadAreTried /\ ImportsDoomed /\ RebuildGoesOn)'
  BY <1>1, <1>2
     DEF RebuildInv, CloverIsAhead, RowPerKey, DeadAreTried, ImportsDoomed, RebuildGoesOn,
         Rebuilding, Rebuild!Key, Rebuild!Idle
<1>7. CleanCycle'
  <2> SUFFICES ASSUME enqueued' = 0, worked' = 0
               PROVE  loaded' = {} /\ \A o \in Orders : InStoreOrDead(o)'
    BY <1>2 DEF CleanCycle
  <2>1. some = {} /\ pendingRows = {}
    BY <1>1, <1>4, RebuildAssumption
  <2>2. ASSUME NEW o \in Orders PROVE InStoreOrDead(o)
    <3>1. PICK m \in queue : m.order = o /\ m.from = "import" /\ m.time >= owed[o]
      BY <1>2 DEF RebuildInv, CleanCycle, Covered
    <3>2. m.state \in {"processed", "dead"} /\ m.time \in Nat
      BY <2>1 DEF RebuildInv, RebuildTypeOK, InboxRows, RowStates
    <3>3. rebuilt[o] \in Nat /\ owed[o] \in Nat
      BY DEF RebuildInv, RebuildTypeOK
    <3>4. m.state = "processed" => rebuilt[o] >= m.time
      BY <1>2, <3>1 DEF RebuildInv, RebuildGoesOn, Rebuilding
    <3> QED
      BY <3>1, <3>2, <3>3, <3>4 DEF InStoreOrDead
  <2> QED
    BY <1>1, <1>2, <2>1, <2>2 DEF InStoreOrDead
<1> QED
  BY <1>5, <1>6, <1>7 DEF RebuildInv

LEMMA DrainKeeps ==
  ASSUME RebuildInv, NEW m \in loaded, Rebuild!Drain(m)
  PROVE  RebuildInv'
<1>1. m \in InboxRows /\ m.order \in Orders /\ m.time \in Nat /\ m.attempts \in Nat
      /\ m.time <= edition[m.order]
  BY DEF RebuildInv, RebuildTypeOK, CloverIsAhead, InboxRows
<1>2. Rebuild!Key(m) \in InboxKeys /\ Rebuild!Key(m).order = m.order /\ Rebuild!Key(m).time = m.time
  BY <1>1, KeyFacts
<1>3. \A o \in Orders : edition[o] \in Nat /\ rebuilt[o] \in Nat /\ rebuilt[o] <= edition[o]
  BY EditionFacts DEF RebuildInv, RebuildTypeOK, CloverIsAhead
<1>4. /\ script = "drain" /\ loaded # {} /\ loaded' \subseteq loaded
      /\ UNCHANGED <<edition, mark, script, doomed, owed, enqueued, worked, worker>>
  BY DEF Rebuild!Drain
<1>5. CASE /\ rebuilt' = [rebuilt EXCEPT ![m.order] = edition[m.order]]
           /\ queue' = Rebuild!Replace(Rebuild!Key(m), 0, "processed")
  <2>1. /\ rebuilt' \in [Orders -> Nat] /\ rebuilt'[m.order] >= m.time
        /\ \A o \in Orders : rebuilt[o] <= rebuilt'[o] /\ rebuilt'[o] <= edition[o]
    <3>1. rebuilt \in [Orders -> Nat]
      BY DEF RebuildInv, RebuildTypeOK
    <3> QED
      BY <1>1, <1>3, <1>5, <3>1
  <2> QED
    BY <1>2, <1>4, <1>5, <2>1, RowStepKeeps DEF RowStates
<1>6. CASE /\ queue' = Rebuild!Replace(Rebuild!Key(m), m.attempts + 1,
                                       Rebuild!AfterFailure(m.attempts + 1))
           /\ rebuilt' = rebuilt
  <2>1. /\ Rebuild!AfterFailure(m.attempts + 1) \in {"pending", "dead"}
        /\ Rebuild!AfterFailure(m.attempts + 1) = "dead" => m.attempts + 1 >= GiveUp
    BY <1>1, RebuildAssumption DEF Rebuild!AfterFailure
  <2>2. m.attempts + 1 \in Nat /\ rebuilt' \in [Orders -> Nat]
        /\ \A o \in Orders : rebuilt[o] <= rebuilt'[o] /\ rebuilt'[o] <= edition[o]
    BY <1>1, <1>3, <1>6 DEF RebuildInv, RebuildTypeOK
  <2> QED
    BY <1>2, <1>4, <1>6, <2>1, <2>2, RowStepKeeps DEF RowStates
<1> QED
  BY <1>5, <1>6 DEF Rebuild!Drain

\* A cycle ends with nothing left only if it was clean.
LEMMA EndCycleKeeps ==
  ASSUME RebuildInv, Rebuild!EndCycle \/ Rebuild!ScriptFails
  PROVE  RebuildInv'
<1>1. /\ UNCHANGED <<edition, rebuilt, queue, mark, doomed, owed, loaded, worker>>
      /\ script \in {"import", "load", "drain"}
      /\ script' \in {"failed", "done", "import"}
      /\ script' # "failed" => script = "drain"
      /\ script' = "done" => enqueued = 0 /\ worked = 0
      /\ enqueued' \in Nat /\ worked' \in Nat
  <2>1. CASE Rebuild!EndCycle
    <3>1. script' \in {"failed", "done", "import"} /\ (script' = "done" => Rebuild!Clean)
      BY <2>1 DEF Rebuild!EndCycle
    <3> QED
      BY <2>1, <3>1 DEF Rebuild!EndCycle, Rebuild!Clean
  <2>2. CASE Rebuild!ScriptFails
    BY <2>2 DEF Rebuild!ScriptFails, RebuildInv, RebuildTypeOK
  <2> QED
    BY <2>1, <2>2
<1>2. RebuildTypeOK'
  BY <1>1 DEF RebuildInv, RebuildTypeOK
<1>3. (CloverIsAhead /\ RowPerKey /\ DeadAreTried /\ ImportsDoomed)'
  BY <1>1
     DEF RebuildInv, CloverIsAhead, RowPerKey, DeadAreTried, ImportsDoomed, Rebuild!Key,
         Rebuild!Idle
<1>4. RebuildGoesOn'
  BY <1>1 DEF RebuildInv, RebuildGoesOn, Rebuilding
<1>5. CleanCycle'
  BY <1>1 DEF RebuildInv, CleanCycle, InStoreOrDead
<1> QED
  BY <1>2, <1>3, <1>4, <1>5 DEF RebuildInv

LEMMA InitRebuild == Rebuild!Init => RebuildInv
<1> SUFFICES ASSUME Rebuild!Init PROVE RebuildInv
  OBVIOUS
<1> DEFINE note(o) == Rebuild!Message(o, "import")
           Late == {p \in Orders : rebuilt[p] = 0}
<1>1. LastTime \in Nat /\ Orders \subseteq 1 .. LastTime
  BY RebuildAssumption
<1>2. /\ edition \in [Orders -> 1 .. LastTime] /\ \A o \in Orders : edition[o] = o /\ o \in Nat
      /\ queue = {note(o) : o \in Late} /\ mark = Rebuild!Clock
      /\ script = "deleteInbox" /\ doomed = Rebuild!NothingDoomed /\ worker = Rebuild!Idle
      /\ owed = [o \in Orders |-> 0] /\ enqueued = 0 /\ loaded = {} /\ worked = 0
  BY <1>1 DEF Rebuild!Init
<1>3. rebuilt \in [Orders -> Nat] /\ \A o \in Orders : rebuilt[o] <= edition[o]
  <2>1. rebuilt \in [Orders -> Orders \cup {0}] /\ \A o \in Orders : rebuilt[o] \in {0, o}
    BY DEF Rebuild!Init
  <2> QED
    BY <1>1, <1>2, <2>1
<1>4. \A o \in Orders :
        /\ note(o) \in InboxRows /\ note(o).order = o /\ note(o).time = edition[o]
        /\ note(o).state = "pending" /\ Rebuild!Key(note(o)).order = o
  BY <1>2, MessageFacts, KeyFacts DEF Sources
<1> HIDE DEF note
<1>5. IsFiniteSet(queue)
  <2> DEFINE f == [o \in Late |-> note(o)]
  <2>1. IsFiniteSet(Late) /\ DOMAIN f = Late /\ queue = {f[o] : o \in Late}
    BY <1>2, OrdersFinite
  <2> HIDE DEF f, Late
  <2> QED
    BY <2>1, ImageFinite
<1>6. mark \in Nat /\ \E o \in Orders : mark <= edition[o]
  <2>1. PICK o \in Orders : edition[o] = mark
    BY <1>2, ClockIsLast
  <2> QED
    BY <1>2, <2>1
<1>7. RebuildTypeOK
  BY <1>2, <1>3, <1>4, <1>5, <1>6 DEF RebuildTypeOK, Rebuild!NothingDoomed
<1>8. CloverIsAhead
  <2>1. \A o \in Orders : owed[o] <= edition[o]
    BY <1>2
  <2>2. \A m \in queue \cup loaded : m.time <= edition[m.order]
    BY <1>2, <1>4
  <2> QED
    BY <1>2, <1>3, <1>6, <2>1, <2>2 DEF CloverIsAhead
<1>9. RowPerKey /\ DeadAreTried
  BY <1>2, <1>4 DEF RowPerKey, DeadAreTried
<1>10. ImportsDoomed /\ RebuildGoesOn /\ CleanCycle
  BY <1>2 DEF ImportsDoomed, RebuildGoesOn, Rebuilding, CleanCycle
<1> QED
  BY <1>7, <1>8, <1>9, <1>10 DEF RebuildInv

LEMMA StepKeepsRebuild == RebuildInv /\ [Rebuild!Next]_(Rebuild!rebuildVars) => RebuildInv'
<1> SUFFICES ASSUME RebuildInv, [Rebuild!Next]_(Rebuild!rebuildVars)
             PROVE  RebuildInv'
  OBVIOUS
<1>1. CASE UNCHANGED Rebuild!rebuildVars
  BY <1>1, WorkerKeeps DEF Rebuild!rebuildVars, RebuildInv, RebuildTypeOK, CloverIsAhead
<1>2. CASE Rebuild!Next
  <2>1. CASE \E o \in Orders : Rebuild!Modify(o) \/ Rebuild!Notify(o)
    BY <2>1, ModifyKeeps, NotifyKeeps
  <2>2. CASE \/ \E m \in queue : Rebuild!Begin(m)
             \/ Rebuild!Write \/ Rebuild!MarkProcessed \/ Rebuild!SagaCommits
             \/ Rebuild!SagaFails
    BY <2>2, DeployedKeeps
  <2>3. CASE \/ Rebuild!DeleteInbox \/ Rebuild!DeleteOrders \/ Rebuild!CommitReset
             \/ Rebuild!ResetFails
    BY <2>3, ResetKeeps
  <2>4. CASE Rebuild!Import \/ Rebuild!Load \/ Rebuild!EndCycle \/ Rebuild!ScriptFails
    BY <2>4, ImportKeeps, LoadKeeps, EndCycleKeeps
  <2>5. CASE \E m \in loaded : Rebuild!Drain(m)
    BY <2>5, DrainKeeps
  <2> QED
    BY <1>2, <2>1, <2>2, <2>3, <2>4, <2>5 DEF Rebuild!Next
<1> QED
  BY <1>1, <1>2

LEMMA DoneIsComplete == RebuildInv => Rebuild!RebuildComplete
BY DEF RebuildInv, CleanCycle, InStoreOrDead, Rebuild!RebuildComplete

\* A script that ends well has rebuilt every order that Clover had at the reset, or left
\* it among the dead letters, for any orders, batch, page of at least two and number of
\* cycles (run-orders-backfill.ts: backfillOrders, resetOrderModel).
THEOREM RebuildIsComplete == Rebuild!Spec => []Rebuild!RebuildComplete
<1>1. Rebuild!Spec => []RebuildInv
  BY InitRebuild, StepKeepsRebuild, PTL DEF Rebuild!Spec
<1> QED
  BY <1>1, DoneIsComplete, PTL


-----------------------------------------------------------------------------
(* The vendor workspace of the admin portal.                                *)

ShownItems ==
  [content : Contents, linked : BOOLEAN, sync : Workspace!SyncStates] \cup {Null}
ShownVendors == [status : {"active", "inactive"}, items : [Slots -> ShownItems]]

WorkspaceTypeOK ==
  /\ path \in Workspace!Paths
  /\ roster \in [Workspace!Ids -> ShownVendors \cup {Null}]
  /\ draft \in Fresh \cup {Null}
  /\ rendered \in Workspace!Ids \cup {Null}
  /\ open \in BOOLEAN /\ due \in BOOLEAN /\ timer \in BOOLEAN /\ leaving \in BOOLEAN
  /\ settled \in [Workspace!Ids -> [Slots -> Contents \cup {Null}]]

\* The draft is the only vendor under a fresh id.
DraftIsListed == \A v \in Fresh : roster[v] # Null <=> v = draft

\* Off the workspace nothing is under way; on the roster, with the host's effect run and
\* its timer out, nothing is shown.
PanelIsClosed ==
  /\ path = Workspace!Away => rendered = Null /\ draft = Null /\ ~due /\ ~timer /\ ~leaving
  /\ path = Workspace!Roster /\ ~due /\ ~timer => rendered = Null /\ draft = Null

\* What the badge of an item says of what the item read when last synced.
ItemTells(item, last) ==
  /\ item = Null => last = Null
  /\ item # Null => /\ item.sync = "synced" => last = item.content
                    /\ item.sync = "new" => last = Null
                    /\ item.sync # "new" => item.linked

BadgesTell ==
  \A v \in Workspace!Ids : roster[v] # Null =>
    \A s \in Slots : ItemTells(roster[v].items[s], settled[v][s])

WorkspaceInv == WorkspaceTypeOK /\ DraftIsListed /\ PanelIsClosed /\ BadgesTell

LEMMA BlankIsTyped ==
  /\ Workspace!NoItems \in [Slots -> ShownItems]
  /\ Workspace!NoItems \in [Slots -> Contents \cup {Null}]
  /\ Workspace!BlankVendor \in ShownVendors
  /\ Workspace!BlankVendor # Null
  /\ Workspace!BlankVendor.items = Workspace!NoItems
  /\ \A s \in Slots : Workspace!NoItems[s] = Null
<1>1. Workspace!NoItems \in [Slots -> ShownItems] /\ Workspace!NoItems \in [Slots -> Contents \cup {Null}]
  BY DEF Workspace!NoItems, ShownItems
<1>2. Workspace!BlankVendor \in ShownVendors /\ Workspace!BlankVendor.items = Workspace!NoItems
  BY <1>1 DEF Workspace!BlankVendor, ShownVendors
<1>3. Workspace!BlankVendor # Null
  BY <1>2, WorkspaceAssumption DEF ShownVendors, ShownItems, Workspace!SyncStates
<1>4. \A s \in Slots : Workspace!NoItems[s] = Null
  BY DEF Workspace!NoItems
<1> QED
  BY <1>1, <1>2, <1>3, <1>4

LEMMA VendorsAreNoNull == Null \notin ShownVendors /\ Null \notin (ShownItems \ {Null})
BY WorkspaceAssumption DEF ShownVendors, ShownItems, Workspace!SyncStates

LEMMA FirstContent == (CHOOSE c \in Contents : TRUE) \in Contents
BY WorkspaceAssumption

\* A workspace mounted anew lists the stored vendors, each as Clover has it.
LEMMA MountedTells ==
  /\ Workspace!Mounted \in [Workspace!Ids -> ShownVendors \cup {Null}]
  /\ Workspace!AtMount \in [Workspace!Ids -> [Slots -> Contents \cup {Null}]]
  /\ \A v \in Fresh : Workspace!Mounted[v] = Null
  /\ \A v \in Workspace!Ids : Workspace!Mounted[v] # Null =>
       \A s \in Slots : ItemTells(Workspace!Mounted[v].items[s], Workspace!AtMount[v][s])
<1> DEFINE First == Workspace!Item(CHOOSE c \in Contents : TRUE, TRUE, "synced")
           AllFirst == [s \in Slots |-> First]
           Uncut == [status |-> "active", items |-> AllFirst]
<1>1. First \in ShownItems /\ First # Null /\ First.sync = "synced" /\ First.linked = TRUE
       /\ First.content = (CHOOSE c \in Contents : TRUE)
  <2>1. First \in [content : Contents, linked : BOOLEAN, sync : Workspace!SyncStates]
    BY FirstContent DEF Workspace!Item, Workspace!SyncStates
  <2> QED
    BY <2>1, WorkspaceAssumption DEF ShownItems, Workspace!Item, Workspace!SyncStates
<1>2. Uncut \in ShownVendors /\ Uncut.items = AllFirst
  BY <1>1 DEF ShownVendors
<1>3. \A v \in Workspace!Ids : Workspace!Mounted[v] = IF v \in Stored THEN Uncut ELSE Null
  BY DEF Workspace!Mounted
<1>4. Workspace!Mounted \in [Workspace!Ids -> ShownVendors \cup {Null}]
  BY <1>2 DEF Workspace!Mounted
<1>5. \A v \in Fresh : Workspace!Mounted[v] = Null
  BY <1>3, WorkspaceAssumption DEF Workspace!Ids
<1>6. \A v \in Stored : Workspace!Contains(Workspace!Mounted[v].items)
                          = [s \in Slots |-> CHOOSE c \in Contents : TRUE]
  <2> SUFFICES ASSUME NEW v \in Stored
               PROVE Workspace!Contains(Workspace!Mounted[v].items)
                       = [s \in Slots |-> CHOOSE c \in Contents : TRUE]
    OBVIOUS
  <2>1. Workspace!Mounted[v].items = AllFirst
    <3> HIDE DEF Whole
    <3> QED
      BY <1>2, <1>3 DEF Workspace!Ids
  <2> HIDE DEF First
  <2> QED
    BY <2>1, <1>1 DEF Workspace!Contains
<1>7. \A v \in Workspace!Ids : Workspace!AtMount[v]
        = IF v \in Stored THEN [s \in Slots |-> CHOOSE c \in Contents : TRUE] ELSE Workspace!NoItems
  BY <1>6 DEF Workspace!AtMount
<1>8. Workspace!AtMount \in [Workspace!Ids -> [Slots -> Contents \cup {Null}]]
  BY <1>7, BlankIsTyped, FirstContent DEF Workspace!AtMount
<1>9. \A v \in Workspace!Ids : Workspace!Mounted[v] # Null =>
        \A s \in Slots : ItemTells(Workspace!Mounted[v].items[s], Workspace!AtMount[v][s])
  <2> SUFFICES ASSUME NEW v \in Workspace!Ids, Workspace!Mounted[v] # Null, NEW s \in Slots
               PROVE ItemTells(Workspace!Mounted[v].items[s], Workspace!AtMount[v][s])
    OBVIOUS
  <2>1. v \in Stored
    BY <1>3
  <2>2. Workspace!Mounted[v].items = AllFirst /\ Workspace!AtMount[v][s] = CHOOSE c \in Contents : TRUE
    <3> HIDE DEF Whole, AllFirst
    <3> QED
      BY <1>2, <1>3, <1>7, <2>1
  <2> HIDE DEF First
  <2> QED
    BY <2>2, <1>1 DEF ItemTells
<1> QED
  BY <1>4, <1>5, <1>8, <1>9

LEMMA PlacesDiffer ==
  /\ Workspace!Away \in Workspace!Paths \ Workspace!Ids
  /\ Workspace!Roster \in Workspace!Paths \ Workspace!Ids
  /\ Workspace!New \in Workspace!Paths \ Workspace!Ids
  /\ Workspace!Away # Workspace!Roster /\ Workspace!Away # Workspace!New
  /\ Workspace!Roster # Workspace!New
  /\ Null \notin Workspace!Ids
BY WorkspaceAssumption
   DEF Workspace!Away, Workspace!Roster, Workspace!New, Workspace!Paths, Workspace!Ids

LEMMA InitWorkspace == Workspace!Init => WorkspaceInv
BY MountedTells, PlacesDiffer, WorkspaceAssumption
   DEF Workspace!Init, WorkspaceInv, WorkspaceTypeOK, DraftIsListed, PanelIsClosed, BadgesTell,
       Workspace!Ids

\* What is shown while the workspace is open is a vendor's id.
LEMMA RemountKeeps ==
  ASSUME NEW p \in Workspace!Paths, Workspace!Remount(p)
  PROVE  WorkspaceInv'
<1>1. /\ path' = p /\ roster' = Workspace!Mounted /\ draft' = Null
      /\ rendered' = (IF p \in Workspace!Ids THEN p ELSE Null)
      /\ open' = (p \in Workspace!Ids) /\ due' = (p # Workspace!Away)
      /\ timer' = FALSE /\ leaving' = FALSE /\ settled' = Workspace!AtMount
  BY DEF Workspace!Remount
<1>2. rendered' \in Workspace!Ids \cup {Null}
  BY <1>1
<1>3. open' \in BOOLEAN /\ due' \in BOOLEAN /\ timer' \in BOOLEAN /\ leaving' \in BOOLEAN
  <2>1. open' \in BOOLEAN
    <3>1. CASE p \in Workspace!Ids
      <4>1. open' = TRUE
        BY <1>1, <3>1, Zenon
      <4> QED
        BY <4>1
    <3>2. CASE p \notin Workspace!Ids
      <4>1. (p \in Workspace!Ids) = FALSE
        BY <3>2
      <4>2. open' = (p \in Workspace!Ids)
        BY <1>1
      <4>3. open' = FALSE
        BY <4>1, <4>2
      <4> QED
        BY <4>3
    <3> QED
      BY <3>1, <3>2
  <2>2. due' \in BOOLEAN
    BY <1>1, Zenon
  <2> QED
    BY <1>1, <2>1, <2>2
<1>4. WorkspaceTypeOK'
  BY <1>1, <1>2, <1>3, MountedTells DEF WorkspaceTypeOK
<1>5. DraftIsListed'
  BY <1>1, MountedTells, PlacesDiffer DEF DraftIsListed, Workspace!Ids
<1>6. PanelIsClosed'
  BY <1>1, PlacesDiffer DEF PanelIsClosed
<1>7. BadgesTell'
  BY <1>1, MountedTells DEF BadgesTell, ItemTells
<1> QED
  BY <1>4, <1>5, <1>6, <1>7 DEF WorkspaceInv

\* A draft that is made or kept is the one that is listed.
LEMMA EnsureDraftKeeps ==
  ASSUME WorkspaceInv, NEW d \in Fresh, Workspace!EnsureDraft(d)
  PROVE  /\ draft' = d
         /\ roster' \in [Workspace!Ids -> ShownVendors \cup {Null}]
         /\ settled' \in [Workspace!Ids -> [Slots -> Contents \cup {Null}]]
         /\ \A v \in Fresh : roster'[v] # Null <=> v = d
         /\ BadgesTell'
<1> USE DEF WorkspaceInv, WorkspaceTypeOK
<1>1. d \in Workspace!Ids /\ d # Null
  BY PlacesDiffer DEF Workspace!Ids
<1>2. CASE draft # Null
  BY <1>2 DEF Workspace!EnsureDraft, DraftIsListed, BadgesTell
<1>3. CASE draft = Null
  <2>1. /\ draft' = d
        /\ roster' = [roster EXCEPT ![d] = Workspace!BlankVendor]
        /\ settled' = [settled EXCEPT ![d] = Workspace!NoItems]
    BY <1>3 DEF Workspace!EnsureDraft
  <2>2. \A v \in Workspace!Ids :
          /\ v = d => roster'[v] = Workspace!BlankVendor /\ settled'[v] = Workspace!NoItems
          /\ v # d => roster'[v] = roster[v] /\ settled'[v] = settled[v]
    BY <2>1
  <2>3. \A v \in Fresh : roster[v] = Null
    BY <1>3, PlacesDiffer DEF DraftIsListed, Workspace!Ids
  <2>4. \A v \in Fresh : roster'[v] # Null <=> v = d
    BY <2>2, <2>3, BlankIsTyped DEF Workspace!Ids
  <2>5. BadgesTell'
    <3> SUFFICES ASSUME NEW v \in Workspace!Ids, roster'[v] # Null, NEW s \in Slots
                 PROVE ItemTells(roster'[v].items[s], settled'[v][s])
      BY DEF BadgesTell, ItemTells
    <3>1. CASE v = d
      BY <3>1, <2>2, BlankIsTyped DEF ItemTells
    <3>2. CASE v # d
      BY <3>2, <2>2 DEF BadgesTell
    <3> QED
      BY <3>1, <3>2
  <2> QED
    BY <2>1, <2>4, <2>5, BlankIsTyped
<1> QED
  BY <1>2, <1>3

LEMMA TimerKeeps ==
  ASSUME WorkspaceInv, Workspace!TimerFires
  PROVE  WorkspaceInv'
<1> USE DEF WorkspaceInv, WorkspaceTypeOK
<1>1. /\ timer' = FALSE /\ rendered' = Null /\ draft' = Null
      /\ UNCHANGED <<path, open, due, leaving>>
      /\ path # Workspace!Away
  BY DEF Workspace!TimerFires, PanelIsClosed
<1>2. roster' \in [Workspace!Ids -> ShownVendors \cup {Null}]
      /\ settled' \in [Workspace!Ids -> [Slots -> Contents \cup {Null}]]
  BY BlankIsTyped DEF Workspace!TimerFires
<1>3. \A v \in Workspace!Ids : \/ roster'[v] = Null
                               \/ roster'[v] = roster[v] /\ settled'[v] = settled[v]
  BY DEF Workspace!TimerFires
<1>4. \A v \in Fresh : roster'[v] = Null
  BY PlacesDiffer DEF Workspace!TimerFires, DraftIsListed, Workspace!Ids
<1>5. DraftIsListed'
  BY <1>1, <1>4, PlacesDiffer DEF DraftIsListed, Workspace!Ids
<1>6. BadgesTell'
  BY <1>3 DEF BadgesTell, ItemTells
<1>7. PanelIsClosed'
  BY <1>1 DEF PanelIsClosed
<1> QED
  BY <1>1, <1>2, <1>5, <1>6, <1>7

\* An edit of one item of the vendor that is shown.
LEMMA SlotKeeps ==
  ASSUME WorkspaceInv, Workspace!Editable, NEW s \in Slots, NEW item \in ShownItems,
         ItemTells(item, settled[rendered][s]), Workspace!SetSlot(s, item)
  PROVE  WorkspaceInv'
<1> USE DEF WorkspaceInv, WorkspaceTypeOK
<1>1. rendered \in Workspace!Ids /\ roster[rendered] \in ShownVendors /\ roster[rendered] # Null
  BY DEF Workspace!Editable, Workspace!Shows
<1> DEFINE items == [roster[rendered].items EXCEPT ![s] = item]
           edited == [roster[rendered] EXCEPT !["items"] = items]
<1>2. roster' = [roster EXCEPT ![rendered] = edited]
      /\ UNCHANGED <<path, draft, rendered, open, due, timer, leaving, settled>>
  BY DEF Workspace!SetSlot, Workspace!OnChange, Workspace!DraftItems
<1>3. items \in [Slots -> ShownItems]
  BY <1>1 DEF ShownVendors
<1>4. edited \in ShownVendors /\ edited.items = items
  BY <1>1, <1>3 DEF ShownVendors
<1>5. \A v \in Workspace!Ids :
        /\ v # rendered => roster'[v] = roster[v]
        /\ v = rendered => roster'[v] = edited
        /\ roster'[v] # Null <=> roster[v] # Null
        /\ settled'[v] = settled[v]
  <2>1. edited # Null
    BY <1>4, VendorsAreNoNull
  <2> HIDE DEF edited
  <2> QED
    BY <1>1, <1>2, <2>1
<1>6. roster' \in [Workspace!Ids -> ShownVendors \cup {Null}]
  <2> HIDE DEF edited
  <2> QED
    BY <1>2, <1>4
<1>7. \A t \in Slots : items[t] = IF t = s THEN item ELSE roster[rendered].items[t]
  BY <1>1 DEF ShownVendors
<1>8. BadgesTell'
  <2> SUFFICES ASSUME NEW v \in Workspace!Ids, roster'[v] # Null, NEW t \in Slots
               PROVE ItemTells(roster'[v].items[t], settled'[v][t])
    BY DEF BadgesTell, ItemTells
  <2>1. CASE v # rendered
    BY <1>5, <2>1 DEF BadgesTell
  <2>2. CASE v = rendered
    <3>1. roster'[v].items = items /\ settled'[v] = settled[rendered]
      <4> HIDE DEF edited, items
      <4> QED
        BY <1>4, <1>5, <2>2
    <3>2. t # s => ItemTells(roster[rendered].items[t], settled[rendered][t])
      BY <1>1 DEF BadgesTell
    <3> HIDE DEF items
    <3> QED
      BY <1>7, <3>1, <3>2
  <2> QED
    BY <2>1, <2>2
<1>9. DraftIsListed'
  BY <1>2, <1>5 DEF DraftIsListed, Workspace!Ids
<1> QED
  BY <1>2, <1>6, <1>8, <1>9 DEF PanelIsClosed

LEMMA DraftItemFacts ==
  ASSUME WorkspaceInv, Workspace!Editable, NEW s \in Slots
  PROVE  /\ rendered \in Workspace!Ids
         /\ Workspace!DraftItems \in [Slots -> ShownItems]
         /\ settled[rendered][s] \in Contents \cup {Null}
         /\ ItemTells(Workspace!DraftItems[s], settled[rendered][s])
         /\ Workspace!DraftItems[s] # Null =>
              Workspace!DraftItems[s] \in [content : Contents, linked : BOOLEAN,
                                           sync : Workspace!SyncStates]
<1> USE DEF WorkspaceInv, WorkspaceTypeOK
<1>1. rendered \in Workspace!Ids /\ roster[rendered] \in ShownVendors /\ roster[rendered] # Null
  BY DEF Workspace!Editable, Workspace!Shows
<1>2. Workspace!DraftItems \in [Slots -> ShownItems]
  BY <1>1 DEF Workspace!DraftItems, ShownVendors
<1>3. ItemTells(Workspace!DraftItems[s], settled[rendered][s])
  BY <1>1 DEF BadgesTell, Workspace!DraftItems
<1>4. settled[rendered][s] \in Contents \cup {Null}
  BY <1>1
<1> QED
  BY <1>1, <1>2, <1>3, <1>4 DEF ShownItems

LEMMA SetItemKeeps ==
  ASSUME WorkspaceInv, NEW s \in Slots, NEW c \in Contents, Workspace!SetItem(s, c)
  PROVE  WorkspaceInv'
<1>1. Workspace!Editable /\ Workspace!DraftItems[s] # Null
  BY DEF Workspace!SetItem
<1> DEFINE old == Workspace!DraftItems[s]
           item == Workspace!Item(c, old.linked, Workspace!Edited(old.sync))
<1>2. /\ old \in [content : Contents, linked : BOOLEAN, sync : Workspace!SyncStates]
      /\ ItemTells(old, settled[rendered][s])
      /\ old # Null /\ old.sync # "removed"
      /\ Workspace!SetSlot(s, item)
  BY <1>1, DraftItemFacts DEF Workspace!SetItem
<1> HIDE DEF old
<1>3. item \in [content : Contents, linked : BOOLEAN, sync : Workspace!SyncStates]
  BY <1>2 DEF Workspace!Item, Workspace!Edited, Workspace!SyncStates
<1>4. item \in ShownItems
  BY <1>3 DEF ShownItems
<1>5. ItemTells(item, settled[rendered][s])
  <2>1. item # Null
    BY <1>3, WorkspaceAssumption DEF Workspace!SyncStates
  <2> QED
    BY <1>2, <2>1 DEF ItemTells, Workspace!Item, Workspace!Edited, Workspace!SyncStates
<1> HIDE DEF item
<1> QED
  BY <1>1, <1>2, <1>4, <1>5, SlotKeeps

LEMMA AddItemKeeps ==
  ASSUME WorkspaceInv, NEW s \in Slots, Workspace!AddItem(s)
  PROVE  WorkspaceInv'
<1> DEFINE item == Workspace!Item(CHOOSE c \in Contents : TRUE, FALSE, "new")
<1>1. Workspace!Editable /\ Workspace!DraftItems[s] = Null /\ Workspace!SetSlot(s, item)
  BY DEF Workspace!AddItem
<1>2. ItemTells(Null, settled[rendered][s])
  BY <1>1, DraftItemFacts
<1>3. item \in [content : Contents, linked : BOOLEAN, sync : Workspace!SyncStates]
  BY FirstContent DEF Workspace!Item, Workspace!SyncStates
<1>4. item \in ShownItems /\ item # Null
  BY <1>3, WorkspaceAssumption DEF ShownItems, Workspace!SyncStates
<1>5. ItemTells(item, settled[rendered][s])
  BY <1>2, <1>4 DEF ItemTells, Workspace!Item
<1> HIDE DEF item
<1> QED
  BY <1>1, <1>4, <1>5, SlotKeeps

\* A new item that is removed leaves what there was when last synced: nothing.
LEMMA RemoveItemKeeps ==
  ASSUME WorkspaceInv, NEW s \in Slots, Workspace!RemoveItem(s)
  PROVE  WorkspaceInv'
<1>1. Workspace!Editable /\ Workspace!DraftItems[s] # Null
  BY DEF Workspace!RemoveItem
<1> DEFINE old == Workspace!DraftItems[s]
           item == IF old.sync = "new" THEN Null ELSE [old EXCEPT !.sync = "removed"]
<1>2. /\ old \in [content : Contents, linked : BOOLEAN, sync : Workspace!SyncStates]
      /\ ItemTells(old, settled[rendered][s])
      /\ old # Null
      /\ Workspace!SetSlot(s, item)
  BY <1>1, DraftItemFacts DEF Workspace!RemoveItem
<1> HIDE DEF old
<1>3. item \in [content : Contents, linked : BOOLEAN, sync : Workspace!SyncStates] \cup {Null}
  BY <1>2 DEF Workspace!SyncStates
<1>4. item \in ShownItems
  BY <1>3 DEF ShownItems
<1>5. ItemTells(item, settled[rendered][s])
  <2>1. CASE old.sync = "new"
    BY <1>2, <2>1 DEF ItemTells
  <2>2. CASE old.sync # "new"
    <3>1. item = [old EXCEPT !.sync = "removed"]
      BY <2>2
    <3>2. item.sync = "removed" /\ item.linked = old.linked
      BY <1>2, <3>1
    <3>3. item # Null
      <4>1. item \in [content : Contents, linked : BOOLEAN, sync : Workspace!SyncStates]
        BY <1>2, <3>1 DEF Workspace!SyncStates
      <4> QED
        BY <4>1, WorkspaceAssumption DEF Workspace!SyncStates
    <3> HIDE DEF item
    <3> QED
      BY <1>2, <2>2, <3>2, <3>3 DEF ItemTells
  <2> QED
    BY <2>1, <2>2
<1> HIDE DEF item
<1> QED
  BY <1>1, <1>2, <1>4, <1>5, SlotKeeps

LEMMA RestoreItemKeeps ==
  ASSUME WorkspaceInv, NEW s \in Slots, Workspace!RestoreItem(s)
  PROVE  WorkspaceInv'
<1>1. Workspace!Editable /\ Workspace!DraftItems[s] # Null
  BY DEF Workspace!RestoreItem
<1> DEFINE old == Workspace!DraftItems[s]
           item == [old EXCEPT !.sync = IF old.linked THEN "edited" ELSE "new"]
<1>2. /\ old \in [content : Contents, linked : BOOLEAN, sync : Workspace!SyncStates]
      /\ ItemTells(old, settled[rendered][s])
      /\ old # Null /\ old.sync = "removed"
      /\ Workspace!SetSlot(s, item)
  BY <1>1, DraftItemFacts DEF Workspace!RestoreItem
<1> HIDE DEF old
<1>3. item \in [content : Contents, linked : BOOLEAN, sync : Workspace!SyncStates]
  BY <1>2 DEF Workspace!SyncStates
<1>4. item \in ShownItems /\ item # Null
  BY <1>3, WorkspaceAssumption DEF ShownItems, Workspace!SyncStates
<1>5. old.linked = TRUE
  BY <1>2 DEF ItemTells
<1>6. item.sync = "edited" /\ item.linked = old.linked
  BY <1>2, <1>5
<1> HIDE DEF item
<1>7. ItemTells(item, settled[rendered][s])
  BY <1>4, <1>5, <1>6 DEF ItemTells
<1> QED
  BY <1>1, <1>2, <1>4, <1>7, SlotKeeps

\* Syncing a list leaves it as Clover's.
LEMMA SyncKeeps ==
  ASSUME WorkspaceInv, Workspace!SyncToClover
  PROVE  WorkspaceInv'
<1> USE DEF WorkspaceInv, WorkspaceTypeOK
<1> DEFINE Live(s) == Workspace!DraftItems[s] # Null /\ Workspace!DraftItems[s].sync # "removed"
           Fixed(s) == Workspace!Item(Workspace!DraftItems[s].content, TRUE, "synced")
           kept == [s \in Slots |->
                      IF Workspace!DraftItems[s] = Null \/ Workspace!DraftItems[s].sync = "removed"
                        THEN Null
                      ELSE Workspace!Item(Workspace!DraftItems[s].content, TRUE, "synced")]
           last == Workspace!Contains(kept)
           edited == [roster[rendered] EXCEPT !["items"] = kept]
<1>1. rendered \in Workspace!Ids /\ roster[rendered] \in ShownVendors /\ roster[rendered] # Null
  BY DEF Workspace!SyncToClover, Workspace!Editable, Workspace!Shows
<1>2. /\ roster' = [roster EXCEPT ![rendered] = edited]
      /\ settled' = [settled EXCEPT ![rendered] = last]
      /\ UNCHANGED <<path, draft, rendered, open, due, timer, leaving>>
  BY DEF Workspace!SyncToClover, Workspace!OnChange
<1>3. \A s \in Slots : Live(s) =>
        /\ Fixed(s) \in [content : Contents, linked : BOOLEAN, sync : Workspace!SyncStates]
        /\ Fixed(s) # Null /\ Fixed(s).sync = "synced" /\ Fixed(s).linked = TRUE
  <2> SUFFICES ASSUME NEW s \in Slots, Live(s)
               PROVE /\ Fixed(s) \in [content : Contents, linked : BOOLEAN,
                                      sync : Workspace!SyncStates]
                     /\ Fixed(s) # Null /\ Fixed(s).sync = "synced" /\ Fixed(s).linked = TRUE
    OBVIOUS
  <2>1. Workspace!DraftItems[s].content \in Contents
    BY DraftItemFacts DEF Workspace!SyncToClover
  <2>2. Fixed(s) \in [content : Contents, linked : BOOLEAN, sync : Workspace!SyncStates]
    BY <2>1 DEF Workspace!Item, Workspace!SyncStates
  <2>3. Fixed(s) # Null
    BY <2>2, WorkspaceAssumption DEF Workspace!SyncStates
  <2> QED
    BY <2>2, <2>3 DEF Workspace!Item
<1>4. \A s \in Slots : kept[s] = IF Live(s) THEN Fixed(s) ELSE Null
  OBVIOUS
<1> HIDE DEF Live, Fixed
<1>5. kept \in [Slots -> ShownItems]
  <2>1. \A s \in Slots : kept[s] \in ShownItems
    BY <1>3, <1>4 DEF ShownItems
  <2> QED
    BY <2>1
<1>6. \A s \in Slots : last[s] = IF kept[s] = Null THEN Null ELSE kept[s].content
  BY DEF Workspace!Contains
<1> HIDE DEF kept
<1>7. last \in [Slots -> Contents \cup {Null}]
  BY <1>5, <1>6 DEF Workspace!Contains, ShownItems
<1>8. \A s \in Slots : ItemTells(kept[s], last[s])
  BY <1>3, <1>4, <1>6 DEF ItemTells
<1> HIDE DEF last
<1>9. edited \in ShownVendors /\ edited.items = kept /\ edited # Null
  <2>1. edited \in ShownVendors /\ edited.items = kept
    BY <1>1, <1>5 DEF ShownVendors
  <2> QED
    BY <2>1, VendorsAreNoNull
<1> HIDE DEF edited
<1>10. \A v \in Workspace!Ids :
         /\ v # rendered => roster'[v] = roster[v] /\ settled'[v] = settled[v]
         /\ v = rendered => roster'[v] = edited /\ settled'[v] = last
         /\ roster'[v] # Null <=> roster[v] # Null
  BY <1>1, <1>2, <1>9
<1>11. BadgesTell'
  <2> SUFFICES ASSUME NEW v \in Workspace!Ids, roster'[v] # Null, NEW t \in Slots
               PROVE ItemTells(roster'[v].items[t], settled'[v][t])
    BY DEF BadgesTell, ItemTells
  <2>1. CASE v # rendered
    BY <1>10, <2>1 DEF BadgesTell
  <2>2. CASE v = rendered
    BY <1>8, <1>9, <1>10, <2>2
  <2> QED
    BY <2>1, <2>2
<1>12. DraftIsListed'
  BY <1>2, <1>10 DEF DraftIsListed, Workspace!Ids
<1>13. PanelIsClosed'
  BY <1>2 DEF PanelIsClosed
<1> QED
  BY <1>2, <1>7, <1>9, <1>11, <1>12, <1>13

LEMMA ToggleKeeps ==
  ASSUME WorkspaceInv, NEW v \in Workspace!Ids, Workspace!ToggleStatus(v)
  PROVE  WorkspaceInv'
<1> USE DEF WorkspaceInv, WorkspaceTypeOK
<1> DEFINE turned == [roster[v] EXCEPT !.status = Workspace!Flip(roster[v].status)]
<1>1. roster[v] \in ShownVendors /\ roster[v] # Null
  BY DEF Workspace!ToggleStatus
<1>2. roster' = [roster EXCEPT ![v] = turned]
      /\ UNCHANGED <<path, draft, rendered, open, due, timer, leaving, settled>>
  BY DEF Workspace!ToggleStatus
<1>3. turned \in ShownVendors /\ turned.items = roster[v].items
  BY <1>1 DEF ShownVendors, Workspace!Flip
<1>4. turned # Null
  BY <1>3, VendorsAreNoNull
<1> HIDE DEF turned
<1>5. \A u \in Workspace!Ids :
         /\ roster'[u] # Null <=> roster[u] # Null
         /\ roster'[u] # Null => roster'[u].items = roster[u].items
  BY <1>1, <1>2, <1>3, <1>4
<1>6. BadgesTell'
  BY <1>2, <1>5 DEF BadgesTell, ItemTells
<1>7. DraftIsListed'
  BY <1>2, <1>5 DEF DraftIsListed, Workspace!Ids
<1>8. PanelIsClosed'
  BY <1>2 DEF PanelIsClosed
<1> QED
  BY <1>2, <1>3, <1>6, <1>7, <1>8

LEMMA StepKeepsWorkspace ==
  WorkspaceInv /\ [Workspace!Next]_(Workspace!workspaceVars) => WorkspaceInv'
<1> SUFFICES ASSUME WorkspaceInv, [Workspace!Next]_(Workspace!workspaceVars)
             PROVE  WorkspaceInv'
  OBVIOUS
<1> USE DEF WorkspaceInv, WorkspaceTypeOK
<1>1. ASSUME NEW p \in Workspace!Paths, Workspace!Navigate(p)
      PROVE  WorkspaceInv'
  BY <1>1 DEF Workspace!Navigate, DraftIsListed, PanelIsClosed, BadgesTell, ItemTells
<1>2. ASSUME NEW p \in Workspace!Paths, Workspace!Enter(p)
      PROVE  WorkspaceInv'
  <2>1. Workspace!Remount(p)
    BY <1>2 DEF Workspace!Enter
  <2> QED
    BY <2>1, RemountKeeps
<1>3. ASSUME NEW d \in Fresh, Workspace!EnterNew(d)
      PROVE  WorkspaceInv'
  <2>1. /\ Workspace!EnsureDraft(d) /\ path = Workspace!New /\ path' = path
        /\ rendered' = d /\ open' = TRUE /\ due' = FALSE /\ timer' = FALSE
        /\ leaving' = leaving
    BY <1>3 DEF Workspace!EnterNew
  <2>2. /\ draft' = d
        /\ roster' \in [Workspace!Ids -> ShownVendors \cup {Null}]
        /\ settled' \in [Workspace!Ids -> [Slots -> Contents \cup {Null}]]
        /\ \A v \in Fresh : roster'[v] # Null <=> v = d
        /\ BadgesTell'
    BY <2>1, EnsureDraftKeeps
  <2>3. DraftIsListed'
    BY <2>2 DEF DraftIsListed
  <2>4. PanelIsClosed'
    BY <2>1, PlacesDiffer DEF PanelIsClosed
  <2>5. d \in Workspace!Ids
    BY DEF Workspace!Ids
  <2> QED
    BY <2>1, <2>2, <2>3, <2>4, <2>5
<1>4. CASE Workspace!Exit
  <2>1. Workspace!Remount(Workspace!Away)
    BY <1>4 DEF Workspace!Exit
  <2> QED
    BY <2>1, RemountKeeps, PlacesDiffer
<1>5. CASE Workspace!EnterEdit
  BY <1>5, PlacesDiffer
     DEF Workspace!EnterEdit, DraftIsListed, PanelIsClosed, BadgesTell, ItemTells
<1>6. CASE Workspace!EnterRoster
  BY <1>6, PlacesDiffer
     DEF Workspace!EnterRoster, DraftIsListed, PanelIsClosed, BadgesTell, ItemTells
<1>7. CASE Workspace!TimerFires
  BY <1>7, TimerKeeps
<1>8. CASE Workspace!AskRedirect
  BY <1>8 DEF Workspace!AskRedirect, Workspace!Shows, DraftIsListed, PanelIsClosed, BadgesTell,
              ItemTells
<1>9. CASE Workspace!Redirect
  <2>1. /\ leaving' = FALSE /\ path' = Workspace!Roster
        /\ due' = (path # Workspace!Roster)
        /\ UNCHANGED <<roster, draft, rendered, open, timer, settled>>
        /\ path # Workspace!Away /\ ~due
    BY <1>9 DEF Workspace!Redirect, PanelIsClosed
  <2>2. PanelIsClosed'
    BY <2>1, PlacesDiffer DEF PanelIsClosed
  <2>3. due' \in BOOLEAN
    BY <2>1, Zenon
  <2> QED
    BY <2>1, <2>2, <2>3, PlacesDiffer DEF DraftIsListed, BadgesTell, ItemTells
<1>10. CASE Workspace!SyncToClover
  BY <1>10, SyncKeeps
<1>11. ASSUME NEW v \in Workspace!Ids, Workspace!ToggleStatus(v)
       PROVE  WorkspaceInv'
  BY <1>11, ToggleKeeps
<1>12. ASSUME NEW s \in Slots, \/ Workspace!AddItem(s)
                               \/ Workspace!RemoveItem(s)
                               \/ Workspace!RestoreItem(s)
       PROVE  WorkspaceInv'
  BY <1>12, AddItemKeeps, RemoveItemKeeps, RestoreItemKeeps
<1>13. ASSUME NEW s \in Slots, NEW c \in Contents, Workspace!SetItem(s, c)
       PROVE  WorkspaceInv'
  BY <1>13, SetItemKeeps
<1>14. CASE UNCHANGED Workspace!workspaceVars
  BY <1>14 DEF Workspace!workspaceVars, DraftIsListed, PanelIsClosed, BadgesTell, ItemTells
<1> QED
  BY <1>1, <1>2, <1>3, <1>4, <1>5, <1>6, <1>7, <1>8, <1>9, <1>10, <1>11, <1>12, <1>13, <1>14
     DEF Workspace!Next

LEMMA NothingLingers == WorkspaceInv => Workspace!DraftNeverLingers
<1> SUFFICES ASSUME WorkspaceInv PROVE Workspace!DraftNeverLingers
  OBVIOUS
<1> USE DEF WorkspaceInv, WorkspaceTypeOK
<1> DEFINE drafts == {v \in Fresh : roster[v] # Null}
<1>1. path = Workspace!Roster /\ ~due /\ ~timer =>
        rendered = Null /\ \A v \in Fresh : roster[v] = Null
  BY PlacesDiffer DEF PanelIsClosed, DraftIsListed, Workspace!Ids
<1>2. Workspace!Cardinality(drafts) <= 1
  <2>1. \A S : Workspace!Cardinality(S) = Cardinality(S)
    BY DEF Workspace!Cardinality, Cardinality
  <2>2. drafts = {} \/ drafts = {draft}
    BY DEF DraftIsListed
  <2> HIDE DEF drafts
  <2>3. Cardinality(drafts) <= 1
    <3>1. CASE drafts = {}
      <4>1. Cardinality({}) = 0
        BY FS_EmptySet
      <4> QED
        BY <3>1, <4>1
    <3>2. CASE drafts = {draft}
      <4>1. Cardinality({draft}) = 1
        BY FS_Singleton
      <4> QED
        BY <3>2, <4>1
    <3> QED
      BY <2>2, <3>1, <3>2
  <2> QED
    BY <2>1, <2>3
<1> QED
  BY <1>1, <1>2 DEF Workspace!DraftNeverLingers

LEMMA NothingHides == WorkspaceInv => Workspace!BadgeHidesNothing
<1> SUFFICES ASSUME WorkspaceInv, NEW v \in Workspace!Ids, roster[v] # Null,
                    Workspace!ListRow(v).unsynced = 0
             PROVE  /\ Workspace!Contains(roster[v].items) = settled[v]
                    /\ Workspace!ListRow(v).items
                         = Workspace!Cardinality({s \in Slots : settled[v][s] # Null})
  BY DEF Workspace!BadgeHidesNothing
<1> USE DEF WorkspaceInv, WorkspaceTypeOK
<1>1. roster[v] \in ShownVendors /\ settled[v] \in [Slots -> Contents \cup {Null}]
  OBVIOUS
<1>2. Workspace!Unsynced(v) = {}
  <2>1. Workspace!Cardinality(Workspace!Unsynced(v)) = Cardinality(Workspace!Unsynced(v))
    BY DEF Workspace!Cardinality, Cardinality
  <2>2. IsFiniteSet(Workspace!Unsynced(v))
    <3>1. Workspace!Unsynced(v) \subseteq Slots
      BY DEF Workspace!Unsynced
    <3> QED
      BY <3>1, WorkspaceAssumption, FS_Subset
  <2>3. Cardinality(Workspace!Unsynced(v)) = 0
    BY <2>1 DEF Workspace!ListRow
  <2> QED
    BY <2>2, <2>3, FS_EmptySet
<1>3. \A s \in Slots : settled[v][s] = IF roster[v].items[s] = Null THEN Null
                                       ELSE roster[v].items[s].content
  BY <1>2 DEF Workspace!Unsynced, BadgesTell, ItemTells
<1>4. \A s \in Slots : roster[v].items[s] # Null =>
        roster[v].items[s].sync = "synced" /\ settled[v][s] # Null
  <2> SUFFICES ASSUME NEW s \in Slots, roster[v].items[s] # Null
               PROVE  roster[v].items[s].sync = "synced" /\ settled[v][s] # Null
    OBVIOUS
  <2>1. roster[v].items[s] \in [content : Contents, linked : BOOLEAN, sync : Workspace!SyncStates]
    BY <1>1 DEF ShownVendors, ShownItems
  <2> QED
    BY <1>2, <1>3, <2>1, WorkspaceAssumption DEF Workspace!Unsynced
<1>5. Workspace!Contains(roster[v].items) = settled[v]
  BY <1>1, <1>3 DEF Workspace!Contains
<1>6. {s \in Slots : roster[v].items[s] # Null /\ roster[v].items[s].sync # "removed"}
        = {s \in Slots : settled[v][s] # Null}
  BY <1>3, <1>4
<1> QED
  BY <1>5, <1>6 DEF Workspace!ListRow

\* The workspace of the admin portal tells the truth: back on the roster there is neither
\* panel nor draft, and a vendor whose row shows nothing unsynced reads as it was last
\* synced (vendor-panel-host.tsx, vendor-slide-over.tsx).
THEOREM WorkspaceIsTrue == Workspace!Spec => []Workspace!WorkspaceTellsTruth
<1>1. WorkspaceInv => Workspace!WorkspaceTellsTruth
  BY NothingLingers, NothingHides DEF Workspace!WorkspaceTellsTruth
<1> QED
  BY <1>1, InitWorkspace, StepKeepsWorkspace, PTL DEF Workspace!Spec

-----------------------------------------------------------------------------
(* The form of the marketing site.                                          *)

LEMMA AnswerKeepsApplication ==
  ASSUME Apply!ApplicationKept, Apply!Next
  PROVE  Apply!ApplicationKept'
<1> DEFINE mail == [fields |-> pending.fields, labels |-> pending.labels]
<1>1. CASE UNCHANGED <<shown, told, mailbox>>
  BY <1>1 DEF Apply!ApplicationKept
<1>2. CASE Apply!Screened
  <2>1. shown' = Apply!Success /\ told' = pending /\ mailbox' = mailbox /\ pending.trap
    BY <1>2 DEF Apply!Screened, Apply!Answer
  <2> QED
    BY <2>1 DEF Apply!ApplicationKept, Apply!Success
<1>3. CASE Apply!Invalid
  <2>1. shown' = Apply!Error(Apply!FieldErrors(pending), pending) /\ told' = pending
        /\ mailbox' = mailbox
    BY <1>3 DEF Apply!Invalid, Apply!Answer
  <2> QED
    BY <2>1 DEF Apply!ApplicationKept, Apply!Error
<1>4. Apply!Sendable => \A f \in Required : mail.fields[f] = "good"
  BY DEF Apply!Sendable, Apply!FieldErrors
<1>5. CASE Apply!Sent
  <2>1. shown' = Apply!Success /\ told' = pending /\ mailbox' = mailbox \cup {mail}
        /\ Apply!Sendable
    BY <1>5 DEF Apply!Sent, Apply!Take, Apply!Answer
  <2> QED
    BY <1>4, <2>1 DEF Apply!ApplicationKept, Apply!Success
<1>6. CASE Apply!SendFails
  <2>1. shown' = Apply!Error({}, pending) /\ told' = pending
        /\ (mailbox' = mailbox \cup {mail} \/ mailbox' = mailbox) /\ Apply!Sendable
    BY <1>6 DEF Apply!SendFails, Apply!Take, Apply!Answer
  <2> QED
    BY <1>4, <2>1 DEF Apply!ApplicationKept, Apply!Error
<1>7. CASE Apply!Unanswered \/ Apply!Reopen
  <2>1. shown' = Apply!Idle
        /\ (mailbox' = mailbox \/ (mailbox' = mailbox \cup {mail} /\ Apply!Sendable))
    BY <1>7 DEF Apply!Unanswered, Apply!Reopen, Apply!Take, Apply!Reload
  <2> QED
    BY <1>4, <2>1 DEF Apply!ApplicationKept, Apply!Idle
<1> QED
  BY <1>1, <1>2, <1>3, <1>5, <1>6, <1>7
     DEF Apply!Next, Apply!Type, Apply!ToggleCategory, Apply!FillTrap, Apply!Submit

\* Whoever reads that the application was received has one at the shop, and whoever reads
\* an error can send the same again (become-a-vendor/actions.ts).
THEOREM ApplicationIsKept == Apply!Spec => []Apply!ApplicationKept
<1>1. Apply!Init => Apply!ApplicationKept
  BY DEF Apply!Init, Apply!ApplicationKept, Apply!Idle
<1>2. Apply!ApplicationKept /\ [Apply!Next]_(Apply!applicationVars) => Apply!ApplicationKept'
  BY AnswerKeepsApplication DEF Apply!applicationVars, Apply!ApplicationKept
<1> QED
  BY <1>1, <1>2, PTL DEF Apply!Spec

-----------------------------------------------------------------------------
(* Sums. What holds of 0 and of the next holds of every number.             *)

\* A set of numbers with 0 that holds the next of each has them all.
LEMMA AllNumbers ==
  ASSUME NEW S \in SUBSET Nat, 0 \in S, \A n \in Nat : n \in S => n + 1 \in S
  PROVE  \A n \in Nat : n \in S
<1> DEFINE bad == Nat \ S
<1>1. SUFFICES ASSUME bad # {} PROVE FALSE
  OBVIOUS
<1>2. PICK k \in bad : \A m \in bad : k <= m
  BY <1>1, LeastNumber
<1>3. k \in Nat /\ k # 0
  BY <1>2
<1>4. k - 1 \in Nat /\ ~(k <= k - 1) /\ (k - 1) + 1 = k
  BY <1>3
<1>5. k - 1 \in S
  BY <1>2, <1>4
<1> QED
  BY <1>2, <1>4, <1>5

\* The sums of s up to each of 0 .. n.
Summing(h, s, n) == h = [k \in 0 .. n |-> IF k = 0 THEN 0 ELSE h[k - 1] + s[k]]
Sum(s, n) == (CHOOSE h : Summing(h, s, n))[n]

LEMMA SummingExists ==
  ASSUME NEW s
  PROVE  \A n \in Nat : \E h : Summing(h, s, n)
<1> DEFINE S == {n \in Nat : \E h : Summing(h, s, n)}
<1>1. 0 \in S
  <2> DEFINE h == [k \in 0 .. 0 |-> 0]
  <2>1. h = [k \in 0 .. 0 |-> IF k = 0 THEN 0 ELSE h[k - 1] + s[k]]
    OBVIOUS
  <2> HIDE DEF h
  <2> QED
    BY <2>1 DEF Summing
<1>2. ASSUME NEW n \in Nat, n \in S PROVE n + 1 \in S
  <2>1. PICK g : Summing(g, s, n)
    BY <1>2
  <2> DEFINE h == [k \in 0 .. n + 1 |-> IF k = n + 1 THEN g[n] + s[n + 1] ELSE g[k]]
  <2>2. \A k \in 0 .. n + 1 : h[k] = IF k = 0 THEN 0 ELSE h[k - 1] + s[k]
    <3> SUFFICES ASSUME NEW k \in 0 .. n + 1
                 PROVE  h[k] = IF k = 0 THEN 0 ELSE h[k - 1] + s[k]
      OBVIOUS
    <3>1. CASE k = n + 1
      BY <3>1
    <3>2. CASE k # n + 1
      <4>1. k \in 0 .. n
        BY <3>2
      <4>2. g[k] = IF k = 0 THEN 0 ELSE g[k - 1] + s[k]
        BY <2>1, <4>1 DEF Summing
      <4> QED
        BY <3>2, <4>1, <4>2
    <3> QED
      BY <3>1, <3>2
  <2>3. h = [k \in 0 .. n + 1 |-> h[k]]
    OBVIOUS
  <2> HIDE DEF h
  <2>4. Summing(h, s, n + 1)
    BY <2>2, <2>3 DEF Summing
  <2> QED
    BY <2>4
<1> HIDE DEF S
<1>3. \A n \in Nat : n \in S
  <2>1. S \in SUBSET Nat
    BY DEF S
  <2> QED
    BY <1>1, <1>2, <2>1, AllNumbers
<1> QED
  BY <1>3 DEF S

LEMMA SumGrows ==
  ASSUME NEW s
  PROVE  /\ Sum(s, 0) = 0
         /\ \A n \in Nat : Sum(s, n + 1) = Sum(s, n) + s[n + 1]
<1> DEFINE h(n) == CHOOSE g : Summing(g, s, n)
<1>1. \A n \in Nat : Summing(h(n), s, n)
  BY SummingExists
<1>2. \A n \in Nat : Sum(s, n) = h(n)[n]
  BY DEF Sum
<1> HIDE DEF h
<1>3. \A n \in Nat : \A k \in 0 .. n : h(n)[k] = IF k = 0 THEN 0 ELSE h(n)[k - 1] + s[k]
  BY <1>1 DEF Summing
<1>4. Sum(s, 0) = 0
  BY <1>2, <1>3
<1>5. ASSUME NEW n \in Nat PROVE Sum(s, n + 1) = Sum(s, n) + s[n + 1]
  <2> DEFINE S == {k \in Nat : k <= n => h(n + 1)[k] = h(n)[k]}
  <2>1. 0 \in S
    BY <1>3
  <2>2. ASSUME NEW k \in Nat, k \in S PROVE k + 1 \in S
    <3>1. CASE k + 1 <= n
      <4>1. k + 1 \in 0 .. n /\ k + 1 \in 0 .. n + 1 /\ n + 1 \in Nat /\ k <= n
            /\ k + 1 # 0 /\ (k + 1) - 1 = k
        BY <3>1
      <4>2. h(n + 1)[k + 1] = h(n + 1)[k] + s[k + 1] /\ h(n)[k + 1] = h(n)[k] + s[k + 1]
        BY <1>3, <4>1
      <4> QED
        BY <2>2, <4>1, <4>2
    <3>2. CASE ~(k + 1 <= n)
      BY <3>2
    <3> QED
      BY <3>1, <3>2
  <2> HIDE DEF S
  <2>3. n \in S
    <3>1. S \in SUBSET Nat
      BY DEF S
    <3> QED
      BY <2>1, <2>2, <3>1, AllNumbers
  <2>4. h(n + 1)[n] = h(n)[n]
    BY <2>3 DEF S
  <2>5. n + 1 \in Nat /\ n + 1 \in 0 .. n + 1 /\ n + 1 # 0 /\ (n + 1) - 1 = n
    OBVIOUS
  <2>6. h(n + 1)[n + 1] = h(n + 1)[n] + s[n + 1]
    BY <1>3, <2>5
  <2> QED
    BY <1>2, <2>4, <2>5, <2>6
<1> QED
  BY <1>4, <1>5

\* Sums of numbers are numbers.
LEMMA SumIsInt ==
  ASSUME NEW s, NEW n \in Nat, \A k \in 1 .. n : s[k] \in Int
  PROVE  \A k \in 0 .. n : Sum(s, k) \in Int
<1> DEFINE S == {k \in Nat : k <= n => Sum(s, k) \in Int}
<1>1. 0 \in S
  BY SumGrows
<1>2. ASSUME NEW k \in Nat, k \in S PROVE k + 1 \in S
  <2> SUFFICES ASSUME k + 1 <= n PROVE Sum(s, k + 1) \in Int
    OBVIOUS
  <2>1. k <= n /\ k + 1 \in 1 .. n
    OBVIOUS
  <2> QED
    BY <1>2, <2>1, SumGrows
<1> HIDE DEF S
<1>3. \A k \in Nat : k \in S
  <2>1. S \in SUBSET Nat
    BY DEF S
  <2> QED
    BY <1>1, <1>2, <2>1, AllNumbers
<1> QED
  BY <1>3 DEF S

\* Larger terms, a larger sum.
LEMMA SumsOrdered ==
  ASSUME NEW s, NEW t, NEW n \in Nat,
         \A k \in 1 .. n : s[k] \in Int /\ t[k] \in Int /\ s[k] <= t[k]
  PROVE  Sum(s, n) <= Sum(t, n)
<1> DEFINE S == {k \in Nat : k <= n => Sum(s, k) <= Sum(t, k)}
<1>1. 0 \in S
  BY SumGrows
<1>2. ASSUME NEW k \in Nat, k \in S PROVE k + 1 \in S
  <2> SUFFICES ASSUME k + 1 <= n PROVE Sum(s, k + 1) <= Sum(t, k + 1)
    OBVIOUS
  <2>1. k <= n /\ k + 1 \in 1 .. n /\ k \in 0 .. n
    OBVIOUS
  <2>2. Sum(s, k) \in Int /\ Sum(t, k) \in Int
    BY <2>1, SumIsInt
  <2>3. Sum(s, k + 1) = Sum(s, k) + s[k + 1] /\ Sum(t, k + 1) = Sum(t, k) + t[k + 1]
    BY SumGrows
  <2>4. s[k + 1] \in Int /\ t[k + 1] \in Int /\ s[k + 1] <= t[k + 1] /\ Sum(s, k) <= Sum(t, k)
    BY <1>2, <2>1
  <2> QED
    BY <2>2, <2>3, <2>4
<1> HIDE DEF S
<1>3. n \in S
  <2>1. S \in SUBSET Nat
    BY DEF S
  <2> QED
    BY <1>1, <1>2, <2>1, AllNumbers
<1> QED
  BY <1>3 DEF S

\* The sum of sums.
LEMMA SumOfBoth ==
  ASSUME NEW s, NEW t, NEW u, NEW n \in Nat,
         \A k \in 1 .. n : s[k] \in Int /\ t[k] \in Int /\ u[k] = s[k] + t[k]
  PROVE  Sum(u, n) = Sum(s, n) + Sum(t, n)
<1> DEFINE S == {k \in Nat : k <= n => Sum(u, k) = Sum(s, k) + Sum(t, k)}
<1>1. 0 \in S
  BY SumGrows
<1>2. ASSUME NEW k \in Nat, k \in S PROVE k + 1 \in S
  <2> SUFFICES ASSUME k + 1 <= n PROVE Sum(u, k + 1) = Sum(s, k + 1) + Sum(t, k + 1)
    OBVIOUS
  <2>1. k <= n /\ k + 1 \in 1 .. n /\ k \in 0 .. n
    OBVIOUS
  <2>2. Sum(s, k) \in Int /\ Sum(t, k) \in Int
    BY <2>1, SumIsInt
  <2>3. Sum(s, k + 1) = Sum(s, k) + s[k + 1] /\ Sum(t, k + 1) = Sum(t, k) + t[k + 1]
        /\ Sum(u, k + 1) = Sum(u, k) + u[k + 1]
    BY SumGrows
  <2>4. s[k + 1] \in Int /\ t[k + 1] \in Int /\ u[k + 1] = s[k + 1] + t[k + 1]
        /\ Sum(u, k) = Sum(s, k) + Sum(t, k)
    BY <1>2, <2>1
  <2> QED
    BY <2>2, <2>3, <2>4
<1> HIDE DEF S
<1>3. n \in S
  <2>1. S \in SUBSET Nat
    BY DEF S
  <2> QED
    BY <1>1, <1>2, <2>1, AllNumbers
<1> QED
  BY <1>3 DEF S

\* The same terms, the same sum.
LEMMA SumsEqual ==
  ASSUME NEW s, NEW t, NEW n \in Nat, \A k \in 1 .. n : s[k] = t[k]
  PROVE  Sum(s, n) = Sum(t, n)
<1> DEFINE S == {k \in Nat : k <= n => Sum(s, k) = Sum(t, k)}
<1>1. 0 \in S
  BY SumGrows
<1>2. ASSUME NEW k \in Nat, k \in S PROVE k + 1 \in S
  <2> SUFFICES ASSUME k + 1 <= n PROVE Sum(s, k + 1) = Sum(t, k + 1)
    OBVIOUS
  <2>1. k <= n /\ k + 1 \in 1 .. n
    OBVIOUS
  <2> QED
    BY <1>2, <2>1, SumGrows
<1> HIDE DEF S
<1>3. n \in S
  <2>1. S \in SUBSET Nat
    BY DEF S
  <2> QED
    BY <1>1, <1>2, <2>1, AllNumbers
<1> QED
  BY <1>3 DEF S

\* A sum of natural numbers is one, no less than any of them, and 0 only if all are.
LEMMA SumOfNaturals ==
  ASSUME NEW s, NEW n \in Nat, \A k \in 1 .. n : s[k] \in Nat
  PROVE  /\ Sum(s, n) \in Nat
         /\ \A k \in 1 .. n : s[k] <= Sum(s, n)
         /\ Sum(s, n) = 0 <=> \A k \in 1 .. n : s[k] = 0
<1> DEFINE S == {k \in Nat : k <= n => /\ Sum(s, k) \in Nat
                                       /\ \A j \in 1 .. k : s[j] <= Sum(s, k)
                                       /\ (\A j \in 1 .. k : s[j] = 0) => Sum(s, k) = 0}
<1>1. 0 \in S
  BY SumGrows
<1>2. ASSUME NEW k \in Nat, k \in S PROVE k + 1 \in S
  <2> SUFFICES ASSUME k + 1 <= n
               PROVE  /\ Sum(s, k + 1) \in Nat
                      /\ \A j \in 1 .. k + 1 : s[j] <= Sum(s, k + 1)
                      /\ (\A j \in 1 .. k + 1 : s[j] = 0) => Sum(s, k + 1) = 0
    OBVIOUS
  <2>1. k <= n /\ k + 1 \in 1 .. n
    OBVIOUS
  <2>2. Sum(s, k + 1) = Sum(s, k) + s[k + 1]
    BY SumGrows
  <2>3. /\ Sum(s, k) \in Nat /\ s[k + 1] \in Nat
        /\ \A j \in 1 .. k : s[j] <= Sum(s, k)
        /\ (\A j \in 1 .. k : s[j] = 0) => Sum(s, k) = 0
    BY <1>2, <2>1
  <2>4. \A j \in 1 .. k + 1 : j \in 1 .. k \/ j = k + 1
    OBVIOUS
  <2>5. \A j \in 1 .. k : j \in 1 .. n /\ j \in 1 .. k + 1
    BY <2>1
  <2>6. k + 1 \in 1 .. k + 1
    OBVIOUS
  <2> QED
    BY <2>2, <2>3, <2>4, <2>5, <2>6
<1> HIDE DEF S
<1>3. n \in S
  <2>1. S \in SUBSET Nat
    BY DEF S
  <2> QED
    BY <1>1, <1>2, <2>1, AllNumbers
<1>4. /\ Sum(s, n) \in Nat
      /\ \A j \in 1 .. n : s[j] <= Sum(s, n)
      /\ (\A j \in 1 .. n : s[j] = 0) => Sum(s, n) = 0
  BY <1>3 DEF S
<1> QED
  BY <1>4

-----------------------------------------------------------------------------
(* The figures of an order: its events replayed, from the first on, and     *)
(* what they add up to.                                                     *)

\* The elements of a sequence.
Shown(s) == {s[i] : i \in DOMAIN s}

\* What the pieces have got to one after the other, as FlattenSeq puts them together.
Flattens(f, pieces, n) ==
  f = [i \in 1 .. n |-> IF i = 1 THEN pieces[i] ELSE f[i - 1] \o pieces[i]]

LEMMA FlattenExists ==
  ASSUME NEW pieces, NEW n \in Nat
  PROVE  \E f : Flattens(f, pieces, n)
<1> DEFINE bad == {k \in Nat : ~ \E f : Flattens(f, pieces, k)}
<1>1. SUFFICES ASSUME bad # {} PROVE FALSE
  OBVIOUS
<1>2. bad \in SUBSET Nat
  OBVIOUS
<1>3. PICK k \in bad : \A m \in bad : k <= m
  BY <1>1, <1>2, LeastNumber
<1>4. k # 0
  <2> DEFINE f == [i \in 1 .. 0 |-> <<>>]
  <2>1. f = [i \in 1 .. 0 |-> IF i = 1 THEN pieces[i] ELSE f[i - 1] \o pieces[i]]
    OBVIOUS
  <2> HIDE DEF f
  <2>2. \E g : Flattens(g, pieces, 0)
    BY <2>1 DEF Flattens
  <2> QED
    BY <1>3, <2>2
<1>5. k \in Nat /\ k - 1 \in Nat /\ k - 1 \notin bad
  BY <1>3, <1>4
<1>6. PICK g : Flattens(g, pieces, k - 1)
  BY <1>5
<1> DEFINE last == IF k = 1 THEN pieces[k] ELSE g[k - 1] \o pieces[k]
           f == [i \in 1 .. k |-> IF i = k THEN last ELSE g[i]]
<1>7. \A i \in 1 .. k : f[i] = IF i = 1 THEN pieces[i] ELSE f[i - 1] \o pieces[i]
  <2> SUFFICES ASSUME NEW i \in 1 .. k
               PROVE  f[i] = IF i = 1 THEN pieces[i] ELSE f[i - 1] \o pieces[i]
    OBVIOUS
  <2>1. CASE i = k
    BY <1>4, <1>5, <2>1
  <2>2. CASE i # k
    <3>1. i \in 1 .. k - 1
      BY <1>5, <2>2
    <3>2. g[i] = IF i = 1 THEN pieces[i] ELSE g[i - 1] \o pieces[i]
      BY <1>6, <3>1 DEF Flattens
    <3> QED
      BY <1>5, <2>2, <3>1, <3>2
  <2> QED
    BY <2>1, <2>2
<1>8. f = [i \in 1 .. k |-> f[i]]
  OBVIOUS
<1> HIDE DEF f
<1>9. Flattens(f, pieces, k)
  BY <1>7, <1>8 DEF Flattens
<1> QED
  BY <1>3, <1>9

\* Flattening so many pieces gives a sequence of what they hold, in their order.
Flat(f, pieces, n) ==
  /\ \A i \in DOMAIN f : \E m \in 1 .. n : f[i] \in Shown(pieces[m])
  /\ \A m \in 1 .. n : Shown(pieces[m]) \subseteq Shown(f)
  /\ \A i, j \in DOMAIN f : i < j =>
       \E m, k \in 1 .. n : m <= k /\ f[i] \in Shown(pieces[m]) /\ f[j] \in Shown(pieces[k])

\* The same, of the type of its elements.
FlatIn(R, f, pieces, n) == f \in Seq(R) /\ Flat(f, pieces, n)

LEMMA SumsAre ==
  /\ \A s : Len(s) \in Nat => Figures!SumOf(s) = Sum(s, Len(s))
  /\ \A s : \A n \in Nat : Sales!SumTo(s, n) = Sum(s, n)
BY DEF Figures!SumOf, Sales!SumTo, Sum, Summing

\* Pieces of one element at some places, of none elsewhere: as many as the places.
OneOrNone(pieces, n, P) == \A k \in 1 .. n : Len(pieces[k]) = IF k \in P THEN 1 ELSE 0

LEMMA FlattenCounts ==
  ASSUME NEW R, NEW n \in Nat, NEW pieces \in [1 .. n -> Seq(R)], NEW P \in SUBSET (1 .. n),
         OneOrNone(pieces, n, P)
  PROVE  FlattenSeq(pieces) \in Seq(R) /\ Len(FlattenSeq(pieces)) = Cardinality(P)
<1>1. pieces \in Seq(Seq(R)) /\ Len(pieces) = n /\ DOMAIN pieces = 1 .. n
  OBVIOUS
<1>4. \A s, t \in Seq(R) : s \o t \in Seq(R) /\ Len(s \o t) = Len(s) + Len(t)
  OBVIOUS
<1>5. \A k \in 1 .. n : Len(pieces[k]) = IF k \in P THEN 1 ELSE 0
  BY DEF OneOrNone
<1>2. CASE n = 0
  <2>1. pieces = <<>> /\ FlattenSeq(pieces) = pieces
    BY <1>1, <1>2 DEF FlattenSeq
  <2>2. P = {} /\ <<>> \in Seq(R) /\ Len(<<>>) = 0
    BY <1>2
  <2> QED
    BY <2>1, <2>2, FS_EmptySet
<1>3. CASE n # 0
  <2> DEFINE IsFlat(h) == h = [i \in 1 .. Len(pieces) |->
                                 IF i = 1 THEN pieces[i] ELSE h[i - 1] \o pieces[i]]
             f == CHOOSE h : IsFlat(h)
             First(k) == P \cap (1 .. k)
             S == {k \in Nat : k + 1 <= n => /\ f[k + 1] \in Seq(R)
                                             /\ Len(f[k + 1]) = Cardinality(First(k + 1))}
  <2>1. FlattenSeq(pieces) = f[n]
    BY <1>1, <1>3 DEF FlattenSeq
  <2>2. \A h : IsFlat(h) <=> Flattens(h, pieces, n)
    BY <1>1 DEF Flattens
  <2> HIDE DEF IsFlat
  <2>3. Flattens(f, pieces, n)
    <3>1. PICK h : Flattens(h, pieces, n)
      BY FlattenExists
    <3>2. IsFlat(h)
      BY <2>2, <3>1
    <3>3. IsFlat(f)
      BY <3>2
    <3> QED
      BY <2>2, <3>3
  <2> HIDE DEF f
  <2>4. \A i \in 1 .. n : f[i] = IF i = 1 THEN pieces[i] ELSE f[i - 1] \o pieces[i]
    BY <2>3 DEF Flattens
  <2>5. \A k \in Nat : IsFiniteSet(First(k)) /\ Cardinality(First(k)) \in Nat
    <3> SUFFICES ASSUME NEW k \in Nat
                 PROVE  IsFiniteSet(First(k)) /\ Cardinality(First(k)) \in Nat
      OBVIOUS
    <3>1. IsFiniteSet(1 .. k)
      BY FS_Interval
    <3> QED
      BY <3>1, FS_Subset, FS_CardinalityType
  <2>6. \A k \in Nat : /\ k + 1 \notin First(k)
                         /\ First(k + 1) = IF k + 1 \in P THEN First(k) \cup {k + 1} ELSE First(k)
    <3> SUFFICES ASSUME NEW k \in Nat
                 PROVE  /\ k + 1 \notin First(k)
                        /\ First(k + 1) = IF k + 1 \in P THEN First(k) \cup {k + 1} ELSE First(k)
      OBVIOUS
    <3>1. 1 .. k + 1 = (1 .. k) \cup {k + 1} /\ k + 1 \notin 1 .. k
      OBVIOUS
    <3> QED
      BY <3>1
  <2>7. First(0) = {} /\ First(n) = P
    <3>1. 1 .. 0 = {} /\ P \subseteq 1 .. n
      OBVIOUS
    <3> QED
      BY <3>1
  <2> HIDE DEF First
  <2>12. \A k \in Nat : k + 1 <= n =>
          Cardinality(First(k + 1)) = Cardinality(First(k)) + Len(pieces[k + 1])
    <3> SUFFICES ASSUME NEW k \in Nat, k + 1 <= n
                 PROVE  Cardinality(First(k + 1)) = Cardinality(First(k)) + Len(pieces[k + 1])
      OBVIOUS
    <3>1. k + 1 \in 1 .. n
      OBVIOUS
    <3>2. IsFiniteSet(First(k)) /\ k + 1 \notin First(k) /\ Cardinality(First(k)) \in Nat
      BY <2>5, <2>6
    <3>3. CASE k + 1 \in P
      <4>1. First(k + 1) = First(k) \cup {k + 1}
        BY <2>6, <3>3
      <4>2. Len(pieces[k + 1]) = 1
        BY <1>5, <3>1, <3>3
      <4>3. Cardinality(First(k) \cup {k + 1}) = Cardinality(First(k)) + 1
        BY <3>2, FS_AddElement
      <4> QED
        BY <4>1, <4>2, <4>3
    <3>4. CASE k + 1 \notin P
      <4>1. First(k + 1) = First(k)
        BY <2>6, <3>4
      <4>2. Len(pieces[k + 1]) = 0
        BY <1>5, <3>1, <3>4
      <4> QED
        BY <3>2, <4>1, <4>2
    <3> QED
      BY <3>3, <3>4
  <2>8. 0 \in S
    <3>1. 1 \in 1 .. n /\ 0 + 1 <= n /\ 0 + 1 = 1
      BY <1>3
    <3>2. f[1] = pieces[1] /\ pieces[1] \in Seq(R)
      BY <2>4, <3>1
    <3>3. Cardinality(First(0 + 1)) = Cardinality(First(0)) + Len(pieces[0 + 1])
      <4>1. 0 \in Nat /\ 0 + 1 <= n
        BY <3>1
      <4> QED
        BY <2>12, <4>1
    <3>4. Cardinality(First(0)) = 0
      BY <2>7, FS_EmptySet
    <3>5. Len(pieces[1]) \in Nat
      BY <3>2
    <3>6. Len(f[1]) = Cardinality(First(1))
      BY <3>1, <3>2, <3>3, <3>4, <3>5
    <3> QED
      BY <3>1, <3>2, <3>6
  <2>9. ASSUME NEW k \in Nat, k \in S PROVE k + 1 \in S
    <3> SUFFICES ASSUME (k + 1) + 1 <= n
                 PROVE  /\ f[(k + 1) + 1] \in Seq(R)
                        /\ Len(f[(k + 1) + 1]) = Cardinality(First((k + 1) + 1))
      OBVIOUS
    <3> DEFINE m == k + 1
    <3>1. m \in Nat /\ m + 1 \in 1 .. n /\ m + 1 # 1 /\ (m + 1) - 1 = m /\ m <= n
      OBVIOUS
    <3>2. f[m] \in Seq(R) /\ Len(f[m]) = Cardinality(First(m))
      BY <2>9, <3>1
    <3> HIDE DEF m
    <3>3. f[m + 1] = f[m] \o pieces[m + 1] /\ pieces[m + 1] \in Seq(R)
      BY <2>4, <3>1
    <3>4. f[m] \o pieces[m + 1] \in Seq(R)
          /\ Len(f[m] \o pieces[m + 1]) = Len(f[m]) + Len(pieces[m + 1])
      BY <1>4, <3>2, <3>3
    <3>5. m + 1 <= n
      BY <3>1
    <3>6. f[m + 1] \in Seq(R) /\ Len(f[m + 1]) = Cardinality(First(m + 1))
      BY <2>12, <3>1, <3>2, <3>3, <3>4, <3>5
    <3> QED
      BY <3>6 DEF m
  <2> HIDE DEF S
  <2>10. n - 1 \in S /\ (n - 1) + 1 = n
    <3>1. S \in SUBSET Nat
      BY DEF S
    <3>2. \A k \in Nat : k \in S
      BY <2>8, <2>9, <3>1, AllNumbers
    <3> QED
      BY <1>3, <3>2
  <2>11. f[n] \in Seq(R) /\ Len(f[n]) = Cardinality(First(n))
    BY <2>10 DEF S
  <2> QED
    BY <2>1, <2>7, <2>11
<1> QED
  BY <1>2, <1>3

\* An order as Clover may state it.
Lines    == [price : Int, unitQty : Int, exchanged : BOOLEAN, refunded : BOOLEAN,
             discounts : Seq([amount : Int, percentage : Int])]
Payments == [amount : Int, tax : Int, result : STRING]

LEMMA SoldAre ==
  ASSUME NEW order \in Receipts
  PROVE  /\ Figures!Sold(order) \in Seq(Lines)
         /\ Len(Figures!Sold(order)) =
              Cardinality({k \in DOMAIN order.lines : ~order.lines[k].exchanged})
<1> DEFINE lines == order.lines
           n == Len(lines)
           P == {k \in DOMAIN lines : ~lines[k].exchanged}
           pieces == [k \in DOMAIN lines |-> IF lines[k].exchanged THEN <<>> ELSE <<lines[k]>>]
<1>1. lines \in Seq(Lines)
  BY FiguresAssumption DEF Lines
<1>2. Figures!Sold(order) = FlattenSeq(pieces)
  BY DEF Figures!Sold, Figures!FlattenSeq, FlattenSeq
<1> HIDE DEF lines
<1>3. n \in Nat /\ DOMAIN lines = 1 .. n /\ \A k \in 1 .. n : lines[k] \in Lines
  BY <1>1
<1>4. /\ pieces \in [1 .. n -> Seq(Lines)]
      /\ OneOrNone(pieces, n, P)
  <2>1. \A k \in 1 .. n : lines[k] \in Lines /\ lines[k].exchanged \in BOOLEAN
    BY <1>3 DEF Lines
  <2>2. \A x \in Lines : <<x>> \in Seq(Lines) /\ Len(<<x>>) = 1
    OBVIOUS
  <2>3. <<>> \in Seq(Lines) /\ Len(<<>>) = 0
    OBVIOUS
  <2>4. \A k \in 1 .. n : pieces[k] = IF lines[k].exchanged THEN <<>> ELSE <<lines[k]>>
    BY <1>3
  <2>5. pieces = [k \in 1 .. n |-> pieces[k]]
    BY <1>3
  <2> HIDE DEF pieces, n
  <2>6. \A k \in 1 .. n : pieces[k] \in Seq(Lines)
    BY <2>1, <2>2, <2>3, <2>4
  <2>7. \A k \in 1 .. n : Len(pieces[k]) = IF k \in P THEN 1 ELSE 0
    BY <1>3, <2>1, <2>2, <2>3, <2>4
  <2> QED
    BY <2>5, <2>6, <2>7 DEF OneOrNone
<1>5. P \in SUBSET (1 .. n)
  BY <1>3
<1> HIDE DEF pieces, n, P
<1>6. FlattenSeq(pieces) \in Seq(Lines) /\ Len(FlattenSeq(pieces)) = Cardinality(P)
  <2>1. n \in Nat
    BY <1>3
  <2> QED
    BY <1>4, <1>5, <2>1, FlattenCounts
<1> QED
  BY <1>2, <1>6 DEF P, lines

\* What the first of the events have made of an order.
Booked(head, payments, items, p, l) ==
  [head |-> head, payments |-> [k \in 1 .. p |-> payments[k]], items |-> [k \in 1 .. l |-> items[k]]]

LEMMA HandleStarts ==
  ASSUME NEW snapshot, NEW event, event.type = "OrderRecorded"
  PROVE  Figures!Handle(snapshot, event) = [head |-> event, payments |-> <<>>, items |-> <<>>]
BY DEF Figures!Handle

LEMMA HandlePays ==
  ASSUME NEW h, NEW payments, NEW items, NEW p \in Nat, NEW l \in Nat, NEW event,
         event.type = "PaymentRecorded", event.payment = payments[p + 1]
  PROVE  Figures!Handle(Booked(h, payments, items, p, l), event)
           = Booked(h, payments, items, p + 1, l)
<1> DEFINE b == Booked(h, payments, items, p, l)
           P == [k \in 1 .. p |-> payments[k]]
           L == [k \in 1 .. l |-> items[k]]
           next == [k \in 1 .. p + 1 |-> payments[k]]
<1>1. Figures!Handle(b, event) = [b EXCEPT !.payments = Append(b.payments, event.payment)]
  BY DEF Figures!Handle
<1>2. b = [head |-> h, payments |-> P, items |-> L]
  BY DEF Booked
<1>3. Append(P, payments[p + 1]) = next
  OBVIOUS
<1>4. Booked(h, payments, items, p + 1, l)
        = [head |-> h, payments |-> next, items |-> L]
  BY DEF Booked
<1> HIDE DEF b, P, L, next
<1>5. b.payments = P
  BY <1>2
<1>6. [b EXCEPT !.payments = next]
        = [head |-> h, payments |-> next, items |-> L]
  BY <1>2
<1>7. Figures!Handle(b, event) = Booked(h, payments, items, p + 1, l)
  BY <1>1, <1>3, <1>4, <1>5, <1>6
<1> QED
  BY <1>7 DEF b

LEMMA HandleLists ==
  ASSUME NEW h, NEW payments, NEW items, NEW p \in Nat, NEW l \in Nat, NEW event,
         event.type = "LineItemRecorded", event.item = items[l + 1]
  PROVE  Figures!Handle(Booked(h, payments, items, p, l), event)
           = Booked(h, payments, items, p, l + 1)
<1> DEFINE b == Booked(h, payments, items, p, l)
           P == [k \in 1 .. p |-> payments[k]]
           L == [k \in 1 .. l |-> items[k]]
           next == [k \in 1 .. l + 1 |-> items[k]]
<1>1. Figures!Handle(b, event) = [b EXCEPT !.items = Append(b.items, event.item)]
  BY DEF Figures!Handle
<1>2. b = [head |-> h, payments |-> P, items |-> L]
  BY DEF Booked
<1>3. Append(L, items[l + 1]) = next
  OBVIOUS
<1>4. Booked(h, payments, items, p, l + 1)
        = [head |-> h, payments |-> P, items |-> next]
  BY DEF Booked
<1> HIDE DEF b, P, L, next
<1>5. b.items = L
  BY <1>2
<1>6. [b EXCEPT !.items = next]
        = [head |-> h, payments |-> P, items |-> next]
  BY <1>2
<1>7. Figures!Handle(b, event) = Booked(h, payments, items, p, l + 1)
  BY <1>1, <1>3, <1>4, <1>5, <1>6
<1> QED
  BY <1>7 DEF b

\* The fold over the events.
Applying(g, snapshot, applied, n) ==
  g = [k \in 0 .. n |-> IF k = 0 THEN snapshot ELSE Figures!Handle(g[k - 1], applied[k])]

LEMMA ApplyingExists ==
  ASSUME NEW snapshot, NEW applied
  PROVE  \A n \in Nat : \E g : Applying(g, snapshot, applied, n)
<1> DEFINE S == {n \in Nat : \E g : Applying(g, snapshot, applied, n)}
<1>1. 0 \in S
  <2> DEFINE g == [k \in 0 .. 0 |-> snapshot]
  <2>1. g = [k \in 0 .. 0 |-> IF k = 0 THEN snapshot ELSE Figures!Handle(g[k - 1], applied[k])]
    OBVIOUS
  <2> HIDE DEF g
  <2> QED
    BY <2>1 DEF Applying
<1>2. ASSUME NEW n \in Nat, n \in S PROVE n + 1 \in S
  <2>1. PICK f : Applying(f, snapshot, applied, n)
    BY <1>2
  <2> DEFINE last == Figures!Handle(f[n], applied[n + 1])
             g == [k \in 0 .. n + 1 |-> IF k = n + 1 THEN last ELSE f[k]]
  <2>2. \A k \in 0 .. n + 1 : g[k] = IF k = 0 THEN snapshot ELSE Figures!Handle(g[k - 1], applied[k])
    <3> SUFFICES ASSUME NEW k \in 0 .. n + 1
                 PROVE  g[k] = IF k = 0 THEN snapshot ELSE Figures!Handle(g[k - 1], applied[k])
      OBVIOUS
    <3>1. CASE k = n + 1
      <4>1. g[k] = last /\ g[k - 1] = f[n] /\ k # 0
        BY <3>1
      <4> QED
        BY <3>1, <4>1
    <3>2. CASE k # n + 1
      <4>1. k \in 0 .. n
        BY <3>2
      <4>2. f[k] = IF k = 0 THEN snapshot ELSE Figures!Handle(f[k - 1], applied[k])
        BY <2>1, <4>1 DEF Applying
      <4>3. g[k] = f[k] /\ (k # 0 => g[k - 1] = f[k - 1])
        BY <3>2, <4>1
      <4> QED
        BY <4>2, <4>3
    <3> QED
      BY <3>1, <3>2
  <2>3. g = [k \in 0 .. n + 1 |-> g[k]]
    OBVIOUS
  <2> HIDE DEF g
  <2>4. Applying(g, snapshot, applied, n + 1)
    BY <2>2, <2>3 DEF Applying
  <2> QED
    BY <2>4
<1> HIDE DEF S
<1>3. \A n \in Nat : n \in S
  <2>1. S \in SUBSET Nat
    BY DEF S
  <2> QED
    BY <1>1, <1>2, <2>1, AllNumbers
<1> QED
  BY <1>3 DEF S

LEMMA ApplyGrows ==
  ASSUME NEW snapshot, NEW applied, Len(applied) \in Nat
  PROVE  \E g : /\ g[0] = snapshot
                /\ \A k \in 1 .. Len(applied) : g[k] = Figures!Handle(g[k - 1], applied[k])
                /\ Figures!ApplyAll(snapshot, applied) = g[Len(applied)]
<1> DEFINE n == Len(applied)
           g == CHOOSE f : Applying(f, snapshot, applied, n)
<1>1. Applying(g, snapshot, applied, n)
  BY ApplyingExists
<1>2. Figures!ApplyAll(snapshot, applied) = g[n]
  BY DEF Figures!ApplyAll, Applying
<1> HIDE DEF g
<1>3. \A k \in 0 .. n : g[k] = IF k = 0 THEN snapshot ELSE Figures!Handle(g[k - 1], applied[k])
  BY <1>1 DEF Applying
<1>4. g[0] = snapshot /\ \A k \in 1 .. n : g[k] = Figures!Handle(g[k - 1], applied[k])
  BY <1>3
<1> QED
  BY <1>2, <1>4

\* What an order is booked as.
AsBooked(order, when) ==
  [head |-> Figures!OrderRecorded(order, when), payments |-> Figures!PaymentItems(order),
   items |-> Figures!LineItems(order)]

LEMMA ItemsAre ==
  ASSUME NEW order \in Receipts
  PROVE  /\ Len(order.payments) \in Nat
         /\ DOMAIN Figures!PaymentItems(order) = 1 .. Len(order.payments)
         /\ Len(Figures!PaymentItems(order)) = Len(order.payments)
         /\ Len(Figures!Sold(order)) \in Nat
         /\ DOMAIN Figures!LineItems(order) = 1 .. Len(Figures!Sold(order))
         /\ Len(Figures!LineItems(order)) = Len(Figures!Sold(order))
<1>1. order.payments \in Seq(Payments)
  BY FiguresAssumption DEF Payments
<1>2. Len(order.payments) \in Nat /\ DOMAIN order.payments = 1 .. Len(order.payments)
  BY <1>1
<1>3. Figures!Sold(order) \in Seq(Lines)
  BY SoldAre
<1>4. Len(Figures!Sold(order)) \in Nat /\ DOMAIN Figures!Sold(order) = 1 .. Len(Figures!Sold(order))
  BY <1>3
<1>5. DOMAIN Figures!PaymentItems(order) = DOMAIN order.payments
  BY DEF Figures!PaymentItems
<1>6. DOMAIN Figures!LineItems(order) = DOMAIN Figures!Sold(order)
  BY DEF Figures!LineItems
<1>7. \A f, n : n \in Nat /\ DOMAIN f = 1 .. n => Len(f) = n
  OBVIOUS
<1> QED
  BY <1>2, <1>4, <1>5, <1>6, <1>7

\* An event and two rows of events.
Lined(s, m) == s = [k \in 1 .. m |-> s[k]]
IsChain(all, x, s, t, m, n) ==
  /\ Len(all) = (1 + m) + n
  /\ all[1] = x
  /\ \A k \in 1 .. m : all[1 + k] = s[k]
  /\ \A k \in 1 .. n : all[(1 + m) + k] = t[k]

LEMMA Chained ==
  ASSUME NEW x, NEW s, NEW t, NEW m \in Nat, NEW n \in Nat, Lined(s, m), Lined(t, n)
  PROVE  IsChain(<<x>> \o s \o t, x, s, t, m, n)
<1> DEFINE R == {x} \cup {s[k] : k \in 1 .. m} \cup {t[k] : k \in 1 .. n}
<1>1. <<x>> \in Seq(R) /\ Len(<<x>>) = 1
  OBVIOUS
<1>2. s \in Seq(R) /\ Len(s) = m
  <2>1. \A k \in 1 .. m : s[k] \in R
    OBVIOUS
  <2> HIDE DEF R
  <2>2. s \in [1 .. m -> R]
    BY <2>1 DEF Lined
  <2> QED
    BY <2>2
<1>3. t \in Seq(R) /\ Len(t) = n
  <2>1. \A k \in 1 .. n : t[k] \in R
    OBVIOUS
  <2> HIDE DEF R
  <2>2. t \in [1 .. n -> R]
    BY <2>1 DEF Lined
  <2> QED
    BY <2>2
<1> HIDE DEF R
<1>10. \A u, v \in Seq(R) : /\ u \o v \in Seq(R) /\ Len(u \o v) = Len(u) + Len(v)
                            /\ \A k \in 1 .. Len(u) : (u \o v)[k] = u[k]
                            /\ \A k \in 1 .. Len(v) : (u \o v)[Len(u) + k] = v[k]
  OBVIOUS
<1> DEFINE a == <<x>> \o s
<1>4. a \in Seq(R) /\ Len(a) = 1 + m /\ a[1] = x /\ \A k \in 1 .. m : a[1 + k] = s[k]
  BY <1>1, <1>2
<1> HIDE DEF a
<1>5. Len(a \o t) = (1 + m) + n
  BY <1>3, <1>4, <1>10
<1>6. \A k \in 1 .. 1 + m : (a \o t)[k] = a[k]
  BY <1>3, <1>4, <1>10
<1>7. \A k \in 1 .. n : (a \o t)[(1 + m) + k] = t[k]
  BY <1>3, <1>4, <1>10
<1>8. 1 \in 1 .. 1 + m /\ \A k \in 1 .. m : 1 + k \in 1 .. 1 + m
  OBVIOUS
<1>9. IsChain(a \o t, x, s, t, m, n)
  BY <1>4, <1>5, <1>6, <1>7, <1>8 DEF IsChain
<1> QED
  BY <1>9 DEF a

LEMMA RecordsWhole ==
  ASSUME NEW order \in Receipts, NEW when, NEW snapshot
  PROVE  Figures!ApplyAll(snapshot, Figures!EventsOf(order, when)) = AsBooked(order, when)
<1> DEFINE h == Figures!OrderRecorded(order, when)
           P == Figures!PaymentItems(order)
           L == Figures!LineItems(order)
           p == Len(order.payments)
           l == Len(Figures!Sold(order))
           s == [k \in 1 .. p |-> [type |-> "PaymentRecorded", payment |-> P[k]]]
           t == [k \in 1 .. l |-> [type |-> "LineItemRecorded", item |-> L[k]]]
           all == <<h>> \o s \o t
<1>1. p \in Nat /\ l \in Nat /\ DOMAIN P = 1 .. p /\ DOMAIN L = 1 .. l
  BY ItemsAre
<1>2. h.type = "OrderRecorded"
  BY DEF Figures!OrderRecorded
<1>3. Figures!EventsOf(order, when) = all
  BY <1>1 DEF Figures!EventsOf
<1>4. P = [k \in 1 .. p |-> P[k]] /\ L = [k \in 1 .. l |-> L[k]]
  <2>1. P = [k \in DOMAIN P |-> P[k]]
    BY DEF Figures!PaymentItems
  <2>2. L = [k \in DOMAIN L |-> L[k]]
    BY DEF Figures!LineItems
  <2> QED
    BY <1>1, <2>1, <2>2
<1>5. AsBooked(order, when) = [head |-> h, payments |-> P, items |-> L]
  BY DEF AsBooked
<1> HIDE DEF h, P, L, p, l
<1>6. \A k \in 1 .. p : s[k].type = "PaymentRecorded" /\ s[k].payment = P[k]
  OBVIOUS
<1>7. \A k \in 1 .. l : t[k].type = "LineItemRecorded" /\ t[k].item = L[k]
  OBVIOUS
<1>8. Lined(s, p) /\ Lined(t, l)
  BY DEF Lined
<1> HIDE DEF s, t
<1>9. /\ Len(all) = (1 + p) + l
      /\ all[1] = h
      /\ \A k \in 1 .. p : all[1 + k] = s[k]
      /\ \A k \in 1 .. l : all[(1 + p) + k] = t[k]
  <2>1. IsChain(all, h, s, t, p, l)
    BY <1>1, <1>8, Chained
  <2> HIDE DEF all
  <2> QED
    BY <2>1 DEF IsChain
<1> HIDE DEF all
<1>10. Len(all) \in Nat
  BY <1>1, <1>9
<1>11. PICK g : /\ g[0] = snapshot
                /\ \A k \in 1 .. Len(all) : g[k] = Figures!Handle(g[k - 1], all[k])
                /\ Figures!ApplyAll(snapshot, all) = g[Len(all)]
  BY <1>10, ApplyGrows
<1>12. g[1] = Booked(h, P, L, 0, 0)
  <2>1. 1 \in 1 .. Len(all)
    BY <1>1, <1>9
  <2>2. g[1] = Figures!Handle(g[0], h)
    BY <1>9, <1>11, <2>1
  <2>3. g[1] = [head |-> h, payments |-> <<>>, items |-> <<>>]
    BY <1>2, <2>2, HandleStarts
  <2>4. [k \in 1 .. 0 |-> P[k]] = <<>> /\ [k \in 1 .. 0 |-> L[k]] = <<>>
    OBVIOUS
  <2> QED
    BY <2>3, <2>4 DEF Booked
<1>13. g[1 + p] = Booked(h, P, L, p, 0)
  <2> DEFINE S == {k \in Nat : k <= p => g[1 + k] = Booked(h, P, L, k, 0)}
  <2>1. 0 \in S
    BY <1>12
  <2>2. ASSUME NEW k \in Nat, k \in S PROVE k + 1 \in S
    <3> SUFFICES ASSUME k + 1 <= p PROVE g[1 + (k + 1)] = Booked(h, P, L, k + 1, 0)
      OBVIOUS
    <3>1. k <= p /\ k + 1 \in 1 .. p /\ 1 + (k + 1) \in 1 .. Len(all)
          /\ (1 + (k + 1)) - 1 = 1 + k
      BY <1>1, <1>9
    <3>2. g[1 + k] = Booked(h, P, L, k, 0)
      BY <2>2, <3>1
    <3> HIDE DEF S
    <3>3. all[1 + (k + 1)] = s[k + 1]
      BY <1>9, <3>1
    <3>4. g[1 + (k + 1)] = Figures!Handle(Booked(h, P, L, k, 0), s[k + 1])
      BY <1>11, <3>1, <3>2, <3>3
    <3>5. s[k + 1].type = "PaymentRecorded" /\ s[k + 1].payment = P[k + 1] /\ 0 \in Nat
      BY <1>6, <3>1
    <3>6. Figures!Handle(Booked(h, P, L, k, 0), s[k + 1]) = Booked(h, P, L, k + 1, 0)
      BY <3>5, HandlePays
    <3> QED
      BY <3>4, <3>6
  <2> HIDE DEF S
  <2>3. p \in S
    <3>1. S \in SUBSET Nat
      BY DEF S
    <3>2. \A k \in Nat : k \in S
      BY <2>1, <2>2, <3>1, AllNumbers
    <3> QED
      BY <1>1, <3>2
  <2> QED
    BY <1>1, <2>3 DEF S
<1>14. g[(1 + p) + l] = Booked(h, P, L, p, l)
  <2> DEFINE S == {k \in Nat : k <= l => g[(1 + p) + k] = Booked(h, P, L, p, k)}
  <2>1. 0 \in S
    <3>1. (1 + p) + 0 = 1 + p
      BY <1>1
    <3> QED
      BY <1>13, <3>1
  <2>2. ASSUME NEW k \in Nat, k \in S PROVE k + 1 \in S
    <3> SUFFICES ASSUME k + 1 <= l PROVE g[(1 + p) + (k + 1)] = Booked(h, P, L, p, k + 1)
      OBVIOUS
    <3>1. k <= l /\ k + 1 \in 1 .. l /\ (1 + p) + (k + 1) \in 1 .. Len(all)
          /\ ((1 + p) + (k + 1)) - 1 = (1 + p) + k
      BY <1>1, <1>9
    <3>2. g[(1 + p) + k] = Booked(h, P, L, p, k)
      BY <2>2, <3>1
    <3> HIDE DEF S
    <3>3. all[(1 + p) + (k + 1)] = t[k + 1]
      BY <1>9, <3>1
    <3>4. g[(1 + p) + (k + 1)] = Figures!Handle(Booked(h, P, L, p, k), t[k + 1])
      BY <1>11, <3>1, <3>2, <3>3
    <3>5. t[k + 1].type = "LineItemRecorded" /\ t[k + 1].item = L[k + 1]
      BY <1>7, <3>1
    <3>6. Figures!Handle(Booked(h, P, L, p, k), t[k + 1]) = Booked(h, P, L, p, k + 1)
      BY <1>1, <3>5, HandleLists
    <3> QED
      BY <3>4, <3>6
  <2> HIDE DEF S
  <2>3. l \in S
    <3>1. S \in SUBSET Nat
      BY DEF S
    <3>2. \A k \in Nat : k \in S
      BY <2>1, <2>2, <3>1, AllNumbers
    <3> QED
      BY <1>1, <3>2
  <2> QED
    BY <1>1, <2>3 DEF S
<1>15. Booked(h, P, L, p, l) = [head |-> h, payments |-> P, items |-> L]
  BY <1>4 DEF Booked
<1> QED
  BY <1>3, <1>5, <1>9, <1>11, <1>14, <1>15

LEMMA RoundIsInt ==
  ASSUME NEW a \in Int, NEW b \in Nat \ {0}
  PROVE  Figures!Round(a, b) \in Int
<1>1. 2 * a + b \in Int /\ 2 * b \in Int /\ 2 * b > 0
  OBVIOUS
<1>2. \A x, y \in Int : y > 0 => x \div y \in Int
  OBVIOUS
<1> QED
  BY <1>1, <1>2 DEF Figures!Round

\* What a line may state of a discount.
Discounts == [amount : Int, percentage : Int]

LEMMA DiscountIsInt ==
  ASSUME NEW discount \in Discounts, NEW gross \in Int
  PROVE  Figures!DiscountOf(discount, gross) \in Int
<1>1. CASE discount.amount # Figures!Absent
  <2>1. Figures!DiscountOf(discount, gross) = Figures!Abs(discount.amount)
    BY <1>1 DEF Figures!DiscountOf
  <2>2. discount.amount \in Int
    BY DEF Discounts
  <2> QED
    BY <2>1, <2>2 DEF Figures!Abs
<1>2. CASE discount.amount = Figures!Absent /\ discount.percentage # Figures!Absent
  <2>1. Figures!DiscountOf(discount, gross) = Figures!Round(gross * discount.percentage, 100)
    BY <1>2 DEF Figures!DiscountOf
  <2>2. gross * discount.percentage \in Int /\ 100 \in Nat \ {0}
    BY DEF Discounts
  <2> QED
    BY <2>1, <2>2, RoundIsInt
<1>3. CASE discount.amount = Figures!Absent /\ discount.percentage = Figures!Absent
  <2>1. Figures!DiscountOf(discount, gross) = 0
    BY <1>3 DEF Figures!DiscountOf
  <2> QED
    BY <2>1
<1> QED
  BY <1>1, <1>2, <1>3

LEMMA LineAmounts ==
  ASSUME NEW line \in Lines, NEW paid \in BOOLEAN
  PROVE  LET item == Figures!LineItem(line, paid)
         IN  /\ item.gross \in Int /\ item.discount \in Int
             /\ item.net = item.gross - item.discount
             /\ item.collected = IF paid /\ ~line.refunded /\ item.net > 0 THEN item.net ELSE 0
<1> DEFINE gross == Figures!Gross(line)
           discount == Figures!SumLineDiscounts(line, gross)
           net == gross - discount
<1>1. gross \in Int
  <2>1. line.price \in Int /\ line.price * line.unitQty \in Int /\ 1000 \in Nat \ {0}
    <3>1. line.price \in Int /\ line.unitQty \in Int
      BY DEF Lines
    <3> QED
      BY <3>1
  <2>2. Figures!Round(line.price * line.unitQty, 1000) \in Int
    BY <2>1, RoundIsInt
  <2> QED
    BY <2>1, <2>2 DEF Figures!Gross
<1> HIDE DEF gross
<1>2. discount \in Int
  <2> DEFINE d == line.discounts
             n == Len(d)
             s == [k \in DOMAIN d |-> Figures!DiscountOf(d[k], gross)]
  <2>1. d \in Seq(Discounts)
    BY DEF Lines, Discounts
  <2>2. discount = Figures!SumOf(s)
    BY DEF Figures!SumLineDiscounts
  <2> HIDE DEF d, discount
  <2>3. n \in Nat /\ DOMAIN d = 1 .. n /\ \A k \in 1 .. n : d[k] \in Discounts
    BY <2>1
  <2>4. \A k \in 1 .. n : s[k] = Figures!DiscountOf(d[k], gross)
    BY <2>3
  <2>5. \A k \in 1 .. n : s[k] \in Int
    BY <1>1, <2>3, <2>4, DiscountIsInt
  <2>6. Len(s) = n
    BY <2>3
  <2> HIDE DEF s, n
  <2>7. discount = Sum(s, n)
    BY <2>2, <2>3, <2>6, SumsAre
  <2>8. \A k \in 0 .. n : Sum(s, k) \in Int
    BY <2>3, <2>5, SumIsInt
  <2> QED
    BY <2>3, <2>7, <2>8
<1> DEFINE item == [gross |-> gross, discount |-> discount, net |-> net,
                    refunded |-> line.refunded,
                    collected |-> IF paid /\ ~line.refunded /\ net > 0 THEN net ELSE 0]
<1>3. Figures!LineItem(line, paid) = item
  BY DEF Figures!LineItem, gross
<1> HIDE DEF discount
<1> QED
  BY <1>1, <1>2, <1>3

\* A booked revision that is Clover's is its order, and the tables took it.
FiguresInv ==
  /\ receipt \in Receipts /\ revision \in Nat
  /\ booked # <<>> => booked.head.modified \in Nat /\ booked.head.modified <= revision
  /\ booked # <<>> /\ booked.head.modified = revision =>
       booked = AsBooked(receipt, revision) /\ Figures!Storable(booked)

LEMMA InitFigures == Figures!Init => FiguresInv
BY DEF Figures!Init, FiguresInv

LEMMA StepKeepsFigures == FiguresInv /\ [Figures!Next]_(Figures!vars) => FiguresInv'
<1> SUFFICES ASSUME FiguresInv, [Figures!Next]_(Figures!vars) PROVE FiguresInv'
  OBVIOUS
<1>1. ASSUME NEW order \in Receipts, Figures!Modify(order) PROVE FiguresInv'
  BY <1>1 DEF FiguresInv, Figures!Modify
<1>2. CASE Figures!Book
  <2>1. receipt \in Receipts /\ receipt' = receipt /\ revision' = revision /\ revision \in Nat
    BY <1>2 DEF FiguresInv, Figures!Book
  <2>2. Figures!Refreshed = AsBooked(receipt, revision)
    BY <2>1, RecordsWhole DEF Figures!Refreshed
  <2>3. CASE Figures!Storable(Figures!Refreshed)
    <3>1. booked' = AsBooked(receipt, revision)
      BY <1>2, <2>2, <2>3 DEF Figures!Book
    <3>2. AsBooked(receipt, revision).head.modified = revision
      BY DEF AsBooked, Figures!OrderRecorded
    <3>3. Figures!Storable(AsBooked(receipt, revision))
      BY <2>2, <2>3
    <3>4. Figures!Storable(booked)'
      <4>1. \A b : b = AsBooked(receipt, revision) => Figures!Storable(b)
        BY <3>3
      <4> QED
        BY <3>1, <4>1 DEF Figures!Storable
    <3> QED
      BY <2>1, <3>1, <3>2, <3>4 DEF FiguresInv
  <2>4. CASE ~Figures!Storable(Figures!Refreshed)
    <3>1. booked' = booked
      BY <1>2, <2>4 DEF Figures!Book
    <3>2. Figures!Storable(booked)' <=> Figures!Storable(booked)
      BY <3>1 DEF Figures!Storable
    <3> QED
      BY <2>1, <3>1, <3>2 DEF FiguresInv
  <2> QED
    BY <2>3, <2>4
<1>3. CASE UNCHANGED Figures!vars
  <2>1. receipt' = receipt /\ revision' = revision /\ booked' = booked
    BY <1>3 DEF Figures!vars
  <2>2. Figures!Storable(booked)' <=> Figures!Storable(booked)
    BY <2>1 DEF Figures!Storable
  <2> QED
    BY <2>1, <2>2 DEF FiguresInv
<1> QED
  BY <1>1, <1>2, <1>3 DEF Figures!Next

LEMMA PaymentsAre ==
  ASSUME NEW order \in Receipts
  PROVE  \A k \in 1 .. Len(order.payments) :
           LET p == Figures!PaymentItems(order)[k]
           IN  /\ p.amount = order.payments[k].amount /\ p.amount \in Int /\ p.tax \in Int
               /\ p.status = "paid" <=> order.payments[k].result \in {"SUCCESS", "AUTH_COMPLETED"}
<1> DEFINE o == order.payments
           P == Figures!PaymentItems(order)
<1>1. o \in Seq(Payments)
  BY FiguresAssumption DEF Payments
<1>2. P = [k \in DOMAIN o |->
             [amount |-> o[k].amount, tax |-> o[k].tax, result |-> o[k].result,
              status |-> Figures!ToPaymentStatus(o[k].result)]]
  BY DEF Figures!PaymentItems
<1> HIDE DEF o, P
<1>3. DOMAIN o = 1 .. Len(o) /\ \A k \in 1 .. Len(o) : o[k] \in Payments
  BY <1>1
<1>4. ASSUME NEW k \in 1 .. Len(o)
      PROVE  /\ P[k].amount = o[k].amount /\ P[k].amount \in Int /\ P[k].tax \in Int
             /\ P[k].status = "paid" <=> o[k].result \in {"SUCCESS", "AUTH_COMPLETED"}
  <2> DEFINE r == o[k].result
  <2>1. o[k].amount \in Int /\ o[k].tax \in Int
    BY <1>3 DEF Payments
  <2>2. /\ P[k].amount = o[k].amount /\ P[k].tax = o[k].tax
        /\ P[k].status = Figures!ToPaymentStatus(r)
    BY <1>2, <1>3
  <2> HIDE DEF r
  <2>3. Figures!ToPaymentStatus(r) = "paid" <=> r \in {"SUCCESS", "AUTH_COMPLETED"}
    <3>1. CASE r \in {"SUCCESS", "AUTH_COMPLETED"}
      <4>1. r \notin {"FAIL", "VOIDED"}
        BY <3>1
      <4>2. Figures!ToPaymentStatus(r) = "paid"
        BY <3>1, <4>1 DEF Figures!ToPaymentStatus
      <4> QED
        BY <3>1, <4>2
    <3>2. CASE r \in {"FAIL", "VOIDED"}
      <4>1. r \notin {"SUCCESS", "AUTH_COMPLETED"}
        BY <3>2
      <4>2. Figures!ToPaymentStatus(r) = "rejected"
        BY <3>2, <4>1 DEF Figures!ToPaymentStatus
      <4> QED
        BY <4>1, <4>2
    <3>3. CASE r \notin {"SUCCESS", "AUTH_COMPLETED"} /\ r \notin {"FAIL", "VOIDED"}
      <4>1. Figures!ToPaymentStatus(r) = "incomplete"
        BY <3>3 DEF Figures!ToPaymentStatus
      <4> QED
        BY <3>3, <4>1
    <3> QED
      BY <3>1, <3>2, <3>3
  <2> QED
    BY <2>1, <2>2, <2>3 DEF r
<1> QED
  BY <1>4 DEF o, P

\* What the figures of an order the tables take amount to.
LEMMA FiguresAddUp ==
  ASSUME NEW order \in Receipts, NEW when, Figures!Storable(AsBooked(order, when))
  PROVE  LET head  == Figures!OrderRecorded(order, when)
             items == Figures!LineItems(order)
             payments == Figures!PaymentItems(order)
         IN  /\ head.subtotal + head.tax = head.total
             /\ head.discount = Figures!SumOf([k \in DOMAIN items |-> items[k].gross - items[k].net])
             /\ head.collected <= Figures!Amounts(payments)
             /\ (head.collected = 0) <=>
                  \A k \in DOMAIN order.payments :
                    \/ order.payments[k].result \notin {"SUCCESS", "AUTH_COMPLETED"}
                    \/ order.payments[k].amount = 0
<1> DEFINE head  == Figures!OrderRecorded(order, when)
           L == Figures!LineItems(order)
           P == Figures!PaymentItems(order)
           o == order.payments
           p == Len(o)
           l == Len(Figures!Sold(order))
           amounts == [k \in DOMAIN P |-> P[k].amount]
           taxes == [k \in DOMAIN P |-> P[k].tax]
           kept == [k \in DOMAIN P |-> IF P[k].status = "paid" THEN P[k].amount ELSE 0]
           discounts == [k \in DOMAIN L |-> L[k].discount]
           deducted == [k \in DOMAIN L |-> L[k].gross - L[k].net]
           total == IF order.total = Figures!Absent THEN Figures!SumOf(amounts) ELSE order.total
<1>1. p \in Nat /\ l \in Nat /\ DOMAIN P = 1 .. p /\ DOMAIN L = 1 .. l
  BY ItemsAre
<1>2. /\ head.subtotal = total - head.tax /\ head.total = total
      /\ head.tax = Figures!SumOf(taxes)
      /\ head.discount = Figures!SumOf(discounts)
      /\ head.collected = Figures!SumOf(kept)
  BY DEF Figures!OrderRecorded, Figures!Amounts
<1>3. Figures!Amounts(P) = Figures!SumOf(amounts)
  BY DEF Figures!Amounts
<1>4. \A k \in 1 .. p : /\ P[k].amount = o[k].amount /\ P[k].amount \in Int /\ P[k].tax \in Int
                        /\ P[k].status = "paid" <=> o[k].result \in {"SUCCESS", "AUTH_COMPLETED"}
  BY PaymentsAre
<1>5. \A k \in 1 .. l : /\ L[k].gross \in Int /\ L[k].discount \in Int
                        /\ L[k].net = L[k].gross - L[k].discount
  <2> SUFFICES ASSUME NEW k \in 1 .. l
               PROVE  /\ L[k].gross \in Int /\ L[k].discount \in Int
                      /\ L[k].net = L[k].gross - L[k].discount
    OBVIOUS
  <2>1. Figures!Sold(order) \in Seq(Lines)
    BY SoldAre
  <2>2. Figures!Sold(order)[k] \in Lines /\ k \in DOMAIN Figures!Sold(order)
    BY <2>1
  <2>3. L[k] = Figures!LineItem(Figures!Sold(order)[k], order.state = "PAID")
    BY <2>2 DEF Figures!LineItems
  <2>4. (order.state = "PAID") \in BOOLEAN
    OBVIOUS
  <2> HIDE DEF L, l
  <2> QED
    BY <2>2, <2>3, <2>4, LineAmounts
<1>6. \A k \in 1 .. p : P[k].amount >= 0
  <2>1. AsBooked(order, when).payments = P
    BY DEF AsBooked
  <2> QED
    BY <1>1, <2>1 DEF Figures!Storable
<1>7. order.total \in Int
  BY FiguresAssumption
<1>8. DOMAIN o = 1 .. p
  <2>1. o \in Seq(Payments)
    BY FiguresAssumption DEF Payments
  <2> QED
    BY <2>1
<1> HIDE DEF head, L, P, o, p, l, amounts, taxes, kept, discounts, deducted, total
<1>9. Len(amounts) = p /\ Len(taxes) = p /\ Len(kept) = p /\ Len(discounts) = l /\ Len(deducted) = l
  BY <1>1 DEF amounts, taxes, kept, discounts, deducted
<1>10. /\ Figures!SumOf(amounts) = Sum(amounts, p) /\ Figures!SumOf(taxes) = Sum(taxes, p)
       /\ Figures!SumOf(kept) = Sum(kept, p)
       /\ Figures!SumOf(discounts) = Sum(discounts, l) /\ Figures!SumOf(deducted) = Sum(deducted, l)
  BY <1>1, <1>9, SumsAre
<1>11. \A k \in 1 .. p : /\ amounts[k] = P[k].amount /\ taxes[k] = P[k].tax
                         /\ kept[k] = IF P[k].status = "paid" THEN P[k].amount ELSE 0
  BY <1>1 DEF amounts, taxes, kept
<1>12. \A k \in 1 .. l : discounts[k] = deducted[k]
  <2>1. \A k \in 1 .. l : discounts[k] = L[k].discount /\ deducted[k] = L[k].gross - L[k].net
    BY <1>1 DEF discounts, deducted
  <2> QED
    BY <1>5, <2>1
<1>13. head.subtotal + head.tax = head.total
  <2>1. Sum(amounts, p) \in Int /\ Sum(taxes, p) \in Int
    <3>1. \A k \in 1 .. p : amounts[k] \in Int /\ taxes[k] \in Int
      BY <1>4, <1>11
    <3>2. p \in 0 .. p
      BY <1>1
    <3> QED
      BY <1>1, <3>1, <3>2, SumIsInt
  <2>2. total \in Int
    BY <1>7, <1>10, <2>1 DEF total
  <2> QED
    BY <1>2, <1>10, <2>1, <2>2
<1>14. head.discount = Figures!SumOf(deducted)
  <2>1. Sum(discounts, l) = Sum(deducted, l)
    BY <1>1, <1>12, SumsEqual
  <2> QED
    BY <1>2, <1>10, <2>1
<1>15. \A k \in 1 .. p : amounts[k] \in Nat /\ kept[k] \in Nat /\ kept[k] <= amounts[k]
  BY <1>4, <1>6, <1>11
<1>16. head.collected <= Figures!Amounts(P)
  <2>1. Sum(kept, p) <= Sum(amounts, p)
    <3>1. \A k \in 1 .. p : kept[k] \in Int /\ amounts[k] \in Int /\ kept[k] <= amounts[k]
      BY <1>15
    <3> QED
      BY <1>1, <3>1, SumsOrdered
  <2> QED
    BY <1>2, <1>3, <1>10, <2>1
<1>17. (head.collected = 0) <=>
         \A k \in DOMAIN o : \/ o[k].result \notin {"SUCCESS", "AUTH_COMPLETED"}
                             \/ o[k].amount = 0
  <2>1. Sum(kept, p) = 0 <=> \A k \in 1 .. p : kept[k] = 0
    BY <1>1, <1>15, SumOfNaturals
  <2>2. \A k \in 1 .. p : kept[k] = 0 <=> \/ o[k].result \notin {"SUCCESS", "AUTH_COMPLETED"}
                                              \/ o[k].amount = 0
    BY <1>4, <1>11
  <2> QED
    BY <1>2, <1>8, <1>10, <2>1, <2>2
<1> QED
  BY <1>13, <1>14, <1>16, <1>17 DEF head, L, P, o, deducted

LEMMA CollectedIsDue ==
  ASSUME NEW order \in Receipts, NEW when, Figures!Storable(AsBooked(order, when))
  PROVE  LET items == Figures!LineItems(order)
             sold  == Figures!Sold(order)
         IN  \A k \in DOMAIN items :
               items[k].collected =
                 IF k \in {j \in DOMAIN sold : order.state = "PAID" /\ ~sold[j].refunded}
                   THEN items[k].net ELSE 0
<1> DEFINE L == Figures!LineItems(order)
           sold == Figures!Sold(order)
           l == Len(sold)
<1>1. l \in Nat /\ DOMAIN L = 1 .. l
  BY ItemsAre
<1>2. sold \in Seq(Lines)
  BY SoldAre
<1>3. DOMAIN sold = 1 .. l /\ \A k \in 1 .. l : sold[k] \in Lines
  BY <1>2
<1>4. \A k \in DOMAIN L : L[k].net >= 0
  <2>1. AsBooked(order, when).items = L
    BY DEF AsBooked
  <2> QED
    BY <2>1 DEF Figures!Storable
<1> SUFFICES ASSUME NEW k \in DOMAIN L
             PROVE  L[k].collected =
                      IF k \in {j \in DOMAIN sold : order.state = "PAID" /\ ~sold[j].refunded}
                        THEN L[k].net ELSE 0
  OBVIOUS
<1>5. k \in 1 .. l /\ L[k].net >= 0
  BY <1>1, <1>4
<1>6. L[k] = Figures!LineItem(sold[k], order.state = "PAID")
  BY <1>3, <1>5 DEF Figures!LineItems
<1> HIDE DEF L, sold, l
<1>7. /\ L[k].gross \in Int /\ L[k].discount \in Int /\ L[k].net = L[k].gross - L[k].discount
      /\ L[k].collected = IF (order.state = "PAID") /\ ~sold[k].refunded /\ L[k].net > 0
                            THEN L[k].net ELSE 0
  <2>1. (order.state = "PAID") \in BOOLEAN /\ sold[k] \in Lines
    BY <1>3, <1>5
  <2> QED
    BY <1>6, <2>1, LineAmounts
<1> QED
  BY <1>3, <1>5, <1>7

LEMMA SameCardinality == \A S : Figures!Cardinality(S) = Cardinality(S)
BY DEF Figures!Cardinality, Cardinality

LEMMA FiguresAreOrders == FiguresInv => Figures!FiguresFollowOrder
<1> SUFFICES ASSUME FiguresInv, booked # <<>>, booked.head.modified = revision
             PROVE  Figures!FiguresFollowOrder
  BY DEF Figures!FiguresFollowOrder
<1>1. receipt \in Receipts /\ booked = AsBooked(receipt, revision) /\ Figures!Storable(booked)
  BY DEF FiguresInv
<1>2. /\ booked.head = Figures!OrderRecorded(receipt, revision)
      /\ booked.items = Figures!LineItems(receipt)
      /\ booked.payments = Figures!PaymentItems(receipt)
  BY <1>1 DEF AsBooked
<1>3. Figures!Storable(AsBooked(receipt, revision))
  BY <1>1
<1>4. Len(booked.items) = Cardinality({k \in DOMAIN receipt.lines : ~receipt.lines[k].exchanged})
  BY <1>1, <1>2, ItemsAre, SoldAre
<1>5. Len(booked.payments) = Len(receipt.payments)
  BY <1>1, <1>2, ItemsAre
<1>6. LET head == booked.head
          items == booked.items
      IN /\ head.subtotal + head.tax = head.total
         /\ head.discount = Figures!SumOf([k \in DOMAIN items |-> items[k].gross - items[k].net])
         /\ head.collected <= Figures!Amounts(booked.payments)
         /\ (head.collected = 0) <=>
              \A k \in DOMAIN receipt.payments :
                \/ receipt.payments[k].result \notin {"SUCCESS", "AUTH_COMPLETED"}
                \/ receipt.payments[k].amount = 0
  BY <1>1, <1>2, <1>3, FiguresAddUp
<1>7. LET dues == {k \in DOMAIN Figures!Sold(receipt) :
                    receipt.state = "PAID" /\ ~Figures!Sold(receipt)[k].refunded}
          items == booked.items
      IN \A k \in DOMAIN items :
           items[k].collected = (IF k \in dues THEN items[k].net ELSE 0)
  BY <1>1, <1>2, <1>3, CollectedIsDue
<1>8. Len(booked.items) = Figures!Cardinality({k \in DOMAIN receipt.lines : ~receipt.lines[k].exchanged})
  BY <1>4, SameCardinality
<1> QED
  BY <1>5, <1>6, <1>7, <1>8 DEF Figures!FiguresFollowOrder

\* A booked revision has the figures of Clover's order: its sold lines, what they and the
\* payments add up to, only settled payments collected, only due lines shared out; for
\* any orders, revisions, discounts and weights (OrderFigures: jobs/orders.ts,
\* order.actions.ts, order.events.ts).
THEOREM FiguresFollow == Figures!Spec => []Figures!FiguresFollowOrder
<1> QED
  BY InitFigures, StepKeepsFigures, FiguresAreOrders, PTL DEF Figures!Spec

-----------------------------------------------------------------------------
(* The two pages of figures: their calendar, their sums and their queries.  *)

\* How many months there are.
Months == Len(MonthLengths)

\* The months end on days that are numbers, each later than the one before it.
LEMMA MonthEnds ==
  /\ Months \in Nat /\ Months >= 1
  /\ DOMAIN MonthLengths = 1 .. Months
  /\ Sales!MonthEnd(0) = 0
  /\ \A m \in 0 .. Months : Sales!MonthEnd(m) \in Nat
  /\ \A m \in 1 .. Months : Sales!MonthEnd(m - 1) < Sales!MonthEnd(m)
  /\ Sales!Length(MonthLengths) = Sales!MonthEnd(Months)
<1> DEFINE n == Months
           End(m) == Sales!MonthEnd(m)
<1>1. n \in Nat /\ n >= 1 /\ DOMAIN MonthLengths = 1 .. n /\ Len(MonthLengths) = n
      /\ \A m \in 1 .. n : MonthLengths[m] \in Nat \ {0}
  BY SalesAssumption DEF Months
<1>2. \A m \in Nat : End(m) = Sum(MonthLengths, m)
  BY SumsAre DEF Sales!MonthEnd
<1>3. Sales!Length(MonthLengths) = End(n)
  BY DEF Sales!Length, Sales!MonthEnd, Months
<1> HIDE DEF n, End
<1>4. \A m \in 0 .. n : End(m) \in Int
  <2>1. \A k \in 1 .. n : MonthLengths[k] \in Int
    BY <1>1
  <2>2. \A m \in 0 .. n : m \in Nat
    BY <1>1
  <2> QED
    BY <1>1, <1>2, <2>1, <2>2, SumIsInt
<1>5. End(0) = 0
  BY <1>2, SumGrows
<1>6. \A m \in 1 .. n : End(m) = End(m - 1) + MonthLengths[m]
  <2> SUFFICES ASSUME NEW m \in 1 .. n PROVE End(m) = End(m - 1) + MonthLengths[m]
    OBVIOUS
  <2>1. m \in Nat /\ m - 1 \in Nat /\ (m - 1) + 1 = m
    BY <1>1
  <2>2. Sum(MonthLengths, (m - 1) + 1) = Sum(MonthLengths, m - 1) + MonthLengths[(m - 1) + 1]
    BY <2>1, SumGrows
  <2> QED
    BY <1>2, <2>1, <2>2
<1>7. \A m \in 1 .. n : m - 1 \in 0 .. n /\ m \in 0 .. n
  BY <1>1
<1>8. \A m \in 1 .. n : End(m - 1) < End(m)
  <2> SUFFICES ASSUME NEW m \in 1 .. n PROVE End(m - 1) < End(m)
    OBVIOUS
  <2> DEFINE before == End(m - 1)
             after == End(m)
             length == MonthLengths[m]
  <2>1. before \in Int /\ length \in Nat \ {0} /\ after = before + length
    BY <1>1, <1>4, <1>6, <1>7
  <2> HIDE DEF before, after, length
  <2>2. before < after
    BY <2>1
  <2> QED
    BY <2>2 DEF before, after
<1>9. \A m \in 0 .. n : End(m) \in Nat
  <2> DEFINE S == {m \in Nat : m <= n => End(m) \in Nat}
  <2>1. 0 \in S
    BY <1>5
  <2>2. ASSUME NEW m \in Nat, m \in S PROVE m + 1 \in S
    <3> SUFFICES ASSUME m + 1 <= n PROVE End(m + 1) \in Nat
      OBVIOUS
    <3>1. m + 1 \in 1 .. n /\ (m + 1) - 1 = m /\ m <= n
      BY <1>1
    <3> QED
      BY <1>1, <1>6, <2>2, <3>1
  <2> HIDE DEF S
  <2>3. S \in SUBSET Nat
    BY DEF S
  <2>4. \A m \in Nat : m \in S
    BY <2>1, <2>2, <2>3, AllNumbers
  <2> QED
    BY <1>1, <2>4 DEF S
<1> QED
  BY <1>1, <1>3, <1>5, <1>8, <1>9 DEF n, End

\* Of two months the later ends later.
LEMMA EndsOrdered ==
  \A a, b \in 0 .. Months : a <= b => Sales!MonthEnd(a) <= Sales!MonthEnd(b)
<1> DEFINE End(m) == Sales!MonthEnd(m)
<1> HIDE DEF End
<1>1. /\ Months \in Nat
      /\ \A m \in 0 .. Months : End(m) \in Nat
      /\ \A m \in 1 .. Months : End(m - 1) < End(m)
  BY MonthEnds DEF End
<1> SUFFICES ASSUME NEW a \in 0 .. Months
             PROVE  \A b \in 0 .. Months : a <= b => End(a) <= End(b)
  BY DEF End
<1> DEFINE S == {b \in Nat : b <= Months /\ a <= b => End(a) <= End(b)}
<1>2. a \in Nat /\ End(a) \in Nat
  BY <1>1
<1>3. 0 \in S
  BY <1>2
<1>4. ASSUME NEW b \in Nat, b \in S PROVE b + 1 \in S
  <2> SUFFICES ASSUME b + 1 <= Months, a <= b + 1 PROVE End(a) <= End(b + 1)
    OBVIOUS
  <2>1. CASE a = b + 1
    BY <1>2, <2>1
  <2>2. CASE a # b + 1
    <3>1. a <= b /\ b <= Months /\ b + 1 \in 1 .. Months /\ (b + 1) - 1 = b
          /\ b \in 0 .. Months /\ b + 1 \in 0 .. Months
      BY <1>1, <1>2, <2>2
    <3>2. End(b) < End(b + 1) /\ End(b) \in Nat /\ End(b + 1) \in Nat
      BY <1>1, <3>1
    <3> QED
      BY <1>2, <1>4, <3>1, <3>2
  <2> QED
    BY <2>1, <2>2
<1> HIDE DEF S
<1>5. S \in SUBSET Nat
  BY DEF S
<1>6. \A b \in Nat : b \in S
  BY <1>3, <1>4, <1>5, AllNumbers
<1> QED
  BY <1>1, <1>6 DEF S

\* Every day is in one month.
LEMMA DaysHaveMonths ==
  \A day \in Sales!Days :
    /\ Sales!MonthOf(day) \in 1 .. Months
    /\ Sales!MonthStart(Sales!MonthOf(day)) <= day
    /\ day <= Sales!MonthEnd(Sales!MonthOf(day))
<1> DEFINE End(m) == Sales!MonthEnd(m)
           Start(m) == Sales!MonthStart(m)
<1>1. /\ Months \in Nat /\ DOMAIN MonthLengths = 1 .. Months /\ End(0) = 0
      /\ \A m \in 0 .. Months : End(m) \in Nat
  BY MonthEnds
<1>2. Sales!Days = 1 .. End(Months)
  BY MonthEnds DEF Sales!Days
<1>3. \A m : Start(m) = End(m - 1) + 1
  BY DEF Sales!MonthStart
<1>4. \A day : Sales!MonthOf(day) = CHOOSE m \in 1 .. Months : Start(m) <= day /\ day <= End(m)
  BY <1>1 DEF Sales!MonthOf
<1> HIDE DEF End, Start
<1> SUFFICES ASSUME NEW day \in Sales!Days
             PROVE  \E m \in 1 .. Months : Start(m) <= day /\ day <= End(m)
  BY <1>4 DEF End, Start
<1> DEFINE later == {m \in 0 .. Months : day <= End(m)}
<1>5. day \in Nat /\ day >= 1 /\ day <= End(Months) /\ Months \in 0 .. Months
  BY <1>1, <1>2
<1>6. later \in SUBSET Nat /\ later # {}
  BY <1>1, <1>5
<1>7. PICK m \in later : \A n \in later : m <= n
  BY <1>6, LeastNumber
<1>8. m \in 0 .. Months /\ m \in Nat /\ day <= End(m)
  BY <1>1, <1>7
<1>9. m # 0
  BY <1>1, <1>5, <1>8
<1>10. m \in 1 .. Months /\ m - 1 \in 0 .. Months /\ ~(m <= m - 1)
  BY <1>1, <1>8, <1>9
<1>11. ~(day <= End(m - 1)) /\ End(m - 1) \in Nat
  BY <1>1, <1>7, <1>10
<1>12. Start(m) <= day
  BY <1>3, <1>5, <1>11
<1> QED
  BY <1>8, <1>10, <1>12

\* ... and in no other.
LEMMA MonthIsOne ==
  ASSUME NEW day \in Sales!Days, NEW m \in 1 .. Months,
         Sales!MonthStart(m) <= day, day <= Sales!MonthEnd(m)
  PROVE  Sales!MonthOf(day) = m
<1> DEFINE End(k) == Sales!MonthEnd(k)
           Start(k) == Sales!MonthStart(k)
           o == Sales!MonthOf(day)
<1>1. o \in 1 .. Months /\ Start(o) <= day /\ day <= End(o) /\ Start(m) <= day /\ day <= End(m)
  BY DaysHaveMonths
<1>2. /\ Months \in Nat
      /\ \A k \in 0 .. Months : End(k) \in Nat
      /\ \A a, b \in 0 .. Months : a <= b => End(a) <= End(b)
  BY MonthEnds, EndsOrdered
<1>3. \A k : Start(k) = End(k - 1) + 1
  BY DEF Sales!MonthStart
<1>4. day \in Int
  BY MonthEnds DEF Sales!Days
<1> HIDE DEF End, Start, o
<1>5. ASSUME NEW a \in 1 .. Months, NEW b \in 1 .. Months, a < b,
             Start(b) <= day, day <= End(a)
      PROVE  FALSE
  <2>1. a \in 0 .. Months /\ b - 1 \in 0 .. Months /\ a <= b - 1
    BY <1>2, <1>5
  <2>2. End(a) <= End(b - 1) /\ End(a) \in Nat /\ End(b - 1) \in Nat
    BY <1>2, <2>1
  <2> QED
    BY <1>3, <1>4, <1>5, <2>2
<1>6. ~(o < m) /\ ~(m < o)
  BY <1>1, <1>5
<1>7. o \in Int /\ m \in Int
  BY <1>1, <1>2
<1>8. o = m
  BY <1>6, <1>7
<1> QED
  BY <1>8 DEF o

\* The store's orders, none of a day to come.
LedgerEntries == [day : Sales!Days, paid : BOOLEAN, seller : Sellers \cup {Sales!Unfiled}, cents : Nat]
IsLedger(orders, day) ==
  /\ day \in Sales!Days
  /\ orders \in Seq(LedgerEntries)
  /\ \A k \in DOMAIN orders : orders[k].day <= day

\* The cents that Gross adds up.
Counted(orders, ids) == [k \in 1 .. Len(orders) |-> IF k \in ids THEN orders[k].cents ELSE 0]

\* What an order of the store has.
LEMMA LedgerFacts ==
  ASSUME NEW orders \in Seq(LedgerEntries)
  PROVE  /\ Len(orders) \in Nat /\ DOMAIN orders = 1 .. Len(orders)
         /\ \A k \in 1 .. Len(orders) :
              /\ orders[k].day \in Sales!Days /\ orders[k].paid \in BOOLEAN
              /\ orders[k].cents \in Nat
<1>1. Len(orders) \in Nat /\ DOMAIN orders = 1 .. Len(orders)
      /\ \A k \in 1 .. Len(orders) : orders[k] \in LedgerEntries
  OBVIOUS
<1> QED
  BY <1>1 DEF LedgerEntries

\* Gross is the sum of the counted cents.
LEMMA GrossIs ==
  ASSUME NEW orders \in Seq(LedgerEntries), NEW ids
  PROVE  /\ Len(orders) \in Nat
         /\ Sales!Gross(orders, ids) = Sum(Counted(orders, ids), Len(orders))
         /\ \A k \in 1 .. Len(orders) :
              /\ Counted(orders, ids)[k] = IF k \in ids THEN orders[k].cents ELSE 0
              /\ Counted(orders, ids)[k] \in Nat
<1>1. Len(orders) \in Nat
  BY LedgerFacts
<1>2. Sales!Gross(orders, ids) = Sum(Counted(orders, ids), Len(orders))
  BY <1>1, SumsAre DEF Sales!Gross, Counted
<1>3. \A k \in 1 .. Len(orders) : Counted(orders, ids)[k] = IF k \in ids THEN orders[k].cents ELSE 0
  BY DEF Counted
<1> QED
  BY <1>1, <1>2, <1>3, LedgerFacts

\* It is a number ...
LEMMA GrossBounds ==
  ASSUME NEW orders \in Seq(LedgerEntries), NEW ids
  PROVE  /\ Sales!Gross(orders, ids) \in Nat
         /\ \A k \in ids \cap DOMAIN orders : orders[k].cents <= Sales!Gross(orders, ids)
<1> DEFINE c == Counted(orders, ids)
           n == Len(orders)
<1>1. /\ n \in Nat /\ Sales!Gross(orders, ids) = Sum(c, n)
      /\ \A k \in 1 .. n : c[k] = (IF k \in ids THEN orders[k].cents ELSE 0) /\ c[k] \in Nat
      /\ DOMAIN orders = 1 .. n
  BY GrossIs, LedgerFacts
<1> HIDE DEF c, n
<1>2. Sum(c, n) \in Nat /\ \A k \in 1 .. n : c[k] <= Sum(c, n)
  BY <1>1, SumOfNaturals
<1> QED
  BY <1>1, <1>2

\* ... 0 of no orders ...
LEMMA GrossOfNone ==
  ASSUME NEW orders \in Seq(LedgerEntries)
  PROVE  Sales!Gross(orders, {}) = 0
<1> DEFINE c == Counted(orders, {})
           n == Len(orders)
<1>1. /\ n \in Nat /\ Sales!Gross(orders, {}) = Sum(c, n)
      /\ \A k \in 1 .. n : c[k] = 0
  BY GrossIs
<1> HIDE DEF c, n
<1>2. \A k \in 1 .. n : c[k] \in Nat
  BY <1>1
<1> QED
  BY <1>1, <1>2, SumOfNaturals

\* ... no less of more orders ...
LEMMA GrossGrows ==
  ASSUME NEW orders \in Seq(LedgerEntries), NEW A, NEW B, A \subseteq B
  PROVE  Sales!Gross(orders, A) <= Sales!Gross(orders, B)
<1> DEFINE a == Counted(orders, A)
           b == Counted(orders, B)
           n == Len(orders)
<1>1. /\ n \in Nat
      /\ \A k \in 1 .. n : a[k] = (IF k \in A THEN orders[k].cents ELSE 0) /\ a[k] \in Nat
      /\ \A k \in 1 .. n : b[k] = (IF k \in B THEN orders[k].cents ELSE 0) /\ b[k] \in Nat
  BY GrossIs
<1>2. Sales!Gross(orders, A) = Sum(a, n) /\ Sales!Gross(orders, B) = Sum(b, n)
  BY GrossIs
<1> HIDE DEF a, b, n
<1>3. \A k \in 1 .. n : a[k] \in Int /\ b[k] \in Int /\ a[k] <= b[k]
  BY <1>1
<1> QED
  BY <1>1, <1>2, <1>3, SumsOrdered

\* ... and of two sets apart the two grosses together.
LEMMA GrossOfBoth ==
  ASSUME NEW orders \in Seq(LedgerEntries), NEW A, NEW B, A \cap B = {}
  PROVE  Sales!Gross(orders, A \cup B) = Sales!Gross(orders, A) + Sales!Gross(orders, B)
<1> DEFINE a == Counted(orders, A)
           b == Counted(orders, B)
           c == Counted(orders, A \cup B)
           n == Len(orders)
<1>1. /\ n \in Nat
      /\ \A k \in 1 .. n : a[k] = (IF k \in A THEN orders[k].cents ELSE 0) /\ a[k] \in Nat
      /\ \A k \in 1 .. n : b[k] = (IF k \in B THEN orders[k].cents ELSE 0) /\ b[k] \in Nat
      /\ \A k \in 1 .. n : c[k] = (IF k \in A \cup B THEN orders[k].cents ELSE 0) /\ c[k] \in Nat
  BY GrossIs
<1>2. Sales!Gross(orders, A) = Sum(a, n) /\ Sales!Gross(orders, B) = Sum(b, n)
      /\ Sales!Gross(orders, A \cup B) = Sum(c, n)
  BY GrossIs
<1> HIDE DEF a, b, c, n
<1>3. \A k \in 1 .. n : a[k] \in Int /\ b[k] \in Int /\ c[k] = a[k] + b[k]
  BY <1>1
<1> QED
  BY <1>1, <1>2, <1>3, SumOfBoth

\* Sets of orders apart from each other: their grosses add up to all of theirs.
AllOf(ids, n) == UNION {ids[i] : i \in 1 .. n}
Apart(ids, n) == \A i, j \in 1 .. n : i # j => ids[i] \cap ids[j] = {}

\* So it is of any number of sets apart.
LEMMA GrossOfUnion ==
  ASSUME NEW orders \in Seq(LedgerEntries), NEW n \in Nat, NEW ids, NEW s,
         Apart(ids, n), \A i \in 1 .. n : s[i] = Sales!Gross(orders, ids[i])
  PROVE  Sum(s, n) = Sales!Gross(orders, AllOf(ids, n))
<1> DEFINE First(m) == UNION {ids[i] : i \in 1 .. m}
           S == {m \in Nat : m <= n => Sum(s, m) = Sales!Gross(orders, First(m))}
<1>1. 0 \in S
  <2>1. First(0) = {}
    OBVIOUS
  <2> HIDE DEF First
  <2> QED
    BY <2>1, SumGrows, GrossOfNone
<1>2. ASSUME NEW m \in Nat, m \in S PROVE m + 1 \in S
  <2> SUFFICES ASSUME m + 1 <= n PROVE Sum(s, m + 1) = Sales!Gross(orders, First(m + 1))
    OBVIOUS
  <2>1. m <= n /\ m + 1 \in 1 .. n /\ 1 .. m + 1 = (1 .. m) \cup {m + 1}
    OBVIOUS
  <2>2. First(m + 1) = First(m) \cup ids[m + 1]
    BY <2>1
  <2>3. First(m) \cap ids[m + 1] = {}
    <3>1. \A i \in 1 .. m : i \in 1 .. n /\ i # m + 1
      BY <2>1
    <3>2. \A i \in 1 .. m : ids[i] \cap ids[m + 1] = {}
      BY <2>1, <3>1 DEF Apart
    <3> QED
      BY <3>2
  <2>4. Sum(s, m) = Sales!Gross(orders, First(m))
    BY <1>2, <2>1
  <2> HIDE DEF First
  <2>5. Sales!Gross(orders, First(m + 1)) = Sales!Gross(orders, First(m)) + Sales!Gross(orders, ids[m + 1])
    BY <2>2, <2>3, GrossOfBoth
  <2>6. Sum(s, m + 1) = Sum(s, m) + s[m + 1] /\ s[m + 1] = Sales!Gross(orders, ids[m + 1])
    BY <2>1, SumGrows
  <2> QED
    BY <2>4, <2>5, <2>6
<1> HIDE DEF S
<1>3. n \in S
  <2>1. S \in SUBSET Nat
    BY DEF S
  <2> QED
    BY <1>1, <1>2, <2>1, AllNumbers
<1> QED
  BY <1>3 DEF S, AllOf

\* The paid orders from a day on and before another.
LEMMA PaidBetween ==
  ASSUME NEW orders \in Seq(LedgerEntries), NEW first, NEW end, NEW k
  PROVE  k \in Sales!PaidIn(orders, first, end) <=>
           /\ k \in 1 .. Len(orders) /\ orders[k].paid
           /\ orders[k].day >= first /\ orders[k].day < end
BY LedgerFacts DEF Sales!PaidIn

\* The day a page is of, in its month.
LEMMA NowFacts ==
  ASSUME NEW day \in Sales!Days
  PROVE  LET m == Sales!MonthOf(day)
         IN  /\ day \in Nat /\ Months \in Nat /\ m \in 1 .. Months /\ m \in Nat
             /\ Sales!MonthStart(m) \in Nat /\ Sales!MonthEnd(m) \in Nat
             /\ Sales!MonthEnd(m - 1) \in Nat
             /\ Sales!MonthStart(m) = Sales!MonthEnd(m - 1) + 1
             /\ Sales!MonthStart(m) <= day /\ day <= Sales!MonthEnd(m)
             /\ Sales!DayOfMonth(day) = day - Sales!MonthStart(m) + 1
             /\ Sales!DayOfMonth(day) \in Nat /\ Sales!DayOfMonth(day) >= 1
<1> DEFINE m == Sales!MonthOf(day)
           End(k) == Sales!MonthEnd(k)
           Start(k) == Sales!MonthStart(k)
<1>1. m \in 1 .. Months /\ Start(m) <= day /\ day <= End(m)
  BY DaysHaveMonths
<1>2. Months \in Nat /\ \A k \in 0 .. Months : End(k) \in Nat
  BY MonthEnds
<1>3. day \in Nat
  BY MonthEnds DEF Sales!Days
<1>4. Start(m) = End(m - 1) + 1
  BY DEF Sales!MonthStart
<1>5. Sales!DayOfMonth(day) = day - Start(m) + 1
  BY DEF Sales!DayOfMonth
<1> HIDE DEF m, End, Start
<1>6. m \in Nat /\ m - 1 \in 0 .. Months /\ m \in 0 .. Months
  BY <1>1, <1>2
<1>7. End(m) \in Nat /\ End(m - 1) \in Nat /\ Start(m) \in Nat
  BY <1>2, <1>4, <1>6
<1>8. Sales!DayOfMonth(day) \in Nat /\ Sales!DayOfMonth(day) >= 1
  BY <1>1, <1>3, <1>5, <1>7
<1> QED
  BY <1>1, <1>2, <1>3, <1>4, <1>5, <1>6, <1>7, <1>8 DEF m, End, Start

\* The month so far is all of the month that there is.
LEMMA MonthToDateIsMonth ==
  ASSUME NEW day, NEW orders, IsLedger(orders, day)
  PROVE  Sales!MonthToDate(orders, day) = Sales!SalesOf(orders, Sales!MonthOf(day))
<1> DEFINE m == Sales!MonthOf(day)
           End(k) == Sales!MonthEnd(k)
           Start(k) == Sales!MonthStart(k)
<1>1. /\ day \in Sales!Days /\ orders \in Seq(LedgerEntries)
      /\ DOMAIN orders = 1 .. Len(orders)
      /\ \A k \in 1 .. Len(orders) : orders[k].day \in Sales!Days /\ orders[k].day <= day
  BY LedgerFacts DEF IsLedger
<1>2. /\ day \in Nat /\ m \in 1 .. Months /\ Start(m) \in Nat /\ End(m) \in Nat
      /\ Start(m) <= day /\ day <= End(m)
  BY <1>1, NowFacts
<1>3. \A k \in 1 .. Len(orders) : orders[k].day \in Nat
  BY <1>1, NowFacts
<1>4. \A k \in 1 .. Len(orders) : orders[k].day >= Start(m) <=> Sales!MonthOf(orders[k].day) = m
  <2> SUFFICES ASSUME NEW k \in 1 .. Len(orders)
               PROVE  orders[k].day >= Start(m) <=> Sales!MonthOf(orders[k].day) = m
    OBVIOUS
  <2> DEFINE d == orders[k].day
  <2>1. d \in Sales!Days /\ d \in Nat /\ d <= day
    BY <1>1, <1>3
  <2> HIDE DEF d
  <2>2. ASSUME d >= Start(m) PROVE Sales!MonthOf(d) = m
    <3>1. Start(m) <= d /\ d <= End(m)
      BY <1>2, <2>1, <2>2
    <3> QED
      BY <1>2, <2>1, <3>1, MonthIsOne
  <2>3. ASSUME Sales!MonthOf(d) = m PROVE d >= Start(m)
    <3>1. Start(Sales!MonthOf(d)) <= d
      BY <2>1, DaysHaveMonths
    <3>2. Start(m) <= d
      BY <2>3, <3>1
    <3> QED
      BY <1>2, <2>1, <3>2
  <2> QED
    BY <2>2, <2>3 DEF d
<1>5. \A k : k \in Sales!MonthToDate(orders, day) <=>
         k \in 1 .. Len(orders) /\ orders[k].paid /\ orders[k].day >= Start(m) /\ orders[k].day < day + 1
  BY <1>1, PaidBetween DEF Sales!MonthToDate
<1>6. \A k : k \in Sales!SalesOf(orders, m) <=>
         k \in 1 .. Len(orders) /\ orders[k].paid /\ Sales!MonthOf(orders[k].day) = m
  BY <1>1 DEF Sales!SalesOf
<1> HIDE DEF m, Start
<1>7. \A k \in 1 .. Len(orders) : orders[k].day < day + 1
  BY <1>1, <1>2, <1>3
<1>8. \A k : k \in Sales!MonthToDate(orders, day) <=> k \in Sales!SalesOf(orders, m)
  BY <1>4, <1>5, <1>6, <1>7
<1>9. Sales!MonthToDate(orders, day) \subseteq DOMAIN orders
  BY DEF Sales!MonthToDate, Sales!PaidIn
<1>10. Sales!MonthToDate(orders, day) = Sales!SalesOf(orders, m)
  BY <1>8
<1> QED
  BY <1>10 DEF m

\* The bars of a month add up to its gross.
LEMMA DailyAddsUp ==
  ASSUME NEW day, NEW orders, IsLedger(orders, day)
  PROVE  Sales!Length(Sales!Daily(orders, day)) = Sales!Gross(orders, Sales!MonthToDate(orders, day))
<1> DEFINE sales == Sales!MonthToDate(orders, day)
           n == Sales!DayOfMonth(day)
           ids == [d \in 1 .. n |-> {k \in sales : Sales!DayOfMonth(orders[k].day) = d}]
           s == Sales!Daily(orders, day)
           m == Sales!MonthOf(day)
<1>1. /\ day \in Sales!Days /\ orders \in Seq(LedgerEntries)
      /\ DOMAIN orders = 1 .. Len(orders)
      /\ \A k \in 1 .. Len(orders) : orders[k].day \in Sales!Days /\ orders[k].day <= day
  BY LedgerFacts DEF IsLedger
<1>2. /\ n \in Nat /\ day \in Nat /\ n = day - Sales!MonthStart(m) + 1
      /\ Sales!MonthStart(m) \in Nat
  BY <1>1, NowFacts
<1>3. s = [d \in 1 .. n |-> Sales!Gross(orders, ids[d])]
  BY DEF Sales!Daily
<1>4. \A d \in 1 .. n : ids[d] = {k \in sales : Sales!DayOfMonth(orders[k].day) = d}
  OBVIOUS
<1>5. \A k \in sales : Sales!DayOfMonth(orders[k].day) \in 1 .. n
  <2> SUFFICES ASSUME NEW k \in sales PROVE Sales!DayOfMonth(orders[k].day) \in 1 .. n
    OBVIOUS
  <2> DEFINE d == orders[k].day
  <2>1. k \in Sales!SalesOf(orders, m)
    BY MonthToDateIsMonth
  <2>2. k \in 1 .. Len(orders) /\ Sales!MonthOf(d) = m
    BY <1>1, <2>1 DEF Sales!SalesOf
  <2>3. d \in Sales!Days /\ d <= day
    BY <1>1, <2>2
  <2>4. /\ d \in Nat /\ Sales!DayOfMonth(d) = d - Sales!MonthStart(m) + 1
        /\ Sales!DayOfMonth(d) \in Nat /\ Sales!DayOfMonth(d) >= 1
    BY <2>2, <2>3, NowFacts
  <2> HIDE DEF d, n, m
  <2>5. Sales!DayOfMonth(d) \in 1 .. n
    BY <1>2, <2>3, <2>4
  <2> QED
    BY <2>5 DEF d
<1> HIDE DEF s, n, sales, m
<1>6. s = [d \in 1 .. n |-> s[d]] /\ \A d \in 1 .. n : s[d] = Sales!Gross(orders, ids[d])
  BY <1>3
<1>7. Len(s) = n
  BY <1>2, <1>6
<1>8. Sales!Length(s) = Sum(s, n)
  BY <1>2, <1>7, SumsAre DEF Sales!Length
<1>9. AllOf(ids, n) = sales
  <2>1. \A k \in sales : k \in ids[Sales!DayOfMonth(orders[k].day)]
    BY <1>4, <1>5
  <2>2. \A d \in 1 .. n : ids[d] \subseteq sales
    BY <1>4
  <2> HIDE DEF ids
  <2> QED
    BY <1>5, <2>1, <2>2 DEF AllOf
<1>10. Apart(ids, n)
  BY <1>4 DEF Apart
<1> HIDE DEF ids
<1>11. Sum(s, n) = Sales!Gross(orders, AllOf(ids, n))
  BY <1>1, <1>2, <1>6, <1>10, GrossOfUnion
<1>12. Sales!Length(s) = Sales!Gross(orders, sales)
  BY <1>8, <1>9, <1>11
<1> QED
  BY <1>12 DEF s, sales

\* No vendor sold more than all did.
LEMMA VendorsWithin ==
  ASSUME NEW day, NEW orders, IsLedger(orders, day), NEW best \in Sales!Rankings(orders, day)
  PROVE  LET shares == [i \in DOMAIN best |-> Sales!VendorRows(orders, day, best)[i].gross]
         IN  /\ DOMAIN Sales!VendorRows(orders, day, best) = DOMAIN best
             /\ Sales!Length(shares) <= Sales!Gross(orders, Sales!MonthToDate(orders, day))
<1> DEFINE sales == Sales!MonthToDate(orders, day)
           ids == [i \in DOMAIN best |-> {k \in sales : orders[k].seller = best[i]}]
           v == Sales!VendorRows(orders, day, best)
           s == [i \in DOMAIN best |-> v[i].gross]
<1>1. orders \in Seq(LedgerEntries)
  BY DEF IsLedger
<1>2. PICK n \in 0 .. TopVendors : best \in [1 .. n -> Sellers]
  BY DEF Sales!Rankings
<1>3. n \in Nat /\ DOMAIN best = 1 .. n
  BY <1>2, SalesAssumption
<1>4. \A i, j \in 1 .. n : i # j => best[i] # best[j]
  <2>1. \A i, j \in 1 .. n : i < j => best[i] # best[j]
    BY <1>3 DEF Sales!Rankings, Sales!IsRanking
  <2> QED
    BY <1>3, <2>1
<1>5. DOMAIN v = 1 .. n /\ \A i \in 1 .. n : v[i].gross = Sales!SoldBy(orders, day, best[i])
  BY <1>3 DEF Sales!VendorRows
<1>6. \A i \in 1 .. n : ids[i] = {k \in sales : orders[k].seller = best[i]}
  BY <1>3
<1>7. \A i \in 1 .. n : s[i] = Sales!Gross(orders, ids[i])
  <2>1. \A i \in 1 .. n : Sales!SoldBy(orders, day, best[i]) = Sales!Gross(orders, ids[i])
    BY <1>6 DEF Sales!SoldBy
  <2> HIDE DEF v, ids
  <2> QED
    BY <1>3, <1>5, <2>1
<1>8. Len(s) = n
  BY <1>3
<1> HIDE DEF s, v, ids, sales
<1>9. Sales!Length(s) = Sum(s, n)
  BY <1>3, <1>8, SumsAre DEF Sales!Length
<1>10. Apart(ids, n)
  BY <1>4, <1>6 DEF Apart
<1>11. AllOf(ids, n) \subseteq sales
  BY <1>6 DEF AllOf
<1>12. Sum(s, n) = Sales!Gross(orders, AllOf(ids, n))
  BY <1>1, <1>3, <1>7, <1>10, GrossOfUnion
<1>13. Sales!Gross(orders, AllOf(ids, n)) <= Sales!Gross(orders, sales)
  BY <1>1, <1>11, GrossGrows
<1>14. DOMAIN v = DOMAIN best /\ Sales!Length(s) <= Sales!Gross(orders, sales)
  BY <1>3, <1>5, <1>9, <1>12, <1>13
<1> QED
  BY <1>14 DEF s, v, sales

\* The pace is of some of the month before.
LEMMA PaceWithin ==
  ASSUME NEW day, NEW orders, IsLedger(orders, day), Sales!MonthOf(day) # 1
  PROVE  LET m == Sales!MonthOf(day)
         IN  /\ m - 1 \in 1 .. Months
             /\ Sales!Gross(orders, Sales!PaceWindow(orders, day, m))
                  <= Sales!Gross(orders, Sales!SalesOf(orders, m - 1))
<1> DEFINE m == Sales!MonthOf(day)
           p == m - 1
           End(k) == Sales!MonthEnd(k)
           Start(k) == Sales!MonthStart(k)
           window == Sales!PaceWindow(orders, day, m)
           end == Sales!Least(Start(p) + Sales!DayOfMonth(day), Start(m))
<1>1. /\ day \in Sales!Days /\ orders \in Seq(LedgerEntries)
      /\ DOMAIN orders = 1 .. Len(orders)
      /\ \A k \in 1 .. Len(orders) : orders[k].day \in Sales!Days
  BY LedgerFacts DEF IsLedger
<1>2. /\ Months \in Nat /\ m \in 1 .. Months /\ Start(m) = End(m - 1) + 1
      /\ Sales!DayOfMonth(day) \in Nat
  BY <1>1, NowFacts
<1>3. \A k \in 0 .. Months : End(k) \in Nat
  BY MonthEnds
<1>4. Start(p) = End(p - 1) + 1
  BY DEF Sales!MonthStart
<1>5. window = Sales!PaidIn(orders, Start(p), end)
  BY DEF Sales!PaceWindow
<1>6. m # 1
  OBVIOUS
<1>7. \A k \in 1 .. Len(orders) : orders[k].day \in Nat
  BY <1>1, NowFacts
<1> HIDE DEF m, End, Start, window
<1>8. p \in 1 .. Months /\ p \in 0 .. Months /\ p - 1 \in 0 .. Months
  BY <1>2, <1>6
<1>9. Start(m) = End(p) + 1 /\ End(p) \in Nat /\ Start(p) \in Nat
  BY <1>2, <1>3, <1>4, <1>8
<1>10. end \in Int /\ end <= Start(m)
  BY <1>2, <1>9 DEF Sales!Least
<1> HIDE DEF end, p
<1>11. window \subseteq Sales!SalesOf(orders, p)
  <2> SUFFICES ASSUME NEW k \in window PROVE k \in Sales!SalesOf(orders, p)
    OBVIOUS
  <2>1. k \in 1 .. Len(orders) /\ orders[k].paid /\ orders[k].day >= Start(p) /\ orders[k].day < end
    BY <1>1, <1>5, PaidBetween
  <2>2. Start(p) <= orders[k].day /\ orders[k].day <= End(p)
    BY <1>7, <1>9, <1>10, <2>1
  <2>3. Sales!MonthOf(orders[k].day) = p
    BY <1>1, <1>8, <2>1, <2>2, MonthIsOne DEF Start, End
  <2> QED
    BY <1>1, <2>1, <2>3 DEF Sales!SalesOf
<1>12. Sales!Gross(orders, window) <= Sales!Gross(orders, Sales!SalesOf(orders, p))
  BY <1>1, <1>11, GrossGrows
<1> QED
  BY <1>8, <1>12 DEF window, p, m

\* A year and a month name one month.
LEMMA Twelfths ==
  /\ \A t \in Int : t \div 12 \in Int /\ t % 12 \in 0 .. 11 /\ 12 * (t \div 12) + (t % 12) = t
  /\ \A a, b \in Int : a \div 12 = b \div 12 /\ a % 12 = b % 12 => a = b
<1>1. \A t \in Int : t \div 12 \in Int /\ t % 12 \in 0 .. 11 /\ 12 * (t \div 12) + (t % 12) = t
  OBVIOUS
<1>2. ASSUME NEW a \in Int, NEW b \in Int, a \div 12 = b \div 12, a % 12 = b % 12
      PROVE  a = b
  BY <1>1, <1>2
<1> QED
  BY <1>1, <1>2

\* The month that many months back.
LEMMA BackIs ==
  ASSUME NEW m \in Nat, NEW back \in Nat
  PROVE  LET t == FirstMonth + m - 2 - back
         IN  /\ t \in Int
             /\ Sales!MonthBack(Sales!YearOf(m), Sales!NameOf(m), back)
                  = [year |-> t \div 12, month |-> (t % 12) + 1]
<1> DEFINE u == FirstMonth + m - 2
           t == FirstMonth + m - 2 - back
           total == Sales!YearOf(m) * 12 + (Sales!NameOf(m) - 1) - back
<1>1. u \in Int /\ t \in Int /\ t = u - back
  BY SalesAssumption
<1>2. Sales!YearOf(m) = u \div 12 /\ Sales!NameOf(m) = (u % 12) + 1
  BY DEF Sales!YearOf, Sales!NameOf
<1>3. u \div 12 \in Int /\ u % 12 \in Int /\ 12 * (u \div 12) + (u % 12) = u
  BY <1>1, Twelfths
<1>4. Sales!MonthBack(Sales!YearOf(m), Sales!NameOf(m), back)
        = [year |-> total \div 12, month |-> (total % 12) + 1]
  BY DEF Sales!MonthBack
<1> HIDE DEF u, t
<1>5. total = t
  <2> DEFINE y == u \div 12
             r == u % 12
  <2>1. y \in Int /\ r \in Int /\ 12 * y + r = u /\ total = y * 12 + ((r + 1) - 1) - back
    BY <1>2, <1>3
  <2> HIDE DEF y, r, total
  <2> QED
    BY <1>1, <2>1
<1> HIDE DEF total
<1> QED
  BY <1>1, <1>4, <1>5 DEF t

\* SalesReview counts as this module does.
LEMMA SalesCardinality == \A S : Sales!Cardinality(S) = Cardinality(S)
BY DEF Sales!Cardinality, Cardinality

\* What the history tells of a month: its own sales, or none where the calendar begins later.
MonthRow(orders, m) ==
  [year |-> Sales!YearOf(m), month |-> Sales!NameOf(m),
   gross |-> Sales!Gross(orders, Sales!SalesOf(orders, m)),
   count |-> Cardinality(Sales!SalesOf(orders, m))]

\* The months that the history's query returns rows of.
LEMMA SparseAre ==
  ASSUME NEW day \in Sales!Days, NEW orders, NEW s
  PROVE  s \in Sales!SparseMonths(orders, day) <=>
           \E m \in 1 .. Months : /\ m >= Sales!MonthOf(day) - (TrailingMonths - 1)
                                  /\ Sales!SalesOf(orders, m) # {}
                                  /\ s = MonthRow(orders, m)
<1>1. \A m : MonthRow(orders, m) =
               [year |-> Sales!YearOf(m), month |-> Sales!NameOf(m),
                gross |-> Sales!Gross(orders, Sales!SalesOf(orders, m)),
                count |-> Sales!Cardinality(Sales!SalesOf(orders, m))]
  BY SalesCardinality DEF MonthRow
<1>2. DOMAIN MonthLengths = 1 .. Months
  BY MonthEnds
<1> QED
  BY <1>1, <1>2 DEF Sales!SparseMonths

\* What the history fills in is every month's own row.
LEMMA HistoryIs ==
  ASSUME NEW day, NEW orders, IsLedger(orders, day), NEW i \in 1 .. TrailingMonths
  PROVE  LET q == Sales!MonthOf(day) - (i - 1)
             t == FirstMonth + q - 2
             h == Sales!History(orders, day)
         IN  /\ q \in Int /\ t \in Int
             /\ DOMAIN h = 1 .. TrailingMonths
             /\ h[i].year = t \div 12 /\ h[i].month = (t % 12) + 1
             /\ q < 1 => h[i].gross = 0
             /\ q >= 1 => q \in 1 .. Months /\ h[i] = MonthRow(orders, q)
<1> DEFINE m == Sales!MonthOf(day)
           q == m - (i - 1)
           t == FirstMonth + q - 2
           h == Sales!History(orders, day)
           sparse == Sales!SparseMonths(orders, day)
           entry == Sales!MonthBack(Sales!YearOf(m), Sales!NameOf(m), i - 1)
           found == {s \in sparse : s.year = entry.year /\ s.month = entry.month}
           none == [year |-> entry.year, month |-> entry.month, gross |-> 0, count |-> 0]
<1>1. day \in Sales!Days /\ orders \in Seq(LedgerEntries)
  BY DEF IsLedger
<1>2. m \in Nat /\ Months \in Nat /\ m \in 1 .. Months
  BY <1>1, NowFacts
<1>3. i \in Nat /\ i - 1 \in Nat /\ TrailingMonths \in Nat /\ i <= TrailingMonths /\ FirstMonth \in Nat
  BY SalesAssumption
<1>4. DOMAIN h = 1 .. TrailingMonths /\ h[i] = Sales!Filled(sparse, entry)
  BY DEF Sales!History
<1>5. h[i] = IF found = {} THEN none ELSE CHOOSE s \in found : TRUE
  BY <1>4 DEF Sales!Filled
<1>6. t \in Int /\ q \in Int /\ t = FirstMonth + m - 2 - (i - 1) /\ q <= Months
      /\ q >= m - (TrailingMonths - 1)
  <2> HIDE DEF m
  <2> QED
    BY <1>2, <1>3
<1>7. entry = [year |-> t \div 12, month |-> (t % 12) + 1]
  <2> DEFINE u == FirstMonth + m - 2 - (i - 1)
  <2>1. entry = [year |-> u \div 12, month |-> (u % 12) + 1]
    BY <1>2, <1>3, BackIs
  <2> HIDE DEF entry, t, u
  <2>2. t = u
    BY <1>6 DEF u
  <2> QED
    BY <2>1, <2>2
<1>8. \A s : s \in sparse <=> \E n \in 1 .. Months : /\ n >= m - (TrailingMonths - 1)
                                                     /\ Sales!SalesOf(orders, n) # {}
                                                     /\ s = MonthRow(orders, n)
  BY <1>1, SparseAre
<1>9. \A n \in Nat : /\ MonthRow(orders, n).year = (FirstMonth + n - 2) \div 12
                     /\ MonthRow(orders, n).month = ((FirstMonth + n - 2) % 12) + 1
  BY DEF MonthRow, Sales!YearOf, Sales!NameOf
<1> HIDE DEF sparse, entry, h, m
<1>10. ASSUME NEW n \in 1 .. Months, MonthRow(orders, n).year = entry.year,
              MonthRow(orders, n).month = entry.month
       PROVE  n = q
  <2> DEFINE u == FirstMonth + n - 2
  <2>1. n \in Nat /\ u \in Int
    BY <1>2, <1>3
  <2>2. u \div 12 = t \div 12 /\ (u % 12) + 1 = (t % 12) + 1
    BY <1>7, <1>9, <1>10, <2>1
  <2> HIDE DEF t
  <2>3. u % 12 = t % 12
    <3>1. u % 12 \in Int /\ t % 12 \in Int
      <4> HIDE DEF u
      <4> QED
        BY <1>6, <2>1, Twelfths
    <3> HIDE DEF u
    <3> QED
      BY <2>2, <3>1
  <2>4. u = t
    <3> HIDE DEF u
    <3> QED
      BY <1>6, <2>1, <2>2, <2>3, Twelfths
  <2> QED
    BY <1>3, <1>6, <2>1, <2>4 DEF t
<1>11. CASE q >= 1 /\ Sales!SalesOf(orders, q) # {}
  <2> DEFINE r == MonthRow(orders, q)
  <2>1. q \in 1 .. Months /\ q \in Nat
    BY <1>2, <1>6, <1>11
  <2>2. r \in sparse
    BY <1>6, <1>8, <1>11, <2>1
  <2>3. r.year = entry.year /\ r.month = entry.month
    BY <1>7, <1>9, <2>1
  <2>4. r \in found
    BY <2>2, <2>3
  <2>5. \A s \in found : s = r
    <3> SUFFICES ASSUME NEW s \in found PROVE s = r
      OBVIOUS
    <3>1. PICK n \in 1 .. Months : s = MonthRow(orders, n)
      BY <1>8
    <3>2. n = q
      BY <1>10, <3>1
    <3> QED
      BY <3>1, <3>2
  <2> HIDE DEF r, found
  <2>6. (CHOOSE s \in found : TRUE) = r
    BY <2>4, <2>5
  <2>7. h[i] = r
    BY <1>5, <2>4, <2>6
  <2>8. r.year = t \div 12 /\ r.month = (t % 12) + 1
    BY <1>7, <2>3
  <2> QED
    BY <1>4, <1>6, <1>11, <2>1, <2>7, <2>8 DEF r, h, m
<1>12. CASE ~(q >= 1 /\ Sales!SalesOf(orders, q) # {})
  <2>1. found = {}
    <3> SUFFICES ASSUME NEW s \in found PROVE FALSE
      OBVIOUS
    <3>1. PICK n \in 1 .. Months : Sales!SalesOf(orders, n) # {} /\ s = MonthRow(orders, n)
      BY <1>8
    <3>2. n = q
      BY <1>10, <3>1
    <3>3. n >= 1
      BY <1>2
    <3> QED
      BY <1>12, <3>1, <3>2, <3>3
  <2>2. h[i] = none
    BY <1>5, <2>1
  <2>3. none = [year |-> t \div 12, month |-> (t % 12) + 1, gross |-> 0, count |-> 0]
    BY <1>7
  <2> HIDE DEF none, found
  <2>4. h[i].year = t \div 12 /\ h[i].month = (t % 12) + 1 /\ h[i].gross = 0
    BY <2>2, <2>3
  <2>5. ASSUME q >= 1 PROVE q \in 1 .. Months /\ h[i] = MonthRow(orders, q)
    <3>1. q \in 1 .. Months /\ q \in Nat /\ Sales!SalesOf(orders, q) = {}
      BY <1>2, <1>6, <1>12, <2>5
    <3>2. Sales!Gross(orders, Sales!SalesOf(orders, q)) = 0
          /\ Cardinality(Sales!SalesOf(orders, q)) = 0
      BY <1>1, <3>1, GrossOfNone, FS_EmptySet
    <3>3. Sales!YearOf(q) = t \div 12 /\ Sales!NameOf(q) = (t % 12) + 1
      BY DEF Sales!YearOf, Sales!NameOf
    <3> HIDE DEF q, t
    <3> QED
      BY <2>2, <2>3, <3>1, <3>2, <3>3 DEF MonthRow
  <2> QED
    BY <1>4, <1>6, <2>4, <2>5 DEF h, m
<1> QED
  BY <1>11, <1>12

\* The four queries of the sales review, asked of one store on one day, agree.
LEMMA ReviewIsOfOneMonth ==
  ASSUME NEW day, NEW orders, IsLedger(orders, day), NEW best \in Sales!Rankings(orders, day),
         figures = <<Sales!Metrics(orders, day), Sales!Daily(orders, day),
                     Sales!VendorRows(orders, day, best), Sales!History(orders, day)>>
  PROVE  Sales!ReviewAgrees
<1> DEFINE m == Sales!MonthOf(day)
           sales == Sales!MonthToDate(orders, day)
           metrics == figures[1]
           daily == figures[2]
           vendorRows == figures[3]
           h == figures[4]
           Total(i) == FirstMonth + (m - (i - 1)) - 2
<1>1. /\ metrics = Sales!Metrics(orders, day) /\ daily = Sales!Daily(orders, day)
      /\ vendorRows = Sales!VendorRows(orders, day, best) /\ h = Sales!History(orders, day)
  OBVIOUS
<1>2. day \in Sales!Days /\ orders \in Seq(LedgerEntries)
  BY DEF IsLedger
<1>3. m \in 1 .. Months /\ m \in Nat /\ Months \in Nat
  BY <1>2, NowFacts
<1>4. /\ metrics.gross = Sales!Gross(orders, sales)
      /\ metrics.count = Cardinality(sales)
      /\ metrics.year = Sales!YearOf(m) /\ metrics.month = Sales!NameOf(m)
      /\ metrics.pace = IF m = 1 THEN 0 ELSE Sales!Gross(orders, Sales!PaceWindow(orders, day, m))
  BY <1>1, SalesCardinality DEF Sales!Metrics
<1>5. TrailingMonths \in Nat /\ 1 \in 1 .. TrailingMonths /\ 2 \in 1 .. TrailingMonths
      /\ FirstMonth \in Nat
  BY SalesAssumption
<1>6. DOMAIN h = 1 .. TrailingMonths
  BY <1>1, <1>5, HistoryIs
<1>7. \A i \in 1 .. TrailingMonths :
        LET q == m - (i - 1)
            t == FirstMonth + q - 2
        IN /\ q \in Int /\ t \in Int
           /\ h[i].year = t \div 12 /\ h[i].month = (t % 12) + 1
           /\ q < 1 => h[i].gross = 0
           /\ q >= 1 => q \in 1 .. Months /\ h[i] = MonthRow(orders, q)
  BY <1>1, HistoryIs
<1>8. sales = Sales!SalesOf(orders, m)
  BY MonthToDateIsMonth
<1>9. Sales!Length(daily) = metrics.gross
  BY <1>1, <1>4, DailyAddsUp
<1>10. DOMAIN vendorRows = DOMAIN best
       /\ Sales!Length([i \in DOMAIN best |-> vendorRows[i].gross]) <= metrics.gross
  BY <1>1, <1>4, VendorsWithin
<1> HIDE DEF metrics, daily, vendorRows, h, m, sales
<1>11. h[1] = [year |-> metrics.year, month |-> metrics.month,
               gross |-> metrics.gross, count |-> metrics.count]
  <2>1. m - (1 - 1) = m /\ m >= 1
    BY <1>3
  <2>2. h[1] = MonthRow(orders, m)
    BY <1>5, <1>7, <2>1
  <2> QED
    BY <1>4, <1>8, <2>2 DEF MonthRow
<1>12. \A i \in 1 .. TrailingMonths : /\ Total(i) \in Int
                                      /\ h[i].year = Total(i) \div 12
                                      /\ h[i].month = (Total(i) % 12) + 1
  BY <1>7
<1>13. \A i, j \in 1 .. TrailingMonths : Total(i) = Total(j) => i = j
  BY <1>3, <1>5
<1> HIDE DEF Total
<1>14. \A i \in 1 .. TrailingMonths : Total(i) % 12 \in 0 .. 11
  BY <1>12, Twelfths
<1>15. \A i \in DOMAIN h : h[i].month \in 1 .. 12
  <2> SUFFICES ASSUME NEW i \in 1 .. TrailingMonths PROVE h[i].month \in 1 .. 12
    BY <1>6
  <2> DEFINE x == Total(i) % 12
  <2>1. h[i].month = x + 1 /\ x \in 0 .. 11
    BY <1>12, <1>14
  <2> HIDE DEF x
  <2> QED
    BY <2>1
<1>16. \A i, j \in DOMAIN h : i # j =>
         <<h[i].year, h[i].month>> # <<h[j].year, h[j].month>>
  <2> SUFFICES ASSUME NEW i \in 1 .. TrailingMonths, NEW j \in 1 .. TrailingMonths,
                      h[i].year = h[j].year, h[i].month = h[j].month
               PROVE  i = j
    BY <1>6
  <2> DEFINE a == Total(i)
             b == Total(j)
  <2>1. /\ a \in Int /\ b \in Int /\ a \div 12 = b \div 12 /\ (a % 12) + 1 = (b % 12) + 1
        /\ a % 12 \in 0 .. 11 /\ b % 12 \in 0 .. 11
    BY <1>12, <1>14
  <2> HIDE DEF a, b
  <2>2. a % 12 = b % 12
    BY <2>1
  <2>3. a = b
    BY <2>1, <2>2, Twelfths
  <2> QED
    BY <1>13, <2>3 DEF a, b
<1>17. metrics.pace <= h[2].gross
  <2>1. m - (2 - 1) = m - 1
    BY <1>3
  <2>2. CASE m = 1
    <3>1. metrics.pace = 0 /\ m - 1 < 1
      BY <1>4, <2>2
    <3>2. h[2].gross = 0
      BY <1>5, <1>7, <2>1, <3>1
    <3> QED
      BY <3>1, <3>2
  <2>3. CASE m # 1
    <3>1. m - 1 >= 1
      BY <1>3, <2>3
    <3>2. h[2] = MonthRow(orders, m - 1)
      BY <1>5, <1>7, <2>1, <3>1
    <3>3. h[2].gross = Sales!Gross(orders, Sales!SalesOf(orders, m - 1))
      BY <3>2 DEF MonthRow
    <3>4. Sales!Gross(orders, Sales!PaceWindow(orders, day, m))
            <= Sales!Gross(orders, Sales!SalesOf(orders, m - 1))
      BY <2>3, PaceWithin DEF m
    <3> QED
      BY <1>4, <2>3, <3>3, <3>4
  <2> QED
    BY <2>2, <2>3
<1>18. Sales!Length([i \in DOMAIN vendorRows |-> vendorRows[i].gross]) <= metrics.gross
  <2>1. [i \in DOMAIN vendorRows |-> vendorRows[i].gross] = [i \in DOMAIN best |-> vendorRows[i].gross]
    BY <1>10
  <2> QED
    BY <1>10, <2>1
<1> QED
  BY <1>9, <1>11, <1>15, <1>16, <1>17, <1>18
     DEF Sales!ReviewAgrees, metrics, daily, vendorRows, h

\* The board's counts since a day.
LEMMA SinceAre ==
  ASSUME NEW day, NEW orders, IsLedger(orders, day), NEW first \in Int, NEW k
  PROVE  k \in Sales!Since(orders, first) <=>
           k \in 1 .. Len(orders) /\ orders[k].paid /\ orders[k].day >= first
<1>1. orders \in Seq(LedgerEntries)
  BY DEF IsLedger
<1>2. k \in Sales!Since(orders, first) <=>
        /\ k \in 1 .. Len(orders) /\ orders[k].paid
        /\ orders[k].day >= first /\ orders[k].day < Sales!Length(MonthLengths) + 1
  BY <1>1, PaidBetween DEF Sales!Since
<1>3. Sales!Length(MonthLengths) \in Nat
  <2>1. Months \in 0 .. Months
    BY MonthEnds
  <2> QED
    BY <2>1, MonthEnds
<1>4. \A i \in 1 .. Len(orders) : orders[i].day \in Sales!Days
  BY <1>1, LedgerFacts
<1>5. Sales!Days = 1 .. Sales!Length(MonthLengths)
  BY DEF Sales!Days
<1>6. \A i \in 1 .. Len(orders) : orders[i].day < Sales!Length(MonthLengths) + 1
  BY <1>3, <1>4, <1>5
<1> QED
  BY <1>2, <1>6

\* The paid orders and today's.
LEMMA PaidFacts ==
  ASSUME NEW day, NEW orders, IsLedger(orders, day)
  PROVE  LET P == Sales!Since(orders, 1)
             T == Sales!Since(orders, day)
         IN  /\ IsFiniteSet(P) /\ IsFiniteSet(T) /\ T \subseteq P
             /\ Cardinality(P) \in Nat /\ Cardinality(T) \in Nat
             /\ Cardinality(T) <= Cardinality(P)
             /\ P \subseteq DOMAIN orders
             /\ \A k \in P : k \in Nat /\ orders[k].day \in Nat /\ orders[k].day <= day
             /\ \A k \in P : k \in T <=> orders[k].day = day
<1> DEFINE P == Sales!Since(orders, 1)
           T == Sales!Since(orders, day)
<1>1. /\ day \in Sales!Days /\ Len(orders) \in Nat /\ DOMAIN orders = 1 .. Len(orders)
      /\ \A k \in 1 .. Len(orders) : orders[k].day \in Sales!Days /\ orders[k].day <= day
  BY LedgerFacts DEF IsLedger
<1>2. \A d \in Sales!Days : d \in Nat /\ d >= 1
  BY MonthEnds DEF Sales!Days
<1>3. \A k : k \in P <=> k \in 1 .. Len(orders) /\ orders[k].paid /\ orders[k].day >= 1
  BY SinceAre
<1>4. \A k : k \in T <=> k \in 1 .. Len(orders) /\ orders[k].paid /\ orders[k].day >= day
  BY <1>1, <1>2, SinceAre
<1> HIDE DEF P, T
<1>5. P \subseteq 1 .. Len(orders)
  BY <1>3
<1>6. T \subseteq P
  <2>1. \A k \in 1 .. Len(orders) : orders[k].day >= day => orders[k].day >= 1
    BY <1>1, <1>2
  <2> QED
    BY <1>3, <1>4, <2>1
<1>7. IsFiniteSet(1 .. Len(orders))
  BY <1>1, FS_Interval
<1>8. IsFiniteSet(P)
  BY <1>5, <1>7, FS_Subset
<1>9. IsFiniteSet(T) /\ Cardinality(T) <= Cardinality(P)
  BY <1>6, <1>8, FS_Subset
<1>10. Cardinality(P) \in Nat /\ Cardinality(T) \in Nat
  BY <1>8, <1>9, FS_CardinalityType
<1>11. \A k \in P : k \in Nat /\ orders[k].day \in Nat /\ orders[k].day <= day
  BY <1>1, <1>2, <1>5
<1>12. \A k \in P : k \in T <=> orders[k].day = day
  BY <1>1, <1>2, <1>3, <1>4, <1>11
<1> QED
  BY <1>1, <1>5, <1>6, <1>8, <1>9, <1>10, <1>11, <1>12 DEF P, T

\* The ranks of the paid orders are 1, 2, ... up to how many they are, today's first.
LEMMA RanksAre ==
  ASSUME NEW day, NEW orders, IsLedger(orders, day)
  PROVE  LET P == Sales!Since(orders, 1)
             T == Sales!Since(orders, day)
         IN  /\ \A k \in P : Sales!Rank(orders, k) \in 1 .. Cardinality(P)
             /\ \A i \in 1 .. Cardinality(P) : \E k \in P : Sales!Rank(orders, k) = i
             /\ \A k \in P : k \in T <=> Sales!Rank(orders, k) <= Cardinality(T)
<1> DEFINE P == Sales!Since(orders, 1)
           T == Sales!Since(orders, day)
           Ahead(k) == {j \in P : Sales!Before(orders, j, k)}
           c == Cardinality(P)
           t == Cardinality(T)
<1>1. /\ IsFiniteSet(P) /\ IsFiniteSet(T) /\ T \subseteq P
      /\ c \in Nat /\ t \in Nat
      /\ \A k \in P : k \in Nat /\ orders[k].day \in Nat /\ orders[k].day <= day
      /\ \A k \in P : k \in T <=> orders[k].day = day
  BY PaidFacts
<1>2. day \in Nat
  BY NowFacts DEF IsLedger
<1>3. \A k : Sales!Rank(orders, k) = Cardinality(Ahead(k)) + 1
  BY SalesCardinality DEF Sales!Rank
<1>4. \A j, k : Sales!Before(orders, j, k) <=>
         \/ orders[j].day > orders[k].day
         \/ orders[j].day = orders[k].day /\ j < k
  BY DEF Sales!Before
<1>5. \A k : Ahead(k) \subseteq P /\ \A j \in P : j \in Ahead(k) <=> Sales!Before(orders, j, k)
  OBVIOUS
<1> HIDE DEF P, T, Ahead
<1>6. \A k : IsFiniteSet(Ahead(k)) /\ Cardinality(Ahead(k)) \in Nat
  BY <1>1, <1>5, FS_Subset, FS_CardinalityType
<1>7. \A k \in P : k \notin Ahead(k)
  BY <1>1, <1>4, <1>5
\* A set with k besides those ahead of it has more of them.
<1>8. ASSUME NEW k \in P, NEW S, IsFiniteSet(S), Ahead(k) \subseteq S, k \in S
      PROVE  Cardinality(Ahead(k)) + 1 <= Cardinality(S)
  <2>1. /\ IsFiniteSet(Ahead(k) \cup {k})
        /\ Cardinality(Ahead(k) \cup {k}) = Cardinality(Ahead(k)) + 1
    BY <1>6, <1>7, FS_AddElement
  <2>2. Ahead(k) \cup {k} \in SUBSET S
    BY <1>8
  <2>3. Cardinality(Ahead(k) \cup {k}) <= Cardinality(S)
    BY <1>8, <2>2, FS_Subset
  <2> QED
    BY <2>1, <2>3
<1>9. \A k \in P : Sales!Rank(orders, k) \in 1 .. c
  <2> SUFFICES ASSUME NEW k \in P PROVE Sales!Rank(orders, k) \in 1 .. c
    OBVIOUS
  <2>1. Cardinality(Ahead(k)) + 1 <= c
    BY <1>1, <1>5, <1>8
  <2>2. Cardinality(Ahead(k)) \in Nat
    BY <1>6
  <2> QED
    BY <1>1, <1>3, <2>1, <2>2
<1>10. ASSUME NEW j \in P, NEW k \in P, Sales!Before(orders, j, k)
       PROVE  Sales!Rank(orders, j) < Sales!Rank(orders, k)
  <2>1. Ahead(j) \subseteq Ahead(k)
    <3> SUFFICES ASSUME NEW i \in Ahead(j) PROVE i \in Ahead(k)
      OBVIOUS
    <3>1. i \in P /\ Sales!Before(orders, i, j)
      BY <1>5
    <3>2. Sales!Before(orders, i, k)
      BY <1>1, <1>4, <1>10, <3>1
    <3> QED
      BY <1>5, <3>1, <3>2
  <2>2. j \in Ahead(k)
    BY <1>5, <1>10
  <2>3. Cardinality(Ahead(j)) + 1 <= Cardinality(Ahead(k))
    BY <1>6, <1>8, <2>1, <2>2
  <2>4. Cardinality(Ahead(j)) \in Nat /\ Cardinality(Ahead(k)) \in Nat
    BY <1>6
  <2> QED
    BY <1>3, <2>3, <2>4
<1>11. \A j, k \in P : Sales!Rank(orders, j) = Sales!Rank(orders, k) => j = k
  <2> SUFFICES ASSUME NEW j \in P, NEW k \in P, j # k
               PROVE  Sales!Rank(orders, j) # Sales!Rank(orders, k)
    OBVIOUS
  <2>1. Sales!Before(orders, j, k) \/ Sales!Before(orders, k, j)
    BY <1>1, <1>4
  <2>2. Sales!Rank(orders, j) \in Int /\ Sales!Rank(orders, k) \in Int
    BY <1>9
  <2> QED
    BY <1>10, <2>1, <2>2
<1>12. \A i \in 1 .. c : \E k \in P : Sales!Rank(orders, k) = i
  <2> DEFINE f == [k \in P |-> Sales!Rank(orders, k)]
  <2>1. f \in [P -> 1 .. c] /\ \A k \in P : f[k] = Sales!Rank(orders, k)
    BY <1>9
  <2> HIDE DEF f
  <2>2. f \in Injection(P, 1 .. c)
    BY <1>11, <2>1 DEF Injection, IsInjective
  <2>3. IsFiniteSet(1 .. c) /\ Cardinality(1 .. c) = c
    BY <1>1, FS_Interval
  <2>4. f \in Surjection(P, 1 .. c)
    BY <2>2, <2>3, FS_Injection
  <2>5. \A i \in 1 .. c : \E k \in P : f[k] = i
    BY <2>4 DEF Surjection
  <2> QED
    BY <2>1, <2>5
<1>13. \A k \in P : k \in T <=> Sales!Rank(orders, k) <= t
  <2> SUFFICES ASSUME NEW k \in P PROVE k \in T <=> Sales!Rank(orders, k) <= t
    OBVIOUS
  <2>0. Cardinality(Ahead(k)) \in Nat
    BY <1>6
  <2>1. ASSUME k \in T PROVE Sales!Rank(orders, k) <= t
    <3>1. Ahead(k) \subseteq T
      BY <1>1, <1>2, <1>4, <1>5, <2>1
    <3>2. Cardinality(Ahead(k)) + 1 <= t
      BY <1>1, <1>8, <2>1, <3>1
    <3> QED
      BY <1>3, <3>2
  <2>2. ASSUME k \notin T PROVE ~(Sales!Rank(orders, k) <= t)
    <3>1. T \in SUBSET Ahead(k)
      BY <1>1, <1>2, <1>4, <1>5, <2>2
    <3>2. t <= Cardinality(Ahead(k))
      BY <1>6, <3>1, FS_Subset
    <3> QED
      BY <1>1, <1>3, <2>0, <3>2
  <2> QED
    BY <2>1, <2>2
<1> QED
  BY <1>9, <1>12, <1>13 DEF P, T

\* The label of a row says whether the order is today's.
LEMMA LabelIsToday ==
  ASSUME NEW d \in Nat, NEW day \in Nat
  PROVE  /\ Sales!DayLabel(d, day) = "Today" <=> d = day
         /\ Sales!DayLabel(d, day) = "Yesterday" => d # day
<1> DEFINE x == day - d
<1>1. x \in Int /\ (x = 0 <=> d = day)
  OBVIOUS
<1>2. DaysPerWeek \in Nat
  BY SalesAssumption
<1>3. Sales!DayLabel(d, day) =
        CASE x = 0 -> "Today"
          [] x = 1 -> "Yesterday"
          [] x \in 2 .. DaysPerWeek - 1 -> "weekday"
          [] OTHER -> "date"
  BY DEF Sales!DayLabel
<1> HIDE DEF x
<1>4. CASE x = 0
  <2>1. x # 1 /\ x \notin 2 .. DaysPerWeek - 1
    BY <1>2, <1>4
  <2>2. Sales!DayLabel(d, day) = "Today"
    BY <1>3, <1>4, <2>1
  <2> QED
    BY <1>1, <1>4, <2>2
<1>5. CASE x = 1
  <2>1. x # 0 /\ x \notin 2 .. DaysPerWeek - 1
    BY <1>2, <1>5
  <2>2. Sales!DayLabel(d, day) = "Yesterday"
    BY <1>3, <1>5, <2>1
  <2> QED
    BY <1>1, <2>1, <2>2
<1>6. CASE x \in 2 .. DaysPerWeek - 1
  <2>1. x # 0 /\ x # 1
    BY <1>2, <1>6
  <2>2. Sales!DayLabel(d, day) = "weekday"
    BY <1>3, <1>6, <2>1
  <2> QED
    BY <1>1, <2>1, <2>2
<1>7. CASE x # 0 /\ x # 1 /\ x \notin 2 .. DaysPerWeek - 1
  <2>1. Sales!DayLabel(d, day) = "date"
    BY <1>3, <1>7
  <2> QED
    BY <1>1, <1>7, <2>1
<1> QED
  BY <1>4, <1>5, <1>6, <1>7

\* The three queries of the orders page, asked of one store on one day, agree.
LEMMA BoardIsOfOneDay ==
  ASSUME NEW day, NEW orders, IsLedger(orders, day),
         figures = <<Sales!Board(orders, day), Sales!Recent(orders),
                     Sales!DayLabels(Sales!Recent(orders), day)>>
  PROVE  Sales!BoardAgrees
<1> DEFINE P == Sales!Since(orders, 1)
           T == Sales!Since(orders, day)
           c == Cardinality(P)
           t == Cardinality(T)
           fit == Sales!Least(RecentLimit, c)
           K(i) == CHOOSE k \in P : Sales!Rank(orders, k) = i
           board == figures[1]
           recent == figures[2]
           labels == figures[3]
           todays == {i \in DOMAIN recent : labels[i] = "Today"}
<1>1. board = Sales!Board(orders, day) /\ recent = Sales!Recent(orders)
      /\ labels = Sales!DayLabels(Sales!Recent(orders), day)
  OBVIOUS
<1>2. /\ c \in Nat /\ t \in Nat /\ t <= c /\ T \subseteq P /\ P \subseteq DOMAIN orders
      /\ \A k \in P : k \in Nat /\ orders[k].day \in Nat /\ orders[k].day <= day
      /\ \A k \in P : k \in T <=> orders[k].day = day
  BY PaidFacts
<1>3. day \in Nat /\ orders \in Seq(LedgerEntries) /\ RecentLimit \in Nat
  BY NowFacts, SalesAssumption DEF IsLedger
<1>4. /\ board.salesToday = t
      /\ board.revenueToday = Sales!Gross(orders, T)
  BY <1>1, SalesCardinality DEF Sales!Board
<1>5. recent = [i \in 1 .. fit |-> orders[K(i)]]
  BY <1>1, SalesCardinality DEF Sales!Recent
<1>6. \A i \in 1 .. c : K(i) \in P /\ Sales!Rank(orders, K(i)) = i
  BY RanksAre
<1>7. \A k \in P : k \in T <=> Sales!Rank(orders, k) <= t
  BY RanksAre
<1>8. labels = [i \in DOMAIN recent |-> Sales!DayLabel(recent[i].day, day)]
  BY <1>1 DEF Sales!DayLabels
<1> HIDE DEF P, T, K, board, recent, labels
<1>9. fit \in Nat /\ fit <= c /\ fit <= RecentLimit /\ 1 .. fit \subseteq 1 .. c
  BY <1>2, <1>3 DEF Sales!Least
<1>10. Sales!Least(fit, t) = Sales!Least(RecentLimit, t)
  BY <1>2, <1>3 DEF Sales!Least
<1> DEFINE shared == Sales!Least(fit, t)
<1>11. shared \in Nat /\ \A i \in 1 .. fit : i <= t <=> i <= shared
  BY <1>2, <1>9 DEF Sales!Least
<1>12. 1 .. shared = {i \in 1 .. fit : i <= t}
  BY <1>2, <1>9 DEF Sales!Least
<1> HIDE DEF fit, c, t, shared
<1>13. \A i \in 1 .. fit : /\ recent[i] = orders[K(i)] /\ K(i) \in P
                           /\ orders[K(i)].day \in Nat
                           /\ labels[i] = Sales!DayLabel(orders[K(i)].day, day)
                           /\ K(i) \in T <=> i <= t
  <2> SUFFICES ASSUME NEW i \in 1 .. fit
               PROVE  /\ recent[i] = orders[K(i)] /\ K(i) \in P
                      /\ orders[K(i)].day \in Nat
                      /\ labels[i] = Sales!DayLabel(orders[K(i)].day, day)
                      /\ K(i) \in T <=> i <= t
    OBVIOUS
  <2>1. i \in DOMAIN recent /\ recent[i] = orders[K(i)]
    BY <1>5
  <2>2. labels[i] = Sales!DayLabel(orders[K(i)].day, day)
    BY <1>8, <2>1
  <2>3. K(i) \in P /\ Sales!Rank(orders, K(i)) = i
    BY <1>6, <1>9
  <2> QED
    BY <1>2, <1>7, <2>1, <2>2, <2>3
<1>14. DOMAIN recent = 1 .. fit
  BY <1>5
<1>15. \A i \in 1 .. fit : labels[i] = "Today" <=> i <= t
  <2> SUFFICES ASSUME NEW i \in 1 .. fit PROVE labels[i] = "Today" <=> i <= t
    OBVIOUS
  <2> DEFINE d == orders[K(i)].day
  <2>1. d \in Nat /\ labels[i] = Sales!DayLabel(d, day) /\ (d = day <=> i <= t)
    BY <1>2, <1>13
  <2> HIDE DEF d
  <2> QED
    BY <1>3, <2>1, LabelIsToday
<1>16. todays = 1 .. shared
  BY <1>12, <1>14, <1>15
<1>17. Cardinality(todays) = Sales!Least(RecentLimit, board.salesToday)
  <2>1. Cardinality(1 .. shared) = shared
    BY <1>11, FS_Interval
  <2> QED
    BY <1>4, <1>10, <1>16, <2>1 DEF shared
<1>18. \A i \in todays : recent[i].cents <= board.revenueToday
  <2> SUFFICES ASSUME NEW i \in todays PROVE recent[i].cents <= board.revenueToday
    OBVIOUS
  <2>1. i \in 1 .. fit /\ i <= t
    BY <1>14, <1>15
  <2>2. K(i) \in T /\ K(i) \in DOMAIN orders /\ recent[i] = orders[K(i)]
    BY <1>2, <1>13, <2>1
  <2>3. orders[K(i)].cents <= Sales!Gross(orders, T)
    BY <1>3, <2>2, GrossBounds
  <2> QED
    BY <1>4, <2>2, <2>3
<1>19. \A i \in DOMAIN recent : labels[i] = "Yesterday" => board.salesToday < RecentLimit
  <2> SUFFICES ASSUME NEW i \in 1 .. fit, labels[i] = "Yesterday"
               PROVE  board.salesToday < RecentLimit
    BY <1>14
  <2>1. labels[i] # "Today"
    OBVIOUS
  <2>2. ~(i <= t)
    BY <1>15, <2>1
  <2>3. i \in Nat /\ i <= RecentLimit /\ t \in Nat
    BY <1>2, <1>3, <1>9 DEF t
  <2> QED
    BY <1>3, <1>4, <2>2, <2>3
<1>20. Sales!Cardinality(todays) = Cardinality(todays)
  BY SalesCardinality
<1> QED
  BY <1>17, <1>18, <1>19, <1>20
     DEF Sales!BoardAgrees, board, recent, labels

\* The queries of a page whose orders and day have not changed, as far as it has got.
Review(orders, day, best) ==
  <<Sales!Metrics(orders, day), Sales!Daily(orders, day), Sales!VendorRows(orders, day, best),
    Sales!History(orders, day)>>
Board(orders, day) ==
  <<Sales!Board(orders, day), Sales!Recent(orders), Sales!DayLabels(Sales!Recent(orders), day)>>

\* What a page has been told by the query before the one it is at.
Told(orders, day, reached, given) ==
  /\ reached \in {"none", "metrics", "board"} => given = <<>>
  /\ reached = "daily" => given = <<Sales!Metrics(orders, day)>>
  /\ reached = "vendors" => given = <<Sales!Metrics(orders, day), Sales!Daily(orders, day)>>
  /\ reached = "history" =>
       \E best \in Sales!Rankings(orders, day) :
         given = <<Sales!Metrics(orders, day), Sales!Daily(orders, day),
                   Sales!VendorRows(orders, day, best)>>
  /\ reached = "recent" => given = <<Sales!Board(orders, day)>>
  /\ reached = "labels" => given = <<Sales!Board(orders, day), Sales!Recent(orders)>>
  /\ reached = "shown" =>
       \/ \E best \in Sales!Rankings(orders, day) : given = Review(orders, day, best)
       \/ given = Board(orders, day)

\* Of a page that was not disturbed: it was told what the store of now would tell.
SalesInv ==
  /\ IsLedger(ledger, today)
  /\ moved \in Nat
  /\ page \in {"none", "metrics", "daily", "vendors", "history", "board", "recent", "labels", "shown"}
  /\ page \in {"none", "metrics", "board"} => figures = <<>>
  /\ moved = 0 => Told(ledger, today, page, figures)

\* It holds at first.
LEMMA InitSales == Sales!Init => SalesInv
<1> SUFFICES ASSUME Sales!Init PROVE SalesInv
  OBVIOUS
<1>1. ledger = <<>> /\ today = 1 /\ page = "none" /\ figures = <<>> /\ moved = 0
  BY DEF Sales!Init
<1>2. 1 \in Sales!Days
  <2>1. Months \in 1 .. Months /\ Months - 1 \in 0 .. Months /\ Months \in 0 .. Months
    BY MonthEnds
  <2>2. Sales!MonthEnd(Months) \in Nat /\ Sales!MonthEnd(Months - 1) \in Nat
        /\ Sales!MonthEnd(Months - 1) < Sales!MonthEnd(Months)
    BY <2>1, MonthEnds
  <2>3. Sales!Days = 1 .. Sales!MonthEnd(Months)
    BY MonthEnds DEF Sales!Days
  <2> QED
    BY <2>2, <2>3
<1>3. <<>> \in Seq(LedgerEntries) /\ \A k \in DOMAIN <<>> : <<>>[k].day <= 1
  OBVIOUS
<1> QED
  BY <1>1, <1>2, <1>3 DEF SalesInv, IsLedger, Told

\* Sequences of one, two and three.
LEMMA SequencesOfFew ==
  ASSUME NEW R, NEW s \in Seq(R)
  PROVE  /\ Len(s) = 2 => s = <<s[1], s[2]>>
         /\ Len(s) = 3 => s = <<s[1], s[2], s[3]>>
         /\ Len(s) = 4 => s = <<s[1], s[2], s[3], s[4]>>
<1>1. Len(s) = 2 => s = <<s[1], s[2]>>
  OBVIOUS
<1>2. Len(s) = 3 => s = <<s[1], s[2], s[3]>>
  OBVIOUS
<1>3. Len(s) = 4 => s = <<s[1], s[2], s[3], s[4]>>
  OBVIOUS
<1> QED
  BY <1>1, <1>2, <1>3

\* What appending leaves and adds.
Grown(t, s, e, R) ==
  /\ t \in Seq(R) /\ Len(t) = Len(s) + 1
  /\ \A i \in 1 .. Len(s) : t[i] = s[i]
  /\ t[Len(s) + 1] = e
LEMMA Appended ==
  ASSUME NEW R, NEW s \in Seq(R), NEW e \in R
  PROVE  Grown(Append(s, e), s, e, R)
BY DEF Grown

\* A page told once more.
LEMMA Appends ==
  /\ \A a : Append(<<>>, a) = <<a>>
  /\ \A a, b : Append(<<a>>, b) = <<a, b>>
  /\ \A a, b, c : Append(<<a, b>>, c) = <<a, b, c>>
  /\ \A a, b, c, d : Append(<<a, b, c>>, d) = <<a, b, c, d>>
<1>1. \A a : Append(<<>>, a) = <<a>>
  OBVIOUS
<1>2. ASSUME NEW a, NEW b PROVE Append(<<a>>, b) = <<a, b>>
  <2> DEFINE R == {a, b}
             s == <<a>>
             t == Append(s, b)
  <2>1. s \in Seq(R) /\ Len(s) = 1 /\ s[1] = a /\ b \in R
    OBVIOUS
  <2> HIDE DEF R, s
  <2>2. Grown(t, s, b, R)
    BY <2>1, Appended
  <2>3. 1 \in 1 .. 1 /\ 1 + 1 = 2
    OBVIOUS
  <2> HIDE DEF t
  <2>4. /\ t \in Seq(R) /\ Len(t) = 2
        /\ t[1] = a /\ t[2] = b
    BY <2>1, <2>2, <2>3 DEF Grown
  <2>5. t = <<t[1], t[2]>>
    BY <2>4, SequencesOfFew
  <2> QED
    BY <2>4, <2>5 DEF t, s
<1>3. ASSUME NEW a, NEW b, NEW c PROVE Append(<<a, b>>, c) = <<a, b, c>>
  <2> DEFINE R == {a, b, c}
             s == <<a, b>>
             t == Append(s, c)
  <2>1. s \in Seq(R) /\ Len(s) = 2 /\ s[1] = a /\ s[2] = b /\ c \in R
    OBVIOUS
  <2> HIDE DEF R, s
  <2>2. Grown(t, s, c, R)
    BY <2>1, Appended
  <2>3. 1 \in 1 .. 2 /\ 2 \in 1 .. 2 /\ 2 + 1 = 3
    OBVIOUS
  <2> HIDE DEF t
  <2>4. /\ t \in Seq(R) /\ Len(t) = 3
        /\ t[1] = a /\ t[2] = b /\ t[3] = c
    BY <2>1, <2>2, <2>3 DEF Grown
  <2>5. t = <<t[1], t[2], t[3]>>
    BY <2>4, SequencesOfFew
  <2> QED
    BY <2>4, <2>5 DEF t, s
<1>4. ASSUME NEW a, NEW b, NEW c, NEW d PROVE Append(<<a, b, c>>, d) = <<a, b, c, d>>
  <2> DEFINE R == {a, b, c, d}
             s == <<a, b, c>>
             t == Append(s, d)
  <2>1. s \in Seq(R) /\ Len(s) = 3 /\ s[1] = a /\ s[2] = b /\ s[3] = c /\ d \in R
    OBVIOUS
  <2> HIDE DEF R, s
  <2>2. Grown(t, s, d, R)
    BY <2>1, Appended
  <2>3. 1 \in 1 .. 3 /\ 2 \in 1 .. 3 /\ 3 \in 1 .. 3 /\ 3 + 1 = 4
    OBVIOUS
  <2> HIDE DEF t
  <2>4. /\ t \in Seq(R) /\ Len(t) = 4
        /\ t[1] = a /\ t[2] = b /\ t[3] = c /\ t[4] = d
    BY <2>1, <2>2, <2>3 DEF Grown
  <2>5. t = <<t[1], t[2], t[3], t[4]>>
    BY <2>4, SequencesOfFew
  <2> QED
    BY <2>4, <2>5 DEF t, s
<1> QED
  BY <1>1, <1>2, <1>3, <1>4

\* What a change leaves of the orders.
LEMMA StoreKeepsLedger ==
  ASSUME SalesInv, NEW day \in Sales!Days, NEW paid \in BOOLEAN,
         NEW seller \in Sellers \cup {Sales!Unfiled}, Sales!StoreOrder(day, paid, seller)
  PROVE  IsLedger(ledger, today)'
<1> DEFINE new == [day |-> day, paid |-> paid, seller |-> seller, cents |-> Prices[Len(ledger) + 1]]
<1>1. /\ Len(ledger) < Len(Prices) /\ day <= today
      /\ ledger' = Append(ledger, new) /\ today' = today
  BY DEF Sales!StoreOrder, Sales!Move
<1>2. today \in Sales!Days /\ ledger \in Seq(LedgerEntries) /\ \A k \in DOMAIN ledger : ledger[k].day <= today
  BY DEF SalesInv, IsLedger
<1>3. Prices \in Seq(Nat) /\ Len(ledger) + 1 \in 1 .. Len(Prices)
  BY <1>1, <1>2, SalesAssumption
<1>4. Prices[Len(ledger) + 1] \in Nat
  BY <1>3
<1>5. new \in LedgerEntries
  BY <1>4 DEF LedgerEntries
<1>6. new.day <= today
  BY <1>1
<1> HIDE DEF new
<1>7. \A s \in Seq(LedgerEntries) : /\ Append(s, new) \in Seq(LedgerEntries)
                              /\ \A k \in DOMAIN Append(s, new) :
                                   \/ k \in DOMAIN s /\ Append(s, new)[k] = s[k]
                                   \/ Append(s, new)[k] = new
  BY <1>5
<1>8. ledger' \in Seq(LedgerEntries) /\ \A k \in DOMAIN ledger' : ledger'[k].day <= today
  BY <1>1, <1>2, <1>6, <1>7
<1> QED
  BY <1>1, <1>2, <1>8 DEF IsLedger

\* ... of an order stated anew ...
LEMMA RestateKeepsLedger ==
  ASSUME SalesInv, NEW k \in DOMAIN ledger, Sales!Restate(k)
  PROVE  IsLedger(ledger, today)'
<1>1. ledger' = [ledger EXCEPT ![k].paid = ~ledger[k].paid] /\ today' = today
  BY DEF Sales!Restate, Sales!Move
<1>2. today \in Sales!Days /\ ledger \in Seq(LedgerEntries) /\ \A i \in DOMAIN ledger : ledger[i].day <= today
  BY DEF SalesInv, IsLedger
<1> DEFINE new == [ledger[k] EXCEPT !.paid = ~ledger[k].paid]
<1>3. ledger' = [ledger EXCEPT ![k] = new]
  BY <1>1
<1>4. new \in LedgerEntries /\ new.day = ledger[k].day
  <2> DEFINE e == ledger[k]
  <2>1. e \in LedgerEntries
    BY <1>2
  <2>2. new = [e EXCEPT !.paid = ~e.paid]
    OBVIOUS
  <2> HIDE DEF e, new
  <2>3. new \in LedgerEntries /\ new.day = e.day
    BY <2>1, <2>2 DEF LedgerEntries
  <2> QED
    BY <2>3 DEF e
<1> HIDE DEF new
<1>5. ledger' \in Seq(LedgerEntries) /\ DOMAIN ledger' = DOMAIN ledger
  BY <1>2, <1>3, <1>4
<1>6. \A i \in DOMAIN ledger : ledger'[i] = IF i = k THEN new ELSE ledger[i]
  BY <1>2, <1>3
<1>7. \A i \in DOMAIN ledger' : ledger'[i].day <= today
  BY <1>2, <1>4, <1>5, <1>6
<1> QED
  BY <1>1, <1>2, <1>5, <1>7 DEF IsLedger

\* ... and of the day.
LEMMA MidnightKeepsLedger ==
  ASSUME SalesInv, Sales!Midnight
  PROVE  IsLedger(ledger, today)'
<1>1. today + 1 \in Sales!Days /\ today' = today + 1 /\ ledger' = ledger
  BY DEF Sales!Midnight, Sales!Move
<1>2. today \in Sales!Days /\ ledger \in Seq(LedgerEntries) /\ \A k \in DOMAIN ledger : ledger[k].day <= today
  BY DEF SalesInv, IsLedger
<1>3. today \in Nat /\ \A k \in DOMAIN ledger : ledger[k].day \in Nat
  BY <1>2, LedgerFacts, NowFacts
<1>4. \A k \in DOMAIN ledger : ledger[k].day <= today + 1
  BY <1>2, <1>3
<1> QED
  BY <1>1, <1>2, <1>4 DEF IsLedger

\* A change while a page is read counts as one.
LEMMA MoveKeepsSales ==
  ASSUME SalesInv, IsLedger(ledger, today)', page' = page, figures' = figures,
         moved' = IF page = "none" THEN 0 ELSE moved + 1
  PROVE  SalesInv'
<1>1. /\ page' = page /\ figures' = figures
      /\ moved' = IF page = "none" THEN 0 ELSE moved + 1
  OBVIOUS
<1>2. moved \in Nat /\ page \in {"none", "metrics", "daily", "vendors", "history", "board", "recent", "labels", "shown"}
      /\ (page \in {"none", "metrics", "board"} => figures = <<>>)
  BY DEF SalesInv
<1>3. moved' \in Nat /\ (moved' = 0 => page = "none")
  BY <1>1, <1>2
<1>4. page = "none" => Told(ledger', today', page, figures)
  BY <1>2 DEF Told
<1>5. moved' = 0 => Told(ledger', today', page', figures')
  BY <1>1, <1>3, <1>4
<1> QED
  BY <1>1, <1>2, <1>3, <1>5 DEF SalesInv

\* A query of an undisturbed page adds what it tells.
LEMMA QueryKeepsSales ==
  ASSUME SalesInv, NEW step, NEW next, NEW result, Sales!Query(step, next, result),
         next \in {"daily", "vendors", "history", "recent", "labels", "shown"},
         Told(ledger, today, step, figures) => Told(ledger, today, next, Append(figures, result))
  PROVE  SalesInv'
<1>1. /\ page = step /\ page' = next /\ figures' = Append(figures, result)
      /\ ledger' = ledger /\ today' = today /\ moved' = moved
  BY DEF Sales!Query
<1>2. IsLedger(ledger', today') /\ moved' \in Nat
  BY <1>1 DEF SalesInv
<1>3. moved' = 0 => Told(ledger', today', page', figures')
  BY <1>1 DEF SalesInv
<1>4. page' \notin {"none", "metrics", "board"}
  BY <1>1
<1> QED
  BY <1>1, <1>2, <1>3, <1>4 DEF SalesInv

\* The queries of the sales review ...
LEMMA ReviewKeeps ==
  ASSUME SalesInv,
         Sales!ReadMetrics \/ Sales!ReadDaily \/ Sales!ReadVendors \/ Sales!ReadHistory
  PROVE  SalesInv'
<1> DEFINE M == Sales!Metrics(ledger, today)
           D == Sales!Daily(ledger, today)
           V(best) == Sales!VendorRows(ledger, today, best)
           H == Sales!History(ledger, today)
<1>1. CASE Sales!ReadMetrics
  <2>1. Sales!Query("metrics", "daily", M)
    BY <1>1 DEF Sales!ReadMetrics
  <2>2. Told(ledger, today, "metrics", figures) => Told(ledger, today, "daily", Append(figures, M))
    BY Appends DEF Told
  <2> HIDE DEF M
  <2> QED
    BY <2>1, <2>2, QueryKeepsSales
<1>2. CASE Sales!ReadDaily
  <2>1. Sales!Query("daily", "vendors", D)
    BY <1>2 DEF Sales!ReadDaily
  <2>2. Told(ledger, today, "daily", figures) => Told(ledger, today, "vendors", Append(figures, D))
    BY Appends DEF Told
  <2> HIDE DEF D
  <2> QED
    BY <2>1, <2>2, QueryKeepsSales
<1>3. CASE Sales!ReadVendors
  <2>1. PICK best \in Sales!Rankings(ledger, today) : Sales!Query("vendors", "history", V(best))
    BY <1>3 DEF Sales!ReadVendors
  <2>2. Told(ledger, today, "vendors", figures)
          => Told(ledger, today, "history", Append(figures, V(best)))
    <3> SUFFICES ASSUME Told(ledger, today, "vendors", figures)
                 PROVE  Told(ledger, today, "history", Append(figures, V(best)))
      OBVIOUS
    <3>1. figures = <<M, D>>
      BY DEF Told
    <3>2. Append(figures, V(best)) = <<M, D, V(best)>>
      BY <3>1, Appends
    <3>3. \E b \in Sales!Rankings(ledger, today) :
            Append(figures, V(best)) = <<M, D, V(b)>>
      BY <2>1, <3>2
    <3> HIDE DEF V
    <3>4. Told(ledger, today, "history", Append(figures, V(best)))
      BY <3>3 DEF Told, V
    <3> QED
      BY <3>4
  <2> HIDE DEF V
  <2> QED
    BY <2>1, <2>2, QueryKeepsSales
<1>4. CASE Sales!ReadHistory
  <2>1. Sales!Query("history", "shown", H)
    BY <1>4 DEF Sales!ReadHistory
  <2>2. Told(ledger, today, "history", figures) => Told(ledger, today, "shown", Append(figures, H))
    <3> SUFFICES ASSUME Told(ledger, today, "history", figures)
                 PROVE  Told(ledger, today, "shown", Append(figures, H))
      OBVIOUS
    <3>1. PICK best \in Sales!Rankings(ledger, today) : figures = <<M, D, V(best)>>
      BY DEF Told
    <3>2. Append(figures, H) = <<M, D, V(best), H>>
      BY <3>1, Appends
    <3>3. Append(figures, H) = Review(ledger, today, best)
      BY <3>2 DEF Review
    <3> QED
      BY <3>3 DEF Told
  <2> HIDE DEF H
  <2> QED
    BY <2>1, <2>2, QueryKeepsSales
<1> QED
  BY <1>1, <1>2, <1>3, <1>4

\* ... those of the orders page ...
LEMMA BoardKeeps ==
  ASSUME SalesInv, Sales!ReadBoard \/ Sales!ReadRecent \/ Sales!ReadLabels
  PROVE  SalesInv'
<1> DEFINE B == Sales!Board(ledger, today)
           R == Sales!Recent(ledger)
           L == Sales!DayLabels(figures[2], today)
<1>1. CASE Sales!ReadBoard
  <2>1. Sales!Query("board", "recent", B)
    BY <1>1 DEF Sales!ReadBoard
  <2>2. Told(ledger, today, "board", figures) => Told(ledger, today, "recent", Append(figures, B))
    BY Appends DEF Told
  <2> HIDE DEF B
  <2> QED
    BY <2>1, <2>2, QueryKeepsSales
<1>2. CASE Sales!ReadRecent
  <2>1. Sales!Query("recent", "labels", R)
    BY <1>2 DEF Sales!ReadRecent
  <2>2. Told(ledger, today, "recent", figures) => Told(ledger, today, "labels", Append(figures, R))
    BY Appends DEF Told
  <2> HIDE DEF R
  <2> QED
    BY <2>1, <2>2, QueryKeepsSales
<1>3. CASE Sales!ReadLabels
  <2>1. Sales!Query("labels", "shown", L)
    BY <1>3 DEF Sales!ReadLabels
  <2>2. Told(ledger, today, "labels", figures) => Told(ledger, today, "shown", Append(figures, L))
    <3> SUFFICES ASSUME Told(ledger, today, "labels", figures)
                 PROVE  Told(ledger, today, "shown", Append(figures, L))
      OBVIOUS
    <3>1. figures = <<B, R>>
      BY DEF Told
    <3>2. L = Sales!DayLabels(R, today)
      BY <3>1
    <3>3. Append(figures, L) = <<B, R, L>>
      BY <3>1, Appends
    <3>4. Append(figures, L) = Board(ledger, today)
      BY <3>2, <3>3 DEF Board
    <3> QED
      BY <3>4 DEF Told
  <2> HIDE DEF L
  <2> QED
    BY <2>1, <2>2, QueryKeepsSales
<1> QED
  BY <1>1, <1>2, <1>3

\* ... the opening and leaving of a page ...
LEMMA PagesComeAndGo ==
  ASSUME SalesInv, Sales!Begin("metrics") \/ Sales!Begin("board") \/ Sales!Leave
  PROVE  SalesInv'
<1>1. ASSUME NEW first \in {"metrics", "board"}, Sales!Begin(first) PROVE SalesInv'
  <2>1. /\ page = "none" /\ page' = first /\ ledger' = ledger /\ today' = today
        /\ figures' = figures /\ moved' = moved
    BY <1>1 DEF Sales!Begin
  <2>2. figures = <<>> /\ IsLedger(ledger', today') /\ moved' \in Nat
    BY <2>1 DEF SalesInv
  <2>3. Told(ledger', today', page', figures')
    BY <2>1, <2>2 DEF Told
  <2> QED
    BY <2>1, <2>2, <2>3 DEF SalesInv
<1>2. CASE Sales!Leave
  <2>1. page' = "none" /\ ledger' = ledger /\ today' = today /\ figures' = <<>> /\ moved' = 0
    BY <1>2 DEF Sales!Leave
  <2>2. IsLedger(ledger', today')
    BY <2>1 DEF SalesInv
  <2>3. Told(ledger', today', page', figures')
    BY <2>1 DEF Told
  <2> QED
    BY <2>1, <2>2, <2>3 DEF SalesInv
<1> QED
  BY <1>1, <1>2

\* ... so every step keeps SalesInv.
LEMMA StepKeepsSales == SalesInv /\ [Sales!Next]_(Sales!salesVars) => SalesInv'
<1> SUFFICES ASSUME SalesInv, [Sales!Next]_(Sales!salesVars) PROVE SalesInv'
  OBVIOUS
<1>1. CASE Sales!Begin("metrics") \/ Sales!Begin("board") \/ Sales!Leave
  BY <1>1, PagesComeAndGo
<1>2. CASE Sales!ReadMetrics \/ Sales!ReadDaily \/ Sales!ReadVendors \/ Sales!ReadHistory
  BY <1>2, ReviewKeeps
<1>3. CASE Sales!ReadBoard \/ Sales!ReadRecent \/ Sales!ReadLabels
  BY <1>3, BoardKeeps
<1>4. ASSUME NEW day \in Sales!Days, NEW paid \in BOOLEAN,
             NEW seller \in Sellers \cup {Sales!Unfiled}, Sales!StoreOrder(day, paid, seller)
      PROVE  SalesInv'
  <2>1. IsLedger(ledger, today)'
    BY <1>4, StoreKeepsLedger
  <2>2. /\ page' = page /\ figures' = figures
        /\ moved' = IF page = "none" THEN 0 ELSE moved + 1
    BY <1>4 DEF Sales!StoreOrder, Sales!Move
  <2> QED
    BY <2>1, <2>2, MoveKeepsSales
<1>5. ASSUME NEW k \in DOMAIN ledger, Sales!Restate(k) PROVE SalesInv'
  <2>1. IsLedger(ledger, today)'
    BY <1>5, RestateKeepsLedger
  <2>2. /\ page' = page /\ figures' = figures
        /\ moved' = IF page = "none" THEN 0 ELSE moved + 1
    BY <1>5 DEF Sales!Restate, Sales!Move
  <2> QED
    BY <2>1, <2>2, MoveKeepsSales
<1>6. CASE Sales!Midnight
  <2>1. IsLedger(ledger, today)'
    BY <1>6, MidnightKeepsLedger
  <2>2. /\ page' = page /\ figures' = figures
        /\ moved' = IF page = "none" THEN 0 ELSE moved + 1
    BY <1>6 DEF Sales!Midnight, Sales!Move
  <2> QED
    BY <2>1, <2>2, MoveKeepsSales
<1>7. CASE UNCHANGED Sales!salesVars
  <2>1. ledger' = ledger /\ today' = today /\ page' = page /\ figures' = figures /\ moved' = moved
    BY <1>7 DEF Sales!salesVars
  <2> QED
    BY <2>1 DEF SalesInv
<1> QED
  BY <1>1, <1>2, <1>3, <1>4, <1>5, <1>6, <1>7 DEF Sales!Next

\* An undisturbed page that is shown agrees with itself.
LEMMA PagesShowOneState == SalesInv => Sales!PageAgrees
<1> SUFFICES ASSUME SalesInv, page = "shown", moved = 0
             PROVE  IF Len(figures) = 4 THEN Sales!ReviewAgrees ELSE Sales!BoardAgrees
  BY DEF Sales!PageAgrees
<1>1. IsLedger(ledger, today) /\ Told(ledger, today, "shown", figures)
  BY DEF SalesInv
<1>2. \/ \E best \in Sales!Rankings(ledger, today) : figures = Review(ledger, today, best)
      \/ figures = Board(ledger, today)
  BY <1>1 DEF Told
<1>3. ASSUME NEW best \in Sales!Rankings(ledger, today), figures = Review(ledger, today, best)
      PROVE  Len(figures) = 4 /\ Sales!ReviewAgrees
  <2>1. figures = <<Sales!Metrics(ledger, today), Sales!Daily(ledger, today),
                    Sales!VendorRows(ledger, today, best), Sales!History(ledger, today)>>
    BY <1>3 DEF Review
  <2>2. Len(figures) = 4
    BY <2>1
  <2> QED
    BY <1>1, <2>1, <2>2, ReviewIsOfOneMonth
<1>4. ASSUME figures = Board(ledger, today)
      PROVE  Len(figures) = 3 /\ Sales!BoardAgrees
  <2>1. figures = <<Sales!Board(ledger, today), Sales!Recent(ledger),
                    Sales!DayLabels(Sales!Recent(ledger), today)>>
    BY <1>4 DEF Board
  <2>2. Len(figures) = 3
    BY <2>1
  <2> QED
    BY <1>1, <2>1, <2>2, BoardIsOfOneDay
<1> QED
  BY <1>2, <1>3, <1>4

\* A page that nothing was stored under and no midnight divided shows one state of the
\* store, for any calendar, orders, sellers and limits: the bars, the vendors, the pace
\* and the months of the sales review agree with its totals, the rows labelled as today's
\* with the board (SalesReview: the two page.tsx and their queries).
THEOREM PagesAgreeAlways == Sales!Spec => []Sales!PageAgrees
<1> QED
  BY InitSales, StepKeepsSales, PagesShowOneState, PTL DEF Sales!Spec

-----------------------------------------------------------------------------
(* All in Vault.                                                            *)

LEMMA RebuildPart ==
  /\ VaultInit /\ part = "rebuild" => Rebuild!Init
  /\ [VaultNext]_vaultVars /\ part = "rebuild" => [Rebuild!Next]_(Rebuild!rebuildVars)
<1>1. VaultInit /\ part = "rebuild" => Rebuild!Init
  BY DEF VaultInit, Components, Starts
<1>2. [VaultNext]_vaultVars /\ part = "rebuild" => [Rebuild!Next]_(Rebuild!rebuildVars)
  BY DEF VaultNext, vaultVars, Rebuild!rebuildVars, rebuildSide
<1> QED
  BY <1>1, <1>2

LEMMA WorkspacePart ==
  /\ VaultInit /\ part = "workspace" => Workspace!Init
  /\ [VaultNext]_vaultVars /\ part = "workspace" => [Workspace!Next]_(Workspace!workspaceVars)
<1>1. VaultInit /\ part = "workspace" => Workspace!Init
  BY DEF VaultInit, Components, Starts
<1>2. [VaultNext]_vaultVars /\ part = "workspace" => [Workspace!Next]_(Workspace!workspaceVars)
  BY DEF VaultNext, vaultVars, Workspace!workspaceVars, workspaceSide
<1> QED
  BY <1>1, <1>2

\* Of Vault: a rebuild that reports completion has every order.
THEOREM VaultRebuilds == VaultSpec => []RebuildLosesNothing
<1> DEFINE I == part = "rebuild" => RebuildInv
<1>1. VaultInit => I
  BY InitRebuild, RebuildPart
<1>2. I /\ [VaultNext]_vaultVars => I'
  BY StepKeepsRebuild, RebuildPart, PartStays
<1>3. I => RebuildLosesNothing
  BY DoneIsComplete DEF RebuildLosesNothing
<1> QED
  BY <1>1, <1>2, <1>3, PTL DEF VaultSpec

\* Of Vault: its workspace tells the truth.
THEOREM VaultIsHonest == VaultSpec => []WorkspaceIsHonest
<1> DEFINE I == part = "workspace" => WorkspaceInv
<1>1. VaultInit => I
  BY InitWorkspace, WorkspacePart
<1>2. I /\ [VaultNext]_vaultVars => I'
  BY StepKeepsWorkspace, WorkspacePart, PartStays
<1>3. I => WorkspaceIsHonest
  BY NothingLingers, NothingHides DEF WorkspaceIsHonest, Workspace!WorkspaceTellsTruth
<1> QED
  BY <1>1, <1>2, <1>3, PTL DEF VaultSpec

LEMMA ItemsPart ==
  /\ VaultInit /\ part = "items" => Init
  /\ [VaultNext]_vaultVars /\ part = "items" => [Next]_vars
<1>1. VaultInit /\ part = "items" => Init
  BY DEF VaultInit, Components, Starts
<1>2. [VaultNext]_vaultVars /\ part = "items" => [Next]_vars
  BY DEF VaultNext, vaultVars
<1> QED
  BY <1>1, <1>2

\* Of Vault: a vendor's row is its stream replayed, whatever drains overlap.
THEOREM VaultStreams == VaultSpec => []VendorIsItsStream
<1> DEFINE I == part = "items" => StreamInv
<1>1. VaultInit => I
  BY InitStream, ItemsPart
<1>2. I /\ [VaultNext]_vaultVars => I'
  BY NextStream, ItemsPart, PartStays
<1>3. I => VendorIsItsStream
  BY DEF StreamInv, VendorIsItsStream
<1> QED
  BY <1>1, <1>2, <1>3, PTL DEF VaultSpec

\* Of Vault: an item that was applied and never deleted stays with a vendor.
THEOREM VaultDropsNothing == VaultSpec => []NoItemDropped
<1> DEFINE I == part = "items" => DropInv
<1>1. VaultInit => I
  BY InitDrops, ItemsPart
<1>2. I /\ [VaultNext]_vaultVars => I'
  BY NextDropsNone, ItemsPart, PartStays
<1>3. I => NoItemDropped
  BY DEF DropInv, NoItemDropped
<1> QED
  BY <1>1, <1>2, <1>3, PTL DEF VaultSpec

LEMMA VaultSerial ==
  VaultSpec => [](part = "items" => StreamInv /\ SerialInv)
<1> DEFINE I == part = "items" => StreamInv /\ SerialInv
<1>1. VaultInit => I
  BY InitStream, InitSerial, ItemsPart
<1>2. I /\ [VaultNext]_vaultVars => I'
  BY NextStream, SerialStays, ItemsPart, PartStays
<1> QED
  BY <1>1, <1>2, PTL DEF VaultSpec

\* Of Vault: while drains take turns, no category has two vendors.
THEOREM VaultHasNoTwins == VaultSpec => []NoTwinVendors
<1>1. (part = "items" => StreamInv /\ SerialInv) => NoTwinVendors
  BY TwinlessIsOne DEF NoTwinVendors
<1> QED
  BY <1>1, VaultSerial, PTL

\* Of Vault: while drains take turns, an item with no message left is as Clover has it.
THEOREM VaultFollowsClover == VaultSpec => []VendorsFollowClover
<1>1. (part = "items" => StreamInv /\ SerialInv) => VendorsFollowClover
  BY DEF VendorsFollowClover, SerialInv, ProcessedIsCurrent, SettledIsCurrent
<1> QED
  BY <1>1, VaultSerial, PTL

LEMMA FiguresPart ==
  /\ VaultInit /\ part = "figures" => Figures!Init
  /\ [VaultNext]_vaultVars /\ part = "figures" => [Figures!Next]_(Figures!vars)
<1>1. VaultInit /\ part = "figures" => Figures!Init
  BY DEF VaultInit, Components, Starts
<1>2. [VaultNext]_vaultVars /\ part = "figures" => [Figures!Next]_(Figures!vars)
  BY DEF VaultNext, vaultVars, Figures!vars, figuresSide
<1> QED
  BY <1>1, <1>2

\* Of Vault: a booked revision has the figures of Clover's order.
THEOREM VaultFigures == VaultSpec => []FiguresAreCurrent
<1> DEFINE I == part = "figures" => FiguresInv
<1>1. VaultInit => I
  BY InitFigures, FiguresPart
<1>2. I /\ [VaultNext]_vaultVars => I'
  BY StepKeepsFigures, FiguresPart, PartStays
<1>3. I => FiguresAreCurrent
  BY FiguresAreOrders DEF FiguresAreCurrent
<1> QED
  BY <1>1, <1>2, <1>3, PTL DEF VaultSpec

\* Where Vault runs the pages of figures.
LEMMA SalesPart ==
  /\ VaultInit /\ part = "sales" => Sales!Init
  /\ [VaultNext]_vaultVars /\ part = "sales" => [Sales!Next]_(Sales!salesVars)
<1>1. VaultInit /\ part = "sales" => Sales!Init
  BY DEF VaultInit, Components, Starts
<1>2. [VaultNext]_vaultVars /\ part = "sales" => [Sales!Next]_(Sales!salesVars)
  BY DEF VaultNext, vaultVars, Sales!salesVars, salesSide
<1> QED
  BY <1>1, <1>2

\* Of Vault: the queries behind one page bound the same days, weeks and months.
THEOREM VaultPages == VaultSpec => []PagesAgree
<1> DEFINE I == part = "sales" => SalesInv
<1>1. VaultInit => I
  BY InitSales, SalesPart
<1>2. I /\ [VaultNext]_vaultVars => I'
  BY StepKeepsSales, SalesPart, PartStays
<1>3. I => PagesAgree
  BY PagesShowOneState DEF PagesAgree
<1> QED
  BY <1>1, <1>2, <1>3, PTL DEF VaultSpec
=============================================================================
