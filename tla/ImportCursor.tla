---------------------------- MODULE ImportCursor ----------------------------
(***************************************************************************)
(* The incremental import of one merchant's orders or items                 *)
(* (apps/integrations/clover/lib/import/run-import.ts).  A run reads the    *)
(* stream's watermark, lists Clover's records modified at or after it in    *)
(* ascending order, enqueues them one by one, and only then advances the    *)
(* watermark.  Runs may overlap, and Clover's records change while a run    *)
(* lists them.  Items are listed in one page; orders in up to MaxPages, as  *)
(* long as a full page ends at the watermark itself (sources/orders.ts).    *)
(***************************************************************************)
EXTENDS Naturals, FiniteSets

CONSTANTS
  Runs,        \* import runs that may be under way at once
  Records,     \* the records Clover may hold, by number
  MaxTime,     \* bound on modifiedTime
  PageSize,    \* ORDERS_LIST_LIMIT, VENDOR_ITEMS_LIST_LIMIT
  MaxPages,    \* MAX_BOUNDARY_EXHAUST_PAGES; 1 for items
  StableTies,  \* TRUE: Clover lists ties in the same order every time
  MaxFaults    \* bound on runs that fail

ASSUME ImportAssumption ==
  /\ Records \subseteq Nat
  /\ IsFiniteSet(Records)
  /\ MaxTime \in Nat
  /\ PageSize \in Nat \ {0}
  /\ MaxPages \in Nat \ {0}
  /\ StableTies \in BOOLEAN
  /\ MaxFaults \in Nat

VARIABLES
  clock,    \* Clover's clock
  remote,   \* modifiedTime of Clover's records, 0 where there is none yet
  cursor,   \* the stored watermark, 0 before the first run
  inbox,    \* the revisions enqueued: <<record, modifiedTime>>
  \* Each run.
  pc,
  start,    \* startTimestamp
  pages,    \* pages listed
  listed,   \* the revisions listed
  newest,   \* newWatermark
  faults

source == <<clock, remote>>
run    == <<pc, start, pages, listed, newest>>
vars   == <<source, cursor, inbox, run, faults>>

Times == 1 .. MaxTime

Larger(t, u) == IF t >= u THEN t ELSE u

Init ==
  /\ clock = 1
  /\ remote = [r \in Records |-> 0]
  /\ cursor = 0
  /\ inbox = {}
  /\ pc = [w \in Runs |-> "idle"]
  /\ start = [w \in Runs |-> 0]
  /\ pages = [w \in Runs |-> 0]
  /\ listed = [w \in Runs |-> {}]
  /\ newest = [w \in Runs |-> 0]
  /\ faults = 0

-----------------------------------------------------------------------------
(* Clover.                                                                  *)

Pass ==
  /\ clock < MaxTime
  /\ clock' = clock + 1
  /\ UNCHANGED <<remote, cursor, inbox, run, faults>>

\* A record is created or changed.
Modify(r) ==
  /\ remote[r] # clock
  /\ remote' = [remote EXCEPT ![r] = clock]
  /\ UNCHANGED <<clock, cursor, inbox, run, faults>>

\* modifiedTime ASC; where ties have no order, either may come first.
Precedes(r, s) ==
  IF remote[r] = remote[s] THEN StableTies => r <= s ELSE remote[r] < remote[s]

Prefix(A, E) == A \subseteq E /\ \A r \in A, s \in E \ A : Precedes(r, s)

\* How many of the records E stand at most k places from the front.
Sized(A, E, k) == Cardinality(A) = k \/ (A = E /\ Cardinality(E) < k)

\* The records from place k of the listing on, as many as a page takes.
IsPage(B, E, k) ==
  \E A \in SUBSET (E \ B) :
    /\ Sized(A, E, k) /\ Sized(B, E \ A, PageSize)
    /\ Prefix(A, E) /\ Prefix(B, E \ A)

-----------------------------------------------------------------------------
(* A run.                                                                   *)

Goto(w, place) == pc' = [pc EXCEPT ![w] = place]

\* Slip: the first run looks back no further than the present.
StartFromNow(w) ==
  /\ pc[w] = "idle"
  /\ start' = [start EXCEPT ![w] = IF cursor = 0 THEN clock ELSE cursor]
  /\ newest' = [newest EXCEPT ![w] = cursor]
  /\ Goto(w, "list")
  /\ UNCHANGED <<source, cursor, inbox, pages, listed, faults>>

Start(w) ==
  /\ pc[w] = "idle"
  /\ start' = [start EXCEPT ![w] = cursor]
  /\ newest' = [newest EXCEPT ![w] = cursor]
  /\ Goto(w, "list")
  /\ UNCHANGED <<source, cursor, inbox, pages, listed, faults>>

\* Slip: the lower bound is exclusive.
EligibleExclusive(w) == {r \in Records : remote[r] > start[w]}

\* Records at or after the run's start.
Eligible(w) == {r \in Records : remote[r] # 0 /\ remote[r] >= start[w]}

\* source.list, one page: another follows where the page is full and ends at the
\* watermark.
FetchPage(w) ==
  /\ pc[w] = "list"
  /\ \E B \in SUBSET Eligible(w) :
       /\ IsPage(B, Eligible(w), pages[w] * PageSize)
       /\ listed' = [listed EXCEPT ![w] = @ \cup {<<r, remote[r]>> : r \in B}]
       /\ \/ B = {} /\ UNCHANGED newest /\ Goto(w, "save")
          \/ \E last \in B :
               /\ \A r \in B : remote[r] <= remote[last]
               /\ newest' = [newest EXCEPT ![w] = Larger(@, remote[last])]
               /\ Goto(w, IF /\ Cardinality(B) = PageSize
                             /\ remote[last] = start[w]
                             /\ pages[w] + 1 < MaxPages
                          THEN "list" ELSE "save")
  /\ pages' = [pages EXCEPT ![w] = @ + 1]
  /\ UNCHANGED <<source, cursor, inbox, start, faults>>

\* source.enqueue: one insert for each revision, oldest first; known ones are left
\* alone.
Enqueue(w) ==
  /\ pc[w] = "save"
  /\ \E e \in listed[w] \ inbox :
       /\ \A f \in listed[w] \ inbox : e[2] <= f[2]
       /\ inbox' = inbox \cup {e}
  /\ UNCHANGED <<source, cursor, run, faults>>

\* Slip: the next run goes on counting the pages of this one.
EndKeepsPages(w) ==
  /\ Goto(w, "idle")
  /\ start' = [start EXCEPT ![w] = 0]
  /\ listed' = [listed EXCEPT ![w] = {}]
  /\ newest' = [newest EXCEPT ![w] = 0]
  /\ UNCHANGED pages

End(w) ==
  /\ Goto(w, "idle")
  /\ start' = [start EXCEPT ![w] = 0]
  /\ pages' = [pages EXCEPT ![w] = 0]
  /\ listed' = [listed EXCEPT ![w] = {}]
  /\ newest' = [newest EXCEPT ![w] = 0]

\* Slip: the watermark is advanced before the page is enqueued.
AdvanceEarly(w) ==
  /\ pc[w] = "save"
  /\ cursor' = Larger(cursor, newest[w])
  /\ IF listed[w] \subseteq inbox THEN End(w) ELSE UNCHANGED run
  /\ UNCHANGED <<source, inbox, faults>>

\* Slip: the stored watermark is overwritten.
AdvanceOverwrites(w) ==
  /\ pc[w] = "save"
  /\ listed[w] \subseteq inbox
  /\ cursor' = newest[w]
  /\ End(w)
  /\ UNCHANGED <<source, inbox, faults>>

\* The run ends; a watermark it moved is stored, unless a newer one is.
Advance(w) ==
  /\ pc[w] = "save"
  /\ listed[w] \subseteq inbox
  /\ cursor' = IF newest[w] > start[w] THEN Larger(cursor, newest[w]) ELSE cursor
  /\ End(w)
  /\ UNCHANGED <<source, inbox, faults>>

\* A call fails or the process stops: what is enqueued stays.
Fail(w) ==
  /\ pc[w] # "idle"
  /\ faults < MaxFaults
  /\ faults' = faults + 1
  /\ End(w)
  /\ UNCHANGED <<source, cursor, inbox>>

-----------------------------------------------------------------------------
Work(w) == Start(w) \/ FetchPage(w) \/ Enqueue(w) \/ Advance(w)

Next ==
  \/ Pass
  \/ \E r \in Records : Modify(r)
  \/ \E w \in Runs : Work(w) \/ Fail(w)

Safety == Init /\ [][Next]_vars

\* Runs go on and are started again; changes and faults are not fair.
Spec == Safety /\ \A w \in Runs : WF_vars(Work(w))

-----------------------------------------------------------------------------
(* Properties.                                                              *)

TypeOK ==
  /\ clock \in Nat \ {0}
  /\ remote \in [Records -> 0 .. clock]
  /\ cursor \in 0 .. clock
  /\ inbox \subseteq Records \X Nat
  /\ pc \in [Runs -> {"idle", "list", "save"}]
  /\ start \in [Runs -> 0 .. clock]
  /\ pages \in [Runs -> 0 .. MaxPages]
  /\ listed \in [Runs -> SUBSET (Records \X Nat)]
  /\ newest \in [Runs -> 0 .. clock]
  /\ faults \in 0 .. MaxFaults

\* run-import.ts: the watermark is inclusive "so nothing is skipped when timestamps
\* tie", and advanced only after the page was enqueued.  A record behind the stored
\* watermark is enqueued in its current revision, whatever overlapping runs, failed
\* runs and changes made while a page is listed do: no later run would look for it.
NothingSkipped ==
  \A r \in Records :
    remote[r] # 0 /\ remote[r] < cursor => <<r, remote[r]>> \in inbox

\* A late run never takes the watermark back (clover-import-cursors.ts, advance).
CursorNeverRewinds == [][cursor' >= cursor]_vars

\* The records at the watermark fill all the pages a run lists.
Stuck ==
  cursor > 0 /\ Cardinality({r \in Records : remote[r] = cursor}) >= PageSize * MaxPages

\* Every revision is enqueued, unless another replaces it first or the watermark
\* cannot move: inclusive listing and overlapping runs never go round in circles.
EventuallyEnqueued ==
  \A r \in Records, t \in Times :
    remote[r] = t ~> (remote[r] # t \/ <<r, t>> \in inbox \/ Stuck)
=============================================================================
