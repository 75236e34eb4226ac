------------------------------ MODULE OrderStore ------------------------------
(***************************************************************************)
(* One Clover order and the sagas that refresh it                           *)
(* (apps/integrations/clover/lib/jobs/orders.ts, processOrders).  A saga    *)
(* fetches the order, reads the stored one, and saves the fetched revision: *)
(* the row and its lines (repositories/orders.ts) and its events, numbered  *)
(* from the version it read (core/domain repository.ts, event-store.ts).    *)
(* Every statement of a saga sees what is committed when it runs, so sagas  *)
(* of overlapping drains interleave between any two of them.                *)
(***************************************************************************)
EXTENDS Naturals, FiniteSets

CONSTANTS
  Drains,         \* the drains that may run at the same time
  MaxTime,        \* bound on the order's revisions, numbered by modifiedTime
  Size,           \* how many events record each revision
  PooledQueries,  \* TRUE: a saga's query() runs on a pooled connection of its own
  MaxFaults       \* bound on failed sagas and crashes

Times  == 1 .. MaxTime
Absent == 0       \* no row, no write or no message; earlier than any revision

ASSUME OrderAssumption ==
  /\ MaxTime \in Nat \ {0}
  /\ Size \in [Times -> Nat \ {0}]
  /\ PooledQueries \in BOOLEAN
  /\ MaxFaults \in Nat

VARIABLES
  remote,   \* the order's modifiedTime at Clover
  \* The database.
  inbox,    \* the message announcing each revision
  row,      \* modifiedAt of the order row
  lines,    \* the revisions whose line items and payments are stored
  events,   \* the order's event stream: <<version, modifiedTime>>
  \* Each drain's saga.
  pc,
  current,  \* the revision its message announced
  fetched,  \* the revision Clover returned
  found,    \* modifiedAt of the row it read
  base,     \* the version of the aggregate it read
  wrote,    \* the row it wrote and has not committed
  gone,     \* the lines it deleted and has not committed
  added,    \* the events it inserted and has not committed
  \* Environment.
  faults

stored == <<inbox, row, lines, events>>
read   == <<current, fetched, found, base>>
tx     == <<wrote, gone, added>>
vars   == <<remote, stored, pc, read, tx, faults>>

Places == {"idle", "fetch", "read", "version", "save", "upsert", "lines", "append",
           "mark", "commit"}

Versions(E) == {e[1] : e \in E}

\* The stream's last version, 1 where it has none.
LatestVersion ==
  IF events = {} THEN 1
  ELSE CHOOSE v \in Versions(events) : \A u \in Versions(events) : u <= v

\* An uncommitted write of the row holds its lock.
RowHeld(w) == \E v \in Drains \ {w} : wrote[v] # Absent

Init ==
  /\ remote = 1
  /\ inbox = [t \in Times |-> "absent"]
  /\ row = Absent
  /\ lines = {}
  /\ events = {}
  /\ pc = [w \in Drains |-> "idle"]
  /\ current = [w \in Drains |-> Absent]
  /\ fetched = [w \in Drains |-> Absent]
  /\ found = [w \in Drains |-> Absent]
  /\ base = [w \in Drains |-> 0]
  /\ wrote = [w \in Drains |-> Absent]
  /\ gone = [w \in Drains |-> {}]
  /\ added = [w \in Drains |-> {}]
  /\ faults = 0

-----------------------------------------------------------------------------
(* Clover.                                                                  *)

Change ==
  /\ remote < MaxTime
  /\ remote' = remote + 1
  /\ UNCHANGED <<stored, pc, read, tx, faults>>

\* A webhook or an import announces a revision, late or out of order.
Notify(t) ==
  /\ t <= remote
  /\ inbox[t] = "absent"
  /\ inbox' = [inbox EXCEPT ![t] = "waiting"]
  /\ UNCHANGED <<remote, row, lines, events, pc, read, tx, faults>>

-----------------------------------------------------------------------------
(* A saga.                                                                  *)

Goto(w, place) == pc' = [pc EXCEPT ![w] = place]

\* The drain loads the message; another drain may settle it before its turn.
Load(w, t) ==
  /\ pc[w] = "idle"
  /\ inbox[t] = "waiting"
  /\ current' = [current EXCEPT ![w] = t]
  /\ Goto(w, "fetch")
  /\ UNCHANGED <<remote, stored, fetched, found, base, tx, faults>>

\* getCloverOrder returns the order as it is now, whatever the message announced.
Fetch(w) ==
  /\ pc[w] = "fetch"
  /\ fetched' = [fetched EXCEPT ![w] = remote]
  /\ Goto(w, "read")
  /\ UNCHANGED <<remote, stored, current, found, base, tx, faults>>

\* getById, the order row.  None: the aggregate is pristine, of version 0.
ReadRow(w) ==
  /\ pc[w] = "read"
  /\ found' = [found EXCEPT ![w] = row]
  /\ Goto(w, IF row = Absent THEN "save" ELSE "version")
  /\ UNCHANGED <<remote, stored, current, fetched, base, tx, faults>>

\* Slip: a stored order is never refreshed.
ReadVersionKeepsExisting(w) ==
  /\ pc[w] = "version"
  /\ base' = [base EXCEPT ![w] = LatestVersion]
  /\ Goto(w, "mark")
  /\ UNCHANGED <<remote, stored, current, fetched, found, tx, faults>>

\* getById, the latest version; a revision that is not newer ends the action.
ReadVersion(w) ==
  /\ pc[w] = "version"
  /\ base' = [base EXCEPT ![w] = LatestVersion]
  /\ Goto(w, IF found[w] >= fetched[w] THEN "mark" ELSE "save")
  /\ UNCHANGED <<remote, stored, current, fetched, found, tx, faults>>

\* Slip: save relies on the caller's comparison.
SelectExistingUnchecked(w) ==
  /\ pc[w] = "save"
  /\ Goto(w, "upsert")
  /\ UNCHANGED <<remote, stored, read, tx, faults>>

\* save looks at the row again and writes nothing over a newer one; the events
\* tracked for the refresh are appended either way.
SelectExisting(w) ==
  /\ pc[w] = "save"
  /\ Goto(w, IF row >= fetched[w] THEN "append" ELSE "upsert")
  /\ UNCHANGED <<remote, stored, read, tx, faults>>

\* INSERT ... ON CONFLICT DO UPDATE waits for the row, then writes it whatever it
\* has become.
Upsert(w) ==
  /\ pc[w] = "upsert"
  /\ ~RowHeld(w)
  /\ wrote' = [wrote EXCEPT ![w] = fetched[w]]
  /\ Goto(w, "lines")
  /\ UNCHANGED <<remote, stored, read, gone, added, faults>>

\* Slip: the stored line items and payments are not deleted.
ReplaceLinesAppends(w) ==
  /\ pc[w] = "lines"
  /\ Goto(w, "append")
  /\ UNCHANGED <<remote, stored, read, tx, faults>>

\* The stored line items and payments are deleted, the new ones inserted.
ReplaceLines(w) ==
  /\ pc[w] = "lines"
  /\ gone' = [gone EXCEPT ![w] = lines]
  /\ Goto(w, "append")
  /\ UNCHANGED <<remote, stored, read, wrote, added, faults>>

\* The events that record the fetched revision after version v.
EventsAfter(w, v) == {<<v + i, fetched[w]>> : i \in 1 .. Size[fetched[w]]}

\* The unique index on the stream's versions: a version another transaction is
\* inserting makes the insert wait, a committed one makes it fail.
VersionHeld(w, E) == \E v \in Drains \ {w} : Versions(E) \cap Versions(added[v]) # {}
VersionTaken(E)   == Versions(E) \cap Versions(events) # {}

AppendEvents(w, E) ==
  /\ pc[w] = "append"
  /\ ~VersionHeld(w, E)
  /\ ~VersionTaken(E)
  /\ IF PooledQueries
       THEN events' = events \cup E /\ UNCHANGED added
       ELSE added' = [added EXCEPT ![w] = E] /\ UNCHANGED events
  /\ Goto(w, "mark")
  /\ UNCHANGED <<remote, inbox, row, lines, read, wrote, gone, faults>>

\* Slip: the first event takes the version that was read.
AppendAtBase(w) ==
  AppendEvents(w, {<<base[w] + i - 1, fetched[w]>> : i \in 1 .. Size[fetched[w]]})

\* Slip: versions are assigned from the end of the stream.
AppendAtTail(w) ==
  AppendEvents(w, EventsAfter(w, IF events = {} THEN 0 ELSE LatestVersion))

\* eventStore.append: versions follow the one read with the aggregate.
Append(w) == AppendEvents(w, EventsAfter(w, base[w]))

\* The inbox row's "processed" update.
Mark(w) ==
  /\ pc[w] = "mark"
  /\ inbox' = IF PooledQueries THEN [inbox EXCEPT ![current[w]] = "processed"] ELSE inbox
  /\ Goto(w, "commit")
  /\ UNCHANGED <<remote, row, lines, events, read, tx, faults>>

\* The saga is over; what it read and has not committed is gone.
End(w) ==
  /\ Goto(w, "idle")
  /\ current' = [current EXCEPT ![w] = Absent]
  /\ fetched' = [fetched EXCEPT ![w] = Absent]
  /\ found' = [found EXCEPT ![w] = Absent]
  /\ base' = [base EXCEPT ![w] = 0]
  /\ wrote' = [wrote EXCEPT ![w] = Absent]
  /\ gone' = [gone EXCEPT ![w] = {}]
  /\ added' = [added EXCEPT ![w] = {}]

Commit(w) ==
  /\ pc[w] = "commit"
  /\ IF wrote[w] = Absent
       THEN UNCHANGED <<row, lines>>
       ELSE row' = wrote[w] /\ lines' = (lines \ gone[w]) \cup {wrote[w]}
  /\ events' = events \cup added[w]
  /\ inbox' = [inbox EXCEPT ![current[w]] = "processed"]
  /\ End(w)
  /\ UNCHANGED <<remote, faults>>

\* The failure is recorded on the message, which is tried again.
Retry(w) ==
  /\ inbox' = [inbox EXCEPT ![current[w]] = "waiting"]
  /\ End(w)
  /\ UNCHANGED <<remote, row, lines, events>>

\* Slip: a saga that loses the race counts as done.
ConflictIsDone(w) ==
  /\ pc[w] = "append"
  /\ VersionTaken(EventsAfter(w, base[w]))
  /\ inbox' = [inbox EXCEPT ![current[w]] = "processed"]
  /\ End(w)
  /\ UNCHANGED <<remote, row, lines, events, faults>>

\* The unique index refuses the events: the saga fails and is rolled back.
Conflict(w) ==
  /\ pc[w] = "append"
  /\ VersionTaken(EventsAfter(w, base[w]))
  /\ Retry(w)
  /\ UNCHANGED faults

\* A call to Clover or to the database fails.
Fail(w) ==
  /\ pc[w] # "idle"
  /\ faults < MaxFaults
  /\ faults' = faults + 1
  /\ Retry(w)

\* The process stops: its transaction is rolled back and nothing is recorded.
Crash(w) ==
  /\ pc[w] # "idle"
  /\ faults < MaxFaults
  /\ faults' = faults + 1
  /\ End(w)
  /\ UNCHANGED <<remote, stored>>

-----------------------------------------------------------------------------
Work(w) ==
  \/ \E t \in Times : Load(w, t)
  \/ Fetch(w) \/ ReadRow(w) \/ ReadVersion(w) \/ SelectExisting(w) \/ Upsert(w)
  \/ ReplaceLines(w) \/ Append(w) \/ Conflict(w) \/ Mark(w) \/ Commit(w)

Next ==
  \/ Change
  \/ \E t \in Times : Notify(t)
  \/ \E w \in Drains : Work(w) \/ Fail(w) \/ Crash(w)

Safety == Init /\ [][Next]_vars

\* A saga under way goes on and a waiting message is taken up again.  What Clover
\* does, deliveries and faults are not fair.
Fairness == \A w \in Drains : WF_vars(Work(w))

Spec == Safety /\ Fairness

-----------------------------------------------------------------------------
(* Properties.                                                              *)

TypeOK ==
  /\ remote \in Times
  /\ inbox \in [Times -> {"absent", "waiting", "processed"}]
  /\ row \in Times \cup {Absent}
  /\ lines \subseteq Times
  /\ events \subseteq (Nat \ {0}) \X Times
  /\ pc \in [Drains -> Places]
  /\ current \in [Drains -> Times \cup {Absent}]
  /\ fetched \in [Drains -> Times \cup {Absent}]
  /\ found \in [Drains -> Times \cup {Absent}]
  /\ base \in [Drains -> Nat]
  /\ wrote \in [Drains -> Times \cup {Absent}]
  /\ gone \in [Drains -> SUBSET Times]
  /\ added \in [Drains -> SUBSET ((Nat \ {0}) \X Times)]
  /\ faults \in 0 .. MaxFaults

\* A stored order is never overwritten by an older revision: the upsert itself does
\* not compare, so this rests on the row read again by save and, for what commits
\* after that, on the unique versions of the event stream.
RowNeverGoesBack == [][row' >= row]_vars

\* The line items and payments are those of the stored revision and of no other,
\* although each saga deletes the ones it sees and inserts its own.
LinesMatchRow == lines = (IF row = Absent THEN {} ELSE {row})

\* The stored order is the newest revision the event stream records: neither a row
\* without its events nor a newer event without its row.
RowIsNewestRecorded ==
  /\ row # Absent => \E e \in events : e[2] = row
  /\ \A e \in events : e[2] <= row

\* A message is processed only when its revision, or a newer one, is stored: no
\* early return and no lost race drops a revision.
ProcessedIsStored ==
  \A t \in Times : inbox[t] = "processed" => row >= t

\* Every announced revision is stored in the end, or superseded.
EventuallyStored == \A t \in Times : inbox[t] = "waiting" ~> row >= t
=============================================================================
