----------------------------- MODULE UnitOfWork -----------------------------
(***************************************************************************)
(* A unit of work on an event-sourced aggregate, as core/domain gives it to *)
(* every saga: actions are dispatched on the aggregates the saga holds, the *)
(* event tracker of the saga keeps what they emitted, and the repository's  *)
(* save writes the row and appends the tracked events.  Units overlap in    *)
(* READ COMMITTED transactions.  An aggregate's snapshot is the sequence of *)
(* the events that made it, and an event a number nobody used before.       *)
(***************************************************************************)
EXTENDS Integers, Sequences

CONSTANTS
  Units,     \* units of work, one saga each
  MaxEvents  \* bound on the events ever emitted

VARIABLES
  row,      \* the aggregate's stored row, pristine if there is none
  log,      \* its stream: events by version, as a set
  emitted,  \* events so far
  working,  \* units under way
  held,     \* the aggregates a unit has come by
  latest,   \* the one it got last
  tracked,  \* its event tracker: base version and events, or nothing tracked
  written,  \* the row it has written in its transaction, or nothing
  appended  \* the events it has appended in its transaction

unitVars == <<row, log, emitted, working, held, latest, tracked, written, appended>>

Pristine == [version |-> 0, events |-> <<>>]
Untracked == [base |-> -1, events |-> <<>>]
Unwritten == [version |-> -1, events |-> <<>>]

Init ==
  /\ row = Pristine
  /\ log = {}
  /\ emitted = 0
  /\ working = {}
  /\ held = [u \in Units |-> {}]
  /\ latest = [u \in Units |-> Pristine]
  /\ tracked = [u \in Units |-> Untracked]
  /\ written = [u \in Units |-> Unwritten]
  /\ appended = [u \in Units |-> {}]

-----------------------------------------------------------------------------
\* applyEvents: the version moves with every event.
Apply(aggregate, events) ==
  [version |-> aggregate.version + Len(events), events |-> aggregate.events \o events]

\* Stored versions are consecutive from `base`.
Numbered(base, events) ==
  {[version |-> base + k, event |-> events[k]] : k \in DOMAIN events}

Hold(u, aggregate) ==
  /\ held' = [held EXCEPT ![u] = @ \cup {aggregate}]
  /\ latest' = [latest EXCEPT ![u] = aggregate]

\* What the unit reads: its own row, if it has written one, or the committed one.
Visible(u) == IF written[u] = Unwritten THEN row ELSE written[u]

\* peek: the tracked events, which are not in the row yet, are replayed onto it.
Load(u) == Hold(u, Apply(Visible(u), tracked[u].events))

\* getById starts a unit, or is called again; a row that is not found leaves the unit
\* with a pristine aggregate.
GetById(u) ==
  /\ emitted < MaxEvents \/ u \in working
  /\ working' = working \cup {u}
  /\ Load(u)
  /\ UNCHANGED <<row, log, emitted, tracked, written, appended>>

\* Slip: events are tracked whatever aggregate they were emitted on.
TracksAny(u, aggregate) == TRUE

\* track refuses events of an aggregate that is not where the tracked ones end: a
\* second action on an aggregate the unit has moved on from.
Tracks(u, aggregate) ==
  tracked[u] = Untracked \/ aggregate.version = tracked[u].base + Len(tracked[u].events)

\* An action is dispatched on an aggregate the unit holds.  One that creates it emits
\* an event, one that updates it perhaps none, which still opens the tracked stream.
Dispatch(u, aggregate, n) ==
  /\ u \in working
  /\ aggregate \in held[u]
  /\ aggregate.version = 0 => n > 0
  /\ emitted + n <= MaxEvents
  /\ Tracks(u, aggregate)
  /\ LET events == [k \in 1 .. n |-> emitted + k]
     IN /\ Hold(u, Apply(aggregate, events))
        /\ tracked' = [tracked EXCEPT ![u] =
             IF @ = Untracked THEN [base |-> aggregate.version, events |-> events]
                              ELSE [base |-> @.base, events |-> @.events \o events]]
  /\ emitted' = emitted + n
  /\ UNCHANGED <<row, log, working, written, appended>>

\* A row another unit has written is locked until that unit ends.
Locked(u) == \E other \in Units \ {u} : written[other] # Unwritten

Versions(S) == {e.version : e \in S}

\* The unique index on the versions of a stream.
Taken(u) ==
  LET new == Numbered(tracked[u].base, tracked[u].events)
  IN Versions(new) \cap Versions(log \cup appended[u]) # {}

\* save: the row as the unit has it, then what drain gives.  Callers save the
\* aggregate their last action returned, and only after one that emitted events.
Save(u) ==
  /\ u \in working
  /\ tracked[u].events # <<>>
  /\ ~Locked(u)
  /\ ~Taken(u)
  /\ written' = [written EXCEPT ![u] = latest[u]]
  /\ appended' = [appended EXCEPT ![u] =
                    @ \cup Numbered(tracked[u].base, tracked[u].events)]
  /\ tracked' = [tracked EXCEPT ![u] = Untracked]
  /\ UNCHANGED <<row, log, emitted, working, held, latest>>

End(u) ==
  /\ u \in working
  /\ working' = working \ {u}
  /\ held' = [held EXCEPT ![u] = {}]
  /\ latest' = [latest EXCEPT ![u] = Pristine]
  /\ tracked' = [tracked EXCEPT ![u] = Untracked]
  /\ written' = [written EXCEPT ![u] = Unwritten]
  /\ appended' = [appended EXCEPT ![u] = {}]
  /\ UNCHANGED emitted

\* What was tracked and not saved goes with the tracker.
CommitUnit(u) ==
  /\ End(u)
  /\ row' = Visible(u)
  /\ log' = log \cup appended[u]

\* A ConcurrencyError, a version that is taken or any other failure rolls back.
Abort(u) ==
  /\ End(u)
  /\ UNCHANGED <<row, log>>

Next ==
  \E u \in Units :
    \/ GetById(u) \/ Save(u) \/ CommitUnit(u) \/ Abort(u)
    \/ \E aggregate \in held[u], n \in 0 .. 2 : Dispatch(u, aggregate, n)

Spec == Init /\ [][Next]_unitVars

-----------------------------------------------------------------------------
(* Properties.                                                              *)

\* The stored row is what its stream replays to, version by version, whichever of its
\* aggregates a unit dispatched on and whatever committed between its reads and its
\* save (event-tracker.ts: track; repository.ts: getById, save).
RowIsReplay ==
  /\ row.version = Len(row.events)
  /\ log = Numbered(0, row.events)
=============================================================================
