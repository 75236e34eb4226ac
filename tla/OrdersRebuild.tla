--------------------------- MODULE OrdersRebuild ----------------------------
(***************************************************************************)
(* The script that rebuilds the orders from Clover                          *)
(* (scripts/run-orders-backfill.ts): one transaction empties the inbox, the *)
(* orders, their events and the watermark, then import and drain take turns *)
(* until neither finds anything.  A drain of the deployed app and webhooks  *)
(* go on meanwhile; another import must not, since it could store its       *)
(* watermark after the reset.  A run of the import is one step here, and so *)
(* is a saga of the script's own drain; modification times are distinct.    *)
(***************************************************************************)
EXTENDS Integers, FiniteSets

CONSTANTS
  Orders,     \* the orders, numbered
  LastTime,   \* bound on modification times
  Page,       \* ORDERS_LIST_LIMIT
  Batch,      \* CLOVER_DRAIN_BATCH_SIZE
  GiveUp,     \* MAX_ATTEMPTS
  MaxCycles,  \* CLOVER_REBUILD_MAX_CYCLES
  MaxHooks    \* bound on webhook messages

VARIABLES
  edition,   \* Clover's orders: modifiedTime
  rebuilt,   \* the revision in the store, 0 without a row
  queue,     \* inbox rows: [order, time, from, attempts, state]
  mark,      \* the import's watermark, 0 without one
  script,    \* where the script is
  doomed,    \* rows its open transaction has deleted: [messages, orders]
  owed,      \* Clover's revisions when the reset committed
  enqueued,  \* of the last import
  loaded,    \* the batch still to drain
  worked,    \* the size of the last batch
  cycles,
  worker     \* the deployed drain's saga

rebuildVars == <<edition, rebuilt, queue, mark, script, doomed, owed, enqueued,
                 loaded, worked, cycles, worker>>

Key(m) == [order |-> m.order, time |-> m.time, from |-> m.from]

Message(o, from) ==
  [order |-> o, time |-> edition[o], from |-> from, attempts |-> 0, state |-> "pending"]

Idle == [step |-> "idle", key |-> Key([order |-> 0, time |-> 0, from |-> "hook"]), fetched |-> 0]

NothingDoomed == [messages |-> {}, orders |-> {}]

\* The time of Clover's last change.
Clock == CHOOSE t \in {edition[o] : o \in Orders} : \A o \in Orders : edition[o] <= t

\* The deployed app has listed all orders, and stored some of them.
Init ==
  /\ edition = [o \in Orders |-> o]
  /\ rebuilt \in {f \in [Orders -> Orders \cup {0}] : \A o \in Orders : f[o] \in {0, o}}
  /\ queue = {Message(o, "import") : o \in {p \in Orders : rebuilt[p] = 0}}
  /\ mark = Clock
  /\ script = "deleteInbox"
  /\ doomed = NothingDoomed
  /\ owed = [o \in Orders |-> 0]
  /\ enqueued = 0
  /\ loaded = {}
  /\ worked = 0
  /\ cycles = 0
  /\ worker = Idle

\* Sagas begun later, and changes made once the script has ended, are no different from
\* those of any other time.
Resetting == script \in {"deleteInbox", "deleteOrders", "commitReset"}
Running == script \notin {"done", "failed"}

ScriptUnchanged == UNCHANGED <<script, doomed, owed, enqueued, loaded, worked, cycles>>

-----------------------------------------------------------------------------
(* Clover.                                                                  *)

Modify(o) ==
  /\ Running
  /\ Clock < LastTime
  /\ edition' = [edition EXCEPT ![o] = Clock + 1]
  /\ UNCHANGED <<rebuilt, queue, mark, worker>> /\ ScriptUnchanged

\* A webhook's message of the last change; a notification may also be lost.
Notify(o) ==
  /\ Running
  /\ edition[o] = Clock
  /\ Cardinality({m \in queue : m.from = "hook"}) < MaxHooks
  /\ \A m \in queue : Key(m) # Key(Message(o, "hook"))
  /\ queue' = queue \cup {Message(o, "hook")}
  /\ UNCHANGED <<edition, rebuilt, mark, worker>> /\ ScriptUnchanged

-----------------------------------------------------------------------------
(* The deployed drain: one saga, statement by statement.                    *)

\* A processed message's attempts are not told apart.
Rows(key) == {m \in queue : Key(m) = key}

Replace(key, n, to) ==
  (queue \ Rows(key)) \cup {[m EXCEPT !.attempts = n, !.state = to] : m \in Rows(key)}

Begin(m) ==
  /\ Resetting
  /\ worker = Idle
  /\ m.state = "pending"
  /\ worker' = [step |-> "fetched", key |-> Key(m), fetched |-> edition[m.order]]
  /\ UNCHANGED <<edition, rebuilt, queue, mark>> /\ ScriptUnchanged

\* The upsert waits for a row the script has deleted and not committed.
Write ==
  /\ worker.step = "fetched"
  /\ worker.key.order \notin doomed.orders
  /\ worker' = [worker EXCEPT !.step = "written"]
  /\ UNCHANGED <<edition, rebuilt, queue, mark>> /\ ScriptUnchanged

\* So does the update of the message; one that is gone updates nothing.
MarkProcessed ==
  /\ worker.step = "written"
  /\ worker.key \notin doomed.messages
  /\ worker' = [worker EXCEPT !.step = "marked"]
  /\ UNCHANGED <<edition, rebuilt, queue, mark>> /\ ScriptUnchanged

SagaCommits ==
  /\ worker.step = "marked"
  /\ rebuilt' = [rebuilt EXCEPT ![worker.key.order] = IF @ >= worker.fetched THEN @ ELSE worker.fetched]
  /\ queue' = Replace(worker.key, 0, "processed")
  /\ worker' = Idle
  /\ UNCHANGED <<edition, mark>> /\ ScriptUnchanged

AfterFailure(n) == IF n >= GiveUp THEN "dead" ELSE "pending"

\* It fails, or the database ends it where it and the script wait for each other.  The
\* failure is recorded, if the message is still there and the script has no hold of it.
SagaFails ==
  /\ worker # Idle
  /\ worker.key \notin doomed.messages
  /\ queue' \in {queue} \cup {Replace(worker.key, m.attempts + 1, AfterFailure(m.attempts + 1)) :
                               m \in {r \in Rows(worker.key) : r.attempts < GiveUp}}
  /\ worker' = Idle
  /\ UNCHANGED <<edition, rebuilt, mark>> /\ ScriptUnchanged

-----------------------------------------------------------------------------
(* The script: resetOrderModel.                                             *)

\* A message the saga has marked is locked until the saga ends.
DeleteInbox ==
  /\ script = "deleteInbox"
  /\ worker.step # "marked" \/ Rows(worker.key) = {}
  /\ doomed' = [doomed EXCEPT !.messages = {Key(m) : m \in queue}]
  /\ script' = "deleteOrders"
  /\ UNCHANGED <<edition, rebuilt, queue, mark, owed, enqueued, loaded, worked, cycles, worker>>

HasRows == {o \in Orders : rebuilt[o] # 0}

\* An order the saga has written is locked, a new row of its is not seen.
DeleteOrders ==
  /\ script = "deleteOrders"
  /\ ~(worker.step \in {"written", "marked"} /\ worker.key.order \in HasRows)
  /\ doomed' = [doomed EXCEPT !.orders = HasRows]
  /\ script' = "commitReset"
  /\ UNCHANGED <<edition, rebuilt, queue, mark, owed, enqueued, loaded, worked, cycles, worker>>

CommitReset ==
  /\ script = "commitReset"
  /\ queue' = {m \in queue : Key(m) \notin doomed.messages}
  /\ rebuilt' = [o \in Orders |-> IF o \in doomed.orders THEN 0 ELSE rebuilt[o]]
  /\ mark' = 0
  /\ owed' = edition
  /\ doomed' = NothingDoomed
  /\ script' = "import"
  /\ UNCHANGED <<edition, enqueued, loaded, worked, cycles, worker>>

\* A statement fails, or the database ends the script's transaction where it and the
\* saga wait for each other: nothing is deleted and the script ends.
ResetFails ==
  /\ Resetting
  /\ doomed' = NothingDoomed
  /\ script' = "failed"
  /\ UNCHANGED <<edition, rebuilt, queue, mark, owed, enqueued, loaded, worked, cycles, worker>>

-----------------------------------------------------------------------------
(* The script: import and drain.                                            *)

Eligible == {o \in Orders : edition[o] >= mark}

\* The page with the oldest of them.
Listed == {o \in Eligible : Cardinality({p \in Eligible : edition[p] < edition[o]}) < Page}

Import ==
  /\ script = "import"
  /\ LET known == {Key(m) : m \in queue}
         new == {m \in {Message(o, "import") : o \in Listed} : Key(m) \notin known}
     IN queue' = queue \cup new /\ enqueued' = Cardinality(new)
  /\ mark' = IF Listed = {} THEN mark
                            ELSE CHOOSE t \in {edition[o] : o \in Listed} :
                                   \A o \in Listed : edition[o] <= t
  /\ script' = "load"
  /\ UNCHANGED <<edition, rebuilt, doomed, owed, loaded, worked, cycles, worker>>

\* processOrders loads messages that are neither processed nor dead.
Load ==
  /\ script = "load"
  /\ LET pending == {m \in queue : m.state = "pending"}
     IN \E some \in SUBSET pending :
          /\ Cardinality(some) = Batch \/ (some = pending /\ Cardinality(some) < Batch)
          /\ loaded' = some
          /\ worked' = Cardinality(some)
  /\ script' = "drain"
  /\ UNCHANGED <<edition, rebuilt, queue, mark, doomed, owed, enqueued, cycles, worker>>

\* A message's saga, or the record of its failure, from the row as it was loaded.  It
\* waits while the deployed one holds the same order or message.
Drain(m) ==
  /\ script = "drain"
  /\ m \in loaded
  /\ worker.step \in {"written", "marked"} => worker.key.order # m.order
  /\ \/ /\ rebuilt' = [rebuilt EXCEPT ![m.order] = edition[m.order]]
        /\ queue' = Replace(Key(m), 0, "processed")
     \/ /\ queue' = Replace(Key(m), m.attempts + 1, AfterFailure(m.attempts + 1))
        /\ UNCHANGED rebuilt
  /\ loaded' = loaded \ {m}
  /\ UNCHANGED <<edition, mark, script, doomed, owed, enqueued, worked, cycles, worker>>

\* Slip: the loop ends when nothing new is listed.
NothingNew == enqueued = 0

Clean == enqueued = 0 /\ worked = 0

\* Even a last cycle that was clean counts as one too many.
EndCycle ==
  /\ script = "drain"
  /\ loaded = {}
  /\ cycles' = cycles + 1
  /\ script' = CASE cycles' >= MaxCycles -> "failed"
                 [] cycles' < MaxCycles /\ Clean -> "done"
                 [] OTHER -> "import"
  /\ enqueued' = 0
  /\ worked' = 0
  /\ UNCHANGED <<edition, rebuilt, queue, mark, doomed, owed, loaded, worker>>

\* Clover or the database fails the script.
ScriptFails ==
  /\ script \in {"import", "load", "drain"}
  /\ script' = "failed"
  /\ UNCHANGED <<edition, rebuilt, queue, mark, doomed, owed, enqueued, loaded, worked, cycles, worker>>

Next ==
  \/ \E o \in Orders : Modify(o) \/ Notify(o)
  \/ \E m \in queue : Begin(m)
  \/ Write \/ MarkProcessed \/ SagaCommits \/ SagaFails
  \/ DeleteInbox \/ DeleteOrders \/ CommitReset \/ ResetFails
  \/ Import \/ Load \/ EndCycle \/ ScriptFails
  \/ \E m \in loaded : Drain(m)

Spec == Init /\ [][Next]_rebuildVars

-----------------------------------------------------------------------------
(* Properties.                                                              *)

\* docs/adr/0002: "a rebuild loses nothing".  A script that reports completion leaves
\* every order Clover had at the reset in the store, as new as it was then or newer, or
\* among the dead letters, whatever drain it caught in the middle of a saga.
RebuildComplete ==
  script = "done" =>
    \A o \in Orders :
      rebuilt[o] >= owed[o] \/ \E m \in queue : m.order = o /\ m.state = "dead"
=============================================================================
