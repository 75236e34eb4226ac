----------------------------- MODULE InboxDrain -----------------------------
(***************************************************************************)
(* An inbox table and the drains that process it                           *)
(* (infrastructure/database/src/utils/inbox/drain.ts).  A drain loads a     *)
(* batch of received or failed rows and runs each one as its own saga: the  *)
(* action's writes and the row's "processed" mark on one transaction, then  *)
(* commit.  A saga that fails is rolled back and the failure is recorded in *)
(* a second transaction on the pool.  Several drains may run at once: the   *)
(* processing routes' guards are local to a process, and the scheduled      *)
(* scripts have none.                                                       *)
(***************************************************************************)
EXTENDS Naturals, FiniteSets

CONSTANTS
  Workers,        \* the drains that may run at the same time
  Messages,       \* the messages providers may deliver, by idempotency key
  Times,          \* the receivedAt timestamps (ties are possible)
  MaxAttempts,    \* MAX_ATTEMPTS
  BatchSize,      \* the most rows one drain loads
  Poison,         \* messages whose action dies at any attempt
  PooledQueries,  \* TRUE: a saga's query() runs on a pooled connection of its own
  LostCommitAck,  \* TRUE: a COMMIT may take effect and still report an error
  MaxFaults,      \* bound on crashes, stray defects and failed recordings
  NoMessage       \* a worker's current message when it has none

ASSUME InboxAssumption ==
  /\ MaxAttempts \in Nat \ {0}
  /\ BatchSize \in Nat \ {0}
  /\ MaxFaults \in Nat
  /\ Times \subseteq Nat
  /\ Times # {}
  /\ Poison \subseteq Messages
  /\ PooledQueries \in BOOLEAN
  /\ LostCommitAck \in BOOLEAN
  /\ NoMessage \notin Messages

VARIABLES
  \* The database.
  status,      \* status column, "absent" while the row does not exist
  attempts,    \* attempts column
  receivedAt,  \* receivedAt column
  errors,      \* rows of the errors table: <<message, attemptNumber>>
  applied,     \* how often the action's writes of a message were committed
  \* The drains.
  pc,          \* where each worker stands
  batch,       \* messages of its batch not finished yet
  seen,        \* the attempts column of its batch, as loaded
  current,     \* the message it works on
  tx,          \* uncommitted writes on its reserved connection
  \* Environment.
  faults       \* faults so far

table == <<status, attempts, receivedAt, errors, applied>>
drain == <<pc, batch, seen, current, tx>>
vars  == <<table, drain, faults>>

Status   == {"absent", "received", "failed", "processed", "dead_letter"}
Settled  == {"processed", "dead_letter"}
Writes   == {"effects", "mark"}
Attempts == 0 .. MaxAttempts

\* Slip: every row that is not processed is selected.
PendingOrDead == {m \in Messages : status[m] \in {"received", "failed", "dead_letter"}}

Pending == {m \in Messages : status[m] \in {"received", "failed"}}

\* attemptNumber of the worker's current message, from the row as loaded.
AttemptNumber(w) == seen[w][current[w]] + 1

\* An uncommitted update of the row holds its lock.
RowLocked(m, w) ==
  \E v \in Workers \ {w} : current[v] = m /\ "mark" \in tx[v]

Init ==
  /\ status = [m \in Messages |-> "absent"]
  /\ attempts = [m \in Messages |-> 0]
  /\ receivedAt = [m \in Messages |-> 0]
  /\ errors = {}
  /\ applied = [m \in Messages |-> 0]
  /\ pc = [w \in Workers |-> "idle"]
  /\ batch = [w \in Workers |-> {}]
  /\ seen = [w \in Workers |-> [m \in Messages |-> 0]]
  /\ current = [w \in Workers |-> NoMessage]
  /\ tx = [w \in Workers |-> {}]
  /\ faults = 0

-----------------------------------------------------------------------------
(* Producers: a webhook request or an import inserts rows.                  *)

\* All rows of a request carry one receivedAt; a known key is left alone.
Enqueue(S, t) ==
  LET new == {m \in S : status[m] = "absent"}
  IN /\ new # {}
     /\ status' = [m \in Messages |-> IF m \in new THEN "received" ELSE status[m]]
     /\ receivedAt' = [m \in Messages |-> IF m \in new THEN t ELSE receivedAt[m]]
     /\ UNCHANGED <<attempts, errors, applied, drain, faults>>

-----------------------------------------------------------------------------
(* A drain.                                                                 *)

Goto(w, place) == pc' = [pc EXCEPT ![w] = place]

\* The drain ends, by completion or by an error nothing catches.
Leave(w) ==
  /\ Goto(w, "idle")
  /\ batch' = [batch EXCEPT ![w] = {}]
  /\ seen' = [seen EXCEPT ![w] = [m \in Messages |-> 0]]
  /\ current' = [current EXCEPT ![w] = NoMessage]
  /\ tx' = [tx EXCEPT ![w] = {}]

\* On to the next message of the batch; a rollback or a commit emptied tx.
NextMessage(w) ==
  /\ Goto(w, "next")
  /\ batch' = [batch EXCEPT ![w] = @ \ {current[w]}]
  /\ current' = [current EXCEPT ![w] = NoMessage]
  /\ tx' = [tx EXCEPT ![w] = {}]
  /\ UNCHANGED seen

\* The batches the select may return: the oldest pending rows, ties in any order.
Loadable(B) ==
  /\ \/ B = Pending /\ Cardinality(B) <= BatchSize
     \/ Cardinality(B) = BatchSize
  /\ \A m \in B, n \in Pending \ B : receivedAt[m] <= receivedAt[n]

Load(w) ==
  /\ pc[w] = "idle"
  /\ \E B \in SUBSET Pending :
       /\ Loadable(B)
       /\ batch' = [batch EXCEPT ![w] = B]
       /\ seen' = [seen EXCEPT ![w] =
                      [m \in Messages |-> IF m \in B THEN attempts[m] ELSE 0]]
  /\ Goto(w, "next")
  /\ UNCHANGED <<table, current, tx, faults>>

\* withSaga builds the saga's layer: reserve a connection and BEGIN.
OpenSaga(w) ==
  /\ pc[w] = "next"
  /\ \E m \in batch[w] :
       /\ \A n \in batch[w] : receivedAt[m] <= receivedAt[n]
       /\ current' = [current EXCEPT ![w] = m]
  /\ Goto(w, "open")
  /\ UNCHANGED <<table, batch, seen, tx, faults>>

\* action(item) succeeded; its writes wait on the reserved connection.
Act(w) ==
  /\ pc[w] = "open"
  /\ tx' = [tx EXCEPT ![w] = @ \cup {"effects"}]
  /\ Goto(w, "acted")
  /\ UNCHANGED <<table, batch, seen, current, faults>>

SetRow(m, newStatus, n) ==
  /\ status' = [status EXCEPT ![m] = newStatus]
  /\ attempts' = [attempts EXCEPT ![m] = n]

\* Slip: the update runs on the base pool instead of the saga's transaction.
MarkOnBasePool(w) ==
  /\ pc[w] = "acted"
  /\ ~RowLocked(current[w], w)
  /\ SetRow(current[w], "processed", AttemptNumber(w))
  /\ Goto(w, "marked")
  /\ UNCHANGED <<receivedAt, errors, applied, tx, batch, seen, current, faults>>

\* The row's "processed" update: on the reserved connection, or committed at
\* once where query() leaves it.
Mark(w) ==
  /\ pc[w] = "acted"
  /\ ~RowLocked(current[w], w)
  /\ IF PooledQueries
       THEN SetRow(current[w], "processed", AttemptNumber(w)) /\ UNCHANGED tx
       ELSE /\ tx' = [tx EXCEPT ![w] = @ \cup {"mark"}]
            /\ UNCHANGED <<status, attempts>>
  /\ Goto(w, "marked")
  /\ UNCHANGED <<receivedAt, errors, applied, batch, seen, current, faults>>

\* What COMMIT makes durable: the writes on the reserved connection.
MakeDurable(w) ==
  /\ applied' = [applied EXCEPT
                   ![current[w]] = IF "effects" \in tx[w] THEN @ + 1 ELSE @]
  /\ IF "mark" \in tx[w]
       THEN SetRow(current[w], "processed", AttemptNumber(w))
       ELSE UNCHANGED <<status, attempts>>
  /\ UNCHANGED <<receivedAt, errors>>

Commit(w) ==
  /\ pc[w] = "marked"
  /\ MakeDurable(w)
  /\ NextMessage(w)
  /\ UNCHANGED faults

\* To the failure branch, the writes of the reserved connection discarded.
RollBack(w) ==
  /\ tx' = [tx EXCEPT ![w] = {}]
  /\ Goto(w, "record")
  /\ UNCHANGED <<batch, seen, current, faults>>

\* Slip: the transaction of a failed saga is committed.
SagaFailsCommitted(w) ==
  /\ pc[w] \in {"open", "acted"}
  /\ MakeDurable(w)
  /\ RollBack(w)

\* BEGIN, the action or the update failed with a typed error, or COMMIT did.
SagaFails(w) ==
  /\ pc[w] \in {"open", "acted", "marked"}
  /\ RollBack(w)
  /\ UNCHANGED table

\* COMMIT took effect but the saga saw an error.
CommitAckLost(w) ==
  /\ LostCommitAck
  /\ pc[w] = "marked"
  /\ MakeDurable(w)
  /\ RollBack(w)

\* The action dies.  Effect.either does not catch a defect: the saga is rolled
\* back and the whole drain ends with nothing recorded.
SagaDies(w) ==
  /\ pc[w] = "open"
  /\ \/ current[w] \in Poison /\ UNCHANGED faults
     \/ faults < MaxFaults /\ faults' = faults + 1
  /\ Leave(w)
  /\ UNCHANGED table

\* The transaction that records the failure of attempt n: an error row numbered
\* `row`, and the inbox row's new status with the attempts column set to n.
RecordAs(w, row, newStatus, n) ==
  /\ pc[w] = "record"
  /\ ~RowLocked(current[w], w)
  /\ errors' = errors \cup {<<current[w], row>>}
  /\ SetRow(current[w], newStatus, n)
  /\ NextMessage(w)
  /\ UNCHANGED <<receivedAt, applied, faults>>

Recordable(w) ==
  /\ pc[w] = "record"
  /\ <<current[w], AttemptNumber(w)>> \notin errors

StatusAfterFailure(n) == IF n >= MaxAttempts THEN "dead_letter" ELSE "failed"

\* Slip: one attempt too many.
RecordOffByOne(w) ==
  LET n == AttemptNumber(w)
  IN Recordable(w) /\ RecordAs(w, n, StatusAfterFailure(n - 1), n)

\* Slip: the error row carries the attempts column as it was loaded.
RecordOldNumber(w) ==
  LET n == AttemptNumber(w)
  IN Recordable(w) /\ RecordAs(w, n - 1, StatusAfterFailure(n), n)

\* Slip: an error row that exists already is ignored.
RecordOnConflictDoNothing(w) ==
  LET n == AttemptNumber(w)
  IN RecordAs(w, n, StatusAfterFailure(n), n)

\* Slip: the attempts column is not bumped.
RecordForgetsAttempts(w) ==
  LET n == AttemptNumber(w)
  IN Recordable(w) /\ RecordAs(w, n, StatusAfterFailure(n), n - 1)

\* The failure, in a transaction of its own on the pool.
Record(w) ==
  LET n == AttemptNumber(w)
  IN Recordable(w) /\ RecordAs(w, n, StatusAfterFailure(n), n)

\* The error row exists already, or the transaction failed: the drain ends.
RecordFails(w) ==
  /\ pc[w] = "record"
  /\ \/ <<current[w], AttemptNumber(w)>> \in errors /\ UNCHANGED faults
     \/ faults < MaxFaults /\ faults' = faults + 1
  /\ Leave(w)
  /\ UNCHANGED table

Finish(w) ==
  /\ pc[w] = "next"
  /\ batch[w] = {}
  /\ Leave(w)
  /\ UNCHANGED <<table, faults>>

\* The process stops (a function's time limit, a deployment): its connection
\* closes and the server rolls the open transaction back.
Crash(w) ==
  /\ pc[w] # "idle"
  /\ faults < MaxFaults
  /\ faults' = faults + 1
  /\ Leave(w)
  /\ UNCHANGED table

-----------------------------------------------------------------------------
Work(w) ==
  \/ Load(w) \/ OpenSaga(w) \/ Act(w) \/ Mark(w) \/ Commit(w)
  \/ SagaFails(w) \/ Record(w) \/ Finish(w)
  \/ RecordFails(w)

Next ==
  \/ \E S \in SUBSET Messages, t \in Times : Enqueue(S, t)
  \/ \E w \in Workers : Work(w) \/ CommitAckLost(w) \/ SagaDies(w) \/ Crash(w)

Safety == Init /\ [][Next]_vars

\* A drain under way takes its next step, and the scheduler starts another when
\* one has ended.  Deliveries, faults and their timing are not fair.
Fairness == \A w \in Workers : WF_vars(Work(w))

Spec == Safety /\ Fairness

-----------------------------------------------------------------------------
(* Properties.                                                              *)

TypeOK ==
  /\ status \in [Messages -> Status]
  /\ attempts \in [Messages -> Attempts]
  /\ receivedAt \in [Messages -> Nat]
  /\ errors \subseteq Messages \X (1 .. MaxAttempts)
  /\ applied \in [Messages -> Nat]
  /\ pc \in [Workers -> {"idle", "next", "open", "acted", "marked", "record"}]
  /\ batch \in [Workers -> SUBSET Messages]
  /\ seen \in [Workers -> [Messages -> 0 .. MaxAttempts - 1]]
  /\ current \in [Workers -> Messages \cup {NoMessage}]
  /\ tx \in [Workers -> SUBSET Writes]
  /\ faults \in 0 .. MaxFaults

\* The action's writes and the "processed" mark commit together, so a row is
\* processed only if its effects are durable - in any interleaving of drains,
\* crashes and failed commits (drain.ts, withSaga, databaseSagaScoped).
ProcessedIsDurable ==
  \A m \in Messages : status[m] = "processed" => applied[m] > 0

\* The failed attempts a row stands for.
RecordedFailures(m) ==
  CASE status[m] = "dead_letter" -> MaxAttempts
    [] status[m] = "processed"   -> attempts[m] - 1
    [] OTHER                     -> attempts[m]

\* No failure leaves a gap: a row that failed n times has the error rows 1 .. n, a
\* dead letter all MaxAttempts of them and a processed row those of every attempt
\* before the last, although drains that overlap number their attempts from rows
\* they loaded long before (drain.ts: attemptNumber, the failure transaction).
ErrorTrail ==
  \A m \in Messages : \A n \in 1 .. RecordedFailures(m) : <<m, n>> \in errors

\* A dead letter is final but for a drain that loaded the row before it was given
\* up and still succeeds: a late failure finds its error row taken, never another
\* retry.
DeadLetterNeverRetried ==
  [][\A m \in Messages :
       status[m] = "dead_letter" => status'[m] \in Settled]_vars

\* One drain at a time: effects are applied exactly once, and only for a
\* message that ends processed - retries and dead letters leave none.
AppliedOnceIfProcessed ==
  \A m \in Messages : applied[m] = (IF status[m] = "processed" THEN 1 ELSE 0)

\* One drain at a time implements the inbox's contract.
failures == [m \in Messages |->
               IF status[m] = "processed" THEN attempts[m] - 1 ELSE attempts[m]]
phase == [m \in Messages |->
            IF status[m] \in {"received", "failed"} THEN "waiting" ELSE status[m]]

Contract == INSTANCE InboxContract
              WITH phase <- phase, failures <- failures, applied <- applied

ImplementsContract == Contract!Spec

\* Every message that arrives is settled for good, although failing messages
\* are loaded first: five failures take one out of the way.
EventuallySettled ==
  \A m \in Messages : status[m] = "received" ~> [](status[m] \in Settled)

\* drain.ts: "a message is only ever marked processed when all of its side effects
\* were durably written": no row is left processed, with nobody working on it,
\* whose effects are gone.
NoMessageLost ==
  \A m \in Messages :
    status[m] = "processed" /\ (\A w \in Workers : current[w] # m) => applied[m] > 0

\* drain.ts: a saga that "fails, dies or cannot commit" is rolled back and "the
\* failure is then recorded": no drain abandons an open saga without its row.
SagaEndIsRecorded ==
  [][\A w \in Workers :
       pc[w] \in {"open", "acted", "marked"} /\ pc'[w] = "idle"
         => <<current[w], AttemptNumber(w)>> \in errors']_vars
=============================================================================
