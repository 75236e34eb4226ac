-------------------------- MODULE InboxDrainProofs --------------------------
(***************************************************************************)
(* Proofs about InboxDrain, for any workers, messages and bounds.           *)
(***************************************************************************)
EXTENDS InboxDrain, TLAPS

USE InboxAssumption

-----------------------------------------------------------------------------
(* Any number of drains: the rows and what each drain remembers of them.    *)

\* Where a worker's current message and uncommitted writes come from.
WorkInv ==
  \A w \in Workers :
    /\ pc[w] \in {"open", "acted", "marked", "record"} => current[w] \in Messages
    /\ pc[w] \in {"acted", "marked"} => "effects" \in tx[w]
    /\ "mark" \in tx[w] => pc[w] = "marked"

\* A row that may be loaded has attempts left.
PendingBelowMax ==
  \A m \in Messages :
    /\ status[m] = "absent" => attempts[m] = 0
    /\ status[m] \in {"received", "failed"} => attempts[m] < MaxAttempts

\* The failures a drain read from a row stay recorded.
SeenTrail ==
  \A w \in Workers : \A m \in Messages : \A n \in 1 .. seen[w][m] :
    <<m, n>> \in errors

IInv == TypeOK /\ WorkInv /\ PendingBelowMax /\ SeenTrail /\ ErrorTrail

\* The attempt a worker is at has a number between 1 and MaxAttempts.
LEMMA AttemptNumberType ==
  ASSUME TypeOK, NEW w \in Workers, current[w] \in Messages
  PROVE  /\ AttemptNumber(w) \in 1 .. MaxAttempts
         /\ AttemptNumber(w) \in Attempts
         /\ AttemptNumber(w) = seen[w][current[w]] + 1
         /\ seen[w][current[w]] \in Nat
  BY DEF TypeOK, AttemptNumber, Attempts

LEMMA InitIInv == Init => IInv
  BY DEF Init, IInv, TypeOK, Status, Attempts, Writes, WorkInv, PendingBelowMax,
         SeenTrail, ErrorTrail, RecordedFailures

\* Leaving a drain forgets what the worker held and nothing else.
LEMMA LeaveIInv ==
  ASSUME IInv, NEW w \in Workers, Leave(w), UNCHANGED table, faults' \in 0 .. MaxFaults
  PROVE  IInv'
  <1>1. TypeOK'
    BY DEF IInv, TypeOK, Leave, Goto, table
  <1>2. WorkInv'
    BY DEF IInv, TypeOK, WorkInv, Leave, Goto, table
  <1>3. PendingBelowMax'
    BY DEF IInv, PendingBelowMax, table
  <1>4. SeenTrail'
    <2> SUFFICES ASSUME NEW v \in Workers, NEW m \in Messages, NEW n \in 1 .. seen'[v][m]
                 PROVE  <<m, n>> \in errors'
      BY DEF SeenTrail
    <2>1. seen' = [seen EXCEPT ![w] = [x \in Messages |-> 0]]
      BY DEF Leave
    <2>2. v # w /\ seen'[v][m] = seen[v][m]
      BY <2>1 DEF IInv, TypeOK
    <2>3. QED
      BY <2>2 DEF IInv, SeenTrail, table
  <1>5. ErrorTrail'
    BY DEF IInv, ErrorTrail, RecordedFailures, table
  <1>6. QED
    BY <1>1, <1>2, <1>3, <1>4, <1>5 DEF IInv

LEMMA EnqueueIInv ==
  ASSUME IInv, NEW S \in SUBSET Messages, NEW t \in Times, Enqueue(S, t)
  PROVE  IInv'
  <1>1. TypeOK'
    BY DEF IInv, TypeOK, Enqueue, drain, Status
  <1>2. WorkInv'
    BY DEF IInv, WorkInv, Enqueue, drain
  <1>3. PendingBelowMax'
    BY DEF IInv, TypeOK, PendingBelowMax, Enqueue
  <1>4. SeenTrail'
    BY DEF IInv, SeenTrail, Enqueue, drain
  <1>5. ErrorTrail'
    BY DEF IInv, TypeOK, PendingBelowMax, ErrorTrail, RecordedFailures, Enqueue
  <1>6. QED
    BY <1>1, <1>2, <1>3, <1>4, <1>5 DEF IInv

LEMMA LoadIInv ==
  ASSUME IInv, NEW w \in Workers, Load(w)
  PROVE  IInv'
  <1>1. TypeOK'
    BY DEF IInv, TypeOK, PendingBelowMax, Load, Goto, Pending, table, Attempts
  <1>2. WorkInv'
    BY DEF IInv, TypeOK, WorkInv, Load, Goto
  <1>3. PendingBelowMax'
    BY DEF IInv, PendingBelowMax, Load, table
  <1>4. SeenTrail'
    <2> SUFFICES ASSUME NEW v \in Workers, NEW m \in Messages, NEW n \in 1 .. seen'[v][m]
                 PROVE  <<m, n>> \in errors
      BY DEF SeenTrail, Load, table
    <2>1. CASE v # w
      BY <2>1 DEF IInv, TypeOK, SeenTrail, Load
    <2>2. CASE v = w
      <3>1. m \in Pending /\ n \in 1 .. attempts[m]
        BY <2>2 DEF IInv, TypeOK, Load, Pending
      <3>2. QED
        BY <3>1 DEF IInv, ErrorTrail, RecordedFailures, Pending
    <2>3. QED
      BY <2>1, <2>2
  <1>5. ErrorTrail'
    BY DEF IInv, ErrorTrail, RecordedFailures, Load, table
  <1>6. QED
    BY <1>1, <1>2, <1>3, <1>4, <1>5 DEF IInv

LEMMA OpenSagaIInv ==
  ASSUME IInv, NEW w \in Workers, OpenSaga(w)
  PROVE  IInv'
  <1>1. TypeOK'
    BY DEF IInv, TypeOK, OpenSaga, Goto, table
  <1>2. WorkInv'
    BY DEF IInv, TypeOK, WorkInv, OpenSaga, Goto
  <1>3. PendingBelowMax'
    BY DEF IInv, PendingBelowMax, OpenSaga, table
  <1>4. SeenTrail'
    BY DEF IInv, SeenTrail, OpenSaga, table
  <1>5. ErrorTrail'
    BY DEF IInv, ErrorTrail, RecordedFailures, OpenSaga, table
  <1>6. QED
    BY <1>1, <1>2, <1>3, <1>4, <1>5 DEF IInv

LEMMA ActIInv ==
  ASSUME IInv, NEW w \in Workers, Act(w)
  PROVE  IInv'
  <1>1. TypeOK'
    BY DEF IInv, TypeOK, Act, Goto, table, Writes
  <1>2. WorkInv'
    BY DEF IInv, TypeOK, WorkInv, Act, Goto
  <1>3. PendingBelowMax'
    BY DEF IInv, PendingBelowMax, Act, table
  <1>4. SeenTrail'
    BY DEF IInv, SeenTrail, Act, table
  <1>5. ErrorTrail'
    BY DEF IInv, ErrorTrail, RecordedFailures, Act, table
  <1>6. QED
    BY <1>1, <1>2, <1>3, <1>4, <1>5 DEF IInv

LEMMA SagaFailsIInv ==
  ASSUME IInv, NEW w \in Workers, SagaFails(w)
  PROVE  IInv'
  <1>1. TypeOK'
    BY DEF IInv, TypeOK, SagaFails, RollBack, Goto, table
  <1>2. WorkInv'
    BY DEF IInv, TypeOK, WorkInv, SagaFails, RollBack, Goto
  <1>3. PendingBelowMax'
    BY DEF IInv, PendingBelowMax, SagaFails, table
  <1>4. SeenTrail'
    BY DEF IInv, SeenTrail, SagaFails, RollBack, table
  <1>5. ErrorTrail'
    BY DEF IInv, ErrorTrail, RecordedFailures, SagaFails, table
  <1>6. QED
    BY <1>1, <1>2, <1>3, <1>4, <1>5 DEF IInv

\* Setting a row to "processed" at a worker's attempt keeps its trail: the attempts
\* before this one are recorded.
LEMMA ProcessedTrail ==
  ASSUME IInv, NEW w \in Workers, current[w] \in Messages,
         SetRow(current[w], "processed", AttemptNumber(w)), UNCHANGED errors
  PROVE  PendingBelowMax' /\ ErrorTrail'
  <1>1. /\ AttemptNumber(w) \in Attempts
        /\ AttemptNumber(w) = seen[w][current[w]] + 1
        /\ seen[w][current[w]] \in Nat
    BY AttemptNumberType DEF IInv
  <1>2. PendingBelowMax'
    BY <1>1 DEF IInv, TypeOK, PendingBelowMax, SetRow
  <1>3. ErrorTrail'
    <2> SUFFICES ASSUME NEW m \in Messages, NEW n \in 1 .. RecordedFailures(m)'
                 PROVE  <<m, n>> \in errors
      BY DEF ErrorTrail, SetRow
    <2>1. CASE m # current[w]
      <3>1. RecordedFailures(m)' = RecordedFailures(m)
        BY <2>1 DEF IInv, TypeOK, SetRow, RecordedFailures
      <3>2. QED
        BY <3>1 DEF IInv, ErrorTrail
    <2>2. CASE m = current[w]
      <3>1. RecordedFailures(m)' = seen[w][m]
        BY <1>1, <2>2 DEF IInv, TypeOK, SetRow, RecordedFailures
      <3>2. QED
        BY <2>2, <3>1 DEF IInv, SeenTrail
    <2>3. QED
      BY <2>1, <2>2
  <1>4. QED
    BY <1>2, <1>3

LEMMA SetProcessedType ==
  ASSUME TypeOK, NEW m \in Messages, NEW n \in Attempts, SetRow(m, "processed", n)
  PROVE  status' \in [Messages -> Status] /\ attempts' \in [Messages -> Attempts]
  <1>1. "processed" \in Status
    BY DEF Status
  <1>2. QED
    BY <1>1 DEF TypeOK, SetRow

LEMMA MarkIInv ==
  ASSUME IInv, NEW w \in Workers, Mark(w)
  PROVE  IInv'
  <1>1. current[w] \in Messages /\ AttemptNumber(w) \in Attempts
    BY AttemptNumberType DEF IInv, WorkInv, Mark
  <1>2. TypeOK'
    <2>1. UNCHANGED <<receivedAt, errors, applied, batch, seen, current, faults>>
      BY DEF Mark
    <2>2. pc' = [pc EXCEPT ![w] = "marked"]
      BY DEF Mark, Goto
    <2>3. tx' \in [Workers -> SUBSET Writes]
      BY DEF IInv, TypeOK, Mark, Writes
    <2>4. status' \in [Messages -> Status] /\ attempts' \in [Messages -> Attempts]
      BY <1>1, SetProcessedType DEF IInv, TypeOK, Mark
    <2>5. QED
      BY <2>1, <2>2, <2>3, <2>4 DEF IInv, TypeOK
  <1>3. WorkInv'
    BY DEF IInv, TypeOK, WorkInv, Mark, Goto
  <1>4. PendingBelowMax' /\ ErrorTrail'
    <2>1. CASE PooledQueries
      BY <1>1, <2>1, ProcessedTrail DEF Mark
    <2>2. CASE ~PooledQueries
      BY <2>2 DEF IInv, PendingBelowMax, ErrorTrail, RecordedFailures, Mark
    <2>3. QED
      BY <2>1, <2>2
  <1>5. SeenTrail'
    BY DEF IInv, SeenTrail, Mark
  <1>6. QED
    BY <1>2, <1>3, <1>4, <1>5 DEF IInv

\* Making a worker's transaction durable keeps every part about the rows.
LEMMA MakeDurableRows ==
  ASSUME IInv, NEW w \in Workers, current[w] \in Messages, MakeDurable(w)
  PROVE  /\ status' \in [Messages -> Status]
         /\ attempts' \in [Messages -> Attempts]
         /\ applied' \in [Messages -> Nat]
         /\ UNCHANGED <<receivedAt, errors>>
         /\ PendingBelowMax' /\ ErrorTrail'
  <1>1. AttemptNumber(w) \in Attempts
    BY AttemptNumberType DEF IInv
  <1>2. status' \in [Messages -> Status] /\ attempts' \in [Messages -> Attempts]
    BY <1>1, SetProcessedType DEF IInv, TypeOK, MakeDurable
  <1>3. applied' \in [Messages -> Nat] /\ UNCHANGED <<receivedAt, errors>>
    <2>1. applied' = [applied EXCEPT ![current[w]] = applied'[current[w]]]
      BY DEF IInv, TypeOK, MakeDurable
    <2>2. applied'[current[w]] \in Nat
      BY DEF IInv, TypeOK, MakeDurable
    <2>3. QED
      BY <2>1, <2>2 DEF IInv, TypeOK, MakeDurable
  <1>4. PendingBelowMax' /\ ErrorTrail'
    <2>1. CASE "mark" \in tx[w]
      BY <2>1, ProcessedTrail DEF MakeDurable
    <2>2. CASE "mark" \notin tx[w]
      BY <2>2 DEF IInv, PendingBelowMax, ErrorTrail, RecordedFailures, MakeDurable
    <2>3. QED
      BY <2>1, <2>2
  <1>5. QED
    BY <1>2, <1>3, <1>4

LEMMA CommitIInv ==
  ASSUME IInv, NEW w \in Workers, Commit(w)
  PROVE  IInv'
  <1>1. current[w] \in Messages
    BY DEF IInv, WorkInv, Commit
  <1>2. /\ status' \in [Messages -> Status]
        /\ attempts' \in [Messages -> Attempts]
        /\ applied' \in [Messages -> Nat]
        /\ UNCHANGED <<receivedAt, errors>>
        /\ PendingBelowMax' /\ ErrorTrail'
    BY <1>1, MakeDurableRows DEF Commit
  <1>3. TypeOK'
    BY <1>2 DEF IInv, TypeOK, Commit, NextMessage, Goto
  <1>4. WorkInv'
    BY DEF IInv, TypeOK, WorkInv, Commit, NextMessage, Goto
  <1>5. SeenTrail'
    BY <1>2 DEF IInv, SeenTrail, Commit, NextMessage
  <1>6. QED
    BY <1>2, <1>3, <1>4, <1>5 DEF IInv

LEMMA CommitAckLostIInv ==
  ASSUME IInv, NEW w \in Workers, CommitAckLost(w)
  PROVE  IInv'
  <1>1. current[w] \in Messages
    BY DEF IInv, WorkInv, CommitAckLost
  <1>2. /\ status' \in [Messages -> Status]
        /\ attempts' \in [Messages -> Attempts]
        /\ applied' \in [Messages -> Nat]
        /\ UNCHANGED <<receivedAt, errors>>
        /\ PendingBelowMax' /\ ErrorTrail'
    BY <1>1, MakeDurableRows DEF CommitAckLost
  <1>3. TypeOK'
    BY <1>2 DEF IInv, TypeOK, CommitAckLost, RollBack, Goto
  <1>4. WorkInv'
    BY DEF IInv, TypeOK, WorkInv, CommitAckLost, RollBack, Goto
  <1>5. SeenTrail'
    BY <1>2 DEF IInv, SeenTrail, CommitAckLost, RollBack
  <1>6. QED
    BY <1>2, <1>3, <1>4, <1>5 DEF IInv

\* The failure transaction closes the trail: the attempts before this one are
\* recorded (SeenTrail) and this one is now.
LEMMA RecordIInv ==
  ASSUME IInv, NEW w \in Workers, Record(w)
  PROVE  IInv'
  <1>1. current[w] \in Messages
    BY DEF IInv, WorkInv, Record, Recordable
  <1>2. /\ AttemptNumber(w) \in 1 .. MaxAttempts
        /\ AttemptNumber(w) \in Attempts
        /\ AttemptNumber(w) = seen[w][current[w]] + 1
        /\ seen[w][current[w]] \in Nat
    BY <1>1, AttemptNumberType DEF IInv
  <1> DEFINE m0 == current[w]
             n0 == AttemptNumber(w)
  <1>3. /\ errors' = errors \cup {<<m0, n0>>}
        /\ status' = [status EXCEPT ![m0] = StatusAfterFailure(n0)]
        /\ attempts' = [attempts EXCEPT ![m0] = n0]
        /\ UNCHANGED <<receivedAt, applied, faults, seen>>
        /\ NextMessage(w)
    BY DEF Record, RecordAs, SetRow, NextMessage
  <1>4. TypeOK'
    BY <1>1, <1>2, <1>3
    DEF IInv, TypeOK, StatusAfterFailure, NextMessage, Goto, Status
  <1>5. WorkInv'
    BY <1>3 DEF IInv, TypeOK, WorkInv, NextMessage, Goto
  <1>6. PendingBelowMax'
    BY <1>1, <1>2, <1>3 DEF IInv, TypeOK, PendingBelowMax, StatusAfterFailure
  <1>7. SeenTrail'
    BY <1>3 DEF IInv, SeenTrail
  <1>8. ErrorTrail'
    <2> SUFFICES ASSUME NEW m \in Messages, NEW n \in 1 .. RecordedFailures(m)'
                 PROVE  <<m, n>> \in errors'
      BY DEF ErrorTrail
    <2>1. CASE m # m0
      <3>1. RecordedFailures(m)' = RecordedFailures(m)
        BY <1>3, <2>1 DEF IInv, TypeOK, RecordedFailures
      <3>2. QED
        BY <1>3, <3>1 DEF IInv, ErrorTrail
    <2>2. CASE m = m0
      <3>1. status'[m] = StatusAfterFailure(n0) /\ attempts'[m] = n0
        BY <1>3, <2>2 DEF IInv, TypeOK
      <3>2. RecordedFailures(m)' = n0
        BY <1>2, <3>1 DEF RecordedFailures, StatusAfterFailure
      <3>3. CASE n = n0
        BY <1>3, <2>2, <3>3
      <3>4. CASE n # n0
        <4>1. n \in 1 .. seen[w][m]
          BY <1>2, <2>2, <3>2, <3>4
        <4>2. QED
          BY <1>3, <4>1 DEF IInv, SeenTrail
      <3>5. QED
        BY <3>3, <3>4
    <2>3. QED
      BY <2>1, <2>2
  <1>9. QED
    BY <1>4, <1>5, <1>6, <1>7, <1>8 DEF IInv

LEMMA NextIInv ==
  ASSUME IInv, [Next]_vars
  PROVE  IInv'
  <1>1. CASE UNCHANGED vars
    BY <1>1 DEF vars, table, drain, IInv, TypeOK, WorkInv, PendingBelowMax,
                SeenTrail, ErrorTrail, RecordedFailures
  <1>2. ASSUME NEW S \in SUBSET Messages, NEW t \in Times, Enqueue(S, t)
        PROVE  IInv'
    BY <1>2, EnqueueIInv
  <1>3. ASSUME NEW w \in Workers, Work(w) \/ CommitAckLost(w) \/ SagaDies(w) \/ Crash(w)
        PROVE  IInv'
    <2>1. CASE Load(w)
      BY <2>1, LoadIInv
    <2>2. CASE OpenSaga(w)
      BY <2>2, OpenSagaIInv
    <2>3. CASE Act(w)
      BY <2>3, ActIInv
    <2>4. CASE Mark(w)
      BY <2>4, MarkIInv
    <2>5. CASE Commit(w)
      BY <2>5, CommitIInv
    <2>6. CASE SagaFails(w)
      BY <2>6, SagaFailsIInv
    <2>7. CASE Record(w)
      BY <2>7, RecordIInv
    <2>8. CASE Finish(w)
      <3>1. Leave(w) /\ UNCHANGED table /\ faults' \in 0 .. MaxFaults
        BY <2>8 DEF Finish, IInv, TypeOK
      <3>2. QED
        BY <3>1, LeaveIInv
    <2>9. CASE RecordFails(w) \/ SagaDies(w) \/ Crash(w)
      <3>1. Leave(w) /\ UNCHANGED table /\ faults' \in 0 .. MaxFaults
        BY <2>9 DEF RecordFails, SagaDies, Crash, IInv, TypeOK
      <3>2. QED
        BY <3>1, LeaveIInv
    <2>10. CASE CommitAckLost(w)
      BY <2>10, CommitAckLostIInv
    <2>11. QED
      BY <1>3, <2>1, <2>2, <2>3, <2>4, <2>5, <2>6, <2>7, <2>8, <2>9, <2>10 DEF Work
  <1>4. QED
    BY <1>1, <1>2, <1>3 DEF Next

LEMMA Invariance == Safety => []IInv
  BY InitIInv, NextIInv, PTL DEF Safety

\* Every variable keeps its type under any interleaving of drains, deliveries and
\* faults; in particular attempts never exceeds MAX_ATTEMPTS.
THEOREM TypeCorrect == Safety => []TypeOK
  BY Invariance, PTL DEF IInv

\* However drains overlap, no failed attempt of a row is without its error row.
THEOREM ErrorTrailHolds == Safety => []ErrorTrail
  BY Invariance, PTL DEF IInv

-----------------------------------------------------------------------------
(* What becomes of a dead letter, and what "processed" stands for.           *)

\* A failure of a dead letter finds its error row: no recording reopens it.
LEMMA DeadLetterStep ==
  ASSUME IInv, Next, NEW m \in Messages, status[m] = "dead_letter"
  PROVE  status'[m] \in Settled
  <1>1. ASSUME NEW S \in SUBSET Messages, NEW t \in Times, Enqueue(S, t)
        PROVE  status'[m] \in Settled
    BY <1>1 DEF Enqueue, Settled
  <1>2. ASSUME NEW w \in Workers, Mark(w) \/ Commit(w) \/ CommitAckLost(w)
        PROVE  status'[m] \in Settled
    <2>1. \/ SetRow(current[w], "processed", AttemptNumber(w))
          \/ status' = status
      BY <1>2 DEF Mark, Commit, CommitAckLost, MakeDurable
    <2>2. QED
      BY <2>1 DEF IInv, TypeOK, SetRow, Settled
  <1>3. ASSUME NEW w \in Workers, Record(w)
        PROVE  status'[m] \in Settled
    <2>1. current[w] \in Messages
      BY <1>3 DEF IInv, WorkInv, Record, Recordable
    <2>2. current[w] # m
      <3>1. <<current[w], AttemptNumber(w)>> \notin errors
        BY <1>3 DEF Record, Recordable
      <3>2. AttemptNumber(w) \in 1 .. MaxAttempts
        BY <2>1, AttemptNumberType DEF IInv
      <3>3. RecordedFailures(m) = MaxAttempts
        BY DEF RecordedFailures
      <3>4. QED
        BY <3>1, <3>2, <3>3 DEF IInv, ErrorTrail
    <2>3. status' = [status EXCEPT ![current[w]] = StatusAfterFailure(AttemptNumber(w))]
      BY <1>3 DEF Record, RecordAs, SetRow
    <2>4. QED
      BY <2>2, <2>3 DEF IInv, TypeOK, Settled
  <1>4. ASSUME NEW w \in Workers,
               \/ Load(w) \/ OpenSaga(w) \/ Act(w) \/ SagaFails(w) \/ Finish(w)
               \/ RecordFails(w) \/ SagaDies(w) \/ Crash(w)
        PROVE  status'[m] \in Settled
    <2>1. status' = status
      BY <1>4 DEF Load, OpenSaga, Act, SagaFails, Finish, RecordFails, SagaDies,
                  Crash, table
    <2>2. QED
      BY <2>1 DEF Settled
  <1>5. QED
    BY <1>1, <1>2, <1>3, <1>4 DEF Next, Work

\* A dead letter is only ever left for "processed", by a drain that had loaded the
\* row before it was given up.
THEOREM DeadLettersStay == Safety => DeadLetterNeverRetried
  <1>1. IInv /\ [Next]_vars
          => [\A m \in Messages :
                status[m] = "dead_letter" => status'[m] \in Settled]_vars
    BY DeadLetterStep
  <1>2. QED
    BY <1>1, Invariance, PTL DEF Safety, DeadLetterNeverRetried

\* As long as a saga's queries run on its own connection, one step keeps every
\* processed row's effects durable.
LEMMA DurableStep ==
  ASSUME ~PooledQueries, IInv, ProcessedIsDurable, [Next]_vars
  PROVE  ProcessedIsDurable'
  <1>1. CASE UNCHANGED <<status, applied>>
    BY <1>1 DEF ProcessedIsDurable
  <1>2. ASSUME NEW S \in SUBSET Messages, NEW t \in Times, Enqueue(S, t)
        PROVE  ProcessedIsDurable'
    BY <1>2 DEF Enqueue, ProcessedIsDurable
  <1>3. ASSUME NEW w \in Workers, MakeDurable(w), pc[w] = "marked"
        PROVE  ProcessedIsDurable'
    <2>1. current[w] \in Messages /\ "effects" \in tx[w]
      BY <1>3 DEF IInv, WorkInv
    <2>2. applied' = [applied EXCEPT ![current[w]] = @ + 1]
      BY <1>3, <2>1 DEF MakeDurable
    <2>3. \A m \in Messages : m # current[w] => status'[m] = status[m]
      BY <1>3 DEF MakeDurable, SetRow, IInv, TypeOK
    <2>4. QED
      BY <2>1, <2>2, <2>3 DEF ProcessedIsDurable, IInv, TypeOK
  <1>4. ASSUME NEW w \in Workers, Record(w)
        PROVE  ProcessedIsDurable'
    <2>1. /\ status' = [status EXCEPT
                          ![current[w]] = StatusAfterFailure(AttemptNumber(w))]
          /\ UNCHANGED applied
      BY <1>4 DEF Record, RecordAs, SetRow
    <2>2. StatusAfterFailure(AttemptNumber(w)) # "processed"
      BY DEF StatusAfterFailure
    <2>3. QED
      BY <2>1, <2>2 DEF ProcessedIsDurable, IInv, TypeOK
  <1>5. QED
    <2>1. CASE UNCHANGED vars
      BY <1>1, <2>1 DEF vars, table
    <2>2. CASE \E w \in Workers :
                 \/ Load(w) \/ OpenSaga(w) \/ Act(w) \/ Mark(w) \/ SagaFails(w)
                 \/ Finish(w) \/ RecordFails(w) \/ SagaDies(w) \/ Crash(w)
      BY <1>1, <2>2 DEF Load, OpenSaga, Act, Mark, SagaFails, Finish, RecordFails,
                        SagaDies, Crash, table
    <2>3. CASE \E w \in Workers : Commit(w) \/ CommitAckLost(w)
      BY <1>3, <2>3 DEF Commit, CommitAckLost
    <2>4. QED
      BY <1>2, <1>4, <2>1, <2>2, <2>3 DEF Next, Work

\* With every query of a saga on the saga's own connection, a row is processed only
\* if the effects of its message are durable: for any number of drains, crashes and
\* lost acknowledgements.
THEOREM ProcessedDurable ==
  ASSUME ~PooledQueries
  PROVE  Safety => []ProcessedIsDurable
  <1>1. Init => ProcessedIsDurable
    BY DEF Init, ProcessedIsDurable
  <1>2. IInv /\ ProcessedIsDurable /\ [Next]_vars => ProcessedIsDurable'
    BY DurableStep
  <1>3. QED
    BY <1>1, <1>2, Invariance, PTL DEF Safety
-----------------------------------------------------------------------------
(* One drain at a time, a saga whose queries all run on its own connection,  *)
(* and commits whose outcome is known: the deployment the workflows'         *)
(* concurrency groups aim at.                                                *)

OneDrain ==
  /\ \A v, w \in Workers : v = w
  /\ ~PooledQueries
  /\ ~LostCommitAck

\* What the only drain loaded still holds for the rows it has not finished.
BatchFresh ==
  \A w \in Workers :
    /\ \A m \in batch[w] : /\ status[m] \in {"received", "failed"}
                           /\ seen[w][m] = attempts[m]
    /\ pc[w] \in {"open", "acted", "marked", "record"} => current[w] \in batch[w]
    /\ pc[w] = "marked" => "mark" \in tx[w]

SInv == IInv /\ BatchFresh /\ AppliedOnceIfProcessed

-----------------------------------------------------------------------------
(* What each kind of step does to the rows.                                 *)

\* A step of the only drain that leaves the table alone.
LEMMA QuietSInv ==
  ASSUME OneDrain, SInv, IInv', NEW w \in Workers, UNCHANGED table,
         \/ Load(w) \/ OpenSaga(w) \/ Act(w) \/ Mark(w) \/ SagaFails(w) \/ Leave(w)
  PROVE  SInv'
  <1>1. AppliedOnceIfProcessed'
    BY DEF SInv, AppliedOnceIfProcessed, table
  <1>2. BatchFresh'
    <2> USE DEF SInv, IInv, TypeOK, BatchFresh, OneDrain, table, Goto
    <2>1. CASE Load(w)
      BY <2>1 DEF Load, Pending
    <2>2. CASE OpenSaga(w)
      BY <2>2 DEF OpenSaga
    <2>3. CASE Act(w)
      BY <2>3 DEF Act
    <2>4. CASE Mark(w)
      BY <2>4 DEF Mark
    <2>5. CASE SagaFails(w)
      BY <2>5 DEF SagaFails, RollBack
    <2>6. CASE Leave(w)
      BY <2>6 DEF Leave
    <2>7. QED
      BY <2>1, <2>2, <2>3, <2>4, <2>5, <2>6
  <1>3. QED
    BY <1>1, <1>2 DEF SInv

\* The commit of the only drain settles its message: one application of a row that
\* was waiting, at the attempt after those recorded.
LEMMA CommitEffect ==
  ASSUME OneDrain, SInv, NEW w \in Workers, Commit(w)
  PROVE  /\ current[w] \in batch[w]
         /\ current[w] \in Messages
         /\ status[current[w]] \in {"received", "failed"}
         /\ status' = [status EXCEPT ![current[w]] = "processed"]
         /\ attempts' = [attempts EXCEPT ![current[w]] = @ + 1]
         /\ applied' = [applied EXCEPT ![current[w]] = @ + 1]
         /\ batch' = [batch EXCEPT ![w] = @ \ {current[w]}]
         /\ pc' = [pc EXCEPT ![w] = "next"]
         /\ UNCHANGED seen
  <1>1. pc[w] = "marked" /\ MakeDurable(w) /\ NextMessage(w)
    BY DEF Commit
  <1>2. /\ current[w] \in batch[w] /\ current[w] \in Messages
        /\ "mark" \in tx[w] /\ "effects" \in tx[w]
    BY <1>1 DEF SInv, IInv, WorkInv, BatchFresh
  <1>3. AttemptNumber(w) = attempts[current[w]] + 1
    BY <1>2 DEF AttemptNumber, SInv, BatchFresh
  <1>4. /\ SetRow(current[w], "processed", AttemptNumber(w))
        /\ applied' = [applied EXCEPT ![current[w]] = @ + 1]
    BY <1>1, <1>2 DEF MakeDurable
  <1>5. /\ status' = [status EXCEPT ![current[w]] = "processed"]
        /\ attempts' = [attempts EXCEPT ![current[w]] = @ + 1]
    BY <1>3, <1>4 DEF SetRow
  <1>6. QED
    BY <1>1, <1>2, <1>4, <1>5 DEF SInv, BatchFresh, NextMessage, Goto

\* The failure recorded by the only drain is the next one of a waiting row.
LEMMA RecordEffect ==
  ASSUME OneDrain, SInv, NEW w \in Workers, Record(w)
  PROVE  /\ current[w] \in batch[w]
         /\ current[w] \in Messages
         /\ status[current[w]] \in {"received", "failed"}
         /\ status' = [status EXCEPT
                         ![current[w]] = StatusAfterFailure(attempts[current[w]] + 1)]
         /\ attempts' = [attempts EXCEPT ![current[w]] = @ + 1]
         /\ batch' = [batch EXCEPT ![w] = @ \ {current[w]}]
         /\ pc' = [pc EXCEPT ![w] = "next"]
         /\ UNCHANGED <<seen, applied>>
  <1>1. pc[w] = "record"
    BY DEF Record, Recordable
  <1>2. current[w] \in batch[w] /\ current[w] \in Messages
    BY <1>1 DEF SInv, IInv, WorkInv, BatchFresh
  <1>3. AttemptNumber(w) = attempts[current[w]] + 1
    BY <1>2 DEF AttemptNumber, SInv, BatchFresh
  <1>4. /\ SetRow(current[w], StatusAfterFailure(AttemptNumber(w)), AttemptNumber(w))
        /\ NextMessage(w)
        /\ UNCHANGED applied
    BY DEF Record, RecordAs
  <1>5. /\ status' = [status EXCEPT
                        ![current[w]] = StatusAfterFailure(attempts[current[w]] + 1)]
        /\ attempts' = [attempts EXCEPT ![current[w]] = @ + 1]
    BY <1>3, <1>4 DEF SetRow
  <1>6. QED
    BY <1>2, <1>4, <1>5 DEF SInv, BatchFresh, NextMessage, Goto

\* Moving on from a message leaves the rest of the batch as it was loaded.
LEMMA RestOfBatch ==
  ASSUME OneDrain, SInv, NEW w \in Workers, current[w] \in Messages,
         \A m \in Messages : m # current[w] => /\ status'[m] = status[m]
                                               /\ attempts'[m] = attempts[m],
         batch' = [batch EXCEPT ![w] = @ \ {current[w]}],
         pc' = [pc EXCEPT ![w] = "next"],
         UNCHANGED seen
  PROVE  BatchFresh'
  BY DEF OneDrain, SInv, IInv, TypeOK, BatchFresh

LEMMA CommitSInv ==
  ASSUME OneDrain, SInv, IInv', NEW w \in Workers, Commit(w)
  PROVE  SInv'
  <1>1. BatchFresh'
    <2>1. \A m \in Messages : m # current[w] => /\ status'[m] = status[m]
                                                /\ attempts'[m] = attempts[m]
      BY CommitEffect DEF SInv, IInv, TypeOK
    <2>2. QED
      BY <2>1, CommitEffect, RestOfBatch
  <1>2. AppliedOnceIfProcessed'
    <2> DEFINE m0 == current[w]
    <2>1. /\ m0 \in Messages
          /\ status[m0] \in {"received", "failed"}
          /\ status' = [status EXCEPT ![m0] = "processed"]
          /\ applied' = [applied EXCEPT ![m0] = @ + 1]
      BY CommitEffect
    <2>2. applied[m0] = 0
      BY <2>1 DEF SInv, AppliedOnceIfProcessed
    <2>3. QED
      BY <2>1, <2>2 DEF SInv, IInv, TypeOK, AppliedOnceIfProcessed
  <1>3. QED
    BY <1>1, <1>2 DEF SInv

LEMMA RecordSInv ==
  ASSUME OneDrain, SInv, IInv', NEW w \in Workers, Record(w)
  PROVE  SInv'
  <1>1. BatchFresh'
    <2>1. \A m \in Messages : m # current[w] => /\ status'[m] = status[m]
                                                /\ attempts'[m] = attempts[m]
      BY RecordEffect DEF SInv, IInv, TypeOK
    <2>2. QED
      BY <2>1, RecordEffect, RestOfBatch
  <1>2. AppliedOnceIfProcessed'
    <2> DEFINE m0 == current[w]
    <2>1. /\ m0 \in Messages
          /\ status[m0] # "processed"
          /\ status' = [status EXCEPT ![m0] = StatusAfterFailure(attempts[m0] + 1)]
          /\ UNCHANGED applied
      BY RecordEffect
    <2>2. StatusAfterFailure(attempts[m0] + 1) # "processed"
      BY DEF StatusAfterFailure
    <2>3. QED
      BY <2>1, <2>2 DEF SInv, IInv, TypeOK, AppliedOnceIfProcessed
  <1>3. QED
    BY <1>1, <1>2 DEF SInv

LEMMA EnqueueSInv ==
  ASSUME SInv, IInv', NEW S \in SUBSET Messages, NEW t \in Times, Enqueue(S, t)
  PROVE  SInv'
  <1>1. BatchFresh'
    BY DEF SInv, IInv, TypeOK, BatchFresh, Enqueue, drain
  <1>2. AppliedOnceIfProcessed'
    BY DEF SInv, IInv, TypeOK, AppliedOnceIfProcessed, Enqueue
  <1>3. QED
    BY <1>1, <1>2 DEF SInv

\* The steps of the only drain, by what they do to the rows.
LEMMA SerialSteps ==
  ASSUME OneDrain, SInv, Next
  PROVE  \/ \E S \in SUBSET Messages, t \in Times : Enqueue(S, t)
         \/ \E w \in Workers : Commit(w) \/ Record(w)
         \/ \E w \in Workers :
              /\ UNCHANGED table
              /\ \/ Load(w) \/ OpenSaga(w) \/ Act(w) \/ Mark(w) \/ SagaFails(w)
                 \/ Leave(w)
  <1>1. ASSUME NEW w \in Workers,
               \/ Load(w) \/ OpenSaga(w) \/ Act(w) \/ SagaFails(w) \/ Finish(w)
               \/ RecordFails(w) \/ SagaDies(w) \/ Crash(w)
        PROVE  /\ UNCHANGED table
               /\ \/ Load(w) \/ OpenSaga(w) \/ Act(w) \/ SagaFails(w) \/ Leave(w)
    BY <1>1 DEF Load, OpenSaga, Act, SagaFails, Finish, RecordFails, SagaDies,
                Crash, table
  <1>2. ASSUME NEW w \in Workers, Mark(w)
        PROVE  UNCHANGED table
    BY <1>2 DEF Mark, OneDrain, table
  <1>3. ASSUME NEW w \in Workers
        PROVE  ~CommitAckLost(w)
    BY DEF CommitAckLost, OneDrain
  <1>4. QED
    BY <1>1, <1>2, <1>3 DEF Next, Work

LEMMA SerialInvariance ==
  ASSUME OneDrain
  PROVE  Safety => []SInv
  <1>1. Init => SInv
    BY InitIInv DEF SInv, Init, BatchFresh, AppliedOnceIfProcessed
  <1>2. SInv /\ [Next]_vars => SInv'
    <2> SUFFICES ASSUME SInv, [Next]_vars
                 PROVE  SInv'
      OBVIOUS
    <2>1. IInv'
      BY NextIInv DEF SInv
    <2>2. CASE UNCHANGED vars
      BY <2>1, <2>2 DEF SInv, BatchFresh, AppliedOnceIfProcessed, vars, table, drain
    <2>3. CASE Next
      BY <2>1, <2>3, SerialSteps, EnqueueSInv, CommitSInv, RecordSInv, QuietSInv
    <2>4. QED
      BY <2>2, <2>3
  <1>3. QED
    BY <1>1, <1>2, PTL DEF Safety

\* With one drain at a time and no lost acknowledgement, the effects of a message
\* are durable exactly once when its row is processed and not at all otherwise.
THEOREM ExactlyOnce ==
  ASSUME OneDrain
  PROVE  Safety => []AppliedOnceIfProcessed
  BY SerialInvariance, PTL DEF SInv

-----------------------------------------------------------------------------
(* The drain implements the inbox's contract.                               *)

LEMMA ContractInit == Init => Contract!Init
  BY DEF Init, Contract!Init, phase, failures

LEMMA ContractStep ==
  ASSUME OneDrain, SInv, [Next]_vars
  PROVE  [Contract!Next]_(Contract!vars)
  <1>1. CASE UNCHANGED <<status, attempts, applied>>
    BY <1>1 DEF Contract!vars, phase, failures
  <1>2. ASSUME NEW S \in SUBSET Messages, NEW t \in Times, Enqueue(S, t)
        PROVE  Contract!Receive(S)
    BY <1>2 DEF Enqueue, Contract!Receive, phase, failures, SInv, IInv, TypeOK, Status
  <1>3. ASSUME NEW w \in Workers, Commit(w)
        PROVE  Contract!Deliver(current[w])
    <2> DEFINE m0 == current[w]
    <2>1. /\ m0 \in Messages
          /\ status[m0] \in {"received", "failed"}
          /\ status' = [status EXCEPT ![m0] = "processed"]
          /\ attempts' = [attempts EXCEPT ![m0] = @ + 1]
          /\ applied' = [applied EXCEPT ![m0] = @ + 1]
      BY <1>3, CommitEffect
    <2>2. phase[m0] = "waiting" /\ phase' = [phase EXCEPT ![m0] = "processed"]
      BY <2>1 DEF phase, SInv, IInv, TypeOK
    <2>3. UNCHANGED failures
      <3> SUFFICES ASSUME NEW m \in Messages
                   PROVE  (IF status'[m] = "processed" THEN attempts'[m] - 1 ELSE attempts'[m])
                            = IF status[m] = "processed" THEN attempts[m] - 1 ELSE attempts[m]
        BY DEF failures
      <3>1. attempts \in [Messages -> Nat] /\ status \in [Messages -> Status]
        BY DEF SInv, IInv, TypeOK, Attempts
      <3>2. QED
        BY <2>1, <3>1
    <2>4. QED
      BY <2>1, <2>2, <2>3 DEF Contract!Deliver
  <1>4. ASSUME NEW w \in Workers, Record(w)
        PROVE  Contract!Fail(current[w])
    <2> DEFINE m0 == current[w]
               n0 == attempts[m0] + 1
    <2>1. /\ m0 \in Messages
          /\ status[m0] \in {"received", "failed"}
          /\ status' = [status EXCEPT ![m0] = StatusAfterFailure(n0)]
          /\ attempts' = [attempts EXCEPT ![m0] = n0]
          /\ UNCHANGED applied
      BY <1>4, RecordEffect
    <2>2. attempts \in [Messages -> Nat] /\ status \in [Messages -> Status]
      BY DEF SInv, IInv, TypeOK, Attempts
    <2>3. failures[m0] = attempts[m0]
      BY <2>1 DEF failures
    <2>4. failures' = [failures EXCEPT ![m0] = @ + 1]
      <3>1. StatusAfterFailure(n0) # "processed"
        BY DEF StatusAfterFailure
      <3>2. QED
        BY <2>1, <2>2, <3>1 DEF failures
    <2>5. phase[m0] = "waiting"
      BY <2>1 DEF phase
    <2>6. phase' = [phase EXCEPT
                      ![m0] = IF n0 >= MaxAttempts THEN "dead_letter" ELSE "waiting"]
      <3>1. CASE n0 >= MaxAttempts
        BY <2>1, <2>2, <3>1 DEF phase, StatusAfterFailure
      <3>2. CASE ~(n0 >= MaxAttempts)
        BY <2>1, <2>2, <3>2 DEF phase, StatusAfterFailure
      <3>3. QED
        BY <3>1, <3>2
    <2>7. QED
      BY <2>1, <2>3, <2>4, <2>5, <2>6 DEF Contract!Fail
  <1>5. QED
    <2>1. CASE UNCHANGED vars
      BY <1>1, <2>1 DEF vars, table
    <2>2. CASE \E S \in SUBSET Messages, t \in Times : Enqueue(S, t)
      BY <1>2, <2>2 DEF Contract!Next
    <2>3. CASE \E w \in Workers : Commit(w) \/ Record(w)
      BY <1>3, <1>4, <2>3, CommitEffect, RecordEffect DEF Contract!Next
    <2>4. CASE UNCHANGED table
      BY <1>1, <2>4 DEF table
    <2>5. QED
      BY <2>1, <2>2, <2>3, <2>4, SerialSteps

\* One drain at a time implements the safety part of the contract: every change of
\* a row is the arrival, the one delivery or the next failure of its message.
THEOREM SerialImplementsContract ==
  ASSUME OneDrain
  PROVE  Safety => Contract!Safety
  <1>1. SInv /\ [Next]_vars => [Contract!Next]_(Contract!vars)
    BY ContractStep
  <1>2. QED
    BY <1>1, ContractInit, SerialInvariance, PTL DEF Safety, Contract!Safety
=============================================================================
