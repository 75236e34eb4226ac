---------------------------- MODULE TokenRefresh ----------------------------
(***************************************************************************)
(* One merchant's Clover tokens (infrastructure/clover/src/auth.ts): the    *)
(* stored pair, the callers that refresh it under a PostgreSQL advisory     *)
(* lock (repositories/clover-tokens.ts), and the OAuth callback that stores *)
(* a new pair without the lock.  A refresh runs in a transaction of its     *)
(* own, which holds the lock over the call to Clover and until it commits.  *)
(* Tokens are numbered in the order Clover issues them.  Local steps take   *)
(* no time: only the call to Clover and the wait for the lock do.           *)
(***************************************************************************)
EXTENDS Naturals

CONSTANTS
  Callers,         \* calls for an access token that may be under way at once
  RequestTimeout,  \* CLOVER_REQUEST_TIMEOUT_MS, in ticks
  LockTimeout,     \* REFRESH_LOCK_TIMEOUT_MS, in ticks
  MaxTokens,       \* bound on the tokens Clover issues
  MaxFaults,       \* bound on crashes and failed calls
  Nobody           \* the holder of a lock nobody holds

ASSUME TokenAssumption ==
  /\ RequestTimeout \in Nat
  /\ LockTimeout \in Nat
  /\ MaxTokens \in Nat \ {0}
  /\ MaxFaults \in Nat
  /\ Nobody \notin Callers

VARIABLES
  \* Clover.
  issued,   \* the last token it issued
  spent,    \* refresh tokens it exchanged for others: each is good for one use
  late,     \* refresh tokens of requests given up that may still reach it
  lost,     \* spent refresh tokens whose replacement nobody stored
  \* Time.
  expired,  \* access tokens past their expiry
  lapsed,   \* refresh tokens past theirs
  \* The database.
  row,      \* the stored access and refresh token
  lock,     \* who holds the advisory lock
  \* Each caller.
  pc,
  kept,     \* the row it read under the lock
  got,      \* the tokens Clover returned
  waited,   \* ticks it has waited for the lock
  behind,   \* the lock changed hands while it waited
  age,      \* ticks the lock holder's request has taken
  \* The OAuth callback.
  grant,    \* the pair exchanged for an authorization code, not stored yet
  faults

clover == <<issued, spent, late, lost>>
time   == <<expired, lapsed>>
caller == <<pc, kept, got, waited, behind, age>>
vars   == <<clover, time, row, lock, caller, grant, faults>>

None   == 0
Tokens == 1 .. MaxTokens
Pairs  == [access : Tokens \cup {None}, refresh : Tokens \cup {None}]
NoPair == [access |-> None, refresh |-> None]
Places == {"idle", "wait", "reread", "request", "answered", "persisted"}

Init ==
  /\ issued = 1
  /\ spent = {}
  /\ late = {}
  /\ lost = {}
  /\ expired = {}
  /\ lapsed = {}
  /\ row = [access |-> 1, refresh |-> 1]
  /\ lock = Nobody
  /\ pc = [c \in Callers |-> "idle"]
  /\ kept = [c \in Callers |-> NoPair]
  /\ got = [c \in Callers |-> NoPair]
  /\ waited = [c \in Callers |-> 0]
  /\ behind = [c \in Callers |-> FALSE]
  /\ age = 0
  /\ grant = NoPair
  /\ faults = 0

-----------------------------------------------------------------------------
(* Time.                                                                    *)

Expired(pair) == pair.access \in expired
Lapsed(pair)  == pair.refresh = None \/ pair.refresh \in lapsed

\* A stored token comes within EXPIRY_SKEW_MS of its expiry.
Expire ==
  /\ ~Expired(row)
  /\ expired' = expired \cup {row.access}
  /\ UNCHANGED <<clover, lapsed, row, lock, caller, grant, faults>>

Lapse ==
  /\ ~Lapsed(row)
  /\ lapsed' = lapsed \cup {row.refresh}
  /\ UNCHANGED <<clover, expired, row, lock, caller, grant, faults>>

Requesting(c) == pc[c] \in {"request", "answered"}

\* Slip: the request's timeout is longer than the wait for the lock.
RequestOverdueLate(c) == Requesting(c) /\ age > LockTimeout

RequestOverdue(c) == Requesting(c) /\ age >= RequestTimeout

\* Slip: the wait is checked one tick late.
WaitOverdueLate(c) == pc[c] = "wait" /\ waited[c] > LockTimeout

WaitOverdue(c) == pc[c] = "wait" /\ waited[c] >= LockTimeout

\* Time passes where someone waits and nothing is left to do at once.
Tick ==
  /\ \E c \in Callers : pc[c] = "wait" \/ Requesting(c)
  /\ \A c \in Callers :
       /\ pc[c] \in {"idle", "wait", "request", "answered"}
       /\ pc[c] = "wait" => lock # Nobody
       /\ ~RequestOverdue(c) /\ ~WaitOverdue(c)
  /\ waited' = [c \in Callers |-> IF pc[c] = "wait" THEN waited[c] + 1 ELSE waited[c]]
  /\ age' = age + 1
  /\ UNCHANGED <<clover, time, row, lock, pc, kept, got, behind, grant, faults>>

-----------------------------------------------------------------------------
(* A call that finds the stored access token expired.                       *)

Goto(c, place) == pc' = [pc EXCEPT ![c] = place]

\* The call is over; its transaction, if it has one, releases the lock.
End(c) ==
  /\ Goto(c, "idle")
  /\ kept' = [kept EXCEPT ![c] = NoPair]
  /\ got' = [got EXCEPT ![c] = NoPair]
  /\ waited' = [waited EXCEPT ![c] = 0]
  /\ behind' = [behind EXCEPT ![c] = FALSE]
  /\ age' = IF lock = c THEN 0 ELSE age
  /\ lock' = IF lock = c THEN Nobody ELSE lock

\* getMerchantAccessToken; a token that is still valid is returned at once.
Get(c) ==
  /\ pc[c] = "idle"
  /\ Expired(row)
  /\ Goto(c, "wait")
  /\ UNCHANGED <<clover, time, row, lock, kept, got, waited, behind, age, grant, faults>>

\* Slip: the caller goes on without the lock where another holds it.
TakeLockTried(c) ==
  /\ pc[c] = "wait"
  /\ lock' = IF lock = Nobody THEN c ELSE lock
  /\ Goto(c, "reread")
  /\ UNCHANGED <<clover, time, row, kept, got, waited, behind, age, grant, faults>>

\* pg_advisory_xact_lock is granted.
TakeLock(c) ==
  /\ pc[c] = "wait"
  /\ lock = Nobody
  /\ lock' = c
  /\ behind' = [d \in Callers |-> behind[d] \/ (pc[d] = "wait" /\ d # c)]
  /\ Goto(c, "reread")
  /\ UNCHANGED <<clover, time, row, kept, got, waited, age, grant, faults>>

\* lock_timeout: a retryable failure.
LockTimesOut(c) ==
  /\ WaitOverdue(c)
  /\ lock # Nobody
  /\ End(c)
  /\ UNCHANGED <<clover, time, row, grant, faults>>

\* Another caller has refreshed meanwhile.
Reuse(c) ==
  /\ pc[c] = "reread"
  /\ ~Expired(row)
  /\ End(c)
  /\ UNCHANGED <<clover, time, row, grant, faults>>

\* ReauthorizationRequiredError.
RequireReauthorization(c) ==
  /\ pc[c] = "reread"
  /\ Expired(row) /\ Lapsed(row)
  /\ End(c)
  /\ UNCHANGED <<clover, time, row, grant, faults>>

\* The stored refresh token leaves for Clover.
Request(c) ==
  /\ pc[c] = "reread"
  /\ Expired(row) /\ ~Lapsed(row)
  /\ kept' = [kept EXCEPT ![c] = row]
  /\ Goto(c, "request")
  /\ UNCHANGED <<clover, time, row, lock, got, waited, behind, age, grant, faults>>

\* Slip: the previous refresh token is kept although Clover rotated it.
MergedKeepsPrevious(pair, previous) == [access |-> pair.access, refresh |-> previous.refresh]

\* persistTokens keeps the previous refresh token where Clover returned none.
Merged(pair, previous) ==
  [access |-> pair.access,
   refresh |-> IF pair.refresh = None THEN previous.refresh ELSE pair.refresh]

\* The answer arrives in time and is upserted in the lock's transaction.
Persist(c) ==
  /\ pc[c] = "answered"
  /\ Goto(c, "persisted")
  /\ UNCHANGED <<clover, time, row, lock, kept, got, waited, behind, age, grant, faults>>

Commit(c) ==
  /\ pc[c] = "persisted"
  /\ row' = Merged(got[c], kept[c])
  /\ End(c)
  /\ UNCHANGED <<clover, time, grant, faults>>

\* A call that ends without a commit: its request may still be on its way, or the
\* tokens it was given are dropped.
GiveUp(c) ==
  /\ late' = IF pc[c] = "request" THEN late \cup {kept[c].refresh} ELSE late
  /\ lost' = IF pc[c] \in {"answered", "persisted"} /\ got[c].refresh # None
               THEN lost \cup {kept[c].refresh} ELSE lost
  /\ End(c)
  /\ UNCHANGED <<issued, spent, time, row, grant>>

\* Slip: the timeout covers the sending of the request but not its answer.
RequestTimesOutUnanswered(c) ==
  /\ RequestOverdue(c)
  /\ pc[c] = "request"
  /\ GiveUp(c)
  /\ UNCHANGED faults

\* CloverRequestTimeoutError: the transaction is rolled back.
RequestTimesOut(c) ==
  /\ RequestOverdue(c)
  /\ GiveUp(c)
  /\ UNCHANGED faults

\* Clover answers with an error and has exchanged nothing.
Refused(c) ==
  /\ pc[c] = "request"
  /\ End(c)
  /\ UNCHANGED <<clover, time, row, grant, faults>>

\* The process stops, or a call to Clover or to the database fails: rolled back.
Fail(c) ==
  /\ pc[c] # "idle"
  /\ faults < MaxFaults
  /\ faults' = faults + 1
  /\ GiveUp(c)

-----------------------------------------------------------------------------
(* Clover.                                                                  *)

\* A pair; Clover does not always rotate the refresh token.
NewPair(rotated) ==
  [access |-> issued + 1, refresh |-> IF rotated THEN issued + 1 ELSE None]

Accepts(t) == t \notin spent \cup lapsed

Serve(c, rotated) ==
  /\ pc[c] = "request"
  /\ Accepts(kept[c].refresh)
  /\ issued < MaxTokens
  /\ issued' = issued + 1
  /\ spent' = IF rotated THEN spent \cup {kept[c].refresh} ELSE spent
  /\ got' = [got EXCEPT ![c] = NewPair(rotated)]
  /\ Goto(c, "answered")
  /\ UNCHANGED <<late, lost, time, row, lock, kept, waited, behind, age, grant, faults>>

\* A request its caller gave up reaches Clover after all, and rotates the token.
ServeLate(t) ==
  /\ t \in late
  /\ late' = late \ {t}
  /\ IF Accepts(t) /\ issued < MaxTokens
       THEN /\ issued' = issued + 1
            /\ spent' = spent \cup {t}
            /\ lost' = lost \cup {t}
       ELSE UNCHANGED <<issued, spent, lost>>
  /\ UNCHANGED <<time, row, lock, caller, grant, faults>>

-----------------------------------------------------------------------------
(* The OAuth callback: no lock, and no previous pair to preserve.           *)

Exchange(rotated) ==
  /\ grant = NoPair
  /\ issued < MaxTokens
  /\ issued' = issued + 1
  /\ grant' = NewPair(rotated)
  /\ UNCHANGED <<spent, late, lost, time, row, lock, caller, faults>>

\* The upsert waits for the row while a refresh has it.
Store ==
  /\ grant # NoPair
  /\ \A c \in Callers : pc[c] # "persisted"
  /\ row' = grant
  /\ grant' = NoPair
  /\ UNCHANGED <<clover, time, lock, caller, faults>>

-----------------------------------------------------------------------------
Proceed(c) ==
  \/ Reuse(c) \/ RequireReauthorization(c) \/ Request(c) \/ Commit(c)
  \/ LockTimesOut(c) \/ RequestTimesOut(c)

Step(c) ==
  \/ Proceed(c) \/ Get(c) \/ TakeLock(c) \/ Persist(c) \/ Refused(c) \/ Fail(c)
  \/ \E rotated \in BOOLEAN : Serve(c, rotated)

Next ==
  \/ Expire \/ Lapse \/ Tick \/ Store
  \/ \E c \in Callers : Step(c)
  \/ \E t \in Tokens : ServeLate(t)
  \/ \E rotated \in BOOLEAN : Exchange(rotated)

Safety == Init /\ [][Next]_vars

\* Clocks run, local steps are taken and the lock's queue is served in turn.
\* Nothing makes Clover answer.
Fairness ==
  /\ WF_vars(Tick)
  /\ \A c \in Callers : WF_vars(Proceed(c)) /\ SF_vars(TakeLock(c))

Spec == Safety /\ Fairness

-----------------------------------------------------------------------------
(* Properties.                                                              *)

TypeOK ==
  /\ issued \in Tokens
  /\ spent \subseteq Tokens
  /\ late \subseteq Tokens
  /\ lost \subseteq Tokens
  /\ expired \subseteq Tokens
  /\ lapsed \subseteq Tokens
  /\ row \in Pairs
  /\ lock \in Callers \cup {Nobody}
  /\ pc \in [Callers -> Places]
  /\ kept \in [Callers -> Pairs]
  /\ got \in [Callers -> Pairs]
  /\ waited \in [Callers -> 0 .. LockTimeout]
  /\ behind \in [Callers -> BOOLEAN]
  /\ age \in 0 .. RequestTimeout
  /\ grant \in Pairs
  /\ faults \in 0 .. MaxFaults

\* The stored refresh token is one Clover has exchanged already only while its
\* replacement is on its way to the store, or if that was lost: neither callers
\* that queue for the lock, nor pairs without a refresh token, nor a callback that
\* stores its own pair in between leave a dead one behind (refreshMerchantToken-
\* UnderLock, persistTokens).
StoredTokenIsLive ==
  row.refresh \in spent =>
    \/ row.refresh \in lost
    \/ \E c \in Callers :
         pc[c] \in {"answered", "persisted"} /\ kept[c].refresh = row.refresh

\* auth.ts: concurrent callers "never refresh with the same (possibly single-use)
\* refresh token".  A token is sent to Clover a second time only if the first
\* answer was lost.
NoTokenSentTwice ==
  [][\A c \in Callers :
       pc[c] = "reread" /\ pc'[c] = "request" => kept'[c].refresh \notin spent \ lost]_vars

\* auth.ts: the request's timeout is below the lock's, so that a stuck refresh gives
\* way before its waiters do.  Nobody times out behind one refresh alone.
OnlyQueuesTimeOut ==
  [][\A c \in Callers : LockTimesOut(c) => behind[c]]_vars

\* Every call ends, whatever Clover does with the requests.
EveryCallEnds == \A c \in Callers : []<>(pc[c] = "idle")

\* auth.ts on CloverRequestTimeoutError: "Retryable: ... the merchant is still
\* connected, and ... a retry can proceed".  Where nothing fails but a request that
\* times out, the stored refresh token is still good.
RetryCanProceed ==
  lock = Nobody => row.refresh \notin spent
=============================================================================
