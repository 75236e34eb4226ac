-------------------------- MODULE TokenRefreshProofs --------------------------
(***************************************************************************)
(* Proofs about TokenRefresh for any number of callers, tokens and ticks.   *)
(* The lock makes the callers past it exclude each other; what they hold is *)
(* then newer than every refresh token Clover has exchanged or may still    *)
(* exchange, except for tokens whose replacement was lost.                  *)
(***************************************************************************)
EXTENDS TokenRefresh, TLAPS

Holding  == {"reread", "request", "answered", "persisted"}
Sent     == {"request", "answered", "persisted"}
Answered == {"answered", "persisted"}

\* The callers past the lock are its holder.
Locking == \A c \in Callers : pc[c] \in Holding <=> lock = c

\* A caller nobody overtook has waited no longer than the holder's request takes.
Waiting ==
  \A c \in Callers :
    /\ pc[c] = "idle" => waited[c] = 0
    /\ pc[c] = "wait" /\ ~behind[c] /\ lock # Nobody => waited[c] <= age

\* Where there is a pair there is an access token; a token sent is a token.
Filled ==
  /\ row.access # None
  /\ grant = NoPair \/ grant.access # None
  /\ \A c \in Callers :
       /\ pc[c] \in Sent => kept[c].refresh # None
       /\ pc[c] \in Answered => got[c].access # None

Base == TypeOK /\ Locking /\ Waiting /\ Filled

-----------------------------------------------------------------------------
(* Type correctness and the lock.                                           *)

LEMMA InitBase == Init => Base
  <1> USE TokenAssumption
  <1>1. QED
    BY DEF Init, Base, TypeOK, Locking, Waiting, Filled, Holding, Sent, Answered,
           Tokens, Pairs, NoPair, None, Places

\* The end of a call leaves the other callers as they were.
LEMMA EndBase ==
  ASSUME Base, NEW c \in Callers, End(c),
         row' \in Pairs, row'.access # None,
         late' \subseteq Tokens, lost' \subseteq Tokens, faults' \in 0 .. MaxFaults,
         UNCHANGED <<issued, spent, time, grant>>
  PROVE  Base'
  <1> USE TokenAssumption DEF Base, End, Goto, time
  <1>1. TypeOK'
    BY DEF TypeOK, Places, Pairs, NoPair, None
  <1>2. Locking'
    BY DEF TypeOK, Locking, Holding
  <1>3. Waiting'
    BY DEF TypeOK, Waiting
  <1>4. Filled'
    BY DEF TypeOK, Filled, Sent, Answered
  <1>5. QED
    BY <1>1, <1>2, <1>3, <1>4

LEMMA GiveUpBase ==
  ASSUME Base, NEW c \in Callers, GiveUp(c), pc[c] # "idle", faults' \in 0 .. MaxFaults
  PROVE  Base'
  <1>1. pc[c] \in Sent => kept[c].refresh \in Tokens
    BY DEF Base, Filled, TypeOK, Pairs
  <1>2. late' \subseteq Tokens /\ lost' \subseteq Tokens
    BY <1>1 DEF GiveUp, Base, TypeOK, Sent
  <1>3. /\ End(c) /\ UNCHANGED <<issued, spent, time, grant>>
        /\ row' \in Pairs /\ row'.access # None
    BY DEF GiveUp, Base, TypeOK, Filled
  <1>4. QED
    BY <1>2, <1>3, EndBase

LEMMA TickBase ==
  ASSUME Base, Tick
  PROVE  Base'
  <1> USE TokenAssumption DEF Base, Tick
  <1>1. age < RequestTimeout
    <2>1. PICK c \in Callers : pc[c] = "wait" \/ Requesting(c)
      OBVIOUS
    <2>2. \E d \in Callers : Requesting(d)
      <3>1. CASE pc[c] = "wait"
        <4>1. lock \in Callers
          BY <3>1 DEF TypeOK
        <4>2. pc[lock] \in Holding /\ pc[lock] \in {"idle", "wait", "request", "answered"}
          BY <4>1 DEF Locking
        <4>3. QED
          BY <4>1, <4>2 DEF Holding, Requesting
      <3>2. QED
        BY <2>1, <3>1
    <2>3. QED
      BY <2>2 DEF RequestOverdue, TypeOK
  <1>2. \A c \in Callers : pc[c] = "wait" => waited[c] < LockTimeout
    BY DEF WaitOverdue, TypeOK
  <1>3. TypeOK'
    BY <1>1, <1>2 DEF TypeOK, clover, time
  <1>4. Locking' /\ Filled'
    BY DEF Locking, Filled
  <1>5. Waiting'
    BY DEF TypeOK, Waiting
  <1>6. QED
    BY <1>3, <1>4, <1>5

LEMMA NewPairType ==
  ASSUME Base, issued < MaxTokens, NEW rotated \in BOOLEAN
  PROVE  /\ issued + 1 \in Tokens
         /\ NewPair(rotated) \in Pairs
         /\ NewPair(rotated).access # None
         /\ NewPair(rotated).refresh \in {None, issued + 1}
  BY TokenAssumption DEF Base, TypeOK, NewPair, Tokens, Pairs, None

LEMMA ServeBase ==
  ASSUME Base, NEW c \in Callers, NEW rotated \in BOOLEAN, Serve(c, rotated)
  PROVE  Base'
  <1> USE TokenAssumption DEF Base, Serve, Goto, time
  <1>1. /\ issued' \in Tokens
        /\ NewPair(rotated) \in Pairs /\ NewPair(rotated).access # None
    BY NewPairType
  <1>2. kept[c].refresh \in Tokens
    BY DEF Filled, Sent, TypeOK, Pairs
  <1>3. TypeOK'
    BY <1>1, <1>2 DEF TypeOK, Places
  <1>4. Locking' /\ Waiting'
    BY DEF TypeOK, Locking, Waiting, Holding
  <1>5. Filled'
    BY <1>1 DEF TypeOK, Filled, Sent, Answered
  <1>6. QED
    BY <1>3, <1>4, <1>5

LEMMA TakeLockBase ==
  ASSUME Base, NEW c \in Callers, TakeLock(c)
  PROVE  Base'
  <1> USE TokenAssumption DEF Base, TakeLock, Goto, clover, time
  <1>1. TypeOK'
    BY DEF TypeOK, Places
  <1>2. Locking'
    BY DEF TypeOK, Locking, Holding
  <1>3. Waiting'
    BY DEF TypeOK, Waiting
  <1>4. Filled'
    BY DEF TypeOK, Filled, Sent, Answered
  <1>5. QED
    BY <1>1, <1>2, <1>3, <1>4

LEMMA MergedType ==
  ASSUME Base, NEW c \in Callers, pc[c] = "persisted"
  PROVE  Merged(got[c], kept[c]) \in Pairs /\ Merged(got[c], kept[c]).access # None
  BY DEF Base, TypeOK, Filled, Answered, Merged, Pairs

\* A step inside a call that leaves the lock and Clover alone.
LEMMA CallBase ==
  ASSUME Base, NEW c \in Callers, Get(c) \/ Request(c) \/ Persist(c)
  PROVE  Base'
  <1> USE TokenAssumption DEF Base, Goto, clover, time
  <1>1. CASE Get(c)
    <2>1. TypeOK'
      BY <1>1 DEF Get, TypeOK, Places
    <2>2. Locking' /\ Filled'
      BY <1>1 DEF Get, TypeOK, Locking, Filled, Holding, Sent, Answered
    <2>3. Waiting'
      BY <1>1 DEF Get, TypeOK, Waiting
    <2>4. QED
      BY <2>1, <2>2, <2>3
  <1>2. CASE Request(c)
    <2>1. TypeOK'
      BY <1>2 DEF Request, TypeOK, Places
    <2>2. Locking' /\ Waiting'
      BY <1>2 DEF Request, TypeOK, Locking, Waiting, Holding
    <2>3. Filled'
      BY <1>2 DEF Request, Lapsed, TypeOK, Filled, Sent, Answered
    <2>4. QED
      BY <2>1, <2>2, <2>3
  <1>3. CASE Persist(c)
    <2>1. TypeOK'
      BY <1>3 DEF Persist, TypeOK, Places
    <2>2. Locking' /\ Waiting' /\ Filled'
      BY <1>3 DEF Persist, TypeOK, Locking, Waiting, Filled, Holding, Sent, Answered
    <2>3. QED
      BY <2>1, <2>2
  <1>4. QED
    BY <1>1, <1>2, <1>3

\* Clocks, a late answer and the OAuth callback leave the callers alone.
LEMMA OutsideBase ==
  ASSUME Base,
         \/ Expire \/ Lapse \/ Store
         \/ \E t \in Tokens : ServeLate(t)
         \/ \E rotated \in BOOLEAN : Exchange(rotated)
  PROVE  Base'
  <1> USE TokenAssumption DEF Base, clover, time, caller
  <1>1. Locking' /\ Waiting'
    BY DEF Expire, Lapse, Store, ServeLate, Exchange, Locking, Waiting
  <1>2. CASE Expire
    BY <1>1, <1>2 DEF Expire, TypeOK, Filled, Pairs
  <1>3. CASE Lapse
    BY <1>1, <1>3 DEF Lapse, Lapsed, TypeOK, Filled, Pairs
  <1>4. CASE Store
    <2>1. NoPair \in Pairs
      BY DEF NoPair, Pairs
    <2>2. QED
      BY <1>1, <1>4, <2>1 DEF Store, TypeOK, Filled
  <1>5. ASSUME NEW t \in Tokens, ServeLate(t)
        PROVE  Base'
    <2>1. issued' \in Tokens /\ spent' \subseteq Tokens /\ lost' \subseteq Tokens
      <3>1. CASE Accepts(t) /\ issued < MaxTokens
        <4>1. issued' = issued + 1 /\ spent' = spent \cup {t} /\ lost' = lost \cup {t}
          BY <1>5, <3>1 DEF ServeLate
        <4>2. issued + 1 \in Tokens
          BY <3>1 DEF TypeOK, Tokens
        <4>3. QED
          BY <4>1, <4>2 DEF TypeOK
      <3>2. CASE ~(Accepts(t) /\ issued < MaxTokens)
        <4>1. UNCHANGED <<issued, spent, lost>>
          BY <1>5, <3>2 DEF ServeLate
        <4>2. QED
          BY <4>1 DEF TypeOK
      <3>3. QED
        BY <3>1, <3>2
    <2>2. QED
      BY <1>1, <1>5, <2>1 DEF ServeLate, TypeOK, Filled
  <1>6. ASSUME NEW rotated \in BOOLEAN, Exchange(rotated)
        PROVE  Base'
    <2>1. /\ issued' \in Tokens
          /\ NewPair(rotated) \in Pairs /\ NewPair(rotated).access # None
      BY <1>6, NewPairType DEF Exchange
    <2>2. QED
      BY <1>1, <1>6, <2>1 DEF Exchange, TypeOK, Filled
  <1>7. QED
    BY <1>2, <1>3, <1>4, <1>5, <1>6

LEMMA StepBase ==
  ASSUME Base, NEW c \in Callers, Step(c)
  PROVE  Base'
  <1>1. CASE Reuse(c) \/ RequireReauthorization(c) \/ LockTimesOut(c) \/ Refused(c)
    <2>1. /\ End(c) /\ UNCHANGED <<issued, spent, time, grant>>
          /\ row' \in Pairs /\ row'.access # None
          /\ late' \subseteq Tokens /\ lost' \subseteq Tokens
          /\ faults' \in 0 .. MaxFaults
      BY <1>1 DEF Reuse, RequireReauthorization, LockTimesOut, Refused, clover, Base,
                  TypeOK, Filled
    <2>2. QED
      BY <2>1, EndBase
  <1>2. CASE Commit(c)
    <2>1. /\ End(c) /\ UNCHANGED <<issued, spent, time, grant>>
          /\ row' \in Pairs /\ row'.access # None
          /\ late' \subseteq Tokens /\ lost' \subseteq Tokens
          /\ faults' \in 0 .. MaxFaults
      BY <1>2, MergedType DEF Commit, clover, Base, TypeOK
    <2>2. QED
      BY <2>1, EndBase
  <1>3. CASE RequestTimesOut(c)
    <2>1. pc[c] # "idle" /\ GiveUp(c) /\ faults' \in 0 .. MaxFaults
      BY <1>3 DEF RequestTimesOut, RequestOverdue, Requesting, Base, TypeOK
    <2>2. QED
      BY <2>1, GiveUpBase
  <1>4. CASE Fail(c)
    <2>1. pc[c] # "idle" /\ GiveUp(c) /\ faults' \in 0 .. MaxFaults
      BY <1>4, TokenAssumption DEF Fail, Base, TypeOK
    <2>2. QED
      BY <2>1, GiveUpBase
  <1>5. CASE Get(c) \/ Request(c) \/ Persist(c)
    BY <1>5, CallBase
  <1>6. CASE TakeLock(c)
    BY <1>6, TakeLockBase
  <1>7. ASSUME NEW rotated \in BOOLEAN, Serve(c, rotated)
        PROVE  Base'
    BY <1>7, ServeBase
  <1>8. QED
    BY <1>1, <1>2, <1>3, <1>4, <1>5, <1>6, <1>7 DEF Step, Proceed

LEMMA NextBase == Base /\ [Next]_vars => Base'
  <1> SUFFICES ASSUME Base, [Next]_vars
               PROVE  Base'
    OBVIOUS
  <1>1. ASSUME NEW c \in Callers, Step(c)
        PROVE  Base'
    BY <1>1, StepBase
  <1>2. CASE Tick
    BY <1>2, TickBase
  <1>3. CASE \/ Expire \/ Lapse \/ Store
             \/ \E t \in Tokens : ServeLate(t)
             \/ \E rotated \in BOOLEAN : Exchange(rotated)
    BY <1>3, OutsideBase
  <1>4. CASE UNCHANGED vars
    BY <1>4 DEF vars, clover, time, caller, Base, TypeOK, Locking, Waiting, Filled
  <1>5. QED
    BY <1>1, <1>2, <1>3, <1>4 DEF Next

LEMMA BaseInvariance == Safety => []Base
  BY InitBase, NextBase, PTL DEF Safety

\* Every variable keeps its type; the lock and the timeouts bound what is counted.
THEOREM TypeCorrect == Safety => []TypeOK
  BY BaseInvariance, PTL DEF Base

-----------------------------------------------------------------------------
(* Timeouts.                                                                *)

LEMMA TimeoutStep ==
  ASSUME RequestTimeout < LockTimeout
  PROVE  Base => [\A c \in Callers : LockTimesOut(c) => behind[c]]_vars
  <1> SUFFICES ASSUME Base, NEW c \in Callers, LockTimesOut(c), ~behind[c]
               PROVE  FALSE
    OBVIOUS
  <1>1. /\ pc[c] = "wait" /\ lock # Nobody
        /\ waited[c] >= LockTimeout
    BY DEF LockTimesOut, WaitOverdue
  <1>2. waited[c] <= age /\ age <= RequestTimeout
    BY <1>1, TokenAssumption DEF Base, Waiting, TypeOK
  <1>3. QED
    BY <1>1, <1>2, TokenAssumption DEF Base, TypeOK

\* A caller times out only behind more than one refresh, as long as a request may
\* take less than the wait for the lock (auth.ts: the two timeouts).
THEOREM NoTimeoutBehindOne ==
  ASSUME RequestTimeout < LockTimeout
  PROVE  Safety => OnlyQueuesTimeOut
  <1>1. Base => [\A c \in Callers : LockTimesOut(c) => behind[c]]_vars
    BY TimeoutStep
  <1>2. QED
    BY <1>1, BaseInvariance, PTL DEF Safety, OnlyQueuesTimeOut

-----------------------------------------------------------------------------
(* Single-use tokens.                                                       *)

\* Clover has not exchanged the token and no request on its way can make it.
Unused(t) == t \notin spent \cup late

Known ==
  /\ spent \cup late \subseteq 1 .. issued
  /\ row.refresh <= issued /\ grant.refresh <= issued
  /\ \A c \in Callers : kept[c].refresh <= issued /\ got[c].refresh <= issued

\* The callback's pair is nobody else's.
GrantNew ==
  grant.refresh # None =>
    /\ Unused(grant.refresh)
    /\ grant.refresh # row.refresh
    /\ \A c \in Callers :
         /\ pc[c] \in Sent => kept[c].refresh # grant.refresh
         /\ pc[c] \in Answered => got[c].refresh # grant.refresh

GotNew ==
  \A c \in Callers :
    pc[c] \in Answered /\ got[c].refresh # None => Unused(got[c].refresh)

\* A token sent and not exchanged for the answer is not exchanged at all, unless
\* its replacement was lost.
KeptLive ==
  \A c \in Callers :
    /\ pc[c] = "request" \/ (pc[c] \in Answered /\ got[c].refresh = None)
    /\ kept[c].refresh \in spent
    => kept[c].refresh \in lost

Live == Known /\ GrantNew /\ GotNew /\ KeptLive /\ StoredTokenIsLive

\* Two callers are never past the lock together.
LEMMA Alone ==
  ASSUME Base, NEW c \in Callers, NEW d \in Callers, pc[c] \in Holding, pc[d] \in Holding
  PROVE  c = d
  BY DEF Base, Locking

LEMMA InitLive == Init => Live
  BY DEF Init, Live, Known, GrantNew, GotNew, KeptLive, StoredTokenIsLive, Unused,
         NoPair, None, Sent, Answered

\* A call that ends without a commit.
LEMMA EndLive ==
  ASSUME Base, Live, NEW c \in Callers, End(c),
         UNCHANGED <<issued, spent, row, grant>>,
         lost \subseteq lost',
         late' = late \/ (pc[c] = "request" /\ late' = late \cup {kept[c].refresh}),
         pc[c] \in Answered /\ kept[c].refresh \in spent => kept[c].refresh \in lost'
  PROVE  Live'
  <1> USE DEF Live, End, Goto
  <1>1. /\ pc'[c] = "idle" /\ kept'[c] = NoPair /\ got'[c] = NoPair
        /\ \A d \in Callers \ {c} :
             pc'[d] = pc[d] /\ kept'[d] = kept[d] /\ got'[d] = got[d]
    BY DEF Base, TypeOK
  <1>2. late' = late \/ (kept[c].refresh \in 1 .. issued /\ late' = late \cup {kept[c].refresh})
    BY DEF Base, TypeOK, Filled, Known, Sent, Pairs, Tokens, None
  <1>3. Known'
    <2>1. issued \in Nat
      BY DEF Base, TypeOK, Tokens
    <2>2. spent' \cup late' \subseteq 1 .. issued'
      BY <1>2 DEF Known
    <2>3. NoPair.refresh <= issued
      BY <2>1 DEF NoPair, None
    <2>4. QED
      BY <1>1, <2>2, <2>3 DEF Known
  <1>4. GrantNew'
    BY <1>1 DEF GrantNew, Unused, Sent, Answered
  <1>5. GotNew'
    <2>1. SUFFICES ASSUME NEW d \in Callers, pc'[d] \in Answered, got'[d].refresh # None
                   PROVE  Unused(got[d].refresh)'
      BY <1>1 DEF GotNew, Answered
    <2>2. d # c /\ pc[d] \in Answered /\ Unused(got[d].refresh)
      BY <1>1, <2>1 DEF GotNew, Answered
    <2>3. pc[c] # "request"
      BY <2>2, Alone DEF Holding, Answered
    <2>4. QED
      BY <1>1, <2>2, <2>3 DEF Unused
  <1>6. KeptLive'
    BY <1>1 DEF KeptLive, Answered
  <1>7. StoredTokenIsLive'
    BY <1>1 DEF StoredTokenIsLive, Answered
  <1>8. QED
    BY <1>3, <1>4, <1>5, <1>6, <1>7

LEMMA GiveUpLive ==
  ASSUME Base, Live, NEW c \in Callers, GiveUp(c)
  PROVE  Live'
  <1>1. pc[c] \in Answered /\ kept[c].refresh \in spent => kept[c].refresh \in lost'
    BY DEF GiveUp, Live, KeptLive, Answered
  <1>2. QED
    BY <1>1, EndLive DEF GiveUp

LEMMA CommitLive ==
  ASSUME Base, Live, NEW c \in Callers, Commit(c)
  PROVE  Live'
  <1> USE DEF Live, Commit, End, Goto, clover
  <1>1. /\ pc'[c] = "idle" /\ kept'[c] = NoPair /\ got'[c] = NoPair
        /\ \A d \in Callers \ {c} :
             pc'[d] = pc[d] /\ kept'[d] = kept[d] /\ got'[d] = got[d]
    BY DEF Base, TypeOK
  <1>2. \A d \in Callers \ {c} : pc[d] \notin Holding
    BY Alone DEF Holding
  <1>3. \/ got[c].refresh # None /\ row'.refresh = got[c].refresh
        \/ got[c].refresh = None /\ row'.refresh = kept[c].refresh
    BY DEF Merged
  <1>4. pc[c] \in Sent /\ pc[c] \in Answered
    BY DEF Sent, Answered
  <1>5. Known'
    BY <1>1, <1>3 DEF Known, NoPair, None, Base, TypeOK, Tokens
  <1>6. GrantNew'
    BY <1>1, <1>3, <1>4 DEF GrantNew, Unused, Sent, Answered
  <1>7. GotNew' /\ KeptLive'
    BY <1>1, <1>2 DEF GotNew, KeptLive, Holding, Answered
  <1>8. StoredTokenIsLive'
    BY <1>3, <1>4 DEF StoredTokenIsLive, GotNew, KeptLive, Unused
  <1>9. QED
    BY <1>5, <1>6, <1>7, <1>8

LEMMA RequestLive ==
  ASSUME Base, Live, NEW c \in Callers, Request(c)
  PROVE  Live'
  <1> USE DEF Live, Request, Goto, clover
  <1>1. \A d \in Callers \ {c} : pc[d] \notin Holding
    BY Alone DEF Holding
  <1>2. /\ pc'[c] = "request" /\ kept'[c] = row
        /\ \A d \in Callers \ {c} : pc'[d] = pc[d] /\ kept'[d] = kept[d]
    BY DEF Base, TypeOK
  <1>3. row.refresh \in spent => row.refresh \in lost
    BY <1>1 DEF StoredTokenIsLive, Holding
  <1>4. Known'
    BY <1>2 DEF Known
  <1>5. GrantNew' /\ GotNew'
    BY <1>2 DEF GrantNew, GotNew, Unused, Sent, Answered
  <1>6. KeptLive'
    BY <1>1, <1>2, <1>3 DEF KeptLive, Holding, Answered
  <1>7. StoredTokenIsLive'
    BY <1>3 DEF StoredTokenIsLive
  <1>8. QED
    BY <1>4, <1>5, <1>6, <1>7

LEMMA ServeLive ==
  ASSUME Base, Live, NEW c \in Callers, NEW rotated \in BOOLEAN, Serve(c, rotated)
  PROVE  Live'
  <1> USE DEF Live, Serve, Goto
  <1>1. \A d \in Callers \ {c} : pc[d] \notin Holding
    BY Alone DEF Holding
  <1>2. /\ pc'[c] = "answered" /\ got'[c] = NewPair(rotated)
        /\ \A d \in Callers \ {c} : pc'[d] = pc[d] /\ got'[d] = got[d]
    BY DEF Base, TypeOK
  <1>3. /\ issued \in Nat /\ issued' = issued + 1
        /\ rotated => NewPair(rotated).refresh = issued + 1
        /\ ~rotated => NewPair(rotated).refresh = None
    <2>1. issued \in Nat /\ issued' = issued + 1
      BY DEF Base, TypeOK, Tokens
    <2>2. NewPair(rotated).refresh = IF rotated THEN issued + 1 ELSE None
      BY DEF NewPair
    <2>3. QED
      BY <2>1, <2>2
  <1>4. /\ kept[c].refresh \in 1 .. issued
        /\ row.refresh \in 0 .. issued /\ grant.refresh \in 0 .. issued
        /\ \A d \in Callers : kept[d].refresh \in 0 .. issued /\ got[d].refresh \in 0 .. issued
    BY <1>3 DEF Base, TypeOK, Filled, Known, Sent, Pairs, Tokens, None
  <1>5. /\ ~rotated => spent' = spent
        /\ rotated => spent' = spent \cup {kept[c].refresh}
    OBVIOUS
  <1>6. Known'
    <2>1. spent' \cup late' \subseteq 1 .. issued'
      BY <1>3, <1>4, <1>5 DEF Known
    <2>2. \A d \in Callers : got'[d].refresh <= issued'
      BY <1>2, <1>3, <1>4 DEF None
    <2>3. QED
      BY <1>3, <1>4, <2>1, <2>2 DEF Known
  <1>7. GrantNew'
    <2>1. SUFFICES ASSUME grant.refresh # None
                   PROVE  GrantNew'
      BY DEF GrantNew
    <2>2. Unused(grant.refresh)'
      BY <1>5, <2>1 DEF GrantNew, Unused, Sent
    <2>3. NewPair(rotated).refresh # grant.refresh
      BY <1>3, <1>4, <2>1 DEF None
    <2>4. QED
      BY <1>2, <2>1, <2>2, <2>3 DEF GrantNew, Sent, Answered
  <1>8. GotNew'
    <2>1. issued + 1 \notin spent' \cup late'
      BY <1>3, <1>4, <1>5 DEF Known
    <2>2. QED
      BY <1>1, <1>2, <1>3, <2>1 DEF GotNew, Unused, Holding, Answered
  <1>9. KeptLive'
    <2>1. NewPair(rotated).refresh = None => ~rotated
      BY <1>3 DEF None
    <2>2. QED
      BY <1>1, <1>2, <1>5, <2>1 DEF KeptLive, Holding, Answered
  <1>10. StoredTokenIsLive'
    BY <1>1, <1>2, <1>5 DEF StoredTokenIsLive, Holding, Answered
  <1>11. QED
    BY <1>6, <1>7, <1>8, <1>9, <1>10

\* What the callers hold is not affected by a late answer or by the callback.
LEMMA OutsideLive ==
  ASSUME Base, Live,
         \/ Store
         \/ \E t \in Tokens : ServeLate(t)
         \/ \E rotated \in BOOLEAN : Exchange(rotated)
  PROVE  Live'
  <1> USE DEF Live, clover, caller
  <1>1. CASE Store
    <2>1. NoPair.refresh = None /\ None \notin spent
      BY DEF NoPair, None, Base, TypeOK, Tokens
    <2>2. Known'
      BY <1>1, <2>1 DEF Store, Known, None, Base, TypeOK, Tokens
    <2>3. GrantNew' /\ GotNew' /\ KeptLive'
      BY <1>1, <2>1 DEF Store, GrantNew, GotNew, KeptLive, Unused
    <2>4. StoredTokenIsLive'
      BY <1>1, <2>1 DEF Store, StoredTokenIsLive, GrantNew, Unused
    <2>5. QED
      BY <2>2, <2>3, <2>4
  <1>2. ASSUME NEW t \in Tokens, ServeLate(t)
        PROVE  Live'
    <2>1. /\ t \in late /\ late' = late \ {t}
          /\ UNCHANGED <<row, pc, kept, got, grant>>
          /\ \/ issued' = issued + 1 /\ spent' = spent \cup {t} /\ lost' = lost \cup {t}
             \/ UNCHANGED <<issued, spent, lost>>
      BY <1>2 DEF ServeLate
    <2>2. Known'
      <3>1. /\ issued \in Nat /\ row.refresh \in Nat /\ grant.refresh \in Nat
            /\ \A c \in Callers : kept[c].refresh \in Nat /\ got[c].refresh \in Nat
        BY DEF Base, TypeOK, Tokens, Pairs, None
      <3>2. spent' \cup late' \subseteq 1 .. issued'
        BY <2>1, <3>1 DEF Known
      <3>3. QED
        BY <2>1, <3>1, <3>2 DEF Known
    <2>3. GrantNew' /\ GotNew' /\ KeptLive' /\ StoredTokenIsLive'
      BY <2>1 DEF GrantNew, GotNew, KeptLive, StoredTokenIsLive, Unused
    <2>4. QED
      BY <2>2, <2>3
  <1>3. ASSUME NEW rotated \in BOOLEAN, Exchange(rotated)
        PROVE  Live'
    <2>1. /\ issued' = issued + 1 /\ grant' = NewPair(rotated)
          /\ UNCHANGED <<spent, late, lost, row, pc, kept, got>>
      BY <1>3 DEF Exchange
    <2>2. /\ issued \in Nat /\ row.refresh \in Nat
          /\ \A c \in Callers : kept[c].refresh \in Nat /\ got[c].refresh \in Nat
          /\ NewPair(rotated).refresh \in {None, issued + 1}
      BY DEF Base, TypeOK, Tokens, Pairs, None, NewPair
    <2>3. Known'
      BY <2>1, <2>2 DEF Known, None
    <2>4. GrantNew'
      <3>1. issued + 1 \notin spent \cup late /\ issued + 1 # row.refresh
        BY <2>2 DEF Known
      <3>2. ASSUME NEW c \in Callers
            PROVE  kept[c].refresh # issued + 1 /\ got[c].refresh # issued + 1
        <4>1. kept[c].refresh <= issued /\ got[c].refresh <= issued
          BY DEF Known
        <4>2. QED
          BY <2>2, <4>1
      <3>3. QED
        BY <2>1, <2>2, <3>1, <3>2 DEF GrantNew, Unused
    <2>5. GotNew' /\ KeptLive' /\ StoredTokenIsLive'
      BY <2>1 DEF GotNew, KeptLive, StoredTokenIsLive, Unused
    <2>6. QED
      BY <2>3, <2>4, <2>5
  <1>4. QED
    BY <1>1, <1>2, <1>3

\* The steps that touch neither tokens nor what a caller holds past the lock.
LEMMA QuietLive ==
  ASSUME Base, Live,
         UNCHANGED <<issued, spent, late, lost, row, kept, got, grant>>,
         \A c \in Callers : \/ pc'[c] = pc[c]
                            \/ pc[c] = "idle" /\ pc'[c] = "wait"
                            \/ pc[c] = "wait" /\ pc'[c] = "reread"
                            \/ pc[c] = "answered" /\ pc'[c] = "persisted"
  PROVE  Live'
  BY DEF Live, Known, GrantNew, GotNew, KeptLive, StoredTokenIsLive, Unused, Sent, Answered

LEMMA NextLive == Base /\ Live /\ [Next]_vars => Live'
  <1> SUFFICES ASSUME Base, Live, [Next]_vars
               PROVE  Live'
    OBVIOUS
  <1>1. ASSUME NEW c \in Callers,
               Reuse(c) \/ RequireReauthorization(c) \/ LockTimesOut(c) \/ Refused(c)
        PROVE  Live'
    <2>1. /\ End(c) /\ UNCHANGED <<issued, spent, row, grant, lost, late>>
          /\ pc[c] \notin Answered
      BY <1>1 DEF Reuse, RequireReauthorization, LockTimesOut, WaitOverdue, Refused,
                  clover, Answered
    <2>2. QED
      BY <2>1, EndLive
  <1>2. ASSUME NEW c \in Callers, RequestTimesOut(c) \/ Fail(c)
        PROVE  Live'
    BY <1>2, GiveUpLive DEF RequestTimesOut, Fail
  <1>3. ASSUME NEW c \in Callers, Commit(c)
        PROVE  Live'
    BY <1>3, CommitLive
  <1>4. ASSUME NEW c \in Callers, Request(c)
        PROVE  Live'
    BY <1>4, RequestLive
  <1>5. ASSUME NEW c \in Callers, NEW rotated \in BOOLEAN, Serve(c, rotated)
        PROVE  Live'
    BY <1>5, ServeLive
  <1>6. ASSUME NEW c \in Callers, Get(c) \/ TakeLock(c) \/ Persist(c)
        PROVE  Live'
    <2>1. /\ UNCHANGED <<issued, spent, late, lost, row, kept, got, grant>>
          /\ \A d \in Callers : \/ pc'[d] = pc[d]
                                \/ pc[d] = "idle" /\ pc'[d] = "wait"
                                \/ pc[d] = "wait" /\ pc'[d] = "reread"
                                \/ pc[d] = "answered" /\ pc'[d] = "persisted"
      BY <1>6 DEF Get, TakeLock, Persist, Goto, clover, Base, TypeOK
    <2>2. QED
      BY <2>1, QuietLive
  <1>7. CASE Expire \/ Lapse \/ Tick \/ UNCHANGED vars
    <2>1. UNCHANGED <<issued, spent, late, lost, row, kept, got, grant, pc>>
      BY <1>7 DEF Expire, Lapse, Tick, vars, clover, caller
    <2>2. QED
      BY <2>1, QuietLive
  <1>8. CASE \/ Store
             \/ \E t \in Tokens : ServeLate(t)
             \/ \E rotated \in BOOLEAN : Exchange(rotated)
    BY <1>8, OutsideLive
  <1>9. QED
    BY <1>1, <1>2, <1>3, <1>4, <1>5, <1>6, <1>7, <1>8 DEF Next, Step, Proceed

LEMMA LiveInvariance == Safety => []Live
  BY BaseInvariance, InitLive, NextLive, PTL DEF Safety

\* The stored refresh token is dead only while its replacement is on its way to the
\* store, or if that was lost.
THEOREM StoredIsLive == Safety => []StoredTokenIsLive
  BY LiveInvariance, PTL DEF Live

LEMMA SentOnce ==
  Base /\ Live /\ [Next]_vars
    => [\A c \in Callers :
          pc[c] = "reread" /\ pc'[c] = "request" => kept'[c].refresh \notin spent \ lost]_vars
  <1> SUFFICES ASSUME Base, Live, Next, NEW c \in Callers,
                      pc[c] = "reread", pc'[c] = "request"
               PROVE  kept'[c].refresh \notin spent \ lost
    BY DEF vars
  <1>1. ASSUME NEW d \in Callers, Step(d)
        PROVE  Request(c)
    <2>1. d = c
      BY <1>1 DEF Step, Proceed, Reuse, RequireReauthorization, Request, Commit,
                  LockTimesOut, RequestTimesOut, Get, TakeLock, Persist, Refused, Fail,
                  Serve, GiveUp, End, Goto, Base, TypeOK
    <2>2. QED
      BY <1>1, <2>1 DEF Step, Proceed, Reuse, RequireReauthorization, Commit,
                  LockTimesOut, WaitOverdue, RequestTimesOut, Get, TakeLock, Persist,
                  Refused, Fail, Serve, GiveUp, End, Goto, Base, TypeOK
  <1>2. Request(c)
    BY <1>1 DEF Next, Expire, Lapse, Tick, Store, ServeLate, Exchange, caller
  <1>3. \A d \in Callers : pc[d] \notin Answered
    BY Alone DEF Holding, Answered
  <1>4. kept'[c] = row
    BY <1>2 DEF Request, Base, TypeOK
  <1>5. QED
    BY <1>3, <1>4 DEF Live, StoredTokenIsLive, Answered

\* Callers for one merchant never send the same refresh token twice, unless the
\* first answer was lost - for any number of callers, and although the OAuth
\* callback stores pairs without the lock.
THEOREM NeverSentTwice == Safety => NoTokenSentTwice
  <1>1. Base /\ Live /\ [Next]_vars
          => [\A c \in Callers :
                pc[c] = "reread" /\ pc'[c] = "request"
                  => kept'[c].refresh \notin spent \ lost]_vars
    BY SentOnce
  <1>2. QED
    BY <1>1, BaseInvariance, LiveInvariance, PTL DEF Safety, NoTokenSentTwice
=============================================================================
