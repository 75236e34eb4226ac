-------------------------- MODULE ImportCursorProofs --------------------------
(***************************************************************************)
(* Proofs about ImportCursor for any number of runs and records.  The       *)
(* watermark rests on what a run lists: with a single page everything up to *)
(* its newest record is on it, whatever is modified in the meantime.        *)
(***************************************************************************)
EXTENDS ImportCursor, FiniteSetTheorems, TLAPS

\* The pages a run has listed, and the run's watermark before its first one.
Paging ==
  \A w \in Runs :
    /\ pc[w] = "idle" => pages[w] = 0
    /\ pc[w] = "list" => pages[w] < MaxPages
    /\ pc[w] = "list" /\ pages[w] = 0 => newest[w] = start[w]

\* The stored watermark is never behind the start of a run under way.
Behind == \A w \in Runs : start[w] <= cursor

IInv == TypeOK /\ Paging /\ Behind

\* A run has listed every record between its start and its own watermark.
ListedUpTo(w) ==
  \A r \in Records :
    /\ remote[r] # 0
    /\ start[w] <= remote[r]
    /\ remote[r] < newest[w]
    => <<r, remote[r]>> \in listed[w]

Complete == \A w \in Runs : pc[w] = "save" => ListedUpTo(w)

-----------------------------------------------------------------------------
(* Type correctness.                                                        *)

LEMMA InitIInv == Init => IInv
  <1> USE ImportAssumption
  <1>1. QED
    BY DEF Init, IInv, TypeOK, Paging, Behind

LEMMA EndIInv ==
  ASSUME IInv, NEW w \in Runs, End(w), cursor' \in 0 .. clock, cursor <= cursor',
         faults' \in 0 .. MaxFaults, UNCHANGED <<source, inbox>>
  PROVE  IInv'
  <1> USE ImportAssumption DEF IInv, End, Goto, source
  <1>1. TypeOK'
    BY DEF TypeOK
  <1>2. Paging'
    BY DEF TypeOK, Paging
  <1>3. Behind'
    BY DEF TypeOK, Behind
  <1>4. QED
    BY <1>1, <1>2, <1>3

LEMMA StartIInv ==
  ASSUME IInv, NEW w \in Runs, Start(w)
  PROVE  IInv'
  <1> USE ImportAssumption DEF IInv, Start, Goto, source
  <1>1. TypeOK'
    BY DEF TypeOK
  <1>2. Paging'
    BY DEF TypeOK, Paging
  <1>3. Behind'
    BY DEF TypeOK, Behind
  <1>4. QED
    BY <1>1, <1>2, <1>3

LEMMA FetchPageIInv ==
  ASSUME IInv, NEW w \in Runs, FetchPage(w)
  PROVE  IInv'
  <1> USE ImportAssumption DEF IInv, FetchPage, Goto, source
  <1>1. PICK B \in SUBSET Eligible(w) :
          /\ listed' = [listed EXCEPT ![w] = @ \cup {<<r, remote[r]>> : r \in B}]
          /\ \/ B = {} /\ UNCHANGED newest /\ Goto(w, "save")
             \/ \E last \in B :
                  /\ newest' = [newest EXCEPT ![w] = Larger(@, remote[last])]
                  /\ Goto(w, IF /\ Cardinality(B) = PageSize
                                /\ remote[last] = start[w]
                                /\ pages[w] + 1 < MaxPages
                             THEN "list" ELSE "save")
    OBVIOUS
  <1>2. /\ B \subseteq Records
        /\ clock \in Nat
        /\ remote \in [Records -> 0 .. clock]
    BY DEF Eligible, TypeOK
  <1>3. \A last \in B : Larger(newest[w], remote[last]) \in 0 .. clock
    BY <1>2 DEF TypeOK, Larger
  <1>4. newest' \in [Runs -> 0 .. clock]
    BY <1>1, <1>3 DEF TypeOK
  <1>5. pc' \in [Runs -> {"idle", "list", "save"}]
    BY <1>1 DEF TypeOK
  <1>6. listed' \in [Runs -> SUBSET (Records \X Nat)]
    <2>1. {<<r, remote[r]>> : r \in B} \subseteq Records \X Nat
      <3>1. \A r \in B : r \in Records /\ remote[r] \in Nat
        BY ONLY <1>2
      <3>2. QED
        BY ONLY <3>1
    <2>2. QED
      BY <1>1, <2>1 DEF TypeOK
  <1>7. pages' \in [Runs -> 0 .. MaxPages]
    BY DEF TypeOK, Paging
  <1>8. TypeOK'
    BY <1>4, <1>5, <1>6, <1>7 DEF TypeOK
  <1>9. Paging'
    BY <1>1 DEF TypeOK, Paging
  <1>10. Behind'
    BY DEF Behind
  <1>11. QED
    BY <1>8, <1>9, <1>10

\* A run that stores its watermark leaves it where it is or moves it up.
LEMMA AdvanceCursor ==
  ASSUME IInv, NEW w \in Runs, Advance(w)
  PROVE  cursor' \in 0 .. clock /\ cursor <= cursor'
  BY DEF IInv, TypeOK, Advance, Larger

LEMMA NextIInv == IInv /\ [Next]_vars => IInv'
  <1> SUFFICES ASSUME IInv, [Next]_vars
               PROVE  IInv'
    OBVIOUS
  <1> USE ImportAssumption
  <1>1. CASE Pass
    BY <1>1 DEF Pass, IInv, TypeOK, Paging, Behind, run
  <1>2. ASSUME NEW r \in Records, Modify(r)
        PROVE  IInv'
    BY <1>2 DEF Modify, IInv, TypeOK, Paging, Behind, run
  <1>3. ASSUME NEW w \in Runs, Start(w)
        PROVE  IInv'
    BY <1>3, StartIInv
  <1>4. ASSUME NEW w \in Runs, FetchPage(w)
        PROVE  IInv'
    BY <1>4, FetchPageIInv
  <1>5. ASSUME NEW w \in Runs, Enqueue(w)
        PROVE  IInv'
    <2>1. inbox' \subseteq Records \X Nat
      BY <1>5 DEF Enqueue, IInv, TypeOK
    <2>2. QED
      BY <1>5, <2>1 DEF Enqueue, IInv, TypeOK, Paging, Behind, run, source
  <1>6. ASSUME NEW w \in Runs, Advance(w)
        PROVE  IInv'
    <2>1. /\ End(w)
          /\ UNCHANGED <<source, inbox>>
          /\ faults' \in 0 .. MaxFaults
      BY <1>6 DEF Advance, IInv, TypeOK
    <2>2. cursor' \in 0 .. clock /\ cursor <= cursor'
      BY <1>6, AdvanceCursor
    <2>3. QED
      BY <2>1, <2>2, EndIInv
  <1>7. ASSUME NEW w \in Runs, Fail(w)
        PROVE  IInv'
    <2>1. /\ End(w)
          /\ UNCHANGED <<source, inbox>>
          /\ faults' \in 0 .. MaxFaults
          /\ cursor' \in 0 .. clock /\ cursor <= cursor'
      BY <1>7 DEF Fail, IInv, TypeOK
    <2>2. QED
      BY <2>1, EndIInv
  <1>8. CASE UNCHANGED vars
    BY <1>8 DEF vars, source, run, IInv, TypeOK, Paging, Behind
  <1>9. QED
    BY <1>1, <1>2, <1>3, <1>4, <1>5, <1>6, <1>7, <1>8 DEF Next, Work

LEMMA Invariance == Safety => []IInv
  BY InitIInv, NextIInv, PTL DEF Safety

\* Every variable keeps its type, for any number of runs, records and pages.
THEOREM TypeCorrect == Safety => []TypeOK
  BY Invariance, PTL DEF IInv

-----------------------------------------------------------------------------
(* The watermark never rewinds.                                             *)

LEMMA CursorStep == IInv /\ [Next]_vars => [cursor' >= cursor]_vars
  <1> SUFFICES ASSUME IInv, Next
               PROVE  cursor' >= cursor
    BY DEF vars
  <1>1. cursor \in Nat
    BY DEF IInv, TypeOK
  <1>2. ASSUME NEW w \in Runs, Advance(w)
        PROVE  cursor' >= cursor
    BY <1>2, AdvanceCursor, <1>1
  <1>3. CASE UNCHANGED cursor
    BY <1>1, <1>3
  <1>4. QED
    BY <1>2, <1>3
    DEF Next, Work, Pass, Modify, Start, FetchPage, Enqueue, Fail

\* The stored watermark never moves back, whatever runs overlap: advance takes the
\* greater of the stored and the new one.
THEOREM CursorForward == Safety => CursorNeverRewinds
  <1>1. IInv /\ [Next]_vars => [cursor' >= cursor]_vars
    BY CursorStep
  <1>2. QED
    BY <1>1, Invariance, PTL DEF Safety, CursorNeverRewinds

-----------------------------------------------------------------------------
(* One page: nothing behind the watermark is missing.                       *)

\* The first page holds the records in front of its last one.
LEMMA FirstPage ==
  ASSUME IInv, NEW E \in SUBSET Records, NEW B \in SUBSET E, IsPage(B, E, 0),
         NEW last \in B, NEW r \in E, remote[r] < remote[last]
  PROVE  r \in B
  <1>1. PICK A \in SUBSET (E \ B) :
          /\ Sized(A, E, 0)
          /\ Prefix(B, E \ A)
    BY DEF IsPage
  <1>2. IsFiniteSet(E) /\ IsFiniteSet(A)
    BY FS_Subset, ImportAssumption
  <1>3. A = {}
    <2>1. Cardinality(E) \in Nat
      BY <1>2, FS_CardinalityType
    <2>2. Cardinality(A) = 0
      BY <1>1, <2>1 DEF Sized
    <2>3. QED
      BY <1>2, <2>2, FS_EmptySet
  <1>4. \A s \in E \ B : Precedes(last, s)
    BY <1>1, <1>3 DEF Prefix
  <1>5. \A s \in E \ B : remote[last] <= remote[s]
    BY <1>4 DEF Precedes, IInv, TypeOK
  <1>6. QED
    BY <1>5 DEF IInv, TypeOK

LEMMA FetchPageComplete ==
  ASSUME MaxPages = 1, IInv, NEW w \in Runs, FetchPage(w)
  PROVE  ListedUpTo(w)'
  <1> DEFINE E == Eligible(w)
  <1>1. pages[w] = 0 /\ newest[w] = start[w]
    BY DEF IInv, TypeOK, Paging, FetchPage
  <1>2. PICK B \in SUBSET E :
          /\ IsPage(B, E, pages[w] * PageSize)
          /\ listed' = [listed EXCEPT ![w] = @ \cup {<<r, remote[r]>> : r \in B}]
          /\ \/ UNCHANGED newest
             \/ \E last \in B : newest' = [newest EXCEPT ![w] = Larger(@, remote[last])]
    BY DEF FetchPage
  <1>3. IsPage(B, E, 0)
    BY <1>1, <1>2, ImportAssumption
  <1>4. E \subseteq Records
    BY DEF Eligible
  <1>5. SUFFICES ASSUME NEW r \in Records, remote[r] # 0, start[w] <= remote[r],
                        remote[r] < newest'[w]
                 PROVE  <<r, remote[r]>> \in listed'[w]
    BY DEF ListedUpTo, FetchPage, source
  <1>6. r \in E
    BY <1>5 DEF Eligible
  <1>7. r \in B
    <2>1. newest'[w] # newest[w]
      BY <1>1, <1>5 DEF IInv, TypeOK
    <2>2. PICK last \in B : newest' = [newest EXCEPT ![w] = Larger(@, remote[last])]
      BY <1>2, <2>1
    <2>3. remote[r] < remote[last]
      BY <1>4, <1>5, <2>1, <2>2 DEF Larger, IInv, TypeOK
    <2>4. QED
      BY <1>3, <1>4, <1>6, <2>3, FirstPage
  <1>8. QED
    BY <1>2, <1>7 DEF IInv, TypeOK

LEMMA CompleteStep ==
  ASSUME MaxPages = 1, IInv, Complete, NothingSkipped, [Next]_vars
  PROVE  (Complete /\ NothingSkipped)'
  <1> USE DEF Complete, NothingSkipped, ListedUpTo
  <1>1. CASE Pass
    BY <1>1 DEF Pass, run
  <1>2. ASSUME NEW r \in Records, Modify(r)
        PROVE  (Complete /\ NothingSkipped)'
    BY <1>2 DEF Modify, run, IInv, TypeOK
  <1>3. ASSUME NEW w \in Runs, Start(w)
        PROVE  (Complete /\ NothingSkipped)'
    BY <1>3 DEF Start, Goto, source, IInv, TypeOK
  <1>4. ASSUME NEW w \in Runs, FetchPage(w)
        PROVE  (Complete /\ NothingSkipped)'
    <2>1. ListedUpTo(w)'
      BY <1>4, FetchPageComplete
    <2>2. ASSUME NEW v \in Runs, v # w
          PROVE  /\ pc'[v] = pc[v] /\ start'[v] = start[v]
                 /\ newest'[v] = newest[v] /\ listed'[v] = listed[v]
      BY <1>4, <2>2 DEF FetchPage, Goto, IInv, TypeOK
    <2>3. UNCHANGED <<remote, cursor, inbox>>
      BY <1>4 DEF FetchPage, source
    <2>4. QED
      BY <2>1, <2>2, <2>3
  <1>5. ASSUME NEW w \in Runs, Enqueue(w)
        PROVE  (Complete /\ NothingSkipped)'
    BY <1>5 DEF Enqueue, run, source
  <1>6. ASSUME NEW w \in Runs, End(w), UNCHANGED <<source, inbox>>
        PROVE  Complete'
    BY <1>6 DEF End, Goto, source, IInv, TypeOK
  <1>7. ASSUME NEW w \in Runs, Advance(w)
        PROVE  (Complete /\ NothingSkipped)'
    <2>1. Complete'
      BY <1>6, <1>7 DEF Advance
    <2>2. ListedUpTo(w) /\ listed[w] \subseteq inbox /\ start[w] <= cursor
      BY <1>7 DEF Advance, IInv, Behind
    <2>3. ASSUME NEW r \in Records, remote[r] # 0, remote[r] < newest[w]
          PROVE  <<r, remote[r]>> \in inbox
      BY <2>2, <2>3 DEF IInv, TypeOK
    <2>4. cursor' = cursor \/ cursor' = newest[w]
      BY <1>7 DEF Advance, Larger
    <2>5. NothingSkipped'
      BY <1>7, <2>3, <2>4 DEF Advance, source
    <2>6. QED
      BY <2>1, <2>5
  <1>8. ASSUME NEW w \in Runs, Fail(w)
        PROVE  (Complete /\ NothingSkipped)'
    BY <1>6, <1>8 DEF Fail, source
  <1>9. CASE UNCHANGED vars
    BY <1>9 DEF vars, source, run
  <1>10. QED
    BY <1>1, <1>2, <1>3, <1>4, <1>5, <1>7, <1>8, <1>9 DEF Next, Work

\* A source that lists one page loses nothing: what stands behind the stored
\* watermark is enqueued in its current revision, for any number of overlapping and
\* failing runs and however Clover orders records of one timestamp.
THEOREM OnePageSkipsNothing ==
  ASSUME MaxPages = 1
  PROVE  Safety => []NothingSkipped
  <1>1. Init => Complete /\ NothingSkipped
    BY ImportAssumption DEF Init, Complete, NothingSkipped
  <1>2. IInv /\ Complete /\ NothingSkipped /\ [Next]_vars
          => (Complete /\ NothingSkipped)'
    BY CompleteStep
  <1>3. QED
    BY <1>1, <1>2, Invariance, PTL DEF Safety
=============================================================================
