-------------------------- MODULE OrderStoreProofs --------------------------
(***************************************************************************)
(* Proofs about OrderStore for any number of drains and revisions, with     *)
(* every query of a saga on the saga's own connection.  The argument: a     *)
(* saga that writes the row read the stream's version before it compared    *)
(* the row, so a refresh committed in between takes the version it needs.   *)
(***************************************************************************)
EXTENDS OrderStore, TLAPS

USE OrderAssumption DEF Times, Absent

StreamDense == \E n \in Nat : Versions(events) = 1 .. n

\* The next version after the one a saga read is still free.
AtTail(w) == base[w] + 1 \notin Versions(events)

\* What a saga read and wrote, in the order it does so.
SagaRead(w) ==
  /\ pc[w] # "idle" => current[w] \in Times /\ current[w] <= remote
  /\ pc[w] \notin {"idle", "fetch"} => fetched[w] \in Times /\ current[w] <= fetched[w]
  /\ found[w] <= row
  /\ base[w] \in Versions(events) \cup {0}
  /\ pc[w] = "version" => row # Absent

SagaWrote(w) ==
  /\ wrote[w] # Absent => /\ wrote[w] = fetched[w]
                          /\ pc[w] \in {"lines", "append", "mark", "commit"}
  /\ pc[w] = "lines" => wrote[w] # Absent
  /\ (pc[w] = "upsert" \/ wrote[w] # Absent) /\ AtTail(w) => row < fetched[w]
  /\ pc[w] \in {"append", "mark", "commit"} =>
       IF wrote[w] = Absent THEN fetched[w] <= row ELSE gone[w] = lines
  /\ added[w] # {} \/ (pc[w] \in {"mark", "commit"} /\ wrote[w] # Absent) =>
       pc[w] \in {"mark", "commit"} /\ added[w] = EventsAfter(w, base[w])

\* One transaction at a time has written the row, and each version is inserted by
\* one transaction.
Exclusive ==
  /\ \A v, w \in Drains : v # w => /\ wrote[v] = Absent \/ wrote[w] = Absent
                                   /\ Versions(added[v]) \cap Versions(added[w]) = {}
  /\ \A w \in Drains : Versions(added[w]) \cap Versions(events) = {}

Announced == \A t \in Times : inbox[t] # "absent" => t <= remote

Sagas == \A w \in Drains : SagaRead(w) /\ SagaWrote(w)

Table == StreamDense /\ RowIsNewestRecorded /\ LinesMatchRow /\ ProcessedIsStored

IInv == TypeOK /\ Table /\ Sagas /\ Exclusive /\ Announced

-----------------------------------------------------------------------------
(* The stream's versions.                                                   *)

LEMMA VersionsUnion ==
  \A E, F : Versions(E \cup F) = Versions(E) \cup Versions(F)
  BY DEF Versions

LEMMA VersionsEmpty == Versions({}) = {}
  BY DEF Versions

\* The events of a refresh take the versions right after the one given.
LEMMA VersionsAfter ==
  ASSUME TypeOK, NEW w \in Drains, fetched[w] \in Times, NEW b \in Nat
  PROVE  /\ Versions(EventsAfter(w, b)) = b + 1 .. b + Size[fetched[w]]
         /\ b + 1 \in Versions(EventsAfter(w, b))
         /\ EventsAfter(w, b) \subseteq (Nat \ {0}) \X Times
         /\ \A e \in EventsAfter(w, b) : e[2] = fetched[w]
         /\ <<b + 1, fetched[w]>> \in EventsAfter(w, b)
  <1> DEFINE k == Size[fetched[w]]
  <1>1. k \in Nat \ {0}
    OBVIOUS
  <1>2. EventsAfter(w, b) = {<<b + i, fetched[w]>> : i \in 1 .. k}
    BY DEF EventsAfter
  <1> HIDE DEF k
  <1>3. ASSUME NEW u \in Versions(EventsAfter(w, b))
        PROVE  u \in b + 1 .. b + k
    BY <1>1, <1>2 DEF Versions
  <1>4. ASSUME NEW u \in b + 1 .. b + k
        PROVE  u \in Versions(EventsAfter(w, b))
    <2>1. u - b \in 1 .. k /\ b + (u - b) = u
      BY <1>1
    <2>2. <<u, fetched[w]>> \in EventsAfter(w, b)
      BY <1>2, <2>1
    <2>3. QED
      BY <2>2 DEF Versions
  <1>5. <<b + 1, fetched[w]>> \in EventsAfter(w, b)
    BY <1>1, <1>2
  <1>6. EventsAfter(w, b) \subseteq (Nat \ {0}) \X Times
    BY <1>1, <1>2
  <1>7. \A e \in EventsAfter(w, b) : e[2] = fetched[w]
    BY <1>2
  <1>8. Versions(EventsAfter(w, b)) = b + 1 .. b + k
    BY <1>3, <1>4
  <1>9. b + 1 \in b + 1 .. b + k
    BY <1>1
  <1>10. QED
    BY <1>5, <1>6, <1>7, <1>8, <1>9 DEF k

\* The version getById reads is the last of a stream that is not empty.
LEMMA LatestIsLast ==
  ASSUME NEW n \in Nat, Versions(events) = 1 .. n, events # {}
  PROVE  LatestVersion = n /\ n \in Versions(events)
  <1>1. n \in Versions(events) /\ \A u \in Versions(events) : u <= n
    <2>1. Versions(events) # {}
      BY DEF Versions
    <2>2. QED
      BY <2>1
  <1>2. \A v \in Versions(events) :
          (\A u \in Versions(events) : u <= v) => v = n
    BY <1>1
  <1>3. QED
    BY <1>1, <1>2 DEF LatestVersion

-----------------------------------------------------------------------------
(* Steps of one saga that commit nothing.                                   *)

\* What a step of w's saga leaves to the other drains.
OthersSame(w) ==
  \A v \in Drains \ {w} :
    /\ pc'[v] = pc[v] /\ current'[v] = current[v] /\ fetched'[v] = fetched[v]
    /\ found'[v] = found[v] /\ base'[v] = base[v]
    /\ wrote'[v] = wrote[v] /\ gone'[v] = gone[v] /\ added'[v] = added[v]

LEMMA InitIInv == Init => IInv
  <1> SUFFICES ASSUME Init
               PROVE  IInv
    OBVIOUS
  <1>1. Versions(events) = {}
    BY VersionsEmpty DEF Init
  <1>2. TypeOK
    BY DEF Init, TypeOK, Places
  <1>3. Table
    <2>1. Versions(events) = 1 .. 0
      BY <1>1
    <2>2. QED
      BY <2>1 DEF Init, Table, StreamDense, RowIsNewestRecorded, LinesMatchRow,
                  ProcessedIsStored
  <1>4. Sagas
    BY DEF Init, Sagas, SagaRead, SagaWrote
  <1>5. Exclusive
    BY VersionsEmpty DEF Init, Exclusive
  <1>6. QED
    BY <1>2, <1>3, <1>4, <1>5 DEF IInv, Announced, Init

\* A step of one saga on an unchanged table: what is left to check is that saga.
LEMMA QuietIInv ==
  ASSUME IInv, NEW w \in Drains, OthersSame(w), TypeOK',
         UNCHANGED <<remote, row, lines, events>>,
         ProcessedIsStored', Announced',
         SagaRead(w)', SagaWrote(w)',
         wrote'[w] # Absent => \A v \in Drains \ {w} : wrote[v] = Absent,
         \A v \in Drains \ {w} : Versions(added'[w]) \cap Versions(added[v]) = {},
         Versions(added'[w]) \cap Versions(events) = {}
  PROVE  IInv'
  <1>1. Table'
    BY DEF IInv, Table, StreamDense, RowIsNewestRecorded, LinesMatchRow, Versions
  <1>2. Sagas'
    <2> SUFFICES ASSUME NEW v \in Drains \ {w}
                 PROVE  SagaRead(v)' /\ SagaWrote(v)'
      BY DEF Sagas
    <2>1. /\ SagaRead(v) /\ SagaWrote(v)
          /\ pc'[v] = pc[v] /\ current'[v] = current[v] /\ fetched'[v] = fetched[v]
          /\ found'[v] = found[v] /\ base'[v] = base[v]
          /\ wrote'[v] = wrote[v] /\ gone'[v] = gone[v] /\ added'[v] = added[v]
      BY DEF IInv, Sagas, OthersSame
    <2>2. Versions(events)' = Versions(events)
      BY DEF Versions
    <2>3. EventsAfter(v, base[v])' = EventsAfter(v, base[v])
      BY <2>1 DEF EventsAfter
    <2>4. SagaRead(v)'
      BY <2>1, <2>2 DEF SagaRead
    <2>5. SagaWrote(v)'
      BY <2>1, <2>2, <2>3 DEF SagaWrote, AtTail
    <2>6. QED
      BY <2>4, <2>5
  <1>3. Exclusive'
    <2>1. \A v \in Drains \ {w} :
            /\ wrote'[v] = wrote[v]
            /\ Versions(added'[v]) = Versions(added[v])
      BY DEF OthersSame
    <2>2. Versions(events)' = Versions(events)
      BY DEF Versions
    <2>3. \A u, v \in Drains : u # v => wrote'[u] = Absent \/ wrote'[v] = Absent
      BY <2>1 DEF IInv, Exclusive
    <2>4. \A v \in Drains : Versions(added'[v]) \cap Versions(events)' = {}
      BY <2>1, <2>2 DEF IInv, Exclusive
    <2>5. \A u, v \in Drains : u # v => Versions(added'[u]) \cap Versions(added'[v]) = {}
      BY <2>1 DEF IInv, Exclusive
    <2>6. QED
      BY <2>3, <2>4, <2>5 DEF Exclusive, Versions
  <1>4. QED
    BY <1>1, <1>2, <1>3 DEF IInv

\* Steps that neither write nor delete nor insert leave w's exclusions as they are.
LEMMA SameTx ==
  ASSUME IInv, NEW w \in Drains, wrote'[w] = wrote[w], added'[w] = added[w]
  PROVE  /\ wrote'[w] # Absent => \A v \in Drains \ {w} : wrote[v] = Absent
         /\ \A v \in Drains \ {w} : Versions(added'[w]) \cap Versions(added[v]) = {}
         /\ Versions(added'[w]) \cap Versions(events) = {}
  BY DEF IInv, Exclusive

\* The end of a saga, whatever the inbox row becomes.
LEMMA EndIInv ==
  ASSUME IInv, NEW w \in Drains, pc[w] # "idle", End(w), faults' \in 0 .. MaxFaults,
         UNCHANGED <<remote, row, lines, events>>,
         \/ inbox' = inbox
         \/ current[w] \in Times /\ inbox' = [inbox EXCEPT ![current[w]] = "waiting"]
  PROVE  IInv'
  <1>1. TypeOK'
    BY DEF IInv, TypeOK, End, Goto, Places
  <1>2. OthersSame(w)
    BY DEF IInv, TypeOK, End, Goto, OthersSame
  <1>3. /\ pc'[w] = "idle" /\ wrote'[w] = Absent /\ added'[w] = {}
        /\ found'[w] = Absent /\ base'[w] = 0
    BY DEF IInv, TypeOK, End, Goto
  <1>4. SagaRead(w)' /\ SagaWrote(w)'
    BY <1>3 DEF SagaRead, SagaWrote, IInv, TypeOK
  <1>5. ProcessedIsStored'
    BY DEF IInv, TypeOK, Table, ProcessedIsStored
  <1>6. Announced'
    <2>1. CASE inbox' = inbox
      BY <2>1 DEF IInv, Announced
    <2>2. CASE inbox' # inbox
      <3>1. current[w] \in Times /\ inbox' = [inbox EXCEPT ![current[w]] = "waiting"]
        BY <2>2
      <3>2. current[w] <= remote
        BY DEF IInv, Sagas, SagaRead, TypeOK
      <3>3. QED
        BY <3>1, <3>2 DEF IInv, TypeOK, Announced
    <2>3. QED
      BY <2>1, <2>2
  <1>7. QED
    BY <1>1, <1>2, <1>3, <1>4, <1>5, <1>6, QuietIInv, VersionsEmpty

LEMMA LoadIInv ==
  ASSUME IInv, NEW w \in Drains, NEW t \in Times, Load(w, t)
  PROVE  IInv'
  <1>1. TypeOK' /\ OthersSame(w)
    BY DEF IInv, TypeOK, Load, stored, tx, Goto, Places, OthersSame
  <1>2. SagaRead(w)' /\ SagaWrote(w)'
    BY DEF IInv, TypeOK, Announced, Sagas, SagaRead, SagaWrote, AtTail, EventsAfter,
           Versions, Load, stored, tx, Goto
  <1>3. ProcessedIsStored' /\ Announced'
    BY DEF IInv, Table, ProcessedIsStored, Announced, Load, stored
  <1>4. QED
    BY <1>1, <1>2, <1>3, QuietIInv, SameTx DEF Load, stored, tx

LEMMA FetchIInv ==
  ASSUME IInv, NEW w \in Drains, Fetch(w)
  PROVE  IInv'
  <1>1. TypeOK' /\ OthersSame(w)
    BY DEF IInv, TypeOK, Fetch, stored, tx, Goto, Places, OthersSame
  <1>2. pc[w] = "fetch" /\ pc'[w] = "read" /\ wrote[w] = Absent /\ added[w] = {}
    BY DEF IInv, TypeOK, Sagas, SagaWrote, Fetch, Goto
  <1>3. SagaRead(w)' /\ SagaWrote(w)'
    BY <1>2 DEF IInv, TypeOK, Sagas, SagaRead, SagaWrote, AtTail, EventsAfter,
                Versions, Fetch, stored, tx
  <1>4. ProcessedIsStored' /\ Announced'
    BY DEF IInv, Table, ProcessedIsStored, Announced, Fetch, stored
  <1>5. QED
    BY <1>1, <1>3, <1>4, QuietIInv, SameTx DEF Fetch, stored, tx

LEMMA ReadRowIInv ==
  ASSUME IInv, NEW w \in Drains, ReadRow(w)
  PROVE  IInv'
  <1>1. TypeOK' /\ OthersSame(w)
    BY DEF IInv, TypeOK, ReadRow, stored, tx, Goto, Places, OthersSame
  <1>2. /\ pc[w] = "read" /\ pc'[w] = (IF row = Absent THEN "save" ELSE "version")
        /\ wrote[w] = Absent /\ added[w] = {}
    BY DEF IInv, TypeOK, Sagas, SagaWrote, ReadRow, Goto
  <1>3. SagaRead(w)' /\ SagaWrote(w)'
    BY <1>2 DEF IInv, TypeOK, Sagas, SagaRead, SagaWrote, AtTail, EventsAfter,
                Versions, ReadRow, stored, tx
  <1>4. ProcessedIsStored' /\ Announced'
    BY DEF IInv, Table, ProcessedIsStored, Announced, ReadRow, stored
  <1>5. QED
    BY <1>1, <1>3, <1>4, QuietIInv, SameTx DEF ReadRow, stored, tx

LEMMA ReadVersionIInv ==
  ASSUME IInv, NEW w \in Drains, ReadVersion(w)
  PROVE  IInv'
  <1>1. LatestVersion \in Versions(events) /\ LatestVersion \in Nat
    <2>1. events # {}
      BY DEF IInv, Table, RowIsNewestRecorded, Sagas, SagaRead, ReadVersion
    <2>2. PICK n \in Nat : Versions(events) = 1 .. n
      BY DEF IInv, Table, StreamDense
    <2>3. QED
      BY <2>1, <2>2, LatestIsLast
  <1>2. TypeOK' /\ OthersSame(w)
    BY <1>1 DEF IInv, TypeOK, ReadVersion, stored, tx, Goto, Places, OthersSame
  <1>3. /\ pc[w] = "version"
        /\ pc'[w] = (IF found[w] >= fetched[w] THEN "mark" ELSE "save")
        /\ wrote[w] = Absent /\ added[w] = {} /\ base'[w] = LatestVersion
    BY DEF IInv, TypeOK, Sagas, SagaWrote, ReadVersion, Goto
  <1>4. SagaRead(w)'
    BY <1>1, <1>3 DEF IInv, TypeOK, Sagas, SagaRead, Versions, ReadVersion, stored, tx
  <1>5. SagaWrote(w)'
    <2>1. /\ UNCHANGED <<wrote, added, fetched, row>>
          /\ found[w] <= row /\ fetched[w] \in Nat /\ found[w] \in Nat /\ row \in Nat
      BY DEF IInv, TypeOK, Sagas, SagaRead, ReadVersion, stored, tx
    <2>2. pc'[w] = "mark" => fetched[w] <= row
      BY <1>3, <2>1
    <2>3. pc'[w] \in {"mark", "save"}
      BY <1>3
    <2>4. QED
      BY <1>3, <2>1, <2>2, <2>3 DEF SagaWrote
  <1>6. ProcessedIsStored' /\ Announced'
    BY DEF IInv, Table, ProcessedIsStored, Announced, ReadVersion, stored
  <1>7. QED
    BY <1>2, <1>4, <1>5, <1>6, QuietIInv, SameTx DEF ReadVersion, stored, tx

LEMMA SelectExistingIInv ==
  ASSUME IInv, NEW w \in Drains, SelectExisting(w)
  PROVE  IInv'
  <1>1. TypeOK' /\ OthersSame(w)
    BY DEF IInv, TypeOK, SelectExisting, stored, read, tx, Goto, Places, OthersSame
  <1>2. /\ pc[w] = "save"
        /\ pc'[w] = (IF row >= fetched[w] THEN "append" ELSE "upsert")
        /\ wrote[w] = Absent /\ added[w] = {}
    BY DEF IInv, TypeOK, Sagas, SagaWrote, SelectExisting, Goto
  <1>3. SagaRead(w)'
    BY <1>2 DEF IInv, TypeOK, Sagas, SagaRead, Versions, SelectExisting, stored, read, tx
  <1>4. SagaWrote(w)'
    <2>1. /\ UNCHANGED <<wrote, added, fetched, row>>
          /\ fetched[w] \in Nat /\ row \in Nat
      BY DEF IInv, TypeOK, SelectExisting, stored, read, tx
    <2>2. /\ pc'[w] = "append" => fetched[w] <= row
          /\ pc'[w] = "upsert" => row < fetched[w]
          /\ pc'[w] \in {"append", "upsert"}
      BY <1>2, <2>1
    <2>3. QED
      BY <1>2, <2>1, <2>2 DEF SagaWrote
  <1>5. ProcessedIsStored' /\ Announced'
    BY DEF IInv, Table, ProcessedIsStored, Announced, SelectExisting, stored
  <1>6. QED
    BY <1>1, <1>3, <1>4, <1>5, QuietIInv, SameTx DEF SelectExisting, stored, tx

LEMMA UpsertIInv ==
  ASSUME IInv, NEW w \in Drains, Upsert(w)
  PROVE  IInv'
  <1>1. TypeOK' /\ OthersSame(w)
    BY DEF IInv, TypeOK, Upsert, stored, read, Goto, Places, OthersSame
  <1>2. /\ pc[w] = "upsert" /\ pc'[w] = "lines"
        /\ wrote[w] = Absent /\ added[w] = {}
        /\ wrote'[w] = fetched[w] /\ fetched[w] \in Times
    BY DEF IInv, TypeOK, Sagas, SagaRead, SagaWrote, Upsert, Goto
  <1>3. SagaRead(w)'
    BY <1>2 DEF IInv, Sagas, SagaRead, Versions, Upsert, stored, read
  <1>4. SagaWrote(w)'
    BY <1>2 DEF IInv, Sagas, SagaWrote, AtTail, Versions, EventsAfter, Upsert, stored, read
  <1>5. ProcessedIsStored' /\ Announced'
    BY DEF IInv, Table, ProcessedIsStored, Announced, Upsert, stored
  <1>6. \A v \in Drains \ {w} : wrote[v] = Absent
    BY DEF Upsert, RowHeld
  <1>7. QED
    BY <1>1, <1>3, <1>4, <1>5, <1>6, QuietIInv DEF Upsert, stored, IInv, Exclusive

LEMMA ReplaceLinesIInv ==
  ASSUME IInv, NEW w \in Drains, ReplaceLines(w)
  PROVE  IInv'
  <1>1. TypeOK' /\ OthersSame(w)
    BY DEF IInv, TypeOK, ReplaceLines, stored, read, Goto, Places, OthersSame
  <1>2. /\ pc[w] = "lines" /\ pc'[w] = "append"
        /\ wrote[w] # Absent /\ added[w] = {} /\ gone'[w] = lines
    BY DEF IInv, TypeOK, Sagas, SagaRead, SagaWrote, ReplaceLines, Goto
  <1>3. SagaRead(w)'
    BY <1>2 DEF IInv, Sagas, SagaRead, Versions, ReplaceLines, stored, read
  <1>4. SagaWrote(w)'
    BY <1>2 DEF IInv, Sagas, SagaWrote, AtTail, Versions, EventsAfter, ReplaceLines,
                stored, read
  <1>5. ProcessedIsStored' /\ Announced'
    BY DEF IInv, Table, ProcessedIsStored, Announced, ReplaceLines, stored
  <1>6. QED
    BY <1>1, <1>3, <1>4, <1>5, QuietIInv, SameTx DEF ReplaceLines, stored

LEMMA AppendIInv ==
  ASSUME ~PooledQueries, IInv, NEW w \in Drains, Append(w)
  PROVE  IInv'
  <1> DEFINE E == EventsAfter(w, base[w])
  <1>1. /\ pc[w] = "append" /\ ~VersionHeld(w, E) /\ ~VersionTaken(E)
        /\ added' = [added EXCEPT ![w] = E]
        /\ pc' = [pc EXCEPT ![w] = "mark"]
        /\ UNCHANGED <<events, remote, inbox, row, lines, read, wrote, gone, faults>>
    BY DEF Append, AppendEvents, Goto
  <1>2. fetched[w] \in Times /\ base[w] \in Nat
    BY <1>1 DEF IInv, TypeOK, Sagas, SagaRead
  <1>3. E \subseteq (Nat \ {0}) \X Times
    BY <1>2, VersionsAfter DEF IInv
  <1> HIDE DEF E
  <1>4. TypeOK' /\ OthersSame(w)
    BY <1>1, <1>3 DEF IInv, TypeOK, read, Places, OthersSame
  <1>5. pc'[w] = "mark" /\ added'[w] = E
    BY <1>1 DEF IInv, TypeOK
  <1>6. SagaRead(w)'
    BY <1>1, <1>5 DEF IInv, Sagas, SagaRead, Versions, read
  <1>7. SagaWrote(w)'
    BY <1>1, <1>5 DEF IInv, Sagas, SagaWrote, AtTail, Versions, EventsAfter, read, E
  <1>8. ProcessedIsStored' /\ Announced'
    BY <1>1 DEF IInv, Table, ProcessedIsStored, Announced
  <1>9. /\ wrote'[w] # Absent => \A v \in Drains \ {w} : wrote[v] = Absent
        /\ \A v \in Drains \ {w} : Versions(added'[w]) \cap Versions(added[v]) = {}
        /\ Versions(added'[w]) \cap Versions(events) = {}
    BY <1>1, <1>5 DEF IInv, Exclusive, VersionHeld, VersionTaken
  <1>10. QED
    BY <1>1, <1>4, <1>6, <1>7, <1>8, <1>9, QuietIInv

LEMMA MarkIInv ==
  ASSUME ~PooledQueries, IInv, NEW w \in Drains, Mark(w)
  PROVE  IInv'
  <1>1. inbox' = inbox /\ pc[w] = "mark" /\ pc' = [pc EXCEPT ![w] = "commit"]
    BY DEF Mark, Goto
  <1>2. TypeOK' /\ OthersSame(w)
    BY <1>1 DEF IInv, TypeOK, Mark, read, tx, Places, OthersSame
  <1>3. pc'[w] = "commit"
    BY <1>1 DEF IInv, TypeOK
  <1>4. SagaRead(w)'
    BY <1>1, <1>3 DEF IInv, Sagas, SagaRead, Versions, Mark, read, tx
  <1>5. SagaWrote(w)'
    BY <1>1, <1>3 DEF IInv, Sagas, SagaWrote, AtTail, Versions, EventsAfter, Mark, read, tx
  <1>6. ProcessedIsStored' /\ Announced'
    BY <1>1 DEF IInv, Table, ProcessedIsStored, Announced, Mark
  <1>7. QED
    BY <1>2, <1>4, <1>5, <1>6, QuietIInv, SameTx DEF Mark, tx

-----------------------------------------------------------------------------
(* The commit.                                                              *)

\* What a commit does to the stream: its events, if any, follow the last version.
LEMMA CommitStream ==
  ASSUME ~PooledQueries, IInv, NEW w \in Drains, Commit(w)
  PROVE  /\ events' = events \cup added[w]
         /\ Versions(events)' = Versions(events) \cup Versions(added[w])
         /\ StreamDense'
         /\ \A e \in added[w] : e[2] = fetched[w]
         /\ added[w] # {} => \A v \in Drains :
              base[v] + 1 \in Versions(events)'
  <1>1. /\ pc[w] = "commit" /\ events' = events \cup added[w]
        /\ fetched[w] \in Times /\ base[w] \in Nat
        /\ base[w] \in Versions(events) \cup {0}
        /\ added[w] # {} => added[w] = EventsAfter(w, base[w])
        /\ Versions(added[w]) \cap Versions(events) = {}
    BY DEF IInv, TypeOK, Sagas, SagaRead, SagaWrote, Exclusive, Commit
  <1>2. Versions(events)' = Versions(events) \cup Versions(added[w])
    BY <1>1, VersionsUnion DEF Versions
  <1>3. CASE added[w] = {}
    <2>1. Versions(events)' = Versions(events)
      BY <1>2, <1>3, VersionsEmpty
    <2>2. QED
      BY <1>1, <1>2, <1>3, <2>1 DEF IInv, Table, StreamDense, Versions
  <1>4. CASE added[w] # {}
    <2> DEFINE b == base[w]
               k == Size[fetched[w]]
    <2>1. /\ Versions(added[w]) = b + 1 .. b + k
          /\ b + 1 \in Versions(added[w])
          /\ \A e \in added[w] : e[2] = fetched[w]
      <3>1. TypeOK /\ added[w] = EventsAfter(w, base[w])
        BY <1>1, <1>4 DEF IInv
      <3>2. /\ Versions(EventsAfter(w, b)) = b + 1 .. b + k
            /\ b + 1 \in Versions(EventsAfter(w, b))
            /\ \A e \in EventsAfter(w, b) : e[2] = fetched[w]
        <4>1. TypeOK /\ b \in Nat /\ fetched[w] \in Times
          BY <1>1, <3>1
        <4> HIDE DEF b
        <4>2. QED
          BY <4>1, VersionsAfter
      <3>3. QED
        BY <3>1, <3>2
    <2>2. PICK n \in Nat : Versions(events) = 1 .. n
      BY DEF IInv, Table, StreamDense
    <2>3. b = n
      <3>1. b \in (1 .. n) \cup {0} /\ b + 1 \notin 1 .. n
        BY <1>1, <2>1, <2>2
      <3>2. QED
        BY ONLY <3>1, n \in Nat
    <2>4. k \in Nat \ {0}
      BY <1>1
    <2> HIDE DEF k
    <2>5. Versions(events)' = 1 .. n + k
      BY <1>2, <2>1, <2>2, <2>3, <2>4
    <2>6. StreamDense'
      <3>1. n + k \in Nat
        BY <2>4
      <3>2. QED
        BY <2>5, <3>1 DEF StreamDense, Versions
    <2>7. ASSUME NEW v \in Drains
          PROVE  base[v] + 1 \in Versions(events)'
      <3>1. base[v] \in Versions(events) \cup {0}
        BY DEF IInv, Sagas, SagaRead
      <3>2. QED
        BY <2>2, <2>4, <2>5, <3>1
    <2>8. QED
      BY <1>1, <1>2, <2>1, <2>6, <2>7
  <1>5. QED
    BY <1>3, <1>4

\* A commit that writes the row writes a newer revision.
LEMMA CommitRow ==
  ASSUME ~PooledQueries, IInv, NEW w \in Drains, Commit(w)
  PROVE  /\ fetched[w] \in Times
         /\ row' = (IF wrote[w] = Absent THEN row ELSE fetched[w])
         /\ wrote[w] # Absent => row < fetched[w]
         /\ wrote[w] = Absent => fetched[w] <= row
         /\ wrote[w] # Absent => added[w] # {} /\ gone[w] = lines
         /\ wrote[w] # Absent => \E e \in added[w] : e[2] = fetched[w]
  <1>1. /\ pc[w] = "commit" /\ fetched[w] \in Times /\ base[w] \in Nat
        /\ wrote[w] # Absent => wrote[w] = fetched[w] /\ gone[w] = lines
        /\ wrote[w] = Absent => fetched[w] <= row
        /\ wrote[w] # Absent => added[w] = EventsAfter(w, base[w])
        /\ wrote[w] # Absent /\ AtTail(w) => row < fetched[w]
        /\ Versions(added[w]) \cap Versions(events) = {}
    BY DEF IInv, TypeOK, Sagas, SagaRead, SagaWrote, Exclusive, Commit
  <1>2. wrote[w] # Absent => /\ base[w] + 1 \in Versions(added[w])
                             /\ <<base[w] + 1, fetched[w]>> \in added[w]
    BY <1>1, VersionsAfter DEF IInv
  <1>3. wrote[w] # Absent => AtTail(w)
    BY <1>1, <1>2 DEF AtTail
  <1>4. row' = (IF wrote[w] = Absent THEN row ELSE fetched[w])
    BY <1>1 DEF Commit
  <1>5. QED
    BY <1>1, <1>2, <1>3, <1>4

LEMMA CommitIInv ==
  ASSUME ~PooledQueries, IInv, NEW w \in Drains, Commit(w)
  PROVE  IInv'
  <1>1. /\ pc[w] = "commit" /\ current[w] \in Times
        /\ current[w] <= remote /\ current[w] <= fetched[w]
        /\ row \in Nat /\ row <= row' /\ row' \in Nat
        /\ row' \in Times \cup {Absent}
        /\ inbox' = [inbox EXCEPT ![current[w]] = "processed"]
        /\ UNCHANGED <<remote, faults>>
    <2>1. pc[w] = "commit" /\ inbox' = [inbox EXCEPT ![current[w]] = "processed"]
          /\ UNCHANGED <<remote, faults>>
      BY DEF Commit
    <2>2. current[w] \in Times /\ current[w] <= remote /\ current[w] <= fetched[w]
      BY <2>1 DEF IInv, Sagas, SagaRead
    <2>3. row \in Times \cup {Absent} /\ row \in Nat
      BY DEF IInv, TypeOK
    <2>4. CASE wrote[w] = Absent
      BY <2>1, <2>2, <2>3, <2>4, CommitRow
    <2>5. CASE wrote[w] # Absent
      BY <2>1, <2>2, <2>3, <2>5, CommitRow
    <2>6. QED
      BY <2>4, <2>5
  <1>2. TypeOK'
    <2>1. lines' \subseteq Times
      <3>1. lines \subseteq Times /\ wrote[w] \in Times \cup {Absent}
        BY DEF IInv, TypeOK
      <3>2. \/ lines' = lines
            \/ wrote[w] # Absent /\ lines' = (lines \ gone[w]) \cup {wrote[w]}
        BY DEF Commit
      <3>3. QED
        BY <3>1, <3>2
    <2>2. events' \subseteq (Nat \ {0}) \X Times
      BY DEF IInv, TypeOK, Commit
    <2>3. /\ pc' \in [Drains -> Places]
          /\ current' \in [Drains -> Times \cup {Absent}]
          /\ fetched' \in [Drains -> Times \cup {Absent}]
          /\ found' \in [Drains -> Times \cup {Absent}]
          /\ base' \in [Drains -> Nat]
          /\ wrote' \in [Drains -> Times \cup {Absent}]
          /\ gone' \in [Drains -> SUBSET Times]
          /\ added' \in [Drains -> SUBSET ((Nat \ {0}) \X Times)]
      BY DEF IInv, TypeOK, Commit, End, Goto, Places
    <2>4. QED
      BY <1>1, <2>1, <2>2, <2>3 DEF IInv, TypeOK
  <1>3. Table'
    <2>1. RowIsNewestRecorded'
      <3>1. /\ events' = events \cup added[w]
            /\ \A e \in added[w] : e[2] = fetched[w]
        BY CommitStream
      <3>2. /\ \A e \in events : e[2] <= row /\ e[2] \in Nat
            /\ row # Absent => \E e \in events : e[2] = row
            /\ fetched[w] \in Nat
        BY DEF IInv, TypeOK, Table, RowIsNewestRecorded
      <3>3. fetched[w] <= row'
        BY <1>1, <3>2, CommitRow
      <3>4. \A e \in events' : e[2] <= row'
        BY <1>1, <3>1, <3>2, <3>3
      <3>5. row' # Absent => \E e \in events' : e[2] = row'
        BY <3>1, <3>2, CommitRow
      <3>6. QED
        BY <3>4, <3>5 DEF RowIsNewestRecorded
    <2>2. LinesMatchRow'
      BY CommitRow DEF IInv, TypeOK, Table, LinesMatchRow, Commit, Sagas, SagaWrote
    <2>3. ProcessedIsStored'
      <3> SUFFICES ASSUME NEW t \in Times, inbox'[t] = "processed"
                   PROVE  row' >= t
        BY DEF ProcessedIsStored
      <3>1. CASE t = current[w]
        BY <1>1, <3>1, CommitRow
      <3>2. CASE t # current[w]
        BY <1>1, <3>2 DEF IInv, TypeOK, Table, ProcessedIsStored
      <3>3. QED
        BY <3>1, <3>2
    <2>4. QED
      BY <2>1, <2>2, <2>3, CommitStream DEF Table
  <1>4. Sagas'
    <2> SUFFICES ASSUME NEW v \in Drains
                 PROVE  SagaRead(v)' /\ SagaWrote(v)'
      BY DEF Sagas
    <2>1. CASE v = w
      <3>1. /\ pc'[v] = "idle" /\ wrote'[v] = Absent /\ added'[v] = {}
            /\ found'[v] = Absent /\ base'[v] = 0
        BY <2>1 DEF IInv, TypeOK, Commit, End, Goto
      <3>2. QED
        BY <1>1, <3>1 DEF SagaRead, SagaWrote
    <2>2. CASE v # w
      <3>1. /\ pc'[v] = pc[v] /\ current'[v] = current[v] /\ fetched'[v] = fetched[v]
            /\ found'[v] = found[v] /\ base'[v] = base[v]
            /\ wrote'[v] = wrote[v] /\ gone'[v] = gone[v] /\ added'[v] = added[v]
        BY <2>2 DEF IInv, TypeOK, Commit, End, Goto
      <3>2. SagaRead(v) /\ SagaWrote(v)
        BY DEF IInv, Sagas
      <3>3. SagaRead(v)'
        <4>1. base[v] \in Versions(events)' \cup {0}
          BY <3>2, CommitStream DEF SagaRead
        <4>2. pc[v] = "version" => row' # Absent
          BY <1>1, <3>2 DEF SagaRead, IInv, TypeOK
        <4>3. found[v] <= row'
          <5>1. found[v] \in Nat
            BY DEF IInv, TypeOK
          <5>2. found[v] <= row
            BY <3>2 DEF SagaRead
          <5>3. QED
            BY <1>1, <5>1, <5>2
        <4>4. /\ pc[v] # "idle" => current[v] \in Times /\ current[v] <= remote'
              /\ pc[v] \notin {"idle", "fetch"} =>
                   fetched[v] \in Times /\ current[v] <= fetched[v]
          BY <1>1, <3>2 DEF SagaRead
        <4>5. QED
          BY <3>1, <4>1, <4>2, <4>3, <4>4 DEF SagaRead, Versions
      <3>4. SagaWrote(v)'
        <4>1. EventsAfter(v, base[v])' = EventsAfter(v, base[v])
          BY <3>1 DEF EventsAfter
        <4>2. (pc[v] = "upsert" \/ wrote[v] # Absent) /\ base[v] + 1 \notin Versions(events)'
                => row' < fetched[v]
          <5>1. CASE added[w] = {}
            <6>1. row' = row /\ Versions(events)' = Versions(events)
              BY <5>1, CommitRow, CommitStream, VersionsEmpty
            <6>2. QED
              BY <3>2, <6>1 DEF SagaWrote, AtTail
          <5>2. CASE added[w] # {}
            BY <5>2, CommitStream
          <5>3. QED
            BY <5>1, <5>2
        <4>3. pc[v] \in {"append", "mark", "commit"} =>
                IF wrote[v] = Absent THEN fetched[v] <= row' ELSE gone[v] = lines'
          <5>1. CASE wrote[v] = Absent
            <6>1. fetched[v] \in Nat
              BY DEF IInv, TypeOK
            <6>2. QED
              BY <1>1, <3>2, <5>1, <6>1 DEF SagaWrote
          <5>2. CASE wrote[v] # Absent
            <6>1. wrote[w] = Absent
              BY <2>2, <5>2 DEF IInv, Exclusive
            <6>2. lines' = lines
              BY <6>1 DEF Commit
            <6>3. QED
              BY <3>2, <5>2, <6>2 DEF SagaWrote
          <5>3. QED
            BY <5>1, <5>2
        <4>4. QED
          BY <3>1, <3>2, <4>1, <4>2, <4>3 DEF SagaWrote, AtTail
      <3>5. QED
        BY <3>3, <3>4
    <2>3. QED
      BY <2>1, <2>2
  <1>5. Exclusive'
    <2>1. /\ wrote' = [wrote EXCEPT ![w] = Absent]
          /\ added' = [added EXCEPT ![w] = {}]
      BY DEF Commit, End
    <2>2. \A v \in Drains : /\ v # w => wrote'[v] = wrote[v] /\ added'[v] = added[v]
                            /\ v = w => wrote'[v] = Absent /\ added'[v] = {}
      BY <2>1 DEF IInv, TypeOK
    <2>3. \A u, v \in Drains : u # v =>
            /\ wrote'[u] = Absent \/ wrote'[v] = Absent
            /\ Versions(added'[u]) \cap Versions(added'[v]) = {}
      BY <2>2, VersionsEmpty DEF IInv, Exclusive
    <2>4. \A v \in Drains : Versions(added'[v]) \cap Versions(events)' = {}
      BY <2>2, VersionsEmpty, CommitStream DEF IInv, Exclusive
    <2>5. QED
      BY <2>3, <2>4 DEF Exclusive, Versions
  <1>6. Announced'
    BY <1>1 DEF IInv, TypeOK, Announced
  <1>7. QED
    BY <1>2, <1>3, <1>4, <1>5, <1>6 DEF IInv

-----------------------------------------------------------------------------
(* The theorems.                                                            *)

LEMMA NextIInv ==
  ASSUME ~PooledQueries, IInv, [Next]_vars
  PROVE  IInv'
  <1>1. CASE UNCHANGED vars
    <2> USE <1>1 DEF vars, stored, read, tx
    <2>1. TypeOK' /\ Announced'
      BY DEF IInv, TypeOK, Announced
    <2>2. Table'
      BY DEF IInv, Table, StreamDense, Versions, RowIsNewestRecorded, LinesMatchRow,
             ProcessedIsStored
    <2>3. Sagas'
      BY DEF IInv, Sagas, SagaRead, SagaWrote, AtTail, Versions, EventsAfter
    <2>4. Exclusive'
      BY DEF IInv, Exclusive, Versions
    <2>5. QED
      BY <2>1, <2>2, <2>3, <2>4 DEF IInv
  <1>2. ASSUME Change \/ \E t \in Times : Notify(t)
        PROVE  IInv'
    <2>1. /\ remote \in Times /\ remote' \in Times /\ remote <= remote'
          /\ UNCHANGED <<row, lines, events, pc, read, tx, faults>>
      BY <1>2 DEF Change, Notify, stored, IInv, TypeOK
    <2>2. TypeOK'
      BY <1>2, <2>1 DEF Change, Notify, stored, read, tx, IInv, TypeOK
    <2>3. ProcessedIsStored' /\ Announced'
      BY <1>2, SMTT(30), <2>1 DEF Change, Notify, stored, IInv, TypeOK, Table,
                        ProcessedIsStored, Announced
    <2>4. Table'
      BY <2>1, <2>3 DEF IInv, Table, StreamDense, Versions, RowIsNewestRecorded,
                        LinesMatchRow
    <2>5. Sagas'
      <3> SUFFICES ASSUME NEW w \in Drains
                   PROVE  SagaRead(w)' /\ SagaWrote(w)'
        BY DEF Sagas
      <3>1. current[w] \in Times => (current[w] <= remote => current[w] <= remote')
        BY <2>1
      <3>2. SagaRead(w)'
        BY <2>1, <3>1 DEF IInv, Sagas, SagaRead, Versions, read
      <3>3. SagaWrote(w)'
        BY <2>1 DEF IInv, Sagas, SagaWrote, AtTail, Versions, EventsAfter, read, tx
      <3>4. QED
        BY <3>2, <3>3
    <2>6. Exclusive'
      BY <2>1 DEF IInv, Exclusive, Versions, tx
    <2>7. QED
      BY <2>2, <2>3, <2>4, <2>5, <2>6 DEF IInv
  <1>3. ASSUME NEW w \in Drains, Conflict(w) \/ Fail(w) \/ Crash(w)
        PROVE  IInv'
    <2>1. pc[w] # "idle" /\ End(w) /\ UNCHANGED <<remote, row, lines, events>>
      BY <1>3 DEF Conflict, Fail, Crash, Retry, stored
    <2>2. faults' \in 0 .. MaxFaults
      BY <1>3 DEF Conflict, Fail, Crash, IInv, TypeOK
    <2>3. \/ inbox' = inbox
          \/ inbox' = [inbox EXCEPT ![current[w]] = "waiting"]
      BY <1>3 DEF Conflict, Fail, Crash, Retry, stored
    <2>4. current[w] \in Times
      BY <2>1 DEF IInv, Sagas, SagaRead
    <2>5. QED
      BY <2>1, <2>2, <2>3, <2>4, EndIInv
  <1>4. ASSUME NEW w \in Drains, Work(w)
        PROVE  IInv'
    BY <1>3, <1>4, LoadIInv, FetchIInv, ReadRowIInv, ReadVersionIInv,
       SelectExistingIInv, UpsertIInv, ReplaceLinesIInv, AppendIInv, MarkIInv,
       CommitIInv
    DEF Work
  <1>5. QED
    BY <1>1, <1>2, <1>3, <1>4 DEF Next

LEMMA Invariance ==
  ASSUME ~PooledQueries
  PROVE  Safety => []IInv
  <1>1. IInv /\ [Next]_vars => IInv'
    BY NextIInv
  <1>2. QED
    BY <1>1, InitIInv, PTL DEF Safety

\* For any number of drains and revisions: the variables keep their types, and the
\* versions that sagas read are versions of the stream.
THEOREM TypeCorrect ==
  ASSUME ~PooledQueries
  PROVE  Safety => []TypeOK
  BY Invariance, PTL DEF IInv

\* However the drains overlap, the stored lines are those of the stored revision.
THEOREM LinesCorrect ==
  ASSUME ~PooledQueries
  PROVE  Safety => []LinesMatchRow
  BY Invariance, PTL DEF IInv, Table

\* The stored revision is always the newest the event stream records.
THEOREM NewestRecorded ==
  ASSUME ~PooledQueries
  PROVE  Safety => []RowIsNewestRecorded
  BY Invariance, PTL DEF IInv, Table

\* No announced revision is marked processed before it, or a newer one, is stored.
THEOREM NothingDropped ==
  ASSUME ~PooledQueries
  PROVE  Safety => []ProcessedIsStored
  BY Invariance, PTL DEF IInv, Table

\* No interleaving of sagas replaces a stored revision by an older one.
THEOREM StoreMovesForward ==
  ASSUME ~PooledQueries
  PROVE  Safety => RowNeverGoesBack
  <1>1. ASSUME IInv, Next
        PROVE  row' >= row
    <2>1. row \in Nat
      BY <1>1 DEF IInv, TypeOK
    <2>2. CASE \E w \in Drains : Commit(w)
      <3>1. PICK w \in Drains : Commit(w)
        BY <2>2
      <3>2. fetched[w] \in Times
        BY <1>1, <3>1, CommitRow
      <3>3. QED
        BY <1>1, <2>1, <3>1, <3>2, CommitRow
    <2>3. CASE ~\E w \in Drains : Commit(w)
      <3>1. row' = row
        BY <1>1, <2>3
        DEF Next, Work, Change, Notify, Load, Fetch, ReadRow, ReadVersion,
            SelectExisting, Upsert, ReplaceLines, Append, AppendEvents, Conflict,
            Retry, Mark, Fail, Crash, stored
      <3>2. QED
        BY <2>1, <3>1
    <2>4. QED
      BY <2>2, <2>3
  <1>2. IInv /\ [Next]_vars => [row' >= row]_vars
    BY <1>1
  <1>3. QED
    BY <1>2, Invariance, PTL DEF Safety, RowNeverGoesBack
=============================================================================
