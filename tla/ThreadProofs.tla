---------------------------- MODULE ThreadProofs ----------------------------
(***************************************************************************)
(* Proofs about the primitives by which threads of one process wait for    *)
(* each other: RwLock, for any finite set of threads and any weight above  *)
(* their number, and Futex, for any finite set of threads and any scripts. *)
(*                                                                         *)
(* RwLock: the type invariant, exclusion, and the assertions of the code.  *)
(* Exclusion is not inductive: a writer goes on because a counter is 0 or  *)
(* because an event is set.  The invariant says what each counter counts   *)
(* in every phase of the writer that owns the mutex, and that the event    *)
(* writer_wait is set, or about to be set by one thread, exactly when the  *)
(* counter of that phase has come to 0.                                    *)
(*                                                                         *)
(* Futex: the references of the objects, complete wake-ups and joins.  The *)
(* invariant FuInv says which locks a thread has where, that what it has   *)
(* found stays in the tree while it works, that the tree has one futex for *)
(* an address, and that the lists of waiters, the threads' own view of     *)
(* where they wait and the counts of references agree.                     *)
(***************************************************************************)
EXTENDS RwLock, Futex, FiniteSetTheorems, SequenceTheorems, WellFoundedInduction, TLAPS

Places == {"idle"} \cup RwReaderPcs \cup RwWriterPcs

(* The number of threads whose place, by f, is in S. *)
Count(f, S) == Cardinality({t \in RwThreads : f[t] \in S})

Nobody(f, S) == \A t \in RwThreads : f[t] \notin S

(* Readers that state counts, readers a writer waits for, and readers that *)
(* a writer has let in, or will, and who have not left the wait.           *)
Active    == {"await_turn", "let_in", "last_in", "reading"}
Present   == {"reading", "departing"}
Held      == {"await_turn"}
Turning   == {"await_turn", "let_in"}
LastOut   == {"last_out"}
LastIn    == {"last_in"}

(* The writer that owns the mutex has its weight on state. *)
Announced == {"count", "await_readers", "writing"}
Handing   == {"hand_over", "wake_readers", "await_turnout"}

OneIf(b) == IF b THEN 1 ELSE 0

MutexInv ==
    /\ writers_lock = FALSE => Nobody(rwPc, RwWriterPcs)
    /\ \A v, w \in RwThreads : rwPc[v] \in RwWriterPcs /\ rwPc[w] \in RwWriterPcs => v = w

StateInv == state = Count(rwPc, Active)
                    - (IF Nobody(rwPc, Announced) THEN 0 ELSE WRITER_WEIGHT)

(* What is at rest outside of the phases that use it. *)
RestInv ==
    /\ Nobody(rwPc, Announced) => /\ Nobody(rwPc, {"departing", "last_out"})
                                  /\ departing_readers = 0
    /\ Nobody(rwPc, Announced \cup Handing) => Nobody(rwPc, {"await_turn"})
    /\ Nobody(rwPc, {"await_turnout"}) => Nobody(rwPc, {"let_in", "last_in"})
    /\ Nobody(rwPc, {"await_turnout", "clear"}) => readers_wait = FALSE
    /\ Nobody(rwPc, {"await_readers", "await_turnout"}) => writer_wait = FALSE
    /\ Nobody(rwPc, {"wake_readers", "await_turnout"}) => waiting_readers = 0

(* A writer before its critical section. *)
BeforeInv(w) ==
    /\ rwPc[w] = "count" => /\ rwSeen + departing_readers = Count(rwPc, Present)
                            /\ departing_readers <= 0
                            /\ Nobody(rwPc, {"last_out"})
    /\ rwPc[w] = "await_readers" =>
          /\ departing_readers = Count(rwPc, Present)
          /\ Count(rwPc, LastOut) + OneIf(writer_wait = TRUE) = OneIf(departing_readers = 0)
    /\ rwPc[w] = "writing" => /\ departing_readers = 0
                              /\ Nobody(rwPc, {"reading", "departing", "last_out"})

(* A writer after its critical section. *)
AfterInv(w) ==
    /\ rwPc[w] = "hand_over" => rwSeen = Count(rwPc, Held) /\ rwSeen > 0
    /\ rwPc[w] = "wake_readers" => waiting_readers = Count(rwPc, Held) /\ waiting_readers > 0
    /\ rwPc[w] = "await_turnout" =>
          /\ waiting_readers = Count(rwPc, Turning)
          /\ Count(rwPc, LastIn) + OneIf(writer_wait = TRUE) = OneIf(waiting_readers = 0)

RwIInv == /\ RwTypeOK /\ MutexInv /\ StateInv /\ RestInv
          /\ \A w \in RwThreads : BeforeInv(w) /\ AfterInv(w)

-----------------------------------------------------------------------------
(* A count is a number up to that of the threads, 0 when there is nobody. *)
LEMMA CountType ==
    ASSUME NEW f, NEW S
    PROVE  /\ Count(f, S) \in Nat
           /\ Count(f, S) <= Cardinality(RwThreads)
           /\ Count(f, S) = 0 <=> Nobody(f, S)
<1> DEFINE X == {t \in RwThreads : f[t] \in S}
<1>1. X \in SUBSET RwThreads
    OBVIOUS
<1>2. IsFiniteSet(X) /\ Cardinality(X) <= Cardinality(RwThreads)
    BY <1>1, RwThreadsFinite, FS_Subset
<1>3. Cardinality(X) \in Nat /\ (Cardinality(X) = 0 <=> X = {})
    BY <1>2, FS_CardinalityType, FS_EmptySet
<1>4. X = {} <=> Nobody(f, S)
    BY DEF Nobody
<1> QED
    BY <1>2, <1>3, <1>4 DEF Count

(* When one thread moves, a count loses it and gains it. *)
LEMMA CountMove ==
    ASSUME NEW f, NEW g, NEW t \in RwThreads, NEW S,
           \A u \in RwThreads : u # t => g[u] = f[u]
    PROVE  Count(g, S) = Count(f, S) - OneIf(f[t] \in S) + OneIf(g[t] \in S)
<1> DEFINE X == {u \in RwThreads : f[u] \in S}
           Y == {u \in RwThreads : g[u] \in S}
<1>1. IsFiniteSet(X) /\ Cardinality(X) \in Nat
    <2>1. X \in SUBSET RwThreads
        OBVIOUS
    <2> QED BY <2>1, RwThreadsFinite, FS_Subset, FS_CardinalityType
<1>2. CASE g[t] \in S
    <2>1. Y = X \cup {t}
        BY <1>2
    <2>2. Cardinality(Y) = IF t \in X THEN Cardinality(X) ELSE Cardinality(X) + 1
        BY <2>1, <1>1, FS_AddElement
    <2> QED BY <2>2, <1>1, <1>2 DEF Count, OneIf
<1>3. CASE g[t] \notin S
    <2>1. Y = X \ {t}
        BY <1>3
    <2>2. Cardinality(Y) = IF t \in X THEN Cardinality(X) - 1 ELSE Cardinality(X)
        BY <2>1, <1>1, FS_RemoveElement
    <2> QED BY <2>2, <1>1, <1>3 DEF Count, OneIf
<1> QED BY <1>2, <1>3

(* Two sets of places that the same threads are at. *)
LEMMA CountSame ==
    ASSUME NEW f, NEW S, NEW T, \A t \in RwThreads : f[t] \in S <=> f[t] \in T
    PROVE  Count(f, S) = Count(f, T)
<1>1. {t \in RwThreads : f[t] \in S} = {t \in RwThreads : f[t] \in T}
    OBVIOUS
<1> QED BY <1>1 DEF Count

-----------------------------------------------------------------------------
(* What a step that moves one thread from a to b does to the count of S. *)
Tally(S, a, b) ==
    /\ Count(rwPc', S) = Count(rwPc, S) - OneIf(a \in S) + OneIf(b \in S)
    /\ Count(rwPc, S) \in Nat /\ Count(rwPc', S) \in Nat
    /\ Count(rwPc, S) <= Cardinality(RwThreads)
    /\ Count(rwPc, S) = 0 <=> Nobody(rwPc, S)
    /\ Count(rwPc', S) = 0 <=> Nobody(rwPc', S)

Moves(t, a, b) ==
    /\ rwPc[t] = a /\ rwPc' \in [RwThreads -> Places]
    /\ \A u \in RwThreads : rwPc'[u] = IF u = t THEN b ELSE rwPc[u]
    /\ Tally(Active, a, b) /\ Tally(Present, a, b) /\ Tally(Held, a, b)
    /\ Tally(Turning, a, b) /\ Tally(LastOut, a, b) /\ Tally(LastIn, a, b)

(* RwGoto moves one thread and nobody else. *)
LEMMA GotoMoves ==
    ASSUME RwTypeOK, NEW t \in RwThreads, NEW a, NEW b \in Places, RwGoto(t, a, b)
    PROVE  Moves(t, a, b)
<1>1. rwPc \in [RwThreads -> Places]
    BY DEF RwTypeOK, Places
<1>2. rwPc[t] = a /\ rwPc' = [rwPc EXCEPT ![t] = b]
    BY DEF RwGoto
<1>3. ASSUME NEW S
      PROVE  Tally(S, a, b)
    <2>1. Count(rwPc', S) = Count(rwPc, S) - OneIf(rwPc[t] \in S) + OneIf(rwPc'[t] \in S)
        <3>1. \A u \in RwThreads : u # t => rwPc'[u] = rwPc[u]
            BY <1>1, <1>2
        <3> QED BY <3>1, CountMove DEF OneIf
    <2> QED BY <1>1, <1>2, <2>1, CountType DEF Tally
<1> QED BY <1>1, <1>2, <1>3 DEF Moves

(* While a writer has its weight on state, state is below 0. *)
LEMMA StateSign ==
    ASSUME RwIInv
    PROVE  /\ state < 0 <=> ~Nobody(rwPc, Announced)
           /\ state \in Int
<1>1. Count(rwPc, Active) \in Nat /\ Count(rwPc, Active) <= Cardinality(RwThreads)
    BY CountType
<1>2. Cardinality(RwThreads) \in Nat
    BY RwThreadsFinite, FS_CardinalityType
<1> QED BY <1>1, <1>2, WeightAboveReaders DEF RwIInv, StateInv

(* The counts of the invariant are numbers, and 0 when there is nobody. *)
LEMMA CountFacts ==
    /\ Count(rwPc, Active) \in Nat /\ Count(rwPc, Present) \in Nat /\ Count(rwPc, Held) \in Nat
    /\ Count(rwPc, Turning) \in Nat /\ Count(rwPc, LastOut) \in Nat /\ Count(rwPc, LastIn) \in Nat
    /\ Count(rwPc, Active) = 0 <=> Nobody(rwPc, Active)
    /\ Count(rwPc, Present) = 0 <=> Nobody(rwPc, Present)
    /\ Count(rwPc, Held) = 0 <=> Nobody(rwPc, Held)
    /\ Count(rwPc, Turning) = 0 <=> Nobody(rwPc, Turning)
    /\ Count(rwPc, LastOut) = 0 <=> Nobody(rwPc, LastOut)
    /\ Count(rwPc, LastIn) = 0 <=> Nobody(rwPc, LastIn)
    BY CountType

(* One lemma per action.  Each begins with the move of the one thread and  *)
(* the tally of the counts, then takes the parts of the invariant in turn. *)

(* A new reader is counted by state; it reads at once unless a writer is about. *)
LEMMA ReadLockOK ==
    ASSUME RwIInv, NEW t \in RwThreads, ReadLock(t)
    PROVE  RwIInv'
<1> DEFINE b == IF state < 0 THEN "await_turn" ELSE "reading"
<1>1. RwGoto(t, "idle", b) /\ b \in Places
    BY DEF ReadLock, Places, RwReaderPcs, RwWriterPcs
<1>2. Moves(t, "idle", b)
    BY <1>1, GotoMoves DEF RwIInv
<1>3. /\ Count(rwPc', Active) = Count(rwPc, Active) + 1
      /\ Count(rwPc', Present) = Count(rwPc, Present) + OneIf(~(state < 0))
      /\ Count(rwPc', Held) = Count(rwPc, Held) + OneIf(state < 0)
      /\ Count(rwPc', Turning) = Count(rwPc, Turning) + OneIf(state < 0)
      /\ Count(rwPc', LastOut) = Count(rwPc, LastOut)
      /\ Count(rwPc', LastIn) = Count(rwPc, LastIn)
    BY <1>2 DEF Moves, Tally, OneIf, Active, Present, Held, Turning, LastOut, LastIn
<1>4. /\ Count(rwPc, Active) \in Nat /\ Count(rwPc, Present) \in Nat /\ Count(rwPc, Held) \in Nat
      /\ Count(rwPc, Turning) \in Nat /\ Count(rwPc, LastOut) \in Nat /\ Count(rwPc, LastIn) \in Nat
    BY CountFacts
<1>5. RwTypeOK'
    BY <1>2, WeightAboveReaders DEF RwIInv, RwTypeOK, ReadLock, Moves, Places
<1>6. MutexInv'
    BY <1>2 DEF RwIInv, MutexInv, Nobody, ReadLock, Moves, RwWriterPcs
<1>7. state < 0 <=> ~Nobody(rwPc, Announced)
    BY StateSign
<1>8. StateInv'
    BY <1>2, <1>3, <1>4, <1>7, WeightAboveReaders
    DEF RwIInv, StateInv, Nobody, ReadLock, Moves, OneIf, Announced
<1>9. RestInv'
    BY <1>2, <1>7
    DEF RwIInv, MutexInv, RestInv, Nobody, ReadLock, Moves, RwWriterPcs, Announced, Handing
<1>10. ASSUME NEW w \in RwThreads
       PROVE  BeforeInv(w)'
    BY <1>2, <1>3, <1>4, <1>7
    DEF RwIInv, RwTypeOK, MutexInv, BeforeInv, Nobody, ReadLock, Moves, OneIf, RwWriterPcs,
        Announced
<1>11. ASSUME NEW w \in RwThreads
       PROVE  AfterInv(w)'
    BY <1>2, <1>3, <1>4, <1>7
    DEF RwIInv, RwTypeOK, MutexInv, AfterInv, Nobody, ReadLock, Moves, OneIf, RwWriterPcs,
        Announced
<1> QED BY <1>5, <1>6, <1>8, <1>9, <1>10, <1>11 DEF RwIInv

(* A reader leaves the wait only while the writer waits for the turnout. *)
LEMMA ReaderWakesOK ==
    ASSUME RwIInv, NEW t \in RwThreads, ReaderWakes(t)
    PROVE  RwIInv'
<1> DEFINE b == "let_in"
<1>1. RwGoto(t, "await_turn", b) /\ b \in Places
    BY DEF ReaderWakes, Places, RwReaderPcs, RwWriterPcs
<1>2. Moves(t, "await_turn", b)
    BY <1>1, GotoMoves DEF RwIInv
<1>3. /\ Count(rwPc', Active) = Count(rwPc, Active)
      /\ Count(rwPc', Present) = Count(rwPc, Present)
      /\ Count(rwPc', Held) = Count(rwPc, Held) - 1
      /\ Count(rwPc', Turning) = Count(rwPc, Turning)
      /\ Count(rwPc', LastOut) = Count(rwPc, LastOut)
      /\ Count(rwPc', LastIn) = Count(rwPc, LastIn)
    BY <1>2 DEF Moves, Tally, OneIf, Active, Present, Held, Turning, LastOut, LastIn
<1>4. /\ Count(rwPc, Active) \in Nat /\ Count(rwPc, Present) \in Nat /\ Count(rwPc, Held) \in Nat
      /\ Count(rwPc, Turning) \in Nat /\ Count(rwPc, LastOut) \in Nat /\ Count(rwPc, LastIn) \in Nat
    BY CountFacts
<1>5. RwTypeOK'
    BY <1>2, WeightAboveReaders DEF RwIInv, RwTypeOK, ReaderWakes, Moves, Places
<1>6. MutexInv'
    BY <1>2 DEF RwIInv, MutexInv, Nobody, ReaderWakes, Moves, RwWriterPcs
<1>8. PICK v \in RwThreads : rwPc[v] = "await_turnout"
    BY <1>2 DEF RwIInv, MutexInv, RestInv, Nobody, ReaderWakes, Moves, RwWriterPcs, Announced, Handing
<1>9. StateInv'
    BY <1>2, <1>3, <1>4, <1>8 DEF RwIInv, StateInv, Nobody, ReaderWakes, Moves, Announced
<1>10. RestInv'
    BY <1>2, <1>8
    DEF RwIInv, MutexInv, RestInv, Nobody, ReaderWakes, Moves, RwWriterPcs, Announced,
        Handing
<1>11. ASSUME NEW w \in RwThreads
       PROVE  BeforeInv(w)'
    BY <1>2, <1>3, <1>4, <1>8
    DEF RwIInv, RwTypeOK, MutexInv, BeforeInv, Nobody, ReaderWakes, Moves, OneIf,
        RwWriterPcs, Announced
<1>12. ASSUME NEW w \in RwThreads
       PROVE  AfterInv(w)'
    BY <1>2, <1>3, <1>4, <1>8
    DEF RwIInv, RwTypeOK, MutexInv, AfterInv, Nobody, ReaderWakes, Moves, OneIf,
        RwWriterPcs, Announced
<1> QED BY <1>5, <1>6, <1>9, <1>10, <1>11, <1>12 DEF RwIInv

(* The last reader that was let in is the one that owes the writer an event. *)
LEMMA ReaderCheckedInOK ==
    ASSUME RwIInv, NEW t \in RwThreads, ReaderCheckedIn(t)
    PROVE  RwIInv'
<1> DEFINE b == IF waiting_readers = 1 THEN "last_in" ELSE "reading"
<1>1. RwGoto(t, "let_in", b) /\ b \in Places
    BY DEF ReaderCheckedIn, Places, RwReaderPcs, RwWriterPcs
<1>2. Moves(t, "let_in", b)
    BY <1>1, GotoMoves DEF RwIInv
<1>3. /\ Count(rwPc', Active) = Count(rwPc, Active)
      /\ Count(rwPc', Present) = Count(rwPc, Present) + OneIf(~(waiting_readers = 1))
      /\ Count(rwPc', Held) = Count(rwPc, Held)
      /\ Count(rwPc', Turning) = Count(rwPc, Turning) - 1
      /\ Count(rwPc', LastOut) = Count(rwPc, LastOut)
      /\ Count(rwPc', LastIn) = Count(rwPc, LastIn) + OneIf(waiting_readers = 1)
    BY <1>2 DEF Moves, Tally, OneIf, Active, Present, Held, Turning, LastOut, LastIn
<1>4. /\ Count(rwPc, Active) \in Nat /\ Count(rwPc, Present) \in Nat /\ Count(rwPc, Held) \in Nat
      /\ Count(rwPc, Turning) \in Nat /\ Count(rwPc, LastOut) \in Nat /\ Count(rwPc, LastIn) \in Nat
    BY CountFacts
<1>5. RwTypeOK'
    BY <1>2, WeightAboveReaders DEF RwIInv, RwTypeOK, ReaderCheckedIn, Moves, Places
<1>6. MutexInv'
    BY <1>2 DEF RwIInv, MutexInv, Nobody, ReaderCheckedIn, Moves, RwWriterPcs
<1>8. PICK v \in RwThreads : rwPc[v] = "await_turnout"
    BY <1>2 DEF RwIInv, MutexInv, RestInv, Nobody, ReaderCheckedIn, Moves, RwWriterPcs, Announced, Handing
<1>9. Count(rwPc, Turning) # 0
    BY <1>2, CountFacts DEF Moves, Nobody, Turning
<1>10. StateInv'
    BY <1>2, <1>3, <1>4, <1>8, <1>9
    DEF RwIInv, StateInv, Nobody, ReaderCheckedIn, Moves, OneIf, Announced
<1>11. RestInv'
    BY <1>2, <1>8, <1>9
    DEF RwIInv, MutexInv, RestInv, Nobody, ReaderCheckedIn, Moves, RwWriterPcs, Announced,
        Handing
<1>12. ASSUME NEW w \in RwThreads
       PROVE  BeforeInv(w)'
    BY <1>2, <1>3, <1>4, <1>8, <1>9
    DEF RwIInv, RwTypeOK, MutexInv, BeforeInv, Nobody, ReaderCheckedIn, Moves, OneIf,
        RwWriterPcs, Announced
<1>13. ASSUME NEW w \in RwThreads
       PROVE  AfterInv(w)'
    BY <1>2, <1>3, <1>4, <1>8, <1>9
    DEF RwIInv, RwTypeOK, MutexInv, AfterInv, Nobody, ReaderCheckedIn, Moves, OneIf,
        RwWriterPcs, Announced
<1> QED BY <1>5, <1>6, <1>10, <1>11, <1>12, <1>13 DEF RwIInv

(* The debt of that reader becomes the event. *)
LEMMA LastInSignalsOK ==
    ASSUME RwIInv, NEW t \in RwThreads, LastInSignals(t)
    PROVE  RwIInv'
<1> DEFINE b == "reading"
<1>1. RwGoto(t, "last_in", b) /\ b \in Places
    BY DEF LastInSignals, Places, RwReaderPcs, RwWriterPcs
<1>2. Moves(t, "last_in", b)
    BY <1>1, GotoMoves DEF RwIInv
<1>3. /\ Count(rwPc', Active) = Count(rwPc, Active)
      /\ Count(rwPc', Present) = Count(rwPc, Present) + 1
      /\ Count(rwPc', Held) = Count(rwPc, Held)
      /\ Count(rwPc', Turning) = Count(rwPc, Turning)
      /\ Count(rwPc', LastOut) = Count(rwPc, LastOut)
      /\ Count(rwPc', LastIn) = Count(rwPc, LastIn) - 1
    BY <1>2 DEF Moves, Tally, OneIf, Active, Present, Held, Turning, LastOut, LastIn
<1>4. /\ Count(rwPc, Active) \in Nat /\ Count(rwPc, Present) \in Nat /\ Count(rwPc, Held) \in Nat
      /\ Count(rwPc, Turning) \in Nat /\ Count(rwPc, LastOut) \in Nat /\ Count(rwPc, LastIn) \in Nat
    BY CountFacts
<1>5. RwTypeOK'
    BY <1>2, WeightAboveReaders DEF RwIInv, RwTypeOK, LastInSignals, Moves, Places
<1>6. MutexInv'
    BY <1>2 DEF RwIInv, MutexInv, Nobody, LastInSignals, Moves, RwWriterPcs
<1>8. PICK v \in RwThreads : rwPc[v] = "await_turnout"
    BY <1>2 DEF RwIInv, MutexInv, RestInv, Nobody, LastInSignals, Moves, RwWriterPcs, Announced, Handing
<1>9. Count(rwPc, LastIn) # 0
    BY <1>2, CountFacts DEF Moves, Nobody, LastIn
<1>10. StateInv'
    BY <1>2, <1>3, <1>4, <1>8, <1>9 DEF RwIInv, StateInv, Nobody, LastInSignals, Moves, Announced
<1>11. RestInv'
    BY <1>2, <1>8, <1>9
    DEF RwIInv, MutexInv, RestInv, Nobody, LastInSignals, Moves, RwWriterPcs, Announced,
        Handing
<1>12. ASSUME NEW w \in RwThreads
       PROVE  BeforeInv(w)'
    BY <1>2, <1>3, <1>4, <1>8, <1>9
    DEF RwIInv, RwTypeOK, MutexInv, BeforeInv, Nobody, LastInSignals, Moves, OneIf,
        RwWriterPcs, Announced
<1>13. ASSUME NEW w \in RwThreads
       PROVE  AfterInv(w)'
    BY <1>2, <1>3, <1>4, <1>8, <1>9
    DEF RwIInv, RwTypeOK, MutexInv, AfterInv, Nobody, LastInSignals, Moves, OneIf,
        RwWriterPcs, Announced
<1> QED BY <1>5, <1>6, <1>10, <1>11, <1>12, <1>13 DEF RwIInv

(* A reader leaves state; under a writer it is still present. *)
LEMMA ReadUnlockOK ==
    ASSUME RwIInv, NEW t \in RwThreads, ReadUnlock(t)
    PROVE  RwIInv'
<1> DEFINE b == IF state - 1 < 0 THEN "departing" ELSE "idle"
<1>1. RwGoto(t, "reading", b) /\ b \in Places
    BY DEF ReadUnlock, Places, RwReaderPcs, RwWriterPcs
<1>2. Moves(t, "reading", b)
    BY <1>1, GotoMoves DEF RwIInv
<1>3. /\ Count(rwPc', Active) = Count(rwPc, Active) - 1
      /\ Count(rwPc', Present) = Count(rwPc, Present) - 1 + OneIf(state - 1 < 0)
      /\ Count(rwPc', Held) = Count(rwPc, Held)
      /\ Count(rwPc', Turning) = Count(rwPc, Turning)
      /\ Count(rwPc', LastOut) = Count(rwPc, LastOut)
      /\ Count(rwPc', LastIn) = Count(rwPc, LastIn)
    BY <1>2 DEF Moves, Tally, OneIf, Active, Present, Held, Turning, LastOut, LastIn
<1>4. /\ Count(rwPc, Active) \in Nat /\ Count(rwPc, Present) \in Nat /\ Count(rwPc, Held) \in Nat
      /\ Count(rwPc, Turning) \in Nat /\ Count(rwPc, LastOut) \in Nat /\ Count(rwPc, LastIn) \in Nat
    BY CountFacts
<1>5. RwTypeOK'
    BY <1>2, WeightAboveReaders DEF RwIInv, RwTypeOK, ReadUnlock, Moves, Places
<1>6. MutexInv'
    BY <1>2 DEF RwIInv, MutexInv, Nobody, ReadUnlock, Moves, RwWriterPcs
<1>8. state - 1 < 0 <=> ~Nobody(rwPc, Announced)
    BY <1>2, CountFacts, StateSign DEF RwIInv, StateInv, Moves, Nobody, Active
<1>9. Count(rwPc, Active) # 0
    BY <1>2, CountFacts DEF Moves, Nobody, Active
<1>10. StateInv'
    BY <1>2, <1>3, <1>4, <1>8, <1>9, WeightAboveReaders
    DEF RwIInv, StateInv, Nobody, ReadUnlock, Moves, OneIf, Announced
<1>11. RestInv'
    BY <1>2, <1>8, <1>9
    DEF RwIInv, MutexInv, RestInv, Nobody, ReadUnlock, Moves, RwWriterPcs, Announced,
        Handing
<1>12. ASSUME NEW w \in RwThreads
       PROVE  BeforeInv(w)'
    BY <1>2, <1>3, <1>4, <1>8, <1>9
    DEF RwIInv, RwTypeOK, MutexInv, BeforeInv, Nobody, ReadUnlock, Moves, OneIf,
        RwWriterPcs, Announced
<1>13. ASSUME NEW w \in RwThreads
       PROVE  AfterInv(w)'
    BY <1>2, <1>3, <1>4, <1>8, <1>9
    DEF RwIInv, RwTypeOK, MutexInv, AfterInv, Nobody, ReadUnlock, Moves, OneIf, RwWriterPcs,
        Announced
<1> QED BY <1>5, <1>6, <1>10, <1>11, <1>12, <1>13 DEF RwIInv

(* The reader that brings departing_readers to 0 owes the writer an event. *)
LEMMA ReaderDepartsOK ==
    ASSUME RwIInv, NEW t \in RwThreads, ReaderDeparts(t)
    PROVE  RwIInv'
<1> DEFINE b == IF departing_readers = 1 THEN "last_out" ELSE "idle"
<1>1. RwGoto(t, "departing", b) /\ b \in Places
    BY DEF ReaderDeparts, Places, RwReaderPcs, RwWriterPcs
<1>2. Moves(t, "departing", b)
    BY <1>1, GotoMoves DEF RwIInv
<1>3. /\ Count(rwPc', Active) = Count(rwPc, Active)
      /\ Count(rwPc', Present) = Count(rwPc, Present) - 1
      /\ Count(rwPc', Held) = Count(rwPc, Held)
      /\ Count(rwPc', Turning) = Count(rwPc, Turning)
      /\ Count(rwPc', LastOut) = Count(rwPc, LastOut) + OneIf(departing_readers = 1)
      /\ Count(rwPc', LastIn) = Count(rwPc, LastIn)
    BY <1>2 DEF Moves, Tally, OneIf, Active, Present, Held, Turning, LastOut, LastIn
<1>4. /\ Count(rwPc, Active) \in Nat /\ Count(rwPc, Present) \in Nat /\ Count(rwPc, Held) \in Nat
      /\ Count(rwPc, Turning) \in Nat /\ Count(rwPc, LastOut) \in Nat /\ Count(rwPc, LastIn) \in Nat
    BY CountFacts
<1>5. RwTypeOK'
    BY <1>2, WeightAboveReaders DEF RwIInv, RwTypeOK, ReaderDeparts, Moves, Places
<1>6. MutexInv'
    BY <1>2 DEF RwIInv, MutexInv, Nobody, ReaderDeparts, Moves, RwWriterPcs
<1>8. PICK v \in RwThreads : rwPc[v] \in Announced
    BY <1>2 DEF RwIInv, RestInv, Nobody, Moves
<1>9. Count(rwPc, Present) # 0
    BY <1>2, CountFacts DEF Moves, Nobody, Present
<1>10. StateInv'
    BY <1>2, <1>3, <1>4, <1>8, <1>9
    DEF RwIInv, StateInv, Nobody, ReaderDeparts, Moves, OneIf, Announced
<1>11. RestInv'
    BY <1>2, <1>8, <1>9
    DEF RwIInv, MutexInv, RestInv, Nobody, ReaderDeparts, Moves, RwWriterPcs, Announced,
        Handing
<1>12. ASSUME NEW w \in RwThreads
       PROVE  BeforeInv(w)'
    BY <1>2, <1>3, <1>4, <1>8, <1>9
    DEF RwIInv, RwTypeOK, MutexInv, BeforeInv, Nobody, ReaderDeparts, Moves, OneIf,
        RwWriterPcs, Announced
<1>13. ASSUME NEW w \in RwThreads
       PROVE  AfterInv(w)'
    BY <1>2, <1>3, <1>4, <1>8, <1>9
    DEF RwIInv, RwTypeOK, MutexInv, AfterInv, Nobody, ReaderDeparts, Moves, OneIf,
        RwWriterPcs, Announced
<1> QED BY <1>5, <1>6, <1>10, <1>11, <1>12, <1>13 DEF RwIInv

(* The debt of that reader becomes the event. *)
LEMMA LastOutSignalsOK ==
    ASSUME RwIInv, NEW t \in RwThreads, LastOutSignals(t)
    PROVE  RwIInv'
<1> DEFINE b == "idle"
<1>1. RwGoto(t, "last_out", b) /\ b \in Places
    BY DEF LastOutSignals, Places, RwReaderPcs, RwWriterPcs
<1>2. Moves(t, "last_out", b)
    BY <1>1, GotoMoves DEF RwIInv
<1>3. /\ Count(rwPc', Active) = Count(rwPc, Active)
      /\ Count(rwPc', Present) = Count(rwPc, Present)
      /\ Count(rwPc', Held) = Count(rwPc, Held)
      /\ Count(rwPc', Turning) = Count(rwPc, Turning)
      /\ Count(rwPc', LastOut) = Count(rwPc, LastOut) - 1
      /\ Count(rwPc', LastIn) = Count(rwPc, LastIn)
    BY <1>2 DEF Moves, Tally, OneIf, Active, Present, Held, Turning, LastOut, LastIn
<1>4. /\ Count(rwPc, Active) \in Nat /\ Count(rwPc, Present) \in Nat /\ Count(rwPc, Held) \in Nat
      /\ Count(rwPc, Turning) \in Nat /\ Count(rwPc, LastOut) \in Nat /\ Count(rwPc, LastIn) \in Nat
    BY CountFacts
<1>5. RwTypeOK'
    BY <1>2, WeightAboveReaders DEF RwIInv, RwTypeOK, LastOutSignals, Moves, Places
<1>6. MutexInv'
    BY <1>2 DEF RwIInv, MutexInv, Nobody, LastOutSignals, Moves, RwWriterPcs
<1>7. state < 0 <=> ~Nobody(rwPc, Announced)
    BY StateSign
<1>8. PICK v \in RwThreads : rwPc[v] \in Announced
    BY <1>2 DEF RwIInv, RestInv, Nobody, Moves
<1>9. Count(rwPc, LastOut) # 0
    BY <1>2, CountFacts DEF Moves, Nobody, LastOut
<1>10. StateInv'
    BY <1>2, <1>3, <1>4, <1>8, <1>9 DEF RwIInv, StateInv, Nobody, LastOutSignals, Moves, Announced
<1>11. RestInv'
    BY <1>2, <1>3, <1>4, <1>7, <1>8, <1>9
    DEF RwIInv, RwTypeOK, MutexInv, StateInv, RestInv, BeforeInv, AfterInv, Nobody,
        LastOutSignals, Moves, OneIf, RwWriterPcs, Announced, Handing
<1>12. ASSUME NEW w \in RwThreads
       PROVE  BeforeInv(w)'
    BY <1>2, <1>3, <1>4, <1>8, <1>9
    DEF RwIInv, RwTypeOK, MutexInv, BeforeInv, Nobody, LastOutSignals, Moves, OneIf,
        RwWriterPcs, Announced
<1>13. ASSUME NEW w \in RwThreads
       PROVE  AfterInv(w)'
    BY <1>2, <1>3, <1>4, <1>8, <1>9
    DEF RwIInv, RwTypeOK, MutexInv, AfterInv, Nobody, LastOutSignals, Moves, OneIf,
        RwWriterPcs, Announced
<1> QED BY <1>5, <1>6, <1>10, <1>11, <1>12, <1>13 DEF RwIInv

(* Taking the mutex changes no count. *)
LEMMA WritersLockOK ==
    ASSUME RwIInv, NEW t \in RwThreads, WritersLock(t)
    PROVE  RwIInv'
<1> DEFINE b == "announce"
<1>1. RwGoto(t, "idle", b) /\ b \in Places
    BY DEF WritersLock, Places, RwReaderPcs, RwWriterPcs
<1>2. Moves(t, "idle", b)
    BY <1>1, GotoMoves DEF RwIInv
<1>3. /\ Count(rwPc', Active) = Count(rwPc, Active)
      /\ Count(rwPc', Present) = Count(rwPc, Present)
      /\ Count(rwPc', Held) = Count(rwPc, Held)
      /\ Count(rwPc', Turning) = Count(rwPc, Turning)
      /\ Count(rwPc', LastOut) = Count(rwPc, LastOut)
      /\ Count(rwPc', LastIn) = Count(rwPc, LastIn)
    BY <1>2 DEF Moves, Tally, OneIf, Active, Present, Held, Turning, LastOut, LastIn
<1>4. /\ Count(rwPc, Active) \in Nat /\ Count(rwPc, Present) \in Nat /\ Count(rwPc, Held) \in Nat
      /\ Count(rwPc, Turning) \in Nat /\ Count(rwPc, LastOut) \in Nat /\ Count(rwPc, LastIn) \in Nat
    BY CountFacts
<1>5. RwTypeOK'
    BY <1>2, WeightAboveReaders DEF RwIInv, RwTypeOK, WritersLock, Moves, Places
<1>6. MutexInv'
    BY <1>2 DEF RwIInv, MutexInv, Nobody, WritersLock, Moves, RwWriterPcs
<1>7. state < 0 <=> ~Nobody(rwPc, Announced)
    BY StateSign
<1>8. StateInv'
    BY <1>2, <1>3, <1>4, <1>7 DEF RwIInv, StateInv, Nobody, WritersLock, Moves, Announced
<1>9. RestInv'
    BY <1>2, <1>7
    DEF RwIInv, MutexInv, RestInv, Nobody, WritersLock, Moves, RwWriterPcs, Announced,
        Handing
<1>10. ASSUME NEW w \in RwThreads
       PROVE  BeforeInv(w)'
    BY <1>2, <1>3, <1>4, <1>7
    DEF RwIInv, RwTypeOK, MutexInv, BeforeInv, Nobody, WritersLock, Moves, OneIf,
        RwWriterPcs, Announced
<1>11. ASSUME NEW w \in RwThreads
       PROVE  AfterInv(w)'
    BY <1>2, <1>3, <1>4, <1>7
    DEF RwIInv, RwTypeOK, MutexInv, AfterInv, Nobody, WritersLock, Moves, OneIf,
        RwWriterPcs, Announced
<1> QED BY <1>5, <1>6, <1>8, <1>9, <1>10, <1>11 DEF RwIInv

(* What state showed the writer is the number of readers present. *)
LEMMA WriterAnnouncesOK ==
    ASSUME RwIInv, NEW t \in RwThreads, WriterAnnounces(t)
    PROVE  RwIInv'
<1> DEFINE b == IF state > 0 THEN "count" ELSE "writing"
<1>1. RwGoto(t, "announce", b) /\ b \in Places
    BY DEF WriterAnnounces, Places, RwReaderPcs, RwWriterPcs
<1>2. Moves(t, "announce", b)
    BY <1>1, GotoMoves DEF RwIInv
<1>3. /\ Count(rwPc', Active) = Count(rwPc, Active)
      /\ Count(rwPc', Present) = Count(rwPc, Present)
      /\ Count(rwPc', Held) = Count(rwPc, Held)
      /\ Count(rwPc', Turning) = Count(rwPc, Turning)
      /\ Count(rwPc', LastOut) = Count(rwPc, LastOut)
      /\ Count(rwPc', LastIn) = Count(rwPc, LastIn)
    BY <1>2 DEF Moves, Tally, OneIf, Active, Present, Held, Turning, LastOut, LastIn
<1>4. /\ Count(rwPc, Active) \in Nat /\ Count(rwPc, Present) \in Nat /\ Count(rwPc, Held) \in Nat
      /\ Count(rwPc, Turning) \in Nat /\ Count(rwPc, LastOut) \in Nat /\ Count(rwPc, LastIn) \in Nat
    BY CountFacts
<1>5. RwTypeOK'
    BY <1>2, WeightAboveReaders DEF RwIInv, RwTypeOK, WriterAnnounces, Moves, Places
<1>6. MutexInv'
    BY <1>2 DEF RwIInv, MutexInv, Nobody, WriterAnnounces, Moves, RwWriterPcs
<1>8. Nobody(rwPc, Announced \cup Handing \cup {"clear"})
    BY <1>2 DEF RwIInv, MutexInv, Nobody, Moves, RwWriterPcs, Announced, Handing
<1>9. Nobody(rwPc, {"departing", "last_out", "await_turn", "let_in", "last_in"})
    BY <1>8 DEF RwIInv, RestInv, Nobody, Announced, Handing
<1>10. Count(rwPc, Active) = Count(rwPc, Present)
    <2>1. \A u \in RwThreads : rwPc[u] \in Active <=> rwPc[u] \in Present
        BY <1>9 DEF Nobody, Active, Present
    <2> QED BY <2>1, CountSame
<1>11. state = Count(rwPc, Active) /\ departing_readers = 0 /\ writer_wait = FALSE
    BY <1>8, CountFacts DEF RwIInv, RestInv, StateInv, Nobody, Announced, Handing
<1>12. Count(rwPc, Present) = 0 => Nobody(rwPc, {"reading", "departing"})
    BY CountFacts DEF Present
<1>13. StateInv'
    BY <1>2, <1>3, <1>4, <1>8, <1>9, <1>10, <1>11, <1>12, WeightAboveReaders
    DEF RwIInv, StateInv, Nobody, WriterAnnounces, Moves, OneIf, Announced
<1>14. RestInv'
    BY <1>2, <1>8, <1>9, <1>10, <1>11, <1>12
    DEF RwIInv, MutexInv, RestInv, Nobody, WriterAnnounces, Moves, RwWriterPcs, Announced,
        Handing
<1>15. ASSUME NEW w \in RwThreads
       PROVE  BeforeInv(w)'
    BY <1>2, <1>3, <1>4, <1>8, <1>9, <1>10, <1>11, <1>12
    DEF RwIInv, RwTypeOK, MutexInv, BeforeInv, Nobody, WriterAnnounces, Moves, OneIf,
        RwWriterPcs, Announced
<1>16. ASSUME NEW w \in RwThreads
       PROVE  AfterInv(w)'
    BY <1>2, <1>3, <1>4, <1>8, <1>9, <1>10, <1>11, <1>12
    DEF RwIInv, RwTypeOK, MutexInv, AfterInv, Nobody, WriterAnnounces, Moves, OneIf,
        RwWriterPcs, Announced
<1> QED BY <1>5, <1>6, <1>13, <1>14, <1>15, <1>16 DEF RwIInv

(* Those who left meanwhile have been deducted already. *)
LEMMA WriterCountsOK ==
    ASSUME RwIInv, NEW t \in RwThreads, WriterCounts(t)
    PROVE  RwIInv'
<1> DEFINE b == IF departing_readers + rwSeen # 0 THEN "await_readers" ELSE "writing"
<1>1. RwGoto(t, "count", b) /\ b \in Places
    BY DEF WriterCounts, Places, RwReaderPcs, RwWriterPcs
<1>2. Moves(t, "count", b)
    BY <1>1, GotoMoves DEF RwIInv
<1>3. /\ Count(rwPc', Active) = Count(rwPc, Active)
      /\ Count(rwPc', Present) = Count(rwPc, Present)
      /\ Count(rwPc', Held) = Count(rwPc, Held)
      /\ Count(rwPc', Turning) = Count(rwPc, Turning)
      /\ Count(rwPc', LastOut) = Count(rwPc, LastOut)
      /\ Count(rwPc', LastIn) = Count(rwPc, LastIn)
    BY <1>2 DEF Moves, Tally, OneIf, Active, Present, Held, Turning, LastOut, LastIn
<1>4. /\ Count(rwPc, Active) \in Nat /\ Count(rwPc, Present) \in Nat /\ Count(rwPc, Held) \in Nat
      /\ Count(rwPc, Turning) \in Nat /\ Count(rwPc, LastOut) \in Nat /\ Count(rwPc, LastIn) \in Nat
    BY CountFacts
<1>5. RwTypeOK'
    BY <1>2, WeightAboveReaders DEF RwIInv, RwTypeOK, WriterCounts, Moves, Places
<1>6. MutexInv'
    BY <1>2 DEF RwIInv, MutexInv, Nobody, WriterCounts, Moves, RwWriterPcs
<1>8. Count(rwPc, LastOut) = 0 /\ writer_wait = FALSE
    BY <1>2, CountFacts DEF RwIInv, MutexInv, RestInv, BeforeInv, Nobody, Moves, RwWriterPcs, LastOut
<1>9. rwSeen + departing_readers = Count(rwPc, Present)
    BY <1>2 DEF RwIInv, BeforeInv, Moves
<1>10. Nobody(rwPc, {"last_out"})
    BY <1>2 DEF RwIInv, BeforeInv, Moves
<1>11. Count(rwPc, Present) = 0 => Nobody(rwPc, {"reading", "departing"})
    BY CountFacts DEF Present
<1>12. StateInv'
    BY <1>2, <1>3, <1>4, <1>8, <1>9, <1>10, <1>11
    DEF RwIInv, StateInv, Nobody, WriterCounts, Moves, OneIf, Announced
<1>13. RestInv'
    BY <1>2, <1>8, <1>9, <1>10, <1>11
    DEF RwIInv, MutexInv, RestInv, Nobody, WriterCounts, Moves, RwWriterPcs, Announced,
        Handing
<1>14. ASSUME NEW w \in RwThreads
       PROVE  BeforeInv(w)'
    BY <1>2, <1>3, <1>4, <1>8, <1>9, <1>10, <1>11
    DEF RwIInv, RwTypeOK, MutexInv, BeforeInv, Nobody, WriterCounts, Moves, OneIf,
        RwWriterPcs, Announced
<1>15. ASSUME NEW w \in RwThreads
       PROVE  AfterInv(w)'
    BY <1>2, <1>3, <1>4, <1>8, <1>9, <1>10, <1>11
    DEF RwIInv, RwTypeOK, MutexInv, AfterInv, Nobody, WriterCounts, Moves, OneIf,
        RwWriterPcs, Announced
<1> QED BY <1>5, <1>6, <1>12, <1>13, <1>14, <1>15 DEF RwIInv

(* The event means that no reader is left. *)
LEMMA WriterWakesOK ==
    ASSUME RwIInv, NEW t \in RwThreads, WriterWakes(t)
    PROVE  RwIInv'
<1> DEFINE b == "writing"
<1>1. RwGoto(t, "await_readers", b) /\ b \in Places
    BY DEF WriterWakes, Places, RwReaderPcs, RwWriterPcs
<1>2. Moves(t, "await_readers", b)
    BY <1>1, GotoMoves DEF RwIInv
<1>3. /\ Count(rwPc', Active) = Count(rwPc, Active)
      /\ Count(rwPc', Present) = Count(rwPc, Present)
      /\ Count(rwPc', Held) = Count(rwPc, Held)
      /\ Count(rwPc', Turning) = Count(rwPc, Turning)
      /\ Count(rwPc', LastOut) = Count(rwPc, LastOut)
      /\ Count(rwPc', LastIn) = Count(rwPc, LastIn)
    BY <1>2 DEF Moves, Tally, OneIf, Active, Present, Held, Turning, LastOut, LastIn
<1>4. /\ Count(rwPc, Active) \in Nat /\ Count(rwPc, Present) \in Nat /\ Count(rwPc, Held) \in Nat
      /\ Count(rwPc, Turning) \in Nat /\ Count(rwPc, LastOut) \in Nat /\ Count(rwPc, LastIn) \in Nat
    BY CountFacts
<1>5. RwTypeOK'
    BY <1>2, WeightAboveReaders DEF RwIInv, RwTypeOK, WriterWakes, Moves, Places
<1>6. MutexInv'
    BY <1>2 DEF RwIInv, MutexInv, Nobody, WriterWakes, Moves, RwWriterPcs
<1>8. departing_readers = 0 /\ Count(rwPc, Present) = 0 /\ Count(rwPc, LastOut) = 0
    BY <1>2, CountFacts DEF RwIInv, RwTypeOK, BeforeInv, WriterWakes, Moves, OneIf
<1>9. Nobody(rwPc, {"reading", "departing", "last_out"})
    BY <1>8, CountFacts DEF Nobody, Present, LastOut
<1>10. StateInv'
    BY <1>2, <1>3, <1>4, <1>8, <1>9 DEF RwIInv, StateInv, Nobody, WriterWakes, Moves, Announced
<1>11. RestInv'
    BY <1>2, <1>8, <1>9
    DEF RwIInv, MutexInv, RestInv, Nobody, WriterWakes, Moves, RwWriterPcs, Announced,
        Handing
<1>12. ASSUME NEW w \in RwThreads
       PROVE  BeforeInv(w)'
    BY <1>2, <1>3, <1>4, <1>8, <1>9
    DEF RwIInv, RwTypeOK, MutexInv, BeforeInv, Nobody, WriterWakes, Moves, OneIf,
        RwWriterPcs, Announced
<1>13. ASSUME NEW w \in RwThreads
       PROVE  AfterInv(w)'
    BY <1>2, <1>3, <1>4, <1>8, <1>9
    DEF RwIInv, RwTypeOK, MutexInv, AfterInv, Nobody, WriterWakes, Moves, OneIf,
        RwWriterPcs, Announced
<1> QED BY <1>5, <1>6, <1>10, <1>11, <1>12, <1>13 DEF RwIInv

(* Whoever is counted now is held back, waiting for the turn. *)
LEMMA WriteUnlockOK ==
    ASSUME RwIInv, NEW t \in RwThreads, WriteUnlock(t)
    PROVE  RwIInv'
<1> DEFINE b == IF state + WRITER_WEIGHT # 0 THEN "hand_over" ELSE "release"
<1>1. RwGoto(t, "writing", b) /\ b \in Places
    BY DEF WriteUnlock, Places, RwReaderPcs, RwWriterPcs
<1>2. Moves(t, "writing", b)
    BY <1>1, GotoMoves DEF RwIInv
<1>3. /\ Count(rwPc', Active) = Count(rwPc, Active)
      /\ Count(rwPc', Present) = Count(rwPc, Present)
      /\ Count(rwPc', Held) = Count(rwPc, Held)
      /\ Count(rwPc', Turning) = Count(rwPc, Turning)
      /\ Count(rwPc', LastOut) = Count(rwPc, LastOut)
      /\ Count(rwPc', LastIn) = Count(rwPc, LastIn)
    BY <1>2 DEF Moves, Tally, OneIf, Active, Present, Held, Turning, LastOut, LastIn
<1>4. /\ Count(rwPc, Active) \in Nat /\ Count(rwPc, Present) \in Nat /\ Count(rwPc, Held) \in Nat
      /\ Count(rwPc, Turning) \in Nat /\ Count(rwPc, LastOut) \in Nat /\ Count(rwPc, LastIn) \in Nat
    BY CountFacts
<1>5. RwTypeOK'
    BY <1>2, WeightAboveReaders DEF RwIInv, RwTypeOK, WriteUnlock, Moves, Places
<1>6. MutexInv'
    BY <1>2 DEF RwIInv, MutexInv, Nobody, WriteUnlock, Moves, RwWriterPcs
<1>7. state < 0 <=> ~Nobody(rwPc, Announced)
    BY StateSign
<1>8. ~Nobody(rwPc, Announced)
    BY <1>2 DEF Nobody, Moves, Announced
<1>9. Nobody(rwPc', Announced) /\ Nobody(rwPc, Handing \cup {"clear"})
    BY <1>2 DEF RwIInv, MutexInv, Nobody, Moves, RwWriterPcs, Announced, Handing
<1>10. state' = Count(rwPc, Active)
    BY <1>8, CountFacts, WeightAboveReaders DEF RwIInv, StateInv, WriteUnlock
<1>11. Nobody(rwPc, {"reading", "departing", "last_out", "let_in", "last_in"})
    BY <1>2, <1>9 DEF RwIInv, BeforeInv, RestInv, Nobody, Moves, Handing
<1>12. Count(rwPc, Active) = Count(rwPc, Held)
    <2>1. \A u \in RwThreads : rwPc[u] \in Active <=> rwPc[u] \in Held
        BY <1>11 DEF Nobody, Active, Held
    <2> QED BY <2>1, CountSame
<1>13. Count(rwPc, Held) = 0 => Nobody(rwPc, {"await_turn"})
    BY CountFacts DEF Held
<1>14. StateInv'
    BY <1>2, <1>3, <1>4, <1>8, <1>9, <1>10, <1>11, <1>12, <1>13, WeightAboveReaders
    DEF RwIInv, StateInv, Nobody, WriteUnlock, Moves, OneIf, Announced
<1>15. RestInv'
    BY <1>2, <1>3, <1>4, <1>7, <1>8, <1>9, <1>10, <1>11, <1>12, <1>13
    DEF RwIInv, RwTypeOK, MutexInv, StateInv, RestInv, BeforeInv, AfterInv, Nobody,
        WriteUnlock, Moves, OneIf, RwWriterPcs, Announced, Handing
<1>16. ASSUME NEW w \in RwThreads
       PROVE  BeforeInv(w)'
    BY <1>2, <1>3, <1>4, <1>8, <1>9, <1>10, <1>11, <1>12, <1>13
    DEF RwIInv, RwTypeOK, MutexInv, BeforeInv, Nobody, WriteUnlock, Moves, OneIf,
        RwWriterPcs, Announced
<1>17. ASSUME NEW w \in RwThreads
       PROVE  AfterInv(w)'
    BY <1>2, <1>3, <1>4, <1>8, <1>9, <1>10, <1>11, <1>12, <1>13
    DEF RwIInv, RwTypeOK, MutexInv, AfterInv, Nobody, WriteUnlock, Moves, OneIf,
        RwWriterPcs, Announced
<1> QED BY <1>5, <1>6, <1>14, <1>15, <1>16, <1>17 DEF RwIInv

(* waiting_readers becomes the number of readers held back. *)
LEMMA WriterHandsOverOK ==
    ASSUME RwIInv, NEW t \in RwThreads, WriterHandsOver(t)
    PROVE  RwIInv'
<1> DEFINE b == "wake_readers"
<1>1. RwGoto(t, "hand_over", b) /\ b \in Places
    BY DEF WriterHandsOver, Places, RwReaderPcs, RwWriterPcs
<1>2. Moves(t, "hand_over", b)
    BY <1>1, GotoMoves DEF RwIInv
<1>3. /\ Count(rwPc', Active) = Count(rwPc, Active)
      /\ Count(rwPc', Present) = Count(rwPc, Present)
      /\ Count(rwPc', Held) = Count(rwPc, Held)
      /\ Count(rwPc', Turning) = Count(rwPc, Turning)
      /\ Count(rwPc', LastOut) = Count(rwPc, LastOut)
      /\ Count(rwPc', LastIn) = Count(rwPc, LastIn)
    BY <1>2 DEF Moves, Tally, OneIf, Active, Present, Held, Turning, LastOut, LastIn
<1>4. /\ Count(rwPc, Active) \in Nat /\ Count(rwPc, Present) \in Nat /\ Count(rwPc, Held) \in Nat
      /\ Count(rwPc, Turning) \in Nat /\ Count(rwPc, LastOut) \in Nat /\ Count(rwPc, LastIn) \in Nat
    BY CountFacts
<1>5. RwTypeOK'
    BY <1>2, WeightAboveReaders DEF RwIInv, RwTypeOK, WriterHandsOver, Moves, Places
<1>6. MutexInv'
    BY <1>2 DEF RwIInv, MutexInv, Nobody, WriterHandsOver, Moves, RwWriterPcs
<1>7. state < 0 <=> ~Nobody(rwPc, Announced)
    BY StateSign
<1>8. StateInv'
    BY <1>2, <1>3, <1>4, <1>7 DEF RwIInv, StateInv, Nobody, WriterHandsOver, Moves, Announced
<1>9. RestInv'
    BY <1>2, <1>7
    DEF RwIInv, MutexInv, RestInv, Nobody, WriterHandsOver, Moves, RwWriterPcs, Announced,
        Handing
<1>10. ASSUME NEW w \in RwThreads
       PROVE  BeforeInv(w)'
    BY <1>2, <1>3, <1>4, <1>7
    DEF RwIInv, RwTypeOK, MutexInv, BeforeInv, Nobody, WriterHandsOver, Moves, OneIf,
        RwWriterPcs, Announced
<1>11. ASSUME NEW w \in RwThreads
       PROVE  AfterInv(w)'
    BY <1>2, <1>3, <1>4, <1>7
    DEF RwIInv, RwTypeOK, MutexInv, AfterInv, Nobody, WriterHandsOver, Moves, OneIf,
        RwWriterPcs, Announced
<1> QED BY <1>5, <1>6, <1>8, <1>9, <1>10, <1>11 DEF RwIInv

(* All of them have yet to leave the wait. *)
LEMMA WriterWakesReadersOK ==
    ASSUME RwIInv, NEW t \in RwThreads, WriterWakesReaders(t)
    PROVE  RwIInv'
<1> DEFINE b == "await_turnout"
<1>1. RwGoto(t, "wake_readers", b) /\ b \in Places
    BY DEF WriterWakesReaders, Places, RwReaderPcs, RwWriterPcs
<1>2. Moves(t, "wake_readers", b)
    BY <1>1, GotoMoves DEF RwIInv
<1>3. /\ Count(rwPc', Active) = Count(rwPc, Active)
      /\ Count(rwPc', Present) = Count(rwPc, Present)
      /\ Count(rwPc', Held) = Count(rwPc, Held)
      /\ Count(rwPc', Turning) = Count(rwPc, Turning)
      /\ Count(rwPc', LastOut) = Count(rwPc, LastOut)
      /\ Count(rwPc', LastIn) = Count(rwPc, LastIn)
    BY <1>2 DEF Moves, Tally, OneIf, Active, Present, Held, Turning, LastOut, LastIn
<1>4. /\ Count(rwPc, Active) \in Nat /\ Count(rwPc, Present) \in Nat /\ Count(rwPc, Held) \in Nat
      /\ Count(rwPc, Turning) \in Nat /\ Count(rwPc, LastOut) \in Nat /\ Count(rwPc, LastIn) \in Nat
    BY CountFacts
<1>5. RwTypeOK'
    BY <1>2, WeightAboveReaders DEF RwIInv, RwTypeOK, WriterWakesReaders, Moves, Places
<1>6. MutexInv'
    BY <1>2 DEF RwIInv, MutexInv, Nobody, WriterWakesReaders, Moves, RwWriterPcs
<1>8. Nobody(rwPc, {"await_turnout", "let_in", "last_in"}) /\ writer_wait = FALSE
    BY <1>2 DEF RwIInv, MutexInv, RestInv, Nobody, Moves, RwWriterPcs
<1>9. Count(rwPc, Turning) = Count(rwPc, Held)
    <2>1. \A u \in RwThreads : rwPc[u] \in Turning <=> rwPc[u] \in Held
        BY <1>8 DEF Nobody, Turning, Held
    <2> QED BY <2>1, CountSame
<1>10. Count(rwPc, LastIn) = 0
    BY <1>8, CountFacts DEF Nobody, LastIn
<1>11. StateInv'
    BY <1>2, <1>3, <1>4, <1>8, <1>9, <1>10
    DEF RwIInv, StateInv, Nobody, WriterWakesReaders, Moves, Announced
<1>12. RestInv'
    BY <1>2, <1>8, <1>9, <1>10
    DEF RwIInv, MutexInv, RestInv, Nobody, WriterWakesReaders, Moves, RwWriterPcs,
        Announced, Handing
<1>13. ASSUME NEW w \in RwThreads
       PROVE  BeforeInv(w)'
    BY <1>2, <1>3, <1>4, <1>8, <1>9, <1>10
    DEF RwIInv, RwTypeOK, MutexInv, BeforeInv, Nobody, WriterWakesReaders, Moves, OneIf,
        RwWriterPcs, Announced
<1>14. ASSUME NEW w \in RwThreads
       PROVE  AfterInv(w)'
    BY <1>2, <1>3, <1>4, <1>8, <1>9, <1>10
    DEF RwIInv, RwTypeOK, MutexInv, AfterInv, Nobody, WriterWakesReaders, Moves, OneIf,
        RwWriterPcs, Announced
<1> QED BY <1>5, <1>6, <1>11, <1>12, <1>13, <1>14 DEF RwIInv

(* The event means that all of them have left the wait. *)
LEMMA ReadersTurnedOutOK ==
    ASSUME RwIInv, NEW t \in RwThreads, ReadersTurnedOut(t)
    PROVE  RwIInv'
<1> DEFINE b == "clear"
<1>1. RwGoto(t, "await_turnout", b) /\ b \in Places
    BY DEF ReadersTurnedOut, Places, RwReaderPcs, RwWriterPcs
<1>2. Moves(t, "await_turnout", b)
    BY <1>1, GotoMoves DEF RwIInv
<1>3. /\ Count(rwPc', Active) = Count(rwPc, Active)
      /\ Count(rwPc', Present) = Count(rwPc, Present)
      /\ Count(rwPc', Held) = Count(rwPc, Held)
      /\ Count(rwPc', Turning) = Count(rwPc, Turning)
      /\ Count(rwPc', LastOut) = Count(rwPc, LastOut)
      /\ Count(rwPc', LastIn) = Count(rwPc, LastIn)
    BY <1>2 DEF Moves, Tally, OneIf, Active, Present, Held, Turning, LastOut, LastIn
<1>4. /\ Count(rwPc, Active) \in Nat /\ Count(rwPc, Present) \in Nat /\ Count(rwPc, Held) \in Nat
      /\ Count(rwPc, Turning) \in Nat /\ Count(rwPc, LastOut) \in Nat /\ Count(rwPc, LastIn) \in Nat
    BY CountFacts
<1>5. RwTypeOK'
    BY <1>2, WeightAboveReaders DEF RwIInv, RwTypeOK, ReadersTurnedOut, Moves, Places
<1>6. MutexInv'
    BY <1>2 DEF RwIInv, MutexInv, Nobody, ReadersTurnedOut, Moves, RwWriterPcs
<1>8. waiting_readers = 0 /\ Count(rwPc, Turning) = 0 /\ Count(rwPc, LastIn) = 0
    BY <1>2, CountFacts DEF RwIInv, RwTypeOK, AfterInv, ReadersTurnedOut, Moves, OneIf
<1>9. Nobody(rwPc, {"await_turn", "let_in", "last_in"})
    BY <1>8, CountFacts DEF Nobody, Turning, LastIn
<1>10. StateInv'
    BY <1>2, <1>3, <1>4, <1>8, <1>9
    DEF RwIInv, StateInv, Nobody, ReadersTurnedOut, Moves, Announced
<1>11. RestInv'
    BY <1>2, <1>8, <1>9
    DEF RwIInv, MutexInv, RestInv, Nobody, ReadersTurnedOut, Moves, RwWriterPcs, Announced,
        Handing
<1>12. ASSUME NEW w \in RwThreads
       PROVE  BeforeInv(w)'
    BY <1>2, <1>3, <1>4, <1>8, <1>9
    DEF RwIInv, RwTypeOK, MutexInv, BeforeInv, Nobody, ReadersTurnedOut, Moves, OneIf,
        RwWriterPcs, Announced
<1>13. ASSUME NEW w \in RwThreads
       PROVE  AfterInv(w)'
    BY <1>2, <1>3, <1>4, <1>8, <1>9
    DEF RwIInv, RwTypeOK, MutexInv, AfterInv, Nobody, ReadersTurnedOut, Moves, OneIf,
        RwWriterPcs, Announced
<1> QED BY <1>5, <1>6, <1>10, <1>11, <1>12, <1>13 DEF RwIInv

(* The event is cleared while no reader waits for it. *)
LEMMA WriterClearsOK ==
    ASSUME RwIInv, NEW t \in RwThreads, WriterClears(t)
    PROVE  RwIInv'
<1> DEFINE b == "release"
<1>1. RwGoto(t, "clear", b) /\ b \in Places
    BY DEF WriterClears, Places, RwReaderPcs, RwWriterPcs
<1>2. Moves(t, "clear", b)
    BY <1>1, GotoMoves DEF RwIInv
<1>3. /\ Count(rwPc', Active) = Count(rwPc, Active)
      /\ Count(rwPc', Present) = Count(rwPc, Present)
      /\ Count(rwPc', Held) = Count(rwPc, Held)
      /\ Count(rwPc', Turning) = Count(rwPc, Turning)
      /\ Count(rwPc', LastOut) = Count(rwPc, LastOut)
      /\ Count(rwPc', LastIn) = Count(rwPc, LastIn)
    BY <1>2 DEF Moves, Tally, OneIf, Active, Present, Held, Turning, LastOut, LastIn
<1>4. /\ Count(rwPc, Active) \in Nat /\ Count(rwPc, Present) \in Nat /\ Count(rwPc, Held) \in Nat
      /\ Count(rwPc, Turning) \in Nat /\ Count(rwPc, LastOut) \in Nat /\ Count(rwPc, LastIn) \in Nat
    BY CountFacts
<1>5. RwTypeOK'
    BY <1>2, WeightAboveReaders DEF RwIInv, RwTypeOK, WriterClears, Moves, Places
<1>6. MutexInv'
    BY <1>2 DEF RwIInv, MutexInv, Nobody, WriterClears, Moves, RwWriterPcs
<1>7. state < 0 <=> ~Nobody(rwPc, Announced)
    BY StateSign
<1>8. StateInv'
    BY <1>2, <1>3, <1>4, <1>7 DEF RwIInv, StateInv, Nobody, WriterClears, Moves, Announced
<1>9. RestInv'
    BY <1>2, <1>7
    DEF RwIInv, MutexInv, RestInv, Nobody, WriterClears, Moves, RwWriterPcs, Announced,
        Handing
<1>10. ASSUME NEW w \in RwThreads
       PROVE  BeforeInv(w)'
    BY <1>2, <1>3, <1>4, <1>7
    DEF RwIInv, RwTypeOK, MutexInv, BeforeInv, Nobody, WriterClears, Moves, OneIf,
        RwWriterPcs, Announced
<1>11. ASSUME NEW w \in RwThreads
       PROVE  AfterInv(w)'
    BY <1>2, <1>3, <1>4, <1>7
    DEF RwIInv, RwTypeOK, MutexInv, AfterInv, Nobody, WriterClears, Moves, OneIf,
        RwWriterPcs, Announced
<1> QED BY <1>5, <1>6, <1>8, <1>9, <1>10, <1>11 DEF RwIInv

(* Giving back the mutex changes no count. *)
LEMMA WritersUnlockOK ==
    ASSUME RwIInv, NEW t \in RwThreads, WritersUnlock(t)
    PROVE  RwIInv'
<1> DEFINE b == "idle"
<1>1. RwGoto(t, "release", b) /\ b \in Places
    BY DEF WritersUnlock, Places, RwReaderPcs, RwWriterPcs
<1>2. Moves(t, "release", b)
    BY <1>1, GotoMoves DEF RwIInv
<1>3. /\ Count(rwPc', Active) = Count(rwPc, Active)
      /\ Count(rwPc', Present) = Count(rwPc, Present)
      /\ Count(rwPc', Held) = Count(rwPc, Held)
      /\ Count(rwPc', Turning) = Count(rwPc, Turning)
      /\ Count(rwPc', LastOut) = Count(rwPc, LastOut)
      /\ Count(rwPc', LastIn) = Count(rwPc, LastIn)
    BY <1>2 DEF Moves, Tally, OneIf, Active, Present, Held, Turning, LastOut, LastIn
<1>4. /\ Count(rwPc, Active) \in Nat /\ Count(rwPc, Present) \in Nat /\ Count(rwPc, Held) \in Nat
      /\ Count(rwPc, Turning) \in Nat /\ Count(rwPc, LastOut) \in Nat /\ Count(rwPc, LastIn) \in Nat
    BY CountFacts
<1>5. RwTypeOK'
    BY <1>2, WeightAboveReaders DEF RwIInv, RwTypeOK, WritersUnlock, Moves, Places
<1>6. MutexInv'
    BY <1>2 DEF RwIInv, MutexInv, Nobody, WritersUnlock, Moves, RwWriterPcs
<1>7. state < 0 <=> ~Nobody(rwPc, Announced)
    BY StateSign
<1>8. StateInv'
    BY <1>2, <1>3, <1>4, <1>7 DEF RwIInv, StateInv, Nobody, WritersUnlock, Moves, Announced
<1>9. RestInv'
    BY <1>2, <1>7
    DEF RwIInv, MutexInv, RestInv, Nobody, WritersUnlock, Moves, RwWriterPcs, Announced,
        Handing
<1>10. ASSUME NEW w \in RwThreads
       PROVE  BeforeInv(w)'
    BY <1>2, <1>3, <1>4, <1>7
    DEF RwIInv, RwTypeOK, MutexInv, BeforeInv, Nobody, WritersUnlock, Moves, OneIf,
        RwWriterPcs, Announced
<1>11. ASSUME NEW w \in RwThreads
       PROVE  AfterInv(w)'
    BY <1>2, <1>3, <1>4, <1>7
    DEF RwIInv, RwTypeOK, MutexInv, AfterInv, Nobody, WritersUnlock, Moves, OneIf,
        RwWriterPcs, Announced
<1> QED BY <1>5, <1>6, <1>8, <1>9, <1>10, <1>11 DEF RwIInv

-----------------------------------------------------------------------------
(* Every step of the lock keeps the invariant. *)
LEMMA RwStepOK == RwIInv /\ [RwNext]_rwVars => RwIInv'
<1> SUFFICES ASSUME RwIInv, [RwNext]_rwVars
             PROVE  RwIInv'
    OBVIOUS
<1>1. CASE UNCHANGED rwVars
    BY <1>1 DEF rwVars, RwIInv, RwTypeOK, MutexInv, StateInv, RestInv, BeforeInv, AfterInv
<1>2. CASE RwNext
    BY <1>2, ReadLockOK, ReaderWakesOK, ReaderCheckedInOK, LastInSignalsOK,
       ReadUnlockOK, ReaderDepartsOK, LastOutSignalsOK, WritersLockOK,
       WriterAnnouncesOK, WriterCountsOK, WriterWakesOK, WriteUnlockOK,
       WriterHandsOverOK, WriterWakesReadersOK, ReadersTurnedOutOK, WriterClearsOK,
       WritersUnlockOK
    DEF RwNext, RwProceed
<1> QED BY <1>1, <1>2

(* Nobody is anywhere at the start. *)
LEMMA RwInitOK == RwInit => RwIInv
<1> SUFFICES ASSUME RwInit PROVE RwIInv
    OBVIOUS
<1>1. \A u \in RwThreads : rwPc[u] = "idle"
    BY DEF RwInit
<1>2. RwTypeOK
    <2>1. rwPc \in [RwThreads -> {"idle"} \cup RwReaderPcs \cup RwWriterPcs]
        BY DEF RwInit
    <2>2. {readers_wait, writer_wait, writers_lock} \subseteq BOOLEAN
        BY DEF RwInit
    <2> QED BY <2>1, <2>2 DEF RwInit, RwTypeOK
<1>3. Nobody(rwPc, Active) /\ Nobody(rwPc, Announced) /\ Nobody(rwPc, RwWriterPcs)
    BY <1>1 DEF Nobody, Active, Announced, RwWriterPcs
<1>4. Count(rwPc, Active) = 0
    BY <1>3, CountFacts
<1>5. MutexInv /\ StateInv
    BY <1>1, <1>3, <1>4 DEF MutexInv, StateInv, RwInit, RwWriterPcs
<1>6. RestInv
    BY <1>1 DEF RestInv, RwInit, Nobody
<1>7. \A w \in RwThreads : BeforeInv(w) /\ AfterInv(w)
    BY <1>1 DEF BeforeInv, AfterInv
<1> QED BY <1>2, <1>5, <1>6, <1>7 DEF RwIInv

(* The invariant of the lock. *)
LEMMA RwInvariant == RwSpec => []RwIInv
<1> QED BY RwInitOK, RwStepOK, PTL DEF RwSpec

(* The counters, events and places of the lock keep their types: state and *)
(* departing_readers may be below 0, but a thread is at one of the places  *)
(* of the code.                                                            *)
THEOREM RwTypeCorrect == RwSpec => []RwTypeOK
<1>1. RwIInv => RwTypeOK
    BY DEF RwIInv
<1> QED BY <1>1, RwInvariant, PTL

(* For any finite number of threads below WRITER_WEIGHT: a writer is alone *)
(* in its critical section, the asserts of libos_rwlock.c hold, and a lock *)
(* that nobody uses is as rwlock_destroy wants it.                         *)
THEOREM RwSafeHolds == RwSpec => []RwSafe
<1>1. RwIInv => RwExclusion
    <2> SUFFICES ASSUME RwIInv, NEW w \in RwThreads, rwPc[w] = "writing",
                        NEW u \in RwThreads, u # w
                 PROVE  rwPc[u] \notin {"writing", "reading", "let_in", "last_in"}
        BY DEF RwExclusion, RwAt
    <2>1. rwPc[u] \notin RwWriterPcs /\ Nobody(rwPc, {"await_turnout"})
        BY DEF RwIInv, MutexInv, Nobody, RwWriterPcs
    <2>2. rwPc[u] \notin {"reading", "let_in", "last_in"}
        BY <2>1 DEF RwIInv, RestInv, BeforeInv, Nobody
    <2> QED BY <2>1, <2>2 DEF RwWriterPcs
<1>2. RwIInv => RwAsserts
    <2> SUFFICES ASSUME RwIInv PROVE RwAsserts
        OBVIOUS
    <2>1. RwAt("count") # {} => departing_readers + rwSeen >= 0
        BY CountFacts DEF RwAt, RwIInv, RwTypeOK, BeforeInv
    <2>2. RwAt("writing") # {} => state + WRITER_WEIGHT >= 0
        BY CountFacts, WeightAboveReaders DEF RwAt, RwIInv, StateInv, Nobody, Announced
    <2>3. ASSUME RwAt("idle") = RwThreads
          PROVE  /\ state = 0 /\ departing_readers = 0 /\ waiting_readers = 0
                 /\ ~readers_wait /\ ~writer_wait
        <3>1. \A u \in RwThreads : rwPc[u] = "idle"
            BY <2>3 DEF RwAt
        <3>2. Nobody(rwPc, Active) /\ Nobody(rwPc, Announced)
            BY <3>1 DEF Nobody, Active, Announced
        <3>3. state = 0
            BY <3>2, CountFacts DEF RwIInv, StateInv
        <3>4. departing_readers = 0 /\ waiting_readers = 0
            BY <3>1, <3>2 DEF RwIInv, RestInv, Nobody
        <3>5. readers_wait = FALSE /\ writer_wait = FALSE
            BY <3>1 DEF RwIInv, RestInv, Nobody
        <3> QED BY <3>3, <3>4, <3>5
    <2> QED BY <2>1, <2>2, <2>3 DEF RwAsserts
<1>3. RwIInv => RwSafe
    BY <1>1, <1>2 DEF RwSafe
<1> QED BY <1>3, RwInvariant, PTL

-----------------------------------------------------------------------------
(* Futexes: the invariant                                                  *)

FuPlaces == {"idle", "find", "create", "find_again", "lock", "work", "dequeue", "relock",
             "sleep", "leave", "wake_queue"}

(* The calls of the scripts, and a wake-up at a thread's end. *)
FuLegal == {call \in [op : {"wait", "wake", "wake_op", "requeue", "store", "clear_tid"},
                      u1 : FuAddrs, u2 : FuAddrs, n1 : Nat, n2 : Nat,
                      val : Words, bits : SUBSET Nat, cmp : BOOLEAN, timed : BOOLEAN] :
              /\ call.u1 \in FuJoinAddrs => call.op \in {"wait", "wake", "clear_tid"}
              /\ call.op \in {"requeue", "wake_op"} => call.u2 \notin FuJoinAddrs
              /\ call.op = "requeue" => call.u1 # call.u2}

FuRec == [pc : FuPlaces, call : FuLegal \cup {[op |-> "none"]},
          stage : {"work", "dequeue", "leave"},
          f1 : Futexes \cup {NoFutex}, f2 : Futexes \cup {NoFutex},
          tmp : Futexes \cup {NoFutex}, waiter : Futexes \cup {NoFutex},
          ret : {"OK", "EAGAIN", "EINTR", "ETIMEDOUT", "ENOSYS", "ERESTARTSYS"},
          dequeue : BOOLEAN, waking : FuThreads \cup {NoOne}]

FuObj == [uaddr : Nat, in_tree : BOOLEAN, waiters : Seq(FuThreads),
          lock : FuThreads \cup {NoOne}, ref : Nat]

(* The programs, the words, and where threads sleep. *)
FuRestOK ==
    /\ sleepsAt \in [FuThreads -> FuAddrs \cup {NoAddr}]
    /\ todo \in [FuThreads -> Seq(FuLegal)]
    /\ word \in [FuAddrs -> Nat \cup Words]

FuTypeOK ==
    /\ futex \in [Futexes -> FuObj]
    /\ fu \in [FuThreads -> FuRec]
    /\ treeLock \in FuThreads \cup {NoOne}
    /\ FuRestOK

(* Where a thread is waiting, or has not yet said that it no longer does. *)
Waits(me) == \/ me.pc \in {"sleep", "leave"}
             \/ me.pc \in {"relock", "lock"} /\ me.stage = "leave"

(* The local variables of a thread, by the place where it is. *)
FuShape(me) ==
    /\ me.pc = "idle" => me = FuIdle
    /\ me.pc # "idle" => me.call \in FuLegal /\ me.call.op \in {"wait", "wake", "wake_op", "requeue"}
    /\ me.pc \in {"find", "create", "find_again", "work", "sleep"} => me.stage = "work"
    /\ me.pc \in {"dequeue", "wake_queue"} => me.stage = "dequeue"
    /\ me.pc = "leave" => me.stage = "leave"
    /\ me.pc = "relock" => me.stage \in {"dequeue", "leave"}
    /\ me.pc \in {"find", "create", "find_again"} => me.f1 = NoFutex /\ me.f2 = NoFutex
    /\ me.pc \in {"find", "create"} => me.tmp = NoFutex
    /\ me.pc = "find_again" => me.tmp # NoFutex
    /\ me.pc \in {"create", "find_again"} => me.call.op \in {"wait", "requeue"}
    /\ Waits(me) <=> me.waiter # NoFutex
    /\ Waits(me) => me.call.op = "wait"
    /\ Waits(me) /\ me.pc \in {"sleep", "relock"} => me.f1 = NoFutex
    /\ Waits(me) /\ me.pc \in {"lock", "leave"} => me.f1 = me.waiter
    /\ me.f2 # NoFutex => me.call.op \in {"wake_op", "requeue"}
    /\ me.pc \in {"lock", "work"} /\ me.stage = "work" =>
          /\ me.call.op \in {"wait", "wake"} => me.f1 # NoFutex
          /\ me.call.op = "requeue" => me.f2 # NoFutex

(* The locks thread t has. *)
HasLocks(t, me, F, tree) ==
    /\ me.pc \in {"lock", "dequeue"} => tree = t
    /\ me.pc = "work" /\ me.call.op = "requeue" => tree = t
    /\ me.pc \in {"work", "dequeue", "leave"} =>
          /\ me.f1 # NoFutex => F[me.f1].lock = t
          /\ me.f2 # NoFutex => F[me.f2].lock = t

(* What a thread has found stays in the tree until it has done its work;   *)
(* what it has made is its own.                                            *)
HasFound(me, F) ==
    /\ me.pc \in {"lock", "work"} /\ me.stage = "work" =>
          /\ me.f1 # NoFutex => F[me.f1].in_tree /\ F[me.f1].uaddr = me.call.u1
          /\ me.f2 # NoFutex => F[me.f2].in_tree /\ F[me.f2].uaddr = me.call.u2
    /\ me.pc = "find_again" =>
          /\ F[me.tmp].ref = 1 /\ ~F[me.tmp].in_tree
          /\ F[me.tmp].uaddr = IF me.call.op = "requeue" THEN me.call.u2 ELSE me.call.u1

(* The tree has one futex for an address. *)
OneEach(F) == \A o, p \in Futexes :
    F[o].in_tree /\ F[p].in_tree /\ F[o].uaddr = F[p].uaddr => o = p

(* The waiters on the lists are the threads that wait to be woken. *)
ListsAgree(F, f, sleeps) ==
    /\ \A o \in Futexes : \A i, j \in DOMAIN F[o].waiters :
          F[o].waiters[i] = F[o].waiters[j] => i = j
    /\ \A o \in Futexes : \A i \in DOMAIN F[o].waiters :
          /\ f[F[o].waiters[i]].waiter = o
          /\ F[o].in_tree
          /\ sleeps[F[o].waiters[i]] = F[o].uaddr
    /\ \A x \in FuThreads : sleeps[x] # NoAddr =>
          /\ f[x].waiter # NoFutex
          /\ \E i \in DOMAIN F[f[x].waiter].waiters : F[f[x].waiter].waiters[i] = x

(* How often the threads refer to futex o. *)
Refs(f, o) == Cardinality({t \in FuThreads : f[t].f1 = o})
            + Cardinality({t \in FuThreads : f[t].f2 = o})
            + Cardinality({t \in FuThreads : f[t].tmp = o})
            + Cardinality({t \in FuThreads : f[t].waiter = o})

InTree(F, o) == IF F[o].in_tree THEN 1 ELSE 0

(* Every object counts its references, n[o] of which are of threads. *)
Balanced(F, n) == \A o \in Futexes : F[o].ref = InTree(F, o) + n[o]

RefsOf(f) == [o \in Futexes |-> Refs(f, o)]

FuInv ==
    /\ FuTypeOK
    /\ \A t \in FuThreads : /\ FuShape(fu[t])
                            /\ HasLocks(t, fu[t], futex, treeLock)
                            /\ HasFound(fu[t], futex)
    /\ OneEach(futex)
    /\ ListsAgree(futex, fu, sleepsAt)
    /\ Balanced(futex, RefsOf(fu))

-----------------------------------------------------------------------------
(* Induction, and the loop over a list of waiters                          *)

(* A set of natural numbers that is not empty has a least member. *)
LEMMA LeastMember ==
    ASSUME NEW T, T \subseteq Nat, T # {}
    PROVE  \E x \in T : \A y \in T : ~(y < x)
  <1> DEFINE R == OpToRel(<, Nat)
  <1>1. IsWellFoundedOn(R, Nat)
    BY NatLessThanWellFounded
  <1>2. \E x \in T : \A y \in T : ~(<<y, x>> \in R)
    <2> HIDE DEF R
    <2> QED BY <1>1, WFMin
  <1>3. \A x, y \in T : y < x => <<y, x>> \in R
    BY DEF OpToRel
  <1> QED BY <1>2, <1>3

(* Induction, for a property given by the set of the numbers that have it. *)
LEMMA NatSetInduction ==
    ASSUME NEW T, 0 \in T, \A n \in Nat : n \in T => n+1 \in T
    PROVE  \A n \in Nat : n \in T
  <1> DEFINE B == {n \in Nat : n \notin T}
  <1> SUFFICES ASSUME B # {} PROVE FALSE
    OBVIOUS
  <1>1. B \subseteq Nat
    OBVIOUS
  <1>2. PICK x \in B : \A y \in B : ~(y < x)
    <2> HIDE DEF B
    <2> QED BY <1>1, LeastMember
  <1>3. x # 0 /\ x \in Nat
    OBVIOUS
  <1>4. x - 1 \in Nat /\ x - 1 < x
    BY <1>3
  <1>5. x - 1 \in T
    BY <1>2, <1>4
  <1> QED BY <1>3, <1>4, <1>5

(* The loop that takes waiters off a list, turn by turn. *)
LEMMA KeptTurns ==
    ASSUME NEW q, NEW S, Len(q) \in Nat
    PROVE  /\ Kept(q, S)[0] = <<>>
           /\ \A n \in 1..Len(q) : Kept(q, S)[n] = (IF q[n] \in S THEN Kept(q, S)[n-1] ELSE Append(Kept(q, S)[n-1], q[n]))
  <1> DEFINE F(m, f) == [n \in 0..m |-> IF n = 0 THEN <<>> ELSE (IF q[n] \in S THEN f[n-1] ELSE Append(f[n-1], q[n]))]
             T == {m \in Nat : \E f : f = F(m, f)}
  <1>1. 0 \in T
    <2> DEFINE f == [n \in 0..0 |-> <<>>]
    <2>1. f = F(0, f)
      OBVIOUS
    <2> QED BY <2>1
  <1>2. ASSUME NEW m \in Nat, m \in T PROVE m+1 \in T
    <2>1. PICK f : f = F(m, f)
      BY <1>2
    <2> DEFINE g == [n \in 0..(m+1) |-> IF n = m+1 THEN (IF q[m+1] \in S THEN f[m] ELSE Append(f[m], q[m+1])) ELSE f[n]]
    <2>2. ASSUME NEW n \in 0..(m+1) PROVE g[n] = F(m+1, g)[n]
      <3>1. CASE n = m+1
        <4>1. m \in 0..(m+1) /\ m # m+1 /\ m+1 # 0 /\ (m+1)-1 = m
          OBVIOUS
        <4>2. g[m] = f[m]
          BY <4>1
        <4> QED BY <3>1, <4>1, <4>2
      <3>2. CASE n = 0
        <4>1. f[0] = <<>> /\ 0 # m+1
          BY <2>1
        <4> QED BY <3>2, <4>1
      <3>3. CASE n # m+1 /\ n # 0
        <4>1. n \in 0..m /\ n-1 \in 0..(m+1) /\ n-1 # m+1
          BY <3>3
        <4>2. g[n] = f[n] /\ g[n-1] = f[n-1]
          BY <4>1, <3>3
        <4>3. f[n] = (IF q[n] \in S THEN f[n-1] ELSE Append(f[n-1], q[n]))
          BY <2>1, <4>1, <3>3
        <4> QED BY <4>2, <4>3, <3>3
      <3> QED BY <3>1, <3>2, <3>3
    <2>3. g = F(m+1, g)
      BY <2>2
    <2> HIDE DEF g
    <2> QED BY <2>3
  <1>3. \A m \in Nat : m \in T
    <2> HIDE DEF T
    <2> QED BY <1>1, <1>2, NatSetInduction
  <1>4. \E f : f = F(Len(q), f)
    BY <1>3
  <1>5. Kept(q, S) = CHOOSE f : f = F(Len(q), f)
    BY Zenon DEF Kept
  <1>6. Kept(q, S) = F(Len(q), Kept(q, S))
    <2> HIDE DEF F
    <2> QED BY <1>4, <1>5, Zenon
  <1> HIDE DEF T
  <1>7. ASSUME NEW f, f = F(Len(q), f)
        PROVE  f[0] = <<>> /\ \A n \in 1..Len(q) : f[n] = (IF q[n] \in S THEN f[n-1] ELSE Append(f[n-1], q[n]))
    <2>1. f[0] = F(Len(q), f)[0] /\ \A n \in 1..Len(q) : f[n] = F(Len(q), f)[n]
      <3> HIDE DEF F
      <3> QED BY <1>7
    <2>2. 0 \in 0..Len(q) /\ \A n \in 1..Len(q) : n \in 0..Len(q) /\ n # 0
      OBVIOUS
    <2>3. F(Len(q), f)[0] = <<>>
      BY <2>2
    <2>4. \A n \in 1..Len(q) : F(Len(q), f)[n] = (IF q[n] \in S THEN f[n-1] ELSE Append(f[n-1], q[n]))
      BY <2>2
    <2> HIDE DEF F
    <2> QED BY <2>1, <2>3, <2>4
  <1> QED BY <1>6, <1>7

OneToOne(q) == \A i, j \in DOMAIN q : q[i] = q[j] => i = j

(* r has the first n members of q that are not in S. *)
IsKept(r, q, S, n) ==
    /\ \A i \in DOMAIN r : r[i] \notin S /\ \E a \in 1..n : r[i] = q[a]
    /\ \A a \in 1..n : q[a] \notin S => \E i \in DOMAIN r : r[i] = q[a]
    /\ OneToOne(r)

(* The next member of the list is kept. *)
LEMMA KeptStep ==
    ASSUME NEW T, NEW q \in Seq(T), OneToOne(q), NEW S, NEW n \in Nat, n+1 <= Len(q),
           NEW r \in Seq(T), IsKept(r, q, S, n), q[n+1] \notin S
    PROVE  Append(r, q[n+1]) \in Seq(T) /\ IsKept(Append(r, q[n+1]), q, S, n+1)
  <1> DEFINE t == Append(r, q[n+1])
             m == Len(r) + 1
  <1>1. /\ \A a \in 1..n : a \in 1..(n+1) /\ a \in DOMAIN q /\ a # n+1
        /\ \A a \in 1..(n+1) : a = n+1 \/ a \in 1..n
        /\ n+1 \in DOMAIN q /\ n+1 \in 1..(n+1) /\ q[n+1] \in T
    OBVIOUS
  <1>2. /\ t \in Seq(T) /\ DOMAIN t = 1..m /\ t[m] = q[n+1] /\ DOMAIN r = 1..(m-1) /\ m \in Nat
        /\ \A i \in DOMAIN r : t[i] = r[i] /\ i \in DOMAIN t
    BY <1>1, AppendProperties
  <1>3. m \in DOMAIN t
    BY <1>2
  <1> HIDE DEF t, m
  <1>4. \A i \in DOMAIN t : i = m \/ i \in DOMAIN r
    BY <1>2
  <1>5. \A i \in DOMAIN r : t[i] # q[n+1]
    BY <1>1, <1>2 DEF IsKept, OneToOne
  <1>6. ASSUME NEW i \in DOMAIN t PROVE t[i] \notin S /\ \E a \in 1..(n+1) : t[i] = q[a]
    BY <1>1, <1>2, <1>4 DEF IsKept
  <1>7. ASSUME NEW a \in 1..(n+1), q[a] \notin S PROVE \E i \in DOMAIN t : t[i] = q[a]
    <2>1. CASE a = n+1
      BY <1>2, <1>3, <2>1
    <2>2. CASE a \in 1..n
      <3>1. PICK i \in DOMAIN r : r[i] = q[a]
        BY <1>7, <2>2 DEF IsKept
      <3> QED BY <1>2, <3>1
    <2> QED BY <1>1, <2>1, <2>2
  <1>8. OneToOne(t)
    BY <1>2, <1>4, <1>5 DEF IsKept, OneToOne
  <1>9. IsKept(t, q, S, n+1)
    BY <1>6, <1>7, <1>8 DEF IsKept
  <1> QED BY <1>2, <1>9 DEF t

(* What remains of a list of any length. *)
LEMMA KeptFacts ==
    ASSUME NEW T, NEW q \in Seq(T), OneToOne(q), NEW S
    PROVE  Kept(q, S)[Len(q)] \in Seq(T) /\ IsKept(Kept(q, S)[Len(q)], q, S, Len(q))
  <1> DEFINE k == Kept(q, S)
             G(n) == k[n] \in Seq(T) /\ IsKept(k[n], q, S, n)
             N == {n \in Nat : n <= Len(q) => G(n)}
  <1>1. Len(q) \in Nat
    OBVIOUS
  <1>2. /\ k[0] = <<>>
        /\ \A n \in 1..Len(q) : k[n] = IF q[n] \in S THEN k[n-1] ELSE Append(k[n-1], q[n])
    BY <1>1, KeptTurns
  <1> HIDE DEF k
  <1>3. 0 \in N
    <2>1. <<>> \in Seq(T) /\ DOMAIN <<>> = {} /\ 1..0 = {}
      OBVIOUS
    <2>2. IsKept(<<>>, q, S, 0)
      BY <2>1 DEF IsKept, OneToOne
    <2> QED BY <1>2, <2>1, <2>2
  <1>4. ASSUME NEW n \in Nat, n \in N PROVE n+1 \in N
    <2> SUFFICES ASSUME n+1 <= Len(q) PROVE G(n+1)
      <3> HIDE DEF G
      <3> QED OBVIOUS
    <2>1. G(n) /\ n+1 \in 1..Len(q) /\ (n+1)-1 = n
      <3> HIDE DEF G
      <3> QED BY <1>1, <1>4
    <2>2. k[n+1] = IF q[n+1] \in S THEN k[n] ELSE Append(k[n], q[n+1])
      BY <1>2, <2>1
    <2>3. CASE q[n+1] \notin S
      BY <2>1, <2>2, <2>3, KeptStep
    <2>4. CASE q[n+1] \in S
      <3>1. /\ \A a \in 1..n : a \in 1..(n+1)
            /\ \A a \in 1..(n+1) : a = n+1 \/ a \in 1..n
        OBVIOUS
      <3>2. IsKept(k[n], q, S, n+1)
        BY <2>1, <2>4, <3>1 DEF IsKept
      <3> QED BY <2>1, <2>2, <2>4, <3>2
    <2> QED BY <2>3, <2>4
  <1>5. \A n \in Nat : n \in N
    <2> HIDE DEF N
    <2> QED BY <1>3, <1>4, NatSetInduction
  <1>6. G(Len(q))
    <2> HIDE DEF G
    <2> QED BY <1>1, <1>5
  <1> QED BY <1>6 DEF k

-----------------------------------------------------------------------------
(* How often the threads refer to a futex                                  *)


(* How often one thread, with local variables me, refers to futex o. *)
Uses(me, o) == OneIf(me.f1 = o) + OneIf(me.f2 = o) + OneIf(me.tmp = o) + OneIf(me.waiter = o)

(* Two sets of threads that differ at most in t. *)
LEMMA CountOne ==
    ASSUME NEW A, NEW B, A \subseteq FuThreads, B \subseteq FuThreads, NEW t \in FuThreads,
           \A x \in FuThreads : x # t => (x \in A <=> x \in B)
    PROVE  /\ Cardinality(A) \in Nat /\ Cardinality(B) \in Nat
           /\ Cardinality(B) = Cardinality(A) - OneIf(t \in A) + OneIf(t \in B)
  <1>1. IsFiniteSet(A) /\ IsFiniteSet(B)
    BY FutexAssumption, FS_Subset
  <1>2. Cardinality(A) \in Nat /\ Cardinality(B) \in Nat
    BY <1>1, FS_CardinalityType
  <1> DEFINE C == A \ {t}
  <1>3. /\ IsFiniteSet(C) /\ Cardinality(C) \in Nat
        /\ Cardinality(C) = Cardinality(A) - OneIf(t \in A)
        /\ Cardinality(C) = Cardinality(B) - OneIf(t \in B)
    <2>1. C = B \ {t}
      OBVIOUS
    <2>2. IsFiniteSet(C) /\ Cardinality(C) \in Nat
      BY <1>1, FS_Subset, FS_CardinalityType
    <2>3. Cardinality(A \ {t}) = Cardinality(A) - OneIf(t \in A)
      <3>1. CASE t \in A
        BY <1>1, <3>1, FS_RemoveElement DEF OneIf
      <3>2. CASE t \notin A
        <4>1. A \ {t} = A
          BY <3>2
        <4>2. OneIf(t \in A) = 0
          BY <3>2 DEF OneIf
        <4>3. Cardinality(A \ {t}) = Cardinality(A)
          BY <4>1, Zenon
        <4> QED BY <1>2, <4>2, <4>3
      <3> QED BY <3>1, <3>2
    <2>4. Cardinality(B \ {t}) = Cardinality(B) - OneIf(t \in B)
      <3>1. CASE t \in B
        BY <1>1, <3>1, FS_RemoveElement DEF OneIf
      <3>2. CASE t \notin B
        <4>1. B \ {t} = B
          BY <3>2
        <4>2. OneIf(t \in B) = 0
          BY <3>2 DEF OneIf
        <4>3. Cardinality(B \ {t}) = Cardinality(B)
          BY <4>1, Zenon
        <4> QED BY <1>2, <4>2, <4>3
      <3> QED BY <3>1, <3>2
    <2> QED BY <2>1, <2>2, <2>3, <2>4
  <1> QED BY <1>2, <1>3 DEF OneIf

(* The references are those of one thread and those of the others. *)
LEMMA RefsUpdate ==
    ASSUME NEW f \in [FuThreads -> FuRec], NEW g \in [FuThreads -> FuRec],
           NEW t \in FuThreads, NEW o \in Futexes,
           \A x \in FuThreads : x # t => f[x] = g[x]
    PROVE  /\ Refs(f, o) \in Nat /\ Refs(g, o) \in Nat
           /\ Refs(g, o) = Refs(f, o) - Uses(f[t], o) + Uses(g[t], o)
  <1> DEFINE F1(h) == {x \in FuThreads : h[x].f1 = o}
             F2(h) == {x \in FuThreads : h[x].f2 = o}
             F3(h) == {x \in FuThreads : h[x].tmp = o}
             F4(h) == {x \in FuThreads : h[x].waiter = o}
             C(A, B, b, c) == /\ Cardinality(A) \in Nat /\ Cardinality(B) \in Nat
                              /\ Cardinality(B) = Cardinality(A) - OneIf(b) + OneIf(c)
  <1>1. C(F1(f), F1(g), t \in F1(f), t \in F1(g))
    BY CountOne
  <1>2. C(F2(f), F2(g), t \in F2(f), t \in F2(g))
    BY CountOne
  <1>3. C(F3(f), F3(g), t \in F3(f), t \in F3(g))
    BY CountOne
  <1>4. C(F4(f), F4(g), t \in F4(f), t \in F4(g))
    BY CountOne
  <1>5. \A h : Refs(h, o) = Cardinality(F1(h)) + Cardinality(F2(h)) + Cardinality(F3(h)) + Cardinality(F4(h))
    BY DEF Refs
  <1>6. \A h : Uses(h[t], o) = OneIf(t \in F1(h)) + OneIf(t \in F2(h)) + OneIf(t \in F3(h)) + OneIf(t \in F4(h))
    BY DEF Uses, OneIf
  <1>7. \A b : OneIf(b) \in 0..1
    BY DEF OneIf
  <1> HIDE DEF F1, F2, F3, F4
  <1>8. Refs(f, o) \in Nat /\ Refs(g, o) \in Nat
    BY <1>1, <1>2, <1>3, <1>4, <1>5
  <1>9. Refs(g, o) = Refs(f, o) - Uses(f[t], o) + Uses(g[t], o)
    <2> DEFINE a1 == OneIf(t \in F1(f))   b1 == OneIf(t \in F1(g))
               a2 == OneIf(t \in F2(f))   b2 == OneIf(t \in F2(g))
               a3 == OneIf(t \in F3(f))   b3 == OneIf(t \in F3(g))
               a4 == OneIf(t \in F4(f))   b4 == OneIf(t \in F4(g))
    <2>1. /\ a1 \in 0..1 /\ a2 \in 0..1 /\ a3 \in 0..1 /\ a4 \in 0..1
          /\ b1 \in 0..1 /\ b2 \in 0..1 /\ b3 \in 0..1 /\ b4 \in 0..1
      BY <1>7
    <2> HIDE DEF a1, a2, a3, a4, b1, b2, b3, b4
    <2>2. Uses(f[t], o) = a1 + a2 + a3 + a4 /\ Uses(g[t], o) = b1 + b2 + b3 + b4
      BY <1>6 DEF a1, a2, a3, a4, b1, b2, b3, b4
    <2>3. /\ Cardinality(F1(g)) = Cardinality(F1(f)) - a1 + b1
          /\ Cardinality(F2(g)) = Cardinality(F2(f)) - a2 + b2
          /\ Cardinality(F3(g)) = Cardinality(F3(f)) - a3 + b3
          /\ Cardinality(F4(g)) = Cardinality(F4(f)) - a4 + b4
      BY <1>1, <1>2, <1>3, <1>4 DEF a1, a2, a3, a4, b1, b2, b3, b4
    <2> QED BY <1>1, <1>2, <1>3, <1>4, <1>5, <2>1, <2>2, <2>3
  <1> QED BY <1>8, <1>9

Holds(me, o) == o \in {me.f1, me.f2, me.tmp, me.waiter}

LEMMA UsesType ==
    ASSUME NEW me, NEW o
    PROVE  Uses(me, o) \in 0..4 /\ (Holds(me, o) <=> Uses(me, o) >= 1)
  <1>1. \A b : OneIf(b) \in 0..1 /\ (b => OneIf(b) = 1) /\ (~b => OneIf(b) = 0)
    BY DEF OneIf
  <1>2. OneIf(me.f1 = o) \in 0..1 /\ OneIf(me.f2 = o) \in 0..1 /\ OneIf(me.tmp = o) \in 0..1
        /\ OneIf(me.waiter = o) \in 0..1
    BY <1>1
  <1> QED BY <1>2 DEF Uses, Holds, OneIf

(* A futex has a reference for each thread that holds it. *)
LEMMA RefsHeld ==
    ASSUME NEW f \in [FuThreads -> FuRec], NEW t \in FuThreads, NEW o \in Futexes
    PROVE  /\ Refs(f, o) \in Nat /\ Uses(f[t], o) \in Nat /\ Uses(f[t], o) <= Refs(f, o)
           /\ \A x \in FuThreads : x # t /\ Holds(f[x], o) => Refs(f, o) >= Uses(f[t], o) + 1
  <1> DEFINE g == [f EXCEPT ![t] = FuIdle]
  <1>a. FuIdle \in FuRec
    BY DEF FuIdle, FuRec, FuPlaces
  <1>0. o # NoFutex /\ Uses(FuIdle, o) = 0
    <2>1. o # NoFutex /\ ~Holds(FuIdle, o)
      BY FutexAssumption DEF FuIdle, Holds
    <2> QED BY <2>1, UsesType
  <1>1. g \in [FuThreads -> FuRec] /\ g[t] = FuIdle /\ \A x \in FuThreads : x # t => f[x] = g[x]
    BY <1>a
  <1> HIDE DEF g
  <1>2. /\ Refs(f, o) \in Nat /\ Refs(g, o) \in Nat
        /\ Refs(g, o) = Refs(f, o) - Uses(f[t], o) + Uses(g[t], o)
    BY <1>1, RefsUpdate
  <1>3. Uses(f[t], o) \in Nat
    BY UsesType
  <1>4. ASSUME NEW x \in FuThreads, x # t, Holds(f[x], o) PROVE Refs(g, o) >= 1
    <2> DEFINE h == [y \in FuThreads |-> IF y = x THEN FuIdle ELSE g[y]]
    <2>1. h \in [FuThreads -> FuRec] /\ h[x] = FuIdle /\ \A y \in FuThreads : y # x => g[y] = h[y]
      BY <1>a, <1>1
    <2> HIDE DEF h
    <2>2. Refs(h, o) \in Nat /\ Refs(h, o) = Refs(g, o) - Uses(g[x], o) + Uses(h[x], o)
      BY <1>1, <2>1, RefsUpdate
    <2>3. Uses(g[x], o) \in 0..4 /\ Uses(g[x], o) >= 1
      BY <1>1, <1>4, UsesType
    <2> QED BY <1>0, <1>2, <2>1, <2>2, <2>3
  <1> QED BY <1>0, <1>1, <1>2, <1>3, <1>4

-----------------------------------------------------------------------------
(* What the functions of the futex objects do                              *)

Plus(n, o)  == [p \in Futexes |-> n[p] + OneIf(p = o)]
Minus(n, o) == [p \in Futexes |-> n[p] - OneIf(p = o)]

LEMMA PlusType ==
    ASSUME NEW n \in [Futexes -> Nat], NEW o \in Futexes \cup {NoFutex}
    PROVE  /\ Plus(n, o) \in [Futexes -> Nat]
           /\ (o # NoFutex => n[o] >= 1) => Minus(n, o) \in [Futexes -> Nat]
  <1>1. NoFutex \notin Futexes
    BY FutexAssumption
  <1>2. \A p \in Futexes : n[p] + OneIf(p = o) \in Nat
    BY DEF OneIf
  <1>3. ASSUME o # NoFutex => n[o] >= 1
        PROVE  \A p \in Futexes : n[p] - OneIf(p = o) \in Nat
    BY <1>1, <1>3 DEF OneIf
  <1> QED BY <1>2, <1>3 DEF Plus, Minus

(* A futex object with other values in its fields. *)
LEMMA ObjectTypes ==
    ASSUME NEW e \in FuObj
    PROVE  /\ e.uaddr \in Nat /\ e.in_tree \in BOOLEAN /\ e.waiters \in Seq(FuThreads)
           /\ e.lock \in FuThreads \cup {NoOne} /\ e.ref \in Nat
           /\ \A b \in BOOLEAN : [e EXCEPT !.in_tree = b] \in FuObj
           /\ \A k \in Nat : [e EXCEPT !.ref = k] \in FuObj
           /\ \A q \in Seq(FuThreads) : [e EXCEPT !.waiters = q] \in FuObj
           /\ \A t \in FuThreads \cup {NoOne} : [e EXCEPT !.lock = t] \in FuObj
           /\ Freed \in FuObj
  <1>1. Freed \in FuObj
    BY DEF Freed, FuObj, NoAddr, NoOne
  <1> QED BY <1>1 DEF FuObj

(* Nothing but the number of references of p differs. *)
Same(F, G, p) ==
    /\ G[p].uaddr = F[p].uaddr /\ G[p].in_tree = F[p].in_tree
    /\ G[p].waiters = F[p].waiters /\ G[p].lock = F[p].lock

LEMMA GetObject ==
    ASSUME NEW F \in [Futexes -> FuObj], NEW n \in [Futexes -> Nat], Balanced(F, n),
           NEW o \in Futexes \cup {NoFutex}, NEW G, G = GetFutex(F, o)
    PROVE  /\ G \in [Futexes -> FuObj] /\ Plus(n, o) \in [Futexes -> Nat]
           /\ Balanced(G, Plus(n, o))
           /\ \A p \in Futexes : Same(F, G, p) /\ (p # o => G[p] = F[p])
  <1>0. NoFutex \notin Futexes /\ Plus(n, o) \in [Futexes -> Nat]
    BY FutexAssumption, PlusType
  <1>1. CASE o = NoFutex
    BY <1>0, <1>1 DEF GetFutex, Balanced, Plus, Same, OneIf
  <1>2. CASE o # NoFutex
    <2>1. G = [F EXCEPT ![o].ref = @ + 1]
      BY <1>2 DEF GetFutex
    <2>2. G \in [Futexes -> FuObj] /\ G[o].ref = F[o].ref + 1
      <3>1. F[o] \in FuObj /\ F[o].ref \in Nat /\ F[o].ref + 1 \in Nat
        BY <1>2, ObjectTypes
      <3>2. [F[o] EXCEPT !.ref = @ + 1] \in FuObj
        BY <3>1, ObjectTypes
      <3>3. G = [F EXCEPT ![o] = [F[o] EXCEPT !.ref = @ + 1]]
        BY <2>1
      <3> QED BY <1>2, <3>1, <3>2, <3>3 DEF FuObj
    <2>3. \A p \in Futexes : Same(F, G, p) /\ (p # o => G[p] = F[p])
      BY <1>2, <2>1 DEF FuObj, Same
    <2>4. Balanced(G, Plus(n, o))
      BY <1>2, <2>2, <2>3 DEF Balanced, Plus, Same, OneIf, InTree, FuObj
    <2> QED BY <1>0, <2>2, <2>3, <2>4
  <1> QED BY <1>1, <1>2

LEMMA PutObject ==
    ASSUME NEW F \in [Futexes -> FuObj], NEW n \in [Futexes -> Nat], Balanced(F, n),
           NEW o \in Futexes \cup {NoFutex}, o # NoFutex => n[o] >= 1,
           NEW G, G = PutFutex(F, o)
    PROVE  /\ G \in [Futexes -> FuObj] /\ Minus(n, o) \in [Futexes -> Nat]
           /\ Balanced(G, Minus(n, o))
           /\ \A p \in Futexes : /\ G[p].in_tree = F[p].in_tree
                                 /\ p # o => G[p] = F[p]
                                 /\ Minus(n, o)[p] # 0 => Same(F, G, p)
                                 /\ Same(F, G, p) \/ G[p] = Freed
  <1>0. NoFutex \notin Futexes /\ Minus(n, o) \in [Futexes -> Nat]
    BY FutexAssumption, PlusType
  <1>1. CASE o = NoFutex
    BY <1>0, <1>1 DEF PutFutex, Balanced, Minus, Same, OneIf
  <1>2. CASE o # NoFutex /\ F[o].ref = 1
    <2>1. G = [F EXCEPT ![o] = Freed]
      BY <1>2 DEF PutFutex
    <2>2. Freed \in FuObj /\ Freed.ref = 0 /\ Freed.in_tree = FALSE
      BY <1>2, ObjectTypes DEF Freed
    <2>3. ~F[o].in_tree /\ n[o] = 1
      BY <1>2 DEF Balanced, InTree
    <2>4. G \in [Futexes -> FuObj] /\ G[o] = Freed /\ \A p \in Futexes : p # o => G[p] = F[p]
      BY <1>2, <2>1, <2>2
    <2>5. Balanced(G, Minus(n, o))
      BY <1>2, <2>2, <2>3, <2>4 DEF Balanced, Minus, OneIf, InTree, FuObj
    <2>6. F[o].in_tree = FALSE
      BY <1>2, <2>3 DEF FuObj
    <2>7. \A p \in Futexes : p # o => Same(F, G, p)
      BY <2>4 DEF Same
    <2>8. Minus(n, o)[o] = 0
      BY <1>2, <2>3 DEF Minus, OneIf
    <2> QED BY <1>0, <2>2, <2>4, <2>5, <2>6, <2>7, <2>8
  <1>3. CASE o # NoFutex /\ F[o].ref # 1
    <2>1. G = [F EXCEPT ![o].ref = @ - 1]
      BY <1>3 DEF PutFutex
    <2>2. F[o].ref \in Nat /\ F[o].ref > 1
      BY <1>3 DEF Balanced, InTree, FuObj
    <2>3. G \in [Futexes -> FuObj] /\ G[o].ref = F[o].ref - 1
      <3>1. F[o] \in FuObj /\ F[o].ref - 1 \in Nat
        BY <1>3, <2>2
      <3>2. [F[o] EXCEPT !.ref = @ - 1] \in FuObj
        BY <3>1, ObjectTypes
      <3>3. G = [F EXCEPT ![o] = [F[o] EXCEPT !.ref = @ - 1]]
        BY <2>1
      <3> QED BY <1>3, <3>1, <3>2, <3>3 DEF FuObj
    <2>4. \A p \in Futexes : Same(F, G, p) /\ (p # o => G[p] = F[p])
      BY <1>3, <2>1 DEF FuObj, Same
    <2>5. Balanced(G, Minus(n, o))
      BY <1>3, <2>3, <2>4 DEF Balanced, Minus, Same, OneIf, InTree, FuObj
    <2> QED BY <1>0, <2>3, <2>4, <2>5 DEF Same
  <1> QED BY <1>1, <1>2, <1>3

(* Object o of F is in the tree of G. *)
Filed(F, G, o) ==
    /\ \A p \in Futexes : p # o => G[p] = F[p]
    /\ G[o].in_tree /\ G[o].uaddr = F[o].uaddr /\ G[o].waiters = F[o].waiters
    /\ G[o].lock = F[o].lock

LEMMA EnqueueObject ==
    ASSUME NEW F \in [Futexes -> FuObj], NEW n \in [Futexes -> Nat], Balanced(F, n),
           NEW o \in Futexes, ~F[o].in_tree, NEW G, G = EnqueueFutex(F, o)
    PROVE  G \in [Futexes -> FuObj] /\ Balanced(G, n) /\ Filed(F, G, o)
  <1>0. o # NoFutex
    BY FutexAssumption
  <1> DEFINE E == [F EXCEPT ![o].in_tree = TRUE]
  <1>1. /\ E \in [Futexes -> FuObj] /\ \A p \in Futexes : p # o => E[p] = F[p]
        /\ E[o].in_tree = TRUE /\ E[o].uaddr = F[o].uaddr /\ E[o].waiters = F[o].waiters
        /\ E[o].lock = F[o].lock /\ E[o].ref = F[o].ref
    BY DEF FuObj
  <1>2. /\ G \in [Futexes -> FuObj] /\ \A p \in Futexes : p # o => G[p] = F[p]
        /\ G[o].in_tree = TRUE /\ G[o].uaddr = F[o].uaddr /\ G[o].waiters = F[o].waiters
        /\ G[o].lock = F[o].lock /\ G[o].ref = F[o].ref + 1
    <2>1. G = [E EXCEPT ![o].ref = @ + 1]
      BY <1>0 DEF EnqueueFutex, GetFutex
    <2> HIDE DEF E
    <2>2. E[o] \in FuObj /\ E[o].ref \in Nat /\ E[o].ref + 1 \in Nat
      BY <1>1, ObjectTypes
    <2>3. [E[o] EXCEPT !.ref = @ + 1] \in FuObj
      BY <2>2, ObjectTypes
    <2>4. G = [E EXCEPT ![o] = [E[o] EXCEPT !.ref = @ + 1]]
      BY <2>1
    <2> QED BY <1>1, <2>2, <2>3, <2>4 DEF FuObj
  <1>3. Balanced(G, n)
    <2>1. F[o].ref = n[o] /\ n[o] \in Nat /\ G[o].ref = 1 + n[o]
      BY <1>2 DEF Balanced, InTree
    <2>2. G[o].ref = InTree(G, o) + n[o]
      BY <1>2, <2>1 DEF InTree
    <2>3. \A p \in Futexes : p # o => G[p].ref = InTree(G, p) + n[p]
      BY <1>2 DEF Balanced, InTree
    <2> QED BY <2>2, <2>3 DEF Balanced
  <1> QED BY <1>2, <1>3 DEF Filed

LEMMA DequeueObject ==
    ASSUME NEW F \in [Futexes -> FuObj], NEW n \in [Futexes -> Nat], Balanced(F, n),
           NEW o \in Futexes \cup {NoFutex}, o # NoFutex => n[o] >= 1,
           NEW G, G = MaybeDequeue(F, o)
    PROVE  /\ G \in [Futexes -> FuObj] /\ Balanced(G, n)
           /\ \A p \in Futexes : /\ p # o => G[p] = F[p]
                                 /\ G[p].uaddr = F[p].uaddr /\ G[p].waiters = F[p].waiters
                                 /\ G[p].lock = F[p].lock
                                 /\ G[p].in_tree # F[p].in_tree =>
                                       p = o /\ ~G[p].in_tree /\ F[p].waiters = <<>>
  <1>0. NoFutex \notin Futexes
    BY FutexAssumption
  <1>1. CASE ~CheckDequeue(F, o)
    BY <1>1 DEF MaybeDequeue
  <1>2. CASE CheckDequeue(F, o)
    <2> DEFINE E == [F EXCEPT ![o].in_tree = FALSE]
    <2>1. o \in Futexes /\ F[o].waiters = <<>> /\ F[o].in_tree
      BY <1>2 DEF CheckDequeue
    <2>2. /\ E \in [Futexes -> FuObj] /\ \A p \in Futexes : p # o => E[p] = F[p]
          /\ E[o].in_tree = FALSE /\ E[o].uaddr = F[o].uaddr /\ E[o].waiters = F[o].waiters
          /\ E[o].lock = F[o].lock /\ E[o].ref = F[o].ref
      BY <2>1 DEF FuObj
    <2>3. G = PutFutex(E, o)
      BY <1>2 DEF MaybeDequeue
    <2> HIDE DEF E
    <2>4. Plus(n, o) \in [Futexes -> Nat] /\ Plus(n, o)[o] = n[o] + 1
      BY <2>1 DEF Plus, OneIf
    <2>5. Balanced(E, Plus(n, o))
      BY <2>1, <2>2, <2>4 DEF Balanced, InTree, Plus, OneIf, FuObj
    <2>6. Minus(Plus(n, o), o) = n
      BY DEF Plus, Minus, OneIf
    <2> DEFINE m == Plus(n, o)
    <2>7. /\ G \in [Futexes -> FuObj] /\ Balanced(G, Minus(m, o))
          /\ \A p \in Futexes : /\ G[p].in_tree = E[p].in_tree
                                /\ p # o => G[p] = E[p]
                                /\ Minus(m, o)[p] # 0 => Same(E, G, p)
      <3>1. m[o] >= 1 /\ m \in [Futexes -> Nat] /\ Balanced(E, m)
        BY <2>1, <2>4, <2>5
      <3>2. o \in Futexes /\ E \in [Futexes -> FuObj]
        BY <2>1, <2>2
      <3> HIDE DEF m
      <3>3. G \in [Futexes -> FuObj] /\ Balanced(G, Minus(m, o))
        BY <2>3, <3>1, <3>2, PutObject
      <3> QED BY <2>3, <3>1, <3>2, PutObject
    <2>8. G \in [Futexes -> FuObj] /\ Balanced(G, n) /\ \A p \in Futexes : p # o => G[p] = F[p]
      BY <2>2, <2>6, <2>7
    <2>9. Same(E, G, o)
      <3>1. Minus(m, o)[o] >= 1
        BY <1>0, <2>1, <2>6 DEF m
      <3> HIDE DEF m
      <3> QED BY <2>1, <2>7, <3>1
    <2>10. G[o].uaddr = F[o].uaddr /\ G[o].waiters = F[o].waiters /\ G[o].lock = F[o].lock
           /\ ~G[o].in_tree
      BY <2>2, <2>9 DEF Same
    <2> QED BY <2>1, <2>8, <2>10
  <1> QED BY <1>1, <1>2

LEMMA RemoveObject ==
    ASSUME NEW F \in [Futexes -> FuObj], NEW n, Balanced(F, n),
           NEW o \in Futexes, OneToOne(F[o].waiters), NEW S, NEW G, G = RemoveWaiters(F, o, S)
    PROVE  /\ G \in [Futexes -> FuObj] /\ Balanced(G, n)
           /\ \A p \in Futexes : /\ p # o => G[p] = F[p]
                                 /\ G[p].uaddr = F[p].uaddr /\ G[p].in_tree = F[p].in_tree
                                 /\ G[p].lock = F[p].lock /\ G[p].ref = F[p].ref
           /\ IsKept(G[o].waiters, F[o].waiters, S, Len(F[o].waiters))
  <1> DEFINE k == Kept(F[o].waiters, S)[Len(F[o].waiters)]
  <1>1. F[o].waiters \in Seq(FuThreads)
    BY DEF FuObj
  <1>2. k \in Seq(FuThreads) /\ IsKept(k, F[o].waiters, S, Len(F[o].waiters))
    BY <1>1, KeptFacts
  <1>3. G = [F EXCEPT ![o].waiters = k]
    BY DEF RemoveWaiters
  <1> HIDE DEF k
  <1>4. /\ G \in [Futexes -> FuObj] /\ \A p \in Futexes : p # o => G[p] = F[p]
        /\ G[o].in_tree = F[o].in_tree /\ G[o].uaddr = F[o].uaddr /\ G[o].waiters = k
        /\ G[o].lock = F[o].lock /\ G[o].ref = F[o].ref
    BY <1>2, <1>3 DEF FuObj
  <1>5. Balanced(G, n)
    BY <1>4 DEF Balanced, InTree
  <1> QED BY <1>2, <1>4, <1>5

LEMMA UnlockObject ==
    ASSUME NEW F \in [Futexes -> FuObj], NEW n, Balanced(F, n), NEW t, NEW G, G = Unlock(F, t)
    PROVE  /\ G \in [Futexes -> FuObj] /\ Balanced(G, n)
           /\ \A p \in Futexes : /\ G[p].uaddr = F[p].uaddr /\ G[p].in_tree = F[p].in_tree
                                 /\ G[p].waiters = F[p].waiters /\ G[p].ref = F[p].ref
                                 /\ F[p].lock # t => G[p].lock = F[p].lock
  <1>1. ASSUME NEW p \in Futexes
        PROVE  /\ G[p] \in FuObj
               /\ G[p].uaddr = F[p].uaddr /\ G[p].in_tree = F[p].in_tree
               /\ G[p].waiters = F[p].waiters /\ G[p].ref = F[p].ref
               /\ F[p].lock # t => G[p].lock = F[p].lock
    BY DEF Unlock, FuObj
  <1>2. G \in [Futexes -> FuObj]
    BY <1>1 DEF Unlock
  <1>3. Balanced(G, n)
    BY <1>1 DEF Balanced, InTree
  <1> QED BY <1>1, <1>2, <1>3

LEMMA FindObject ==
    ASSUME NEW F \in [Futexes -> FuObj], NEW u, NEW o, o = FindFutex(F, u)
    PROVE  /\ o \in Futexes \cup {NoFutex}
           /\ o # NoFutex => F[o].in_tree /\ F[o].uaddr = u
           /\ o = NoFutex => \A p \in Futexes : ~(F[p].in_tree /\ F[p].uaddr = u)
  <1> DEFINE found == {p \in Futexes : F[p].in_tree /\ F[p].uaddr = u}
  <1>1. o = IF found = {} THEN NoFutex ELSE CHOOSE p \in found : TRUE
    BY Zenon DEF FindFutex
  <1>2. NoFutex \notin Futexes
    BY FutexAssumption
  <1>3. CASE found = {}
    BY <1>1, <1>2, <1>3
  <1>4. CASE found # {}
    <2>1. o \in found
      BY <1>1, <1>4
    <2> QED BY <1>2, <2>1
  <1> QED BY <1>3, <1>4

-----------------------------------------------------------------------------
(* What a step of one thread leaves to the others                          *)

(* A step of t, with the local variables me, changes the objects from F to *)
(* G and the owner of the tree lock from tree to tree2; n2 counts the      *)
(* references of threads behind it.                                        *)
Gentle(t, me, F, G, tree, tree2, n2) ==
    /\ \A p \in Futexes :
          /\ n2[p] # 0 /\ F[p].ref # 0 => G[p].uaddr = F[p].uaddr
          /\ n2[p] # 0 /\ F[p].ref # 0 /\ F[p].lock # t /\ F[p].lock # NoOne => G[p].lock = F[p].lock
          /\ F[p].in_tree /\ ~G[p].in_tree => F[p].lock = t /\ tree = t
          /\ F[p].ref = 1 /\ ~F[p].in_tree /\ ~Holds(me, p) => G[p].ref = 1 /\ ~G[p].in_tree
    /\ tree # t /\ tree # NoOne => tree2 = tree

LEMMA RefsOfUpdate ==
    ASSUME NEW f \in [FuThreads -> FuRec], NEW g \in [FuThreads -> FuRec], NEW t \in FuThreads,
           \A x \in FuThreads : x # t => f[x] = g[x]
    PROVE  /\ RefsOf(f) \in [Futexes -> Nat] /\ RefsOf(g) \in [Futexes -> Nat]
           /\ \A p \in Futexes :
                 /\ Uses(f[t], p) \in 0..4 /\ Uses(g[t], p) \in 0..4
                 /\ Uses(f[t], p) <= RefsOf(f)[p]
                 /\ RefsOf(g)[p] = RefsOf(f)[p] - Uses(f[t], p) + Uses(g[t], p)
  <1>1. ASSUME NEW p \in Futexes
        PROVE  /\ Refs(f, p) \in Nat /\ Refs(g, p) \in Nat
               /\ Refs(g, p) = Refs(f, p) - Uses(f[t], p) + Uses(g[t], p)
    BY RefsUpdate
  <1>2. ASSUME NEW p \in Futexes PROVE Uses(f[t], p) <= Refs(f, p)
    BY RefsHeld
  <1>3. \A p \in Futexes : Uses(f[t], p) \in 0..4 /\ Uses(g[t], p) \in 0..4
    BY UsesType
  <1> QED BY <1>1, <1>2, <1>3 DEF RefsOf

(* Who holds a futex counts. *)
LEMMA RefsOfHeld ==
    ASSUME NEW f \in [FuThreads -> FuRec], NEW x \in FuThreads, NEW p \in Futexes,
           Holds(f[x], p)
    PROVE  /\ RefsOf(f)[p] \in Nat /\ RefsOf(f)[p] >= 1
           /\ \A t \in FuThreads : t # x /\ Holds(f[t], p) => RefsOf(f)[p] >= 2
  <1>1. /\ Refs(f, p) \in Nat /\ Uses(f[x], p) \in Nat /\ Uses(f[x], p) <= Refs(f, p)
        /\ \A t \in FuThreads : t # x /\ Holds(f[t], p) => Refs(f, p) >= Uses(f[x], p) + 1
    BY RefsHeld
  <1>2. Uses(f[x], p) >= 1
    BY UsesType
  <1> QED BY <1>1, <1>2 DEF RefsOf

LEMMA RefsCounted ==
    ASSUME NEW f \in [FuThreads -> FuRec], NEW F \in [Futexes -> FuObj], Balanced(F, RefsOf(f)),
           NEW x \in FuThreads, NEW p \in Futexes, Holds(f[x], p)
    PROVE  F[p].ref # 0
  <1>1. RefsOf(f)[p] \in Nat /\ RefsOf(f)[p] >= 1
    BY RefsOfHeld
  <1>2. F[p].ref = InTree(F, p) + RefsOf(f)[p]
    BY DEF Balanced
  <1> QED BY <1>1, <1>2 DEF InTree

LEMMA OthersKeep ==
    ASSUME NEW f \in [FuThreads -> FuRec], NEW F \in [Futexes -> FuObj], NEW tree,
           Balanced(F, RefsOf(f)),
           NEW g \in [FuThreads -> FuRec], NEW G \in [Futexes -> FuObj], NEW tree2,
           NEW t \in FuThreads, NEW x \in FuThreads, x # t, g[x] = f[x],
           FuShape(f[x]), HasLocks(x, f[x], F, tree), HasFound(f[x], F),
           Gentle(t, f[t], F, G, tree, tree2, RefsOf(g))
    PROVE  FuShape(g[x]) /\ HasLocks(x, g[x], G, tree2) /\ HasFound(g[x], G)
  <1> DEFINE me == f[x]
  <1>1. me \in FuRec /\ x # NoOne /\ NoFutex \notin Futexes
    BY FutexAssumption
  <1>2. /\ me.f1 \in Futexes \cup {NoFutex} /\ me.f2 \in Futexes \cup {NoFutex}
        /\ me.tmp \in Futexes \cup {NoFutex}
    BY <1>1 DEF FuRec
  <1>3. ASSUME NEW p \in Futexes, Holds(me, p) PROVE RefsOf(g)[p] # 0 /\ F[p].ref # 0
    <2>1. RefsOf(g)[p] # 0
      BY <1>3, RefsOfHeld
    <2> QED BY <1>3, <2>1, RefsCounted
  <1>4. ASSUME NEW p \in Futexes, Holds(me, p)
        PROVE  /\ G[p].uaddr = F[p].uaddr
               /\ F[p].lock = x => G[p].lock = x
               /\ F[p].in_tree /\ (F[p].lock = x \/ tree = x) => G[p].in_tree
    BY <1>1, <1>3, <1>4 DEF Gentle
  <1>5. tree = x => tree2 = x
    BY <1>1 DEF Gentle
  <1>6. Holds(me, me.f1) /\ Holds(me, me.f2) /\ Holds(me, me.tmp)
    BY DEF Holds
  <1> HIDE DEF me
  <1>7. HasLocks(x, me, G, tree2)
    BY <1>2, <1>4, <1>5, <1>6 DEF HasLocks, me
  <1>8. /\ me.pc \in {"lock", "work"} /\ me.stage = "work" =>
          /\ me.f1 # NoFutex => G[me.f1].in_tree /\ G[me.f1].uaddr = me.call.u1
          /\ me.f2 # NoFutex => G[me.f2].in_tree /\ G[me.f2].uaddr = me.call.u2
    BY <1>2, <1>4, <1>6 DEF HasFound, HasLocks, me
  <1>9. ASSUME me.pc = "find_again"
        PROVE  /\ G[me.tmp].ref = 1 /\ ~G[me.tmp].in_tree
               /\ G[me.tmp].uaddr = IF me.call.op = "requeue" THEN me.call.u2 ELSE me.call.u1
    <2>1. me.tmp \in Futexes
      BY <1>2, <1>9 DEF FuShape, me
    <2>2. /\ F[me.tmp].ref = 1 /\ ~F[me.tmp].in_tree
          /\ F[me.tmp].uaddr = IF me.call.op = "requeue" THEN me.call.u2 ELSE me.call.u1
      BY <1>9 DEF HasFound, me
    <2>3. RefsOf(f)[me.tmp] = 1
      <3>1. F[me.tmp].ref = InTree(F, me.tmp) + RefsOf(f)[me.tmp]
        BY <2>1 DEF Balanced
      <3>2. InTree(F, me.tmp) = 0
        BY <2>2 DEF InTree
      <3>3. RefsOf(f)[me.tmp] \in Nat
        BY <2>1, <1>6, RefsOfHeld DEF me
      <3> QED BY <2>2, <3>1, <3>2, <3>3
    <2>4. ~Holds(f[t], me.tmp)
      BY <1>6, <2>1, <2>3, RefsOfHeld DEF me
    <2> QED BY <1>4, <1>6, <2>1, <2>2, <2>4 DEF Gentle
  <1> QED BY <1>7, <1>8, <1>9 DEF HasFound, me

SameList(F, G, p) == G[p].uaddr = F[p].uaddr /\ G[p].waiters = F[p].waiters

(* A step that changes no list, and nothing that is in the tree. *)
LEMMA QuietStep ==
    ASSUME NEW f \in [FuThreads -> FuRec], NEW F \in [Futexes -> FuObj], NEW sleeps,
           NEW g \in [FuThreads -> FuRec], NEW G \in [Futexes -> FuObj],
           OneEach(F), ListsAgree(F, f, sleeps), Balanced(F, RefsOf(f)),
           \A x \in FuThreads : g[x].waiter = f[x].waiter,
           \A p \in Futexes : /\ G[p].in_tree = F[p].in_tree
                              /\ SameList(F, G, p) \/ (G[p].waiters = <<>> /\ ~G[p].in_tree)
                              /\ RefsOf(g)[p] # 0 /\ F[p].ref # 0 => SameList(F, G, p)
    PROVE  OneEach(G) /\ ListsAgree(G, g, sleeps)
  <1>1. \A p \in Futexes : G[p].in_tree => F[p].in_tree /\ G[p].uaddr = F[p].uaddr
    BY DEF SameList
  <1>2. OneEach(G)
    BY <1>1 DEF OneEach
  <1>3. \A p \in Futexes : \A i \in DOMAIN G[p].waiters : G[p].waiters = F[p].waiters /\ SameList(F, G, p)
    <2>1. DOMAIN <<>> = {}
      OBVIOUS
    <2> QED BY <2>1 DEF SameList
  <1>4. \A o \in Futexes : \A i, j \in DOMAIN G[o].waiters : G[o].waiters[i] = G[o].waiters[j] => i = j
    BY <1>3 DEF ListsAgree
  <1>5. ASSUME NEW o \in Futexes, NEW i \in DOMAIN G[o].waiters
        PROVE  /\ g[G[o].waiters[i]].waiter = o
               /\ G[o].in_tree
               /\ sleeps[G[o].waiters[i]] = G[o].uaddr
    <2>1. SameList(F, G, o)
      BY <1>3, <1>5
    <2>2. G[o].waiters[i] \in FuThreads
      BY DEF FuObj
    <2> QED BY <2>1, <2>2 DEF SameList, ListsAgree
  <1>6. ASSUME NEW x \in FuThreads, sleeps[x] # NoAddr
        PROVE  /\ g[x].waiter # NoFutex
               /\ \E i \in DOMAIN G[g[x].waiter].waiters : G[g[x].waiter].waiters[i] = x
    <2>1. /\ f[x].waiter # NoFutex /\ g[x].waiter = f[x].waiter
          /\ \E i \in DOMAIN F[f[x].waiter].waiters : F[f[x].waiter].waiters[i] = x
      BY <1>6 DEF ListsAgree
    <2>2. g[x].waiter \in Futexes
      BY <2>1 DEF FuRec
    <2>3. RefsOf(g)[g[x].waiter] # 0 /\ F[g[x].waiter].ref # 0
      BY <2>1, <2>2, RefsOfHeld, RefsCounted DEF Holds
    <2> QED BY <2>1, <2>2, <2>3 DEF SameList
  <1> QED BY <1>2, <1>4, <1>5, <1>6 DEF ListsAgree

-----------------------------------------------------------------------------
(* The invariant behind a step of thread t                                 *)

LEMMA StepInv ==
    ASSUME FuInv, NEW t \in FuThreads,
           futex' \in [Futexes -> FuObj], fu' \in [FuThreads -> FuRec],
           treeLock' \in FuThreads \cup {NoOne}, FuRestOK',
           \A x \in FuThreads : x # t => fu'[x] = fu[x],
           Gentle(t, fu[t], futex, futex', treeLock, treeLock', RefsOf(fu')),
           FuShape(fu'[t]), HasLocks(t, fu'[t], futex', treeLock'), HasFound(fu'[t], futex'),
           OneEach(futex'), ListsAgree(futex', fu', sleepsAt'), Balanced(futex', RefsOf(fu'))
    PROVE  FuInv'
  <1> DEFINE f == fu   F == futex   tree == treeLock   g == fu'   G == futex'   tree2 == treeLock'
  <1>1. /\ f \in [FuThreads -> FuRec] /\ F \in [Futexes -> FuObj] /\ Balanced(F, RefsOf(f))
        /\ \A x \in FuThreads : FuShape(f[x]) /\ HasLocks(x, f[x], F, tree) /\ HasFound(f[x], F)
    BY DEF FuInv, FuTypeOK
  <1>2. /\ g \in [FuThreads -> FuRec] /\ G \in [Futexes -> FuObj]
        /\ \A x \in FuThreads : x # t => g[x] = f[x]
        /\ Gentle(t, f[t], F, G, tree, tree2, RefsOf(g))
    OBVIOUS
  <1>3. ASSUME NEW x \in FuThreads, x # t
        PROVE  FuShape(g[x]) /\ HasLocks(x, g[x], G, tree2) /\ HasFound(g[x], G)
    <2> HIDE DEF f, F, tree, g, G, tree2
    <2> QED BY <1>1, <1>2, <1>3, OthersKeep
  <1> QED BY <1>3 DEF FuInv, FuTypeOK

(* A step that changes no list and nothing that is in the tree. *)
LEMMA QuietInv ==
    ASSUME FuInv, NEW t \in FuThreads,
           futex' \in [Futexes -> FuObj], fu' \in [FuThreads -> FuRec],
           treeLock' \in FuThreads \cup {NoOne}, FuRestOK', sleepsAt' = sleepsAt,
           \A x \in FuThreads : x # t => fu'[x] = fu[x],
           fu'[t].waiter = fu[t].waiter,
           \A p \in Futexes :
              /\ futex'[p].in_tree = futex[p].in_tree
              /\ SameList(futex, futex', p) \/ (futex'[p].waiters = <<>> /\ ~futex'[p].in_tree)
              /\ RefsOf(fu')[p] # 0 /\ futex[p].ref # 0 =>
                    /\ SameList(futex, futex', p)
                    /\ futex[p].lock # t /\ futex[p].lock # NoOne => futex'[p].lock = futex[p].lock
              /\ futex[p].ref = 1 /\ ~futex[p].in_tree /\ ~Holds(fu[t], p) => futex'[p].ref = 1,
           treeLock # t /\ treeLock # NoOne => treeLock' = treeLock,
           Balanced(futex', RefsOf(fu')),
           FuShape(fu'[t]), HasLocks(t, fu'[t], futex', treeLock'), HasFound(fu'[t], futex')
    PROVE  FuInv'
  <1> DEFINE f == fu   F == futex   g == fu'   G == futex'
  <1>1. /\ f \in [FuThreads -> FuRec] /\ F \in [Futexes -> FuObj]
        /\ OneEach(F) /\ ListsAgree(F, f, sleepsAt) /\ Balanced(F, RefsOf(f))
    BY DEF FuInv, FuTypeOK
  <1>2. \A x \in FuThreads : g[x].waiter = f[x].waiter
    OBVIOUS
  <1>3. \A p \in Futexes : /\ G[p].in_tree = F[p].in_tree
                           /\ SameList(F, G, p) \/ (G[p].waiters = <<>> /\ ~G[p].in_tree)
                           /\ RefsOf(g)[p] # 0 /\ F[p].ref # 0 => SameList(F, G, p)
    OBVIOUS
  <1>4. OneEach(G) /\ ListsAgree(G, g, sleepsAt)
    <2>1. g \in [FuThreads -> FuRec] /\ G \in [Futexes -> FuObj]
      OBVIOUS
    <2> HIDE DEF f, F, g, G
    <2> QED BY <1>1, <1>2, <1>3, <2>1, QuietStep
  <1>5. Gentle(t, fu[t], futex, futex', treeLock, treeLock', RefsOf(fu'))
    BY DEF Gentle, SameList
  <1> QED BY <1>4, <1>5, StepInv

(* A step that only changes local variables, and no reference. *)
LEMMA LocalInv ==
    ASSUME FuInv, NEW t \in FuThreads, UNCHANGED <<futex, sleepsAt>>,
           NEW new \in FuRec, fu' = [fu EXCEPT ![t] = new],
           new.f1 = fu[t].f1, new.f2 = fu[t].f2, new.tmp = fu[t].tmp, new.waiter = fu[t].waiter,
           treeLock' = treeLock, FuRestOK',
           FuShape(new), HasLocks(t, new, futex, treeLock), HasFound(new, futex)
    PROVE  FuInv'
  <1>1. /\ fu \in [FuThreads -> FuRec] /\ futex \in [Futexes -> FuObj]
        /\ treeLock \in FuThreads \cup {NoOne} /\ Balanced(futex, RefsOf(fu))
    BY DEF FuInv, FuTypeOK
  <1>2. fu' \in [FuThreads -> FuRec] /\ fu'[t] = new /\ \A x \in FuThreads : x # t => fu'[x] = fu[x]
    BY <1>1
  <1>3. \A p \in Futexes : Uses(new, p) = Uses(fu[t], p)
    BY DEF Uses
  <1>4. Balanced(futex', RefsOf(fu'))
    <2>1. ASSUME NEW f \in [FuThreads -> FuRec], NEW g \in [FuThreads -> FuRec], NEW p \in Futexes,
                 \A x \in FuThreads : x # t => g[x] = f[x], Uses(g[t], p) = Uses(f[t], p)
          PROVE  RefsOf(g)[p] = RefsOf(f)[p]
      BY <2>1, RefsOfUpdate
    <2>2. \A p \in Futexes : RefsOf(fu')[p] = RefsOf(fu)[p]
      BY <1>1, <1>2, <1>3, <2>1, ZenonT(60)
    <2> QED BY <1>1, <2>2 DEF Balanced, InTree
  <1>5. \A p \in Futexes : SameList(futex, futex', p) /\ futex'[p] = futex[p]
    BY DEF SameList
  <1> QED BY <1>1, <1>2, <1>4, <1>5, QuietInv

-----------------------------------------------------------------------------
(* The calls                                                               *)

LEMMA Addresses ==
    /\ FuAddrs \subseteq Nat \ {NoAddr}
    /\ FuScripts \subseteq [FuThreads -> Seq(FuLegal)]
  <1>1. ASSUME NEW script \in FuScripts, NEW t \in FuThreads, NEW i \in DOMAIN script[t]
        PROVE  /\ script[t] \in Seq(FuCalls) /\ script[t][i] \in FuCalls
               /\ script[t][i] \in CallsOf(script)
    <2>1. script \in [FuThreads -> Seq(FuCalls)]
      BY FutexAssumption
    <2>2. script[t] \in Seq(FuCalls) /\ script[t][i] \in FuCalls
      BY <2>1
    <2> QED BY <2>2 DEF CallsOf, Range
  <1>2. ASSUME NEW script \in FuScripts, NEW c \in CallsOf(script)
        PROVE  c \in FuCalls /\ {c.u1, c.u2} \subseteq FuAddrs
    <2>1. c \in FuCalls
      BY <1>1 DEF CallsOf, Range
    <2> QED BY <2>1 DEF FuAddrs
  <1>3. ASSUME NEW u \in FuAddrs PROVE u \in Nat \ {NoAddr}
    <2>1. PICK script \in FuScripts : \E c \in CallsOf(script) : u \in {c.u1, c.u2}
      BY DEF FuAddrs
    <2>2. PICK c \in CallsOf(script) : u \in {c.u1, c.u2}
      BY <2>1
    <2>3. c \in FuCalls
      BY <1>2
    <2> QED BY <2>2, <2>3 DEF FuCalls
  <1>4. ASSUME NEW script \in FuScripts, NEW c \in CallsOf(script)
        PROVE  c \in FuLegal
    BY <1>2 DEF FuCalls, FuLegal
  <1>5. ASSUME NEW script \in FuScripts PROVE script \in [FuThreads -> Seq(FuLegal)]
    <2>1. script \in [FuThreads -> Seq(FuCalls)]
      BY FutexAssumption
    <2>2. ASSUME NEW t \in FuThreads PROVE script[t] \in Seq(FuLegal)
      <3>1. script[t] \in Seq(FuCalls)
        BY <2>1
      <3>2. \A i \in 1..Len(script[t]) : script[t][i] \in FuLegal
        BY <1>1, <1>4, <3>1
      <3> QED BY <3>1, <3>2
    <2> QED BY <2>1, <2>2
  <1> QED BY <1>3, <1>5

LEMMA LegalCall ==
    ASSUME NEW c \in FuLegal
    PROVE  /\ c.op \in {"wait", "wake", "wake_op", "requeue", "store", "clear_tid"}
           /\ c.u1 \in FuAddrs /\ c.u2 \in FuAddrs /\ c.n1 \in Nat /\ c.n2 \in Nat
           /\ c.u1 \in Nat /\ c.u2 \in Nat /\ c.u1 # NoAddr /\ c.u2 # NoAddr
           /\ c.val \in Words
           /\ c.u1 \in FuJoinAddrs => c.op \in {"wait", "wake", "clear_tid"}
           /\ c.op \in {"requeue", "wake_op"} => c.u2 \notin FuJoinAddrs
           /\ c.op = "requeue" => c.u1 # c.u2
           /\ [c EXCEPT !.op = "wake"] \in FuLegal
  <1>1. FuAddrs \subseteq Nat \ {NoAddr}
    BY Addresses
  <1> QED BY <1>1 DEF FuLegal

LEMMA FuInitInv == FuInit => FuInv
  <1> SUFFICES ASSUME FuInit PROVE FuInv
    OBVIOUS
  <1> USE DEF FuInit
  <1>1. FuRestOK
    <2>1. todo \in [FuThreads -> Seq(FuLegal)]
      BY Addresses
    <2> QED BY <2>1 DEF FuRestOK
  <1>2. FuIdle \in FuRec /\ Freed \in FuObj
    BY DEF FuIdle, FuRec, FuPlaces, Freed, FuObj, NoAddr
  <1>3. FuTypeOK
    BY <1>1, <1>2 DEF FuTypeOK
  <1>4. FuShape(FuIdle)
    BY DEF FuShape, FuIdle, Waits
  <1>5. ASSUME NEW t \in FuThreads
        PROVE  FuShape(fu[t]) /\ HasLocks(t, fu[t], futex, treeLock) /\ HasFound(fu[t], futex)
    BY <1>4 DEF HasLocks, HasFound, FuIdle
  <1>6. OneEach(futex)
    BY DEF OneEach, Freed
  <1>7. ListsAgree(futex, fu, sleepsAt)
    <2>1. \A o \in Futexes : futex[o].waiters = <<>> /\ DOMAIN futex[o].waiters = {}
      BY DEF Freed
    <2>2. \A x \in FuThreads : sleepsAt[x] = NoAddr
      OBVIOUS
    <2> HIDE DEF FuInit
    <2> QED BY <2>1, <2>2 DEF ListsAgree
  <1>8. Balanced(futex, RefsOf(fu))
    <2>1. ASSUME NEW o \in Futexes PROVE Refs(fu, o) = 0
      <3>1. /\ {t \in FuThreads : fu[t].f1 = o} = {} /\ {t \in FuThreads : fu[t].f2 = o} = {}
            /\ {t \in FuThreads : fu[t].tmp = o} = {} /\ {t \in FuThreads : fu[t].waiter = o} = {}
        BY FutexAssumption DEF FuIdle
      <3> QED BY <3>1, FS_EmptySet, SMTT(60) DEF Refs
    <2> QED BY <2>1 DEF Balanced, RefsOf, InTree, Freed
  <1> QED BY <1>3, <1>5, <1>6, <1>7, <1>8 DEF FuInv

(* A thread's types, and where it stands. *)
LEMMA ThreadFacts ==
    ASSUME FuInv, NEW t \in FuThreads
    PROVE  /\ fu \in [FuThreads -> FuRec] /\ futex \in [Futexes -> FuObj]
           /\ fu[t] \in FuRec /\ FuShape(fu[t]) /\ HasLocks(t, fu[t], futex, treeLock)
           /\ HasFound(fu[t], futex)
           /\ treeLock \in FuThreads \cup {NoOne} /\ FuRestOK
           /\ fu[t].f1 \in Futexes \cup {NoFutex} /\ fu[t].f2 \in Futexes \cup {NoFutex}
           /\ fu[t].tmp \in Futexes \cup {NoFutex} /\ fu[t].waiter \in Futexes \cup {NoFutex}
           /\ t # NoOne /\ NoFutex \notin Futexes
           /\ fu[t].pc # "idle" => fu[t].call \in FuLegal
  <1>1. t # NoOne /\ NoFutex \notin Futexes
    BY FutexAssumption
  <1>2. fu[t] \in FuRec
    BY DEF FuInv, FuTypeOK
  <1> QED BY <1>1, <1>2 DEF FuInv, FuTypeOK, FuRec, FuShape

LEMMA CallStep ==
    ASSUME FuInv, NEW t \in FuThreads, FuCall(t)
    PROVE  FuInv'
  <1> DEFINE call == Head(todo[t])
  <1>1. /\ fu[t] = FuIdle /\ todo[t] \in Seq(FuLegal) /\ todo[t] # <<>> /\ FuRestOK
        /\ UNCHANGED <<futex, treeLock, fuEvent, queuedBy, sleepsAt>>
    BY ThreadFacts DEF FuCall, FuRestOK, FuShape
  <1>2. call \in FuLegal /\ Tail(todo[t]) \in Seq(FuLegal)
    BY <1>1
  <1>3. todo' \in [FuThreads -> Seq(FuLegal)]
    BY <1>1, <1>2 DEF FuCall, FuRestOK
  <1>4. /\ call.u1 \in FuAddrs /\ call.val \in Words /\ [call EXCEPT !.op = "wake"] \in FuLegal
        /\ [call EXCEPT !.op = "wake"].op = "wake"
        /\ call.op \in {"wait", "wake", "wake_op", "requeue", "store", "clear_tid"}
    <2> HIDE DEF call
    <2> QED BY <1>2, LegalCall DEF FuLegal
  <1> HIDE DEF call
  <1>5. FuRestOK'
    <2>1. word \in [FuAddrs -> Nat \cup Words]
      BY <1>1 DEF FuRestOK
    <2>2. \E v \in Nat \cup Words : word' = [word EXCEPT ![call.u1] = v] \/ word' = word
      BY <1>4 DEF FuCall, call
    <2>3. word' \in [FuAddrs -> Nat \cup Words]
      BY <1>4, <2>1, <2>2
    <2> QED BY <1>1, <1>3, <2>3 DEF FuRestOK
  <1> DEFINE New(c) == [FuIdle EXCEPT !.pc = "find", !.call = c]
  <1>6. ASSUME NEW c \in FuLegal, c.op \in {"wait", "wake", "wake_op", "requeue"}
        PROVE  fu' = [fu EXCEPT ![t] = New(c)] => FuInv'
    <2> DEFINE new == New(c)
    <2>1. new \in FuRec
      BY DEF FuIdle, FuRec, FuPlaces
    <2>2. /\ new.f1 = fu[t].f1 /\ new.f2 = fu[t].f2 /\ new.tmp = fu[t].tmp
          /\ new.waiter = fu[t].waiter /\ new.pc = "find"
      BY <1>1 DEF FuIdle
    <2>3. FuShape(new)
      BY <1>6 DEF FuShape, FuIdle, Waits
    <2>4. HasLocks(t, new, futex, treeLock) /\ HasFound(new, futex)
      BY <2>2 DEF HasLocks, HasFound
    <2> HIDE DEF New
    <2> QED BY <1>1, <1>5, <2>1, <2>2, <2>3, <2>4, LocalInv
  <1>7. CASE call.op = "store"
    <2>1. fu' = fu
      BY <1>7 DEF FuCall, call
    <2> QED BY <1>1, <1>5, <2>1 DEF FuInv, FuTypeOK
  <1>8. CASE call.op = "clear_tid"
    <2>1. fu' = [fu EXCEPT ![t] = New([call EXCEPT !.op = "wake"])]
      BY <1>8 DEF FuCall, call
    <2> HIDE DEF New
    <2> QED BY <1>4, <1>6, <2>1
  <1>9. CASE call.op \notin {"store", "clear_tid"}
    <2>1. fu' = [fu EXCEPT ![t] = New(call)]
      BY <1>9 DEF FuCall, call
    <2> HIDE DEF New
    <2> QED BY <1>2, <1>4, <1>6, <1>9, <2>1
  <1> QED BY <1>7, <1>8, <1>9

LEMMA AwakeStep ==
    ASSUME FuInv, NEW t \in FuThreads, FuAwake(t) \/ FuGivesUp(t)
    PROVE  FuInv'
  <1>1. /\ fu[t] \in FuRec /\ FuShape(fu[t]) /\ fu[t].pc = "sleep" /\ FuRestOK
        /\ UNCHANGED <<word, futex, treeLock, sleepsAt, todo>>
    <2>1. fu[t].pc = "sleep" /\ UNCHANGED <<word, futex, treeLock, sleepsAt, todo>>
      BY Zenon DEF FuAwake, FuGivesUp
    <2> QED BY <2>1, ThreadFacts
  <1>2. PICK ret \in {"OK", "EINTR", "ETIMEDOUT"} :
           fu' = [fu EXCEPT ![t] = [fu[t] EXCEPT !.pc = "relock", !.stage = "leave", !.ret = ret]]
    <2>1. CASE FuAwake(t)
      BY <2>1 DEF FuAwake
    <2>2. CASE FuGivesUp(t)
      <3>1. PICK ret \in {"EINTR"} \cup (IF fu[t].call.timed THEN {"ETIMEDOUT"} ELSE {}) :
              fu' = [fu EXCEPT ![t] = [fu[t] EXCEPT !.pc = "relock", !.stage = "leave", !.ret = ret]]
        BY <2>2, Zenon DEF FuGivesUp
      <3>2. ret \in {"OK", "EINTR", "ETIMEDOUT"}
        OBVIOUS
      <3> QED BY <3>1, <3>2
    <2> QED BY <2>1, <2>2
  <1> DEFINE new == [fu[t] EXCEPT !.pc = "relock", !.stage = "leave", !.ret = ret]
  <1>3. new \in FuRec
    BY <1>1 DEF FuRec, FuPlaces
  <1>4. /\ new.pc = "relock" /\ new.stage = "leave" /\ new.f1 = fu[t].f1 /\ new.f2 = fu[t].f2
        /\ new.tmp = fu[t].tmp /\ new.waiter = fu[t].waiter /\ new.call = fu[t].call
    BY <1>1 DEF FuRec
  <1>5. fu' = [fu EXCEPT ![t] = new] /\ FuRestOK'
    BY <1>1, <1>2 DEF FuRestOK
  <1> HIDE DEF new
  <1>6. FuShape(new)
    BY <1>1, <1>4 DEF FuShape, Waits
  <1>7. HasLocks(t, new, futex, treeLock) /\ HasFound(new, futex)
    BY <1>4 DEF HasLocks, HasFound
  <1> QED BY <1>1, <1>3, <1>4, <1>5, <1>6, <1>7, LocalInv

LEMMA WakeQueueStep ==
    ASSUME FuInv, NEW t \in FuThreads, FuPop(t) \/ FuSetEvent(t)
    PROVE  FuInv'
  <1>1. /\ fu[t] \in FuRec /\ FuShape(fu[t]) /\ fu[t].pc = "wake_queue" /\ FuRestOK
        /\ UNCHANGED <<word, futex, treeLock, sleepsAt, todo>>
    BY ThreadFacts DEF FuPop, FuSetEvent
  <1>2. PICK x \in FuThreads \cup {NoOne} : fu' = [fu EXCEPT ![t].waking = x]
    BY DEF FuPop, FuSetEvent
  <1> DEFINE new == [fu[t] EXCEPT !.waking = x]
  <1>3. new \in FuRec
    BY <1>1 DEF FuRec
  <1>4. /\ new.pc = "wake_queue" /\ new.stage = fu[t].stage /\ new.f1 = fu[t].f1 /\ new.f2 = fu[t].f2
        /\ new.tmp = fu[t].tmp /\ new.waiter = fu[t].waiter /\ new.call = fu[t].call
    BY <1>1 DEF FuRec
  <1>5. fu' = [fu EXCEPT ![t] = new] /\ FuRestOK'
    BY <1>1, <1>2 DEF FuRestOK
  <1> HIDE DEF new
  <1>6. FuShape(new)
    BY <1>1, <1>4 DEF FuShape, Waits
  <1>7. HasLocks(t, new, futex, treeLock) /\ HasFound(new, futex)
    BY <1>4 DEF HasLocks, HasFound
  <1> QED BY <1>1, <1>3, <1>4, <1>5, <1>6, <1>7, LocalInv

(* A call ends before it has taken any reference. *)
LEMMA EndStep ==
    ASSUME FuInv, NEW t \in FuThreads, fu[t].pc \in {"find", "create"},
           fu' = [fu EXCEPT ![t] = FuIdle],
           UNCHANGED <<word, futex, treeLock, sleepsAt, todo>>
    PROVE  FuInv'
  <1>1. fu[t] \in FuRec /\ FuShape(fu[t]) /\ FuRestOK
    BY ThreadFacts
  <1>2. FuIdle \in FuRec /\ FuShape(FuIdle)
    BY DEF FuIdle, FuRec, FuPlaces, FuShape, Waits
  <1>3. /\ FuIdle.f1 = fu[t].f1 /\ FuIdle.f2 = fu[t].f2 /\ FuIdle.tmp = fu[t].tmp
        /\ FuIdle.waiter = fu[t].waiter
    BY <1>1 DEF FuIdle, FuShape, Waits
  <1>4. HasLocks(t, FuIdle, futex, treeLock) /\ HasFound(FuIdle, futex) /\ FuRestOK'
    BY <1>1 DEF HasLocks, HasFound, FuIdle, FuRestOK
  <1> QED BY <1>1, <1>2, <1>3, <1>4, LocalInv

(* The end of the look-ups of FuFind and FuFindAgain. *)
LEMMA FoundStep ==
    ASSUME FuInv, NEW t \in FuThreads, fu[t].pc \in {"find", "find_again"}, treeLock = NoOne,
           UNCHANGED <<word, sleepsAt, todo>>,
           NEW me \in FuRec, me.stage = "work", me.call = fu[t].call, me.waiter = NoFutex,
           me.call.op \in {"wait", "wake"} => me.f1 # NoFutex,
           me.call.op = "requeue" => me.f2 # NoFutex,
           me.f2 # NoFutex => me.call.op \in {"wake_op", "requeue"},
           NEW F \in [Futexes -> FuObj],
           me.f1 # NoFutex => F[me.f1].in_tree /\ F[me.f1].uaddr = me.call.u1,
           me.f2 # NoFutex => F[me.f2].in_tree /\ F[me.f2].uaddr = me.call.u2,
           \A p \in Futexes :
              /\ F[p].uaddr = futex[p].uaddr /\ F[p].lock = futex[p].lock
              /\ F[p].waiters = futex[p].waiters /\ (futex[p].in_tree => F[p].in_tree)
              /\ futex[p].ref = 1 /\ ~futex[p].in_tree /\ ~Holds(fu[t], p) =>
                    F[p].ref = 1 /\ ~F[p].in_tree
              /\ F[p].ref = InTree(F, p) + RefsOf(fu)[p] - Uses(fu[t], p) + Uses(me, p),
           OneEach(F), FuFound(t, me, F)
    PROVE  FuInv'
  <1>1. /\ fu \in [FuThreads -> FuRec] /\ futex \in [Futexes -> FuObj]
        /\ fu[t] \in FuRec /\ FuShape(fu[t]) /\ FuRestOK /\ t # NoOne /\ NoFutex \notin Futexes
        /\ fu[t].call \in FuLegal
    BY ThreadFacts
  <1> DEFINE none == me.f1 = NoFutex /\ me.f2 = NoFutex
             new == [me EXCEPT !.pc = IF none THEN "work" ELSE "lock"]
  <1>2. fu' = [fu EXCEPT ![t] = new] /\ futex' = F /\ treeLock' = IF none THEN treeLock ELSE t
    BY DEF FuFound
  <1>3. new \in FuRec
    BY DEF FuRec, FuPlaces
  <1>4. /\ new.pc = (IF none THEN "work" ELSE "lock") /\ new.stage = "work" /\ new.call = me.call
        /\ new.f1 = me.f1 /\ new.f2 = me.f2 /\ new.tmp = me.tmp /\ new.waiter = NoFutex
    BY DEF FuRec
  <1> HIDE DEF new
  <1>5. FuShape(new)
    BY <1>1, <1>4 DEF FuShape, Waits
  <1>6. HasLocks(t, new, F, treeLock')
    BY <1>2, <1>4 DEF HasLocks
  <1>7. HasFound(new, F)
    BY <1>4 DEF HasFound
  <1>8. /\ fu' \in [FuThreads -> FuRec] /\ fu'[t] = new /\ \A x \in FuThreads : x # t => fu'[x] = fu[x]
        /\ futex' \in [Futexes -> FuObj] /\ treeLock' \in FuThreads \cup {NoOne} /\ FuRestOK'
    BY <1>1, <1>2, <1>3 DEF FuRestOK
  <1>9. Balanced(F, RefsOf(fu'))
    <2>1. \A p \in Futexes : Uses(new, p) = Uses(me, p)
      BY <1>4 DEF Uses
    <2>2. ASSUME NEW f \in [FuThreads -> FuRec], NEW g \in [FuThreads -> FuRec],
                 \A x \in FuThreads : x # t => g[x] = f[x]
          PROVE  \A p \in Futexes :
                    /\ RefsOf(f)[p] \in Nat /\ Uses(f[t], p) \in Nat /\ Uses(g[t], p) \in Nat
                    /\ RefsOf(g)[p] = RefsOf(f)[p] - Uses(f[t], p) + Uses(g[t], p)
      <3>1. /\ RefsOf(f) \in [Futexes -> Nat]
            /\ \A p \in Futexes :
                  /\ Uses(f[t], p) \in 0..4 /\ Uses(g[t], p) \in 0..4
                  /\ RefsOf(g)[p] = RefsOf(f)[p] - Uses(f[t], p) + Uses(g[t], p)
        BY <2>2, RefsOfUpdate, SMTT(60)
      <3> QED BY <3>1
    <2>3. \A p \in Futexes :
             /\ RefsOf(fu)[p] \in Nat /\ Uses(fu[t], p) \in Nat /\ Uses(new, p) \in Nat
             /\ RefsOf(fu')[p] = RefsOf(fu)[p] - Uses(fu[t], p) + Uses(new, p)
      BY <1>1, <1>8, <2>2
    <2>4. \A p \in Futexes : F[p].ref = InTree(F, p) + RefsOf(fu)[p] - Uses(fu[t], p) + Uses(new, p)
      BY <2>1
    <2>5. \A p \in Futexes : InTree(F, p) \in Nat
      BY DEF InTree
    <2> QED BY <2>3, <2>4, <2>5 DEF Balanced
  <1>10. ListsAgree(F, fu', sleepsAt')
    <2>1. ListsAgree(futex, fu, sleepsAt) /\ fu[t].waiter = NoFutex
      BY <1>1 DEF FuInv, FuShape, Waits
    <2>2. \A x \in FuThreads : fu'[x].waiter = fu[x].waiter
      BY <1>4, <1>8, <2>1
    <2>3. \A o \in Futexes : \A i \in DOMAIN futex[o].waiters : futex[o].waiters[i] \in FuThreads
      BY <1>1 DEF FuObj
    <2>4. \A x \in FuThreads : fu[x].waiter # NoFutex => fu[x].waiter \in Futexes
      BY <1>1 DEF FuRec
    <2> QED BY <2>1, <2>2, <2>3, <2>4 DEF ListsAgree
  <1>11. Gentle(t, fu[t], futex, futex', treeLock, treeLock', RefsOf(fu'))
    BY <1>2 DEF Gentle
  <1> QED BY <1>2, <1>5, <1>6, <1>7, <1>8, <1>9, <1>10, <1>11, StepInv

(* The place changes, and nothing else. *)
LEMMA CreateNext ==
    ASSUME FuInv, NEW t \in FuThreads, fu[t].pc = "find", fu[t].call.op \in {"wait", "requeue"},
           fu' = [fu EXCEPT ![t].pc = "create"],
           UNCHANGED <<word, futex, treeLock, sleepsAt, todo>>
    PROVE  FuInv'
  <1>1. fu[t] \in FuRec /\ FuShape(fu[t]) /\ FuRestOK
    BY ThreadFacts
  <1> DEFINE new == [fu[t] EXCEPT !.pc = "create"]
  <1>2. new \in FuRec
    BY <1>1 DEF FuRec, FuPlaces
  <1>3. /\ new.pc = "create" /\ new.stage = fu[t].stage /\ new.f1 = fu[t].f1 /\ new.f2 = fu[t].f2
        /\ new.tmp = fu[t].tmp /\ new.waiter = fu[t].waiter /\ new.call = fu[t].call
    BY <1>1 DEF FuRec
  <1>4. fu' = [fu EXCEPT ![t] = new] /\ FuRestOK'
    BY <1>1 DEF FuRestOK
  <1> HIDE DEF new
  <1>5. FuShape(new)
    BY <1>1, <1>3 DEF FuShape, Waits
  <1>6. HasLocks(t, new, futex, treeLock) /\ HasFound(new, futex)
    BY <1>3 DEF HasLocks, HasFound
  <1> QED BY <1>1, <1>2, <1>3, <1>4, <1>5, <1>6, LocalInv

LEMMA FindStep ==
    ASSUME FuInv, NEW t \in FuThreads, FuFind(t)
    PROVE  FuInv'
  <1> DEFINE me == fu[t]
             call == me.call
             a == FindFutex(futex, call.u1)
             b == FindFutex(futex, call.u2)
             second == call.op \in {"wake_op", "requeue"}
             b2 == IF second THEN b ELSE NoFutex
             needed == IF call.op = "requeue" THEN b ELSE a
             E == GetFutex(futex, a)
             F == GetFutex(E, b2)
             new == [me EXCEPT !.f1 = a, !.f2 = b2]
  <1>1. /\ me.pc = "find" /\ treeLock = NoOne
        /\ UNCHANGED <<word, sleepsAt, todo>>
        /\ \/ /\ call.op \in {"wait", "requeue"} /\ fu' = [fu EXCEPT ![t].pc = "create"]
              /\ UNCHANGED <<futex, treeLock>>
           \/ fu' = [fu EXCEPT ![t] = FuIdle] /\ UNCHANGED <<futex, treeLock>>
           \/ (needed = NoFutex => call.op \notin {"wait", "requeue", "wake"}) /\ FuFound(t, new, F)
    BY DEF FuFind
  <1>2. /\ fu \in [FuThreads -> FuRec] /\ futex \in [Futexes -> FuObj]
        /\ me \in FuRec /\ FuShape(me) /\ NoFutex \notin Futexes /\ call \in FuLegal
    BY <1>1, ThreadFacts
  <1>3. CASE FuFound(t, new, F) /\ (needed = NoFutex => call.op \notin {"wait", "requeue", "wake"})
    <2>1. /\ a \in Futexes \cup {NoFutex}
          /\ a # NoFutex => futex[a].in_tree /\ futex[a].uaddr = call.u1
      <3> HIDE DEF call
      <3> QED BY <1>2, FindObject
    <2>2. /\ b2 \in Futexes \cup {NoFutex} /\ (b2 # NoFutex => second)
          /\ b2 # NoFutex => futex[b2].in_tree /\ futex[b2].uaddr = call.u2
      <3>1. /\ b \in Futexes \cup {NoFutex}
            /\ b # NoFutex => futex[b].in_tree /\ futex[b].uaddr = call.u2
        <4> HIDE DEF call
        <4> QED BY <1>2, FindObject
      <3> HIDE DEF b, second
      <3> QED BY <3>1
    <2>3. /\ me.f1 = NoFutex /\ me.f2 = NoFutex /\ me.tmp = NoFutex /\ me.waiter = NoFutex
          /\ me.stage = "work" /\ call.op \in {"wait", "wake", "wake_op", "requeue"}
      BY <1>1, <1>2 DEF FuShape, Waits
    <2>4. /\ call.op \in {"wait", "wake"} => a # NoFutex
          /\ call.op = "requeue" => b2 # NoFutex
      <3> HIDE DEF a, b
      <3> QED BY <1>3
    <2>5. b2 # NoFutex => call.op \in {"wake_op", "requeue"}
      BY <2>2
    <2> HIDE DEF a, b2, call, second, needed
    <2> DEFINE n == RefsOf(fu)
    <2>6. n \in [Futexes -> Nat] /\ Balanced(futex, n)
      <3>1. Balanced(futex, RefsOf(fu))
        BY DEF FuInv
      <3>2. \A f \in [FuThreads -> FuRec] : RefsOf(f) \in [Futexes -> Nat]
        BY RefsOfUpdate
      <3> QED BY <1>2, <3>1, <3>2
    <2> HIDE DEF n
    <2>7. /\ E \in [Futexes -> FuObj] /\ Plus(n, a) \in [Futexes -> Nat] /\ Balanced(E, Plus(n, a))
          /\ \A p \in Futexes : Same(futex, E, p) /\ (p # a => E[p] = futex[p])
      BY <1>2, <2>1, <2>6, GetObject
    <2> HIDE DEF E
    <2> DEFINE m == Plus(n, a)
    <2>8. /\ F \in [Futexes -> FuObj] /\ Balanced(F, Plus(m, b2))
          /\ \A p \in Futexes : Same(E, F, p) /\ (p # b2 => F[p] = E[p])
      <3>1. m \in [Futexes -> Nat] /\ Balanced(E, m) /\ E \in [Futexes -> FuObj]
        BY <2>7
      <3> HIDE DEF m
      <3> QED BY <2>2, <3>1, GetObject
    <2> HIDE DEF F
    <2>9. \A p \in Futexes : /\ Same(futex, F, p)
                             /\ p # a /\ p # b2 => F[p] = futex[p]
      BY <2>7, <2>8 DEF Same
    <2>10. new \in FuRec
      BY <1>2, <2>1, <2>2 DEF FuRec
    <2>11. /\ new.stage = "work" /\ new.call = call /\ new.f1 = a /\ new.f2 = b2
           /\ new.tmp = NoFutex /\ new.waiter = NoFutex
      BY <1>2, <2>3 DEF FuRec, call
    <2>12. \A p \in Futexes :
              F[p].ref = InTree(F, p) + n[p] - Uses(me, p) + Uses(new, p)
      <3>1. ASSUME NEW p \in Futexes
            PROVE  /\ Uses(me, p) = 0 /\ Uses(new, p) = OneIf(p = a) + OneIf(p = b2)
                   /\ Plus(m, b2)[p] = n[p] + OneIf(p = a) + OneIf(p = b2)
                   /\ n[p] \in Nat /\ OneIf(p = a) \in Nat /\ OneIf(p = b2) \in Nat
                   /\ InTree(F, p) \in Nat
        <4> HIDE DEF new, me
        <4>1. Uses(me, p) = 0
          BY <1>2, <2>3 DEF Uses, OneIf
        <4>2. Uses(new, p) = OneIf(p = a) + OneIf(p = b2)
          BY <1>2, <2>11 DEF Uses, OneIf
        <4>3. Plus(m, b2)[p] = n[p] + OneIf(p = a) + OneIf(p = b2)
          BY DEF Plus
        <4> QED BY <2>6, <4>1, <4>2, <4>3 DEF OneIf, InTree
      <3> HIDE DEF new, me, m
      <3> QED BY <2>8, <3>1 DEF Balanced
    <2> HIDE DEF new
    <2>13. OneEach(F)
      BY <2>9 DEF FuInv, OneEach, Same
    <2>14. \A p \in Futexes :
              /\ F[p].uaddr = futex[p].uaddr /\ F[p].lock = futex[p].lock
              /\ F[p].waiters = futex[p].waiters /\ (futex[p].in_tree => F[p].in_tree)
              /\ futex[p].ref = 1 /\ ~futex[p].in_tree /\ ~Holds(fu[t], p) =>
                    F[p].ref = 1 /\ ~F[p].in_tree
              /\ F[p].ref = InTree(F, p) + RefsOf(fu)[p] - Uses(fu[t], p) + Uses(new, p)
      <3>1. ASSUME NEW p \in Futexes, futex[p].ref = 1, ~futex[p].in_tree
            PROVE  F[p].ref = 1 /\ ~F[p].in_tree
        BY <1>2, <2>1, <2>2, <2>9, <3>1
      <3>2. \A p \in Futexes :
               F[p].ref = InTree(F, p) + RefsOf(fu)[p] - Uses(fu[t], p) + Uses(new, p)
        BY <2>12 DEF n
      <3> QED BY <2>9, <3>1, <3>2 DEF Same
    <2>15. /\ new.f1 # NoFutex => F[new.f1].in_tree /\ F[new.f1].uaddr = new.call.u1
           /\ new.f2 # NoFutex => F[new.f2].in_tree /\ F[new.f2].uaddr = new.call.u2
      BY <2>1, <2>2, <2>9, <2>11 DEF Same
    <2>16. /\ new.call.op \in {"wait", "wake"} => new.f1 # NoFutex
           /\ new.call.op = "requeue" => new.f2 # NoFutex
           /\ new.f2 # NoFutex => new.call.op \in {"wake_op", "requeue"}
           /\ new.call = fu[t].call
      BY <2>4, <2>5, <2>11 DEF call
    <2> QED BY <1>1, <1>3, <2>8, <2>10, <2>11, <2>13, <2>14, <2>15, <2>16, FoundStep
  <1>4. CASE fu' = [fu EXCEPT ![t] = FuIdle] /\ UNCHANGED <<futex, treeLock>>
    BY <1>1, <1>4, EndStep
  <1>5. CASE /\ call.op \in {"wait", "requeue"} /\ fu' = [fu EXCEPT ![t].pc = "create"]
             /\ UNCHANGED <<futex, treeLock>>
    BY <1>1, <1>5, CreateNext
  <1> QED BY <1>1, <1>3, <1>4, <1>5

LEMMA RefsOfType ==
    FuInv => RefsOf(fu) \in [Futexes -> Nat] /\ Balanced(futex, RefsOf(fu))
  <1>1. \A f \in [FuThreads -> FuRec] : RefsOf(f) \in [Futexes -> Nat]
    <2> SUFFICES ASSUME NEW f \in [FuThreads -> FuRec], NEW p \in Futexes PROVE Refs(f, p) \in Nat
      BY DEF RefsOf
    <2>1. \A h \in {{x \in FuThreads : f[x].f1 = p}, {x \in FuThreads : f[x].f2 = p},
                    {x \in FuThreads : f[x].tmp = p}, {x \in FuThreads : f[x].waiter = p}} :
             Cardinality(h) \in Nat
      BY FutexAssumption, FS_Subset, FS_CardinalityType
    <2> QED BY <2>1 DEF Refs
  <1> QED BY <1>1 DEF FuInv, FuTypeOK

(* The references of the threads, when one of them has changed. *)
LEMMA RefsNow ==
    ASSUME FuInv, NEW t \in FuThreads, NEW new \in FuRec, fu' = [fu EXCEPT ![t] = new]
    PROVE  /\ fu' \in [FuThreads -> FuRec] /\ fu'[t] = new
           /\ \A x \in FuThreads : x # t => fu'[x] = fu[x]
           /\ RefsOf(fu) \in [Futexes -> Nat] /\ RefsOf(fu') \in [Futexes -> Nat]
           /\ \A p \in Futexes :
                 /\ Uses(fu[t], p) \in Nat /\ Uses(new, p) \in Nat
                 /\ Uses(fu[t], p) <= RefsOf(fu)[p]
                 /\ RefsOf(fu')[p] = RefsOf(fu)[p] - Uses(fu[t], p) + Uses(new, p)
  <1>1. fu \in [FuThreads -> FuRec]
    BY DEF FuInv, FuTypeOK
  <1>2. /\ fu' \in [FuThreads -> FuRec] /\ fu'[t] = new
        /\ \A x \in FuThreads : x # t => fu'[x] = fu[x]
    BY <1>1
  <1>3. ASSUME NEW f \in [FuThreads -> FuRec], NEW g \in [FuThreads -> FuRec],
               \A x \in FuThreads : x # t => g[x] = f[x]
        PROVE  /\ RefsOf(f) \in [Futexes -> Nat] /\ RefsOf(g) \in [Futexes -> Nat]
               /\ \A p \in Futexes :
                     /\ Uses(f[t], p) \in 0..4 /\ Uses(g[t], p) \in 0..4
                     /\ Uses(f[t], p) <= RefsOf(f)[p]
                     /\ RefsOf(g)[p] = RefsOf(f)[p] - Uses(f[t], p) + Uses(g[t], p)
    BY <1>3, RefsOfUpdate
  <1>4. /\ RefsOf(fu) \in [Futexes -> Nat] /\ RefsOf(fu') \in [Futexes -> Nat]
        /\ \A p \in Futexes :
              /\ Uses(fu[t], p) \in 0..4 /\ Uses(fu'[t], p) \in 0..4
              /\ Uses(fu[t], p) <= RefsOf(fu)[p]
              /\ RefsOf(fu')[p] = RefsOf(fu)[p] - Uses(fu[t], p) + Uses(fu'[t], p)
    BY <1>1, <1>2, <1>3
  <1>5. \A p \in Futexes :
           /\ Uses(fu[t], p) \in Nat /\ Uses(new, p) \in Nat
           /\ Uses(fu[t], p) <= RefsOf(fu)[p]
           /\ RefsOf(fu')[p] = RefsOf(fu)[p] - Uses(fu[t], p) + Uses(new, p)
    <2>1. fu'[t] = new
      BY <1>2
    <2>2. \A p \in Futexes :
             /\ Uses(fu[t], p) \in 0..4 /\ Uses(new, p) \in 0..4
             /\ Uses(fu[t], p) <= RefsOf(fu)[p]
             /\ RefsOf(fu')[p] = RefsOf(fu)[p] - Uses(fu[t], p) + Uses(new, p)
      BY <1>4, <2>1, Zenon
    <2>3. \A k \in 0..4 : k \in Nat
      OBVIOUS
    <2> QED BY <2>2, <2>3, Zenon
  <1> QED BY <1>2, <1>4, <1>5

LEMMA CreateStep ==
    ASSUME FuInv, NEW t \in FuThreads, FuCreate(t)
    PROVE  FuInv'
  <1> DEFINE me == fu[t]
             u == IF me.call.op = "requeue" THEN me.call.u2 ELSE me.call.u1
             o == CHOOSE p \in Futexes : futex[p].ref = 0
             new == [me EXCEPT !.pc = "find_again", !.tmp = o, !.dequeue = me.call.op = "requeue"]
             made == [Freed EXCEPT !.uaddr = u, !.ref = 1]
  <1>1. /\ me.pc = "create" /\ UNCHANGED <<word, treeLock, sleepsAt, todo>>
        /\ \/ fu' = [fu EXCEPT ![t] = FuIdle] /\ UNCHANGED futex
           \/ /\ \E p \in Futexes : futex[p].ref = 0
              /\ futex' = [futex EXCEPT ![o] = made]
              /\ fu' = [fu EXCEPT ![t] = new]
    BY Zenon DEF FuCreate
  <1>2. CASE fu' = [fu EXCEPT ![t] = FuIdle] /\ UNCHANGED futex
    BY <1>1, <1>2, EndStep
  <1>3. CASE /\ \E p \in Futexes : futex[p].ref = 0
             /\ futex' = [futex EXCEPT ![o] = made]
             /\ fu' = [fu EXCEPT ![t] = new]
    <2>1. /\ fu \in [FuThreads -> FuRec] /\ futex \in [Futexes -> FuObj]
          /\ me \in FuRec /\ FuShape(me) /\ me.call \in FuLegal /\ FuRestOK
          /\ treeLock \in FuThreads \cup {NoOne} /\ NoFutex \notin Futexes
      BY <1>1, ThreadFacts
    <2>2. o \in Futexes /\ futex[o].ref = 0
      BY <1>3
    <2> HIDE DEF o
    <2>3. u \in Nat
      <3>1. me.call.u1 \in Nat /\ me.call.u2 \in Nat
        <4> HIDE DEF me
        <4> QED BY <2>1, LegalCall
      <3> QED BY <3>1
    <2> HIDE DEF u
    <2>4. /\ made \in FuObj /\ made.uaddr = u /\ made.in_tree = FALSE /\ made.waiters = <<>>
          /\ made.ref = 1
      <3>1. Freed \in FuObj
        BY <2>1, <2>2, ObjectTypes
      <3>2. ASSUME NEW e \in FuObj
            PROVE  LET r == [e EXCEPT !.uaddr = u, !.ref = 1]
                   IN /\ r \in FuObj /\ r.uaddr = u /\ r.ref = 1
                      /\ r.in_tree = e.in_tree /\ r.waiters = e.waiters
        BY <2>3 DEF FuObj
      <3>3. Freed.in_tree = FALSE /\ Freed.waiters = <<>>
        BY DEF Freed
      <3> QED BY <3>1, <3>2, <3>3, Zenon
    <2>5. new \in FuRec
      <3>1. ASSUME NEW e \in FuRec, NEW d \in BOOLEAN, NEW p \in Futexes
            PROVE  [e EXCEPT !.pc = "find_again", !.tmp = p, !.dequeue = d] \in FuRec
        BY ONLY e \in FuRec, d \in BOOLEAN, p \in Futexes DEF FuRec, FuPlaces
      <3>2. me \in FuRec /\ (me.call.op = "requeue") \in BOOLEAN
        BY <2>1
      <3> QED BY <2>2, <3>1, <3>2, Zenon
    <2>6. /\ new.pc = "find_again" /\ new.stage = me.stage /\ new.f1 = me.f1 /\ new.f2 = me.f2
          /\ new.tmp = o /\ new.waiter = me.waiter /\ new.call = me.call
      BY <2>1 DEF FuRec
    <2> HIDE DEF made, new
    <2>7. /\ futex' \in [Futexes -> FuObj] /\ futex'[o] = made
          /\ \A p \in Futexes : p # o => futex'[p] = futex[p]
      BY <1>3, <2>1, <2>2, <2>4
    <2>8. /\ fu' \in [FuThreads -> FuRec] /\ fu'[t] = new
          /\ \A x \in FuThreads : x # t => fu'[x] = fu[x]
          /\ RefsOf(fu) \in [Futexes -> Nat] /\ RefsOf(fu') \in [Futexes -> Nat]
          /\ \A p \in Futexes :
                /\ Uses(fu[t], p) \in Nat /\ Uses(new, p) \in Nat
                /\ Uses(fu[t], p) <= RefsOf(fu)[p]
                /\ RefsOf(fu')[p] = RefsOf(fu)[p] - Uses(fu[t], p) + Uses(new, p)
      BY <1>3, <2>5, RefsNow, ZenonT(60)
    <2>9. RefsOf(fu)[o] = 0 /\ ~futex[o].in_tree
      <3>1. futex[o].ref = InTree(futex, o) + RefsOf(fu)[o]
        BY <2>2 DEF FuInv, Balanced
      <3>2. RefsOf(fu)[o] \in Nat
        BY <2>2, <2>8
      <3> QED BY <2>2, <3>1, <3>2 DEF InTree
    <2>10. me.tmp = NoFutex /\ me.f1 = NoFutex /\ me.f2 = NoFutex /\ me.waiter = NoFutex
      BY <1>1, <2>1 DEF FuShape, Waits
    <2>11. /\ Uses(new, o) = 1
           /\ \A p \in Futexes : p # o => Uses(new, p) = 0
           /\ \A p \in Futexes : Uses(fu[t], p) = 0
      BY <2>1, <2>2, <2>6, <2>10 DEF Uses, OneIf
    <2>12. RefsOf(fu')[o] = 1 /\ \A p \in Futexes : p # o => RefsOf(fu')[p] = RefsOf(fu)[p]
      <3>1. \A p \in Futexes : RefsOf(fu)[p] \in Nat
        BY <2>8
      <3> QED BY <2>2, <2>8, <2>9, <2>11, <3>1
    <2>13. Balanced(futex', RefsOf(fu'))
      BY <2>2, <2>4, <2>7, <2>12 DEF FuInv, Balanced, InTree
    <2>14. FuShape(new)
      BY <1>1, <2>1, <2>2, <2>6, <2>10 DEF FuShape, Waits
    <2>15. HasLocks(t, new, futex', treeLock') /\ HasFound(new, futex')
      BY <2>4, <2>6, <2>7 DEF HasLocks, HasFound, u
    <2>16. futex[o].in_tree = FALSE
      BY <2>1, <2>2, <2>9 DEF FuObj
    <2>17. FuRestOK'
      BY <1>1, <2>1 DEF FuRestOK
    <2>18. \A p \in Futexes :
              /\ futex'[p].in_tree = futex[p].in_tree
              /\ SameList(futex, futex', p) \/ (futex'[p].waiters = <<>> /\ ~futex'[p].in_tree)
              /\ RefsOf(fu')[p] # 0 /\ futex[p].ref # 0 =>
                    /\ SameList(futex, futex', p)
                    /\ futex[p].lock # t /\ futex[p].lock # NoOne => futex'[p].lock = futex[p].lock
              /\ futex[p].ref = 1 /\ ~futex[p].in_tree /\ ~Holds(fu[t], p) => futex'[p].ref = 1
      BY <2>2, <2>4, <2>7, <2>16 DEF SameList
    <2>19. fu'[t].waiter = fu[t].waiter
      BY <2>6, <2>8
    <2> QED BY <1>1, <2>1, <2>7, <2>8, <2>13, <2>14, <2>15, <2>17, <2>18, <2>19, QuietInv
  <1> QED BY <1>1, <1>2, <1>3

LEMMA RelockStep ==
    ASSUME FuInv, NEW t \in FuThreads, FuRelock(t)
    PROVE  FuInv'
  <1> DEFINE me == fu[t]
             o == IF me.stage = "leave" THEN me.waiter ELSE NoFutex
             new == IF me.stage = "leave" THEN [me EXCEPT !.pc = "lock", !.f1 = me.waiter]
                    ELSE [me EXCEPT !.pc = "lock"]
  <1>1. /\ me.pc = "relock" /\ treeLock = NoOne /\ treeLock' = t
        /\ UNCHANGED <<word, sleepsAt, todo>>
        /\ futex' = GetFutex(futex, o) /\ fu' = [fu EXCEPT ![t] = new]
    BY DEF FuRelock, GetFutex
  <1>2. /\ fu \in [FuThreads -> FuRec] /\ futex \in [Futexes -> FuObj]
        /\ me \in FuRec /\ FuShape(me) /\ FuRestOK /\ NoFutex \notin Futexes
        /\ me.waiter \in Futexes \cup {NoFutex}
        /\ o \in Futexes \cup {NoFutex}
    BY <1>1, ThreadFacts
  <1>3. new \in FuRec
    BY <1>2 DEF FuRec, FuPlaces
  <1>4. /\ new.pc = "lock" /\ new.stage = me.stage /\ new.f2 = me.f2
        /\ new.f1 = (IF me.stage = "leave" THEN me.waiter ELSE me.f1)
        /\ new.tmp = me.tmp /\ new.waiter = me.waiter /\ new.call = me.call
    BY <1>2 DEF FuRec
  <1>5. me.stage = "leave" => me.f1 = NoFutex
    BY <1>1, <1>2 DEF FuShape, Waits
  <1> HIDE DEF new
  <1>6. /\ fu' \in [FuThreads -> FuRec] /\ fu'[t] = new
        /\ \A x \in FuThreads : x # t => fu'[x] = fu[x]
        /\ RefsOf(fu) \in [Futexes -> Nat] /\ RefsOf(fu') \in [Futexes -> Nat]
        /\ \A p \in Futexes :
              /\ Uses(fu[t], p) \in Nat /\ Uses(new, p) \in Nat
              /\ Uses(fu[t], p) <= RefsOf(fu)[p]
              /\ RefsOf(fu')[p] = RefsOf(fu)[p] - Uses(fu[t], p) + Uses(new, p)
    <2>1. fu' = [fu EXCEPT ![t] = new]
      BY <1>1
    <2> HIDE DEF o
    <2> QED BY <1>3, <2>1, RefsNow, ZenonT(60)
  <1>7. /\ futex' \in [Futexes -> FuObj] /\ Balanced(futex', Plus(RefsOf(fu), o))
        /\ \A p \in Futexes : Same(futex, futex', p) /\ (p # o => futex'[p] = futex[p])
    <2> DEFINE F == futex   G == futex'   n == RefsOf(fu)
    <2>1. F \in [Futexes -> FuObj] /\ n \in [Futexes -> Nat] /\ Balanced(F, n) /\ G = GetFutex(F, o)
      BY <1>1, <1>2, RefsOfType
    <2> HIDE DEF F, G, n, o
    <2>2. /\ G \in [Futexes -> FuObj] /\ Balanced(G, Plus(n, o))
          /\ \A p \in Futexes : Same(F, G, p) /\ (p # o => G[p] = F[p])
      BY <1>2, <2>1, GetObject
    <2> QED BY <2>2 DEF F, G, n
  <1>8. \A p \in Futexes : RefsOf(fu')[p] = Plus(RefsOf(fu), o)[p]
    <2>1. ASSUME NEW p \in Futexes PROVE Uses(new, p) = Uses(fu[t], p) + OneIf(p = o)
      BY <1>2, <1>4, <1>5 DEF Uses, OneIf
    <2>2. \A p \in Futexes : RefsOf(fu)[p] \in Nat /\ OneIf(p = o) \in Nat
      BY <1>6 DEF OneIf
    <2> QED BY <1>6, <2>1, <2>2 DEF Plus
  <1>9. Balanced(futex', RefsOf(fu'))
    BY <1>7, <1>8 DEF Balanced
  <1>10. FuShape(new)
    BY <1>1, <1>2, <1>4, <1>5 DEF FuShape, Waits
  <1>11. HasLocks(t, new, futex', treeLock') /\ HasFound(new, futex')
    BY <1>1, <1>2, <1>4 DEF HasLocks, HasFound, FuShape
  <1>12. FuRestOK' /\ fu'[t].waiter = fu[t].waiter /\ treeLock' \in FuThreads \cup {NoOne}
    BY <1>1, <1>2, <1>4, <1>6 DEF FuRestOK
  <1>13. o # NoFutex => Holds(fu[t], o)
    BY DEF Holds
  <1>14. \A p \in Futexes :
            /\ futex'[p].in_tree = futex[p].in_tree
            /\ SameList(futex, futex', p) \/ (futex'[p].waiters = <<>> /\ ~futex'[p].in_tree)
            /\ RefsOf(fu')[p] # 0 /\ futex[p].ref # 0 =>
                  /\ SameList(futex, futex', p)
                  /\ futex[p].lock # t /\ futex[p].lock # NoOne => futex'[p].lock = futex[p].lock
            /\ futex[p].ref = 1 /\ ~futex[p].in_tree /\ ~Holds(fu[t], p) => futex'[p].ref = 1
    BY <1>2, <1>7, <1>13 DEF SameList, Same
  <1> QED BY <1>1, <1>6, <1>7, <1>9, <1>10, <1>11, <1>12, <1>14, QuietInv

LEMMA FindAgainStep ==
    ASSUME FuInv, NEW t \in FuThreads, FuFindAgain(t)
    PROVE  FuInv'
  <1> DEFINE me == fu[t]
             call == me.call
             u == futex[me.tmp].uaddr
             o == FindFutex(futex, u)
             F == IF o = NoFutex THEN EnqueueFutex(futex, me.tmp) ELSE GetFutex(futex, o)
             mine == IF o = NoFutex THEN me.tmp ELSE o
             tmp == IF o = NoFutex THEN NoFutex ELSE me.tmp
             a == IF call.op = "wait" THEN NoFutex ELSE FindFutex(F, call.u1)
             G == GetFutex(F, a)
             new == IF call.op = "wait" THEN [me EXCEPT !.f1 = mine, !.tmp = tmp]
                    ELSE [me EXCEPT !.f1 = a, !.f2 = mine, !.tmp = tmp]
             n == RefsOf(fu)
             m == IF o = NoFutex THEN n ELSE Plus(n, o)
  <1>1. me.pc = "find_again" /\ treeLock = NoOne /\ UNCHANGED <<word, sleepsAt, todo>>
    BY DEF FuFindAgain
  <1>2. FuFound(t, new, G)
    <2>1. CASE call.op = "wait"
      BY <2>1, Zenon DEF FuFindAgain, GetFutex
    <2>2. CASE call.op # "wait"
      BY <2>2, Zenon DEF FuFindAgain
    <2> QED BY <2>1, <2>2
  <1>3. /\ futex \in [Futexes -> FuObj] /\ me \in FuRec /\ FuShape(me) /\ HasFound(me, futex)
        /\ NoFutex \notin Futexes /\ call \in FuLegal /\ me.tmp \in Futexes \cup {NoFutex}
        /\ n \in [Futexes -> Nat] /\ Balanced(futex, n) /\ OneEach(futex)
    BY <1>1, ThreadFacts, RefsOfType DEF FuInv
  <1>4. /\ me.tmp \in Futexes /\ futex[me.tmp].ref = 1 /\ ~futex[me.tmp].in_tree
        /\ u = (IF call.op = "requeue" THEN call.u2 ELSE call.u1)
        /\ me.f1 = NoFutex /\ me.f2 = NoFutex /\ me.waiter = NoFutex /\ me.stage = "work"
        /\ call.op \in {"wait", "requeue"}
    BY <1>1, <1>3 DEF FuShape, HasFound, Waits
  <1>5. /\ o \in Futexes \cup {NoFutex}
        /\ o # NoFutex => futex[o].in_tree /\ futex[o].uaddr = u
        /\ o = NoFutex => \A p \in Futexes : ~(futex[p].in_tree /\ futex[p].uaddr = u)
    <2> HIDE DEF u
    <2> QED BY <1>3, FindObject
  <1> HIDE DEF o, u, n, call
  <1>6. /\ F \in [Futexes -> FuObj] /\ m \in [Futexes -> Nat] /\ Balanced(F, m)
        /\ mine \in Futexes /\ F[mine].in_tree /\ F[mine].uaddr = u
        /\ tmp \in Futexes \cup {NoFutex}
        /\ \A p \in Futexes :
              /\ F[p].uaddr = futex[p].uaddr /\ F[p].lock = futex[p].lock
              /\ F[p].waiters = futex[p].waiters /\ (futex[p].in_tree => F[p].in_tree)
              /\ p # mine => F[p] = futex[p]
        /\ mine # me.tmp => futex[mine].in_tree
        /\ OneEach(F)
        /\ \A p \in Futexes : m[p] = n[p] - OneIf(p = me.tmp) + OneIf(p = mine) + OneIf(p = tmp)
    <2>1. CASE o = NoFutex
      <3>1. F = EnqueueFutex(futex, me.tmp) /\ mine = me.tmp /\ tmp = NoFutex /\ m = n
        BY <2>1
      <3> HIDE DEF F, mine, tmp, m
      <3>2. /\ F \in [Futexes -> FuObj] /\ Balanced(F, n)
            /\ \A p \in Futexes : p # me.tmp => F[p] = futex[p]
            /\ F[me.tmp].in_tree /\ F[me.tmp].uaddr = futex[me.tmp].uaddr
            /\ F[me.tmp].waiters = futex[me.tmp].waiters
            /\ F[me.tmp].lock = futex[me.tmp].lock
        <4> DEFINE E == futex   p == me.tmp   G0 == F   k == n
        <4>1. /\ E \in [Futexes -> FuObj] /\ k \in [Futexes -> Nat] /\ Balanced(E, k)
              /\ p \in Futexes /\ ~E[p].in_tree /\ G0 = EnqueueFutex(E, p)
          BY <1>3, <1>4, <3>1
        <4> HIDE DEF E, p, G0, k
        <4>2. G0 \in [Futexes -> FuObj] /\ Balanced(G0, k) /\ Filed(E, G0, p)
          BY <4>1, EnqueueObject
        <4> QED BY <4>2 DEF E, p, G0, k, Filed
      <3>3. OneEach(F)
        BY <1>3, <1>4, <1>5, <2>1, <3>2 DEF OneEach, u
      <3>4. \A p \in Futexes : n[p] = n[p] - OneIf(p = me.tmp) + OneIf(p = mine) + OneIf(p = tmp)
        <4>1. \A p \in Futexes : OneIf(p = tmp) = 0 /\ OneIf(p = me.tmp) \in Nat /\ n[p] \in Nat
          BY <1>3, <3>1 DEF OneIf
        <4> QED BY <3>1, <4>1
      <3> QED BY <1>3, <1>4, <3>1, <3>2, <3>3, <3>4 DEF u
    <2>2. CASE o # NoFutex
      <3>1. F = GetFutex(futex, o) /\ mine = o /\ tmp = me.tmp /\ m = Plus(n, o) /\ o \in Futexes
        BY <1>5, <2>2
      <3> HIDE DEF F, mine, tmp, m
      <3>2. /\ F \in [Futexes -> FuObj] /\ Balanced(F, Plus(n, o)) /\ Plus(n, o) \in [Futexes -> Nat]
            /\ \A p \in Futexes : Same(futex, F, p) /\ (p # o => F[p] = futex[p])
        BY <1>3, <3>1, GetObject
      <3>3. OneEach(F)
        BY <1>3, <3>2 DEF OneEach, Same
      <3>4. \A p \in Futexes :
               Plus(n, o)[p] = n[p] - OneIf(p = me.tmp) + OneIf(p = mine) + OneIf(p = tmp)
        <4>1. \A p \in Futexes : OneIf(p = o) \in Nat /\ OneIf(p = me.tmp) \in Nat /\ n[p] \in Nat
          BY <1>3 DEF OneIf
        <4> QED BY <3>1, <4>1 DEF Plus
      <3> QED BY <1>3, <1>4, <1>5, <2>2, <3>1, <3>2, <3>3, <3>4 DEF Same
    <2> QED BY <2>1, <2>2
  <1> HIDE DEF F, mine, tmp, m
  <1>7. /\ a \in Futexes \cup {NoFutex}
        /\ a # NoFutex => F[a].in_tree /\ F[a].uaddr = call.u1 /\ call.op = "requeue"
    <2>1. CASE call.op = "wait"
      BY <2>1
    <2>2. CASE call.op # "wait"
      <3>1. a = FindFutex(F, call.u1) /\ call.op = "requeue"
        BY <1>4, <2>2
      <3> HIDE DEF a
      <3> QED BY <1>6, <3>1, FindObject
    <2> QED BY <2>1, <2>2
  <1> HIDE DEF a
  <1>8. /\ G \in [Futexes -> FuObj] /\ Balanced(G, Plus(m, a))
        /\ \A p \in Futexes : Same(F, G, p) /\ (p # a => G[p] = F[p])
    BY <1>6, <1>7, GetObject
  <1> HIDE DEF G
  <1>9. new \in FuRec
    BY <1>3, <1>6, <1>7 DEF FuRec
  <1>10. /\ new.stage = "work" /\ new.call = call /\ new.waiter = NoFutex /\ new.tmp = tmp
         /\ new.f1 = (IF call.op = "wait" THEN mine ELSE a)
         /\ new.f2 = (IF call.op = "wait" THEN NoFutex ELSE mine)
    BY <1>3, <1>4 DEF FuRec, call
  <1> HIDE DEF new
  <1>11. \A p \in Futexes :
            G[p].ref = InTree(G, p) + RefsOf(fu)[p] - Uses(fu[t], p) + Uses(new, p)
    <2>1. ASSUME NEW p \in Futexes
          PROVE  /\ Uses(fu[t], p) = OneIf(p = me.tmp)
                 /\ Uses(new, p) = OneIf(p = mine) + OneIf(p = tmp) + OneIf(p = a)
                 /\ Plus(m, a)[p] = m[p] + OneIf(p = a)
                 /\ n[p] \in Nat /\ InTree(G, p) \in Nat
                 /\ OneIf(p = a) \in Nat /\ OneIf(p = me.tmp) \in Nat /\ OneIf(p = mine) \in Nat
                 /\ OneIf(p = tmp) \in Nat
      <3>1. Uses(fu[t], p) = OneIf(p = me.tmp)
        BY <1>3, <1>4 DEF Uses, OneIf
      <3>2. Uses(new, p) = OneIf(p = mine) + OneIf(p = tmp) + OneIf(p = a)
        <4>1. call.op = "wait" => a = NoFutex
          BY <1>7
        <4> QED BY <1>3, <1>10, <4>1 DEF Uses, OneIf
      <3>3. Plus(m, a)[p] = m[p] + OneIf(p = a)
        BY DEF Plus
      <3> QED BY <1>3, <3>1, <3>2, <3>3 DEF OneIf, InTree
    <2>2. \A p \in Futexes : G[p].ref = InTree(G, p) + Plus(m, a)[p]
      BY <1>8 DEF Balanced
    <2>3. \A p \in Futexes : m[p] = n[p] - OneIf(p = me.tmp) + OneIf(p = mine) + OneIf(p = tmp)
      BY <1>6
    <2> HIDE DEF me
    <2> QED BY <2>1, <2>2, <2>3 DEF n
  <1>12. OneEach(G)
    BY <1>6, <1>8 DEF OneEach, Same
  <1>13. ASSUME NEW p \in Futexes, futex[p].ref = 1, ~futex[p].in_tree, ~Holds(fu[t], p)
         PROVE  G[p].ref = 1 /\ ~G[p].in_tree
    <2>1. p # me.tmp
      BY <1>13 DEF Holds
    <2>2. p # mine
      BY <1>6, <1>13, <2>1
    <2>3. F[p] = futex[p]
      BY <1>6, <2>2
    <2>4. p # a
      BY <1>3, <1>7, <1>13, <2>3
    <2> QED BY <1>8, <1>13, <2>3, <2>4
  <1>14. \A p \in Futexes :
            /\ G[p].uaddr = futex[p].uaddr /\ G[p].lock = futex[p].lock
            /\ G[p].waiters = futex[p].waiters /\ (futex[p].in_tree => G[p].in_tree)
            /\ futex[p].ref = 1 /\ ~futex[p].in_tree /\ ~Holds(fu[t], p) =>
                  G[p].ref = 1 /\ ~G[p].in_tree
            /\ G[p].ref = InTree(G, p) + RefsOf(fu)[p] - Uses(fu[t], p) + Uses(new, p)
    BY <1>6, <1>8, <1>11, <1>13 DEF Same
  <1>15. /\ new.f1 # NoFutex => G[new.f1].in_tree /\ G[new.f1].uaddr = new.call.u1
         /\ new.f2 # NoFutex => G[new.f2].in_tree /\ G[new.f2].uaddr = new.call.u2
    BY <1>4, <1>6, <1>7, <1>8, <1>10 DEF Same
  <1>16. /\ new.call.op \in {"wait", "wake"} => new.f1 # NoFutex
         /\ new.call.op = "requeue" => new.f2 # NoFutex
         /\ new.f2 # NoFutex => new.call.op \in {"wake_op", "requeue"}
         /\ new.call = fu[t].call
    BY <1>3, <1>4, <1>6, <1>10 DEF call
  <1> QED BY <1>1, <1>2, <1>8, <1>9, <1>10, <1>12, <1>14, <1>15, <1>16, FoundStep

LEMMA LockStep ==
    ASSUME FuInv, NEW t \in FuThreads, FuLock(t)
    PROVE  FuInv'
  <1> DEFINE me == fu[t]
             missing == {o \in {me.f1, me.f2} \ {NoFutex} : futex[o].lock # t}
             keepsTree == me.stage = "dequeue" \/ (me.stage = "work" /\ me.call.op = "requeue")
  <1>1. me.pc = "lock" /\ UNCHANGED <<word, sleepsAt, todo>>
    BY DEF FuLock
  <1>2. PICK o \in missing :
           /\ futex[o].lock = NoOne /\ futex' = [futex EXCEPT ![o].lock = t]
           /\ IF missing = {o}
              THEN fu' = [fu EXCEPT ![t].pc = me.stage] /\ treeLock' = IF keepsTree THEN t ELSE NoOne
              ELSE UNCHANGED <<fu, treeLock>>
    BY Zenon DEF FuLock
  <1> DEFINE moves == missing = {o}
             new == IF moves THEN [me EXCEPT !.pc = me.stage] ELSE me
  <1>3. /\ fu \in [FuThreads -> FuRec] /\ futex \in [Futexes -> FuObj]
        /\ me \in FuRec /\ FuShape(me) /\ HasLocks(t, me, futex, treeLock) /\ HasFound(me, futex)
        /\ me.f1 \in Futexes \cup {NoFutex} /\ me.f2 \in Futexes \cup {NoFutex}
        /\ treeLock \in FuThreads \cup {NoOne} /\ FuRestOK /\ NoFutex \notin Futexes /\ t # NoOne
    BY ThreadFacts
  <1>4. /\ o \in Futexes /\ treeLock = t
        /\ moves => \A p \in {me.f1, me.f2} : p # NoFutex /\ p # o => futex[p].lock = t
    BY <1>1, <1>2, <1>3 DEF HasLocks
  <1>5. new \in FuRec
    BY <1>3 DEF FuRec, FuPlaces
  <1>6. /\ new.pc = (IF moves THEN me.stage ELSE "lock") /\ new.stage = me.stage
        /\ new.f1 = me.f1 /\ new.f2 = me.f2 /\ new.tmp = me.tmp /\ new.waiter = me.waiter
        /\ new.call = me.call
    BY <1>1, <1>3 DEF FuRec
  <1>7. /\ fu' = [fu EXCEPT ![t] = new]
        /\ treeLock' = IF moves /\ ~keepsTree THEN NoOne ELSE t
    <2>1. CASE moves
      BY <1>2, <2>1
    <2>2. CASE ~moves
      BY <1>2, <1>3, <1>4, <2>2
    <2> QED BY <2>1, <2>2
  <1> HIDE DEF new, moves, missing, keepsTree
  <1>8. /\ fu' \in [FuThreads -> FuRec] /\ fu'[t] = new
        /\ \A x \in FuThreads : x # t => fu'[x] = fu[x]
        /\ RefsOf(fu) \in [Futexes -> Nat] /\ RefsOf(fu') \in [Futexes -> Nat]
        /\ \A p \in Futexes :
              /\ Uses(fu[t], p) \in Nat /\ Uses(new, p) \in Nat
              /\ Uses(fu[t], p) <= RefsOf(fu)[p]
              /\ RefsOf(fu')[p] = RefsOf(fu)[p] - Uses(fu[t], p) + Uses(new, p)
    <2>1. fu' = [fu EXCEPT ![t] = new]
      BY <1>7
    <2> QED BY <1>5, <2>1, RefsNow, ZenonT(60)
  <1>9. /\ futex' \in [Futexes -> FuObj]
        /\ \A p \in Futexes : p # o => futex'[p] = futex[p]
        /\ futex'[o].lock = t /\ futex'[o].uaddr = futex[o].uaddr /\ futex'[o].ref = futex[o].ref
        /\ futex'[o].waiters = futex[o].waiters /\ futex'[o].in_tree = futex[o].in_tree
    BY <1>2, <1>3, <1>4 DEF FuObj
  <1>10. \A p \in Futexes : RefsOf(fu')[p] = RefsOf(fu)[p]
    <2>1. \A p \in Futexes : Uses(new, p) = Uses(fu[t], p)
      BY <1>6 DEF Uses
    <2>2. \A p \in Futexes : RefsOf(fu)[p] \in Nat
      BY <1>8
    <2> QED BY <1>8, <2>1, <2>2
  <1>11. Balanced(futex', RefsOf(fu'))
    <2>1. Balanced(futex, RefsOf(fu))
      BY DEF FuInv
    <2>2. \A p \in Futexes : futex'[p].ref = futex[p].ref /\ InTree(futex', p) = InTree(futex, p)
      BY <1>9 DEF InTree
    <2> QED BY <1>10, <2>1, <2>2 DEF Balanced
  <1>12. FuShape(new)
    BY <1>1, <1>3, <1>6 DEF FuShape, Waits, FuRec
  <1>13. HasLocks(t, new, futex', treeLock')
    <2>1. \A p \in {me.f1, me.f2} : moves /\ p # NoFutex => futex'[p].lock = t
      BY <1>3, <1>4, <1>9
    <2>2. me.stage \in {"work", "dequeue", "leave"}
      BY <1>3 DEF FuRec
    <2> QED BY <1>6, <1>7, <2>1, <2>2 DEF HasLocks, keepsTree
  <1>14. HasFound(new, futex')
    <2>1. \A p \in Futexes : futex'[p].in_tree = futex[p].in_tree /\ futex'[p].uaddr = futex[p].uaddr
      BY <1>9
    <2>2. me.stage \in {"work", "dequeue", "leave"}
      BY <1>3 DEF FuRec
    <2> QED BY <1>1, <1>3, <1>6, <2>1, <2>2 DEF HasFound
  <1>15. FuRestOK' /\ fu'[t].waiter = fu[t].waiter /\ treeLock' \in FuThreads \cup {NoOne}
    BY <1>1, <1>3, <1>6, <1>7, <1>8 DEF FuRestOK
  <1>16. \A p \in Futexes :
            /\ futex'[p].in_tree = futex[p].in_tree
            /\ SameList(futex, futex', p) \/ (futex'[p].waiters = <<>> /\ ~futex'[p].in_tree)
            /\ RefsOf(fu')[p] # 0 /\ futex[p].ref # 0 =>
                  /\ SameList(futex, futex', p)
                  /\ futex[p].lock # t /\ futex[p].lock # NoOne => futex'[p].lock = futex[p].lock
            /\ futex[p].ref = 1 /\ ~futex[p].in_tree /\ ~Holds(fu[t], p) => futex'[p].ref = 1
    BY <1>2, <1>9 DEF SameList
  <1> QED BY <1>1, <1>4, <1>8, <1>9, <1>11, <1>12, <1>13, <1>14, <1>15, <1>16, QuietInv

(* What PutFutex leaves of an object that other threads use. *)
Lesser(F, G, p, n) == /\ G[p].in_tree = F[p].in_tree
                      /\ n[p] # 0 => Same(F, G, p)
                      /\ SameList(F, G, p) \/ (G[p].waiters = <<>> /\ ~G[p].in_tree)

LEMMA PutLesser ==
    ASSUME NEW F \in [Futexes -> FuObj], NEW n \in [Futexes -> Nat], Balanced(F, n),
           NEW o \in Futexes \cup {NoFutex}, o # NoFutex => n[o] >= 1,
           NEW G, G = PutFutex(F, o)
    PROVE  /\ G \in [Futexes -> FuObj] /\ Minus(n, o) \in [Futexes -> Nat]
           /\ Balanced(G, Minus(n, o))
           /\ \A p \in Futexes : Lesser(F, G, p, Minus(n, o)) /\ (p # o => G[p] = F[p])
  <1>1. /\ G \in [Futexes -> FuObj] /\ Minus(n, o) \in [Futexes -> Nat]
        /\ Balanced(G, Minus(n, o))
        /\ \A p \in Futexes : /\ G[p].in_tree = F[p].in_tree
                              /\ p # o => G[p] = F[p]
                              /\ Minus(n, o)[p] # 0 => Same(F, G, p)
                              /\ Same(F, G, p) \/ G[p] = Freed
    BY PutObject
  <1>2. Freed.waiters = <<>> /\ ~Freed.in_tree
    BY DEF Freed
  <1> QED BY <1>1, <1>2 DEF Lesser, Same, SameList

LEMMA LesserTwice ==
    ASSUME NEW E, NEW F, NEW G, NEW p \in Futexes, NEW m, NEW n, Lesser(E, F, p, m),
           Lesser(F, G, p, n), n[p] # 0 => m[p] # 0
    PROVE  Lesser(E, G, p, n)
  BY DEF Lesser, Same, SameList

LEMMA ReturnStep ==
    ASSUME FuInv, NEW t \in FuThreads, FuReturn(t)
    PROVE  FuInv'
  <1> DEFINE me == fu[t]
  <1>1. /\ me.pc = "wake_queue" /\ UNCHANGED <<word, treeLock, sleepsAt, todo>>
        /\ futex' = PutFutex(PutFutex(PutFutex(futex, me.f1), me.f2), me.tmp)
        /\ fu' = [fu EXCEPT ![t] = FuIdle]
    BY DEF FuReturn
  <1>2. /\ fu \in [FuThreads -> FuRec] /\ futex \in [Futexes -> FuObj]
        /\ me \in FuRec /\ FuShape(me)
        /\ me.f1 \in Futexes \cup {NoFutex} /\ me.f2 \in Futexes \cup {NoFutex}
        /\ me.tmp \in Futexes \cup {NoFutex}
        /\ treeLock \in FuThreads \cup {NoOne} /\ FuRestOK /\ NoFutex \notin Futexes
    BY ThreadFacts
  <1>3. me.waiter = NoFutex
    BY <1>1, <1>2 DEF FuShape, Waits
  <1>4. FuIdle \in FuRec /\ FuShape(FuIdle)
    BY DEF FuIdle, FuRec, FuPlaces, FuShape, Waits
  <1>5. /\ fu' \in [FuThreads -> FuRec] /\ fu'[t] = FuIdle
        /\ \A x \in FuThreads : x # t => fu'[x] = fu[x]
        /\ RefsOf(fu) \in [Futexes -> Nat] /\ RefsOf(fu') \in [Futexes -> Nat]
        /\ \A p \in Futexes :
              /\ Uses(fu[t], p) \in Nat /\ Uses(FuIdle, p) \in Nat
              /\ Uses(fu[t], p) <= RefsOf(fu)[p]
              /\ RefsOf(fu')[p] = RefsOf(fu)[p] - Uses(fu[t], p) + Uses(FuIdle, p)
    <2>1. fu' = [fu EXCEPT ![t] = FuIdle]
      BY <1>1
    <2> QED BY <1>4, <2>1, RefsNow
  <1> DEFINE a == me.f1   b == me.f2   c == me.tmp   n == RefsOf(fu)   F == futex   H == futex'
             F1 == PutFutex(F, a)    n1 == Minus(n, a)
             F2 == PutFutex(F1, b)   n2 == Minus(n1, b)
             n3 == Minus(n2, c)
  <1>6. /\ H = PutFutex(F2, c) /\ F \in [Futexes -> FuObj] /\ n \in [Futexes -> Nat]
        /\ Balanced(F, n) /\ a \in Futexes \cup {NoFutex} /\ b \in Futexes \cup {NoFutex}
        /\ c \in Futexes \cup {NoFutex}
    BY <1>1, <1>2, RefsOfType
  <1>7. \A p \in Futexes : /\ Uses(me, p) = OneIf(p = a) + OneIf(p = b) + OneIf(p = c)
                           /\ Uses(FuIdle, p) = 0 /\ Uses(me, p) <= n[p]
    <2>1. \A p \in Futexes : Uses(FuIdle, p) = 0
      BY <1>2 DEF Uses, OneIf, FuIdle
    <2>2. \A p \in Futexes : Uses(me, p) = OneIf(p = a) + OneIf(p = b) + OneIf(p = c)
      BY <1>2, <1>3 DEF Uses, OneIf
    <2> QED BY <1>5, <2>1, <2>2
  <1>8. \A p \in Futexes : RefsOf(fu')[p] = n[p] - OneIf(p = a) - OneIf(p = b) - OneIf(p = c)
    <2>1. \A p \in Futexes : n[p] \in Nat /\ OneIf(p = a) \in Nat /\ OneIf(p = b) \in Nat
                             /\ OneIf(p = c) \in Nat
      BY <1>6 DEF OneIf
    <2> QED BY <1>5, <1>7, <2>1
  <1>9. \A p \in Futexes : OneIf(p = a) + OneIf(p = b) + OneIf(p = c) <= n[p]
    BY <1>7
  <1> HIDE DEF me, a, b, c, n, F, H
  <1>10. /\ F1 \in [Futexes -> FuObj] /\ n1 \in [Futexes -> Nat] /\ Balanced(F1, n1)
         /\ \A p \in Futexes : Lesser(F, F1, p, n1) /\ (p # a => F1[p] = F[p])
    <2>1. a # NoFutex => n[a] >= 1
      BY <1>2, <1>6, <1>9 DEF OneIf
    <2> QED BY <1>6, <2>1, PutLesser
  <1> HIDE DEF F1
  <1>11. /\ F2 \in [Futexes -> FuObj] /\ n2 \in [Futexes -> Nat] /\ Balanced(F2, n2)
         /\ \A p \in Futexes : Lesser(F1, F2, p, n2) /\ (p # b => F2[p] = F1[p])
    <2>1. b # NoFutex => n1[b] >= 1
      BY <1>2, <1>6, <1>9 DEF OneIf, Minus
    <2> HIDE DEF n1
    <2> QED BY <1>6, <1>10, <2>1, PutLesser
  <1> HIDE DEF F2
  <1>12. /\ H \in [Futexes -> FuObj] /\ n3 \in [Futexes -> Nat] /\ Balanced(H, n3)
         /\ \A p \in Futexes : Lesser(F2, H, p, n3) /\ (p # c => H[p] = F2[p])
    <2>1. c # NoFutex => n2[c] >= 1
      BY <1>2, <1>6, <1>9 DEF OneIf, Minus
    <2> HIDE DEF n2
    <2> QED BY <1>6, <1>11, <2>1, PutLesser
  <1>13. \A p \in Futexes : /\ RefsOf(fu')[p] = n3[p]
                            /\ n3[p] # 0 => n2[p] # 0
                            /\ n2[p] # 0 => n1[p] # 0
    <2>1. \A p \in Futexes : /\ n1[p] = n[p] - OneIf(p = a) /\ n2[p] = n1[p] - OneIf(p = b)
                             /\ n3[p] = n2[p] - OneIf(p = c)
      BY DEF Minus
    <2>2. \A p \in Futexes : n[p] \in Nat /\ n1[p] \in Nat /\ n2[p] \in Nat /\ n3[p] \in Nat
                             /\ OneIf(p = a) \in Nat /\ OneIf(p = b) \in Nat /\ OneIf(p = c) \in Nat
      BY <1>6, <1>10, <1>11, <1>12 DEF OneIf
    <2> HIDE DEF n1, n2, n3
    <2> QED BY <1>8, <2>1, <2>2
  <1> HIDE DEF n1, n2, n3
  <1>14. \A p \in Futexes : Lesser(F, H, p, n3)
    <2>1. \A p \in Futexes : Lesser(F, F2, p, n2)
      BY <1>10, <1>11, <1>13, LesserTwice
    <2> QED BY <2>1, <1>12, <1>13, LesserTwice
  <1>15. \A p \in Futexes : ~Holds(me, p) => H[p] = F[p]
    BY <1>10, <1>11, <1>12 DEF Holds, a, b, c
  <1>16. Balanced(futex', RefsOf(fu'))
    BY <1>12, <1>13 DEF Balanced, H
  <1>17. \A p \in Futexes :
            /\ futex'[p].in_tree = futex[p].in_tree
            /\ SameList(futex, futex', p) \/ (futex'[p].waiters = <<>> /\ ~futex'[p].in_tree)
            /\ RefsOf(fu')[p] # 0 /\ futex[p].ref # 0 =>
                  /\ SameList(futex, futex', p)
                  /\ futex[p].lock # t /\ futex[p].lock # NoOne => futex'[p].lock = futex[p].lock
            /\ futex[p].ref = 1 /\ ~futex[p].in_tree /\ ~Holds(fu[t], p) => futex'[p].ref = 1
    BY <1>13, <1>14, <1>15 DEF Lesser, SameList, Same, F, H, me
  <1>18. /\ futex' \in [Futexes -> FuObj] /\ FuRestOK' /\ treeLock' = treeLock
         /\ fu'[t].waiter = fu[t].waiter
         /\ HasLocks(t, FuIdle, futex', treeLock') /\ HasFound(FuIdle, futex')
    BY <1>1, <1>2, <1>3, <1>5, <1>12 DEF FuRestOK, FuIdle, HasLocks, HasFound, H, me
  <1> QED BY <1>1, <1>2, <1>4, <1>5, <1>16, <1>17, <1>18, QuietInv

-----------------------------------------------------------------------------
(* The work under the locks                                                *)

(* Lists that are as they were. *)
LEMMA ListsKept ==
    ASSUME NEW F \in [Futexes -> FuObj], NEW f \in [FuThreads -> FuRec], NEW s, ListsAgree(F, f, s),
           NEW G \in [Futexes -> FuObj], NEW g \in [FuThreads -> FuRec],
           \A x \in FuThreads : g[x].waiter = f[x].waiter,
           \A p \in Futexes : /\ G[p].waiters = F[p].waiters /\ G[p].uaddr = F[p].uaddr
                              /\ F[p].waiters # <<>> => G[p].in_tree = F[p].in_tree
    PROVE  ListsAgree(G, g, s)
  <1> DEFINE Q(p) == F[p].waiters
  <1>1. \A p \in Futexes : \A i \in DOMAIN Q(p) : Q(p)[i] \in FuThreads /\ Q(p) # <<>>
    <2>1. \A p \in Futexes : Q(p) \in Seq(FuThreads)
      BY DEF FuObj
    <2> QED BY <2>1
  <1>2. \A x \in FuThreads : f[x].waiter # NoFutex => f[x].waiter \in Futexes
    BY DEF FuRec
  <1>3. /\ \A p \in Futexes : \A i, j \in DOMAIN Q(p) : Q(p)[i] = Q(p)[j] => i = j
        /\ \A p \in Futexes : \A i \in DOMAIN Q(p) :
              /\ f[Q(p)[i]].waiter = p /\ F[p].in_tree /\ s[Q(p)[i]] = F[p].uaddr
        /\ \A x \in FuThreads : s[x] # NoAddr =>
              /\ f[x].waiter # NoFutex
              /\ \E i \in DOMAIN Q(f[x].waiter) : Q(f[x].waiter)[i] = x
    BY DEF ListsAgree
  <1>4. \A p \in Futexes : /\ G[p].waiters = Q(p) /\ G[p].uaddr = F[p].uaddr
                           /\ Q(p) # <<>> => G[p].in_tree = F[p].in_tree
    OBVIOUS
  <1> HIDE DEF Q
  <1>5. \A p \in Futexes : \A i, j \in DOMAIN G[p].waiters :
           G[p].waiters[i] = G[p].waiters[j] => i = j
    BY <1>3, <1>4
  <1>6. \A p \in Futexes : \A i \in DOMAIN G[p].waiters :
           /\ g[G[p].waiters[i]].waiter = p /\ G[p].in_tree /\ s[G[p].waiters[i]] = G[p].uaddr
    BY <1>1, <1>3, <1>4
  <1>7. \A x \in FuThreads : s[x] # NoAddr =>
           /\ g[x].waiter # NoFutex
           /\ \E i \in DOMAIN G[g[x].waiter].waiters : G[g[x].waiter].waiters[i] = x
    BY <1>2, <1>3, <1>4
  <1> QED BY <1>5, <1>6, <1>7 DEF ListsAgree

(* A thread releases its locks. *)
LEMMA ReleaseStep ==
    ASSUME FuInv, NEW t \in FuThreads,
           NEW new \in FuRec, fu' = [fu EXCEPT ![t] = new],
           new.pc \in {"relock", "wake_queue", "sleep"}, FuShape(new),
           NEW G \in [Futexes -> FuObj], futex' = Unlock(G, t), Balanced(G, RefsOf(fu')),
           treeLock' = treeLock \/ (treeLock = t /\ treeLock' = NoOne), FuRestOK',
           \A p \in Futexes :
              /\ G[p].uaddr = futex[p].uaddr /\ G[p].lock = futex[p].lock
              /\ G[p].in_tree # futex[p].in_tree =>
                    ~G[p].in_tree /\ futex[p].lock = t /\ treeLock = t
              /\ futex[p].ref = 1 /\ ~futex[p].in_tree /\ ~Holds(fu[t], p) => G[p].ref = 1,
           ListsAgree(G, fu', sleepsAt')
    PROVE  FuInv'
  <1>1. /\ fu \in [FuThreads -> FuRec] /\ futex \in [Futexes -> FuObj]
        /\ treeLock \in FuThreads \cup {NoOne} /\ OneEach(futex)
    BY ThreadFacts DEF FuInv
  <1>2. /\ fu' \in [FuThreads -> FuRec] /\ fu'[t] = new
        /\ \A x \in FuThreads : x # t => fu'[x] = fu[x]
    BY <1>1
  <1>3. /\ futex' \in [Futexes -> FuObj] /\ Balanced(futex', RefsOf(fu'))
        /\ \A p \in Futexes : /\ futex'[p].uaddr = G[p].uaddr /\ futex'[p].in_tree = G[p].in_tree
                              /\ futex'[p].waiters = G[p].waiters /\ futex'[p].ref = G[p].ref
                              /\ G[p].lock # t => futex'[p].lock = G[p].lock
    <2> DEFINE H == futex'   n == RefsOf(fu')
    <2>1. H = Unlock(G, t) /\ Balanced(G, n)
      OBVIOUS
    <2> HIDE DEF H, n
    <2>2. /\ H \in [Futexes -> FuObj] /\ Balanced(H, n)
          /\ \A p \in Futexes : /\ H[p].uaddr = G[p].uaddr /\ H[p].in_tree = G[p].in_tree
                                /\ H[p].waiters = G[p].waiters /\ H[p].ref = G[p].ref
                                /\ G[p].lock # t => H[p].lock = G[p].lock
      BY <2>1, UnlockObject
    <2> QED BY <2>2 DEF H, n
  <1>4. \A p \in Futexes : G[p].in_tree \in BOOLEAN /\ futex[p].in_tree \in BOOLEAN
    BY <1>1 DEF FuObj
  <1>5. \A p \in Futexes : futex'[p].in_tree => futex[p].in_tree
    BY <1>3, <1>4
  <1>6. OneEach(futex')
    BY <1>1, <1>3, <1>5 DEF OneEach
  <1>7. ListsAgree(futex', fu', sleepsAt')
    <2> DEFINE H == futex'   f == fu'   s == sleepsAt'
    <2>1. /\ ListsAgree(G, f, s) /\ f \in [FuThreads -> FuRec] /\ H \in [Futexes -> FuObj]
          /\ \A p \in Futexes : /\ H[p].uaddr = G[p].uaddr /\ H[p].in_tree = G[p].in_tree
                                /\ H[p].waiters = G[p].waiters
      BY <1>2, <1>3
    <2> HIDE DEF H, f, s
    <2>2. ListsAgree(H, f, s)
      BY <2>1, ListsKept
    <2> QED BY <2>2 DEF H, f, s
  <1>8. Gentle(t, fu[t], futex, futex', treeLock, treeLock', RefsOf(fu'))
    <2>1. \A p \in Futexes :
             /\ futex'[p].uaddr = futex[p].uaddr
             /\ futex[p].lock # t => futex'[p].lock = futex[p].lock
             /\ futex[p].in_tree /\ ~futex'[p].in_tree => futex[p].lock = t /\ treeLock = t
             /\ futex[p].ref = 1 /\ ~futex[p].in_tree /\ ~Holds(fu[t], p) =>
                   futex'[p].ref = 1 /\ ~futex'[p].in_tree
      BY <1>3, <1>4, <1>5
    <2>2. treeLock # t /\ treeLock # NoOne => treeLock' = treeLock
      OBVIOUS
    <2> QED BY <2>1, <2>2 DEF Gentle
  <1>9. HasLocks(t, new, futex', treeLock') /\ HasFound(new, futex')
    BY DEF HasLocks, HasFound
  <1>10. treeLock' \in FuThreads \cup {NoOne}
    BY <1>1
  <1> QED BY <1>2, <1>3, <1>6, <1>7, <1>8, <1>9, <1>10, StepInv

(* The threads in S, whose waiter is o, are taken off its list. *)
Removed(F, G, f, g, s, s2, o, S) ==
    /\ S \subseteq FuThreads /\ \A x \in S : f[x].waiter = o
    /\ \A p \in Futexes : /\ p # o => G[p].waiters = F[p].waiters
                          /\ G[p].uaddr = F[p].uaddr /\ G[p].in_tree = F[p].in_tree
    /\ IsKept(G[o].waiters, F[o].waiters, S, Len(F[o].waiters))
    /\ \A x \in FuThreads : x \notin S => g[x].waiter = f[x].waiter
    /\ \A x \in FuThreads : s2[x] = IF x \in S THEN NoAddr ELSE s[x]

LEMMA RemovedLists ==
    ASSUME NEW F \in [Futexes -> FuObj], NEW f \in [FuThreads -> FuRec], NEW s, ListsAgree(F, f, s),
           NEW o \in Futexes, NEW S, NEW G \in [Futexes -> FuObj], NEW g, NEW s2,
           Removed(F, G, f, g, s, s2, o, S)
    PROVE  ListsAgree(G, g, s2)
  <1> USE DEF Removed
  <1> DEFINE Q(p) == F[p].waiters   R(p) == G[p].waiters
  <1>1. \A p \in Futexes : Q(p) \in Seq(FuThreads) /\ R(p) \in Seq(FuThreads)
    BY DEF FuObj
  <1>2. \A p \in Futexes : \A i \in DOMAIN Q(p) : Q(p)[i] \in FuThreads
    BY <1>1
  <1>3. \A i \in DOMAIN R(o) : R(o)[i] \notin S /\ \E a \in DOMAIN Q(o) : R(o)[i] = Q(o)[a]
    <2>1. DOMAIN Q(o) = 1..Len(Q(o))
      BY <1>1
    <2> QED BY <2>1 DEF IsKept
  <1>4. \A a \in DOMAIN Q(o) : Q(o)[a] \notin S => \E i \in DOMAIN R(o) : R(o)[i] = Q(o)[a]
    <2>1. DOMAIN Q(o) = 1..Len(Q(o))
      BY <1>1
    <2> QED BY <2>1 DEF IsKept
  <1>5. \A i, j \in DOMAIN R(o) : R(o)[i] = R(o)[j] => i = j
    BY DEF IsKept, OneToOne
  <1>6. /\ \A p \in Futexes : \A i, j \in DOMAIN Q(p) : Q(p)[i] = Q(p)[j] => i = j
        /\ \A p \in Futexes : \A i \in DOMAIN Q(p) :
              /\ f[Q(p)[i]].waiter = p /\ F[p].in_tree /\ s[Q(p)[i]] = F[p].uaddr
        /\ \A x \in FuThreads : s[x] # NoAddr =>
              /\ f[x].waiter # NoFutex
              /\ \E i \in DOMAIN Q(f[x].waiter) : Q(f[x].waiter)[i] = x
    BY DEF ListsAgree
  <1>7. \A p \in Futexes : p # o => R(p) = Q(p)
    OBVIOUS
  <1>8. \A p \in Futexes : G[p].uaddr = F[p].uaddr /\ G[p].in_tree = F[p].in_tree
    OBVIOUS
  <1> HIDE DEF Q, R
  <1>9. \A p \in Futexes : \A i, j \in DOMAIN R(p) : R(p)[i] = R(p)[j] => i = j
    BY <1>5, <1>6, <1>7
  <1>10. ASSUME NEW p \in Futexes, NEW i \in DOMAIN R(p)
         PROVE  /\ R(p)[i] \in FuThreads /\ R(p)[i] \notin S
                /\ \E a \in DOMAIN Q(p) : R(p)[i] = Q(p)[a]
    <2>1. CASE p = o
      BY <1>2, <1>3, <2>1
    <2>2. CASE p # o
      BY <1>2, <1>6, <1>7, <2>2
    <2> QED BY <2>1, <2>2
  <1>11. ASSUME NEW p \in Futexes, NEW i \in DOMAIN R(p)
         PROVE  g[R(p)[i]].waiter = p /\ G[p].in_tree /\ s2[R(p)[i]] = G[p].uaddr
    <2>1. PICK a \in DOMAIN Q(p) : R(p)[i] = Q(p)[a]
      BY <1>10
    <2>2. f[Q(p)[a]].waiter = p /\ F[p].in_tree /\ s[Q(p)[a]] = F[p].uaddr
      BY <1>6
    <2>3. R(p)[i] \in FuThreads /\ R(p)[i] \notin S
      BY <1>10
    <2> QED BY <1>8, <2>1, <2>2, <2>3
  <1>12. ASSUME NEW x \in FuThreads, s2[x] # NoAddr
         PROVE  g[x].waiter # NoFutex /\ \E i \in DOMAIN R(g[x].waiter) : R(g[x].waiter)[i] = x
    <2>1. x \notin S /\ s[x] # NoAddr /\ g[x].waiter = f[x].waiter
      BY <1>12
    <2>2. f[x].waiter # NoFutex /\ f[x].waiter \in Futexes
      <3>1. f[x] \in FuRec
        OBVIOUS
      <3> QED BY <1>6, <2>1, <3>1 DEF FuRec
    <2>3. PICK a \in DOMAIN Q(f[x].waiter) : Q(f[x].waiter)[a] = x
      BY <1>6, <2>1
    <2> QED BY <1>4, <1>7, <2>1, <2>2, <2>3
  <1> QED BY <1>9, <1>11, <1>12 DEF ListsAgree, R

LEMMA DequeueStep ==
    ASSUME FuInv, NEW t \in FuThreads, FuDequeue(t)
    PROVE  FuInv'
  <1> DEFINE me == fu[t]
             new == [me EXCEPT !.pc = "wake_queue"]
             F == futex   n == RefsOf(fu)
             F1 == MaybeDequeue(F, me.f1)
             F2 == MaybeDequeue(F1, me.f2)
  <1>1. /\ me.pc = "dequeue" /\ UNCHANGED <<word, sleepsAt, todo>> /\ treeLock' = NoOne
        /\ futex' = Unlock(F2, t) /\ fu' = [fu EXCEPT ![t] = new]
    BY DEF FuDequeue
  <1>2. /\ fu \in [FuThreads -> FuRec] /\ F \in [Futexes -> FuObj] /\ me \in FuRec
        /\ FuShape(me) /\ HasLocks(t, me, F, treeLock)
        /\ me.f1 \in Futexes \cup {NoFutex} /\ me.f2 \in Futexes \cup {NoFutex}
        /\ FuRestOK /\ NoFutex \notin Futexes /\ n \in [Futexes -> Nat] /\ Balanced(F, n)
    BY ThreadFacts, RefsOfType
  <1>3. /\ treeLock = t /\ me.waiter = NoFutex /\ me.stage = "dequeue"
        /\ me.f1 # NoFutex => F[me.f1].lock = t
        /\ me.f2 # NoFutex => F[me.f2].lock = t
    BY <1>1, <1>2 DEF HasLocks, FuShape, Waits
  <1>4. new \in FuRec
    BY <1>2 DEF FuRec, FuPlaces
  <1>5. /\ new.pc = "wake_queue" /\ new.stage = me.stage /\ new.f1 = me.f1 /\ new.f2 = me.f2
        /\ new.tmp = me.tmp /\ new.waiter = me.waiter /\ new.call = me.call
    BY <1>2 DEF FuRec
  <1>6. FuShape(new)
    BY <1>1, <1>2, <1>3, <1>5 DEF FuShape, Waits
  <1> HIDE DEF new
  <1>7. /\ \A x \in FuThreads : fu'[x].waiter = fu[x].waiter
        /\ \A p \in Futexes : RefsOf(fu')[p] = n[p]
        /\ me.f1 # NoFutex => n[me.f1] >= 1
        /\ me.f2 # NoFutex => n[me.f2] >= 1
    <2>1. fu' = [fu EXCEPT ![t] = new]
      BY <1>1
    <2>2. /\ fu'[t] = new /\ \A x \in FuThreads : x # t => fu'[x] = fu[x]
          /\ \A p \in Futexes :
                /\ Uses(fu[t], p) \in Nat /\ Uses(new, p) \in Nat
                /\ Uses(fu[t], p) <= RefsOf(fu)[p]
                /\ RefsOf(fu')[p] = RefsOf(fu)[p] - Uses(fu[t], p) + Uses(new, p)
      <3> HIDE DEF F, me, n, F1, F2
      <3> QED BY <1>4, <2>1, RefsNow
    <2>3. \A p \in Futexes : Uses(new, p) = Uses(fu[t], p) /\ n[p] \in Nat
      BY <1>2, <1>5 DEF Uses
    <2>4. \A p \in Futexes : Holds(me, p) => Uses(me, p) >= 1
      BY UsesType
    <2>5. \A p \in {me.f1, me.f2} : p # NoFutex => n[p] >= 1
      BY <1>2, <2>2, <2>3, <2>4 DEF Holds
    <2> QED BY <1>3, <1>5, <2>2, <2>3, <2>5
  <1>8. /\ F1 \in [Futexes -> FuObj] /\ Balanced(F1, n)
        /\ \A p \in Futexes : /\ p # me.f1 => F1[p] = F[p]
                              /\ F1[p].uaddr = F[p].uaddr /\ F1[p].waiters = F[p].waiters
                              /\ F1[p].lock = F[p].lock
                              /\ F1[p].in_tree # F[p].in_tree =>
                                    p = me.f1 /\ ~F1[p].in_tree /\ F[p].waiters = <<>>
    <2> DEFINE o == me.f1
    <2>1. /\ F \in [Futexes -> FuObj] /\ n \in [Futexes -> Nat] /\ Balanced(F, n)
          /\ o \in Futexes \cup {NoFutex} /\ (o # NoFutex => n[o] >= 1)
          /\ F1 = MaybeDequeue(F, o)
      BY <1>2, <1>7
    <2> HIDE DEF F, n, me, o, F1
    <2>2. /\ F1 \in [Futexes -> FuObj] /\ Balanced(F1, n)
          /\ \A p \in Futexes : /\ p # o => F1[p] = F[p]
                                /\ F1[p].uaddr = F[p].uaddr /\ F1[p].waiters = F[p].waiters
                                /\ F1[p].lock = F[p].lock
                                /\ F1[p].in_tree # F[p].in_tree =>
                                      p = o /\ ~F1[p].in_tree /\ F[p].waiters = <<>>
      BY <2>1, DequeueObject
    <2> QED BY <2>2 DEF o
  <1> HIDE DEF F1
  <1>9. /\ F2 \in [Futexes -> FuObj] /\ Balanced(F2, n)
        /\ \A p \in Futexes : /\ p # me.f2 => F2[p] = F1[p]
                              /\ F2[p].uaddr = F1[p].uaddr /\ F2[p].waiters = F1[p].waiters
                              /\ F2[p].lock = F1[p].lock
                              /\ F2[p].in_tree # F1[p].in_tree =>
                                    p = me.f2 /\ ~F2[p].in_tree /\ F1[p].waiters = <<>>
    <2> HIDE DEF F, n, me
    <2> QED BY <1>2, <1>7, <1>8, DequeueObject
  <1> HIDE DEF F2, n
  <1>10. Balanced(F2, RefsOf(fu'))
    BY <1>7, <1>9 DEF Balanced
  <1>11. \A p \in Futexes :
            /\ F2[p].uaddr = F[p].uaddr /\ F2[p].lock = F[p].lock /\ F2[p].waiters = F[p].waiters
            /\ F2[p].in_tree # F[p].in_tree =>
                  ~F2[p].in_tree /\ F[p].lock = t /\ treeLock = t /\ F[p].waiters = <<>>
            /\ ~Holds(me, p) => F2[p] = F[p]
    BY <1>2, <1>3, <1>8, <1>9 DEF Holds, FuObj
  <1>12. ListsAgree(F2, fu', sleepsAt')
    <2> DEFINE f == fu   g == fu'   s == sleepsAt
    <2>1. /\ ListsAgree(F, f, s) /\ f \in [FuThreads -> FuRec] /\ g \in [FuThreads -> FuRec]
          /\ \A x \in FuThreads : g[x].waiter = f[x].waiter
      BY <1>1, <1>2, <1>4, <1>7 DEF FuInv
    <2>2. \A p \in Futexes : /\ F2[p].waiters = F[p].waiters /\ F2[p].uaddr = F[p].uaddr
                             /\ F[p].waiters # <<>> => F2[p].in_tree = F[p].in_tree
      BY <1>11
    <2> HIDE DEF F, f, g, s, me
    <2>3. ListsAgree(F2, g, s)
      BY <1>2, <1>9, <2>1, <2>2, ListsKept
    <2> QED BY <1>1, <2>3 DEF g, s
  <1>13. FuRestOK'
    BY <1>1, <1>2 DEF FuRestOK
  <1> QED BY <1>1, <1>3, <1>4, <1>5, <1>6, <1>9, <1>10, <1>11, <1>12, <1>13, ReleaseStep

(* The end of the work on the lists: FuUnlock. *)
LEMMA UnlockStep ==
    ASSUME FuInv, NEW t \in FuThreads, fu[t].pc \in {"work", "leave"},
           NEW me \in FuRec, me.call = fu[t].call, me.f1 = fu[t].f1, me.f2 = fu[t].f2,
           me.tmp = fu[t].tmp, me.waiter = NoFutex,
           NEW G \in [Futexes -> FuObj], NEW d, FuUnlock(t, me, G, d),
           Balanced(G, Minus(RefsOf(fu), fu[t].waiter)),
           treeLock' = treeLock \/ (treeLock = t /\ treeLock' = NoOne), FuRestOK',
           \A p \in Futexes :
              /\ G[p].uaddr = futex[p].uaddr /\ G[p].lock = futex[p].lock
              /\ G[p].in_tree = futex[p].in_tree
              /\ futex[p].ref = 1 /\ ~futex[p].in_tree /\ ~Holds(fu[t], p) => G[p].ref = 1,
           ListsAgree(G, [fu EXCEPT ![t] = me], sleepsAt')
    PROVE  FuInv'
  <1> DEFINE pc == IF d THEN "relock" ELSE "wake_queue"
             new == [me EXCEPT !.pc = pc, !.stage = "dequeue"]
  <1>1. fu' = [fu EXCEPT ![t] = new] /\ futex' = Unlock(G, t)
    BY DEF FuUnlock
  <1>a. pc \in {"relock", "wake_queue"}
    OBVIOUS
  <1> HIDE DEF pc
  <1>2. /\ fu \in [FuThreads -> FuRec] /\ FuShape(fu[t]) /\ fu[t].call \in FuLegal
        /\ NoFutex \notin Futexes /\ fu[t].waiter \in Futexes \cup {NoFutex}
    BY ThreadFacts
  <1>3. /\ new \in FuRec /\ new.pc = pc /\ new.stage = "dequeue" /\ new.call = me.call
        /\ new.f1 = me.f1 /\ new.f2 = me.f2 /\ new.tmp = me.tmp /\ new.waiter = me.waiter
    <2>1. new = [me EXCEPT !.pc = pc, !.stage = "dequeue"]
      OBVIOUS
    <2> HIDE DEF new
    <2>2. me \in FuRec
      OBVIOUS
    <2> QED BY ONLY <1>a, <2>1, <2>2 DEF FuRec, FuPlaces
  <1>4. /\ new.pc \in {"relock", "wake_queue"} /\ new.stage = "dequeue" /\ new.call = fu[t].call
        /\ new.f1 = fu[t].f1 /\ new.f2 = fu[t].f2 /\ new.tmp = fu[t].tmp /\ new.waiter = NoFutex
    BY <1>3, <1>a
  <1> HIDE DEF new
  <1>5. FuShape(new)
    BY <1>2, <1>4 DEF FuShape, Waits
  <1>6. /\ fu' \in [FuThreads -> FuRec] /\ fu'[t] = new
        /\ \A x \in FuThreads : x # t => fu'[x] = fu[x]
        /\ RefsOf(fu) \in [Futexes -> Nat] /\ RefsOf(fu') \in [Futexes -> Nat]
        /\ \A p \in Futexes :
              /\ Uses(fu[t], p) \in Nat /\ Uses(new, p) \in Nat
              /\ Uses(fu[t], p) <= RefsOf(fu)[p]
              /\ RefsOf(fu')[p] = RefsOf(fu)[p] - Uses(fu[t], p) + Uses(new, p)
    BY <1>1, <1>3, RefsNow
  <1>7. Balanced(G, RefsOf(fu'))
    <2>1. \A p \in Futexes : Uses(fu[t], p) = Uses(new, p) + OneIf(p = fu[t].waiter)
      BY <1>2, <1>4 DEF Uses, OneIf
    <2>2. \A p \in Futexes : RefsOf(fu)[p] \in Nat /\ OneIf(p = fu[t].waiter) \in Nat
      BY <1>6 DEF OneIf
    <2>3. \A p \in Futexes : RefsOf(fu')[p] = RefsOf(fu)[p] - OneIf(p = fu[t].waiter)
      BY <1>6, <2>1, <2>2
    <2>4. \A p \in Futexes : Minus(RefsOf(fu), fu[t].waiter)[p] = RefsOf(fu)[p] - OneIf(p = fu[t].waiter)
      BY DEF Minus
    <2> QED BY <2>3, <2>4 DEF Balanced
  <1>8. ListsAgree(G, fu', sleepsAt')
    <2> DEFINE f == [fu EXCEPT ![t] = me]   g == fu'   s == sleepsAt'
    <2>1. /\ f \in [FuThreads -> FuRec] /\ g \in [FuThreads -> FuRec] /\ ListsAgree(G, f, s)
          /\ \A x \in FuThreads : g[x].waiter = f[x].waiter
      BY <1>2, <1>4, <1>6
    <2> HIDE DEF f, g, s
    <2>2. ListsAgree(G, g, s)
      BY <2>1, ListsKept
    <2> QED BY <2>2 DEF g, s
  <1> QED BY <1>1, <1>3, <1>4, <1>5, <1>7, <1>8, ReleaseStep

(* Thread t, which waited nowhere, comes to the end of the list of futex o. *)
Added(F, G, f, g, s, s2, o, t) ==
    /\ F[o].in_tree /\ F[o].uaddr # NoAddr /\ f[t].waiter = NoFutex
    /\ \A p \in Futexes : /\ p # o => G[p].waiters = F[p].waiters
                          /\ G[p].uaddr = F[p].uaddr /\ G[p].in_tree = F[p].in_tree
    /\ G[o].waiters = Append(F[o].waiters, t) /\ g[t].waiter = o
    /\ \A x \in FuThreads : x # t => g[x].waiter = f[x].waiter
    /\ \A x \in FuThreads : s2[x] = IF x = t THEN F[o].uaddr ELSE s[x]

LEMMA AddedLists ==
    ASSUME NEW F \in [Futexes -> FuObj], NEW f \in [FuThreads -> FuRec], NEW s, ListsAgree(F, f, s),
           NEW o \in Futexes, NEW t \in FuThreads, NEW G \in [Futexes -> FuObj], NEW g, NEW s2,
           Added(F, G, f, g, s, s2, o, t)
    PROVE  ListsAgree(G, g, s2)
  <1> USE DEF Added
  <1> DEFINE Q(p) == F[p].waiters   R(p) == G[p].waiters   k == Len(Q(o)) + 1
  <1>0. NoFutex \notin Futexes
    BY FutexAssumption
  <1>1. \A p \in Futexes : Q(p) \in Seq(FuThreads) /\ R(p) \in Seq(FuThreads)
    BY DEF FuObj
  <1>2. \A p \in Futexes : \A i \in DOMAIN Q(p) : Q(p)[i] \in FuThreads
    BY <1>1
  <1>3. /\ \A p \in Futexes : \A i, j \in DOMAIN Q(p) : Q(p)[i] = Q(p)[j] => i = j
        /\ \A p \in Futexes : \A i \in DOMAIN Q(p) :
              /\ f[Q(p)[i]].waiter = p /\ F[p].in_tree /\ s[Q(p)[i]] = F[p].uaddr
        /\ \A x \in FuThreads : s[x] # NoAddr =>
              /\ f[x].waiter # NoFutex
              /\ \E i \in DOMAIN Q(f[x].waiter) : Q(f[x].waiter)[i] = x
    BY DEF ListsAgree
  <1>4. \A p \in Futexes : \A i \in DOMAIN Q(p) : Q(p)[i] # t
    BY <1>0, <1>3
  <1>5. /\ k \in DOMAIN R(o) /\ k \notin DOMAIN Q(o) /\ R(o)[k] = t
        /\ \A i \in DOMAIN R(o) : i = k \/ i \in DOMAIN Q(o)
        /\ \A i \in DOMAIN Q(o) : i \in DOMAIN R(o) /\ R(o)[i] = Q(o)[i]
    <2>1. Q(o) \in Seq(FuThreads) /\ R(o) = Append(Q(o), t)
      BY <1>1
    <2> HIDE DEF Q, R
    <2> QED BY <2>1, AppendProperties
  <1>6. \A p \in Futexes : p # o => R(p) = Q(p)
    OBVIOUS
  <1>7. \A p \in Futexes : G[p].uaddr = F[p].uaddr /\ G[p].in_tree = F[p].in_tree
    OBVIOUS
  <1> HIDE DEF Q, R, k
  <1>8. \A p \in Futexes : \A i, j \in DOMAIN R(p) : R(p)[i] = R(p)[j] => i = j
    <2>1. \A i, j \in DOMAIN R(o) : R(o)[i] = R(o)[j] => i = j
      BY <1>3, <1>4, <1>5
    <2> QED BY <1>3, <1>6, <2>1
  <1>9. ASSUME NEW p \in Futexes, NEW i \in DOMAIN R(p)
        PROVE  g[R(p)[i]].waiter = p /\ G[p].in_tree /\ s2[R(p)[i]] = G[p].uaddr
    <2>1. CASE p = o /\ i = k
      BY <1>5, <1>7, <2>1
    <2>2. CASE ~(p = o /\ i = k)
      <3>1. i \in DOMAIN Q(p) /\ R(p)[i] = Q(p)[i]
        BY <1>5, <1>6, <2>2
      <3>2. Q(p)[i] \in FuThreads /\ Q(p)[i] # t
        BY <1>2, <1>4, <3>1
      <3>3. g[Q(p)[i]].waiter = f[Q(p)[i]].waiter /\ s2[Q(p)[i]] = s[Q(p)[i]]
        BY <3>2
      <3> QED BY <1>3, <1>7, <3>1, <3>3
    <2> QED BY <2>1, <2>2
  <1>10. ASSUME NEW x \in FuThreads, s2[x] # NoAddr
         PROVE  g[x].waiter # NoFutex /\ \E i \in DOMAIN R(g[x].waiter) : R(g[x].waiter)[i] = x
    <2>1. CASE x = t
      BY <1>0, <1>5, <2>1
    <2>2. CASE x # t
      <3>1. s[x] # NoAddr /\ g[x].waiter = f[x].waiter
        BY <1>10, <2>2
      <3>2. f[x].waiter # NoFutex /\ f[x].waiter \in Futexes
        <4>1. f[x] \in FuRec
          OBVIOUS
        <4> QED BY <1>3, <3>1, <4>1 DEF FuRec
      <3>3. PICK a \in DOMAIN Q(f[x].waiter) : Q(f[x].waiter)[a] = x
        BY <1>3, <3>1
      <3> QED BY <1>5, <1>6, <3>1, <3>2, <3>3
    <2> QED BY <2>1, <2>2
  <1> QED BY <1>8, <1>9, <1>10 DEF ListsAgree, R

LEMMA WaitStep ==
    ASSUME FuInv, NEW t \in FuThreads, FuWait(t)
    PROVE  FuInv'
  <1> DEFINE me == fu[t]
             o == me.f1
  <1>1. /\ me.pc = "work" /\ me.call.op = "wait" /\ UNCHANGED <<word, treeLock, todo>>
        /\ \/ /\ FuUnlock(t, [me EXCEPT !.ret = "EAGAIN"], futex, CheckDequeue(futex, o))
              /\ UNCHANGED sleepsAt
           \/ /\ futex' = Unlock([futex EXCEPT ![o].waiters = Append(@, t)], t)
              /\ fu' = [fu EXCEPT ![t] = [me EXCEPT !.pc = "sleep", !.waiter = o, !.f1 = NoFutex]]
              /\ sleepsAt' = [sleepsAt EXCEPT ![t] = me.call.u1]
    BY DEF FuWait
  <1>2. /\ fu \in [FuThreads -> FuRec] /\ futex \in [Futexes -> FuObj] /\ me \in FuRec
        /\ FuShape(me) /\ HasFound(me, futex)
        /\ me.f1 \in Futexes \cup {NoFutex} /\ me.tmp \in Futexes \cup {NoFutex}
        /\ FuRestOK /\ NoFutex \notin Futexes /\ me.call \in FuLegal
        /\ RefsOf(fu) \in [Futexes -> Nat] /\ Balanced(futex, RefsOf(fu))
        /\ ListsAgree(futex, fu, sleepsAt)
    BY <1>1, ThreadFacts, RefsOfType DEF FuInv
  <1>3. /\ me.waiter = NoFutex /\ me.stage = "work" /\ o \in Futexes /\ me.f2 = NoFutex
        /\ futex[o].in_tree /\ futex[o].uaddr = me.call.u1
    BY <1>1, <1>2 DEF FuShape, Waits, HasFound
  <1>4. CASE FuUnlock(t, [me EXCEPT !.ret = "EAGAIN"], futex, CheckDequeue(futex, o)) /\ UNCHANGED sleepsAt
    <2> DEFINE new == [me EXCEPT !.ret = "EAGAIN"]
    <2>1. new \in FuRec
      BY <1>2 DEF FuRec
    <2>2. /\ new.call = me.call /\ new.f1 = me.f1 /\ new.f2 = me.f2 /\ new.tmp = me.tmp
          /\ new.waiter = NoFutex
      BY <1>2, <1>3 DEF FuRec
    <2>3. Balanced(futex, Minus(RefsOf(fu), fu[t].waiter))
      <3>1. \A p \in Futexes : Minus(RefsOf(fu), fu[t].waiter)[p] = RefsOf(fu)[p]
        BY <1>2, <1>3 DEF Minus, OneIf
      <3> QED BY <1>2, <3>1 DEF Balanced
    <2>4. FuRestOK'
      BY <1>1, <1>2, <1>4 DEF FuRestOK
    <2> HIDE DEF new
    <2>5. ListsAgree(futex, [fu EXCEPT ![t] = new], sleepsAt')
      <3> DEFINE f == fu   g == [fu EXCEPT ![t] = new]   s == sleepsAt   F == futex
      <3>1. /\ f \in [FuThreads -> FuRec] /\ g \in [FuThreads -> FuRec] /\ ListsAgree(F, f, s)
            /\ \A x \in FuThreads : g[x].waiter = f[x].waiter
            /\ F \in [Futexes -> FuObj]
        BY <1>2, <1>3, <2>1, <2>2
      <3> HIDE DEF f, g, s, F
      <3>2. ListsAgree(F, g, s)
        BY <3>1, ListsKept
      <3> QED BY <1>4, <3>2 DEF g, s, F
    <2>6. FuUnlock(t, new, futex, CheckDequeue(futex, o))
      BY <1>4 DEF new
    <2> QED BY <1>1, <1>2, <2>1, <2>2, <2>3, <2>4, <2>5, <2>6, UnlockStep
  <1>5. CASE /\ futex' = Unlock([futex EXCEPT ![o].waiters = Append(@, t)], t)
             /\ fu' = [fu EXCEPT ![t] = [me EXCEPT !.pc = "sleep", !.waiter = o, !.f1 = NoFutex]]
             /\ sleepsAt' = [sleepsAt EXCEPT ![t] = me.call.u1]
    <2> DEFINE new == [me EXCEPT !.pc = "sleep", !.waiter = o, !.f1 = NoFutex]
               G == [futex EXCEPT ![o].waiters = Append(@, t)]
    <2>1. new \in FuRec
      BY <1>2 DEF FuRec, FuPlaces
    <2>2. /\ new.pc = "sleep" /\ new.stage = "work" /\ new.call = me.call /\ new.f1 = NoFutex
          /\ new.f2 = NoFutex /\ new.tmp = me.tmp /\ new.waiter = o
      BY <1>2, <1>3 DEF FuRec
    <2>3. /\ G \in [Futexes -> FuObj] /\ G[o].waiters = Append(futex[o].waiters, t)
          /\ \A p \in Futexes : /\ p # o => G[p] = futex[p]
                                /\ G[p].uaddr = futex[p].uaddr /\ G[p].in_tree = futex[p].in_tree
                                /\ G[p].lock = futex[p].lock /\ G[p].ref = futex[p].ref
      <3>1. futex[o] \in FuObj /\ futex[o].waiters \in Seq(FuThreads)
        BY <1>2, <1>3, ObjectTypes
      <3>2. Append(futex[o].waiters, t) \in Seq(FuThreads)
        BY <3>1
      <3>3. [futex[o] EXCEPT !.waiters = Append(futex[o].waiters, t)] \in FuObj
        BY <3>1, <3>2, ObjectTypes
      <3>4. G = [futex EXCEPT ![o] = [futex[o] EXCEPT !.waiters = Append(futex[o].waiters, t)]]
        OBVIOUS
      <3> QED BY <1>2, <1>3, <3>1, <3>3, <3>4 DEF FuObj
    <2> HIDE DEF new, G
    <2>4. fu' = [fu EXCEPT ![t] = new] /\ futex' = Unlock(G, t)
      BY <1>5 DEF new, G
    <2>5. FuShape(new)
      BY <1>1, <1>2, <1>3, <2>2 DEF FuShape, Waits
    <2>6. /\ fu' \in [FuThreads -> FuRec] /\ fu'[t] = new
          /\ \A x \in FuThreads : x # t => fu'[x] = fu[x]
          /\ \A p \in Futexes :
                /\ Uses(fu[t], p) \in Nat /\ Uses(new, p) \in Nat
                /\ Uses(fu[t], p) <= RefsOf(fu)[p]
                /\ RefsOf(fu')[p] = RefsOf(fu)[p] - Uses(fu[t], p) + Uses(new, p)
      <3>1. fu' = [fu EXCEPT ![t] = new]
        BY <2>4
      <3> HIDE DEF me, o
      <3> QED BY <2>1, <3>1, RefsNow, ZenonT(60)
    <2>7. Balanced(G, RefsOf(fu'))
      <3>1. \A p \in Futexes : Uses(fu[t], p) = Uses(new, p)
        BY <1>2, <1>3, <2>2 DEF Uses, OneIf
      <3>2. \A p \in Futexes : RefsOf(fu)[p] \in Nat
        BY <1>2
      <3>3. \A p \in Futexes : RefsOf(fu')[p] = RefsOf(fu)[p]
        BY <2>6, <3>1, <3>2
      <3>4. \A p \in Futexes : G[p].ref = futex[p].ref /\ InTree(G, p) = InTree(futex, p)
        BY <2>3 DEF InTree
      <3> QED BY <1>2, <3>3, <3>4 DEF Balanced
    <2>8. me.call.u1 \in FuAddrs /\ me.call.u1 # NoAddr
      <3> DEFINE c == me.call
      <3>1. c \in FuLegal
        BY <1>2
      <3> HIDE DEF c
      <3>2. c.u1 \in FuAddrs /\ c.u1 # NoAddr
        BY <3>1, LegalCall
      <3> QED BY <3>2 DEF c
    <2>9. /\ FuRestOK'
          /\ \A x \in FuThreads : sleepsAt'[x] = IF x = t THEN futex[o].uaddr ELSE sleepsAt[x]
      BY <1>1, <1>2, <1>3, <1>5, <2>8 DEF FuRestOK
    <2>10. ListsAgree(G, fu', sleepsAt')
      <3> DEFINE F == futex   f == fu   s == sleepsAt   g == fu'   s2 == sleepsAt'   p0 == o
      <3>1. /\ F \in [Futexes -> FuObj] /\ f \in [FuThreads -> FuRec] /\ ListsAgree(F, f, s)
            /\ p0 \in Futexes /\ G \in [Futexes -> FuObj]
        BY <1>2, <1>3, <2>3
      <3>2. Added(F, G, f, g, s, s2, p0, t)
        BY <1>3, <2>2, <2>3, <2>6, <2>8, <2>9 DEF Added
      <3> HIDE DEF F, f, s, g, s2, p0
      <3>4. ListsAgree(G, g, s2)
        BY <3>1, <3>2, AddedLists
      <3> QED BY <3>4 DEF g, s2
    <2>11. new.pc \in {"relock", "wake_queue", "sleep"} /\ treeLock' = treeLock
      BY <1>1, <2>2
    <2>12. \A p \in Futexes :
              /\ G[p].uaddr = futex[p].uaddr /\ G[p].lock = futex[p].lock
              /\ G[p].in_tree # futex[p].in_tree =>
                    ~G[p].in_tree /\ futex[p].lock = t /\ treeLock = t
              /\ futex[p].ref = 1 /\ ~futex[p].in_tree /\ ~Holds(fu[t], p) => G[p].ref = 1
      BY <2>3
    <2>13. G \in [Futexes -> FuObj] /\ FuRestOK'
      BY <2>3, <2>9
    <2> HIDE DEF me, o
    <2> QED BY <2>1, <2>4, <2>5, <2>7, <2>10, <2>11, <2>12, <2>13, ReleaseStep
  <1> QED BY <1>1, <1>4, <1>5

(* Only threads on the list are woken. *)
LEMMA FirstOnList ==
    ASSUME NEW F, NEW o, NEW bits, NEW n, NEW x \in FirstWaiters(F, o, bits, n)
    PROVE  o # NoFutex /\ \E i \in DOMAIN F[o].waiters : x = F[o].waiters[i]
  BY DEF FirstWaiters

(* A futex of which the first waiters are taken off the list. *)
Thinned(F, G, f, s, S) ==
    /\ S \subseteq FuThreads
    /\ \A p \in Futexes : /\ G[p].uaddr = F[p].uaddr /\ G[p].in_tree = F[p].in_tree
                          /\ G[p].lock = F[p].lock /\ G[p].ref = F[p].ref
    /\ \A r : (\A x \in FuThreads : r[x] = IF x \in S THEN NoAddr ELSE s[x]) =>
                 ListsAgree(G, f, r)

LEMMA WakeObject ==
    ASSUME NEW F \in [Futexes -> FuObj], NEW n, Balanced(F, n),
           NEW f \in [FuThreads -> FuRec], NEW s, ListsAgree(F, f, s),
           NEW o \in Futexes \cup {NoFutex}, NEW bits, NEW k, NEW S, S = ToWake(F, o, bits, k),
           NEW G, G = IF o = NoFutex THEN F ELSE RemoveWaiters(F, o, S)
    PROVE  G \in [Futexes -> FuObj] /\ Balanced(G, n) /\ Thinned(F, G, f, s, S)
  <1>0. NoFutex \notin Futexes
    BY FutexAssumption
  <1>1. ASSUME NEW x \in S
        PROVE  o # NoFutex /\ \E i \in DOMAIN F[o].waiters : x = F[o].waiters[i]
    BY FirstOnList DEF ToWake
  <1>2. \A p \in Futexes : \A i \in DOMAIN F[p].waiters :
           F[p].waiters[i] \in FuThreads /\ f[F[p].waiters[i]].waiter = p
    <2>1. \A p \in Futexes : F[p].waiters \in Seq(FuThreads)
      BY DEF FuObj
    <2> QED BY <2>1 DEF ListsAgree
  <1>3. S \subseteq FuThreads /\ \A x \in S : f[x].waiter = o
    BY <1>1, <1>2
  <1>4. CASE o = NoFutex
    <2>1. S = {} /\ G = F
      BY <1>1, <1>4
    <2>2. ASSUME NEW r, \A x \in FuThreads : r[x] = IF x \in S THEN NoAddr ELSE s[x]
          PROVE  ListsAgree(G, f, r)
      <3>1. \A x \in FuThreads : r[x] = s[x]
        BY <2>1, <2>2
      <3>2. /\ \A p \in Futexes : \A i, j \in DOMAIN F[p].waiters :
                  F[p].waiters[i] = F[p].waiters[j] => i = j
            /\ \A p \in Futexes : \A i \in DOMAIN F[p].waiters :
                  /\ f[F[p].waiters[i]].waiter = p /\ F[p].in_tree
                  /\ r[F[p].waiters[i]] = F[p].uaddr
            /\ \A x \in FuThreads : r[x] # NoAddr =>
                  /\ f[x].waiter # NoFutex
                  /\ \E i \in DOMAIN F[f[x].waiter].waiters : F[f[x].waiter].waiters[i] = x
        BY <1>2, <3>1 DEF ListsAgree
      <3> QED BY <2>1, <3>2 DEF ListsAgree
    <2> QED BY <1>3, <2>1, <2>2 DEF Thinned
  <1>5. CASE o # NoFutex
    <2>1. o \in Futexes /\ G = RemoveWaiters(F, o, S) /\ OneToOne(F[o].waiters)
      BY <1>5 DEF ListsAgree, OneToOne
    <2>2. /\ G \in [Futexes -> FuObj] /\ Balanced(G, n)
          /\ \A p \in Futexes : /\ p # o => G[p] = F[p]
                                /\ G[p].uaddr = F[p].uaddr /\ G[p].in_tree = F[p].in_tree
                                /\ G[p].lock = F[p].lock /\ G[p].ref = F[p].ref
          /\ IsKept(G[o].waiters, F[o].waiters, S, Len(F[o].waiters))
      BY <2>1, RemoveObject
    <2>3. ASSUME NEW r, \A x \in FuThreads : r[x] = IF x \in S THEN NoAddr ELSE s[x]
          PROVE  ListsAgree(G, f, r)
      <3>1. Removed(F, G, f, f, s, r, o, S)
        BY <1>3, <2>2, <2>3 DEF Removed
      <3> QED BY <2>1, <2>2, <3>1, RemovedLists
    <2> QED BY <1>3, <2>2, <2>3 DEF Thinned
  <1> QED BY <1>4, <1>5

(* The work of FuWake and FuWakeOp ends with futexes G and the threads in S woken. *)
LEMMA WokenStep ==
    ASSUME FuInv, NEW t \in FuThreads, fu[t].pc = "work", fu[t].call.op \in {"wake", "wake_op"},
           NEW new \in FuRec, new.call = fu[t].call, new.f1 = fu[t].f1, new.f2 = fu[t].f2,
           new.tmp = fu[t].tmp, new.waiter = fu[t].waiter,
           NEW G \in [Futexes -> FuObj], NEW d, FuUnlock(t, new, G, d),
           Balanced(G, RefsOf(fu)), UNCHANGED treeLock, FuRestOK',
           \A p \in Futexes : /\ G[p].uaddr = futex[p].uaddr /\ G[p].lock = futex[p].lock
                              /\ G[p].in_tree = futex[p].in_tree /\ G[p].ref = futex[p].ref,
           ListsAgree(G, fu, sleepsAt')
    PROVE  FuInv'
  <1>1. /\ fu \in [FuThreads -> FuRec] /\ fu[t] \in FuRec /\ FuShape(fu[t]) /\ NoFutex \notin Futexes
    BY ThreadFacts
  <1>3. fu[t].waiter = NoFutex
    BY <1>1 DEF FuShape, Waits
  <1>4. /\ new.call = fu[t].call /\ new.f1 = fu[t].f1 /\ new.f2 = fu[t].f2 /\ new.tmp = fu[t].tmp
        /\ new.waiter = NoFutex
    BY <1>3
  <1>5. Balanced(G, Minus(RefsOf(fu), fu[t].waiter))
    <2>1. RefsOf(fu) \in [Futexes -> Nat]
      BY RefsOfType
    <2>2. \A p \in Futexes : Minus(RefsOf(fu), fu[t].waiter)[p] = RefsOf(fu)[p]
      BY <1>1, <1>3, <2>1 DEF Minus, OneIf
    <2> QED BY <2>2 DEF Balanced
  <1>7. ListsAgree(G, [fu EXCEPT ![t] = new], sleepsAt')
    <2> DEFINE f == fu   g == [fu EXCEPT ![t] = new]   s == sleepsAt'
    <2>1. /\ f \in [FuThreads -> FuRec] /\ g \in [FuThreads -> FuRec] /\ ListsAgree(G, f, s)
          /\ \A x \in FuThreads : g[x].waiter = f[x].waiter
      BY <1>1, <1>3, <1>4
    <2> HIDE DEF f, g, s
    <2>2. ListsAgree(G, g, s)
      BY <2>1, ListsKept
    <2> QED BY <2>2 DEF g, s
  <1>8. \A p \in Futexes :
           /\ G[p].uaddr = futex[p].uaddr /\ G[p].lock = futex[p].lock
           /\ G[p].in_tree = futex[p].in_tree
           /\ futex[p].ref = 1 /\ ~futex[p].in_tree /\ ~Holds(fu[t], p) => G[p].ref = 1
    OBVIOUS
  <1>9. treeLock' = treeLock
    OBVIOUS
  <1> QED BY <1>4, <1>5, <1>7, <1>8, <1>9, UnlockStep

LEMMA WokenRest ==
    ASSUME FuInv, NEW S, Woken(S), todo' = todo,
           word' = word \/ \E u \in FuAddrs, v \in Words : word' = [word EXCEPT ![u] = v]
    PROVE  FuRestOK' /\ \A x \in FuThreads : sleepsAt'[x] = IF x \in S THEN NoAddr ELSE sleepsAt[x]
  <1>1. FuRestOK
    BY DEF FuInv, FuTypeOK
  <1>2. word' \in [FuAddrs -> Nat \cup Words]
    BY <1>1 DEF FuRestOK
  <1> QED BY <1>1, <1>2 DEF FuRestOK, Woken

LEMMA WakeStep ==
    ASSUME FuInv, NEW t \in FuThreads, FuWake(t)
    PROVE  FuInv'
  <1> DEFINE me == fu[t]
             o == me.f1
             S == ToWake(futex, o, me.call.bits, me.call.n1)
             G == IF o = NoFutex THEN futex ELSE RemoveWaiters(futex, o, S)
  <1>1. /\ me.pc = "work" /\ me.call.op = "wake" /\ UNCHANGED <<word, treeLock, todo>> /\ Woken(S)
        /\ FuUnlock(t, me, RemoveWaiters(futex, o, S), CheckDequeue(RemoveWaiters(futex, o, S), o))
    BY Zenon DEF FuWake
  <1>2. /\ futex \in [Futexes -> FuObj] /\ fu \in [FuThreads -> FuRec] /\ me \in FuRec /\ FuShape(me)
        /\ ListsAgree(futex, fu, sleepsAt) /\ Balanced(futex, RefsOf(fu))
        /\ o \in Futexes \cup {NoFutex}
    BY ThreadFacts DEF FuInv
  <1>3. G = RemoveWaiters(futex, o, S)
    <2>1. o # NoFutex
      BY <1>1, <1>2 DEF FuShape
    <2> QED BY <2>1
  <1>4. G \in [Futexes -> FuObj] /\ Balanced(G, RefsOf(fu)) /\ Thinned(futex, G, fu, sleepsAt, S)
    <2> DEFINE F == futex   n == RefsOf(fu)   f == fu   s == sleepsAt
               bits == me.call.bits   k == me.call.n1
    <2>1. /\ F \in [Futexes -> FuObj] /\ f \in [FuThreads -> FuRec] /\ ListsAgree(F, f, s)
          /\ Balanced(F, n) /\ o \in Futexes \cup {NoFutex} /\ S = ToWake(F, o, bits, k)
          /\ G = IF o = NoFutex THEN F ELSE RemoveWaiters(F, o, S)
      BY <1>2
    <2> HIDE DEF F, n, f, s, bits, k, S, G, o, me
    <2>2. G \in [Futexes -> FuObj] /\ Balanced(G, n) /\ Thinned(F, G, f, s, S)
      BY <2>1, WakeObject
    <2> QED BY <2>2 DEF F, n, f, s
  <1>5. FuRestOK' /\ \A x \in FuThreads : sleepsAt'[x] = IF x \in S THEN NoAddr ELSE sleepsAt[x]
    <2> HIDE DEF S, me
    <2> QED BY <1>1, WokenRest
  <1>6. ListsAgree(G, fu, sleepsAt')
    <2> HIDE DEF G, S
    <2> QED BY <1>4, <1>5 DEF Thinned
  <1>8. FuUnlock(t, fu[t], G, CheckDequeue(G, o))
    <2> HIDE DEF G
    <2> QED BY <1>1, <1>3
  <1>9. fu[t].pc = "work" /\ fu[t].call.op \in {"wake", "wake_op"} /\ treeLock' = treeLock
    BY <1>1
  <1>10. \A p \in Futexes : /\ G[p].uaddr = futex[p].uaddr /\ G[p].lock = futex[p].lock
                            /\ G[p].in_tree = futex[p].in_tree /\ G[p].ref = futex[p].ref
    BY <1>4 DEF Thinned
  <1>11. G \in [Futexes -> FuObj] /\ Balanced(G, RefsOf(fu)) /\ FuRestOK'
    BY <1>4, <1>5
  <1>12. fu[t] \in FuRec
    BY <1>2
  <1> DEFINE d == CheckDequeue(G, o)
  <1>13. FuUnlock(t, fu[t], G, d)
    BY <1>8
  <1> HIDE DEF G, S, o, me, d
  <1> QED BY <1>6, <1>9, <1>10, <1>11, <1>12, <1>13, WokenStep

LEMMA WakeOpStep ==
    ASSUME FuInv, NEW t \in FuThreads, FuWakeOp(t)
    PROVE  FuInv'
  <1> DEFINE me == fu[t]
             call == me.call
             a == me.f1
             b == me.f2
             S1 == ToWake(futex, a, {}, call.n1)
             F1 == IF a = NoFutex THEN futex ELSE RemoveWaiters(futex, a, S1)
             S2 == ToWake(F1, b, {}, call.n2)
             F2 == IF b = NoFutex THEN F1 ELSE RemoveWaiters(F1, b, S2)
             d1 == CheckDequeue(F1, a)
             d2 == CheckDequeue(F1, a) \/ CheckDequeue(F2, b)
  <1>1. /\ me.pc = "work" /\ call.op = "wake_op" /\ UNCHANGED <<treeLock, todo>>
        /\ \E v \in Words : word' = [word EXCEPT ![call.u2] = v]
        /\ \/ /\ FuUnlock(t, [me EXCEPT !.ret = "ENOSYS"], futex, FALSE)
              /\ sleepsAt' = sleepsAt
           \/ Woken(S1) /\ FuUnlock(t, me, F1, d1)
           \/ Woken(S1 \cup S2) /\ FuUnlock(t, me, F2, d2)
    BY Zenon DEF FuWakeOp
  <1>2. /\ futex \in [Futexes -> FuObj] /\ fu \in [FuThreads -> FuRec] /\ me \in FuRec
        /\ ListsAgree(futex, fu, sleepsAt) /\ Balanced(futex, RefsOf(fu)) /\ FuRestOK
        /\ a \in Futexes \cup {NoFutex} /\ b \in Futexes \cup {NoFutex} /\ call \in FuLegal
    BY <1>1, ThreadFacts DEF FuInv
  <1>3. \E u \in FuAddrs, v \in Words : word' = [word EXCEPT ![u] = v]
    <2>1. call.u2 \in FuAddrs
      <3> HIDE DEF call
      <3> QED BY <1>2, LegalCall
    <2> QED BY <1>1, <2>1
  <1> DEFINE F == futex   n == RefsOf(fu)   f == fu   s == sleepsAt
             s1 == [x \in FuThreads |-> IF x \in S1 THEN NoAddr ELSE s[x]]
             none == {}   n1 == call.n1   n2 == call.n2
  <1>4. F1 \in [Futexes -> FuObj] /\ Balanced(F1, n) /\ Thinned(F, F1, f, s, S1)
    <2>1. /\ F \in [Futexes -> FuObj] /\ f \in [FuThreads -> FuRec] /\ ListsAgree(F, f, s)
          /\ Balanced(F, n) /\ a \in Futexes \cup {NoFutex} /\ S1 = ToWake(F, a, none, n1)
          /\ F1 = IF a = NoFutex THEN F ELSE RemoveWaiters(F, a, S1)
      BY <1>2
    <2> HIDE DEF F, n, f, s, none, n1, S1, F1, a, me
    <2> QED BY <2>1, WakeObject
  <1>5. F2 \in [Futexes -> FuObj] /\ Balanced(F2, n) /\ Thinned(F1, F2, f, s1, S2)
    <2>1. \A x \in FuThreads : s1[x] = IF x \in S1 THEN NoAddr ELSE s[x]
      <3> HIDE DEF S1
      <3> QED OBVIOUS
    <2>2. ListsAgree(F1, f, s1)
      <3> HIDE DEF F1, S1, f, s1, s, F
      <3> QED BY <1>4, <2>1 DEF Thinned
    <2>3. /\ f \in [FuThreads -> FuRec] /\ b \in Futexes \cup {NoFutex} /\ S2 = ToWake(F1, b, none, n2)
          /\ F2 = IF b = NoFutex THEN F1 ELSE RemoveWaiters(F1, b, S2)
      BY <1>2
    <2> HIDE DEF F, n, f, s, none, n2, S1, S2, F1, F2, a, b, me, s1
    <2> QED BY <1>4, <2>2, <2>3, WakeObject
  <1> HIDE DEF F1, F2, S1, S2, d1, d2
  <1>6. CASE FuUnlock(t, [me EXCEPT !.ret = "ENOSYS"], futex, FALSE) /\ sleepsAt' = sleepsAt
    <2> DEFINE new == [me EXCEPT !.ret = "ENOSYS"]
    <2>1. new \in FuRec
      BY <1>2 DEF FuRec
    <2>2. /\ new.call = fu[t].call /\ new.f1 = fu[t].f1 /\ new.f2 = fu[t].f2
          /\ new.tmp = fu[t].tmp /\ new.waiter = fu[t].waiter
      BY <1>2 DEF FuRec
    <2>3. FuUnlock(t, new, futex, FALSE)
      BY <1>6
    <2> HIDE DEF new
    <2>4. FuRestOK'
      BY <1>1, <1>2, <1>3, <1>6 DEF FuRestOK
    <2>5. fu[t].pc = "work" /\ fu[t].call.op \in {"wake", "wake_op"} /\ treeLock' = treeLock
      BY <1>1
    <2>6. futex \in [Futexes -> FuObj] /\ Balanced(futex, RefsOf(fu)) /\ ListsAgree(futex, fu, sleepsAt')
      BY <1>2, <1>6
    <2> QED BY <2>1, <2>2, <2>3, <2>4, <2>5, <2>6, WokenStep
  <1>7. ASSUME NEW S, NEW G \in [Futexes -> FuObj], NEW d, Woken(S), FuUnlock(t, fu[t], G, d),
               Balanced(G, RefsOf(fu)), Thinned(futex, G, fu, sleepsAt, S)
        PROVE  FuInv'
    <2>1. FuRestOK' /\ \A x \in FuThreads : sleepsAt'[x] = IF x \in S THEN NoAddr ELSE sleepsAt[x]
      <3>1. todo' = todo
        BY <1>1
      <3> HIDE DEF me, call
      <3> QED BY <1>3, <1>7, <3>1, WokenRest
    <2>2. /\ ListsAgree(G, fu, sleepsAt')
          /\ \A p \in Futexes : /\ G[p].uaddr = futex[p].uaddr /\ G[p].lock = futex[p].lock
                                /\ G[p].in_tree = futex[p].in_tree /\ G[p].ref = futex[p].ref
      BY <1>7, <2>1 DEF Thinned
    <2>3. /\ fu[t].pc = "work" /\ fu[t].call.op \in {"wake", "wake_op"} /\ treeLock' = treeLock
          /\ fu[t] \in FuRec
      BY <1>1, <1>2
    <2> QED BY <1>7, <2>1, <2>2, <2>3, WokenStep
  <1>8. CASE Woken(S1) /\ FuUnlock(t, me, F1, d1)
    BY <1>4, <1>7, <1>8
  <1>9. CASE Woken(S1 \cup S2) /\ FuUnlock(t, me, F2, d2)
    <2>1. Thinned(F, F2, f, s, S1 \cup S2)
      <3>1. S1 \cup S2 \subseteq FuThreads
        BY <1>4, <1>5 DEF Thinned
      <3>2. \A p \in Futexes : /\ F2[p].uaddr = F[p].uaddr /\ F2[p].in_tree = F[p].in_tree
                               /\ F2[p].lock = F[p].lock /\ F2[p].ref = F[p].ref
        BY <1>4, <1>5 DEF Thinned
      <3>3. ASSUME NEW r, \A x \in FuThreads : r[x] = IF x \in S1 \cup S2 THEN NoAddr ELSE s[x]
            PROVE  ListsAgree(F2, f, r)
        <4>1. \A x \in FuThreads : r[x] = IF x \in S2 THEN NoAddr ELSE s1[x]
          BY <3>3
        <4> HIDE DEF s1, f, F, s
        <4> QED BY <1>5, <4>1 DEF Thinned
      <3> HIDE DEF F, f, s
      <3> QED BY <3>1, <3>2, <3>3 DEF Thinned
    <2> QED BY <1>5, <1>7, <1>9, <2>1
  <1> QED BY <1>1, <1>6, <1>8, <1>9

LEMMA LeaveStep ==
    ASSUME FuInv, NEW t \in FuThreads, FuLeave(t)
    PROVE  FuInv'
  <1> DEFINE me == fu[t]
             o == me.f1
             ret == IF OnList(t) /\ me.ret \in {"OK", "EINTR"} THEN "ERESTARTSYS"
                    ELSE IF ~OnList(t) /\ me.ret = "EINTR" THEN "OK"
                    ELSE me.ret
             new == [me EXCEPT !.waiter = NoFutex, !.ret = ret]
             R == RemoveWaiters(futex, o, {t})
             G == PutFutex(R, o)
             n == RefsOf(fu)
  <1>1. /\ me.pc = "leave" /\ UNCHANGED <<word, treeLock, todo>>
        /\ sleepsAt' = [sleepsAt EXCEPT ![t] = NoAddr]
        /\ FuUnlock(t, new, PutFutex(R, me.waiter), CheckDequeue(PutFutex(R, me.waiter), o))
    BY Zenon DEF FuLeave
  <1>2. /\ futex \in [Futexes -> FuObj] /\ fu \in [FuThreads -> FuRec] /\ me \in FuRec /\ FuShape(me)
        /\ ListsAgree(futex, fu, sleepsAt) /\ Balanced(futex, n) /\ n \in [Futexes -> Nat] /\ FuRestOK
        /\ me.waiter \in Futexes \cup {NoFutex} /\ NoFutex \notin Futexes
    BY ThreadFacts, RefsOfType DEF FuInv
  <1>3. me.waiter = o /\ o \in Futexes
    BY <1>1, <1>2 DEF FuShape, Waits
  <1>4. ret \in {"OK", "EAGAIN", "EINTR", "ETIMEDOUT", "ENOSYS", "ERESTARTSYS"}
    BY <1>2 DEF FuRec
  <1> HIDE DEF ret
  <1>5. new \in FuRec
    BY <1>2, <1>4 DEF FuRec
  <1>6. /\ new.call = fu[t].call /\ new.f1 = fu[t].f1 /\ new.f2 = fu[t].f2
        /\ new.tmp = fu[t].tmp /\ new.waiter = NoFutex
    BY <1>2 DEF FuRec
  <1> DEFINE d == CheckDequeue(G, o)
  <1>7. FuUnlock(t, new, G, d)
    BY <1>1, <1>3
  <1> HIDE DEF new, d
  <1>8. /\ R \in [Futexes -> FuObj] /\ Balanced(R, n)
        /\ \A p \in Futexes : /\ p # o => R[p] = futex[p]
                              /\ R[p].uaddr = futex[p].uaddr /\ R[p].in_tree = futex[p].in_tree
                              /\ R[p].lock = futex[p].lock /\ R[p].ref = futex[p].ref
        /\ IsKept(R[o].waiters, futex[o].waiters, {t}, Len(futex[o].waiters))
    <2> DEFINE F == futex   S == {t}
    <2>1. /\ F \in [Futexes -> FuObj] /\ Balanced(F, n) /\ o \in Futexes /\ OneToOne(F[o].waiters)
          /\ R = RemoveWaiters(F, o, S)
      BY <1>2, <1>3 DEF ListsAgree, OneToOne
    <2> HIDE DEF F, S, R, o, n
    <2>2. /\ R \in [Futexes -> FuObj] /\ Balanced(R, n)
          /\ \A p \in Futexes : /\ p # o => R[p] = F[p]
                                /\ R[p].uaddr = F[p].uaddr /\ R[p].in_tree = F[p].in_tree
                                /\ R[p].lock = F[p].lock /\ R[p].ref = F[p].ref
          /\ IsKept(R[o].waiters, F[o].waiters, S, Len(F[o].waiters))
      BY <2>1, RemoveObject
    <2> QED BY <2>2 DEF F, S
  <1> HIDE DEF R
  <1>9. n[o] >= 2
    <2>1. Uses(fu[t], o) >= 2
      <3>1. OneIf(fu[t].f1 = o) = 1 /\ OneIf(fu[t].waiter = o) = 1 /\ OneIf(fu[t].f2 = o) \in Nat
            /\ OneIf(fu[t].tmp = o) \in Nat
        BY <1>3 DEF OneIf
      <3> QED BY <3>1 DEF Uses
    <2>2. Refs(fu, o) \in Nat /\ Uses(fu[t], o) \in Nat /\ Uses(fu[t], o) <= Refs(fu, o)
      <3> HIDE DEF o
      <3> QED BY <1>2, <1>3, RefsHeld
    <2>3. n[o] = Refs(fu, o)
      BY <1>3 DEF RefsOf
    <2> QED BY <2>1, <2>2, <2>3
  <1>10. /\ G \in [Futexes -> FuObj] /\ Balanced(G, Minus(n, o))
         /\ \A p \in Futexes : Lesser(R, G, p, Minus(n, o)) /\ (p # o => G[p] = R[p])
    <2>1. R \in [Futexes -> FuObj] /\ n \in [Futexes -> Nat] /\ Balanced(R, n)
          /\ o \in Futexes \cup {NoFutex} /\ (o # NoFutex => n[o] >= 1) /\ G = PutFutex(R, o)
      <3>1. n[o] \in Nat
        BY <1>2, <1>3
      <3> QED BY <1>2, <1>3, <1>8, <1>9, <3>1
    <2> HIDE DEF n, o, G
    <2> QED BY <2>1, PutLesser
  <1> HIDE DEF G
  <1>11. \A p \in Futexes : Same(R, G, p)
    <2>1. Minus(n, o)[o] # 0
      <3>1. n[o] \in Nat /\ Minus(n, o)[o] = n[o] - 1
        BY <1>2, <1>3 DEF Minus, OneIf
      <3> QED BY <1>9, <3>1
    <2> HIDE DEF n
    <2> QED BY <1>10, <2>1 DEF Lesser, Same
  <1>12. /\ FuRestOK'
         /\ \A x \in FuThreads : sleepsAt'[x] = IF x \in {t} THEN NoAddr ELSE sleepsAt[x]
    BY <1>1, <1>2 DEF FuRestOK
  <1>13. ListsAgree(G, [fu EXCEPT ![t] = new], sleepsAt')
    <2> DEFINE F == futex   f == fu   s == sleepsAt   g == [fu EXCEPT ![t] = new]
               s2 == sleepsAt'   S == {t}
    <2>1. /\ F \in [Futexes -> FuObj] /\ f \in [FuThreads -> FuRec] /\ ListsAgree(F, f, s)
          /\ o \in Futexes /\ R \in [Futexes -> FuObj] /\ g \in [FuThreads -> FuRec]
          /\ G \in [Futexes -> FuObj]
      BY <1>2, <1>3, <1>5, <1>8, <1>10
    <2>2. Removed(F, R, f, g, s, s2, o, S)
      BY <1>2, <1>3, <1>8, <1>12 DEF Removed
    <2>3. \A p \in Futexes : G[p].waiters = R[p].waiters /\ G[p].uaddr = R[p].uaddr
                             /\ (R[p].waiters # <<>> => G[p].in_tree = R[p].in_tree)
      BY <1>11 DEF Same
    <2> HIDE DEF F, f, s, g, s2, S, o, me
    <2>4. ListsAgree(R, g, s2)
      BY <2>1, <2>2, RemovedLists
    <2>5. ListsAgree(G, g, s2)
      BY <2>1, <2>3, <2>4, ListsKept
    <2> QED BY <2>5 DEF g, s2
  <1>14. \A p \in Futexes :
            /\ G[p].uaddr = futex[p].uaddr /\ G[p].lock = futex[p].lock
            /\ G[p].in_tree = futex[p].in_tree
            /\ futex[p].ref = 1 /\ ~futex[p].in_tree /\ ~Holds(fu[t], p) => G[p].ref = 1
    BY <1>3, <1>8, <1>10, <1>11 DEF Same, Holds
  <1>15. /\ fu[t].pc \in {"work", "leave"} /\ G \in [Futexes -> FuObj] /\ FuRestOK'
         /\ treeLock' = treeLock /\ Balanced(G, Minus(RefsOf(fu), fu[t].waiter))
    BY <1>1, <1>3, <1>10, <1>12
  <1> HIDE DEF me, o, n
  <1> QED BY <1>5, <1>6, <1>7, <1>13, <1>14, <1>15, UnlockStep

-----------------------------------------------------------------------------
(* A requeue                                                               *)

(* A set has as many members as a list of them is long. *)
LEMMA RangeCount ==
    ASSUME NEW c \in Nat, NEW q, \A i, j \in 1..c : q[i] = q[j] => i = j,
           NEW T, \A x : x \in T <=> \E i \in 1..c : x = q[i]
    PROVE  IsFiniteSet(T) /\ Cardinality(T) = c
  <1> DEFINE f == [i \in 1..c |-> q[i]]
  <1>1. f \in Bijection(1..c, T)
    BY DEF Bijection, Injection, Surjection, IsInjective
  <1>2. ExistsBijection(1..c, T)
    BY <1>1 DEF ExistsBijection
  <1>3. IsFiniteSet(1..c) /\ Cardinality(1..c) = c
    BY FS_Interval
  <1>4. IsFiniteSet(T) /\ Cardinality(T) = Cardinality(1..c)
    BY <1>2, <1>3, FS_Bijection
  <1> QED BY <1>3, <1>4

(* S has as many of the first members of q as it has members. *)
Leads(S, q) ==
    /\ Cardinality(S) \in Nat /\ Cardinality(S) <= Len(q)
    /\ \A x : x \in S <=> \E i \in 1..Cardinality(S) : x = q[i]

(* The first n waiters of a list. *)
LEMMA FirstCount ==
    ASSUME NEW F, NEW o, o # NoFutex, NEW q \in Seq(FuThreads), q = F[o].waiters, OneToOne(q),
           NEW n \in Nat, NEW S, S = FirstWaiters(F, o, {}, n)
    PROVE  Leads(S, q)
  <1> DEFINE c == IF n < Len(q) THEN n ELSE Len(q)
  <1>1. Len(q) \in Nat /\ c \in Nat /\ c <= Len(q) /\ DOMAIN q = 1..Len(q)
    OBVIOUS
  <1>2. S = {q[i] : i \in {j \in 1..Len(q) : Cardinality({k \in 1..Len(q) : k <= j}) <= n}}
    <2> DEFINE matching == {i \in DOMAIN q : {} = {} \/ {} \cap fu[q[i]].call.bits # {}}
    <2>1. matching = 1..Len(q)
      BY <1>1
    <2>2. S = {q[i] : i \in {j \in matching : Cardinality({k \in matching : k <= j}) <= n}}
      BY Zenon DEF FirstWaiters
    <2> QED BY <2>1, <2>2
  <1>3. ASSUME NEW j \in 1..Len(q) PROVE Cardinality({k \in 1..Len(q) : k <= j}) = j
    <2>1. {k \in 1..Len(q) : k <= j} = 1..j
      BY <1>1
    <2>2. Cardinality(1..j) = j
      BY <1>1, FS_Interval
    <2> QED BY <2>1, <2>2
  <1>4. {j \in 1..Len(q) : Cardinality({k \in 1..Len(q) : k <= j}) <= n} = 1..c
    <2>1. {j \in 1..Len(q) : Cardinality({k \in 1..Len(q) : k <= j}) <= n} = {j \in 1..Len(q) : j <= n}
      BY <1>3
    <2>2. {j \in 1..Len(q) : j <= n} = 1..c
      BY <1>1
    <2> QED BY <2>1, <2>2
  <1>5. S = {q[i] : i \in 1..c}
    <2> HIDE DEF c
    <2> QED BY <1>2, <1>4
  <1>6. \A i, j \in 1..c : q[i] = q[j] => i = j
    BY <1>1 DEF OneToOne
  <1>7. Cardinality(S) = c
    <2>1. \A x : x \in S <=> \E i \in 1..c : x = q[i]
      BY <1>5
    <2>2. c \in Nat
      BY <1>1
    <2> HIDE DEF c
    <2>3. IsFiniteSet(S) /\ Cardinality(S) = c
      BY ONLY <1>6, <2>1, <2>2, RangeCount
    <2> QED BY <2>3
  <1> HIDE DEF c
  <1> QED BY <1>1, <1>5, <1>7 DEF Leads

(* M is a list of the members of q from place a to place b. *)
CutOf(M, q, a, b) ==
    /\ M \in Seq(FuThreads) /\ OneToOne(M) /\ Cardinality(Range(M)) = Len(M)
    /\ Range(M) \subseteq FuThreads /\ \A x \in Range(M) : \E i \in a..b : x = q[i]

(* The waiters between places a and b. *)
LEMMA SomeWaiters ==
    ASSUME NEW q \in Seq(FuThreads), OneToOne(q), NEW a \in Nat, a >= 1, NEW b \in Nat, b <= Len(q),
           NEW M, M = SubSeq(q, a, b)
    PROVE  CutOf(M, q, a, b)
  <1>1. \A i \in a..b : i \in DOMAIN q /\ q[i] \in FuThreads
    OBVIOUS
  <1>2. /\ M \in Seq(FuThreads) /\ Len(M) = (IF a <= b THEN b-a+1 ELSE 0)
        /\ \A i \in 1..(b-a+1) : M[i] = q[a+i-1]
    BY <1>1, SubSeqProperties
  <1>3. DOMAIN M = 1..Len(M) /\ Len(M) \in Nat
    BY <1>2
  <1>4. \A i \in 1..Len(M) : M[i] = q[a+i-1] /\ a+i-1 \in a..b
    BY <1>2
  <1>5. OneToOne(M)
    BY <1>1, <1>3, <1>4, SMTT(60) DEF OneToOne
  <1>6. Range(M) = {M[i] : i \in 1..Len(M)}
    BY <1>3 DEF Range
  <1>7. IsFiniteSet(Range(M)) /\ Cardinality(Range(M)) = Len(M)
    <2> DEFINE c == Len(M)   R == Range(M)
    <2>1. /\ c \in Nat /\ \A i, j \in 1..c : M[i] = M[j] => i = j
          /\ \A x : x \in R <=> \E i \in 1..c : x = M[i]
      BY <1>3, <1>5, <1>6 DEF OneToOne
    <2> HIDE DEF c, R
    <2>2. IsFiniteSet(R) /\ Cardinality(R) = c
      BY <2>1, RangeCount
    <2> QED BY <2>2 DEF c, R
  <1>8. ASSUME NEW x \in Range(M) PROVE x \in FuThreads /\ \E i \in a..b : x = q[i]
    <2>1. PICK i \in 1..Len(M) : x = M[i]
      BY <1>6
    <2>2. x = q[a+i-1] /\ a+i-1 \in a..b
      BY <1>4, <2>1
    <2> QED BY <1>1, <2>2
  <1> QED BY <1>2, <1>5, <1>7, <1>8 DEF CutOf

(* The threads in W have moved from futex a to futex b. *)
Moved(f, g, W, a, b) ==
    \A x \in FuThreads : /\ g[x].f1 = f[x].f1 /\ g[x].f2 = f[x].f2 /\ g[x].tmp = f[x].tmp
                         /\ g[x].waiter = IF x \in W THEN b ELSE f[x].waiter
                         /\ x \in W => f[x].waiter = a

Shifted(f, g, k, a, b) ==
    /\ \A p \in Futexes : /\ Refs(f, p) \in Nat /\ Refs(g, p) \in Nat
                          /\ p \notin {a, b} => Refs(g, p) = Refs(f, p)
    /\ k <= Refs(f, a) /\ Refs(g, a) = Refs(f, a) - k /\ Refs(g, b) = Refs(f, b) + k

LEMMA RefsMoved ==
    ASSUME NEW f \in [FuThreads -> FuRec], NEW g \in [FuThreads -> FuRec],
           NEW W \in SUBSET FuThreads, NEW a \in Futexes, NEW b \in Futexes, a # b,
           Moved(f, g, W, a, b)
    PROVE  Shifted(f, g, Cardinality(W), a, b)
  <1> USE DEF Moved
  <1> DEFINE A(h, p) == {x \in FuThreads : h[x].f1 = p}
             B(h, p) == {x \in FuThreads : h[x].f2 = p}
             C(h, p) == {x \in FuThreads : h[x].tmp = p}
             D(h, p) == {x \in FuThreads : h[x].waiter = p}
  <1>1. \A p : A(g, p) = A(f, p) /\ B(g, p) = B(f, p) /\ C(g, p) = C(f, p)
    OBVIOUS
  <1>2. ASSUME NEW X \in SUBSET FuThreads PROVE IsFiniteSet(X) /\ Cardinality(X) \in Nat
    BY FutexAssumption, FS_Subset, FS_CardinalityType
  <1>3. \A p : p \notin {a, b} => D(g, p) = D(f, p)
    OBVIOUS
  <1>4. D(g, a) = D(f, a) \ W /\ W \subseteq D(f, a) /\ D(f, a) \cap W = W
    OBVIOUS
  <1>5. D(g, b) = D(f, b) \cup W /\ D(f, b) \cap W = {}
    OBVIOUS
  <1>6. \A h \in {f, g} : \A p : /\ Cardinality(A(h, p)) \in Nat /\ Cardinality(B(h, p)) \in Nat
                                 /\ Cardinality(C(h, p)) \in Nat /\ Cardinality(D(h, p)) \in Nat
    <2>1. ASSUME NEW h, NEW p
          PROVE  /\ A(h, p) \in SUBSET FuThreads /\ B(h, p) \in SUBSET FuThreads
                 /\ C(h, p) \in SUBSET FuThreads /\ D(h, p) \in SUBSET FuThreads
      OBVIOUS
    <2> HIDE DEF A, B, C, D
    <2> QED BY <1>2, <2>1
  <1>7. Cardinality(W) \in Nat
    BY <1>2
  <1>8. Cardinality(D(g, a)) = Cardinality(D(f, a)) - Cardinality(W) /\ Cardinality(W) <= Cardinality(D(f, a))
    <2>1. IsFiniteSet(D(f, a))
      BY <1>2
    <2> HIDE DEF D
    <2>2. Cardinality(D(f, a) \ W) = Cardinality(D(f, a)) - Cardinality(D(f, a) \cap W)
      BY <2>1, FS_Difference
    <2>3. Cardinality(W) <= Cardinality(D(f, a))
      BY <1>4, <2>1, FS_Subset
    <2> QED BY <1>4, <2>2, <2>3
  <1>9. Cardinality(D(g, b)) = Cardinality(D(f, b)) + Cardinality(W)
    <2>1. IsFiniteSet(D(f, b)) /\ IsFiniteSet(W) /\ Cardinality(D(f, b)) \in Nat
      BY <1>2
    <2> HIDE DEF D
    <2>2. Cardinality(D(f, b) \cup W) = Cardinality(D(f, b)) + Cardinality(W) - Cardinality(D(f, b) \cap W)
      BY <2>1, FS_Union
    <2>3. Cardinality({}) = 0
      BY FS_EmptySet
    <2>4. Cardinality(D(f, b) \cap W) = 0
      BY <1>5, <2>3
    <2>5. D(g, b) = D(f, b) \cup W
      BY <1>5
    <2> QED BY <1>7, <2>1, <2>2, <2>4, <2>5
  <1>10. \A h, p : Refs(h, p) = Cardinality(A(h, p)) + Cardinality(B(h, p)) + Cardinality(C(h, p))
                                + Cardinality(D(h, p))
    BY DEF Refs
  <1> HIDE DEF A, B, C, D
  <1>11. \A p \in Futexes : Refs(f, p) \in Nat /\ Refs(g, p) \in Nat
    BY <1>6, <1>10
  <1>12. \A p \in Futexes : p \notin {a, b} => Refs(g, p) = Refs(f, p)
    BY <1>1, <1>3, <1>10
  <1>13. Cardinality(W) <= Refs(f, a) /\ Refs(g, a) = Refs(f, a) - Cardinality(W)
    <2>1. /\ Cardinality(A(f, a)) \in Nat /\ Cardinality(B(f, a)) \in Nat
          /\ Cardinality(C(f, a)) \in Nat /\ Cardinality(D(f, a)) \in Nat
      BY <1>6
    <2> QED BY <1>1, <1>7, <1>8, <1>10, <2>1
  <1>14. Refs(g, b) = Refs(f, b) + Cardinality(W)
    <2>1. /\ Cardinality(A(f, b)) \in Nat /\ Cardinality(B(f, b)) \in Nat
          /\ Cardinality(C(f, b)) \in Nat /\ Cardinality(D(f, b)) \in Nat
      BY <1>6
    <2> QED BY <1>1, <1>7, <1>9, <1>10, <2>1
  <1> QED BY <1>11, <1>12, <1>13, <1>14 DEF Shifted

(* The threads in M, which waited nowhere, come to the end of the list of futex o. *)
Joined(F, G, f, g, s, s2, o, M) ==
    /\ F[o].in_tree /\ F[o].uaddr # NoAddr
    /\ \A x \in Range(M) : f[x].waiter = NoFutex /\ g[x].waiter = o
    /\ \A p \in Futexes : /\ p # o => G[p].waiters = F[p].waiters
                          /\ G[p].uaddr = F[p].uaddr /\ G[p].in_tree = F[p].in_tree
    /\ G[o].waiters = F[o].waiters \o M
    /\ \A x \in FuThreads : x \notin Range(M) => g[x].waiter = f[x].waiter
    /\ \A x \in FuThreads : s2[x] = IF x \in Range(M) THEN F[o].uaddr ELSE s[x]

LEMMA JoinedLists ==
    ASSUME NEW F \in [Futexes -> FuObj], NEW f \in [FuThreads -> FuRec], NEW s, ListsAgree(F, f, s),
           NEW o \in Futexes, NEW M \in Seq(FuThreads), OneToOne(M),
           NEW G \in [Futexes -> FuObj], NEW g, NEW s2,
           Joined(F, G, f, g, s, s2, o, M)
    PROVE  ListsAgree(G, g, s2)
  <1> USE DEF Joined
  <1> DEFINE Q(p) == F[p].waiters   R(p) == G[p].waiters   k == Len(Q(o))   m == Len(M)
  <1>0. NoFutex \notin Futexes
    BY FutexAssumption
  <1>1. \A p \in Futexes : Q(p) \in Seq(FuThreads) /\ R(p) \in Seq(FuThreads)
    BY DEF FuObj
  <1>2. \A p \in Futexes : \A i \in DOMAIN Q(p) : Q(p)[i] \in FuThreads
    BY <1>1
  <1>3. /\ \A p \in Futexes : \A i, j \in DOMAIN Q(p) : Q(p)[i] = Q(p)[j] => i = j
        /\ \A p \in Futexes : \A i \in DOMAIN Q(p) :
              /\ f[Q(p)[i]].waiter = p /\ F[p].in_tree /\ s[Q(p)[i]] = F[p].uaddr
        /\ \A x \in FuThreads : s[x] # NoAddr =>
              /\ f[x].waiter # NoFutex
              /\ \E i \in DOMAIN Q(f[x].waiter) : Q(f[x].waiter)[i] = x
    BY DEF ListsAgree
  <1>4. \A p \in Futexes : \A i \in DOMAIN Q(p) : Q(p)[i] \notin Range(M)
    BY <1>0, <1>3
  <1>5. /\ \A i \in DOMAIN R(o) : \/ i \in DOMAIN Q(o) /\ R(o)[i] = Q(o)[i]
                                  \/ i - k \in DOMAIN M /\ R(o)[i] = M[i - k] /\ i \notin DOMAIN Q(o)
        /\ \A i \in DOMAIN Q(o) : i \in DOMAIN R(o) /\ R(o)[i] = Q(o)[i]
        /\ \A i \in DOMAIN M : i + k \in DOMAIN R(o) /\ R(o)[i + k] = M[i]
    <2>1. Q(o) \in Seq(FuThreads) /\ R(o) = Q(o) \o M
      BY <1>1
    <2> HIDE DEF Q, R
    <2>2. /\ R(o) \in Seq(FuThreads) /\ Len(R(o)) = k + m
          /\ \A i \in 1..(k + m) : R(o)[i] = IF i <= k THEN Q(o)[i] ELSE M[i - k]
      BY <2>1, ConcatProperties
    <2>3. DOMAIN R(o) = 1..(k + m) /\ DOMAIN Q(o) = 1..k /\ DOMAIN M = 1..m /\ k \in Nat /\ m \in Nat
      BY <2>1, <2>2
    <2> HIDE DEF k, m
    <2> QED BY <2>2, <2>3
  <1>6. \A p \in Futexes : p # o => R(p) = Q(p)
    OBVIOUS
  <1>7. \A p \in Futexes : G[p].uaddr = F[p].uaddr /\ G[p].in_tree = F[p].in_tree
    OBVIOUS
  <1>8. \A i \in DOMAIN M : M[i] \in FuThreads /\ M[i] \in Range(M)
    BY DEF Range
  <1>9. \A x \in Range(M) : \E i \in DOMAIN M : x = M[i]
    BY DEF Range
  <1> HIDE DEF Q, R, k
  <1>10. \A p \in Futexes : \A i, j \in DOMAIN R(p) : R(p)[i] = R(p)[j] => i = j
    <2>1. ASSUME NEW i \in DOMAIN R(o), NEW j \in DOMAIN R(o), R(o)[i] = R(o)[j] PROVE i = j
      <3>1. CASE i \in DOMAIN Q(o) /\ j \in DOMAIN Q(o)
        BY <1>3, <1>5, <2>1, <3>1
      <3>2. CASE i \notin DOMAIN Q(o) /\ j \notin DOMAIN Q(o)
        <4>1. i - k = j - k
          BY <1>5, <2>1, <3>2 DEF OneToOne
        <4>2. i \in Nat /\ j \in Nat /\ k \in Nat
          BY <1>1 DEF k
        <4> QED BY <4>1, <4>2
      <3>3. CASE ~(i \in DOMAIN Q(o) <=> j \in DOMAIN Q(o))
        BY <1>4, <1>5, <1>8, <2>1, <3>3
      <3> QED BY <3>1, <3>2, <3>3
    <2>2. ASSUME NEW p \in Futexes, p # o, NEW i \in DOMAIN R(p), NEW j \in DOMAIN R(p),
                 R(p)[i] = R(p)[j]
          PROVE  i = j
      <3>1. R(p) = Q(p)
        BY <1>6, <2>2
      <3> QED BY <1>3, <2>2, <3>1
    <2> QED BY <2>1, <2>2
  <1>11. ASSUME NEW p \in Futexes, NEW i \in DOMAIN R(p)
         PROVE  g[R(p)[i]].waiter = p /\ G[p].in_tree /\ s2[R(p)[i]] = G[p].uaddr
    <2>1. CASE p = o /\ i \notin DOMAIN Q(o)
      <3>1. R(p)[i] \in FuThreads /\ R(p)[i] \in Range(M)
        BY <1>5, <1>8, <2>1
      <3> QED BY <1>7, <2>1, <3>1
    <2>2. CASE ~(p = o /\ i \notin DOMAIN Q(o))
      <3>1. i \in DOMAIN Q(p) /\ R(p)[i] = Q(p)[i]
        BY <1>5, <1>6, <2>2
      <3>2. Q(p)[i] \in FuThreads /\ Q(p)[i] \notin Range(M)
        BY <1>2, <1>4, <3>1
      <3>3. g[Q(p)[i]].waiter = f[Q(p)[i]].waiter /\ s2[Q(p)[i]] = s[Q(p)[i]]
        BY <3>2
      <3> QED BY <1>3, <1>7, <3>1, <3>3
    <2> QED BY <2>1, <2>2
  <1>12. ASSUME NEW x \in FuThreads, s2[x] # NoAddr
         PROVE  g[x].waiter # NoFutex /\ \E i \in DOMAIN R(g[x].waiter) : R(g[x].waiter)[i] = x
    <2>1. CASE x \in Range(M)
      <3>1. PICK i \in DOMAIN M : x = M[i]
        BY <1>9, <2>1
      <3>2. i + k \in DOMAIN R(o) /\ R(o)[i + k] = x
        BY <1>5, <3>1
      <3>3. g[x].waiter = o /\ o # NoFutex
        BY <1>0, <2>1
      <3> QED BY <3>2, <3>3
    <2>2. CASE x \notin Range(M)
      <3>1. s[x] # NoAddr /\ g[x].waiter = f[x].waiter
        BY <1>12, <2>2
      <3>2. f[x].waiter # NoFutex /\ f[x].waiter \in Futexes
        <4>1. f[x] \in FuRec
          OBVIOUS
        <4> QED BY <1>3, <3>1, <4>1 DEF FuRec
      <3>3. PICK a \in DOMAIN Q(f[x].waiter) : Q(f[x].waiter)[a] = x
        BY <1>3, <3>1
      <3> QED BY <1>5, <1>6, <3>1, <3>2, <3>3
    <2> QED BY <2>1, <2>2
  <1> QED BY <1>10, <1>11, <1>12 DEF ListsAgree, R

LEMMA MoveObject ==
    ASSUME NEW R \in [Futexes -> FuObj], NEW a \in Futexes, NEW b \in Futexes, a # b,
           NEW M \in Seq(FuThreads), Len(M) <= R[a].ref, NEW G, G = MoveWaiters(R, M, a, b)
    PROVE  /\ G \in [Futexes -> FuObj]
           /\ \A p \in Futexes :
                 /\ G[p].uaddr = R[p].uaddr /\ G[p].in_tree = R[p].in_tree /\ G[p].lock = R[p].lock
                 /\ p # b => G[p].waiters = R[p].waiters
                 /\ p \notin {a, b} => G[p].ref = R[p].ref
           /\ G[b].waiters = R[b].waiters \o M
           /\ G[a].ref = R[a].ref - Len(M) /\ G[b].ref = R[b].ref + Len(M)
  <1> DEFINE m == Len(M)
             w == R[b].waiters \o M
             ea == [R[a] EXCEPT !.ref = R[a].ref - m]
             eb == [[R[b] EXCEPT !.ref = R[b].ref + m] EXCEPT !.waiters = w]
  <1>1. m \in Nat /\ R[a] \in FuObj /\ R[b] \in FuObj
    OBVIOUS
  <1>2. R[a].ref \in Nat /\ R[b].ref \in Nat /\ R[b].waiters \in Seq(FuThreads)
    BY <1>1, ObjectTypes
  <1>3. R[a].ref - m \in Nat /\ R[b].ref + m \in Nat
    BY <1>1, <1>2
  <1>4. w \in Seq(FuThreads)
    BY <1>2, ConcatProperties
  <1> HIDE DEF w, m
  <1>5. ea \in FuObj /\ eb \in FuObj
    <2>1. ea \in FuObj /\ [R[b] EXCEPT !.ref = R[b].ref + m] \in FuObj
      BY <1>1, <1>3, ObjectTypes
    <2> QED BY <1>4, <2>1, ObjectTypes
  <1>6. /\ ea.uaddr = R[a].uaddr /\ ea.in_tree = R[a].in_tree /\ ea.lock = R[a].lock
        /\ ea.waiters = R[a].waiters /\ ea.ref = R[a].ref - m
        /\ eb.uaddr = R[b].uaddr /\ eb.in_tree = R[b].in_tree /\ eb.lock = R[b].lock
        /\ eb.waiters = w /\ eb.ref = R[b].ref + m
    BY <1>1 DEF FuObj
  <1>7. G = [[R EXCEPT ![a] = ea] EXCEPT ![b] = eb]
    BY DEF MoveWaiters, m, w
  <1> HIDE DEF ea, eb
  <1>8. /\ G \in [Futexes -> FuObj] /\ G[a] = ea /\ G[b] = eb
        /\ \A p \in Futexes : p \notin {a, b} => G[p] = R[p]
    BY <1>5, <1>7
  <1>9. \A p \in Futexes :
           /\ G[p].uaddr = R[p].uaddr /\ G[p].in_tree = R[p].in_tree /\ G[p].lock = R[p].lock
           /\ p # b => G[p].waiters = R[p].waiters
           /\ p \notin {a, b} => G[p].ref = R[p].ref
    <2> TAKE p \in Futexes
    <2>1. CASE p = a
      BY <1>6, <1>8, <2>1
    <2>2. CASE p = b
      BY <1>6, <1>8, <2>2
    <2>3. CASE p \notin {a, b}
      BY <1>8, <2>3
    <2> QED BY <2>1, <2>2, <2>3
  <1> QED BY <1>6, <1>8, <1>9 DEF m, w

(* The threads in S are woken from futex a, those in M moved from there to b. *)
Requeued(F, G, f, g, s, s2, a, b, S, M) ==
    /\ a # b /\ F[b].in_tree /\ F[b].uaddr # NoAddr
    /\ OneToOne(M) /\ Cardinality(Range(M)) = Len(M) /\ Range(M) \subseteq FuThreads
    /\ S \subseteq FuThreads /\ S \cap Range(M) = {}
    /\ \A x \in S \cup Range(M) : f[x].waiter = a
    /\ G = MoveWaiters(RemoveWaiters(F, a, S \cup Range(M)), M, a, b)
    /\ \A x \in FuThreads : /\ g[x].f1 = f[x].f1 /\ g[x].f2 = f[x].f2 /\ g[x].tmp = f[x].tmp
                            /\ g[x].waiter = IF x \in Range(M) THEN b ELSE f[x].waiter
    /\ \A x \in FuThreads : s2[x] = IF x \in S THEN NoAddr
                                    ELSE IF x \in Range(M) THEN F[b].uaddr ELSE s[x]

(* Of the futexes only the lists have changed, and the references of a and b. *)
Apart(F, G, a, b) == \A p \in Futexes :
    /\ G[p].uaddr = F[p].uaddr /\ G[p].in_tree = F[p].in_tree /\ G[p].lock = F[p].lock
    /\ p \notin {a, b} => G[p].ref = F[p].ref

LEMMA RequeuedLists ==
    ASSUME NEW F \in [Futexes -> FuObj], NEW f \in [FuThreads -> FuRec], NEW s, ListsAgree(F, f, s),
           Balanced(F, RefsOf(f)), NEW a \in Futexes, NEW b \in Futexes,
           NEW S, NEW M \in Seq(FuThreads), NEW G, NEW g \in [FuThreads -> FuRec], NEW s2,
           Requeued(F, G, f, g, s, s2, a, b, S, M)
    PROVE  /\ G \in [Futexes -> FuObj] /\ Balanced(G, RefsOf(g)) /\ ListsAgree(G, g, s2)
           /\ Apart(F, G, a, b)
  <1> DEFINE W == Range(M)
             T == S \cup W
             R == RemoveWaiters(F, a, T)
             k == Len(M)
  <1>1. /\ a # b /\ F[b].in_tree /\ F[b].uaddr # NoAddr /\ OneToOne(M) /\ Cardinality(W) = k
        /\ T \subseteq FuThreads /\ W \subseteq FuThreads /\ S \cap W = {} /\ G = MoveWaiters(R, M, a, b)
        /\ \A x \in T : f[x].waiter = a
        /\ \A x \in W : x \in T
        /\ \A x \in S : x \in T
        /\ \A x \in T : x \in S \/ x \in W
    BY DEF Requeued
  <1>2. /\ \A x \in FuThreads : /\ g[x].f1 = f[x].f1 /\ g[x].f2 = f[x].f2 /\ g[x].tmp = f[x].tmp
                                /\ g[x].waiter = IF x \in W THEN b ELSE f[x].waiter
        /\ \A x \in FuThreads : s2[x] = IF x \in S THEN NoAddr
                                        ELSE IF x \in W THEN F[b].uaddr ELSE s[x]
    BY DEF Requeued
  <1>3. k \in Nat /\ NoFutex \notin Futexes
    <2>1. NoFutex \notin Futexes
      BY FutexAssumption
    <2> QED BY <2>1
  <1> HIDE DEF T, k
  <1>4. /\ R \in [Futexes -> FuObj]
        /\ \A p \in Futexes : /\ p # a => R[p] = F[p]
                              /\ R[p].uaddr = F[p].uaddr /\ R[p].in_tree = F[p].in_tree
                              /\ R[p].lock = F[p].lock /\ R[p].ref = F[p].ref
        /\ IsKept(R[a].waiters, F[a].waiters, T, Len(F[a].waiters))
    <2> DEFINE n == RefsOf(f)
    <2>1. OneToOne(F[a].waiters) /\ R = RemoveWaiters(F, a, T) /\ Balanced(F, n)
      BY DEF ListsAgree, OneToOne
    <2> HIDE DEF R, n
    <2>2. /\ R \in [Futexes -> FuObj] /\ Balanced(R, n)
          /\ \A p \in Futexes : /\ p # a => R[p] = F[p]
                                /\ R[p].uaddr = F[p].uaddr /\ R[p].in_tree = F[p].in_tree
                                /\ R[p].lock = F[p].lock /\ R[p].ref = F[p].ref
          /\ IsKept(R[a].waiters, F[a].waiters, T, Len(F[a].waiters))
      BY <2>1, RemoveObject
    <2> QED BY <2>2
  <1> HIDE DEF R
  <1>5. /\ \A p \in Futexes : /\ Refs(f, p) \in Nat /\ Refs(g, p) \in Nat
                              /\ p \notin {a, b} => Refs(g, p) = Refs(f, p)
        /\ k <= Refs(f, a) /\ Refs(g, a) = Refs(f, a) - k /\ Refs(g, b) = Refs(f, b) + k
    <2>1. Moved(f, g, W, a, b)
      BY <1>1, <1>2 DEF Moved
    <2>2. W \in SUBSET FuThreads /\ a # b
      BY <1>1
    <2> HIDE DEF W
    <2>3. Shifted(f, g, Cardinality(W), a, b)
      BY <2>1, <2>2, RefsMoved
    <2>4. Cardinality(W) = k
      BY <1>1
    <2> QED BY <2>3, <2>4 DEF Shifted
  <1>6. \A p \in Futexes : F[p].ref = InTree(F, p) + Refs(f, p) /\ InTree(F, p) \in Nat
    BY DEF Balanced, RefsOf, InTree
  <1>7. /\ G \in [Futexes -> FuObj]
        /\ \A p \in Futexes :
              /\ G[p].uaddr = R[p].uaddr /\ G[p].in_tree = R[p].in_tree /\ G[p].lock = R[p].lock
              /\ p # b => G[p].waiters = R[p].waiters
              /\ p \notin {a, b} => G[p].ref = R[p].ref
        /\ G[b].waiters = R[b].waiters \o M
        /\ G[a].ref = R[a].ref - k /\ G[b].ref = R[b].ref + k
    <2>1. k <= R[a].ref
      BY <1>3, <1>4, <1>5, <1>6
    <2> QED BY <1>1, <1>4, <2>1, MoveObject, SMTT(60) DEF k
  <1>8. Balanced(G, RefsOf(g))
    <2>1. ASSUME NEW p \in Futexes PROVE G[p].ref = InTree(F, p) + Refs(g, p)
      <3>1. CASE p = a
        BY <1>1, <1>3, <1>4, <1>5, <1>6, <1>7, <3>1, SMTT(60)
      <3>2. CASE p = b
        BY <1>1, <1>3, <1>4, <1>5, <1>6, <1>7, <3>2, SMTT(60)
      <3>3. CASE p \notin {a, b}
        BY <1>4, <1>5, <1>6, <1>7, <3>3
      <3> QED BY <3>1, <3>2, <3>3
    <2>2. \A p \in Futexes : InTree(G, p) = InTree(F, p)
      BY <1>4, <1>7 DEF InTree
    <2> QED BY <2>1, <2>2 DEF Balanced, RefsOf
  <1>9. ListsAgree(G, g, s2)
    <2> DEFINE h == [x \in FuThreads |-> IF x \in W THEN [f[x] EXCEPT !.waiter = NoFutex] ELSE f[x]]
               r == [x \in FuThreads |-> IF x \in T THEN NoAddr ELSE s[x]]
    <2>1. /\ h \in [FuThreads -> FuRec]
          /\ \A x \in FuThreads : h[x].waiter = IF x \in W THEN NoFutex ELSE f[x].waiter
      <3> HIDE DEF W
      <3>1. \A e \in FuRec : [e EXCEPT !.waiter = NoFutex] \in FuRec
                             /\ [e EXCEPT !.waiter = NoFutex].waiter = NoFutex
        BY DEF FuRec
      <3> QED BY <3>1
    <2>2. \A x \in FuThreads : r[x] = IF x \in T THEN NoAddr ELSE s[x]
      OBVIOUS
    <2> HIDE DEF h, r, W
    <2>3. ListsAgree(R, h, r)
      <3>1. Removed(F, R, f, h, s, r, a, T)
        BY <1>1, <1>4, <2>1, <2>2 DEF Removed
      <3> QED BY <1>4, <3>1, RemovedLists
    <2>4. Joined(R, G, h, g, r, s2, b, M)
      <3>1. \A x \in W : h[x].waiter = NoFutex /\ g[x].waiter = b
        BY <1>1, <1>2, <2>1
      <3>2. \A x \in FuThreads : x \notin W => g[x].waiter = h[x].waiter
        BY <1>2, <2>1
      <3>3. \A x \in FuThreads : s2[x] = IF x \in W THEN R[b].uaddr ELSE r[x]
        BY <1>1, <1>2, <1>4, <2>2
      <3>4. R[b].in_tree /\ R[b].uaddr # NoAddr
        BY <1>1, <1>4
      <3>5. /\ \A p \in Futexes : /\ p # b => G[p].waiters = R[p].waiters
                                  /\ G[p].uaddr = R[p].uaddr /\ G[p].in_tree = R[p].in_tree
            /\ G[b].waiters = R[b].waiters \o M
        BY <1>7
      <3> QED BY <3>1, <3>2, <3>3, <3>4, <3>5 DEF Joined, W
    <2>5. OneToOne(M) /\ R \in [Futexes -> FuObj] /\ G \in [Futexes -> FuObj]
      BY <1>1, <1>4, <1>7
    <2> QED BY <2>1, <2>3, <2>4, <2>5, JoinedLists
  <1>10. \A p \in Futexes :
            /\ G[p].uaddr = F[p].uaddr /\ G[p].in_tree = F[p].in_tree /\ G[p].lock = F[p].lock
            /\ p \notin {a, b} => G[p].ref = F[p].ref
    BY <1>4, <1>7
  <1> QED BY <1>7, <1>8, <1>9, <1>10 DEF Apart

(* A thread that waits at a futex another thread has locked, with the tree lock, sleeps or *)
(* has not come far enough to know which futex it waits at.                                *)
LEMMA MovedThread ==
    ASSUME FuInv, NEW t \in FuThreads, NEW a \in Futexes, treeLock = t, futex[a].lock = t,
           NEW x \in FuThreads, x # t, fu[x].waiter = a, NEW b \in Futexes,
           NEW new, new = [fu[x] EXCEPT !.waiter = b], NEW H, NEW tree
    PROVE  new \in FuRec /\ FuShape(new) /\ HasLocks(x, new, H, tree) /\ HasFound(new, H)
  <1>1. /\ fu[x] \in FuRec /\ FuShape(fu[x]) /\ HasLocks(x, fu[x], futex, treeLock)
        /\ NoFutex \notin Futexes
    BY ThreadFacts
  <1>2. /\ new \in FuRec /\ new.pc = fu[x].pc /\ new.stage = fu[x].stage /\ new.call = fu[x].call
        /\ new.f1 = fu[x].f1 /\ new.f2 = fu[x].f2 /\ new.tmp = fu[x].tmp /\ new.waiter = b
    BY <1>1 DEF FuRec
  <1>3. /\ Waits(fu[x]) /\ fu[x].pc \in {"sleep", "relock"}
        /\ fu[x].pc = "relock" => fu[x].stage = "leave"
    BY <1>1 DEF FuShape, Waits, HasLocks
  <1>4. FuShape(new)
    BY <1>1, <1>2, <1>3 DEF FuShape, Waits
  <1>5. HasLocks(x, new, H, tree) /\ HasFound(new, H)
    BY <1>2, <1>3 DEF HasLocks, HasFound
  <1> QED BY <1>2, <1>4, <1>5

LEMMA RequeueStep ==
    ASSUME FuInv, NEW t \in FuThreads, FuRequeue(t)
    PROVE  FuInv'
  <1> DEFINE me == fu[t]
             call == me.call
             a == me.f1
             b == me.f2
             q == IF a = NoFutex THEN <<>> ELSE futex[a].waiters
             S == FirstWaiters(futex, a, {}, call.n1)
             last == IF Len(q) < call.n1 + call.n2 THEN Len(q) ELSE call.n1 + call.n2
             M == SubSeq(q, Cardinality(S) + 1, last)
             W == Range(M)
             F == MoveWaiters(RemoveWaiters(futex, a, S \cup W), M, a, b)
             pc == IF CheckDequeue(F, a) \/ CheckDequeue(F, b) THEN "relock" ELSE "wake_queue"
             new == [me EXCEPT !.stage = "dequeue", !.pc = pc]
             moved == [fu EXCEPT ![t] = new]
             Works == /\ a # NoFutex
                      /\ sleepsAt' = [x \in FuThreads |-> IF x \in S THEN NoAddr
                                        ELSE IF x \in W THEN call.u2 ELSE sleepsAt[x]]
                      /\ fu' = [x \in FuThreads |-> IF x \in W THEN [moved[x] EXCEPT !.waiter = b]
                                                    ELSE moved[x]]
                      /\ futex' = Unlock(F, t)
  <1>1. /\ me.pc = "work" /\ call.op = "requeue" /\ treeLock' = NoOne /\ UNCHANGED <<word, todo>>
        /\ \/ FuUnlock(t, [me EXCEPT !.ret = "EAGAIN"], futex, me.dequeue) /\ sleepsAt' = sleepsAt
           \/ FuUnlock(t, me, futex, me.dequeue) /\ sleepsAt' = sleepsAt
           \/ Works
    BY Zenon DEF FuRequeue
  <1> HIDE DEF q, S, last, M, W, F, pc, new, moved, Works
  <1>a. me.pc = "work" /\ call.op = "requeue" /\ treeLock' = NoOne /\ UNCHANGED <<word, todo>>
    BY <1>1
  <1>2. /\ futex \in [Futexes -> FuObj] /\ fu \in [FuThreads -> FuRec] /\ me \in FuRec /\ FuShape(me)
        /\ HasLocks(t, me, futex, treeLock) /\ HasFound(me, futex)
        /\ ListsAgree(futex, fu, sleepsAt) /\ Balanced(futex, RefsOf(fu)) /\ FuRestOK
        /\ a \in Futexes \cup {NoFutex} /\ b \in Futexes \cup {NoFutex} /\ call \in FuLegal
        /\ NoFutex \notin Futexes /\ t # NoOne /\ RefsOf(fu) \in [Futexes -> Nat] /\ OneEach(futex)
    BY <1>a, ThreadFacts, RefsOfType DEF FuInv
  <1>3. /\ treeLock = t /\ me.waiter = NoFutex /\ b \in Futexes
        /\ futex[b].in_tree /\ futex[b].uaddr = call.u2 /\ futex[b].lock = t
        /\ a # NoFutex => futex[a].in_tree /\ futex[a].uaddr = call.u1 /\ futex[a].lock = t
    BY <1>a, <1>2 DEF FuShape, Waits, HasLocks, HasFound
  <1>4. ASSUME NEW e \in FuRec, e.call = fu[t].call, e.f1 = fu[t].f1, e.f2 = fu[t].f2,
               e.tmp = fu[t].tmp, e.waiter = NoFutex, NEW d, FuUnlock(t, e, futex, d),
               sleepsAt' = sleepsAt
        PROVE  FuInv'
    <2>1. Balanced(futex, Minus(RefsOf(fu), fu[t].waiter))
      <3>1. \A p \in Futexes : Minus(RefsOf(fu), fu[t].waiter)[p] = RefsOf(fu)[p]
        BY <1>2, <1>3 DEF Minus, OneIf
      <3> QED BY <1>2, <3>1 DEF Balanced
    <2>2. FuRestOK'
      BY <1>a, <1>2, <1>4 DEF FuRestOK
    <2>3. ListsAgree(futex, [fu EXCEPT ![t] = e], sleepsAt')
      <3> DEFINE f == fu   g == [fu EXCEPT ![t] = e]   s == sleepsAt   F0 == futex
      <3>1. /\ f \in [FuThreads -> FuRec] /\ g \in [FuThreads -> FuRec] /\ ListsAgree(F0, f, s)
            /\ \A x \in FuThreads : g[x].waiter = f[x].waiter
            /\ F0 \in [Futexes -> FuObj]
        BY <1>2, <1>3, <1>4
      <3> HIDE DEF f, g, s, F0
      <3>2. ListsAgree(F0, g, s)
        BY <3>1, ListsKept
      <3> QED BY <1>4, <3>2 DEF g, s, F0
    <2>4. /\ fu[t].pc \in {"work", "leave"} /\ treeLock = t /\ treeLock' = NoOne
          /\ futex \in [Futexes -> FuObj]
      BY <1>a, <1>2, <1>3
    <2> HIDE DEF me, call, a, b
    <2> QED BY <1>4, <2>1, <2>2, <2>3, <2>4, UnlockStep
  <1>5. CASE FuUnlock(t, [me EXCEPT !.ret = "EAGAIN"], futex, me.dequeue) /\ sleepsAt' = sleepsAt
    <2> DEFINE e == [me EXCEPT !.ret = "EAGAIN"]
    <2>1. /\ e \in FuRec /\ e.call = fu[t].call /\ e.f1 = fu[t].f1 /\ e.f2 = fu[t].f2
          /\ e.tmp = fu[t].tmp /\ e.waiter = NoFutex
      BY <1>2, <1>3 DEF FuRec
    <2>2. FuUnlock(t, e, futex, me.dequeue) /\ sleepsAt' = sleepsAt
      BY <1>5
    <2> HIDE DEF e
    <2> QED BY <1>4, <2>1, <2>2
  <1>6. CASE FuUnlock(t, me, futex, me.dequeue) /\ sleepsAt' = sleepsAt
    BY <1>2, <1>3, <1>4, <1>6
  <1>7. CASE Works
    <2>0. /\ a # NoFutex /\ futex' = Unlock(F, t)
          /\ sleepsAt' = [x \in FuThreads |-> IF x \in S THEN NoAddr
                            ELSE IF x \in W THEN call.u2 ELSE sleepsAt[x]]
          /\ fu' = [x \in FuThreads |-> IF x \in W THEN [moved[x] EXCEPT !.waiter = b] ELSE moved[x]]
      BY <1>7 DEF Works
    <2>1. a \in Futexes /\ a # b /\ q = futex[a].waiters /\ q \in Seq(FuThreads) /\ OneToOne(q)
      <3>1. a \in Futexes /\ q = futex[a].waiters
        BY <1>2, <2>0 DEF q
      <3>2. call.u1 # call.u2
        <4> HIDE DEF call
        <4> QED BY <1>a, <1>2, LegalCall
      <3>3. a # b
        BY <1>2, <1>3, <3>1, <3>2
      <3> QED BY <1>2, <3>1, <3>3 DEF ListsAgree, OneToOne, FuObj
    <2>2. call.n1 \in Nat /\ call.n2 \in Nat /\ call.u2 \in FuAddrs /\ call.u2 # NoAddr
      <3> HIDE DEF call
      <3> QED BY <1>2, LegalCall
    <2>3. /\ Cardinality(S) \in Nat /\ Cardinality(S) <= Len(q)
          /\ \A x : x \in S <=> \E i \in 1..Cardinality(S) : x = q[i]
      <3> DEFINE F0 == futex   k == call.n1
      <3>1. /\ a # NoFutex /\ q \in Seq(FuThreads) /\ q = F0[a].waiters /\ OneToOne(q) /\ k \in Nat
            /\ S = FirstWaiters(F0, a, {}, k)
        BY <2>0, <2>1, <2>2 DEF S
      <3> HIDE DEF F0, k, a
      <3>2. Leads(S, q)
        BY ONLY <3>1, FirstCount
      <3> QED BY <3>2 DEF Leads
    <2>4. last \in Nat /\ last <= Len(q) /\ Cardinality(S) + 1 \in Nat /\ Cardinality(S) + 1 >= 1
      <3>1. Len(q) \in Nat
        BY <2>1
      <3>2. Cardinality(S) \in Nat
        BY <2>3
      <3>3. Cardinality(S) + 1 \in Nat /\ Cardinality(S) + 1 >= 1
        BY ONLY <3>2
      <3>4. call.n1 + call.n2 \in Nat
        <4> HIDE DEF call
        <4> QED BY ONLY <2>2
      <3>5. last \in Nat /\ last <= Len(q)
        <4> HIDE DEF call
        <4> QED BY ONLY <3>1, <3>4 DEF last
      <3> QED BY <3>3, <3>5
    <2>5. /\ M \in Seq(FuThreads) /\ OneToOne(M) /\ Cardinality(W) = Len(M) /\ W \subseteq FuThreads
          /\ \A x \in W : \E i \in (Cardinality(S) + 1)..last : x = q[i]
      <3> DEFINE c == Cardinality(S) + 1
      <3>1. /\ q \in Seq(FuThreads) /\ OneToOne(q) /\ c \in Nat /\ c >= 1 /\ last \in Nat
            /\ last <= Len(q) /\ M = SubSeq(q, c, last)
        BY <2>1, <2>4 DEF M
      <3> HIDE DEF c
      <3>2. CutOf(M, q, c, last)
        BY ONLY <3>1, SomeWaiters
      <3> QED BY <3>1, <3>2 DEF c, W, CutOf
    <2>6. \A x \in S \cup W : \E i \in DOMAIN q : x = q[i]
      <3>1. DOMAIN q = 1..Len(q) /\ Len(q) \in Nat
        BY <2>1
      <3>2. \A i \in (Cardinality(S) + 1)..last : i \in 1..Len(q)
        BY <2>3, <2>4, <3>1
      <3>3. \A i \in 1..Cardinality(S) : i \in 1..Len(q)
        BY <2>3, <3>1
      <3>4. \A x \in S : \E i \in 1..Cardinality(S) : x = q[i]
        BY <2>3
      <3> QED BY <2>5, <3>1, <3>2, <3>3, <3>4
    <2>7. S \cap W = {}
      <3> SUFFICES ASSUME NEW x \in S, x \in W PROVE FALSE
        OBVIOUS
      <3>1. PICK i \in 1..Cardinality(S) : x = q[i]
        BY <2>3
      <3>2. PICK j \in (Cardinality(S) + 1)..last : x = q[j]
        BY <2>5
      <3>3. Len(q) \in Nat /\ DOMAIN q = 1..Len(q)
        BY <2>1
      <3>4. i \in DOMAIN q /\ j \in DOMAIN q /\ i < j
        BY <2>3, <2>4, <3>3
      <3>5. i = j
        BY <2>1, <3>1, <3>2, <3>4 DEF OneToOne
      <3> QED BY <2>3, <3>4, <3>5
    <2>8. \A x \in S \cup W : x \in FuThreads /\ fu[x].waiter = a /\ x # t
      <3>1. \A i \in DOMAIN q : q[i] \in FuThreads /\ fu[q[i]].waiter = a
        BY <1>2, <2>1 DEF ListsAgree
      <3>2. me.waiter # a
        BY <1>2, <1>3, <2>1
      <3> QED BY <2>6, <3>1, <3>2
    <2>9. pc \in {"relock", "wake_queue"}
      BY DEF pc
    <2>10. /\ new \in FuRec /\ new.pc = pc /\ new.stage = "dequeue" /\ new.call = call
           /\ new.f1 = a /\ new.f2 = b /\ new.tmp = me.tmp /\ new.waiter = NoFutex
      BY <1>2, <1>3, <2>9 DEF FuRec, FuPlaces, new
    <2>11. /\ fu'[t] = new
           /\ \A x \in W : fu'[x] = [fu[x] EXCEPT !.waiter = b]
           /\ \A x \in FuThreads : x # t /\ x \notin W => fu'[x] = fu[x]
      BY <1>2, <2>0, <2>8 DEF moved
    <2>12. \A x \in W : [fu[x] EXCEPT !.waiter = b] \in FuRec
      BY <1>2, <1>3, <2>8 DEF FuRec
    <2>13. fu' \in [FuThreads -> FuRec]
      <3>1. \A x \in FuThreads : fu'[x] \in FuRec
        BY <1>2, <2>10, <2>11, <2>12
      <3>2. fu' = [x \in FuThreads |-> fu'[x]]
        BY <2>0
      <3> QED BY <3>1, <3>2
    <2>14. \A x \in FuThreads :
              /\ fu'[x].f1 = fu[x].f1 /\ fu'[x].f2 = fu[x].f2 /\ fu'[x].tmp = fu[x].tmp
              /\ fu'[x].waiter = IF x \in W THEN b ELSE fu[x].waiter
      <3>1. \A x \in FuThreads : \A e : e = [fu[x] EXCEPT !.waiter = b] =>
               e.f1 = fu[x].f1 /\ e.f2 = fu[x].f2 /\ e.tmp = fu[x].tmp /\ e.waiter = b
        BY <1>2 DEF FuRec
      <3>2. t \notin W
        BY <2>8
      <3> TAKE x \in FuThreads
      <3>3. CASE x = t
        BY <1>3, <2>10, <2>11, <3>2, <3>3
      <3>4. CASE x \in W
        <4>1. fu'[x] = [fu[x] EXCEPT !.waiter = b]
          BY <2>11, <3>4
        <4> HIDE DEF b
        <4> QED BY <3>1, <3>4, <4>1
      <3>5. CASE x # t /\ x \notin W
        BY <2>11, <3>5
      <3> QED BY <3>3, <3>4, <3>5
    <2>15. \A x \in FuThreads : sleepsAt'[x] = IF x \in S THEN NoAddr
                                  ELSE IF x \in W THEN futex[b].uaddr ELSE sleepsAt[x]
      BY <1>3, <2>0
    <2>16. FuRestOK'
      <3>1. sleepsAt' \in [FuThreads -> FuAddrs \cup {NoAddr}]
        BY <1>2, <2>0, <2>2 DEF FuRestOK
      <3> QED BY <1>a, <1>2, <3>1 DEF FuRestOK
    <2>17. /\ F \in [Futexes -> FuObj] /\ Balanced(F, RefsOf(fu')) /\ ListsAgree(F, fu', sleepsAt')
           /\ Apart(futex, F, a, b)
      <3> DEFINE F0 == futex   f == fu   s == sleepsAt   g == fu'   s2 == sleepsAt'
      <3>1. Requeued(F0, F, f, g, s, s2, a, b, S, M)
        BY <1>3, <2>1, <2>2, <2>5, <2>7, <2>8, <2>14, <2>15 DEF Requeued, W, F
      <3>2. /\ F0 \in [Futexes -> FuObj] /\ f \in [FuThreads -> FuRec] /\ ListsAgree(F0, f, s)
            /\ Balanced(F0, RefsOf(f)) /\ a \in Futexes /\ b \in Futexes /\ M \in Seq(FuThreads)
            /\ g \in [FuThreads -> FuRec]
        BY <1>2, <1>3, <2>1, <2>5, <2>13
      <3> HIDE DEF F0, f, s, g, s2, a, b
      <3>3. /\ F \in [Futexes -> FuObj] /\ Balanced(F, RefsOf(g)) /\ ListsAgree(F, g, s2)
            /\ Apart(F0, F, a, b)
        BY ONLY <3>1, <3>2, RequeuedLists
      <3> QED BY <3>3 DEF F0, g, s2
    <2>18. futex' = Unlock(F, t)
      BY <2>0
    <2>19. /\ futex' \in [Futexes -> FuObj] /\ Balanced(futex', RefsOf(fu'))
           /\ \A p \in Futexes : /\ futex'[p].uaddr = F[p].uaddr /\ futex'[p].in_tree = F[p].in_tree
                                 /\ futex'[p].waiters = F[p].waiters /\ futex'[p].ref = F[p].ref
                                 /\ F[p].lock # t => futex'[p].lock = F[p].lock
      <3> DEFINE H == futex'   n == RefsOf(fu')
      <3>1. H = Unlock(F, t) /\ Balanced(F, n) /\ F \in [Futexes -> FuObj]
        BY <2>17, <2>18
      <3> HIDE DEF H, n
      <3>2. /\ H \in [Futexes -> FuObj] /\ Balanced(H, n)
            /\ \A p \in Futexes : /\ H[p].uaddr = F[p].uaddr /\ H[p].in_tree = F[p].in_tree
                                  /\ H[p].waiters = F[p].waiters /\ H[p].ref = F[p].ref
                                  /\ F[p].lock # t => H[p].lock = F[p].lock
        BY ONLY <3>1, UnlockObject
      <3> QED BY <3>2 DEF H, n
    <2>20. ListsAgree(futex', fu', sleepsAt')
      <3> DEFINE H == futex'   f == fu'   s == sleepsAt'
      <3>1. /\ ListsAgree(F, f, s) /\ f \in [FuThreads -> FuRec] /\ H \in [Futexes -> FuObj]
            /\ F \in [Futexes -> FuObj]
            /\ \A p \in Futexes : /\ H[p].waiters = F[p].waiters /\ H[p].uaddr = F[p].uaddr
                                  /\ F[p].waiters # <<>> => H[p].in_tree = F[p].in_tree
            /\ \A x \in FuThreads : f[x].waiter = f[x].waiter
        BY <2>13, <2>17, <2>19
      <3> HIDE DEF H, f, s
      <3>2. ListsAgree(H, f, s)
        BY ONLY <3>1, ListsKept
      <3> QED BY <3>2 DEF H, f, s
    <2>21. OneEach(futex')
      BY <1>2, <2>17, <2>19 DEF OneEach, Apart
    <2>22. Gentle(t, fu[t], futex, futex', treeLock, treeLock', RefsOf(fu'))
      <3>1. \A p \in Futexes :
               /\ futex'[p].uaddr = futex[p].uaddr
               /\ futex[p].lock # t => futex'[p].lock = futex[p].lock
               /\ futex'[p].in_tree = futex[p].in_tree
               /\ ~futex[p].in_tree => futex'[p].ref = futex[p].ref
        <4> TAKE p \in Futexes
        <4>1. /\ F[p].uaddr = futex[p].uaddr /\ F[p].in_tree = futex[p].in_tree
              /\ F[p].lock = futex[p].lock
              /\ p \notin {a, b} => F[p].ref = futex[p].ref
          BY <2>17 DEF Apart
        <4>2. /\ futex'[p].uaddr = F[p].uaddr /\ futex'[p].in_tree = F[p].in_tree
              /\ futex'[p].ref = F[p].ref
              /\ F[p].lock # t => futex'[p].lock = F[p].lock
          BY <2>19
        <4>3. ~futex[p].in_tree => p # a /\ p # b
          BY <1>3, <2>0
        <4> QED BY <4>1, <4>2, <4>3
      <3> QED BY <1>3, <3>1 DEF Gentle
    <2>23. FuShape(new) /\ HasLocks(t, new, futex', treeLock') /\ HasFound(new, futex')
      BY <1>a, <1>2, <2>9, <2>10 DEF FuShape, Waits, HasLocks, HasFound
    <2>24. ASSUME NEW x \in FuThreads
           PROVE  FuShape(fu'[x]) /\ HasLocks(x, fu'[x], futex', treeLock') /\ HasFound(fu'[x], futex')
      <3>1. CASE x = t
        BY <2>11, <2>23, <3>1
      <3>2. CASE x \in W
        <4> DEFINE e == fu'[x]   H == futex'   tree == treeLock'   o == a   p == b
        <4>1. /\ o \in Futexes /\ p \in Futexes /\ treeLock = t /\ futex[o].lock = t /\ x # t
              /\ fu[x].waiter = o /\ e = [fu[x] EXCEPT !.waiter = p]
          BY <1>2, <1>3, <2>1, <2>8, <2>11, <3>2
        <4> HIDE DEF e, H, tree, o, p
        <4>2. FuShape(e) /\ HasLocks(x, e, H, tree) /\ HasFound(e, H)
          BY <4>1, MovedThread
        <4> QED BY <4>2 DEF e, H, tree
      <3>3. CASE x # t /\ x \notin W
        <4> DEFINE f == fu   F0 == futex   tree == treeLock   g == fu'   H == futex'   tree2 == treeLock'
        <4>1. /\ f \in [FuThreads -> FuRec] /\ F0 \in [Futexes -> FuObj] /\ Balanced(F0, RefsOf(f))
              /\ g \in [FuThreads -> FuRec] /\ H \in [Futexes -> FuObj] /\ g[x] = f[x] /\ x # t
              /\ FuShape(f[x]) /\ HasLocks(x, f[x], F0, tree) /\ HasFound(f[x], F0)
              /\ Gentle(t, f[t], F0, H, tree, tree2, RefsOf(g))
          BY <1>2, <2>11, <2>13, <2>19, <2>22, <3>3 DEF FuInv
        <4> HIDE DEF f, F0, tree, g, H, tree2
        <4>2. FuShape(g[x]) /\ HasLocks(x, g[x], H, tree2) /\ HasFound(g[x], H)
          BY <4>1, OthersKeep
        <4> QED BY <4>2 DEF g, H, tree2
      <3> QED BY <3>1, <3>2, <3>3
    <2>25. treeLock' \in FuThreads \cup {NoOne}
      BY <1>a
    <2> QED BY <2>13, <2>16, <2>19, <2>20, <2>21, <2>24, <2>25 DEF FuInv, FuTypeOK
  <1> QED BY <1>1, <1>5, <1>6, <1>7

(* Every step of the specification keeps the invariant. *)
LEMMA FuStepInv == FuInv /\ [FuNext]_fuVars => FuInv'
  <1> SUFFICES ASSUME FuInv, [FuNext]_fuVars PROVE FuInv'
    OBVIOUS
  <1>1. CASE FuNext
    <2>1. PICK t \in FuThreads : FuCall(t) \/ FuProceed(t) \/ FuGivesUp(t)
      BY <1>1 DEF FuNext
    <2>2. \/ FuCall(t) \/ FuFind(t) \/ FuCreate(t) \/ FuFindAgain(t) \/ FuLock(t)
          \/ FuWait(t) \/ FuWake(t) \/ FuWakeOp(t) \/ FuRequeue(t) \/ FuDequeue(t) \/ FuRelock(t)
          \/ (FuAwake(t) \/ FuGivesUp(t)) \/ FuLeave(t) \/ (FuPop(t) \/ FuSetEvent(t)) \/ FuReturn(t)
      BY <2>1, Zenon DEF FuProceed
    <2> QED BY <2>2, CallStep, FindStep, CreateStep, FindAgainStep, LockStep, WaitStep, WakeStep,
               WakeOpStep, RequeueStep, DequeueStep, RelockStep, AwakeStep, LeaveStep,
               WakeQueueStep, ReturnStep, Zenon
  <1>2. CASE UNCHANGED fuVars
    BY <1>2 DEF fuVars, FuInv, FuTypeOK, FuRestOK
  <1> QED BY <1>1, <1>2

(* The waiters on a list are its range. *)
LEMMA FuInvRefs == FuInv => FutexRefsExact
  <1> SUFFICES ASSUME FuInv PROVE FutexRefsExact
    OBVIOUS
  <1>1. \A o \in Futexes : futex[o].ref = InTree(futex, o) + Refs(fu, o) /\ Refs(fu, o) \in Nat
    BY RefsOfType DEF FuInv, FuTypeOK, Balanced, RefsOf
  <1>2. ASSUME NEW o \in Futexes
        PROVE  futex[o].ref =
                 (IF futex[o].in_tree THEN 1 ELSE 0)
                 + Cardinality({t \in FuThreads : fu[t].f1 = o})
                 + Cardinality({t \in FuThreads : fu[t].f2 = o})
                 + Cardinality({t \in FuThreads : fu[t].tmp = o})
                 + Cardinality({t \in FuThreads : fu[t].waiter = o})
    <2> DEFINE A == {t \in FuThreads : fu[t].f1 = o}   B == {t \in FuThreads : fu[t].f2 = o}
               C == {t \in FuThreads : fu[t].tmp = o}  D == {t \in FuThreads : fu[t].waiter = o}
               n == IF futex[o].in_tree THEN 1 ELSE 0
    <2>1. futex[o].ref = n + (Cardinality(A) + Cardinality(B) + Cardinality(C) + Cardinality(D))
      BY <1>1 DEF InTree, Refs
    <2>2. ASSUME NEW X \in SUBSET FuThreads PROVE Cardinality(X) \in Nat
      BY FutexAssumption, FS_Subset, FS_CardinalityType
    <2>3. /\ Cardinality(A) \in Nat /\ Cardinality(B) \in Nat /\ Cardinality(C) \in Nat
          /\ Cardinality(D) \in Nat /\ n \in Nat
      BY <2>2
    <2> HIDE DEF A, B, C, D, n
    <2>4. futex[o].ref = n + Cardinality(A) + Cardinality(B) + Cardinality(C) + Cardinality(D)
      BY <2>1, <2>3
    <2> QED BY <2>4 DEF A, B, C, D, n
  <1>3. \A o \in Futexes : \A x \in Range(futex[o].waiters) : fu[x].waiter = o
    BY DEF FuInv, ListsAgree, Range
  <1> QED BY <1>2, <1>3 DEF FutexRefsExact

(* FutexRefsExact: however calls of wait, wake, requeue and wake_op        *)
(* interleave, the count of a futex object is the number of those that can *)
(* still reach it, and a waiter refers to the futex on whose list it is.   *)
THEOREM FutexRefsHold == FuSpec => []FutexRefsExact
  <1>1. FuSpec => []FuInv
    BY FuInitInv, FuStepInv, PTL DEF FuSpec
  <1> QED BY <1>1, FuInvRefs, PTL

(* Of the numbers in M, those with at most n of M up to them: all, or at   *)
(* least n.                                                                *)
LEMMA FirstMany ==
    ASSUME NEW M \in SUBSET Nat, IsFiniteSet(M), NEW n \in Nat, NEW D,
           D = {j \in M : Cardinality({k \in M : k <= j}) <= n}, D # M
    PROVE  Cardinality(D) >= n
  <1>1. M \ D # {} /\ M \ D \subseteq Nat /\ D \subseteq M
    OBVIOUS
  <1>2. PICK j \in M \ D : \A k \in M \ D : ~(k < j)
    <2> DEFINE T == M \ D
    <2>1. T \subseteq Nat /\ T # {}
      BY <1>1
    <2> HIDE DEF T
    <2>2. \E j \in T : \A k \in T : ~(k < j)
      BY <2>1, LeastMember
    <2> QED BY <2>2 DEF T
  <1> DEFINE A == {k \in M : k < j}   B == {k \in M : k <= j}
  <1>3. B = A \cup {j} /\ j \notin A /\ A \subseteq M /\ A \subseteq D
    <2>1. A \subseteq D
      <3>1. \A k \in M : k < j => k \in D
        BY ONLY <1>2
      <3> QED BY ONLY <3>1
    <2>2. B = A \cup {j} /\ j \notin A /\ A \subseteq M
      <3>1. j \in Nat /\ j \in M
        OBVIOUS
      <3>2. \A k \in M : k <= j <=> k < j \/ k = j
        BY <3>1
      <3>3. ~(j < j)
        BY <3>1
      <3> QED BY <3>1, <3>2, <3>3, Zenon
    <2> QED BY <2>1, <2>2
  <1>4. IsFiniteSet(A) /\ IsFiniteSet(D) /\ Cardinality(A) \in Nat /\ Cardinality(D) \in Nat
    BY <1>1, <1>3, FS_Subset, FS_CardinalityType
  <1>5. Cardinality(B) = Cardinality(A) + 1
    <2> HIDE DEF A, B
    <2> QED BY <1>3, <1>4, FS_AddElement
  <1>6. Cardinality(A) <= Cardinality(D)
    <2> HIDE DEF A
    <2> QED BY <1>3, <1>4, FS_Subset
  <1>7. ~(Cardinality(B) <= n)
    BY <1>2
  <1> HIDE DEF A, B
  <1> QED BY <1>4, <1>5, <1>6, <1>7

(* The places of a list from which S is taken number its members. *)
LEMMA PlacesCount ==
    ASSUME NEW q, OneToOne(q), NEW D \in SUBSET DOMAIN q, IsFiniteSet(D),
           NEW S, \A x : x \in S <=> \E i \in D : x = q[i]
    PROVE  IsFiniteSet(S) /\ Cardinality(S) = Cardinality(D)
  <1> DEFINE f == [i \in D |-> q[i]]
  <1>1. f \in Bijection(D, S)
    BY DEF Bijection, Injection, Surjection, IsInjective, OneToOne
  <1>2. ExistsBijection(D, S)
    BY <1>1 DEF ExistsBijection
  <1> QED BY <1>2, FS_Bijection

(* S has every waiter on the list q with a bit of bits, or k of them. *)
TakesAll(S, q, bits, k) ==
    /\ \A x \in S : \E i \in DOMAIN q : x = q[i] /\ (bits = {} \/ bits \cap fu[x].call.bits # {})
    /\ IsFiniteSet(S) /\ Cardinality(S) \in Nat
    /\ \/ Cardinality(S) >= k
       \/ \A i \in DOMAIN q : bits \cap fu[q[i]].call.bits # {} => q[i] \in S

LEMMA FirstTakeAll ==
    ASSUME NEW F, NEW o, o # NoFutex, NEW q \in Seq(FuThreads), q = F[o].waiters, OneToOne(q),
           NEW bits, NEW n \in Nat, NEW S, S = FirstWaiters(F, o, bits, n)
    PROVE  TakesAll(S, q, bits, n)
  <1> DEFINE M == {i \in DOMAIN q : bits = {} \/ bits \cap fu[q[i]].call.bits # {}}
             D == {j \in M : Cardinality({k \in M : k <= j}) <= n}
  <1>1. S = {q[i] : i \in D}
    BY Zenon DEF FirstWaiters
  <1>2. M \in SUBSET Nat /\ IsFiniteSet(M) /\ M \subseteq DOMAIN q
    <2>1. DOMAIN q = 1..Len(q) /\ Len(q) \in Nat /\ M \subseteq 1..Len(q)
      OBVIOUS
    <2>2. IsFiniteSet(1..Len(q))
      BY <2>1, FS_Interval
    <2> QED BY <2>1, <2>2, FS_Subset
  <1>3. D \subseteq M /\ IsFiniteSet(D) /\ Cardinality(D) \in Nat
    <2>1. D \subseteq M
      OBVIOUS
    <2> HIDE DEF D, M
    <2> QED BY <1>2, <2>1, FS_Subset, FS_CardinalityType
  <1>4. IsFiniteSet(S) /\ Cardinality(S) = Cardinality(D)
    <2>1. (\A x : x \in S <=> \E i \in D : x = q[i]) /\ D \in SUBSET DOMAIN q
      <3> HIDE DEF D, M
      <3> QED BY <1>1, <1>2, <1>3
    <2> HIDE DEF D
    <2> QED BY <1>3, <2>1, PlacesCount
  <1>5. D = M \/ Cardinality(D) >= n
    <2>1. D = {j \in M : Cardinality({k \in M : k <= j}) <= n}
      OBVIOUS
    <2> HIDE DEF M, D
    <2> QED BY <1>2, <2>1, FirstMany
  <1>6. \A x \in S : \E i \in DOMAIN q : x = q[i] /\ (bits = {} \/ bits \cap fu[x].call.bits # {})
    <2> TAKE x \in S
    <2>1. PICK i \in M : x = q[i]
      <3> HIDE DEF D, M
      <3> QED BY <1>1, <1>3
    <2> QED BY <2>1
  <1>7. D = M => \A i \in DOMAIN q : bits \cap fu[q[i]].call.bits # {} => q[i] \in S
    <2> SUFFICES ASSUME D = M, NEW i \in DOMAIN q, bits \cap fu[q[i]].call.bits # {}
                 PROVE  q[i] \in S
      OBVIOUS
    <2>1. i \in M
      OBVIOUS
    <2> HIDE DEF D, M
    <2> QED BY <1>1, <2>1
  <1> HIDE DEF D, M
  <1> QED BY <1>3, <1>4, <1>5, <1>6, <1>7 DEF TakesAll

(* Whoever sleeps is on the list of the futex in the tree for the address. *)
LEMMA SleeperListed ==
    ASSUME FuInv, NEW y \in FuThreads, sleepsAt[y] # NoAddr
    PROVE  \E o \in Futexes : /\ futex[o].in_tree /\ futex[o].uaddr = sleepsAt[y]
                              /\ \E i \in DOMAIN futex[o].waiters : futex[o].waiters[i] = y
  <1>1. ListsAgree(futex, fu, sleepsAt) /\ fu[y].waiter \in Futexes \cup {NoFutex}
    BY ThreadFacts DEF FuInv
  <1>2. fu[y].waiter \in Futexes
    BY <1>1 DEF ListsAgree
  <1>3. PICK i \in DOMAIN futex[fu[y].waiter].waiters : futex[fu[y].waiter].waiters[i] = y
    BY <1>1 DEF ListsAgree
  <1> DEFINE o == fu[y].waiter
  <1>4. futex[o].in_tree /\ sleepsAt[futex[o].waiters[i]] = futex[o].uaddr
    BY <1>1, <1>2, <1>3 DEF ListsAgree
  <1> QED BY <1>2, <1>3, <1>4

LEMMA NoneAsleep ==
    ASSUME FuInv, NEW u, u # NoAddr, FindFutex(futex, u) = NoFutex
    PROVE  \A y \in FuThreads : sleepsAt[y] # u
  <1> DEFINE F == futex   o == FindFutex(F, u)
  <1>1. F \in [Futexes -> FuObj] /\ o = FindFutex(F, u)
    BY DEF FuInv, FuTypeOK
  <1> HIDE DEF F, o
  <1>2. o = NoFutex => \A p \in Futexes : ~(F[p].in_tree /\ F[p].uaddr = u)
    BY <1>1, FindObject, ZenonT(60)
  <1>3. \A p \in Futexes : ~(futex[p].in_tree /\ futex[p].uaddr = u)
    BY <1>2 DEF o, F
  <1> QED BY <1>3, SleeperListed

(* A wake-up by thread t takes the threads in S: threads that sleep at its *)
(* address and match its bits, all of them, or as many as it may take, at  *)
(* least one.                                                              *)
Wakes(t, S) ==
    LET call == fu[t].call IN
    /\ S \subseteq FuThreads /\ IsFiniteSet(S) /\ Cardinality(S) \in Nat
    /\ \A x \in FuThreads : sleepsAt'[x] = IF x \in S THEN NoAddr ELSE sleepsAt[x]
    /\ \A x \in S : sleepsAt[x] = call.u1 /\ (call.bits = {} \/ call.bits \cap fu[x].call.bits # {})
    /\ \/ Cardinality(S) >= call.n1 /\ Cardinality(S) >= 1
       \/ \A y \in FuThreads : sleepsAt[y] = call.u1 /\ call.bits \cap fu[y].call.bits # {} => y \in S

LEMMA WakeTakes ==
    ASSUME FuInv, NEW t \in FuThreads, FuWake(t)
    PROVE  \E S : Wakes(t, S)
  <1> DEFINE me == fu[t]
             o == me.f1
             bits == me.call.bits
             k == IF me.call.n1 = 0 THEN 1 ELSE me.call.n1
             S == ToWake(futex, o, bits, me.call.n1)
             q == futex[o].waiters
  <1>1. me.pc = "work" /\ me.call.op = "wake" /\ Woken(S)
    BY Zenon DEF FuWake
  <1>2. /\ futex \in [Futexes -> FuObj] /\ fu \in [FuThreads -> FuRec] /\ me \in FuRec /\ FuShape(me)
        /\ ListsAgree(futex, fu, sleepsAt) /\ HasFound(me, futex) /\ me.call \in FuLegal
        /\ o \in Futexes \cup {NoFutex} /\ OneEach(futex)
    BY <1>1, ThreadFacts DEF FuInv
  <1>3. /\ o \in Futexes /\ o # NoFutex /\ futex[o].in_tree /\ futex[o].uaddr = me.call.u1
    BY <1>1, <1>2 DEF FuShape, HasFound
  <1>4. me.call.n1 \in Nat /\ k \in Nat /\ k >= 1 /\ k >= me.call.n1 /\ me.call.u1 # NoAddr
    <2>1. me.call.n1 \in Nat /\ me.call.u1 # NoAddr
      <3> DEFINE c == me.call
      <3>1. c \in FuLegal
        BY <1>2
      <3> HIDE DEF c
      <3>2. c.n1 \in Nat /\ c.u1 # NoAddr
        BY <3>1, LegalCall
      <3> QED BY <3>2 DEF c
    <2> QED BY <2>1
  <1>5. q \in Seq(FuThreads) /\ OneToOne(q)
    BY <1>2, <1>3 DEF ListsAgree, OneToOne, FuObj
  <1>6. TakesAll(S, q, bits, k)
    <2> DEFINE F == futex
    <2>1. S = FirstWaiters(F, o, bits, k) /\ q = F[o].waiters /\ k \in Nat
      BY <1>4 DEF ToWake
    <2> HIDE DEF S, q, bits, k, o, F
    <2> QED BY <1>3, <1>5, <2>1, FirstTakeAll
  <1>7. \A i \in DOMAIN q : q[i] \in FuThreads /\ sleepsAt[q[i]] = me.call.u1
    BY <1>2, <1>3, <1>5 DEF ListsAgree
  <1>8. ASSUME NEW y \in FuThreads, sleepsAt[y] = me.call.u1
        PROVE  \E i \in DOMAIN q : q[i] = y
    <2>1. PICK p \in Futexes : /\ futex[p].in_tree /\ futex[p].uaddr = sleepsAt[y]
                               /\ \E i \in DOMAIN futex[p].waiters : futex[p].waiters[i] = y
      BY <1>4, <1>8, SleeperListed
    <2>2. p = o
      BY <1>2, <1>3, <1>8, <2>1 DEF OneEach
    <2> QED BY <2>1, <2>2
  <1>9. \A x \in FuThreads : sleepsAt'[x] = IF x \in S THEN NoAddr ELSE sleepsAt[x]
    <2> HIDE DEF S
    <2> QED BY <1>1 DEF Woken
  <1> HIDE DEF S, q, k
  <1>10. /\ S \subseteq FuThreads /\ IsFiniteSet(S) /\ Cardinality(S) \in Nat
         /\ \A x \in S : sleepsAt[x] = me.call.u1 /\ (bits = {} \/ bits \cap fu[x].call.bits # {})
    BY <1>6, <1>7 DEF TakesAll
  <1>11. \/ Cardinality(S) >= me.call.n1 /\ Cardinality(S) >= 1
         \/ \A y \in FuThreads : sleepsAt[y] = me.call.u1 /\ bits \cap fu[y].call.bits # {} => y \in S
    <2>1. CASE Cardinality(S) >= k
      BY <1>4, <1>10, <2>1
    <2>2. CASE \A i \in DOMAIN q : bits \cap fu[q[i]].call.bits # {} => q[i] \in S
      BY <1>8, <2>2
    <2> QED BY <1>6, <2>1, <2>2 DEF TakesAll
  <1>12. Wakes(t, S)
    BY <1>9, <1>10, <1>11 DEF Wakes
  <1> QED BY <1>12

(* What a wake-up that begins with a look at the tree or at a list, and ends, leaves. *)
WokenAll(t) ==
    LET call == fu[t].call
        asleep == {x \in FuThreads : sleepsAt[x] = call.u1 /\ fu[x].call.bits \cap call.bits # {}}
        woken == {x \in asleep : sleepsAt'[x] # call.u1}
    IN woken = asleep \/ Cardinality(woken) >= call.n1

LEMMA WakesComplete ==
    ASSUME FuInv, NEW t \in FuThreads, fu[t].pc # "idle", NEW S, Wakes(t, S)
    PROVE  WokenAll(t)
  <1> DEFINE call == fu[t].call
             asleep == {x \in FuThreads : sleepsAt[x] = call.u1 /\ fu[x].call.bits \cap call.bits # {}}
             woken == {x \in asleep : sleepsAt'[x] # call.u1}
  <1>1. call.u1 # NoAddr /\ call.n1 \in Nat
    <2>1. call \in FuLegal
      BY ThreadFacts
    <2> HIDE DEF call
    <2> QED BY <2>1, LegalCall
  <1>2. /\ S \subseteq FuThreads /\ IsFiniteSet(S) /\ Cardinality(S) \in Nat
        /\ \A x \in FuThreads : sleepsAt'[x] = IF x \in S THEN NoAddr ELSE sleepsAt[x]
        /\ \A x \in S : sleepsAt[x] = call.u1 /\ (call.bits = {} \/ call.bits \cap fu[x].call.bits # {})
        /\ \/ Cardinality(S) >= call.n1 /\ Cardinality(S) >= 1
           \/ \A y \in FuThreads : sleepsAt[y] = call.u1 /\ call.bits \cap fu[y].call.bits # {} => y \in S
    BY DEF Wakes
  <1>3. \A x \in FuThreads : fu[x].call.bits \cap call.bits = call.bits \cap fu[x].call.bits
    OBVIOUS
  <1>4. CASE call.bits = {}
    <2>1. asleep = {}
      BY <1>4
    <2>2. woken = asleep
      BY <2>1
    <2> QED BY <2>2 DEF WokenAll
  <1>5. CASE call.bits # {} /\ Cardinality(S) >= call.n1
    <2> HIDE DEF call
    <2>1. \A x \in FuThreads : x \in woken <=> x \in S
      BY <1>1, <1>2, <1>3, <1>5
    <2>2. woken = S
      BY <1>2, <2>1
    <2>3. Cardinality(woken) >= call.n1
      <3> HIDE DEF woken
      <3> QED BY <1>5, <2>2
    <2> QED BY <2>3 DEF WokenAll, call
  <1>6. CASE \A y \in FuThreads : sleepsAt[y] = call.u1 /\ call.bits \cap fu[y].call.bits # {} => y \in S
    <2> HIDE DEF call
    <2>1. \A x \in asleep : x \in woken
      BY <1>1, <1>2, <1>3, <1>6
    <2>2. woken = asleep
      BY <2>1
    <2> QED BY <2>2 DEF WokenAll, call
  <1> QED BY <1>2, <1>4, <1>5, <1>6

(* A wake-up that has not been carried out. *)
AWaker(me) == me.pc \in {"find", "lock", "work"} /\ me.stage = "work" /\ me.call.op = "wake"

(* A wake-up ends in this step. *)
Finishes(t) ==
    /\ fu[t].call.op = "wake"
    /\ \/ fu[t].pc = "find" /\ fu'[t].pc = "idle"
       \/ fu[t].pc = "work" /\ fu'[t].pc # "work"

(* Thread x goes on sleeping, is woken or moved, or begins to sleep, with  *)
(* the word as it expects it.                                              *)
Dozes(t, x) ==
    \/ sleepsAt'[x] = sleepsAt[x]
    \/ sleepsAt'[x] \notin FuJoinAddrs
    \/ /\ x = t /\ sleepsAt'[x] = fu[x].call.u1 /\ word[fu[x].call.u1] = fu[x].call.val

(* What a step of thread t, other than the beginning of a call, leaves alone. *)
Proceeds(t) ==
    /\ todo' = todo /\ fu[t].pc # "idle"
    /\ \A u \in FuAddrs : u \in FuJoinAddrs => word'[u] = word[u]
    /\ \A x \in FuThreads : x # t => /\ fu'[x].pc = fu[x].pc /\ fu'[x].stage = fu[x].stage
                                     /\ fu'[x].call = fu[x].call
    /\ fu'[t].pc # "idle" => fu'[t].call = fu[t].call
    /\ \A x \in FuThreads : Dozes(t, x)
    /\ AWaker(fu[t]) => AWaker(fu'[t]) \/ Finishes(t)
    /\ Finishes(t) => \/ \E S : Wakes(t, S)
                      \/ FindFutex(futex, fu[t].call.u1) = NoFutex /\ sleepsAt' = sleepsAt

(* A step of a thread that is not about to wake anybody. *)
LEMMA OtherProceeds ==
    ASSUME FuInv, NEW t \in FuThreads, fu[t].pc # "idle", ~AWaker(fu[t]),
           NEW new, fu' = [fu EXCEPT ![t] = new], new.pc = "idle" \/ new.call = fu[t].call,
           todo' = todo, \A u \in FuAddrs : u \in FuJoinAddrs => word'[u] = word[u],
           \A x \in FuThreads : Dozes(t, x)
    PROVE  Proceeds(t)
  <1>1. fu \in [FuThreads -> FuRec] /\ FuShape(fu[t])
    BY ThreadFacts
  <1>2. fu'[t] = new /\ \A x \in FuThreads : x # t => fu'[x] = fu[x]
    BY <1>1
  <1>3. ~Finishes(t)
    BY <1>1 DEF Finishes, AWaker, FuShape
  <1> QED BY <1>2, <1>3 DEF Proceeds

LEMMA QuietProceeds ==
    ASSUME FuInv, NEW t \in FuThreads, fu[t].pc # "idle", ~AWaker(fu[t]),
           NEW new, fu' = [fu EXCEPT ![t] = new], new.pc = "idle" \/ new.call = fu[t].call,
           UNCHANGED <<todo, word, sleepsAt>>
    PROVE  Proceeds(t)
  <1>1. \A x \in FuThreads : Dozes(t, x)
    BY DEF Dozes
  <1>2. /\ todo' = todo /\ \A u \in FuAddrs : u \in FuJoinAddrs => word'[u] = word[u]
    OBVIOUS
  <1> QED BY <1>1, <1>2, OtherProceeds

LEMMA FoundFu ==
    ASSUME NEW t, NEW me, NEW F, FuFound(t, me, F)
    PROVE  \/ fu' = [fu EXCEPT ![t] = [me EXCEPT !.pc = "lock"]]
           \/ me.f1 = NoFutex /\ fu' = [fu EXCEPT ![t] = [me EXCEPT !.pc = "work"]]
  BY DEF FuFound

LEMMA FindProceeds ==
    ASSUME FuInv, NEW t \in FuThreads, FuFind(t)
    PROVE  Proceeds(t)
  <1> DEFINE me == fu[t]
             call == me.call
             a == FindFutex(futex, call.u1)
             b == FindFutex(futex, call.u2)
             second == call.op \in {"wake_op", "requeue"}
             b2 == IF second THEN b ELSE NoFutex
             needed == IF call.op = "requeue" THEN b ELSE a
             F == GetFutex(GetFutex(futex, a), b2)
             new == [me EXCEPT !.f1 = a, !.f2 = b2]
  <1>1. /\ me.pc = "find" /\ UNCHANGED <<word, sleepsAt, todo>>
        /\ \/ call.op \in {"wait", "requeue"} /\ fu' = [fu EXCEPT ![t].pc = "create"]
           \/ needed = NoFutex /\ call.op = "wake" /\ fu' = [fu EXCEPT ![t] = FuIdle]
           \/ (needed = NoFutex => call.op \notin {"wait", "requeue", "wake"}) /\ FuFound(t, new, F)
    BY DEF FuFind
  <1>2. fu \in [FuThreads -> FuRec] /\ me \in FuRec /\ FuShape(me)
    BY ThreadFacts
  <1>3. me.stage = "work"
    BY <1>1, <1>2 DEF FuShape
  <1>4. CASE call.op \in {"wait", "requeue"} /\ fu' = [fu EXCEPT ![t].pc = "create"]
    <2> DEFINE e == [me EXCEPT !.pc = "create"]
    <2>1. e.call = fu[t].call /\ fu' = [fu EXCEPT ![t] = e]
      BY <1>2, <1>4 DEF FuRec
    <2>2. ~AWaker(fu[t]) /\ fu[t].pc # "idle"
      BY <1>1, <1>4 DEF AWaker
    <2> HIDE DEF e, me, call
    <2> QED BY <1>1, <2>1, <2>2, QuietProceeds
  <1>5. CASE needed = NoFutex /\ call.op = "wake" /\ fu' = [fu EXCEPT ![t] = FuIdle]
    <2>1. fu'[t].pc = "idle" /\ \A x \in FuThreads : x # t => fu'[x] = fu[x]
      BY <1>2, <1>5 DEF FuIdle
    <2>2. a = NoFutex
      BY <1>5
    <2>3. \A x \in FuThreads : Dozes(t, x)
      BY <1>1 DEF Dozes
    <2>4. Finishes(t)
      BY <1>1, <1>5, <2>1 DEF Finishes
    <2> QED BY <1>1, <2>1, <2>2, <2>3, <2>4 DEF Proceeds
  <1>6. CASE /\ needed = NoFutex => call.op \notin {"wait", "requeue", "wake"}
             /\ FuFound(t, new, F)
    <2> DEFINE e1 == [new EXCEPT !.pc = "lock"]   e2 == [new EXCEPT !.pc = "work"]
    <2>1. /\ e1.call = call /\ e1.stage = "work" /\ e1.pc = "lock"
          /\ e2.call = call /\ new.f1 = a
      BY <1>2, <1>3 DEF FuRec
    <2>2. fu' = [fu EXCEPT ![t] = e1] \/ (a = NoFutex /\ fu' = [fu EXCEPT ![t] = e2])
      <3> HIDE DEF new, F, a
      <3>1. \/ fu' = [fu EXCEPT ![t] = [new EXCEPT !.pc = "lock"]]
            \/ new.f1 = NoFutex /\ fu' = [fu EXCEPT ![t] = [new EXCEPT !.pc = "work"]]
        BY <1>6, FoundFu
      <3> QED BY <2>1, <3>1
    <2>3. me.pc # "idle"
      BY <1>1
    <2> HIDE DEF new, e1, e2, F
    <2>4. CASE call.op # "wake"
      <3>1. ~AWaker(fu[t])
        BY <2>4 DEF AWaker
      <3> HIDE DEF me, a
      <3> QED BY <1>1, <2>1, <2>2, <2>3, <3>1, QuietProceeds DEF me
    <2>5. CASE call.op = "wake"
      <3>1. fu' = [fu EXCEPT ![t] = e1]
        BY <1>6, <2>2, <2>5
      <3>2. fu'[t] = e1 /\ \A x \in FuThreads : x # t => fu'[x] = fu[x]
        BY <1>2, <3>1
      <3>3. AWaker(fu'[t]) /\ ~Finishes(t)
        BY <1>1, <2>1, <2>5, <3>2 DEF AWaker, Finishes
      <3>4. \A x \in FuThreads : Dozes(t, x)
        BY <1>1 DEF Dozes
      <3> QED BY <1>1, <2>1, <2>3, <3>2, <3>3, <3>4 DEF Proceeds
    <2> QED BY <2>4, <2>5
  <1> QED BY <1>1, <1>4, <1>5, <1>6

LEMMA CreateProceeds ==
    ASSUME FuInv, NEW t \in FuThreads, FuCreate(t)
    PROVE  Proceeds(t)
  <1> DEFINE me == fu[t]
             o == CHOOSE p \in Futexes : futex[p].ref = 0
             new == [me EXCEPT !.pc = "find_again", !.tmp = o, !.dequeue = me.call.op = "requeue"]
  <1>1. /\ me.pc = "create" /\ UNCHANGED <<word, sleepsAt, todo>>
        /\ fu' = [fu EXCEPT ![t] = FuIdle] \/ fu' = [fu EXCEPT ![t] = new]
    BY Zenon DEF FuCreate
  <1>2. me \in FuRec /\ ~AWaker(fu[t]) /\ fu[t].pc # "idle"
    BY <1>1, ThreadFacts DEF AWaker
  <1>3. new.call = fu[t].call /\ FuIdle.pc = "idle"
    BY <1>2 DEF FuRec, FuIdle
  <1> HIDE DEF new, me
  <1> QED BY <1>1, <1>2, <1>3, QuietProceeds

LEMMA FindAgainProceeds ==
    ASSUME FuInv, NEW t \in FuThreads, FuFindAgain(t)
    PROVE  Proceeds(t)
  <1> DEFINE me == fu[t]
  <1>1. me.pc = "find_again" /\ UNCHANGED <<word, sleepsAt, todo>>
    BY DEF FuFindAgain
  <1>2. me \in FuRec /\ FuShape(me)
    BY ThreadFacts
  <1>4. PICK f1, f2, tmp, F : FuFound(t, [me EXCEPT !.f1 = f1, !.f2 = f2, !.tmp = tmp], F)
                              \/ FuFound(t, [me EXCEPT !.f1 = f1, !.tmp = tmp], F)
    BY Zenon DEF FuFindAgain
  <1> DEFINE e1 == [me EXCEPT !.f1 = f1, !.f2 = f2, !.tmp = tmp]
             e2 == [me EXCEPT !.f1 = f1, !.tmp = tmp]
  <1>5. ASSUME NEW e, e = e1 \/ e = e2 PROVE [e EXCEPT !.pc = "lock"].call = me.call
                                            /\ [e EXCEPT !.pc = "work"].call = me.call
    BY <1>2, <1>5 DEF FuRec
  <1>6. PICK e : (e = e1 \/ e = e2) /\ FuFound(t, e, F)
    BY <1>4
  <1>7. \/ fu' = [fu EXCEPT ![t] = [e EXCEPT !.pc = "lock"]]
        \/ fu' = [fu EXCEPT ![t] = [e EXCEPT !.pc = "work"]]
    BY <1>6, FoundFu
  <1>8. ~AWaker(fu[t]) /\ fu[t].pc # "idle"
    BY <1>1 DEF AWaker
  <1>9. [e EXCEPT !.pc = "lock"].call = me.call /\ [e EXCEPT !.pc = "work"].call = me.call
    BY <1>5, <1>6
  <1> QED BY <1>1, <1>7, <1>8, <1>9, QuietProceeds

LEMMA LockProceeds ==
    ASSUME FuInv, NEW t \in FuThreads, FuLock(t)
    PROVE  Proceeds(t)
  <1> DEFINE me == fu[t]
  <1>1. me.pc = "lock" /\ UNCHANGED <<word, sleepsAt, todo>>
    BY DEF FuLock
  <1>2. fu' = [fu EXCEPT ![t].pc = me.stage] \/ fu' = fu
    BY Zenon DEF FuLock
  <1>3. fu \in [FuThreads -> FuRec] /\ me \in FuRec
    BY ThreadFacts
  <1>4. /\ \A x \in FuThreads : x # t => fu'[x] = fu[x]
        /\ fu'[t].call = me.call /\ fu'[t].stage = me.stage /\ fu'[t].pc \in {me.stage, "lock"}
    BY <1>1, <1>2, <1>3 DEF FuRec
  <1>5. AWaker(fu[t]) => AWaker(fu'[t])
    BY <1>4 DEF AWaker
  <1>6. ~Finishes(t)
    BY <1>1 DEF Finishes
  <1>7. \A x \in FuThreads : Dozes(t, x)
    BY <1>1 DEF Dozes
  <1> HIDE DEF me
  <1> QED BY <1>1, <1>4, <1>5, <1>6, <1>7 DEF Proceeds, me

(* Thread t ends its work with the local variables me. *)
Unlocks(t, me) == \E p \in {"relock", "wake_queue"} :
    fu' = [fu EXCEPT ![t] = [me EXCEPT !.pc = p, !.stage = "dequeue"]]

LEMMA UnlockFu ==
    ASSUME NEW t, NEW me, NEW F, NEW d, FuUnlock(t, me, F, d)
    PROVE  Unlocks(t, me)
  BY DEF FuUnlock, Unlocks

LEMMA WaitProceeds ==
    ASSUME FuInv, NEW t \in FuThreads, FuWait(t)
    PROVE  Proceeds(t)
  <1> DEFINE me == fu[t]
             e1 == [me EXCEPT !.ret = "EAGAIN"]
             e2 == [me EXCEPT !.pc = "sleep", !.waiter = me.f1, !.f1 = NoFutex]
  <1>1. /\ me.pc = "work" /\ me.call.op = "wait" /\ UNCHANGED <<word, todo>>
        /\ \/ FuUnlock(t, e1, futex, CheckDequeue(futex, me.f1)) /\ UNCHANGED sleepsAt
           \/ /\ fu' = [fu EXCEPT ![t] = e2] /\ word[me.call.u1] = me.call.val
              /\ sleepsAt' = [sleepsAt EXCEPT ![t] = me.call.u1]
    BY DEF FuWait
  <1>2. me \in FuRec /\ ~AWaker(fu[t]) /\ fu[t].pc # "idle" /\ FuRestOK
    BY <1>1, ThreadFacts DEF AWaker
  <1>3. CASE FuUnlock(t, e1, futex, CheckDequeue(futex, me.f1)) /\ UNCHANGED sleepsAt
    <2> HIDE DEF e1
    <2>0. Unlocks(t, e1)
      BY <1>3, UnlockFu
    <2>1. PICK p \in {"relock", "wake_queue"} :
             fu' = [fu EXCEPT ![t] = [e1 EXCEPT !.pc = p, !.stage = "dequeue"]]
      BY <2>0 DEF Unlocks
    <2>2. [e1 EXCEPT !.pc = p, !.stage = "dequeue"].call = fu[t].call
      BY <1>2 DEF FuRec, e1
    <2> QED BY <1>1, <1>2, <1>3, <2>1, <2>2, QuietProceeds
  <1>4. CASE /\ fu' = [fu EXCEPT ![t] = e2] /\ word[me.call.u1] = me.call.val
             /\ sleepsAt' = [sleepsAt EXCEPT ![t] = me.call.u1]
    <2>1. e2.call = fu[t].call
      BY <1>2 DEF FuRec
    <2>2. \A x \in FuThreads : Dozes(t, x)
      BY <1>2, <1>4 DEF Dozes, FuRestOK
    <2>3. todo' = todo /\ \A u \in FuAddrs : u \in FuJoinAddrs => word'[u] = word[u]
      BY <1>1
    <2> HIDE DEF e2
    <2> QED BY <1>2, <1>4, <2>1, <2>2, <2>3, OtherProceeds
  <1> QED BY <1>1, <1>3, <1>4

LEMMA WakeProceeds ==
    ASSUME FuInv, NEW t \in FuThreads, FuWake(t)
    PROVE  Proceeds(t)
  <1> DEFINE me == fu[t]
             S == ToWake(futex, me.f1, me.call.bits, me.call.n1)
             F == RemoveWaiters(futex, me.f1, S)
  <1>1. /\ me.pc = "work" /\ me.call.op = "wake" /\ UNCHANGED <<word, todo>> /\ Woken(S)
        /\ FuUnlock(t, me, F, CheckDequeue(F, me.f1))
    BY Zenon DEF FuWake
  <1>2. me \in FuRec /\ fu \in [FuThreads -> FuRec]
    BY ThreadFacts
  <1>3. PICK p \in {"relock", "wake_queue"} :
            fu' = [fu EXCEPT ![t] = [me EXCEPT !.pc = p, !.stage = "dequeue"]]
    <2> HIDE DEF me, F
    <2>1. Unlocks(t, me)
      BY <1>1, UnlockFu
    <2> QED BY <2>1 DEF Unlocks
  <1>4. /\ \A x \in FuThreads : x # t => fu'[x] = fu[x]
        /\ fu'[t].call = me.call /\ fu'[t].pc = p
    BY <1>2, <1>3 DEF FuRec
  <1>5. Finishes(t)
    BY <1>1, <1>4 DEF Finishes
  <1>6. \E T : Wakes(t, T)
    BY WakeTakes
  <1>7. \A x \in FuThreads : Dozes(t, x)
    <2> HIDE DEF S
    <2> QED BY <1>1, FutexAssumption DEF Dozes, Woken
  <1> HIDE DEF me
  <1> QED BY <1>1, <1>4, <1>5, <1>6, <1>7 DEF Proceeds, me

LEMMA WakeOpProceeds ==
    ASSUME FuInv, NEW t \in FuThreads, FuWakeOp(t)
    PROVE  Proceeds(t)
  <1> DEFINE me == fu[t]
             call == me.call
             S1 == ToWake(futex, me.f1, {}, call.n1)
             F1 == IF me.f1 = NoFutex THEN futex ELSE RemoveWaiters(futex, me.f1, S1)
             S2 == ToWake(F1, me.f2, {}, call.n2)
             F2 == IF me.f2 = NoFutex THEN F1 ELSE RemoveWaiters(F1, me.f2, S2)
             e == [me EXCEPT !.ret = "ENOSYS"]
             d1 == CheckDequeue(F1, me.f1)
             d2 == CheckDequeue(F1, me.f1) \/ CheckDequeue(F2, me.f2)
  <1>1. /\ me.pc = "work" /\ call.op = "wake_op" /\ UNCHANGED todo
        /\ \E v \in Words : word' = [word EXCEPT ![call.u2] = v]
        /\ \/ FuUnlock(t, e, futex, FALSE) /\ sleepsAt' = sleepsAt
           \/ Woken(S1) /\ FuUnlock(t, me, F1, d1)
           \/ Woken(S1 \cup S2) /\ FuUnlock(t, me, F2, d2)
    BY Zenon DEF FuWakeOp
  <1>2. /\ me \in FuRec /\ ~AWaker(fu[t]) /\ fu[t].pc # "idle" /\ FuRestOK /\ call \in FuLegal
    BY <1>1, ThreadFacts DEF AWaker
  <1>3. \A u \in FuAddrs : u \in FuJoinAddrs => word'[u] = word[u]
    <2>1. call.u2 \notin FuJoinAddrs
      <3> HIDE DEF call
      <3> QED BY <1>1, <1>2, LegalCall
    <2>2. PICK v \in Words : word' = [word EXCEPT ![call.u2] = v]
      BY <1>1
    <2> QED BY <1>2, <2>1, <2>2 DEF FuRestOK
  <1> HIDE DEF e, d1, d2, F1, F2, S1, S2
  <1>4. \A x \in FuThreads : Dozes(t, x)
    BY <1>1, FutexAssumption DEF Dozes, Woken
  <1>5. \E g \in {e, me} : \E F, d : FuUnlock(t, g, F, d)
    BY <1>1
  <1>6. PICK g \in {e, me}, p \in {"relock", "wake_queue"} :
          fu' = [fu EXCEPT ![t] = [g EXCEPT !.pc = p, !.stage = "dequeue"]]
    <2> HIDE DEF me
    <2>1. PICK g \in {e, me} : Unlocks(t, g)
      BY <1>5, UnlockFu
    <2> QED BY <2>1 DEF Unlocks
  <1>7. [g EXCEPT !.pc = p, !.stage = "dequeue"].call = fu[t].call
    BY <1>2, <1>6 DEF FuRec, e
  <1>8. todo' = todo
    BY <1>1
  <1> QED BY <1>2, <1>3, <1>4, <1>6, <1>7, <1>8, OtherProceeds

LEMMA RequeueProceeds ==
    ASSUME FuInv, NEW t \in FuThreads, FuRequeue(t)
    PROVE  Proceeds(t)
  <1> DEFINE me == fu[t]
             call == me.call
             a == me.f1
             b == me.f2
             q == IF a = NoFutex THEN <<>> ELSE futex[a].waiters
             S == FirstWaiters(futex, a, {}, call.n1)
             last == IF Len(q) < call.n1 + call.n2 THEN Len(q) ELSE call.n1 + call.n2
             M == SubSeq(q, Cardinality(S) + 1, last)
             W == Range(M)
             F == MoveWaiters(RemoveWaiters(futex, a, S \cup W), M, a, b)
             pc == IF CheckDequeue(F, a) \/ CheckDequeue(F, b) THEN "relock" ELSE "wake_queue"
             e == [me EXCEPT !.ret = "EAGAIN"]
             new == [me EXCEPT !.stage = "dequeue", !.pc = pc]
             moved == [fu EXCEPT ![t] = new]
             Works == /\ sleepsAt' = [x \in FuThreads |-> IF x \in S THEN NoAddr
                                        ELSE IF x \in W THEN call.u2 ELSE sleepsAt[x]]
                      /\ fu' = [x \in FuThreads |-> IF x \in W THEN [moved[x] EXCEPT !.waiter = b]
                                                    ELSE moved[x]]
  <1>1. /\ me.pc = "work" /\ call.op = "requeue" /\ UNCHANGED <<word, todo>>
        /\ \/ FuUnlock(t, e, futex, me.dequeue) /\ sleepsAt' = sleepsAt
           \/ FuUnlock(t, me, futex, me.dequeue) /\ sleepsAt' = sleepsAt
           \/ Works
    BY Zenon DEF FuRequeue
  <1> HIDE DEF q, S, last, M, W, F, pc, new, moved, e, Works
  <1>2. /\ me \in FuRec /\ fu \in [FuThreads -> FuRec] /\ ~AWaker(fu[t]) /\ fu[t].pc # "idle"
        /\ call \in FuLegal
    BY <1>1, ThreadFacts DEF AWaker
  <1>3. CASE (\E g \in {e, me} : \E d : FuUnlock(t, g, futex, d)) /\ sleepsAt' = sleepsAt
    <2>1. PICK g \in {e, me} : Unlocks(t, g)
      <3> HIDE DEF me
      <3> QED BY <1>3, UnlockFu
    <2>2. PICK p \in {"relock", "wake_queue"} :
             fu' = [fu EXCEPT ![t] = [g EXCEPT !.pc = p, !.stage = "dequeue"]]
      BY <2>1 DEF Unlocks
    <2>3. [g EXCEPT !.pc = p, !.stage = "dequeue"].call = fu[t].call
      BY <1>2, <2>2 DEF FuRec, e
    <2> QED BY <1>1, <1>2, <1>3, <2>2, <2>3, QuietProceeds
  <1>4. CASE Works
    <2>1. call.u2 \notin FuJoinAddrs
      <3> HIDE DEF call
      <3> QED BY <1>1, <1>2, LegalCall
    <2>2. \A x \in FuThreads : Dozes(t, x)
      BY <1>4, <2>1, FutexAssumption DEF Works, Dozes
    <2>3. moved \in [FuThreads -> FuRec \cup {new}] /\ moved[t] = new
          /\ \A x \in FuThreads : x # t => moved[x] = fu[x]
      BY <1>2 DEF moved
    <2>4. new.call = call
      BY <1>2 DEF FuRec, new
    <2>5. \A x \in FuThreads : fu'[x] = moved[x] \/ fu'[x] = [moved[x] EXCEPT !.waiter = b]
      BY <1>4 DEF Works
    <2>6. \A x \in FuThreads : \A h : h \in {fu[x], [fu[x] EXCEPT !.waiter = b]} =>
             h.pc = fu[x].pc /\ h.stage = fu[x].stage /\ h.call = fu[x].call
      BY <1>2 DEF FuRec
    <2>7. \A x \in FuThreads : x # t => /\ fu'[x].pc = fu[x].pc /\ fu'[x].stage = fu[x].stage
                                        /\ fu'[x].call = fu[x].call
      <3> TAKE x \in FuThreads
      <3> HAVE x # t
      <3>1. fu'[x] = fu[x] \/ fu'[x] = [fu[x] EXCEPT !.waiter = b]
        BY <2>3, <2>5
      <3> QED BY <2>6, <3>1
    <2>8. fu'[t].call = call
      <3>1. fu'[t] = new \/ fu'[t] = [new EXCEPT !.waiter = b]
        BY <2>3, <2>5
      <3>2. [new EXCEPT !.waiter = b].call = call
        BY <1>2 DEF FuRec, new
      <3> QED BY <2>4, <3>1, <3>2
    <2>9. ~Finishes(t)
      BY <1>1 DEF Finishes
    <2>10. todo' = todo /\ \A u \in FuAddrs : u \in FuJoinAddrs => word'[u] = word[u]
      BY <1>1
    <2> HIDE DEF me
    <2> QED BY <1>2, <2>2, <2>7, <2>8, <2>9, <2>10 DEF Proceeds, me
  <1> QED BY <1>1, <1>3, <1>4

LEMMA LeaveProceeds ==
    ASSUME FuInv, NEW t \in FuThreads, FuLeave(t)
    PROVE  Proceeds(t)
  <1>1. /\ fu[t].pc = "leave" /\ UNCHANGED <<word, todo>>
        /\ sleepsAt' = [sleepsAt EXCEPT ![t] = NoAddr]
    BY Zenon DEF FuLeave
  <1>2. PICK ret : \E F, d : FuUnlock(t, [fu[t] EXCEPT !.waiter = NoFutex, !.ret = ret], F, d)
    BY Zenon DEF FuLeave
  <1> DEFINE e == [fu[t] EXCEPT !.waiter = NoFutex, !.ret = ret]
  <1>3. PICK F, d : FuUnlock(t, e, F, d)
    BY <1>2
  <1>4. fu[t] \in FuRec /\ ~AWaker(fu[t]) /\ fu[t].pc # "idle" /\ FuRestOK
    BY <1>1, ThreadFacts DEF AWaker
  <1>5. \A p : [e EXCEPT !.pc = p, !.stage = "dequeue"].call = fu[t].call
    BY <1>4 DEF FuRec
  <1> HIDE DEF e
  <1>6. Unlocks(t, e)
    BY <1>3, UnlockFu
  <1>7. PICK p \in {"relock", "wake_queue"} :
             fu' = [fu EXCEPT ![t] = [e EXCEPT !.pc = p, !.stage = "dequeue"]]
    BY <1>6 DEF Unlocks
  <1>8. \A x \in FuThreads : Dozes(t, x)
    BY <1>1, <1>4, FutexAssumption DEF Dozes, FuRestOK
  <1>9. todo' = todo /\ \A u \in FuAddrs : u \in FuJoinAddrs => word'[u] = word[u]
    BY <1>1
  <1> QED BY <1>4, <1>5, <1>7, <1>8, <1>9, OtherProceeds

LEMMA RestProceeds ==
    ASSUME FuInv, NEW t \in FuThreads,
           \/ FuDequeue(t) \/ FuRelock(t) \/ FuAwake(t) \/ FuGivesUp(t)
           \/ FuPop(t) \/ FuSetEvent(t) \/ FuReturn(t)
    PROVE  Proceeds(t)
  <1>1. /\ fu[t].pc \in {"dequeue", "relock", "sleep", "wake_queue"}
        /\ UNCHANGED <<todo, word, sleepsAt>>
    BY Zenon DEF FuDequeue, FuRelock, FuAwake, FuGivesUp, FuPop, FuSetEvent, FuReturn
  <1>2. fu[t] \in FuRec /\ ~AWaker(fu[t]) /\ fu[t].pc # "idle"
    BY <1>1, ThreadFacts DEF AWaker
  <1>3. \E new : fu' = [fu EXCEPT ![t] = new] /\ (new.pc = "idle" \/ new.call = fu[t].call)
    <2>1. CASE FuDequeue(t)
      <3>1. fu' = [fu EXCEPT ![t] = [fu[t] EXCEPT !.pc = "wake_queue"]]
        BY <2>1 DEF FuDequeue
      <3>2. [fu[t] EXCEPT !.pc = "wake_queue"].call = fu[t].call
        BY <1>2 DEF FuRec
      <3> QED BY <3>1, <3>2
    <2>2. CASE FuRelock(t)
      <3> DEFINE e1 == [fu[t] EXCEPT !.pc = "lock", !.f1 = fu[t].waiter]
                 e2 == [fu[t] EXCEPT !.pc = "lock"]
      <3>1. fu' = [fu EXCEPT ![t] = e1] \/ fu' = [fu EXCEPT ![t] = e2]
        BY <2>2 DEF FuRelock
      <3>2. e1.call = fu[t].call /\ e2.call = fu[t].call
        BY <1>2 DEF FuRec
      <3> HIDE DEF e1, e2
      <3> QED BY <3>1, <3>2
    <2>3. CASE FuAwake(t) \/ FuGivesUp(t)
      <3>1. PICK ret :
               fu' = [fu EXCEPT ![t] = [fu[t] EXCEPT !.pc = "relock", !.stage = "leave", !.ret = ret]]
        BY <2>3, Zenon DEF FuAwake, FuGivesUp
      <3>2. [fu[t] EXCEPT !.pc = "relock", !.stage = "leave", !.ret = ret].call = fu[t].call
        BY <1>2 DEF FuRec
      <3> QED BY <3>1, <3>2
    <2>4. CASE FuPop(t) \/ FuSetEvent(t)
      <3>1. PICK x : fu' = [fu EXCEPT ![t] = [fu[t] EXCEPT !.waking = x]]
        BY <2>4 DEF FuPop, FuSetEvent
      <3>2. [fu[t] EXCEPT !.waking = x].call = fu[t].call
        BY <1>2 DEF FuRec
      <3> QED BY <3>1, <3>2
    <2>5. CASE FuReturn(t)
      <3>1. fu' = [fu EXCEPT ![t] = FuIdle] /\ FuIdle.pc = "idle"
        BY <2>5 DEF FuReturn, FuIdle
      <3> QED BY <3>1
    <2> QED BY <2>1, <2>2, <2>3, <2>4, <2>5
  <1> QED BY <1>1, <1>2, <1>3, QuietProceeds

(* What a step of the specification can be. *)
LEMMA StepProceeds ==
    ASSUME FuInv, FuNext
    PROVE  \E t \in FuThreads : FuCall(t) \/ Proceeds(t)
  <1>1. PICK t \in FuThreads : FuCall(t) \/ FuProceed(t) \/ FuGivesUp(t)
    BY DEF FuNext
  <1>2. CASE FuCall(t)
    BY <1>2
  <1>3. CASE FuProceed(t) \/ FuGivesUp(t)
    <2>1. \/ FuFind(t) \/ FuCreate(t) \/ FuFindAgain(t) \/ FuLock(t)
          \/ FuWait(t) \/ FuWake(t) \/ FuWakeOp(t) \/ FuRequeue(t) \/ FuLeave(t)
          \/ (\/ FuDequeue(t) \/ FuRelock(t) \/ FuAwake(t) \/ FuGivesUp(t)
              \/ FuPop(t) \/ FuSetEvent(t) \/ FuReturn(t))
      BY <1>3, Zenon DEF FuProceed
    <2>2. Proceeds(t)
      BY <2>1, FindProceeds, CreateProceeds, FindAgainProceeds, LockProceeds, WaitProceeds,
         WakeProceeds, WakeOpProceeds, RequeueProceeds, LeaveProceeds, RestProceeds, Zenon
    <2> QED BY <2>2
  <1> QED BY <1>1, <1>2, <1>3

LEMMA StepCompletes ==
    ASSUME FuInv, [FuNext]_fuVars, NEW t \in FuThreads, Finishes(t)
    PROVE  WokenAll(t)
  <1>1. FuNext
    BY DEF fuVars, Finishes
  <1>2. PICK x \in FuThreads : FuCall(x) \/ Proceeds(x)
    BY <1>1, StepProceeds
  <1>3. fu \in [FuThreads -> FuRec]
    BY ThreadFacts
  <1>4. CASE FuCall(x)
    <2>1. fu[x].pc = "idle" /\ \A y \in FuThreads : y # x => fu'[y] = fu[y]
      BY <1>3, <1>4 DEF FuCall
    <2> QED BY <2>1 DEF Finishes
  <1>5. CASE Proceeds(x)
    <2>1. x = t
      BY <1>5 DEF Proceeds, Finishes
    <2>2. fu[t].pc # "idle" /\ fu[t].call \in FuLegal
      BY ThreadFacts DEF Finishes
    <2>3. CASE \E S : Wakes(t, S)
      BY <2>2, <2>3, WakesComplete
    <2>4. CASE FindFutex(futex, fu[t].call.u1) = NoFutex /\ sleepsAt' = sleepsAt
      <3> DEFINE u == fu[t].call.u1   c == fu[t].call
      <3>1. u # NoAddr
        <4>1. c \in FuLegal
          BY <2>2
        <4> HIDE DEF c
        <4>2. c.u1 # NoAddr
          BY <4>1, LegalCall
        <4> QED BY <4>2 DEF c
      <3>2. FindFutex(futex, u) = NoFutex
        BY <2>4
      <3> HIDE DEF u
      <3>3. \A y \in FuThreads : sleepsAt[y] # u
        BY <3>1, <3>2, NoneAsleep
      <3> DEFINE asleep == {y \in FuThreads : sleepsAt[y] = c.u1 /\ fu[y].call.bits \cap c.bits # {}}
                 woken == {y \in asleep : sleepsAt'[y] # c.u1}
      <3>4. asleep = {}
        BY <3>3 DEF u
      <3>5. woken = asleep
        BY <3>4
      <3> QED BY <3>5 DEF WokenAll
    <2> QED BY <1>5, <2>1, <2>3, <2>4 DEF Proceeds
  <1> QED BY <1>2, <1>4, <1>5

(* FutexWakeComplete: a FUTEX_WAKE, from its look at the tree or at the    *)
(* list of its futex, wakes every thread that then sleeps at its address   *)
(* and matches its bits, or as many as it was asked to.                    *)
THEOREM FutexWakesComplete == FuSpec => FutexWakeComplete
  <1>1. FuSpec => []FuInv
    BY FuInitInv, FuStepInv, PTL DEF FuSpec
  <1>2. FuInv /\ [FuNext]_fuVars =>
          [\A t \in FuThreads :
             LET call == fu[t].call
                 asleep == {x \in FuThreads : sleepsAt[x] = call.u1 /\ fu[x].call.bits \cap call.bits # {}}
                 woken == {x \in asleep : sleepsAt'[x] # call.u1}
             IN call.op = "wake" /\ ((fu[t].pc = "find" /\ fu'[t].pc = "idle")
                                     \/ (fu[t].pc = "work" /\ fu'[t].pc # "work"))
                => woken = asleep \/ Cardinality(woken) >= call.n1]_fuVars
    <2> SUFFICES ASSUME FuInv, [FuNext]_fuVars, NEW t \in FuThreads, Finishes(t)
                 PROVE  WokenAll(t)
      BY DEF Finishes, WokenAll
    <2> QED BY StepCompletes
  <1> QED BY <1>1, <1>2, PTL DEF FuSpec, FutexWakeComplete

-----------------------------------------------------------------------------
(* Joins: the invariant for FutexNoLostWakeup                              *)

(* At a join address thread t waits with call c; call d of thread x is no  *)
(* other wait at the address, and a wake-up only if it matches.            *)
Joins(t, c, x, d) == c.op = "wait" /\ c.u1 \in FuJoinAddrs /\ d.u1 = c.u1 =>
    /\ d.op = "wait" => t = x
    /\ d.op \in {"clear_tid", "wake"} => c.bits \cap d.bits # {}

(* The call a thread is in, and those it has yet to make. *)
CallsLeft(me, s) == (IF me.pc = "idle" THEN {} ELSE {me.call}) \cup {s[i] : i \in DOMAIN s}

JoinedOnce == \A t, x \in FuThreads :
    \A c \in CallsLeft(fu[t], todo[t]), d \in CallsLeft(fu[x], todo[x]) : Joins(t, c, x, d)

(* Nobody has been requeued to a join address. *)
SleepsWhereItWaits == \A x \in FuThreads : sleepsAt[x] \in FuJoinAddrs => sleepsAt[x] = fu[x].call.u1

(* A thread that waits for an end that has come is awaited by a waker that *)
(* has not yet done its work.                                              *)
WakerComes == \A x \in FuThreads :
    sleepsAt[x] \in FuJoinAddrs /\ word[sleepsAt[x]] # fu[x].call.val =>
        \E t \in FuThreads : AWaker(fu[t]) /\ fu[t].call.u1 = sleepsAt[x]

JoinInv == FuInv /\ JoinedOnce /\ SleepsWhereItWaits /\ WakerComes

LEMMA JoinInvSuffices == JoinInv => FutexNoLostWakeup
  BY DEF JoinInv, WakerComes, AWaker, FutexNoLostWakeup

LEMMA JoinInit == OneJoiner /\ FuInit => JoinInv
  <1> SUFFICES ASSUME OneJoiner, FuInit PROVE JoinInv
    OBVIOUS
  <1>1. FuInv
    BY FuInitInv
  <1>2. /\ \A t \in FuThreads : sleepsAt[t] = NoAddr /\ fu[t].pc = "idle"
        /\ todo \in FuScripts /\ NoAddr \notin FuJoinAddrs
        /\ todo \in [FuThreads -> Seq(FuCalls)]
    BY FutexAssumption DEF FuInit, FuIdle
  <1>3. JoinedOnce
    <2> SUFFICES ASSUME NEW t \in FuThreads, NEW x \in FuThreads,
                        NEW c \in CallsLeft(fu[t], todo[t]), NEW d \in CallsLeft(fu[x], todo[x])
                 PROVE  Joins(t, c, x, d)
      BY DEF JoinedOnce
    <2>1. c \in Range(todo[t]) /\ d \in Range(todo[x])
      BY <1>2 DEF CallsLeft, Range
    <2>2. c.op = "wait" /\ c.u1 \in FuJoinAddrs /\ d.u1 = c.u1 =>
            /\ d.op = "wait" => t = x
            /\ d.op = "clear_tid" => c.bits \cap d.bits # {}
      BY <1>2, <2>1 DEF OneJoiner
    <2>3. d \in FuCalls
      <3>1. todo[x] \in Seq(FuCalls)
        BY <1>2
      <3>2. PICK i \in DOMAIN todo[x] : d = todo[x][i]
        BY <2>1 DEF Range
      <3> QED BY <3>1, <3>2
    <2>4. d.u1 \in FuJoinAddrs => d.op \in {"wait", "clear_tid"}
      BY <2>3 DEF FuCalls
    <2> QED BY <2>2, <2>4 DEF Joins
  <1>4. SleepsWhereItWaits /\ WakerComes
    BY <1>2 DEF SleepsWhereItWaits, WakerComes
  <1> QED BY <1>1, <1>3, <1>4 DEF JoinInv

(* Whoever sleeps is in a wait. *)
LEMMA SleeperWaits ==
    ASSUME FuInv, NEW x \in FuThreads, sleepsAt[x] # NoAddr
    PROVE  fu[x].pc # "idle" /\ fu[x].call.op = "wait" /\ sleepsAt[x] \in FuAddrs
  <1>1. fu[x].waiter # NoFutex /\ FuShape(fu[x]) /\ FuRestOK
    BY ThreadFacts DEF FuInv, ListsAgree
  <1> QED BY <1>1 DEF FuShape, Waits, FuRestOK

(* The wake-up at the end of a thread takes the one that joins it. *)
LEMMA JoinerWoken ==
    ASSUME JoinInv, NEW t \in FuThreads, fu[t].pc # "idle", fu[t].call.op = "wake",
           NEW x \in FuThreads, sleepsAt[x] \in FuJoinAddrs, sleepsAt[x] = fu[t].call.u1,
           NEW S, Wakes(t, S)
    PROVE  x \in S
  <1>1. FuInv /\ JoinedOnce /\ SleepsWhereItWaits
    BY DEF JoinInv
  <1>2. ASSUME NEW y \in FuThreads, sleepsAt[y] = sleepsAt[x]
        PROVE  /\ fu[y].pc # "idle" /\ fu[y].call.op = "wait" /\ fu[y].call.u1 = sleepsAt[x]
               /\ fu[y].call \in CallsLeft(fu[y], todo[y])
    <2>1. sleepsAt[y] # NoAddr
      BY <1>2, FutexAssumption
    <2>2. fu[y].pc # "idle" /\ fu[y].call.op = "wait"
      BY <1>1, <2>1, SleeperWaits
    <2> QED BY <1>1, <1>2, <2>2 DEF SleepsWhereItWaits, CallsLeft
  <1>3. fu[t].call \in CallsLeft(fu[t], todo[t])
    BY DEF CallsLeft
  <1>4. fu[x].call.bits \cap fu[t].call.bits # {}
    BY <1>1, <1>2, <1>3 DEF JoinedOnce, Joins
  <1>5. fu[t].call.bits \cap fu[x].call.bits # {}
    BY <1>4
  <1>6. CASE \A y \in FuThreads : sleepsAt[y] = fu[t].call.u1
                                  /\ fu[t].call.bits \cap fu[y].call.bits # {} => y \in S
    BY <1>5, <1>6
  <1>7. CASE Cardinality(S) >= 1
    <2>1. S # {}
      <3>1. Cardinality({}) = 0
        BY FS_EmptySet
      <3> QED BY <1>7, <3>1
    <2>2. PICK z \in S : z \in FuThreads /\ sleepsAt[z] = fu[t].call.u1
      BY <2>1 DEF Wakes
    <2>3. x = z
      BY <1>1, <1>2, <2>2 DEF JoinedOnce, Joins
    <2> QED BY <2>2, <2>3
  <1> QED BY <1>6, <1>7 DEF Wakes

LEMMA ProceedJoins ==
    ASSUME JoinInv, FuInv', NEW t \in FuThreads, Proceeds(t)
    PROVE  JoinInv'
  <1>1. FuInv /\ JoinedOnce /\ SleepsWhereItWaits /\ WakerComes
    BY DEF JoinInv
  <1>2. \A x \in FuThreads : fu'[x].pc # "idle" => fu[x].pc # "idle" /\ fu'[x].call = fu[x].call
    BY DEF Proceeds
  <1>3. JoinedOnce'
    <2>1. \A x \in FuThreads : CallsLeft(fu'[x], todo'[x]) \subseteq CallsLeft(fu[x], todo[x])
      <3>1. todo' = todo
        BY DEF Proceeds
      <3> QED BY <1>2, <3>1 DEF CallsLeft
    <2> QED BY <1>1, <2>1 DEF JoinedOnce
  <1>4. ASSUME NEW x \in FuThreads, sleepsAt'[x] \in FuJoinAddrs
        PROVE  fu'[x].pc # "idle" /\ fu'[x].call = fu[x].call /\ sleepsAt'[x] \in FuAddrs
    <2>1. sleepsAt'[x] # NoAddr
      BY <1>4, FutexAssumption
    <2>2. fu'[x].pc # "idle" /\ sleepsAt'[x] \in FuAddrs
      <3>1. fu'[x].waiter # NoFutex /\ FuShape(fu'[x]) /\ FuRestOK'
        BY <2>1 DEF FuInv, FuTypeOK, ListsAgree
      <3> QED BY <2>1, <3>1 DEF FuShape, Waits, FuRestOK
    <2> QED BY <1>2, <2>2
  <1>5. \A x \in FuThreads : Dozes(t, x)
    BY DEF Proceeds
  <1>6. SleepsWhereItWaits'
    BY <1>1, <1>4, <1>5 DEF SleepsWhereItWaits, Dozes
  <1>7. ASSUME NEW x \in FuThreads, sleepsAt'[x] \in FuJoinAddrs,
               word'[sleepsAt'[x]] # fu'[x].call.val
        PROVE  \E y \in FuThreads : AWaker(fu'[y]) /\ fu'[y].call.u1 = sleepsAt'[x]
    <2>1. word'[sleepsAt'[x]] = word[sleepsAt'[x]] /\ fu'[x].call = fu[x].call
      BY <1>4, <1>7 DEF Proceeds
    <2>2. sleepsAt'[x] = sleepsAt[x]
      BY <1>5, <1>7, <2>1 DEF Dozes
    <2>3. PICK y \in FuThreads : AWaker(fu[y]) /\ fu[y].call.u1 = sleepsAt[x]
      BY <1>1, <1>7, <2>1, <2>2 DEF WakerComes
    <2>4. CASE y # t
      BY <2>2, <2>3, <2>4 DEF Proceeds, AWaker
    <2>5. CASE y = t /\ AWaker(fu'[t])
      <3>1. fu'[t].pc # "idle"
        BY <2>5 DEF AWaker
      <3> QED BY <1>2, <2>2, <2>3, <2>5, <3>1
    <2>6. CASE y = t /\ Finishes(t)
      <3>1. /\ sleepsAt[x] \in FuJoinAddrs /\ sleepsAt[x] = fu[t].call.u1 /\ sleepsAt[x] # NoAddr
            /\ fu[t].call.op = "wake" /\ fu[t].pc # "idle"
        BY <1>7, <2>2, <2>3, <2>6, FutexAssumption DEF AWaker
      <3>2. ASSUME NEW S, Wakes(t, S) PROVE FALSE
        <4>1. x \in S
          BY <3>1, <3>2, JoinerWoken
        <4> QED BY <2>2, <3>1, <3>2, <4>1 DEF Wakes
      <3>3. ASSUME FindFutex(futex, fu[t].call.u1) = NoFutex PROVE FALSE
        <4> DEFINE u == fu[t].call.u1
        <4>1. u # NoAddr /\ FindFutex(futex, u) = NoFutex /\ sleepsAt[x] = u
          BY <3>1, <3>3
        <4> HIDE DEF u
        <4>2. \A z \in FuThreads : sleepsAt[z] # u
          BY <1>1, <4>1, NoneAsleep
        <4> QED BY <4>1, <4>2
      <3> QED BY <2>6, <3>2, <3>3 DEF Proceeds
    <2>7. AWaker(fu[t]) => AWaker(fu'[t]) \/ Finishes(t)
      BY DEF Proceeds
    <2> QED BY <2>3, <2>4, <2>5, <2>6, <2>7
  <1>8. WakerComes'
    BY <1>7 DEF WakerComes
  <1> QED BY <1>3, <1>6, <1>8 DEF JoinInv

(* A call that has begun is the one the script has, or the wake-up of an end. *)
LEMMA LikeJoins ==
    ASSUME NEW t, NEW x, NEW c, NEW d, Joins(t, c, x, d), NEW c2, NEW d2,
           c2.u1 = c.u1, c2.bits = c.bits, c2.op = c.op \/ (c.op = "clear_tid" /\ c2.op = "wake"),
           d2.u1 = d.u1, d2.bits = d.bits, d2.op = d.op \/ (d.op = "clear_tid" /\ d2.op = "wake")
    PROVE  Joins(t, c2, x, d2)
  BY DEF Joins

LEMMA CallJoins ==
    ASSUME JoinInv, FuInv', NEW t \in FuThreads, FuCall(t)
    PROVE  JoinInv'
  <1>1. FuInv /\ JoinedOnce /\ SleepsWhereItWaits /\ WakerComes
    BY DEF JoinInv
  <1> DEFINE call == Head(todo[t])
             called == IF call.op = "clear_tid" THEN [call EXCEPT !.op = "wake"] ELSE call
             new == [FuIdle EXCEPT !.pc = "find", !.call = called]
  <1>2. /\ fu[t].pc = "idle" /\ todo[t] \in Seq(FuLegal) /\ todo[t] # <<>> /\ FuRestOK
        /\ sleepsAt' = sleepsAt /\ todo' = [todo EXCEPT ![t] = Tail(todo[t])]
        /\ fu \in [FuThreads -> FuRec]
    BY <1>1, ThreadFacts DEF FuCall, FuRestOK
  <1>3. call \in FuLegal /\ \E i \in DOMAIN todo[t] : call = todo[t][i]
    BY <1>2
  <1>4. /\ call.u1 \in FuAddrs /\ call.u1 \in FuJoinAddrs => call.op # "store"
    <2> HIDE DEF call
    <2> QED BY <1>3, LegalCall
  <1>5. /\ called.u1 = call.u1 /\ called.bits = call.bits
        /\ called.op = call.op \/ (call.op = "clear_tid" /\ called.op = "wake")
        /\ call.op = "clear_tid" => called.op = "wake"
    <2> HIDE DEF call
    <2> QED BY <1>3 DEF FuLegal
  <1>6. /\ new.pc = "find" /\ new.call = called /\ new.stage = "work"
    BY DEF FuIdle
  <1>7. /\ \/ fu' = [fu EXCEPT ![t] = new] /\ word' = word
           \/ fu' = fu /\ word' = [word EXCEPT ![call.u1] = call.val] /\ call.op = "store"
           \/ /\ fu' = [fu EXCEPT ![t] = new] /\ call.op = "clear_tid"
              /\ word' = [word EXCEPT ![call.u1] = 0]
    BY DEF FuCall
  <1> HIDE DEF new, called, call
  <1>8. /\ fu'[t] = new \/ fu'[t] = fu[t]
        /\ \A x \in FuThreads : x # t => fu'[x] = fu[x]
    BY <1>2, <1>7
  <1>9. JoinedOnce'
    <2> DEFINE Like(c2, c) == /\ c2.u1 = c.u1 /\ c2.bits = c.bits
                              /\ c2.op = c.op \/ (c.op = "clear_tid" /\ c2.op = "wake")
    <2>1. ASSUME NEW x \in FuThreads, NEW c2 \in CallsLeft(fu'[x], todo'[x])
          PROVE  \E c \in CallsLeft(fu[x], todo[x]) : Like(c2, c)
      <3>1. CASE x # t
        <4>1. fu'[x] = fu[x] /\ todo'[x] = todo[x]
          BY <1>2, <1>8, <3>1 DEF FuRestOK
        <4> QED BY <2>1, <4>1
      <3>2. CASE x = t
        <4>1. todo'[t] = Tail(todo[t])
          BY <1>2 DEF FuRestOK
        <4>2. CASE \E i \in DOMAIN Tail(todo[t]) : c2 = Tail(todo[t])[i]
          <5>1. PICK i \in DOMAIN Tail(todo[t]) : c2 = Tail(todo[t])[i]
            BY <4>2
          <5>2. i + 1 \in DOMAIN todo[t] /\ c2 = todo[t][i+1]
            BY <1>2, <5>1
          <5>3. c2 \in CallsLeft(fu[t], todo[t])
            BY <5>2 DEF CallsLeft
          <5> QED BY <3>2, <5>3
        <4>3. CASE fu'[t].pc # "idle" /\ c2 = fu'[t].call
          <5>1. c2 = called
            BY <1>2, <1>6, <1>8, <4>3
          <5>2. call \in CallsLeft(fu[t], todo[t])
            BY <1>3 DEF CallsLeft
          <5> QED BY <1>5, <3>2, <5>1, <5>2
        <4> QED BY <2>1, <3>2, <4>1, <4>2, <4>3 DEF CallsLeft
      <3> QED BY <3>1, <3>2
    <2>2. ASSUME NEW y \in FuThreads, NEW x \in FuThreads,
                 NEW c2 \in CallsLeft(fu'[y], todo'[y]), NEW d2 \in CallsLeft(fu'[x], todo'[x])
          PROVE  Joins(y, c2, x, d2)
      <3>1. PICK c \in CallsLeft(fu[y], todo[y]) : Like(c2, c)
        BY <2>1
      <3>2. PICK d \in CallsLeft(fu[x], todo[x]) : Like(d2, d)
        BY <2>1
      <3>3. Joins(y, c, x, d)
        BY <1>1 DEF JoinedOnce
      <3> QED BY <3>1, <3>2, <3>3, LikeJoins
    <2> QED BY <2>2 DEF JoinedOnce
  <1>10. ASSUME NEW x \in FuThreads, sleepsAt[x] \in FuJoinAddrs
         PROVE  x # t /\ fu'[x] = fu[x] /\ sleepsAt[x] \in FuAddrs
    <2>1. sleepsAt[x] # NoAddr
      BY <1>10, FutexAssumption
    <2>2. fu[x].pc # "idle" /\ sleepsAt[x] \in FuAddrs
      BY <1>1, <2>1, SleeperWaits
    <2> QED BY <1>2, <1>8, <2>2
  <1>11. SleepsWhereItWaits'
    BY <1>1, <1>2, <1>10 DEF SleepsWhereItWaits
  <1>12. ASSUME NEW x \in FuThreads, sleepsAt[x] \in FuJoinAddrs,
                word'[sleepsAt[x]] # fu'[x].call.val
         PROVE  \E y \in FuThreads : AWaker(fu'[y]) /\ fu'[y].call.u1 = sleepsAt[x]
    <2>1. x # t /\ fu'[x] = fu[x] /\ sleepsAt[x] \in FuAddrs
      BY <1>10, <1>12
    <2>2. CASE call.op = "clear_tid" /\ call.u1 = sleepsAt[x]
      <3>1. fu'[t] = new
        BY <1>2, <1>7, <2>2
      <3>2. AWaker(fu'[t]) /\ fu'[t].call.u1 = sleepsAt[x]
        BY <1>5, <1>6, <2>2, <3>1 DEF AWaker
      <3> QED BY <3>2
    <2>3. CASE ~(call.op = "clear_tid" /\ call.u1 = sleepsAt[x])
      <3>1. word'[sleepsAt[x]] = word[sleepsAt[x]]
        BY <1>2, <1>4, <1>7, <1>12, <2>1, <2>3 DEF FuRestOK
      <3>2. PICK y \in FuThreads : AWaker(fu[y]) /\ fu[y].call.u1 = sleepsAt[x]
        BY <1>1, <1>12, <2>1, <3>1 DEF WakerComes
      <3>3. y # t
        BY <1>2, <3>2 DEF AWaker
      <3> QED BY <1>8, <3>2, <3>3
    <2> QED BY <2>2, <2>3
  <1>13. WakerComes'
    BY <1>2, <1>12 DEF WakerComes
  <1> QED BY <1>9, <1>11, <1>13 DEF JoinInv

LEMMA JoinStep == JoinInv /\ [FuNext]_fuVars => JoinInv'
  <1> SUFFICES ASSUME JoinInv, [FuNext]_fuVars PROVE JoinInv'
    OBVIOUS
  <1>1. FuInv /\ FuInv'
    BY FuStepInv DEF JoinInv
  <1>2. CASE FuNext
    BY <1>1, <1>2, StepProceeds, ProceedJoins, CallJoins
  <1>3. CASE UNCHANGED fuVars
    BY <1>1, <1>3 DEF fuVars, JoinInv, JoinedOnce, SleepsWhereItWaits, WakerComes
  <1> QED BY <1>2, <1>3

(* FutexNoLostWakeup: where one thread joins another, whatever they do     *)
(* besides, a joiner that sleeps although the other has cleared its word   *)
(* has a wake-up before it.                                                *)
THEOREM FutexNoLostWakeupHolds == OneJoiner /\ FuSpec => []FutexNoLostWakeup
  <1>1. OneJoiner /\ FuSpec => []JoinInv
    BY JoinInit, JoinStep, PTL DEF FuSpec
  <1> QED BY <1>1, JoinInvSuffices, PTL
=============================================================================
