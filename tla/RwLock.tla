------------------------------- MODULE RwLock -------------------------------
(***************************************************************************)
(* The readers-writer lock of libos_rwlock.h and libos_rwlock.c, one step  *)
(* per atomic operation or event call.  A thread that is "idle" may take   *)
(* the lock for reading or for writing, any number of times; what it does  *)
(* while it is "reading" or "writing" is not modelled.                     *)
(*                                                                         *)
(* writer_wait is an auto-clear event: a wait that returns clears it.      *)
(* readers_wait stays set until it is cleared.  PalEventWait may fail, the *)
(* code then waits again: such a failure is a stuttering step.             *)
(***************************************************************************)
EXTENDS Integers, FiniteSets

CONSTANTS RwThreads,        \* the threads that use the lock
          WRITER_WEIGHT     \* what a writer takes off state

ASSUME RwThreadsFinite == IsFiniteSet(RwThreads)

(* "This number must be greater than the maximal number of readers." *)
ASSUME WeightAboveReaders == /\ WRITER_WEIGHT \in Nat
                             /\ WRITER_WEIGHT > Cardinality(RwThreads)

VARIABLES
    state,              \* active and waiting readers, less the weight of a writer
    departing_readers,  \* readers the writer still waits for; below 0 before it counted them
    waiting_readers,    \* readers that have to come out of the wait for readers_wait
    readers_wait, writer_wait,      \* events
    writers_lock,       \* TRUE while a writer owns the mutex
    rwPc,               \* where each thread is in the code
    rwSeen              \* the value of state the writer's atomic operation returned

rwVars == <<state, departing_readers, waiting_readers, readers_wait, writer_wait,
            writers_lock, rwPc, rwSeen>>

RwAt(pc) == {t \in RwThreads : rwPc[t] = pc}

RwGoto(t, from, to) == rwPc[t] = from /\ rwPc' = [rwPc EXCEPT ![t] = to]

RwInit ==
    /\ state = 0 /\ departing_readers = 0 /\ waiting_readers = 0
    /\ readers_wait = FALSE /\ writer_wait = FALSE /\ writers_lock = FALSE
    /\ rwPc = [t \in RwThreads |-> "idle"]
    /\ rwSeen = 0

-----------------------------------------------------------------------------
(* rwlock_read_lock: with a writer about, the reader is counted and waits. *)
ReadLock(t) ==
    /\ RwGoto(t, "idle", IF state < 0 THEN "await_turn" ELSE "reading")
    /\ state' = state + 1
    /\ UNCHANGED <<departing_readers, waiting_readers, readers_wait, writer_wait,
                   writers_lock, rwSeen>>

ReaderWakes(t) ==
    /\ readers_wait
    /\ RwGoto(t, "await_turn", "let_in")
    /\ UNCHANGED <<state, departing_readers, waiting_readers, readers_wait, writer_wait,
                   writers_lock, rwSeen>>

(* The last of the readers let in tells the writer that it has left the wait. *)
ReaderCheckedIn(t) ==
    /\ RwGoto(t, "let_in", IF waiting_readers = 1 THEN "last_in" ELSE "reading")
    /\ waiting_readers' = waiting_readers - 1
    /\ UNCHANGED <<state, departing_readers, readers_wait, writer_wait, writers_lock, rwSeen>>

LastInSignals(t) ==
    /\ RwGoto(t, "last_in", "reading")
    /\ writer_wait' = TRUE
    /\ UNCHANGED <<state, departing_readers, waiting_readers, readers_wait, writers_lock,
                   rwSeen>>

(* rwlock_read_unlock: with a writer about, the reader departs. *)
ReadUnlock(t) ==
    /\ RwGoto(t, "reading", IF state - 1 < 0 THEN "departing" ELSE "idle")
    /\ state' = state - 1
    /\ UNCHANGED <<departing_readers, waiting_readers, readers_wait, writer_wait,
                   writers_lock, rwSeen>>

(* Mutant: every departing reader wakes the writer. *)
EachDepartureSignals(t) ==
    /\ RwGoto(t, "departing", "last_out")
    /\ departing_readers' = departing_readers - 1
    /\ UNCHANGED <<state, waiting_readers, readers_wait, writer_wait, writers_lock, rwSeen>>

ReaderDeparts(t) ==
    /\ RwGoto(t, "departing", IF departing_readers = 1 THEN "last_out" ELSE "idle")
    /\ departing_readers' = departing_readers - 1
    /\ UNCHANGED <<state, waiting_readers, readers_wait, writer_wait, writers_lock, rwSeen>>

LastOutSignals(t) ==
    /\ RwGoto(t, "last_out", "idle")
    /\ writer_wait' = TRUE
    /\ UNCHANGED <<state, departing_readers, waiting_readers, readers_wait, writers_lock,
                   rwSeen>>

-----------------------------------------------------------------------------
(* rwlock_write_lock *)
WritersLock(t) ==
    /\ ~writers_lock
    /\ writers_lock' = TRUE
    /\ RwGoto(t, "idle", "announce")
    /\ UNCHANGED <<state, departing_readers, waiting_readers, readers_wait, writer_wait, rwSeen>>

WriterAnnounces(t) ==
    /\ RwGoto(t, "announce", IF state > 0 THEN "count" ELSE "writing")
    /\ state' = state - WRITER_WEIGHT
    /\ rwSeen' = state
    /\ UNCHANGED <<departing_readers, waiting_readers, readers_wait, writer_wait, writers_lock>>

(* Mutant: readers that left before the writer counted are not deducted. *)
WriterOverwritesCount(t) ==
    /\ RwGoto(t, "count", IF rwSeen # 0 THEN "await_readers" ELSE "writing")
    /\ departing_readers' = rwSeen
    /\ UNCHANGED <<state, waiting_readers, readers_wait, writer_wait, writers_lock, rwSeen>>

WriterCounts(t) ==
    /\ RwGoto(t, "count", IF departing_readers + rwSeen # 0 THEN "await_readers" ELSE "writing")
    /\ departing_readers' = departing_readers + rwSeen
    /\ UNCHANGED <<state, waiting_readers, readers_wait, writer_wait, writers_lock, rwSeen>>

WriterWakes(t) ==
    /\ writer_wait
    /\ writer_wait' = FALSE
    /\ RwGoto(t, "await_readers", "writing")
    /\ UNCHANGED <<state, departing_readers, waiting_readers, readers_wait, writers_lock, rwSeen>>

(* rwlock_write_unlock *)
WriteUnlock(t) ==
    /\ state' = state + WRITER_WEIGHT
    /\ RwGoto(t, "writing", IF state' # 0 THEN "hand_over" ELSE "release")
    /\ rwSeen' = state'
    /\ UNCHANGED <<departing_readers, waiting_readers, readers_wait, writer_wait, writers_lock>>

WriterHandsOver(t) ==
    /\ RwGoto(t, "hand_over", "wake_readers")
    /\ waiting_readers' = rwSeen
    /\ UNCHANGED <<state, departing_readers, readers_wait, writer_wait, writers_lock, rwSeen>>

(* Mutant: the writer does not wait until the readers it let in have woken up. *)
WriterDoesNotWaitForTurnout(t) ==
    /\ RwGoto(t, "wake_readers", "clear")
    /\ readers_wait' = TRUE
    /\ UNCHANGED <<state, departing_readers, waiting_readers, writer_wait, writers_lock, rwSeen>>

WriterWakesReaders(t) ==
    /\ RwGoto(t, "wake_readers", "await_turnout")
    /\ readers_wait' = TRUE
    /\ UNCHANGED <<state, departing_readers, waiting_readers, writer_wait, writers_lock, rwSeen>>

ReadersTurnedOut(t) ==
    /\ writer_wait
    /\ writer_wait' = FALSE
    /\ RwGoto(t, "await_turnout", "clear")
    /\ UNCHANGED <<state, departing_readers, waiting_readers, readers_wait, writers_lock, rwSeen>>

WriterClears(t) ==
    /\ RwGoto(t, "clear", "release")
    /\ readers_wait' = FALSE
    /\ UNCHANGED <<state, departing_readers, waiting_readers, writer_wait, writers_lock, rwSeen>>

WritersUnlock(t) ==
    /\ RwGoto(t, "release", "idle")
    /\ writers_lock' = FALSE
    /\ UNCHANGED <<state, departing_readers, waiting_readers, readers_wait, writer_wait, rwSeen>>

-----------------------------------------------------------------------------
(* What a thread does once it has called into the lock, and the end of the *)
(* critical sections.                                                      *)
RwProceed(t) ==
    \/ ReaderWakes(t) \/ ReaderCheckedIn(t) \/ LastInSignals(t)
    \/ ReadUnlock(t) \/ ReaderDeparts(t) \/ LastOutSignals(t)
    \/ WriterAnnounces(t) \/ WriterCounts(t) \/ WriterWakes(t)
    \/ WriteUnlock(t) \/ WriterHandsOver(t) \/ WriterWakesReaders(t)
    \/ ReadersTurnedOut(t) \/ WriterClears(t) \/ WritersUnlock(t)

RwNext == \E t \in RwThreads : ReadLock(t) \/ WritersLock(t) \/ RwProceed(t)

RwFairness == \A t \in RwThreads : WF_rwVars(RwProceed(t))

RwSpec == RwInit /\ [][RwNext]_rwVars

-----------------------------------------------------------------------------
RwReaderPcs == {"await_turn", "let_in", "last_in", "reading", "departing", "last_out"}
RwWriterPcs == {"announce", "count", "await_readers", "writing", "hand_over", "wake_readers",
                "await_turnout", "clear", "release"}

RwTypeOK ==
    /\ state \in Int /\ departing_readers \in Int /\ waiting_readers \in Int /\ rwSeen \in Int
    /\ {readers_wait, writer_wait, writers_lock} \subseteq BOOLEAN
    /\ rwPc \in [RwThreads -> {"idle"} \cup RwReaderPcs \cup RwWriterPcs]

(* A thread that writes is alone: no other thread writes, reads, or is on  *)
(* its way to read because an earlier writer let it in.  The one event     *)
(* that wakes writers for two reasons is never taken for the wrong one.    *)
RwExclusion ==
    \A w \in RwAt("writing") : \A t \in RwThreads \ {w} :
        rwPc[t] \notin {"writing", "reading", "let_in", "last_in"}

(* The assertions of libos_rwlock.c: the readers a writer waits for are    *)
(* more than those that have left, state is not below 0 when a writer has  *)
(* taken its weight back, and a lock nobody uses can be destroyed (with no *)
(* event left set that would wake a later user too early).                 *)
RwAsserts ==
    /\ RwAt("count") # {} => departing_readers + rwSeen >= 0
    /\ RwAt("writing") # {} => state + WRITER_WEIGHT >= 0
    /\ RwAt("idle") = RwThreads =>
          /\ state = 0 /\ departing_readers = 0 /\ waiting_readers = 0
          /\ ~readers_wait /\ ~writer_wait

(* The safety of rwlock_read_lock, rwlock_write_lock and their unlocks. *)
RwSafe == RwExclusion /\ RwAsserts

(* Readers that come and go do not starve the writer that owns the mutex,  *)
(* and a reader that waits gets its turn however many writers come.  (A    *)
(* writer that waits for the mutex has no such promise.)                   *)
RwNobodyStarves == \A t \in RwThreads :
    rwPc[t] \in {"announce", "await_turn"} ~> rwPc[t] \in {"writing", "reading"}

=============================================================================
