----------------------------- MODULE AsyncWorker ----------------------------
(***************************************************************************)
(* The async worker of a process (libos/src/libos_async.c): a helper       *)
(* thread that is created when an event is installed, waits for alarms,    *)
(* for descriptors with FIOASYNC and for threads that exit, and ends after *)
(* a number of idle turns.  Its users are alarm and setitimer              *)
(* (sys/libos_alarm.c), ioctl and thread_exit (sys/libos_exit.c).          *)
(*                                                                         *)
(* Times are abstracted to their order: a timer is running or expired, and *)
(* late is the set of workers that have read the clock since it expired.   *)
(* There is one timer at most in async_list, so timers are not compared.   *)
(* The pipe of install_new_event is empty or not: clear_pollable_event     *)
(* reads 256 bytes at once, more than the writes of these threads.         *)
(***************************************************************************)
EXTENDS Integers, Sequences, SequencesExt

CONSTANTS AsThreads,         \* the threads of the application
          AsWorkers,         \* the internal threads that can be workers
          AsScripts,         \* what the threads do and what may fail, see Script
          MAX_IDLE_CYCLES

ASSUME AsAssumption == /\ AsThreads \cap AsWorkers = {}
                       /\ 0 \notin AsThreads \cup AsWorkers
                       /\ MAX_IDLE_CYCLES \in Nat \ {0}

Actors == AsThreads \cup AsWorkers

(* The calls of each thread, and what may fail: "malloc" of an event,      *)
(* "create" of a worker.                                                   *)
Script(calls, fails) == [calls |-> calls, fails |-> fails]

VARIABLES asState,        \* async_worker_state
          asWorker,       \* async_worker_thread, 0 for NULL
          asList,         \* async_list
          asSet,          \* install_new_event: the pipe has bytes in it
          asReady,        \* the descriptor with FIOASYNC has something to read
          asPc, asEvent,  \* per actor: its place, the event it is installing
          asTodo,         \* per thread: the calls it has still to make
          asFails,        \* what may fail
          asRefs,         \* per thread: references to its libos_thread
          asListed,       \* g_thread_list
          asTurn,         \* per worker: its local variables
          itLock, itReset,    \* g_real_itimer: its lock, reset is not 0
          asGone              \* PalProcessExit was called

asVars == <<asState, asWorker, asList, asSet, asReady, asPc, asEvent, asTodo, asRefs,
            asListed, asTurn, itLock, itReset, asGone>>

(* struct async_event; kind "off" is the event of alarm(0), never listed. *)
AsEvent(kind, who, itimer) ==
    [kind |-> kind, who |-> who, itimer |-> itimer, expired |-> FALSE, late |-> {}]

EventOf(call, t) ==
    CASE call \in {"alarm", "itimer"} -> AsEvent("timer", t, call = "itimer")
      [] call \in {"alarm_off", "itimer_off"} -> AsEvent("off", t, call = "itimer_off")
      [] call = "fioasync" -> AsEvent("io", t, FALSE)
      [] call = "exit" -> AsEvent("cleanup", t, FALSE)

NoEvent == AsEvent("none", 0, FALSE)

(* The local variables of libos_async_worker: how PalStreamsWaitEvents     *)
(* sleeps, the idle turns, whether pals has the descriptor, what of pals   *)
(* had events, and the list of triggered events.                           *)

IdleTurn == [sleep |-> "none", idle |-> 0, pals |-> FALSE, gotNew |-> FALSE, gotIo |-> FALSE,
             triggered |-> <<>>]

AsInit ==
    /\ asState = "NOTALIVE" /\ asWorker = 0 /\ asList = <<>> /\ asSet = FALSE
    /\ asReady = FALSE
    /\ asPc = [a \in Actors |-> IF a \in AsThreads THEN "idle" ELSE "none"]
    /\ asEvent = [a \in Actors |-> NoEvent]
    /\ \E s \in AsScripts : asTodo = s.calls /\ asFails = s.fails
    /\ asRefs = [t \in AsThreads |-> 2]          \* the TCB and g_thread_list
    /\ asListed = AsThreads
    /\ asTurn = [w \in AsWorkers |-> IdleTurn]
    /\ itLock = 0 /\ itReset = FALSE /\ asGone = FALSE

Goes(a, place) == asPc' = [asPc EXCEPT ![a] = place]

-----------------------------------------------------------------------------
(* The clock *)

(* A timer that is listed or being installed expires. *)
AsExpire ==
    /\ ~asGone
    /\ \/ \E i \in DOMAIN asList :
             /\ asList[i].kind = "timer" /\ ~asList[i].expired
             /\ asList' = [asList EXCEPT ![i].expired = TRUE]
             /\ UNCHANGED asEvent
       \/ \E a \in Actors :
             /\ asPc[a] = "install" /\ asEvent[a].kind = "timer" /\ ~asEvent[a].expired
             /\ asEvent' = [asEvent EXCEPT ![a].expired = TRUE]
             /\ UNCHANGED asList
    /\ UNCHANGED <<asState, asWorker, asSet, asReady, asPc, asTodo, asRefs, asListed, asTurn,
                   itLock, itReset, asGone>>

Late(e, w) == [e EXCEPT !.late = IF e.expired THEN @ \cup {w} ELSE @]

(* PalSystemTimeQuery by worker w. *)
QueryTime(w) ==
    /\ asList' = [i \in DOMAIN asList |-> Late(asList[i], w)]
    /\ asEvent' = [a \in Actors |-> Late(asEvent[a], w)]

-----------------------------------------------------------------------------
(* Threads of the application *)

(* A call up to the lock in install_async_event: setitimer takes its own   *)
(* lock first; thread_exit has left the list of threads, which gives back  *)
(* a reference, and has taken one for cleanup_thread.                      *)
AsCall(t) ==
    /\ ~asGone
    /\ asPc[t] = "idle" /\ asTodo[t] # <<>>
    /\ LET call == Head(asTodo[t]) IN
       /\ call = "exit" => asListed # {t}
       /\ asTodo' = [asTodo EXCEPT ![t] = Tail(@)]
       /\ asEvent' = [asEvent EXCEPT ![t] = EventOf(call, t)]
       /\ IF call \in {"itimer", "itimer_off"}
          THEN itLock = 0 /\ itLock' = t
          ELSE UNCHANGED itLock
       /\ asListed' = IF call = "exit" THEN asListed \ {t} ELSE asListed
       /\ \/ Goes(t, "install")
          \/ "malloc" \in asFails /\ Goes(t, "failed")
    /\ UNCHANGED <<asState, asWorker, asList, asSet, asReady, asRefs, asTurn, itReset, asGone>>

(* The new list: an alarm or timer cancels the pending one. *)
ListWith(e) ==
    LET kept == SelectSeq(asList, LAMBDA x : x.kind # "timer")
    IN CASE e.kind = "timer" -> Append(kept, e)
         [] e.kind = "off" -> kept
         [] OTHER -> Append(asList, e)

(* Mutant: an event that was listed while a worker exists needs no signal. *)
AfterLockNoSignal(e) == IF asState = "ALIVE" THEN "done" ELSE "signal"

(* After the lock: alarm(0) is done, the others set install_new_event. *)
AfterLock(e) == IF e.kind = "off" THEN "done" ELSE "signal"

(* Mutant: a worker is created for the first event of the list. *)
NeedsWorkerForFirst == asList = <<>>

NeedsWorker == asState = "NOTALIVE"

(* install_async_event under async_worker_lock, with create_async_worker.  *)
(* When the worker cannot be created the event stays in the list.          *)
Install(a) ==
    /\ ~asGone
    /\ asPc[a] = "install"
    /\ LET e == asEvent[a] IN
       /\ asList' = ListWith(e)
       /\ asEvent' = [asEvent EXCEPT ![a].expired = FALSE, ![a].late = {}]
       /\ IF NeedsWorker /\ e.kind # "off"
          THEN \/ \E w \in AsWorkers :
                     /\ asPc[w] = "none"
                     /\ asWorker' = w /\ asState' = "ALIVE"
                     /\ asPc' = [asPc EXCEPT ![a] = AfterLock(e), ![w] = "started"]
               \/ /\ "create" \in asFails
                  /\ Goes(a, "uncreated")
                  /\ UNCHANGED <<asWorker, asState>>
          ELSE /\ Goes(a, AfterLock(e))
               /\ UNCHANGED <<asWorker, asState>>
    /\ UNCHANGED <<asSet, asReady, asTodo, asRefs, asListed, asTurn, itLock, itReset, asGone>>

(* set_pollable_event *)
Signal(a) ==
    /\ ~asGone
    /\ asPc[a] = "signal"
    /\ asSet' = TRUE
    /\ Goes(a, "done")
    /\ UNCHANGED <<asState, asWorker, asList, asReady, asEvent, asTodo, asRefs, asListed, asTurn,
                   itLock, itReset, asGone>>

(* Mutant: the reference for the cleanup is given back in any case. *)
ExitPutsBoth(failed) == 2

(* thread_exit gives back the reference of the TCB, and without a cleanup  *)
(* the one it had taken for it.                                            *)
ExitPuts(failed) == IF failed THEN 2 ELSE 1

(* The call returns: thread_exit ends the thread; setitimer stores the new *)
(* interval and unlocks.  A thread that leaves after a failure has nobody  *)
(* clear its clear_child_tid_pal; "cut" is one whose cleanup is listed.    *)
AsReturn(t) ==
    /\ ~asGone
    /\ asPc[t] \in {"done", "failed", "uncreated"}
    /\ LET e == asEvent[t]
           failed == asPc[t] # "done"
       IN /\ Goes(t, IF e.kind # "cleanup" THEN "idle"
                     ELSE IF asPc[t] = "uncreated" THEN "cut" ELSE "left")
          /\ asRefs' = IF e.kind = "cleanup"
                       THEN [asRefs EXCEPT ![t] = @ - ExitPuts(failed)]
                       ELSE asRefs
          /\ itReset' = IF e.itimer /\ ~failed THEN e.kind = "timer" ELSE itReset
          /\ itLock' = IF e.itimer THEN 0 ELSE itLock
          /\ asEvent' = [asEvent EXCEPT ![t] = NoEvent]
    /\ UNCHANGED <<asState, asWorker, asList, asSet, asReady, asTodo, asListed, asTurn, asGone>>

(* The last thread exits: libos_clean_and_exit, with                       *)
(* terminate_async_worker under its lock, its signal, and the end of the   *)
(* process.  Other threads may still be in their thread_exit.              *)
AsLastExit(t) ==
    /\ ~asGone
    /\ asPc[t] = "idle" /\ asTodo[t] # <<>>
    /\ Head(asTodo[t]) = "exit" /\ asListed = {t}
    /\ asTodo' = [asTodo EXCEPT ![t] = Tail(@)]
    /\ asListed' = {}
    /\ asRefs' = [asRefs EXCEPT ![t] = @ - 1]
    /\ asState' = "NOTALIVE"
    /\ Goes(t, IF asState = "ALIVE" THEN "last_signal" ELSE "ending")
    /\ UNCHANGED <<asWorker, asList, asSet, asReady, asEvent, asTurn, itLock, itReset, asGone>>

AsLastSignal(t) ==
    /\ ~asGone
    /\ asPc[t] = "last_signal"
    /\ asSet' = TRUE
    /\ Goes(t, "ending")
    /\ UNCHANGED <<asState, asWorker, asList, asReady, asEvent, asTodo, asRefs, asListed, asTurn,
                   itLock, itReset, asGone>>

AsProcessExit(t) ==
    /\ ~asGone
    /\ asPc[t] = "ending"
    /\ asGone' = TRUE
    /\ UNCHANGED <<asState, asWorker, asList, asSet, asReady, asPc, asEvent, asTodo, asRefs,
                   asListed, asTurn, itLock, itReset>>

-----------------------------------------------------------------------------
(* The worker *)

(* A worker that is not async_worker_thread when it starts ends at once. *)
WkStart(w) ==
    /\ ~asGone
    /\ asPc[w] = "started"
    /\ Goes(w, IF asWorker = w THEN "top" ELSE "none")
    /\ asTurn' = [asTurn EXCEPT ![w] = IdleTurn]
    /\ UNCHANGED <<asState, asWorker, asList, asSet, asReady, asEvent, asTodo, asRefs, asListed,
                   itLock, itReset, asGone>>

(* The clock is read before the lock is taken. *)
WkTop(w) ==
    /\ ~asGone
    /\ asPc[w] = "top"
    /\ QueryTime(w)
    /\ Goes(w, "scan")
    /\ UNCHANGED <<asState, asWorker, asSet, asReady, asTodo, asRefs, asListed, asTurn, itLock,
                   itReset, asGone>>

Listed(kind) == \E i \in DOMAIN asList : asList[i].kind = kind

(* Mutant: only descriptors and expired timers count, not cleanups. *)
SleepIgnoringCleanups(w) ==
    IF \E i \in DOMAIN asList : asList[i].kind = "timer" /\ w \notin asList[i].late THEN "timer"
    ELSE IF Listed("io") \/ Listed("timer") THEN "inf"
    ELSE "idle"

(* How long to sleep: until the timer that has not expired; for ever when  *)
(* there is a descriptor or another event; or one idle turn.               *)
SleepOf(w) ==
    IF \E i \in DOMAIN asList : asList[i].kind = "timer" /\ w \notin asList[i].late THEN "timer"
    ELSE IF Listed("io") \/ Listed("cleanup") \/ Listed("timer") THEN "inf"
    ELSE "idle"

(* The end of the loop under the lock: nobody is the worker any more. *)
WkEnds(w) == asWorker' = 0 /\ asState' = "NOTALIVE"

(* The first locked section of a turn. *)
WkScan(w) ==
    /\ ~asGone
    /\ asPc[w] = "scan"
    /\ LET sleep == SleepOf(w)
           idle == IF sleep = "idle" THEN asTurn[w].idle + 1 ELSE 0
       IN IF asState # "ALIVE" \/ idle = MAX_IDLE_CYCLES
          THEN /\ WkEnds(w)
               /\ Goes(w, "none")
               /\ asTurn' = [asTurn EXCEPT ![w] = IdleTurn]
          ELSE /\ asTurn' = [asTurn EXCEPT ![w] = [IdleTurn EXCEPT !.sleep = sleep, !.idle = idle,
                                                                   !.pals = Listed("io")]]
               /\ Goes(w, "poll")
               /\ UNCHANGED <<asWorker, asState>>
    /\ UNCHANGED <<asList, asSet, asReady, asEvent, asTodo, asRefs, asListed, itLock, itReset,
                   asGone>>

(* PalStreamsWaitEvents returns with what is readable, or with nothing     *)
(* after its time or an interruption; then the clock is read.              *)
WkWakes(w, new, io) ==
    /\ ~asGone
    /\ asPc[w] = "poll"
    /\ asTurn' = [asTurn EXCEPT ![w].gotNew = new, ![w].gotIo = io]
    /\ QueryTime(w)
    /\ Goes(w, "collect")
    /\ UNCHANGED <<asState, asWorker, asSet, asReady, asTodo, asRefs, asListed, itLock, itReset,
                   asGone>>

WkPolled(w) == /\ asSet \/ (asTurn[w].pals /\ asReady)
               /\ WkWakes(w, asSet, asTurn[w].pals /\ asReady)

WkTimeout(w) == asTurn[w].sleep \in {"timer", "idle"} /\ WkWakes(w, FALSE, FALSE)

WkInterrupted(w) == asTurn[w].sleep = "inf" /\ WkWakes(w, FALSE, FALSE)

(* One-off events that are due: cleanups and expired timers. *)
Due(e, w) == e.kind = "cleanup" \/ (e.kind = "timer" /\ w \in e.late)

(* The second locked section.  The event of a descriptor stays listed. *)
WkCollect(w) ==
    /\ ~asGone
    /\ asPc[w] = "collect"
    /\ LET IsIo(e) == e.kind = "io"
           IsDue(e) == Due(e, w)
           io == IF asTurn[w].gotIo THEN <<SelectSeq(asList, IsIo)[1]>> ELSE <<>>
       IN /\ asTurn' = [asTurn EXCEPT ![w] = [IdleTurn EXCEPT !.idle = asTurn[w].idle,
                              !.triggered = io \o SelectSeq(asList, IsDue)]]
          /\ asList' = SelectSeq(asList, LAMBDA e : ~Due(e, w))
    /\ asSet' = (asSet /\ ~asTurn[w].gotNew)
    /\ Goes(w, "callbacks")
    /\ UNCHANGED <<asState, asWorker, asReady, asEvent, asTodo, asRefs, asListed, itLock, itReset,
                   asGone>>

Popped(w) == [asTurn EXCEPT ![w].triggered = Tail(@)]

First(w) == asTurn[w].triggered[1]

(* Callbacks: cleanup_thread waits until the host thread has ended, then   *)
(* gives its reference back; signal_alarm and signal_io send a signal.     *)
WkCallback(w) ==
    /\ ~asGone
    /\ asPc[w] = "callbacks" /\ asTurn[w].triggered # <<>> /\ ~First(w).itimer
    /\ IF First(w).kind = "cleanup"
       THEN /\ asPc[First(w).who] = "left"
            /\ asRefs' = [asRefs EXCEPT ![First(w).who] = @ - 1]
       ELSE UNCHANGED asRefs
    /\ asTurn' = Popped(w)
    /\ UNCHANGED <<asState, asWorker, asList, asSet, asReady, asPc, asEvent, asTodo, asListed,
                   itLock, itReset, asGone>>

(* cleanup_thread of a thread that was cut: it reads a libos_thread that   *)
(* has been freed, so it may wait for ever, or go on as soon as the memory *)
(* has another content.                                                    *)
WkReadsFreed(w) ==
    /\ ~asGone
    /\ asPc[w] = "callbacks" /\ asTurn[w].triggered # <<>>
    /\ First(w).kind = "cleanup" /\ asPc[First(w).who] = "cut"
    /\ asRefs' = [asRefs EXCEPT ![First(w).who] = @ - 1]
    /\ asTurn' = Popped(w)
    /\ UNCHANGED <<asState, asWorker, asList, asSet, asReady, asPc, asEvent, asTodo, asListed,
                   itLock, itReset, asGone>>

(* signal_itimer reads the interval under its lock, and installs the next  *)
(* expiry after it released the lock.                                      *)
WkItimer(w) ==
    /\ ~asGone
    /\ asPc[w] = "callbacks" /\ asTurn[w].triggered # <<>> /\ First(w).itimer
    /\ itLock = 0
    /\ asTurn' = Popped(w)
    /\ IF itReset
       THEN /\ asEvent' = [asEvent EXCEPT ![w] = AsEvent("timer", w, TRUE)]
            /\ \/ Goes(w, "install")
               \/ "malloc" \in asFails /\ Goes(w, "failed")
       ELSE UNCHANGED <<asEvent, asPc>>
    /\ UNCHANGED <<asState, asWorker, asList, asSet, asReady, asTodo, asRefs, asListed, itLock,
                   itReset, asGone>>

(* After the installation; a failure ends the process. *)
WkItimerDone(w) ==
    /\ ~asGone
    /\ asPc[w] \in {"done", "failed", "uncreated"}
    /\ asGone' = (asPc[w] # "done")
    /\ Goes(w, "callbacks")
    /\ asEvent' = [asEvent EXCEPT ![w] = NoEvent]
    /\ UNCHANGED <<asState, asWorker, asList, asSet, asReady, asTodo, asRefs, asListed, asTurn,
                   itLock, itReset>>

WkAgain(w) ==
    /\ ~asGone
    /\ asPc[w] = "callbacks" /\ asTurn[w].triggered = <<>>
    /\ Goes(w, "top")
    /\ UNCHANGED <<asState, asWorker, asList, asSet, asReady, asEvent, asTodo, asRefs, asListed,
                   asTurn, itLock, itReset, asGone>>

(* The descriptor: data arrives, the application reads it. *)
AsData ==
    /\ ~asGone
    /\ Listed("io")
    /\ asReady' = ~asReady
    /\ UNCHANGED <<asState, asWorker, asList, asSet, asPc, asEvent, asTodo, asRefs, asListed,
                   asTurn, itLock, itReset, asGone>>

-----------------------------------------------------------------------------
ThreadSteps(t) == Install(t) \/ Signal(t) \/ AsReturn(t) \/ AsLastSignal(t)
                  \/ AsProcessExit(t)

WorkerSteps(w) == WkStart(w) \/ WkTop(w) \/ WkScan(w) \/ WkPolled(w) \/ WkTimeout(w)
                  \/ WkCollect(w) \/ WkCallback(w) \/ WkItimer(w) \/ WkItimerDone(w)
                  \/ WkAgain(w) \/ Install(w) \/ Signal(w)

AsNext == /\ UNCHANGED asFails
          /\ \/ AsExpire \/ AsData
             \/ \E t \in AsThreads : AsCall(t) \/ AsLastExit(t) \/ ThreadSteps(t)
             \/ \E w \in AsWorkers : WorkerSteps(w) \/ WkInterrupted(w) \/ WkReadsFreed(w)

(* Threads finish their calls, the worker runs, time passes; but an        *)
(* interruption of the worker's sleep is not to be relied on.              *)
AsFairness == /\ \A t \in AsThreads : WF_asVars(ThreadSteps(t))
              /\ \A w \in AsWorkers : WF_asVars(WorkerSteps(w))
              /\ WF_asVars(AsExpire)

AsSpec == AsInit /\ [][AsNext]_<<asVars, asFails>>

-----------------------------------------------------------------------------
(* Properties *)

AsEvents == {asList[i] : i \in DOMAIN asList}
            \cup UNION {{asTurn[w].triggered[i] : i \in DOMAIN asTurn[w].triggered} : w \in AsWorkers}

InLoop == {w \in AsWorkers : asPc[w] \notin {"none", "started"}}

(* cleanup_thread owns a reference to the thread it cleans up after, from  *)
(* thread_exit until it gives it back, and nobody gives it back twice.     *)
(* One exception, the place "cut": install_async_event lists the clean-up, *)
(* cannot create a worker and fails, and thread_exit puts the reference    *)
(* ("`cleanup_thread` did not get this reference, clean it").  The event   *)
(* stays in the list, and the next worker reads a freed thread.            *)
AsRefsExact ==
    /\ \A t \in AsThreads : asPc[t] # "cut" => asRefs[t] >= 0
    /\ \A e \in AsEvents : e.kind = "cleanup" /\ asPc[e.who] # "cut" => asRefs[e.who] > 0

(* However a worker gives up for idleness and is created again, one worker *)
(* at most looks after async_list, until the last thread ends the process. *)
AsOneWorker == asListed # {} => \A v, w \in InLoop : v = w

(* A thread that exits is cleaned up after, unless its process ends first, *)
(* or the worker is caught by a thread that was cut.                       *)
AsCleanupDone == \A t \in AsThreads :
    (asPc[t] = "left" /\ asRefs[t] > 0)
        ~> (asRefs[t] = 0 \/ asGone \/ \E u \in AsThreads : asPc[u] = "cut")

(* A timer that is listed fires or is replaced, unless the process ends:   *)
(* the comment before the wait in libos_async_worker, "wait on async IO    *)
(* events + install_new_event + next expiring alarm/timer".                *)
AsAlarmFires == Listed("timer") ~> (~Listed("timer") \/ asGone)
=============================================================================
