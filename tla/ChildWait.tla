------------------------------ MODULE ChildWait -----------------------------
(***************************************************************************)
(* The children of one process: how their end becomes known                *)
(* (libos_ipc_child.c, mark_child_exited in libos_process.c) and how       *)
(* threads wait for it (libos_wait.c).                                     *)
(*                                                                         *)
(* A child sends CHILDEXIT and closes its connection; a child that the     *)
(* host kills only closes it.  The only IPC worker reads the connection.   *)
(* children_lock is an auto-clear event: unlock sets it, whoever calls it, *)
(* and lock waits for it and clears it.  Taking it is one step, what is    *)
(* done under it and the unlock another.  When two actors are inside, the  *)
(* lists are changed without protection: the model stops there.            *)
(* A child lives when it enters the list, and its creator succeeds in      *)
(* telling it so (see AddChildProcess).                                    *)
(***************************************************************************)
EXTENDS Naturals, FiniteSets, Sequences, SequencesExt

CONSTANTS
    Kids,           \* the processes that may become children
    Waiters,        \* the threads that call waitid
    CwCalls,        \* the arguments of waitid: [who : subset of Kids, nohang, nowait : BOOLEAN]
    Mortal,         \* the children that may be killed
    Unreadable,     \* the children whose connections may fail to be read
    MaxWaits        \* bound: for each thread the number of its calls and interruptions

VARIABLES
    kid,            \* progress of each child: "unborn", "running", "exited", "killed"
    conn,           \* messages in the connection of each child, or <<"closed">>
    children,       \* list of children, as a set: it is only searched
    zombies,        \* list of children that have ended, the last one first
    status,         \* term_signal and exit_code of a child, as "EXIT" or "SIGPWR"
    lockEvent,      \* the event of children_lock: TRUE when it is free
    waitQueue,      \* g_process.wait_queue: the threads, the last one first
    inUse,          \* in_use of the node of each thread
    cwEvent,        \* scheduler_event of each thread
    cw,             \* where each waiter is: [pc, call]
    worker,         \* where the worker is: [pc, kid, queue]
    waits,          \* the calls and interruptions of each thread so far
    reported        \* history: how often a child was reported and removed, by status

cwVars == <<kid, conn, children, zombies, status, lockEvent, waitQueue, inUse, cwEvent, cw,
            worker, waits, reported>>
cwKidVars == <<kid, conn>>
cwListVars == <<children, zombies, status, reported>>

CwIdle == [pc |-> "idle", call |-> [who |-> {}, nohang |-> FALSE, nowait |-> FALSE]]
WorkerIdle == [pc |-> "idle", queue |-> <<>>]

CwInit ==
    /\ kid = [k \in Kids |-> "unborn"]
    /\ conn = [k \in Kids |-> <<>>]
    /\ children = {} /\ zombies = <<>>
    /\ status = [k \in Kids |-> "none"]
    /\ lockEvent = TRUE
    /\ waitQueue = <<>>
    /\ inUse = [t \in Waiters |-> FALSE]
    /\ cwEvent = [t \in Waiters |-> FALSE]
    /\ cw = [t \in Waiters |-> CwIdle]
    /\ worker = WorkerIdle
    /\ waits = [t \in Waiters |-> 0]
    /\ reported = [k \in Kids |-> <<>>]

CwInside == {t \in Waiters : cw[t].pc \in {"search", "unqueue"}}
            \cup (IF worker.pc = "mark" THEN {"worker"} ELSE {})

CwTwoInside == Cardinality(CwInside) > 1

CwGoto(t, from, to) == cw[t].pc = from /\ cw' = [cw EXCEPT ![t].pc = to]

-----------------------------------------------------------------------------
(* The children.                                                           *)

(* A child is added before it is allowed to run.  Its creator then sends   *)
(* an acknowledgement; when that fails it, too, marks the child as exited  *)
(* (libos_checkpoint.c).  Left out: that call, and the death of a child    *)
(* before it is listed, of which nothing else tells its parent.            *)
AddChildProcess(k) ==
    /\ kid[k] = "unborn" /\ lockEvent
    /\ kid' = [kid EXCEPT ![k] = "running"]
    /\ children' = children \cup {k}
    /\ UNCHANGED <<conn, zombies, status, lockEvent, waitQueue, inUse, cwEvent, cw, worker,
                   reported, waits>>

(* What a child writes to a connection that the worker has deleted is lost. *)
KidSends(k, msgs) == conn' = [conn EXCEPT ![k] = IF @ = <<"closed">> THEN @ ELSE @ \o msgs]

(* ipc_cld_exit_send, then the end of the process. *)
KidExits(k) ==
    /\ kid[k] = "running"
    /\ kid' = [kid EXCEPT ![k] = "exited"]
    /\ KidSends(k, <<"CHILDEXIT", "EOF">>)
    /\ UNCHANGED <<children, zombies, status, lockEvent, waitQueue, inUse, cwEvent, cw, worker,
                   reported, waits>>

KidKilled(k) ==
    /\ k \in Mortal /\ kid[k] = "running"
    /\ kid' = [kid EXCEPT ![k] = "killed"]
    /\ KidSends(k, <<"EOF">>)
    /\ UNCHANGED <<children, zombies, status, lockEvent, waitQueue, inUse, cwEvent, cw, worker,
                   reported, waits>>

-----------------------------------------------------------------------------
(* The IPC worker.  A disconnect deletes the connection.                   *)

WorkerReads(k) ==
    /\ worker.pc = "idle" /\ conn[k] # <<>> /\ conn[k] # <<"closed">>
    /\ worker' = [pc |-> "lock", kid |-> k, how |-> Head(conn[k]), queue |-> <<>>]
    /\ conn' = [conn EXCEPT ![k] = IF Head(@) = "EOF" THEN <<"closed">> ELSE Tail(@)]
    /\ UNCHANGED <<kid, cwListVars, lockEvent, waitQueue, inUse, cwEvent, cw, waits>>

(* receive_ipc_messages fails: handled like a disconnect. *)
WorkerReadFails(k) ==
    /\ k \in Unreadable
    /\ worker.pc = "idle" /\ kid[k] # "unborn" /\ conn[k] # <<"closed">>
    /\ worker' = [pc |-> "lock", kid |-> k, how |-> "EOF", queue |-> <<>>]
    /\ conn' = [conn EXCEPT ![k] = <<"closed">>]
    /\ UNCHANGED <<kid, cwListVars, lockEvent, waitQueue, inUse, cwEvent, cw, waits>>

WorkerLocks ==
    /\ worker.pc = "lock" /\ lockEvent
    /\ lockEvent' = FALSE
    /\ worker' = [worker EXCEPT !.pc = "mark"]
    /\ UNCHANGED <<cwKidVars, cwListVars, waitQueue, inUse, cwEvent, cw, waits>>

(* Mutant: a disconnect is reported also for a child that has exited, and  *)
(* waited for, by then.                                                    *)
MarkChildExitedAgain ==
    LET k == worker.kid   known == kid[k] # "unborn"
    IN /\ worker.pc = "mark"
       /\ lockEvent' = TRUE
       /\ /\ children' = children \ {k}
          /\ zombies' = <<k>> \o SelectSeq(zombies, LAMBDA c : c # k)
          /\ status' = [status EXCEPT ![k] = IF worker.how = "EOF" THEN "SIGPWR" ELSE "EXIT"]
          /\ waitQueue' = <<>>
          /\ worker' = [worker EXCEPT !.pc = IF known THEN "wake" ELSE "fatal",
                                      !.queue = waitQueue]
       /\ UNCHANGED <<cwKidVars, inUse, cwEvent, cw, reported, waits>>

(* mark_child_exited.  A CHILDEXIT from a process that is not in the list  *)
(* makes the callback fail, which ends the process.                        *)
MarkChildExited ==
    LET k == worker.kid
    IN /\ worker.pc = "mark"
       /\ lockEvent' = TRUE
       /\ IF k \in children
          THEN /\ children' = children \ {k}
               /\ zombies' = <<k>> \o zombies
               /\ status' = [status EXCEPT ![k] = IF worker.how = "EOF" THEN "SIGPWR" ELSE "EXIT"]
               /\ waitQueue' = <<>>
               /\ worker' = [worker EXCEPT !.pc = "wake", !.queue = waitQueue]
          ELSE /\ worker' = IF worker.how = "EOF" THEN WorkerIdle
                            ELSE [worker EXCEPT !.pc = "fatal"]
               /\ UNCHANGED <<children, zombies, status, waitQueue>>
       /\ UNCHANGED <<cwKidVars, inUse, cwEvent, cw, reported, waits>>

(* The node, which is on the stack of the thread, is not touched after     *)
(* in_use was cleared: next and thread have been read before.              *)
WorkerReleases ==
    /\ worker.pc = "wake" /\ worker.queue # <<>>
    /\ inUse' = [inUse EXCEPT ![Head(worker.queue)] = FALSE]
    /\ worker' = [worker EXCEPT !.pc = "signal"]
    /\ UNCHANGED <<cwKidVars, cwListVars, lockEvent, waitQueue, cwEvent, cw, waits>>

WorkerWakes ==
    /\ worker.pc = "signal"
    /\ cwEvent' = [cwEvent EXCEPT ![Head(worker.queue)] = TRUE]
    /\ worker' = [worker EXCEPT !.pc = "wake", !.queue = Tail(@)]
    /\ UNCHANGED <<cwKidVars, cwListVars, lockEvent, waitQueue, inUse, cw, waits>>

WorkerDone ==
    /\ worker.pc = "wake" /\ worker.queue = <<>>
    /\ worker' = WorkerIdle
    /\ UNCHANGED <<cwKidVars, cwListVars, lockEvent, waitQueue, inUse, cwEvent, cw, waits>>

-----------------------------------------------------------------------------
(* do_waitid                                                               *)

WaitidCalls(t) == \E call \in CwCalls :
    /\ cw[t].pc = "idle" /\ waits[t] < MaxWaits[t]
    /\ waits' = [waits EXCEPT ![t] = @ + 1]
    /\ cw' = [cw EXCEPT ![t] = [pc |-> "lock", call |-> call]]
    /\ UNCHANGED <<cwKidVars, cwListVars, lockEvent, waitQueue, inUse, cwEvent, worker>>

(* lock(&g_process.children_lock), in do_waitid and in remove_qnode. *)
WaiterLocks(t) ==
    /\ lockEvent /\ lockEvent' = FALSE
    /\ CwGoto(t, "lock", "search") \/ CwGoto(t, "lock_again", "unqueue")
    /\ UNCHANGED <<cwKidVars, cwListVars, waitQueue, inUse, cwEvent, worker, waits>>

(* A matching zombie is reported, and removed unless WNOWAIT was given.    *)
(* Without one, and without a matching child, or with WNOHANG, the call    *)
(* returns; otherwise the thread queues up.                                *)
WaiterSearches(t) ==
    LET call == cw[t].call
        dead == {i \in DOMAIN zombies : zombies[i] \in call.who}
    IN /\ cw[t].pc = "search"
       /\ lockEvent' = TRUE
       /\ IF dead # {}
          THEN /\ IF call.nowait THEN UNCHANGED <<zombies, reported>>
                  ELSE \E i \in dead :
                          /\ \A j \in dead : i <= j
                          /\ zombies' = RemoveAt(zombies, i)
                          /\ reported' = [reported EXCEPT ![zombies[i]] = Append(@, status[zombies[i]])]
               /\ cw' = [cw EXCEPT ![t] = CwIdle]
               /\ UNCHANGED <<waitQueue, inUse>>
          ELSE /\ UNCHANGED <<zombies, reported>>
               /\ IF children \cap call.who = {} \/ call.nohang
                  THEN cw' = [cw EXCEPT ![t] = CwIdle] /\ UNCHANGED <<waitQueue, inUse>>
                  ELSE /\ waitQueue' = <<t>> \o waitQueue
                       /\ inUse' = [inUse EXCEPT ![t] = TRUE]
                       /\ cw' = [cw EXCEPT ![t].pc = "prepare"]
       /\ UNCHANGED <<cwKidVars, children, status, cwEvent, worker, waits>>

(* thread_prepare_wait, before the look at in_use. *)
WaiterPrepares(t) ==
    /\ CwGoto(t, "prepare", "check") \/ CwGoto(t, "prepare_again", "check_again")
    /\ cwEvent' = [cwEvent EXCEPT ![t] = FALSE]
    /\ UNCHANGED <<cwKidVars, cwListVars, lockEvent, waitQueue, inUse, worker, waits>>

(* Mutant: the thread goes to sleep without the look at in_use. *)
WaiterDoesNotCheck(t) ==
    /\ \/ CwGoto(t, "check", "asleep")
       \/ CwGoto(t, "check_again", IF inUse[t] THEN "drowsing" ELSE "leave")
    /\ UNCHANGED <<cwKidVars, cwListVars, lockEvent, waitQueue, inUse, cwEvent, worker, waits>>

(* The break of do_waitid goes straight to the unlock at its end; in       *)
(* remove_qnode the node is free.                                          *)
WaiterChecks(t) ==
    /\ \/ CwGoto(t, "check", IF inUse[t] THEN "asleep" ELSE "out")
       \/ CwGoto(t, "check_again", IF inUse[t] THEN "drowsing" ELSE "leave")
    /\ UNCHANGED <<cwKidVars, cwListVars, lockEvent, waitQueue, inUse, cwEvent, worker, waits>>

WaiterAwakes(t) ==
    /\ cwEvent[t]
    /\ cwEvent' = [cwEvent EXCEPT ![t] = FALSE]
    /\ CwGoto(t, "asleep", "lock_again") \/ CwGoto(t, "drowsing", "prepare_again")
    /\ UNCHANGED <<cwKidVars, cwListVars, lockEvent, waitQueue, inUse, worker, waits>>

(* thread_wait is interrupted by a signal. *)
WaiterInterrupted(t) ==
    /\ waits[t] < MaxWaits[t] /\ waits' = [waits EXCEPT ![t] = @ + 1]
    /\ CwGoto(t, "asleep", "lock_again")
    /\ UNCHANGED <<cwKidVars, cwListVars, lockEvent, waitQueue, inUse, cwEvent, worker>>

(* Mutant: a node that is no longer in the queue is given up at once. *)
WaiterDoesNotDrain(t) ==
    /\ lockEvent' = TRUE
    /\ \/ \E i \in DOMAIN waitQueue : waitQueue[i] = t /\ waitQueue' = RemoveAt(waitQueue, i)
       \/ t \notin Range(waitQueue) /\ UNCHANGED waitQueue
    /\ CwGoto(t, "unqueue", "leave")
    /\ UNCHANGED <<cwKidVars, cwListVars, inUse, cwEvent, worker, waits>>

(* remove_qnode_from_wait_queue; a node that is no longer in the queue may *)
(* still be in use by the worker.                                          *)
WaiterUnqueues(t) ==
    /\ lockEvent' = TRUE
    /\ \/ /\ \E i \in DOMAIN waitQueue : waitQueue[i] = t /\ waitQueue' = RemoveAt(waitQueue, i)
          /\ CwGoto(t, "unqueue", "leave")
       \/ /\ t \notin Range(waitQueue) /\ UNCHANGED waitQueue
          /\ CwGoto(t, "unqueue", "prepare_again")
    /\ UNCHANGED <<cwKidVars, cwListVars, inUse, cwEvent, worker, waits>>

(* Another turn, unless signals are pending or thread_wait failed. *)
WaiterLoops(t) ==
    /\ CwGoto(t, "leave", "lock") \/ CwGoto(t, "leave", "out")
    /\ UNCHANGED <<cwKidVars, cwListVars, lockEvent, waitQueue, inUse, cwEvent, worker, waits>>

(* The label out of do_waitid, reached without the lock. *)
WaiterOut(t) ==
    /\ cw[t].pc = "out"
    /\ cw' = [cw EXCEPT ![t] = CwIdle]
    /\ lockEvent' = TRUE
    /\ UNCHANGED <<cwKidVars, cwListVars, waitQueue, inUse, cwEvent, worker, waits>>

-----------------------------------------------------------------------------
CwWaiterSteps(t) ==
    \/ WaiterLocks(t) \/ WaiterSearches(t) \/ WaiterPrepares(t) \/ WaiterChecks(t)
    \/ WaiterAwakes(t) \/ WaiterUnqueues(t) \/ WaiterLoops(t) \/ WaiterOut(t)

CwWorkerSteps ==
    \/ \E k \in Kids : WorkerReads(k)
    \/ WorkerLocks \/ MarkChildExited \/ WorkerReleases \/ WorkerWakes \/ WorkerDone

CwNext ==
    /\ ~CwTwoInside
    /\ \/ \E k \in Kids : \/ AddChildProcess(k) \/ KidExits(k) \/ KidKilled(k)
                          \/ WorkerReadFails(k)
       \/ \E t \in Waiters : WaitidCalls(t) \/ CwWaiterSteps(t) \/ WaiterInterrupted(t)
       \/ CwWorkerSteps

CwFairness == /\ \A t \in Waiters : WF_cwVars(CwWaiterSteps(t))
              /\ WF_cwVars(CwWorkerSteps)

CwSpec == CwInit /\ [][CwNext]_cwVars

-----------------------------------------------------------------------------
(* "Protected by `children_lock`": whoever is between lock and unlock is   *)
(* there alone.                                                            *)
CwLockProtects == ~CwTwoInside

(* A child is reported to one wait only, with the status it sent if it     *)
(* could send one: the notification, the end of the connection and a       *)
(* failed read race, the first one counts, the others find no child and do *)
(* no harm.                                                                *)
CwReportedOnce == \A k \in Kids :
    /\ Len(reported[k]) <= 1
    /\ "EXIT" \in Range(reported[k]) => kid[k] = "exited"
    /\ "SIGPWR" \in Range(reported[k]) => kid[k] = "killed" \/ k \in Unreadable
    /\ worker.pc # "fatal"

(* The nodes that the worker has yet to visit are on the stacks of threads *)
(* that are still in do_waitid, below the wait queue as well.              *)
CwNodesAlive ==
    LET visited == IF worker.pc = "signal" THEN {} ELSE Range(worker.queue)
        behind == IF worker.queue = <<>> THEN {} ELSE Range(Tail(worker.queue))
    IN \A t \in visited \cup behind \cup Range(waitQueue) :
         inUse[t] /\ cw[t].pc \notin {"idle", "lock", "search", "leave", "out"}

(* A thread that waits when all children have ended comes back: no end of  *)
(* a child slips in between its search and its sleep.  (Unless two threads *)
(* met under children_lock, or the thread keeps coming back by itself.)    *)
CwWaitEnds == \A t \in Waiters :
    cw[t].pc = "asleep" /\ (\A k \in Kids : kid[k] \in {"exited", "killed"})
        ~> cw[t].pc # "asleep" \/ CwTwoInside
=============================================================================
