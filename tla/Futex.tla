-------------------------------- MODULE Futex -------------------------------
(***************************************************************************)
(* Futexes of one process (libos/src/sys/libos_futex.c) and the queues of  *)
(* threads to wake (libos/include/libos_thread.h).                         *)
(*                                                                         *)
(* A futex object exists while somebody refers to it.  It is found by its  *)
(* address in g_futex_tree, under g_futex_tree_lock, and is taken off the  *)
(* tree when its last waiter has gone.  Taking a lock is a step of its     *)
(* own; what is done under the lock of a futex, up to its release, is one  *)
(* step: all of it concerns data that the lock protects.                   *)
(*                                                                         *)
(* A call is a record of its arguments.  Besides the futex operations a    *)
(* thread can store to a futex word ("store") and end, which clears the    *)
(* word for those that join it and then wakes one ("clear_tid").           *)
(***************************************************************************)
EXTENDS Naturals, FiniteSets, Sequences, SequencesExt

CONSTANTS
    FuThreads,      \* the threads
    Futexes,        \* the memory for futex objects
    FuScripts,      \* bound: for each thread the sequence of calls it makes
    Words,          \* the values of a futex word
    FuJoinAddrs     \* addresses at which one thread waits for the end of another

VARIABLES
    word,           \* address -> value of the futex word
    futex,          \* the futex objects
    treeLock,       \* the thread that owns g_futex_tree_lock, or NoThread
    fuEvent,        \* scheduler_event of each thread
    queuedBy,       \* the thread on whose wake queue a thread is, or NoThread
    fu,             \* the local variables of each thread
    sleepsAt,       \* history: the address at which a thread waits to be woken, or NoAddr
    todo            \* the calls each thread has yet to make

fuVars == <<word, futex, treeLock, fuEvent, queuedBy, fu, sleepsAt, todo>>

NoFutex == 0
NoOne == 0
NoAddr == 0

(* The calls a thread can make.  At a join address a thread waits, or ends. *)
FuCalls ==
    {call \in [op : {"wait", "wake", "wake_op", "requeue", "store", "clear_tid"},
               u1 : Nat \ {NoAddr}, u2 : Nat \ {NoAddr}, n1 : Nat, n2 : Nat,
               val : Words, bits : SUBSET Nat, cmp : BOOLEAN, timed : BOOLEAN] :
        /\ call.u1 \in FuJoinAddrs => call.op \in {"wait", "clear_tid"}
        /\ call.op \in {"requeue", "wake_op"} => call.u2 \notin FuJoinAddrs
        (* A requeue of a futex to itself turns its list round; left out. *)
        /\ call.op = "requeue" => call.u1 # call.u2}

ASSUME FutexAssumption ==
    /\ FuThreads \subseteq Nat \ {NoOne} /\ IsFiniteSet(FuThreads)
    /\ Futexes \subseteq Nat \ {NoFutex} /\ NoAddr \notin FuJoinAddrs
    /\ FuScripts \subseteq [FuThreads -> Seq(FuCalls)]

CallsOf(script) == UNION {Range(script[t]) : t \in FuThreads}
FuAddrs == UNION {UNION {{call.u1, call.u2} : call \in CallsOf(script)} : script \in FuScripts}

Freed == [uaddr |-> NoAddr, in_tree |-> FALSE, waiters |-> <<>>, lock |-> NoOne, ref |-> 0]

FuIdle == [pc |-> "idle", call |-> [op |-> "none"], stage |-> "work", f1 |-> NoFutex,
           f2 |-> NoFutex, tmp |-> NoFutex, waiter |-> NoFutex, ret |-> "OK",
           dequeue |-> FALSE, waking |-> NoOne]

FuInit ==
    /\ word = [u \in FuAddrs |-> 1]
    /\ futex = [o \in Futexes |-> Freed]
    /\ treeLock = NoOne
    /\ fuEvent = [t \in FuThreads |-> FALSE]
    /\ queuedBy = [t \in FuThreads |-> NoOne]
    /\ fu = [t \in FuThreads |-> FuIdle]
    /\ sleepsAt = [t \in FuThreads |-> NoAddr]
    /\ todo \in FuScripts

-----------------------------------------------------------------------------
(* Functions of the futex objects F.                                       *)

GetFutex(F, o) == IF o = NoFutex THEN F ELSE [F EXCEPT ![o].ref = @ + 1]

PutFutex(F, o) == IF o = NoFutex THEN F
                  ELSE IF F[o].ref = 1 THEN [F EXCEPT ![o] = Freed]
                  ELSE [F EXCEPT ![o].ref = @ - 1]

FindFutex(F, u) == LET found == {o \in Futexes : F[o].in_tree /\ F[o].uaddr = u}
                   IN IF found = {} THEN NoFutex ELSE CHOOSE o \in found : TRUE

EnqueueFutex(F, o) == GetFutex([F EXCEPT ![o].in_tree = TRUE], o)

CheckDequeue(F, o) == o # NoFutex /\ F[o].waiters = <<>> /\ F[o].in_tree

(* Mutant: the decision to dequeue, made before the lock was given up, is not made again. *)
DequeueUnchecked(F, o) ==
    IF o # NoFutex /\ F[o].in_tree THEN PutFutex([F EXCEPT ![o].in_tree = FALSE], o) ELSE F

MaybeDequeue(F, o) ==
    IF CheckDequeue(F, o) THEN PutFutex([F EXCEPT ![o].in_tree = FALSE], o) ELSE F

(* The list q without the members of S: kept[n] is what remains of the     *)
(* first n.                                                                *)
Kept(q, S) ==
    LET kept[n \in 0..Len(q)] ==
          IF n = 0 THEN <<>> ELSE IF q[n] \in S THEN kept[n-1] ELSE Append(kept[n-1], q[n])
    IN kept

RemoveWaiters(F, o, S) == [F EXCEPT ![o].waiters = Kept(@, S)[Len(@)]]

Unlock(F, t) == [o \in Futexes |-> IF F[o].lock = t THEN [F[o] EXCEPT !.lock = NoOne] ELSE F[o]]

(* The first n waiters of futex o, among those that match bits; no bits:   *)
(* all match.                                                              *)
FirstWaiters(F, o, bits, n) ==
    LET q == F[o].waiters
        matching == {i \in DOMAIN q : bits = {} \/ bits \cap fu[q[i]].call.bits # {}}
    IN IF o = NoFutex THEN {}
       ELSE {q[i] : i \in {j \in matching : Cardinality({k \in matching : k <= j}) <= n}}

(* move_to_wake_queue takes at least one waiter. *)
ToWake(F, o, bits, n) == FirstWaiters(F, o, bits, IF n = 0 THEN 1 ELSE n)

(* add_thread_to_queue, for the threads in S. *)
AddToQueue(t, S) ==
    queuedBy' = [x \in FuThreads |-> IF x \in S /\ queuedBy[x] = NoOne THEN t ELSE queuedBy[x]]

-----------------------------------------------------------------------------
(* The start of a call, as far as the first look at the tree.              *)

FuCall(t) ==
    /\ fu[t].pc = "idle" /\ todo[t] # <<>>
    /\ todo' = [todo EXCEPT ![t] = Tail(@)]
    /\ LET call == Head(todo[t]) IN
       IF call.op = "store"
       THEN word' = [word EXCEPT ![call.u1] = call.val] /\ UNCHANGED fu
       ELSE IF call.op = "clear_tid"
       THEN /\ word' = [word EXCEPT ![call.u1] = 0]
            /\ fu' = [fu EXCEPT ![t] = [FuIdle EXCEPT !.pc = "find",
                                                      !.call = [call EXCEPT !.op = "wake"]]]
       ELSE fu' = [fu EXCEPT ![t] = [FuIdle EXCEPT !.pc = "find", !.call = call]]
            /\ UNCHANGED word
    /\ UNCHANGED <<futex, treeLock, fuEvent, queuedBy, sleepsAt>>

(* Both futexes of a call have been looked up: F has their references. *)
FuFound(t, me, F) ==
    IF me.f1 = NoFutex /\ me.f2 = NoFutex
    THEN fu' = [fu EXCEPT ![t] = [me EXCEPT !.pc = "work"]] /\ futex' = F /\ UNCHANGED treeLock
    ELSE fu' = [fu EXCEPT ![t] = [me EXCEPT !.pc = "lock"]] /\ futex' = F /\ treeLock' = t

FuFind(t) ==
    LET me == fu[t]   call == me.call
        a == FindFutex(futex, call.u1)   b == FindFutex(futex, call.u2)
        second == call.op \in {"wake_op", "requeue"}
        needed == IF call.op = "requeue" THEN b ELSE a
    IN /\ me.pc = "find" /\ treeLock = NoOne
       /\ IF needed = NoFutex /\ call.op \in {"wait", "requeue"}
          THEN fu' = [fu EXCEPT ![t].pc = "create"] /\ UNCHANGED <<futex, treeLock>>
          ELSE IF needed = NoFutex /\ call.op = "wake"
          THEN fu' = [fu EXCEPT ![t] = FuIdle] /\ UNCHANGED <<futex, treeLock>>
          ELSE FuFound(t, [me EXCEPT !.f1 = a, !.f2 = IF second THEN b ELSE NoFutex],
                       GetFutex(GetFutex(futex, a), IF second THEN b ELSE NoFutex))
       /\ UNCHANGED <<word, fuEvent, queuedBy, sleepsAt, todo>>

(* create_new_futex, outside the lock; it may find no memory. *)
FuCreate(t) ==
    LET me == fu[t]
        u == IF me.call.op = "requeue" THEN me.call.u2 ELSE me.call.u1
    IN /\ me.pc = "create"
       /\ \/ fu' = [fu EXCEPT ![t] = FuIdle] /\ UNCHANGED futex
          \/ LET o == CHOOSE p \in Futexes : futex[p].ref = 0
             IN /\ \E p \in Futexes : futex[p].ref = 0
                /\ futex' = [futex EXCEPT ![o] = [Freed EXCEPT !.uaddr = u, !.ref = 1]]
                /\ fu' = [fu EXCEPT ![t] = [me EXCEPT !.pc = "find_again", !.tmp = o,
                                                      !.dequeue = me.call.op = "requeue"]]
       /\ UNCHANGED <<word, treeLock, fuEvent, queuedBy, sleepsAt, todo>>

(* Another thread may have filed a futex for the address in between; the   *)
(* new one is then left in tmp.                                            *)
FuFindAgain(t) ==
    LET me == fu[t]   call == me.call
        o == FindFutex(futex, futex[me.tmp].uaddr)
        F == IF o = NoFutex THEN EnqueueFutex(futex, me.tmp) ELSE GetFutex(futex, o)
        mine == IF o = NoFutex THEN me.tmp ELSE o
        tmp == IF o = NoFutex THEN NoFutex ELSE me.tmp
        a == FindFutex(F, call.u1)
    IN /\ me.pc = "find_again" /\ treeLock = NoOne
       /\ IF call.op = "wait"
          THEN FuFound(t, [me EXCEPT !.f1 = mine, !.tmp = tmp], F)
          ELSE FuFound(t, [me EXCEPT !.f1 = a, !.f2 = mine, !.tmp = tmp], GetFutex(F, a))
       /\ UNCHANGED <<word, fuEvent, queuedBy, sleepsAt, todo>>

(* lock_two_futexes, below the tree lock: the lower address first.  With   *)
(* its locks, a thread gives up the tree lock, unless it needs it.         *)
FuLock(t) ==
    LET me == fu[t]
        missing == {o \in {me.f1, me.f2} \ {NoFutex} : futex[o].lock # t}
        keepsTree == me.stage = "dequeue" \/ (me.stage = "work" /\ me.call.op = "requeue")
    IN /\ me.pc = "lock"
       /\ \E o \in missing :
            /\ \A p \in missing : futex[o].uaddr <= futex[p].uaddr
            /\ futex[o].lock = NoOne
            /\ futex' = [futex EXCEPT ![o].lock = t]
            /\ IF missing = {o}
               THEN /\ fu' = [fu EXCEPT ![t].pc = me.stage]
                    /\ treeLock' = IF keepsTree THEN t ELSE NoOne
               ELSE UNCHANGED <<fu, treeLock>>
       /\ UNCHANGED <<word, fuEvent, queuedBy, sleepsAt, todo>>

-----------------------------------------------------------------------------
(* The work under the locks.                                               *)

(* The locks are released; a futex that seemed to be without waiters is    *)
(* dequeued next, then the threads on the queue are woken.                 *)
FuUnlock(t, me, F, dequeue) ==
    /\ futex' = Unlock(F, t)
    /\ fu' = [fu EXCEPT ![t] = [me EXCEPT !.pc = IF dequeue THEN "relock" ELSE "wake_queue",
                                          !.stage = "dequeue"]]

(* Mutant: the word is not looked at again under the lock. *)
FuSleepsUnchecked(t) ==
    LET me == fu[t]   call == me.call   o == me.f1
    IN /\ me.pc = "work" /\ call.op = "wait"
       /\ /\ fuEvent' = [fuEvent EXCEPT ![t] = FALSE]
          /\ futex' = Unlock([futex EXCEPT ![o].waiters = Append(@, t)], t)
          /\ fu' = [fu EXCEPT ![t] = [me EXCEPT !.pc = "sleep", !.waiter = o, !.f1 = NoFutex]]
          /\ sleepsAt' = [sleepsAt EXCEPT ![t] = call.u1]
       /\ UNCHANGED <<word, treeLock, queuedBy, todo>>

(* futex_wait: the reference of the caller becomes that of the waiter. *)
FuWait(t) ==
    LET me == fu[t]   call == me.call   o == me.f1
    IN /\ me.pc = "work" /\ call.op = "wait"
       /\ IF word[call.u1] # call.val
          THEN /\ FuUnlock(t, [me EXCEPT !.ret = "EAGAIN"], futex, CheckDequeue(futex, o))
               /\ UNCHANGED <<fuEvent, sleepsAt>>
          ELSE /\ fuEvent' = [fuEvent EXCEPT ![t] = FALSE]
               /\ futex' = Unlock([futex EXCEPT ![o].waiters = Append(@, t)], t)
               /\ fu' = [fu EXCEPT ![t] = [me EXCEPT !.pc = "sleep", !.waiter = o,
                                                     !.f1 = NoFutex]]
               /\ sleepsAt' = [sleepsAt EXCEPT ![t] = call.u1]
       /\ UNCHANGED <<word, treeLock, queuedBy, todo>>

Woken(S) == sleepsAt' = [x \in FuThreads |-> IF x \in S THEN NoAddr ELSE sleepsAt[x]]

FuWake(t) ==
    LET me == fu[t]   call == me.call
        S == ToWake(futex, me.f1, call.bits, call.n1)
        F == RemoveWaiters(futex, me.f1, S)
    IN /\ me.pc = "work" /\ call.op = "wake"
       /\ AddToQueue(t, S) /\ Woken(S)
       /\ FuUnlock(t, me, F, CheckDequeue(F, me.f1))
       /\ UNCHANGED <<word, treeLock, fuEvent, todo>>

(* futex_wake_op: what it stores and how it compares is left open; an      *)
(* operation or a comparison it does not know ends it before any wake-up.  *)
FuWakeOp(t) ==
    LET me == fu[t]   call == me.call
        S1 == ToWake(futex, me.f1, {}, call.n1)
        F1 == IF me.f1 = NoFutex THEN futex ELSE RemoveWaiters(futex, me.f1, S1)
        S2 == ToWake(F1, me.f2, {}, call.n2)
        F2 == IF me.f2 = NoFutex THEN F1 ELSE RemoveWaiters(F1, me.f2, S2)
    IN /\ me.pc = "work" /\ call.op = "wake_op"
       /\ \E v \in Words : word' = [word EXCEPT ![call.u2] = v]
       /\ \/ /\ FuUnlock(t, [me EXCEPT !.ret = "ENOSYS"], futex, FALSE)
             /\ UNCHANGED <<queuedBy, sleepsAt>>
          \/ /\ AddToQueue(t, S1) /\ Woken(S1)
             /\ FuUnlock(t, me, F1, CheckDequeue(F1, me.f1))
          \/ /\ AddToQueue(t, S1 \cup S2) /\ Woken(S1 \cup S2)
             /\ FuUnlock(t, me, F2, CheckDequeue(F1, me.f1) \/ CheckDequeue(F2, me.f2))
       /\ UNCHANGED <<treeLock, fuEvent, todo>>

(* Mutant: the moved waiters keep the reference to their first futex. *)
MoveWaitersOnly(F, M, f1, f2) ==
    [F EXCEPT ![f2].waiters = @ \o M]

(* move_futex_waiter, for the waiters in the sequence M: each one's        *)
(* reference moves to f2.                                                  *)
MoveWaiters(F, M, f1, f2) ==
    [F EXCEPT ![f1].ref = @ - Len(M), ![f2].ref = @ + Len(M), ![f2].waiters = @ \o M]

FuRequeue(t) ==
    LET me == fu[t]   call == me.call
        q == IF me.f1 = NoFutex THEN <<>> ELSE futex[me.f1].waiters
        S == FirstWaiters(futex, me.f1, {}, call.n1)
        M == SubSeq(q, Cardinality(S) + 1,
                    IF Len(q) < call.n1 + call.n2 THEN Len(q) ELSE call.n1 + call.n2)
        F == MoveWaiters(RemoveWaiters(futex, me.f1, S \cup Range(M)), M, me.f1, me.f2)
    IN /\ me.pc = "work" /\ call.op = "requeue"
       /\ treeLock' = NoOne
       /\ IF call.cmp /\ word[call.u1] # call.val
          THEN /\ FuUnlock(t, [me EXCEPT !.ret = "EAGAIN"], futex, me.dequeue)
               /\ UNCHANGED <<queuedBy, sleepsAt>>
          ELSE IF me.f1 = NoFutex
          THEN FuUnlock(t, me, futex, me.dequeue) /\ UNCHANGED <<queuedBy, sleepsAt>>
          ELSE /\ AddToQueue(t, S)
               /\ sleepsAt' = [x \in FuThreads |-> IF x \in S THEN NoAddr
                                 ELSE IF x \in Range(M) THEN call.u2 ELSE sleepsAt[x]]
               /\ LET moved == [fu EXCEPT ![t] = [me EXCEPT !.stage = "dequeue", !.pc =
                                   IF CheckDequeue(F, me.f1) \/ CheckDequeue(F, me.f2)
                                   THEN "relock" ELSE "wake_queue"]]
                  IN fu' = [x \in FuThreads |-> IF x \in Range(M)
                              THEN [moved[x] EXCEPT !.waiter = me.f2] ELSE moved[x]]
               /\ futex' = Unlock(F, t)
       /\ UNCHANGED <<word, fuEvent, todo>>

(* maybe_dequeue_futex, maybe_dequeue_two_futexes; the tree lock is taken in FuRelock. *)
FuDequeue(t) ==
    LET me == fu[t]
    IN /\ me.pc = "dequeue"
       /\ futex' = Unlock(MaybeDequeue(MaybeDequeue(futex, me.f1), me.f2), t)
       /\ treeLock' = NoOne
       /\ fu' = [fu EXCEPT ![t].pc = "wake_queue"]
       /\ UNCHANGED <<word, fuEvent, queuedBy, sleepsAt, todo>>

(* The tree lock is taken again, to dequeue, or by a thread that has       *)
(* finished sleeping, on the futex where it is now.                        *)
FuRelock(t) ==
    LET me == fu[t]
    IN /\ me.pc = "relock" /\ treeLock = NoOne
       /\ treeLock' = t
       /\ IF me.stage = "leave"
          THEN /\ futex' = GetFutex(futex, me.waiter)
               /\ fu' = [fu EXCEPT ![t] = [me EXCEPT !.pc = "lock", !.f1 = me.waiter]]
          ELSE fu' = [fu EXCEPT ![t].pc = "lock"] /\ UNCHANGED futex
       /\ UNCHANGED <<word, fuEvent, queuedBy, sleepsAt, todo>>

-----------------------------------------------------------------------------
(* thread_wait ends with the event, at the time-out, or for a signal. *)
FuAwake(t) ==
    /\ fu[t].pc = "sleep" /\ fuEvent[t]
    /\ fuEvent' = [fuEvent EXCEPT ![t] = FALSE]
    /\ fu' = [fu EXCEPT ![t] = [@ EXCEPT !.pc = "relock", !.stage = "leave", !.ret = "OK"]]
    /\ UNCHANGED <<word, futex, treeLock, queuedBy, sleepsAt, todo>>

FuGivesUp(t) ==
    /\ fu[t].pc = "sleep"
    /\ \E ret \in {"EINTR"} \cup (IF fu[t].call.timed THEN {"ETIMEDOUT"} ELSE {}) :
          fu' = [fu EXCEPT ![t] = [@ EXCEPT !.pc = "relock", !.stage = "leave", !.ret = ret]]
    /\ UNCHANGED <<word, futex, treeLock, fuEvent, queuedBy, sleepsAt, todo>>

OnList(t) == fu[t].waiter # NoFutex /\ t \in Range(futex[fu[t].waiter].waiters)

(* The end of futex_wait. *)
FuLeave(t) ==
    LET me == fu[t]   o == me.f1
        ret == IF OnList(t) /\ me.ret \in {"OK", "EINTR"} THEN "ERESTARTSYS"
               ELSE IF ~OnList(t) /\ me.ret = "EINTR" THEN "OK"
               ELSE me.ret
        F == PutFutex(RemoveWaiters(futex, o, {t}), me.waiter)
    IN /\ me.pc = "leave"
       /\ FuUnlock(t, [me EXCEPT !.waiter = NoFutex, !.ret = ret], F, CheckDequeue(F, o))
       /\ sleepsAt' = [sleepsAt EXCEPT ![t] = NoAddr]
       /\ UNCHANGED <<word, treeLock, fuEvent, queuedBy, todo>>

(* Mutant: the link to the next thread is read after it was cleared: the   *)
(* rest of the queue is lost.                                              *)
FuPopLosesRest(t) ==
    LET queue == {x \in FuThreads : queuedBy[x] = t}
    IN /\ fu[t].pc = "wake_queue" /\ fu[t].waking = NoOne /\ queue # {}
       /\ \E x \in queue : /\ queuedBy' = [y \in FuThreads |-> IF y \in queue THEN NoOne
                                                                ELSE queuedBy[y]]
                           /\ fu' = [fu EXCEPT ![t].waking = x]
       /\ UNCHANGED <<word, futex, treeLock, fuEvent, sleepsAt, todo>>

(* wake_queue: a thread leaves the queue, then its event is set. *)
FuPop(t) ==
    LET queue == {x \in FuThreads : queuedBy[x] = t}
    IN /\ fu[t].pc = "wake_queue" /\ fu[t].waking = NoOne /\ queue # {}
       /\ \E x \in queue : /\ queuedBy' = [queuedBy EXCEPT ![x] = NoOne]
                           /\ fu' = [fu EXCEPT ![t].waking = x]
       /\ UNCHANGED <<word, futex, treeLock, fuEvent, sleepsAt, todo>>

FuSetEvent(t) ==
    /\ fu[t].pc = "wake_queue" /\ fu[t].waking # NoOne
    /\ fuEvent' = [fuEvent EXCEPT ![fu[t].waking] = TRUE]
    /\ fu' = [fu EXCEPT ![t].waking = NoOne]
    /\ UNCHANGED <<word, futex, treeLock, queuedBy, sleepsAt, todo>>

FuReturn(t) ==
    LET me == fu[t]
    IN /\ me.pc = "wake_queue" /\ me.waking = NoOne
       /\ \A x \in FuThreads : queuedBy[x] # t
       /\ futex' = PutFutex(PutFutex(PutFutex(futex, me.f1), me.f2), me.tmp)
       /\ fu' = [fu EXCEPT ![t] = FuIdle]
       /\ UNCHANGED <<word, treeLock, fuEvent, queuedBy, sleepsAt, todo>>

-----------------------------------------------------------------------------
FuProceed(t) ==
    \/ FuFind(t) \/ FuCreate(t) \/ FuFindAgain(t) \/ FuLock(t)
    \/ FuWait(t) \/ FuWake(t) \/ FuWakeOp(t) \/ FuRequeue(t) \/ FuDequeue(t) \/ FuRelock(t)
    \/ FuAwake(t) \/ FuLeave(t) \/ FuPop(t) \/ FuSetEvent(t) \/ FuReturn(t)

FuNext == \E t \in FuThreads : FuCall(t) \/ FuProceed(t) \/ FuGivesUp(t)

FuFairness == \A t \in FuThreads : WF_fuVars(FuProceed(t))

FuSpec == FuInit /\ [][FuNext]_fuVars

-----------------------------------------------------------------------------
(* A futex object lives exactly as long as somebody can reach it: its      *)
(* references are those of the tree, of the waiters, wherever they have    *)
(* been requeued to, and of the threads working on it.                     *)
FutexRefsExact ==
    /\ \A o \in Futexes : futex[o].ref =
          (IF futex[o].in_tree THEN 1 ELSE 0)
          + Cardinality({t \in FuThreads : fu[t].f1 = o})
          + Cardinality({t \in FuThreads : fu[t].f2 = o})
          + Cardinality({t \in FuThreads : fu[t].tmp = o})
          + Cardinality({t \in FuThreads : fu[t].waiter = o})
    /\ \A o \in Futexes : \A t \in Range(futex[o].waiters) : fu[t].waiter = o

(* A FUTEX_WAKE that wakes fewer threads than it may leaves no thread that *)
(* sleeps at its address and matches its bits: no waiter is on an object   *)
(* that the tree has lost, or that a second object for the same address    *)
(* hides.                                                                  *)
FutexWakeComplete == [][\A t \in FuThreads :
    LET call == fu[t].call
        asleep == {x \in FuThreads : sleepsAt[x] = call.u1 /\ fu[x].call.bits \cap call.bits # {}}
        woken == {x \in asleep : sleepsAt'[x] # call.u1}
    IN call.op = "wake" /\ ((fu[t].pc = "find" /\ fu'[t].pc = "idle")
                            \/ (fu[t].pc = "work" /\ fu'[t].pc # "work"))
       => woken = asleep \/ Cardinality(woken) >= call.n1]_fuVars

(* What the programs have to keep to for the next property: one thread     *)
(* waits at a join address, for bits that the end of the other thread has. *)
OneJoiner == \A script \in FuScripts : \A t, x \in FuThreads :
    \A c \in Range(script[t]), d \in Range(script[x]) :
        c.op = "wait" /\ c.u1 \in FuJoinAddrs /\ d.u1 = c.u1 =>
            /\ d.op = "wait" => t = x
            /\ d.op = "clear_tid" => c.bits \cap d.bits # {}

(* Between the look at the word and the sleep no wake-up is lost: whoever  *)
(* sleeps at an address that only ends of threads change, although the     *)
(* word has been cleared, is about to be woken.                            *)
FutexNoLostWakeup == \A u \in FuJoinAddrs : \A x \in FuThreads :
    sleepsAt[x] = u /\ word[u] # fu[x].call.val =>
        \E t \in FuThreads : /\ fu[t].call.op = "wake" /\ fu[t].call.u1 = u
                             /\ fu[t].pc \in {"find", "lock", "work"}

(* Every call ends, unless it sleeps and nobody has woken it.  No order of *)
(* the tree lock and the futex locks, two of which a requeue and           *)
(* FUTEX_WAKE_OP take, ends in a deadlock; and a thread that was taken off *)
(* the list to be woken is woken, also when a second waker meets it while  *)
(* it is still on the queue of a first one.  (The scripts are finite, so   *)
(* that from some point on no call begins.)                                *)
FutexCallsEnd == <>[](\A t \in FuThreads :
    fu[t].pc = "idle" \/ (fu[t].pc = "sleep" /\ sleepsAt[t] # NoAddr))
=============================================================================
