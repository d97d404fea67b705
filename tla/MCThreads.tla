----------------------------- MODULE MCThreads ------------------------------
(***************************************************************************)
(* The primitives by which the threads of one process wait for each other: *)
(* the readers-writer lock ("rwlock") and futexes ("futex").  The variable *)
(* subject says which of them runs; the other one keeps its initial state. *)
(***************************************************************************)
EXTENDS RwLock, Futex, TLC

CONSTANT Subjects

VARIABLE subject

vars == <<subject, rwVars, fuVars>>

FuCallOf(op, u1, u2, n1, n2) ==
    [op |-> op, u1 |-> u1, u2 |-> u2, n1 |-> n1, n2 |-> n2, val |-> 1, cmp |-> FALSE,
     timed |-> FALSE, bits |-> {1, 2}]

Wait(u) == FuCallOf("wait", u, u, 0, 0)
TimedWait(u) == [Wait(u) EXCEPT !.timed = TRUE, !.bits = {1}]
Wake(u, n) == FuCallOf("wake", u, u, n, 0)
Requeue(u, v, wake, move) == FuCallOf("requeue", u, v, wake, move)

(* What three threads do, one line a script: waiters moved while one of    *)
(* them times out; a thread that times out and sleeps again between two    *)
(* wakers; a join; two threads that lock two futexes; a store and a        *)
(* wake-up that only some waiters match; a compared requeue.               *)
Scripts ==
    {<< <<Wait(1)>>, <<TimedWait(1)>>, <<Requeue(1, 2, 0, 2), Wake(2, 2)>> >>,
     << <<TimedWait(1), TimedWait(1)>>, <<Wake(1, 1)>>, <<Wake(1, 1)>> >>,
     << <<Wait(3)>>, <<TimedWait(1)>>, <<FuCallOf("clear_tid", 3, 3, 1, 0)>> >>,
     << <<Wait(1)>>, <<Requeue(1, 2, 1, 1)>>, <<FuCallOf("wake_op", 2, 1, 0, 1)>> >>,
     << <<Wait(1)>>, <<TimedWait(1)>>,
        <<[FuCallOf("store", 1, 1, 0, 0) EXCEPT !.val = 0],
          [Wake(1, 2) EXCEPT !.bits = {2}]>> >>,
     << <<Wait(1), Wait(2)>>, <<[FuCallOf("store", 1, 1, 0, 0) EXCEPT !.val = 0]>>,
        <<[Requeue(1, 2, 1, 1) EXCEPT !.cmp = TRUE]>> >>}

ASSUME ScriptsJoinOnce == OneJoiner

Init == /\ RwInit /\ FuInit /\ subject \in Subjects
        /\ subject # "futex" => todo = CHOOSE script \in Scripts : TRUE

Next == /\ UNCHANGED subject
        /\ \/ subject = "rwlock" /\ RwNext /\ UNCHANGED fuVars
           \/ subject = "futex" /\ FuNext /\ UNCHANGED rwVars

Spec == Init /\ [][Next]_vars /\ RwFairness /\ FuFairness
=============================================================================
