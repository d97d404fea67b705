---------------------------- MODULE MCAlgorithms ----------------------------
(***************************************************************************)
(* The pure algorithms of the project over all small inputs, each compared *)
(* with a reference definition:                                            *)
(*   "lease"  the walks of process_handle, as the code does them, with the *)
(*            closed forms of Leases, over every lease list;               *)
(*   "list"   the lock lists that sequences of file_lock_set and           *)
(*            file_lock_clear_pid build turn by turn (LockWalk), with the  *)
(*            byte-wise ByteLocks;                                         *)
(*   "range"  the conversion of fcntl's arguments to a byte range          *)
(*            (FcntlRange), with arithmetic in the integers.               *)
(* The variable subject says which; the variables of the others keep their *)
(* initial value.                                                          *)
(***************************************************************************)
EXTENDS Leases, LockWalk, FcntlRange, FiniteSets, TLC

CONSTANTS a, b, c, d     \* clients of the lease server

Four == {a, b, c, d}

VARIABLES
    subject,
    ls, sc, rq, dn                    \* the lease list

leaseVars == <<ls, sc, rq, dn>>
vars == <<subject, leaseVars, lockVars, rangeVars>>

-----------------------------------------------------------------------------
(* Every lease list the server can hold when process_handle starts: one    *)
(* lease is EXCLUSIVE only if no other lease is SHARED or EXCLUSIVE, and a *)
(* request is above the state of its lease, a downgrade asked for below.   *)
Orders == UNION {{s \in [1..n -> Clients] : \A i, j \in 1..n : i # j => s[i] # s[j]} :
                 n \in 0..Cardinality(Clients)}

LeaseState == {t \in States \X {NONE, SHARED, EXCLUSIVE} \X {NONE, INVALID, SHARED} :
                  (t[2] = NONE \/ t[2] > t[1]) /\ (t[3] = NONE \/ t[3] < t[1])}

Unleased == <<INVALID, NONE, NONE>>

LeaseLists == \E order \in Orders : \E ts \in [Clients -> LeaseState] :
    /\ \A x \in Clients : ~InList(order, x) => ts[x] = Unleased
    /\ \A x, y \in Clients : x # y /\ ts[x][1] = EXCLUSIVE => ts[y][1] = INVALID
    /\ ls = order
    /\ sc = [x \in Clients |-> ts[x][1]]
    /\ rq = [x \in Clients |-> ts[x][2]]
    /\ dn = [x \in Clients |-> ts[x][3]]

NoLeases == /\ ls = <<>> /\ sc = [x \in Clients |-> INVALID]
            /\ rq = [x \in Clients |-> NONE] /\ dn = [x \in Clients |-> NONE]

(* One turn of the loop that fulfils upgrade requests, with the counters   *)
(* n_shared and n_exclusive.                                               *)
LeaseTurn(w, x) ==
    CASE w.rq[x] = SHARED /\ w.n_exclusive = 0 ->
           [w EXCEPT !.sc[x] = SHARED, !.rq[x] = NONE, !.n_shared = @ + 1]
      [] w.rq[x] = EXCLUSIVE /\ w.n_exclusive = 0 /\ w.n_shared = 0 ->
           [w EXCEPT !.sc[x] = EXCLUSIVE, !.rq[x] = NONE, !.n_exclusive = @ + 1]
      [] /\ w.rq[x] = EXCLUSIVE /\ w.n_exclusive = 0
         /\ w.n_shared = 1 /\ w.sc[x] = SHARED ->
           [w EXCEPT !.sc[x] = EXCLUSIVE, !.rq[x] = NONE,
                     !.n_exclusive = @ + 1, !.n_shared = @ - 1]
      [] OTHER -> w

Walk == FoldLeft(LeaseTurn,
                 [sc |-> sc, rq |-> rq,
                  n_shared |-> Cardinality(In(sc, SHARED)),
                  n_exclusive |-> Cardinality(In(sc, EXCLUSIVE))],
                 ls)

(* The loop and the two closed forms grant the same requests, and the code *)
(* asks only clients that hold something to give it up: the list order,    *)
(* the counters and the early grants in one walk hide no third outcome.    *)
(* And where the steps of LockWalk end, the functions of LockList end too. *)
WalkAgrees ==
    LET eg == ExclusiveGrants(sc, rq, ls)
        sg == SharedGrants(sc, rq, ls)
    IN /\ Walk.sc = [x \in Clients |-> IF x \in eg THEN EXCLUSIVE
                                       ELSE IF x \in sg THEN SHARED ELSE sc[x]]
       /\ Walk.rq = [x \in Clients |-> IF x \in eg \cup sg THEN NONE ELSE rq[x]]
       /\ GrantsFromInvalid(sc, rq, ls)
       /\ WalkEnded => Result = IF call.kind = "set" THEN LockSet(locks, call.lock)
                                ELSE WithoutPid(locks, call.lock.owner)

(* No request waits on nobody, and none waits on a client nobody asked:    *)
(* after the walks of process_handle every unfulfilled request has a       *)
(* blocker, another client whose lease excludes it, and each of its        *)
(* blockers has been asked for a downgrade that would let the request      *)
(* through, one whose lease was granted in the same walk included.         *)
BlockersAsked ==
    LET w   == Walk
        ask == DowngradesToAsk(w.sc, w.rq, dn)
        asked == [x \in Clients |-> IF ask[x] # NONE THEN ask[x] ELSE dn[x]]
        blockers(x) == {y \in Clients \ {x} : IF w.rq[x] = EXCLUSIVE THEN w.sc[y] > INVALID
                                                               ELSE w.sc[y] = EXCLUSIVE}
    IN \A x \in Clients : w.rq[x] # NONE =>
         /\ blockers(x) # {}
         /\ \A y \in blockers(x) :
               asked[y] = INVALID \/ (w.rq[x] = SHARED /\ asked[y] = SHARED)

-----------------------------------------------------------------------------
Init == /\ LockWalkInit /\ lock = NoAnswer
        /\ \/ subject = "lease" /\ LeaseLists /\ NoArguments
           \/ subject = "list" /\ NoLeases /\ NoArguments
           \/ subject = "range" /\ NoLeases /\ FcntlArguments

Next == /\ UNCHANGED <<subject, leaseVars>>
        /\ \/ subject = "list" /\ LockWalkNext /\ UNCHANGED rangeVars
           \/ subject = "range" /\ Convert /\ UNCHANGED lockVars

Spec == Init /\ [][Next]_vars
=============================================================================
