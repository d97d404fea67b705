------------------------------ MODULE LockWalk ------------------------------
(***************************************************************************)
(* The POSIX locks of one file under calls of file_lock_set (with          *)
(* F_SETLK) and file_lock_clear_pid, libos/src/fs/libos_fs_lock.c, with    *)
(* one step for every turn of their loops over the list.  Both run under   *)
(* g_fs_lock_lock: others see the list before and after a call.  A pending *)
(* request that file_lock_process_requests grants is a SetLock too, since  *)
(* it looks for a conflict like any other; a call that fails before its    *)
(* loop (-EAGAIN, -EPERM, -ENOMEM) leaves the list alone.                  *)
(***************************************************************************)
EXTENDS LockList

VARIABLES locks,     \* the list, as it was when the call under way took the lock
          call,      \* the call: its kind, "set", "clear" or "none", and its lock
          at,        \* the place in locks that the loop has come to
          walk       \* what the loop has made of the places before it, see LockList

lockVars == <<locks, call, at, walk>>

(* file_lock_clear_pid concerns all bytes of the process. *)
AllOf(p) == FileLock("POSIX", "UNLCK", 0, FS_LOCK_EOF, p)

NoCall == [kind |-> "none", lock |-> AllOf(0)]

LockWalkInit == locks = <<>> /\ call = NoCall /\ at = 1 /\ walk = WalkFrom(NoCall.lock)

Begin(kind, l) ==
    /\ call = NoCall
    /\ call' = [kind |-> kind, lock |-> l]
    /\ at' = 1
    /\ walk' = WalkFrom(l)
    /\ UNCHANGED locks

(* A lock that meets a conflict is not set; there is none for F_UNLCK. *)
SetLock(p) ==
    \E type \in LockTypes, start \in 0..FS_LOCK_EOF : \E end \in start..FS_LOCK_EOF :
       LET l == FileLock("POSIX", type, start, end, p)
       IN (type = "UNLCK" \/ ~HasConflict(locks, l)) /\ Begin("set", l)

ClearPid(p) == Begin("clear", AllOf(p))

(* The loop of file_lock_clear_pid_from_dentry. *)
ClearTurn(l, w, cur) ==
    IF cur.family = "POSIX" /\ cur.owner = l.owner THEN w ELSE Keep(w, cur)

Turn == /\ call # NoCall /\ at <= Len(locks)
        /\ walk' = IF call.kind = "set" THEN PosixTurn(call.lock, walk, locks[at])
                                        ELSE ClearTurn(call.lock, walk, locks[at])
        /\ at' = at + 1
        /\ UNCHANGED <<locks, call>>

WalkEnded == call # NoCall /\ at > Len(locks)

Result == WalkResult(call.lock, walk)

End == /\ WalkEnded
       /\ locks' = Result
       /\ call' = NoCall /\ at' = 1 /\ walk' = WalkFrom(NoCall.lock)

LockWalkNext == (\E p \in Pids : SetLock(p) \/ ClearPid(p)) \/ Turn \/ End

LockWalkSpec == LockWalkInit /\ [][LockWalkNext]_lockVars

-----------------------------------------------------------------------------
(* The list keeps the order its comments promise, the ranges of a process  *)
(* stay disjoint, non-empty and inside the file, and no two locks of a     *)
(* process that could be one are left apart.                               *)
ListWellFormed ==
    /\ Ordered(locks)
    /\ Merged(locks)
    /\ \A i \in DOMAIN locks : 0 <= locks[i].start /\ locks[i].start <= locks[i].end
                               /\ locks[i].end <= FS_LOCK_EOF

(* How process p holds byte x according to the list s. *)
HeldIn(s, p, x) ==
    LET mine == {i \in DOMAIN s : s[i].owner = p /\ s[i].start <= x /\ x <= s[i].end}
    IN IF mine = {} THEN "UNLCK" ELSE s[CHOOSE i \in mine : TRUE].type

Promise == INSTANCE ByteLocks
             WITH held <- [p \in Pids |-> [x \in 0..FS_LOCK_EOF |-> HeldIn(locks, p, x)]]

(* Merging, cutting and splitting ranges in the list is, byte by byte, the *)
(* replacement of the range that file_lock_set promises.                   *)
ListKeepsPromise == Promise!Spec
=============================================================================
