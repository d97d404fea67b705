------------------------------ MODULE LockList ------------------------------
(***************************************************************************)
(* The lock list of one file (struct dent_file_locks) and the functions    *)
(* that read and change it, libos/src/fs/libos_fs_lock.c: the search for a *)
(* conflict, and setting or removing a POSIX (fcntl) or BSD (flock) lock.  *)
(*                                                                         *)
(* A lock is a record; owner is the pid of a POSIX lock and the handle id  *)
(* of a BSD lock, whose range is always [0, 0].  Positions are             *)
(* 0..FS_LOCK_EOF, the last one standing for "until the end of the file".  *)
(***************************************************************************)
EXTENDS Integers, Sequences, SequencesExt

CONSTANTS FS_LOCK_EOF,
          Pids           \* the processes, named by their pids

ASSUME EofAssumption == FS_LOCK_EOF \in Nat
ASSUME PidsAssumption == Pids \subseteq Nat

LockTypes == {"RDLCK", "WRLCK", "UNLCK"}

FileLock(family, type, start, end, owner) ==
    [family |-> family, type |-> type, start |-> start, end |-> end, owner |-> owner]

Overlap(l, m) == l.start <= m.end /\ m.start <= l.end

Conflict(l, m) == /\ l.owner # m.owner
                  /\ l.family = "POSIX" => Overlap(l, m)
                  /\ l.type = "WRLCK" \/ m.type = "WRLCK"

(* Mutant of file_lock_find_conflict: the ranges are taken as half-open. *)
HasConflictHalfOpen(locks, l) == \E i \in DOMAIN locks :
    /\ l.owner # locks[i].owner
    /\ l.family = "POSIX" => l.start < locks[i].end /\ locks[i].start < l.end
    /\ l.type = "WRLCK" \/ locks[i].type = "WRLCK"

(* file_lock_find_conflict finds a lock. *)
HasConflict(locks, l) == \E i \in DOMAIN locks : Conflict(l, locks[i])

-----------------------------------------------------------------------------
(* _posix_lock_set walks the list with the target range [start, end] and a *)
(* pointer prev.  A walk w has the list built so far (out), the length of  *)
(* out up to and including prev, the range, and whether the loop ended.    *)

Keep(w, cur)     == [w EXCEPT !.out = Append(@, cur)]
KeepPrev(w, cur) == [w EXCEPT !.out = Append(@, cur), !.prev = Len(w.out) + 1]
Break(w, cur)    == [Keep(w, cur) EXCEPT !.done = TRUE]
Merge(w, cur)    == [w EXCEPT !.start = IF cur.start < @ THEN cur.start ELSE @,
                              !.end   = IF cur.end > @ THEN cur.end ELSE @]

(* Positions are unsigned and FS_LOCK_EOF is the largest one, so n - 1 and *)
(* n + 1 wrap around.                                                      *)
Minus1(n) == IF n = 0 THEN FS_LOCK_EOF ELSE n - 1
Plus1(n)  == IF n = FS_LOCK_EOF THEN 0 ELSE n + 1

(* What is left of cur before the range, and behind it. *)
FrontOf(w, cur) == [cur EXCEPT !.end = Minus1(w.start)]
BackOf(w, cur)  == [cur EXCEPT !.start = Plus1(w.end)]

(* Mutant: locks that are adjacent to the range but do not overlap it are  *)
(* not merged.                                                             *)
SameTypeNoMerge(w, cur) ==
    IF cur.end < w.start THEN KeepPrev(w, cur)
    ELSE IF w.end < cur.start THEN Break(w, cur)
    ELSE Merge(w, cur)

(* Mutant: the tests for the first and the last position are missing. *)
SameTypeUnguarded(w, cur) ==
    IF cur.end < Minus1(w.start) THEN KeepPrev(w, cur)
    ELSE IF Plus1(w.end) < cur.start THEN Break(w, cur)
    ELSE Merge(w, cur)

(* cur has the type of the new lock: merge it if it touches the range. *)
SameType(w, cur) ==
    IF w.start > 0 /\ cur.end < Minus1(w.start) THEN KeepPrev(w, cur)
    ELSE IF w.end < FS_LOCK_EOF /\ Plus1(w.end) < cur.start THEN Break(w, cur)
    ELSE Merge(w, cur)

(* Mutant: when the range lies inside cur, the part behind it is lost. *)
OtherTypeNoSplit(w, cur) ==
    IF cur.end < w.start THEN KeepPrev(w, cur)
    ELSE IF w.end < cur.start THEN Break(w, cur)
    ELSE IF cur.start < w.start THEN KeepPrev(w, FrontOf(w, cur))
    ELSE IF cur.end <= w.end THEN w
    ELSE Break(w, BackOf(w, cur))

(* cur has another type (or the range is unlocked): cut the range out. *)
OtherType(w, cur) ==
    IF cur.end < w.start THEN KeepPrev(w, cur)
    ELSE IF w.end < cur.start THEN Break(w, cur)
    ELSE IF cur.start < w.start /\ cur.end <= w.end THEN KeepPrev(w, FrontOf(w, cur))
    ELSE IF cur.start < w.start /\ cur.end > w.end
         THEN Break(KeepPrev(w, FrontOf(w, cur)), BackOf(w, cur))
    ELSE IF w.start <= cur.start /\ cur.end <= w.end THEN w
    ELSE Break(w, BackOf(w, cur))

PosixTurn(l, w, cur) ==
    IF w.done \/ cur.family # "POSIX" THEN Keep(w, cur)
    ELSE IF cur.owner < l.owner THEN KeepPrev(w, cur)
    ELSE IF l.owner < cur.owner THEN Break(w, cur)
    ELSE IF cur.type = l.type THEN SameType(w, cur)
    ELSE OtherType(w, cur)

(* Before the loop, and the list after it: the new lock goes behind prev. *)
WalkFrom(l) == [out |-> <<>>, prev |-> 0, start |-> l.start, end |-> l.end, done |-> FALSE]

WalkResult(l, w) ==
    IF l.type = "UNLCK" THEN w.out
    ELSE InsertAt(w.out, w.prev + 1, [l EXCEPT !.start = w.start, !.end = w.end])

(* The walk after n turns. *)
PosixWalk(locks, l) ==
    LET walk[n \in 0..Len(locks)] ==
          IF n = 0 THEN WalkFrom(l) ELSE PosixTurn(l, walk[n-1], locks[n])
    IN walk

PosixLockSet(locks, l) == WalkResult(l, PosixWalk(locks, l)[Len(locks)])

(* _flock_lock_set deletes the first lock of the handle and puts the new   *)
(* one at the front.                                                       *)
FlockLockSet(locks, l) ==
    LET mine == {i \in DOMAIN locks : locks[i].family = "FLOCK" /\ locks[i].owner = l.owner}
        rest == IF mine = {} THEN locks
                ELSE RemoveAt(locks, CHOOSE i \in mine : \A j \in mine : i <= j)
    IN IF l.type = "UNLCK" THEN rest ELSE <<l>> \o rest

LockSet(locks, l) ==
    IF l.family = "POSIX" THEN PosixLockSet(locks, l) ELSE FlockLockSet(locks, l)

(* What is left of the first n members of a list when those at the places  *)
(* in D are deleted (LISTP_DEL in LISTP_FOR_EACH_ENTRY_SAFE).              *)
Kept(s, D) ==
    LET kept[n \in 0..Len(s)] ==
          IF n = 0 THEN <<>> ELSE IF n \in D THEN kept[n-1] ELSE Append(kept[n-1], s[n])
    IN kept

Remaining(s, D) == Kept(s, D)[Len(s)]

OfPid(l, pid) == l.family = "POSIX" /\ l.owner = pid

(* The part of file_lock_clear_pid_from_dentry that removes locks. *)
WithoutPid(locks, pid) == Remaining(locks, {i \in DOMAIN locks : OfPid(locks[i], pid)})

-----------------------------------------------------------------------------
(* What the comments in struct dent_file_locks promise of a POSIX list:    *)
(* "sorted by PID and then by start position", and "the ranges do not      *)
(* overlap within a given PID"; and that "adjacent locks" are merged.      *)
Ordered(locks) == \A i, j \in DOMAIN locks : i < j =>
    \/ locks[i].owner < locks[j].owner
    \/ locks[i].owner = locks[j].owner /\ locks[i].end < locks[j].start

Merged(locks) == \A i, j \in DOMAIN locks :
    locks[i].owner = locks[j].owner /\ locks[i].type = locks[j].type =>
        locks[i].end + 1 # locks[j].start
=============================================================================
