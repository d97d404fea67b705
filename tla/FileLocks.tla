----------------------------- MODULE FileLocks ------------------------------
(***************************************************************************)
(* File locks of one file across processes: file_lock_set, its IPC         *)
(* version, and file_lock_clear_pid (libos/src/fs/libos_fs_lock.c,         *)
(* libos/src/ipc/libos_ipc_fs_lock.c).                                     *)
(*                                                                         *)
(* The leader process keeps the locks and the pending requests.  A thread  *)
(* of the leader changes them directly, under g_fs_lock_lock; a thread of  *)
(* another process sends a message, which the leader's only IPC worker     *)
(* handles, and waits for the response.  A critical section of             *)
(* g_fs_lock_lock is one step.                                             *)
(***************************************************************************)
EXTENDS LockList, FiniteSets

CONSTANTS
    Leader,     \* the one that keeps the locks
    Threads,    \* user threads
    ProcOf,     \* the process of a thread
    HandleOf,   \* the id of the handle with which a process has the file open
    Creator,    \* for a handle id, the process that created the handle
    Scenarios   \* what the applications do and what may happen to them, see Scenario

(* For each thread the locks it asks for: its family ("POSIX", "FLOCK"),   *)
(* its type ("RDLCK", "WRLCK"), the range of bytes, and whether it waits   *)
(* (F_SETLKW) or not (F_SETLK); what may fail ("alloc", "lookup",          *)
(* "event"); the processes that may exit, and those that may be killed.    *)
Scenario(asks, failures, quitters, mortal) ==
    [asks |-> asks, failures |-> failures, quitters |-> quitters, mortal |-> mortal]

Asks(families, types, ranges, waits) ==
    [family : families, type : types, range : ranges, wait : waits]

(* The ranges of bytes are not empty. *)
Ranges == {r \in (0..FS_LOCK_EOF) \X (0..FS_LOCK_EOF) : r[1] <= r[2]}

AllAsks == Asks({"POSIX", "FLOCK"}, {"RDLCK", "WRLCK"}, Ranges, BOOLEAN)

ASSUME ProcsAssumption == /\ Pids \subseteq Nat \ {0} /\ Leader \in Pids
                          /\ Threads \subseteq Nat \ {0} /\ ProcOf \in [Threads -> Pids]
                          /\ \A s \in Scenarios :
                                /\ s.quitters \cup s.mortal \subseteq Pids \ {Leader}
                                /\ \A t \in Threads : s.asks[t] \subseteq AllAsks

VARIABLES
    scenario,   \* one of Scenarios
    dent,       \* dent->file_locks of the leader: locks, requests, families used
    worker,     \* the thread whose request the IPC worker has not completed
    leader,     \* "up", "exited", or "undefined" after undefined behaviour
    proc,       \* progress of each process
    maybe,      \* dent->maybe_has_file_locks, per process
    op,         \* the operation a thread performs
    phase,      \* where that operation is
    result      \* what it will return

vars == <<dent, worker, leader, proc, maybe, op, phase, result>>

NoOp == [kind |-> "NONE"]
NoThread == 0
EmptyDent == [locks |-> <<>>, reqs |-> <<>>, used |-> {}]

-----------------------------------------------------------------------------
(* The leader's list.                                                      *)

(* dent_file_locks_gc frees the object when nothing is held or requested. *)
Gc(d) == IF d.locks = <<>> /\ d.reqs = <<>> THEN EmptyDent ELSE d

(* One request in the loop of file_lock_process_requests.  oom are the     *)
(* threads for whose lock there is no memory: they are told so.            *)
GrantTurn(s, r, oom) ==
    IF HasConflict(s.locks, r.lock)
    THEN [s EXCEPT !.reqs = Append(@, r)]
    ELSE [s EXCEPT !.locks = IF r.thread \in oom THEN @ ELSE LockSet(@, r.lock),
                   !.granted = @ \cup {[thread |-> r.thread, notify |-> r.notify,
                                        ret |-> IF r.thread \in oom THEN "ENOMEM" ELSE "OK"]}]

(* The state of the pass after n requests. *)
GrantTurns(s, oom) ==
    LET turn[n \in 0..Len(s.reqs)] ==
          IF n = 0 THEN [s EXCEPT !.reqs = <<>>] ELSE GrantTurn(turn[n-1], s.reqs[n], oom)
    IN turn

GrantPass(s, oom) == GrantTurns(s, oom)[Len(s.reqs)]

(* Mutant: the requests are walked once. *)
ProcessRequestsOnce(locks, reqs, oom) ==
    GrantPass([locks |-> locks, reqs |-> reqs, granted |-> {}], oom)

(* Mutant: a change of the locks does not unblock anyone. *)
ProcessRequestsNever(locks, reqs, oom) == [locks |-> locks, reqs |-> reqs, granted |-> {}]

(* file_lock_process_requests repeats the pass while it grants something,  *)
(* so at most once per request.                                            *)
GrantPasses(locks, reqs, oom) ==
    LET pass[n \in 0..Len(reqs)] ==
          IF n = 0 THEN [locks |-> locks, reqs |-> reqs, granted |-> {}]
                   ELSE GrantPass(pass[n-1], oom)
    IN pass

ProcessRequests(locks, reqs, oom) == GrantPasses(locks, reqs, oom)[Len(reqs)]

OutOfMemory == IF "alloc" \in scenario.failures
               THEN SUBSET {dent.reqs[i].thread : i \in DOMAIN dent.reqs} ELSE {{}}

(* An outcome of file_lock_set_or_add_request: the object afterwards, the  *)
(* return value, the requests granted, and whether a request was added.    *)
Outcome(d, ret, granted, queued) ==
    [dent |-> Gc(d), ret |-> ret, granted |-> granted, queued |-> queued]

NoMemory == IF "alloc" \in scenario.failures THEN {Outcome(dent, "ENOMEM", {}, FALSE)} ELSE {}

UsedAfter(d, l) == IF l.type = "UNLCK" THEN d.used ELSE d.used \cup {l.family}

(* Mutant: the families are not kept apart. *)
MixesNever(l) == FALSE

Mixes(l) == l.type # "UNLCK" /\ dent.used \ {l.family} # {}

AddRequest(t, l) ==
    [dent EXCEPT !.reqs = <<[lock |-> l, thread |-> t, notify |-> FALSE]>> \o @,
                 !.used = UsedAfter(dent, l)]

(* The lock is set, and then the requests that this unblocks. *)
SetAndProcess(l, oom) ==
    LET s == ProcessRequests(LockSet(dent.locks, l), dent.reqs, oom)
    IN Outcome([locks |-> s.locks, reqs |-> s.reqs, used |-> UsedAfter(dent, l)],
               "OK", s.granted, FALSE)

SetOrAddRequest(t, l, wait) ==
    CASE l.type = "UNLCK" /\ dent = EmptyDent -> {Outcome(dent, "OK", {}, FALSE)}
      [] Mixes(l) -> {Outcome(dent, "EPERM", {}, FALSE)}
      [] ~Mixes(l) /\ l.type # "UNLCK" /\ HasConflict(dent.locks, l) ->
           IF wait THEN {Outcome(AddRequest(t, l), "OK", {}, TRUE)} \cup NoMemory
                   ELSE {Outcome(dent, "EAGAIN", {}, FALSE)}
      [] OTHER -> {SetAndProcess(l, oom) : oom \in OutOfMemory}
                  \cup (IF l.family = "FLOCK" /\ l.type = "UNLCK" THEN {} ELSE NoMemory)

-----------------------------------------------------------------------------
(* The waiters.                                                            *)

(* Thread t (if it is one) gets ret as its answer, the threads of granted  *)
(* requests get theirs.  A request whose notify part is not written yet is *)
(* answered to whoever the uninitialized memory names.                     *)
Answer(t, ret, granted) ==
    LET served == {g \in granted : g.notify}
        ret2(x) == (CHOOSE g \in served : g.thread = x).ret
        lucky == {g.thread : g \in served}
    IN /\ phase' = [x \in Threads |-> IF x = t \/ x \in lucky THEN "answered" ELSE phase[x]]
       /\ result' = [x \in Threads |-> IF x = t THEN ret
                                       ELSE IF x \in lucky THEN ret2(x) ELSE result[x]]

Undefined(granted) == \E g \in granted : ~g.notify

SetNotify(d, i) == [d EXCEPT !.reqs[i].notify = TRUE]

(* Mutant: unlocking is not sent unless the process asked for a write lock. *)
FlagsReadLocksNot(l) == l.type = "WRLCK"

FlagsLock(l) == l.type \in {"RDLCK", "WRLCK"}

ShortCircuits(p, l) == ~FlagsLock(l) /\ ~maybe[p]

(* file_lock_set in another process than the leader: the flag, the path,   *)
(* and the message.  The answer of a short-circuited unlock is 0.          *)
RemoteSet(t, l, wait) ==
    LET p == ProcOf[t]
    IN /\ p # Leader
       /\ maybe' = [maybe EXCEPT ![p] = @ \/ FlagsLock(l)]
       /\ op' = [op EXCEPT ![t] = [kind |-> "SET", lock |-> l, wait |-> wait]]
       /\ \/ /\ ShortCircuits(p, l)
             /\ Answer(t, "OK", {})
          \/ /\ ~ShortCircuits(p, l)
             /\ phase' = [phase EXCEPT ![t] = "called"]
             /\ UNCHANGED result
          \/ /\ ~ShortCircuits(p, l) /\ "lookup" \in scenario.failures
             /\ Answer(t, "ENOMEM", {})
       /\ UNCHANGED <<dent, worker, leader>>

(* Bound of the model: PalEventCreate fails only while no other request    *)
(* lacks its notify part, or such requests would pile up without end.      *)
NoOrphan == \A i \in DOMAIN dent.reqs : dent.reqs[i].notify

(* file_lock_set in the leader.  When a request was added, PalEventCreate  *)
(* may fail: the call returns, and the request stays without notify part.  *)
LeaderSet(t, l, wait) ==
    /\ ProcOf[t] = Leader
    /\ op' = [op EXCEPT ![t] = [kind |-> "SET", lock |-> l, wait |-> wait]]
    /\ \E o \in SetOrAddRequest(t, l, wait) :
          /\ leader' = IF Undefined(o.granted) THEN "undefined" ELSE leader
          /\ \/ ~o.queued /\ dent' = o.dent /\ Answer(t, o.ret, o.granted)
             \/ /\ o.queued /\ dent' = SetNotify(o.dent, 1)
                /\ phase' = [phase EXCEPT ![t] = "waiting"] /\ UNCHANGED result
             \/ /\ o.queued /\ "event" \in scenario.failures /\ NoOrphan
                /\ dent' = o.dent /\ Answer(t, "ENOMEM", {})
    /\ UNCHANGED <<worker, maybe>>

Set(t, l, wait) ==
    /\ (RemoteSet(t, l, wait) \/ LeaderSet(t, l, wait))
    /\ UNCHANGED proc

OwnLock(p, family, type, r) ==
    IF family = "POSIX" THEN FileLock(family, type, r[1], r[2], p)
                        ELSE FileLock(family, type, 0, 0, HandleOf[p])

UnlockAll(p, family) == OwnLock(p, family, "UNLCK", <<0, FS_LOCK_EOF>>)

(* fcntl(F_SETLK, F_SETLKW), flock(): a thread locks. *)
UserLock(t) ==
    /\ phase[t] = "idle" /\ proc[ProcOf[t]] = "running"
    /\ \E a \in scenario.asks[t] : Set(t, OwnLock(ProcOf[t], a.family, a.type, a.range), a.wait)

(* It unlocks, or closes a descriptor (clear_posix_locks, clear_flock_locks). *)
UserUnlock(t) ==
    /\ phase[t] = "idle" /\ proc[ProcOf[t]] = "running"
    /\ \E a \in scenario.asks[t] : \E r \in {a.range, <<0, FS_LOCK_EOF>>} :
          Set(t, OwnLock(ProcOf[t], a.family, "UNLCK", r), FALSE)

(* The system call returns: the response arrived, or the event is set. *)
Return(t) ==
    /\ phase[t] = "answered" /\ proc[ProcOf[t]] = "running"
    /\ phase' = [phase EXCEPT ![t] = "idle"]
    /\ op' = [op EXCEPT ![t] = NoOp]
    /\ result' = [result EXCEPT ![t] = "none"]
    /\ UNCHANGED <<dent, worker, leader, proc, maybe>>

-----------------------------------------------------------------------------
(* The leader's IPC worker.                                                *)

(* The response to a killed process cannot be sent.  The callback fails,   *)
(* and receive_ipc_messages ends the leader.                               *)
SendFails(t) == proc[ProcOf[t]] = "killed"

(* Mutant: the response is sent although the request is only queued. *)
RespondsAlways(o) == TRUE

RespondsNow(o) == ~o.queued

(* file_lock_set_from_ipc, up to the release of g_fs_lock_lock and, when   *)
(* no request was added, the response.                                     *)
SetFromIpc(t) ==
    /\ op[t].kind = "SET"
    /\ \/ \E o \in SetOrAddRequest(t, op[t].lock, op[t].wait) :
             /\ dent' = o.dent
             /\ leader' = CASE Undefined(o.granted) -> "undefined"
                            [] ~Undefined(o.granted) /\ ~o.queued /\ SendFails(t) -> "exited"
                            [] OTHER -> leader
             /\ IF RespondsNow(o)
                THEN Answer(t, o.ret, o.granted) /\ UNCHANGED worker
                ELSE /\ phase' = [phase EXCEPT ![t] = "waiting"]
                     /\ worker' = t
                     /\ UNCHANGED result
       \/ /\ "lookup" \in scenario.failures
          /\ Answer(t, "ENOENT", {})
          /\ leader' = IF SendFails(t) THEN "exited" ELSE leader
          /\ UNCHANGED <<dent, worker>>

(* The rest of file_lock_set_from_ipc, without the lock: the notify part   *)
(* of the request is written.                                              *)
WriteNotify ==
    /\ worker # NoThread
    /\ \E i \in DOMAIN dent.reqs : dent.reqs[i].thread = worker /\ dent' = SetNotify(dent, i)
    /\ worker' = NoThread
    /\ UNCHANGED <<leader, proc, maybe, op, phase, result>>

(* file_lock_clear_pid_from_dentry. *)
ClearPidFromDentry(pid, oom) ==
    LET rest == Remaining(dent.reqs, {i \in DOMAIN dent.reqs : OfPid(dent.reqs[i].lock, pid)})
        locks == WithoutPid(dent.locks, pid)
        s == ProcessRequests(locks, rest, oom)
    IN IF locks = dent.locks
       THEN [dent |-> [dent EXCEPT !.reqs = rest], granted |-> {}]
       ELSE Outcome([dent EXCEPT !.locks = s.locks, !.reqs = s.reqs], "OK", s.granted, FALSE)

ClearPidFromIpc(t) ==
    /\ op[t].kind = "CLEAR"
    /\ \E oom \in OutOfMemory : LET o == ClearPidFromDentry(ProcOf[t], oom) IN
          /\ dent' = o.dent
          /\ leader' = CASE Undefined(o.granted) -> "undefined"
                         [] ~Undefined(o.granted) /\ SendFails(t) -> "exited"
                         [] OTHER -> leader
          /\ Answer(t, "OK", o.granted)
    /\ UNCHANGED worker

WorkerHandles(t) ==
    /\ worker = NoThread /\ phase[t] = "called"
    /\ SetFromIpc(t) \/ ClearPidFromIpc(t)
    /\ UNCHANGED <<proc, maybe, op>>

-----------------------------------------------------------------------------
(* The end of a process.                                                   *)

(* thread_exit of the last thread: file_lock_clear_pid sends a message. *)
Exit(t) ==
    LET p == ProcOf[t]
    IN /\ p \in scenario.quitters /\ proc[p] = "running"
       /\ \A x \in Threads : ProcOf[x] = p => phase[x] = "idle"
       /\ proc' = [proc EXCEPT ![p] = "clearing"]
       /\ op' = [op EXCEPT ![t] = [kind |-> "CLEAR"]]
       /\ phase' = [phase EXCEPT ![t] = "called"]
       /\ UNCHANGED <<dent, worker, leader, maybe, result>>

(* Mutant: the locks of the handle are left to the end of the process. *)
ClosesHandleNever(p) == FALSE

ClosesHandle(p) == Creator[HandleOf[p]] = p

(* Then detach_all_fds drops the handle; for one that this process created *)
(* put_handle calls clear_flock_locks, and ignores its error.              *)
DetachAllFds(t) ==
    LET p == ProcOf[t]
    IN /\ phase[t] = "answered"
       /\ \/ /\ proc[p] = "clearing" /\ ClosesHandle(p)
             /\ proc' = [proc EXCEPT ![p] = "detaching"]
             /\ RemoteSet(t, UnlockAll(p, "FLOCK"), FALSE)
          \/ /\ proc[p] = IF ClosesHandle(p) THEN "detaching" ELSE "clearing"
             /\ proc' = [proc EXCEPT ![p] = "exited"]
             /\ op' = [op EXCEPT ![t] = NoOp]
             /\ phase' = [phase EXCEPT ![t] = "idle"]
             /\ result' = [result EXCEPT ![t] = "none"]
             /\ UNCHANGED <<dent, worker, leader, maybe>>

(* The host kills a process.  The leader has no disconnect callback for    *)
(* file locks: what the process holds or requests stays.                   *)
Kill(p) ==
    /\ p \in scenario.mortal /\ proc[p] # "exited" /\ proc[p] # "killed"
    /\ proc' = [proc EXCEPT ![p] = "killed"]
    /\ UNCHANGED <<dent, worker, leader, maybe, op, phase, result>>

-----------------------------------------------------------------------------
Init ==
    /\ scenario \in Scenarios
    /\ dent = EmptyDent /\ worker = NoThread /\ leader = "up"
    /\ proc = [p \in Pids |-> "running"] /\ maybe = [p \in Pids |-> FALSE]
    /\ op = [t \in Threads |-> NoOp] /\ phase = [t \in Threads |-> "idle"]
    /\ result = [t \in Threads |-> "none"]

ThreadStep(t) == UserLock(t) \/ UserUnlock(t) \/ Return(t) \/ Exit(t) \/ DetachAllFds(t)

Next == /\ leader = "up" /\ UNCHANGED scenario
        /\ \/ \E t \in Threads : ThreadStep(t) \/ WorkerHandles(t)
           \/ WriteNotify
           \/ \E p \in Pids : Kill(p)

Spec == Init /\ [][Next]_<<vars, scenario>>

-----------------------------------------------------------------------------
(* The locks that are held never contradict each other: two owners have no *)
(* byte in common unless both only read it, and POSIX and BSD locks are    *)
(* never mixed on a file (file_lock_set_or_add_request refuses that).      *)
NoConflict == \A i, j \in DOMAIN dent.locks : i # j =>
    /\ ~Conflict(dent.locks[i], dent.locks[j])
    /\ dent.locks[i].family = dent.locks[j].family

(* No wake-up is lost: outside of g_fs_lock_lock every pending request is  *)
(* blocked by a lock that is held.  "This function should be called after  *)
(* any modification to the list of locks, since we might have unblocked a  *)
(* request" (file_lock_process_requests).                                  *)
BlockedForReason ==
    leader = "up" => \A i \in DOMAIN dent.reqs : HasConflict(dent.locks, dent.reqs[i].lock)

(* A thread that waits has exactly one request in the list, for the lock   *)
(* it asked for; a thread that has its answer, or has not been served yet, *)
(* has none.                                                               *)
RequestsOf(t) == {i \in DOMAIN dent.reqs : dent.reqs[i].thread = t}

NobodyForgotten == leader = "up" => \A t \in Threads :
    /\ (phase[t] = "waiting") <=> (RequestsOf(t) # {})
    /\ \A i, j \in RequestsOf(t) : i = j /\ dent.reqs[i].lock = op[t].lock
    /\ \A i \in RequestsOf(t) : dent.reqs[i].notify <=> worker # t

(* How family and owner hold byte b. *)
HeldType(locks, family, owner, b) ==
    LET mine == {i \in DOMAIN locks : /\ locks[i].family = family /\ locks[i].owner = owner
                                      /\ locks[i].start <= b /\ b <= locks[i].end}
    IN IF mine = {} THEN "UNLCK" ELSE locks[CHOOSE i \in mine : TRUE].type

InEffect(locks, l) == \A b \in l.start..l.end : HeldType(locks, l.family, l.owner, b) = l.type

(* When file_lock_set gets the answer 0, immediately, after waiting, or by *)
(* the short circuit for files that were never locked, the lock is in      *)
(* effect in the leader at that moment: the whole range is held in the     *)
(* type asked for or, for F_UNLCK, not held any more.  (Not claimed for    *)
(* the step in which the leader uses an unwritten notify part.)            *)
AnswerTrue == [][\A t \in Threads :
    (/\ phase[t] # "answered" /\ phase'[t] = "answered" /\ result'[t] = "OK"
     /\ op'[t].kind = "SET" /\ leader' # "undefined") => InEffect(dent'.locks, op'[t].lock)]_vars

(* A process that exited, as the parent learns by wait(), holds and        *)
(* requests nothing: neither POSIX locks nor BSD locks of its handles.     *)
(* "after a successful `wait()` by parent, our locks should already be     *)
(* gone" (thread_exit).                                                    *)
Owners(p) == {<<"POSIX", p>>} \cup (IF Creator[HandleOf[p]] = p THEN {<<"FLOCK", HandleOf[p]>>} ELSE {})

ExitedClean == \A p \in Pids : proc[p] = "exited" =>
    /\ \A i \in DOMAIN dent.locks : <<dent.locks[i].family, dent.locks[i].owner>> \notin Owners(p)
    /\ \A i \in DOMAIN dent.reqs : ProcOf[dent.reqs[i].thread] # p

(* "Before releasing `g_fs_lock_lock`, the caller has to initialize the    *)
(* `notify` part of the request" (file_lock_add_request): a request is     *)
(* never granted without one.                                              *)
NotifyInitialized == leader # "undefined"

-----------------------------------------------------------------------------
(* A thread that was woken runs, the IPC worker serves its messages, and   *)
(* the application unlocks again and again whatever it locked.             *)
Fairness ==
    /\ WF_vars(WriteNotify)
    /\ \A t \in Threads : /\ SF_vars(WorkerHandles(t)) /\ WF_vars(Return(t))
                          /\ WF_vars(DetachAllFds(t))
                          /\ SF_vars(UserUnlock(t))

FairSpec == Spec /\ Fairness

(* Every file_lock_set, F_SETLKW too, returns in the end. *)
EventuallyReturns == \A t \in Threads : phase[t] # "idle" ~> phase[t] = "idle"
=============================================================================
