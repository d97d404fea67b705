------------------------------- MODULE IdRanges -----------------------------
(***************************************************************************)
(* Ids of processes and threads.  The leader hands out ranges of ids and   *)
(* knows the owner of each (libos_ipc_pid.c); a process takes the ids of   *)
(* its threads from its own ranges (libos_pid.c); clone gives an id to a   *)
(* new process and takes it back when that fails (libos_clone.c).          *)
(*                                                                         *)
(* The requests a process has under way come from different threads, so    *)
(* the leader may see them in any order.  g_ranges_lock is held while a    *)
(* thread waits for an answer in get_new_id, not while it waits to take an *)
(* id back, nor when it tells the leader that a range is free.  A process  *)
(* makes one new process at a time (a bound).  Failed allocations of       *)
(* memory are modelled for alloc_id_range only.                            *)
(***************************************************************************)
EXTENDS Integers, FiniteSets

CONSTANTS
    IdProcs,            \* the processes, by vmid: 1 .. n
    PID_MAX,            \* the largest id
    MAX_RANGE_SIZE,     \* the size of a range
    IdMortal            \* the processes that may be killed

IdLeader == 1

ASSUME IdAssumption == /\ IsFiniteSet(IdProcs) /\ IdLeader \in IdProcs
                       /\ IdProcs = 1 .. Cardinality(IdProcs)
                       /\ PID_MAX \in Nat \ {0} /\ MAX_RANGE_SIZE \in Nat \ {0}
                       /\ IdMortal \subseteq IdProcs \ {IdLeader}

VARIABLES
    owners,             \* g_id_owners_tree: a set of ranges with their owners
    lastId,             \* g_last_id
    lastVmid,           \* g_last_vmid
    idFatal,            \* why the leader or a process ended itself: "no", "limit", "bug"
    mine,               \* the ranges of each process: [last, used, lastUsed]
    idProc,             \* "unborn", "up" or "gone", per process
    idThreads,          \* the ids of the threads of each process
    mainId,             \* the id of its first thread
    idLock,             \* what the owner of g_ranges_lock waits for: "free", "alloc", "move"
    clone,              \* for each process, the new process it makes: [step, child, id]
    idRequests,         \* requests sent to the leader, per process
    idReplies,          \* answers on their way to the waiting thread, per process
    timesGiven          \* history: how often get_new_id returned each id

idVars == <<owners, lastId, lastVmid, idFatal, mine, idProc, idThreads, mainId, idLock,
            clone, idRequests, idReplies, timesGiven>>

leaderVars == <<owners, lastId, lastVmid, idFatal>>

NoProc == 0
NoRange == [start |-> 0, end |-> 0, taken |-> 0]
NoClone == [step |-> "none", child |-> NoProc, id |-> 0]

IdRange(s, e, t) == [start |-> s, end |-> e, taken |-> t]
Owned(s, e, p) == [start |-> s, end |-> e, owner |-> p]
InIdRange(id, r) == r.start <= id /\ id <= r.end

RangeEnd(start) == IF start + MAX_RANGE_SIZE - 1 > PID_MAX THEN PID_MAX
                   ELSE start + MAX_RANGE_SIZE - 1

(* What libos_pid.c keeps: g_last_range, g_used_ranges_tree, g_last_used_id. *)
FreshRanges(last, used, lastUsed) == [last |-> last, used |-> used, lastUsed |-> lastUsed]

(* The first process has taken its first id. *)
IdInit ==
    /\ owners = {Owned(1, RangeEnd(1), IdLeader)}
    /\ lastId = RangeEnd(1)
    /\ lastVmid = IdLeader
    /\ idFatal = "no"
    /\ mine = [p \in IdProcs |->
          IF p # IdLeader THEN FreshRanges(NoRange, {}, 0)
          ELSE IF RangeEnd(1) = 1 THEN FreshRanges(NoRange, {IdRange(1, 1, 1)}, 1)
          ELSE FreshRanges(IdRange(1, RangeEnd(1), 1), {}, 1)]
    /\ idProc = [p \in IdProcs |-> IF p = IdLeader THEN "up" ELSE "unborn"]
    /\ idThreads = [p \in IdProcs |-> IF p = IdLeader THEN {1} ELSE {}]
    /\ mainId = [p \in IdProcs |-> IF p = IdLeader THEN 1 ELSE 0]
    /\ idLock = [p \in IdProcs |-> "free"]
    /\ clone = [p \in IdProcs |-> NoClone]
    /\ idRequests = [p \in IdProcs |-> {}]
    /\ idReplies = [p \in IdProcs |-> {}]
    /\ timesGiven = [id \in 1 .. PID_MAX |-> IF id = 1 THEN 1 ELSE 0]

-----------------------------------------------------------------------------
(* The leader's tree.                                                      *)

(* Mutant: the ids above the one moved are lost. *)
ChangeOwnerLosesUpper(o, id, new) ==
    LET r == CHOOSE x \in o : InIdRange(id, x)
    IN {x \in o : x # r} \cup {Owned(id, id, new)}
       \cup (IF r.start < id THEN {Owned(r.start, id - 1, r.owner)} ELSE {})
       \cup (IF id < r.end /\ r.start = id THEN {Owned(id + 1, r.end, r.owner)} ELSE {})

(* change_id_owner: the range around the id is cut in up to three. *)
ChangeOwner(o, id, new) ==
    LET r == CHOOSE x \in o : InIdRange(id, x)
    IN {x \in o : x # r} \cup {Owned(id, id, new)}
       \cup (IF r.start < id THEN {Owned(r.start, id - 1, r.owner)} ELSE {})
       \cup (IF id < r.end THEN {Owned(id + 1, r.end, r.owner)} ELSE {})

(* Mutant: the search starts at the last id given out. *)
FreeRangeAgain == IdRange(lastId, RangeEnd(lastId), 0)

(* _find_free_id_range: the first id above the last one given out that no  *)
(* range holds, and as many more as follow it.                             *)
FreeRange ==
    LET free == {id \in lastId + 1 .. PID_MAX : \A r \in owners : ~InIdRange(id, r)}
        start == CHOOSE id \in free : \A x \in free : id <= x
        above == {r.start - 1 : r \in {x \in owners : x.start > start}} \cup {RangeEnd(start)}
    IN IF free = {} THEN NoRange
       ELSE IdRange(start, CHOOSE e \in above : \A x \in above : e <= x, 0)

(* alloc_id_range for process p: a range, none for want of memory, or the  *)
(* end of the leader at the last id.                                       *)
AllocIdRange(p) ==
    LET found == FreeRange
        reply(r) == idReplies' = [idReplies EXCEPT ![p] =
                                    @ \cup {[to |-> "alloc", start |-> r.start, end |-> r.end]}]
    IN \/ reply(NoRange) /\ UNCHANGED <<owners, lastId, idFatal>>
       \/ /\ found = NoRange
          /\ idFatal' = "limit"
          /\ UNCHANGED <<owners, lastId, idReplies>>
       \/ /\ found # NoRange
          /\ owners' = owners \cup {Owned(found.start, found.end, p)}
          /\ lastId' = found.end
          /\ reply(found)
          /\ UNCHANGED idFatal

ChangeIdOwner(p, msg) ==
    /\ UNCHANGED lastId
    /\ IF \E r \in owners : InIdRange(msg.id, r)
       THEN /\ owners' = ChangeOwner(owners, msg.id, msg.owner)
            /\ idReplies' = [idReplies EXCEPT ![p] = @ \cup {[to |-> msg.to]}]
            /\ UNCHANGED idFatal
       ELSE idFatal' = "bug" /\ UNCHANGED <<owners, idReplies>>

ReleaseIdRange(msg) ==
    /\ UNCHANGED <<lastId, idReplies>>
    /\ LET gone == {r \in owners : r.start = msg.start /\ r.end = msg.end}
       IN IF gone = {} THEN idFatal' = "bug" /\ UNCHANGED owners
          ELSE owners' = owners \ gone /\ UNCHANGED idFatal

(* A callback of the leader, or the same function called by its threads. *)
LeaderHandles(p) == \E msg \in idRequests[p] :
    /\ idRequests' = [idRequests EXCEPT ![p] = @ \ {msg}]
    /\ \/ msg.kind = "ALLOC" /\ AllocIdRange(p)
       \/ msg.kind = "CHANGE" /\ ChangeIdOwner(p, msg)
       \/ msg.kind = "RELEASE" /\ ReleaseIdRange(msg)
    /\ UNCHANGED <<lastVmid, mine, idProc, idThreads, mainId, idLock, clone, timesGiven>>

IdSend(p, msg) == idRequests' = [idRequests EXCEPT ![p] = @ \cup {msg}]

IdReceive(p, to) == idReplies' = [idReplies EXCEPT ![p] = {r \in @ : r.to # to}]

-----------------------------------------------------------------------------
(* get_new_id, with the lock.                                              *)

(* The next id stays with the process. *)
TakeOwn(m) ==
    LET id == m.lastUsed + 1   r == [m.last EXCEPT !.taken = @ + 1]
    IN IF id = r.end THEN [last |-> NoRange, used |-> m.used \cup {r}, lastUsed |-> id]
       ELSE [last |-> r, used |-> m.used, lastUsed |-> id]

(* Mutant: the range is not cut when its last id is given away. *)
TakeForOtherUncut(m) ==
    LET id == m.lastUsed + 1   r == m.last
    IN IF r.start = r.end THEN [last |-> NoRange, used |-> m.used, lastUsed |-> id]
       ELSE IF r.start = id THEN [last |-> [r EXCEPT !.start = @ + 1], used |-> m.used,
                                  lastUsed |-> id]
       ELSE IF r.end = id THEN [last |-> NoRange, used |-> m.used \cup {r}, lastUsed |-> id]
       ELSE [last |-> IdRange(id + 1, r.end, 0),
             used |-> m.used \cup {IdRange(r.start, id - 1, r.taken)}, lastUsed |-> id]

(* The next id leaves the process: the range is cut around it.  What lies  *)
(* before it is filed, whether some of its ids are taken or not.           *)
TakeForOther(m) ==
    LET id == m.lastUsed + 1   r == m.last
    IN IF r.start = r.end THEN [last |-> NoRange, used |-> m.used, lastUsed |-> id]
       ELSE IF r.start = id THEN [last |-> [r EXCEPT !.start = @ + 1], used |-> m.used,
                                  lastUsed |-> id]
       ELSE IF r.end = id THEN [last |-> NoRange,
                                used |-> m.used \cup {[r EXCEPT !.end = @ - 1]}, lastUsed |-> id]
       ELSE [last |-> IdRange(id + 1, r.end, 0),
             used |-> m.used \cup {IdRange(r.start, id - 1, r.taken)}, lastUsed |-> id]

(* Once there is a range: the id goes to a thread, or to a process, and    *)
(* then the leader has to be told.                                         *)
TakeId(p, m, dest) ==
    LET id == m.lastUsed + 1
    IN /\ timesGiven' = [timesGiven EXCEPT ![id] = @ + 1]
       /\ \/ /\ dest = NoProc
             /\ mine' = [mine EXCEPT ![p] = TakeOwn(m)]
             /\ idThreads' = [idThreads EXCEPT ![p] = @ \cup {id}]
             /\ idLock' = [idLock EXCEPT ![p] = "free"]
             /\ UNCHANGED <<clone, idRequests>>
          \/ /\ dest # NoProc
             /\ mine' = [mine EXCEPT ![p] = TakeForOther(m)]
             /\ clone' = [clone EXCEPT ![p] = [step |-> "id", child |-> dest, id |-> id]]
             /\ IdSend(p, [kind |-> "CHANGE", id |-> id, owner |-> dest, to |-> "move"])
             /\ idLock' = [idLock EXCEPT ![p] = "move"]
             /\ UNCHANGED idThreads

(* dest is the process the id is for.  Without a range one is asked for;   *)
(* clone[p] remembers dest meanwhile.                                      *)
GetNewId(p, dest) ==
    /\ idFatal = "no" /\ idProc[p] = "up" /\ idLock[p] = "free"
    /\ \/ /\ mine[p].last = NoRange
          /\ IdSend(p, [kind |-> "ALLOC"])
          /\ idLock' = [idLock EXCEPT ![p] = "alloc"]
          /\ clone' = [clone EXCEPT ![p] = IF dest = NoProc THEN @
                                           ELSE [step |-> "range", child |-> dest, id |-> 0]]
          /\ UNCHANGED <<mine, idThreads, timesGiven>>
       \/ mine[p].last # NoRange /\ TakeId(p, mine[p], dest)

(* clone of a thread. *)
NewThread(p) ==
    /\ GetNewId(p, NoProc)
    /\ UNCHANGED <<leaderVars, idProc, mainId, idReplies>>

(* clone of a process: a new vmid, then an id for it. *)
NewProcess(p) ==
    /\ clone[p] = NoClone /\ lastVmid + 1 \in IdProcs
    /\ lastVmid' = lastVmid + 1
    /\ GetNewId(p, lastVmid + 1)
    /\ UNCHANGED <<owners, lastId, idFatal, idProc, mainId, idReplies>>

(* ipc_alloc_id_range returns.  Without a range get_new_id gives up. *)
GotRange(p) == \E r \in idReplies[p] :
    LET dest == IF clone[p].step = "range" THEN clone[p].child ELSE NoProc
    IN /\ idFatal = "no" /\ idProc[p] = "up" /\ r.to = "alloc"
       /\ IdReceive(p, "alloc")
       /\ \/ /\ r.start = 0
             /\ idLock' = [idLock EXCEPT ![p] = "free"]
             /\ clone' = [clone EXCEPT ![p] = IF dest = NoProc THEN @ ELSE NoClone]
             /\ UNCHANGED <<mine, idThreads, idRequests, timesGiven>>
          \/ /\ r.start # 0
             /\ TakeId(p, FreshRanges(IdRange(r.start, r.end, 0), mine[p].used, r.start - 1), dest)
       /\ UNCHANGED <<leaderVars, idProc, mainId>>

(* The leader has moved the id: get_new_id returns. *)
MovedId(p) ==
    /\ idFatal = "no" /\ idProc[p] = "up" /\ [to |-> "move"] \in idReplies[p]
    /\ IdReceive(p, "move")
    /\ idLock' = [idLock EXCEPT ![p] = "free"]
    /\ clone' = [clone EXCEPT ![p].step = "create"]
    /\ UNCHANGED <<leaderVars, mine, idProc, idThreads, mainId, idRequests, timesGiven>>

(* do_clone_new_vm: the child has its checkpoint, with its only id. *)
CloneSucceeds(p) ==
    LET c == clone[p]
    IN /\ idFatal = "no" /\ idProc[p] = "up" /\ c.step = "create"
       /\ idProc' = [idProc EXCEPT ![c.child] = "up"]
       /\ mine' = [mine EXCEPT ![c.child] = FreshRanges(NoRange, {IdRange(c.id, c.id, 1)}, 0)]
       /\ idThreads' = [idThreads EXCEPT ![c.child] = {c.id}]
       /\ mainId' = [mainId EXCEPT ![c.child] = c.id]
       /\ clone' = [clone EXCEPT ![p] = NoClone]
       /\ UNCHANGED <<leaderVars, idLock, idRequests, idReplies, timesGiven>>

(* It has not: the id comes back and is released. *)
CloneFails(p) ==
    /\ idFatal = "no" /\ idProc[p] = "up" /\ clone[p].step = "create"
    /\ IdSend(p, [kind |-> "CHANGE", id |-> clone[p].id, owner |-> p, to |-> "back"])
    /\ clone' = [clone EXCEPT ![p].step = "back"]
    /\ UNCHANGED <<leaderVars, mine, idProc, idThreads, mainId, idLock, idReplies, timesGiven>>

IdBack(p) ==
    /\ idFatal = "no" /\ idProc[p] = "up" /\ [to |-> "back"] \in idReplies[p]
    /\ IdReceive(p, "back")
    /\ IdSend(p, [kind |-> "RELEASE", start |-> clone[p].id, end |-> clone[p].id])
    /\ clone' = [clone EXCEPT ![p] = NoClone]
    /\ UNCHANGED <<leaderVars, mine, idProc, idThreads, mainId, idLock, timesGiven>>

-----------------------------------------------------------------------------
(* release_id.                                                             *)

UsedAround(p, id) == {r \in mine[p].used : InIdRange(id, r)}

(* Mutant: the range goes when one of its ids is left. *)
ReleaseIdEarly(p, id) ==
    LET m == mine[p]   r == CHOOSE x \in UsedAround(p, id) : TRUE
    IN /\ m.last = NoRange \/ ~InIdRange(id, m.last)
       /\ UNCHANGED idFatal
       /\ mine' = [mine EXCEPT ![p].used = (@ \ {r}) \cup
                     (IF r.taken <= 2 THEN {} ELSE {[r EXCEPT !.taken = @ - 1]})]
       /\ IF r.taken <= 2 THEN IdSend(p, [kind |-> "RELEASE", start |-> r.start, end |-> r.end])
          ELSE UNCHANGED idRequests

(* Ids of the last range only lower its count; a filed range goes back to  *)
(* the leader with its last taken id.  Other ids are a bug.                *)
ReleaseId(p, id) ==
    LET m == mine[p]
        known == UsedAround(p, id)
        r == CHOOSE x \in known : TRUE
    IN \/ /\ m.last # NoRange /\ InIdRange(id, m.last)
          /\ mine' = [mine EXCEPT ![p].last.taken = @ - 1]
          /\ idFatal' = IF m.last.taken > 0 THEN idFatal ELSE "bug"
          /\ UNCHANGED idRequests
       \/ /\ m.last = NoRange \/ ~InIdRange(id, m.last)
          /\ known = {} \/ r.taken = 0
          /\ idFatal' = "bug"
          /\ UNCHANGED <<mine, idRequests>>
       \/ /\ m.last = NoRange \/ ~InIdRange(id, m.last)
          /\ known # {} /\ r.taken > 1
          /\ mine' = [mine EXCEPT ![p].used = (@ \ {r}) \cup {[r EXCEPT !.taken = @ - 1]}]
          /\ UNCHANGED <<idFatal, idRequests>>
       \/ /\ m.last = NoRange \/ ~InIdRange(id, m.last)
          /\ known # {} /\ r.taken = 1
          /\ mine' = [mine EXCEPT ![p].used = @ \ {r}]
          /\ IdSend(p, [kind |-> "RELEASE", start |-> r.start, end |-> r.end])
          /\ UNCHANGED idFatal

(* cleanup_thread puts the last reference of a thread; the first thread of *)
(* a process keeps its id until the process ends.                          *)
ThreadGone(p) == \E id \in idThreads[p] \ {mainId[p]} :
    /\ idFatal = "no" /\ idProc[p] = "up" /\ idLock[p] = "free"
    /\ ReleaseId(p, id)
    /\ idThreads' = [idThreads EXCEPT ![p] = @ \ {id}]
    /\ UNCHANGED <<owners, lastId, lastVmid, idProc, mainId, idLock, clone, idReplies, timesGiven>>

(* libos_clean_and_exit releases the id of the thread that ends the        *)
(* process, after the calls of all others have ended; the ids of those may *)
(* never be released.  The leader stays (it is the first process).         *)
IdProcessExits(p) == \E id \in idThreads[p] :
    /\ p # IdLeader
    /\ idFatal = "no" /\ idProc[p] = "up" /\ idLock[p] = "free" /\ clone[p] = NoClone
    /\ ReleaseId(p, id)
    /\ idProc' = [idProc EXCEPT ![p] = "gone"]
    /\ idThreads' = [idThreads EXCEPT ![p] = {}]
    /\ UNCHANGED <<owners, lastId, lastVmid, mainId, idLock, clone, idReplies, timesGiven>>

(* The host kills a process; what it was about to send may be lost. *)
IdKilled(p) == \E sent \in SUBSET idRequests[p] :
    /\ idFatal = "no" /\ p \in IdMortal /\ idProc[p] = "up"
    /\ idProc' = [idProc EXCEPT ![p] = "gone"]
    /\ idThreads' = [idThreads EXCEPT ![p] = {}]
    /\ idRequests' = [idRequests EXCEPT ![p] = sent]
    /\ UNCHANGED <<leaderVars, mine, mainId, idLock, clone, idReplies, timesGiven>>

IdNext == \E p \in IdProcs :
    \/ idFatal = "no" /\ LeaderHandles(p)
    \/ NewThread(p) \/ NewProcess(p) \/ GotRange(p) \/ MovedId(p)
    \/ CloneSucceeds(p) \/ CloneFails(p) \/ IdBack(p)
    \/ ThreadGone(p) \/ IdProcessExits(p) \/ IdKilled(p)

IdSpec == IdInit /\ [][IdNext]_idVars

-----------------------------------------------------------------------------
(* Properties.                                                             *)

(* Neither the leader (change_id_owner, release_id_range) nor a process    *)
(* (release_id) meets an id or a range it does not know: the cuts that     *)
(* get_new_id makes in its range and those that change_id_owner makes in   *)
(* the leader's tree are the same, whatever the order of the messages.     *)
IdNoBug == idFatal # "bug"

(* get_new_id never returns an id a second time, not even one that was     *)
(* released or whose owner died: libos_handle::id relies on it, as the     *)
(* comment before the BUG() in _find_free_id_range says.  The comment on   *)
(* the release of the last id in libos_clean_and_exit says otherwise: when *)
(* ids overflow, the leader "could give this ID to somebody else" while a  *)
(* zombie has it.  With that BUG() the leader cannot: it ends first.       *)
IdNeverReused == \A id \in DOMAIN timesGiven : timesGiven[id] <= 1

(* find_id_owner: at any time the leader names the process of a running    *)
(* thread as the owner of the thread's id; kill depends on it.             *)
IdOwnerKnown == \A p \in IdProcs : \A id \in idThreads[p] :
    idFatal = "no" => \E r \in owners : InIdRange(id, r) /\ r.owner = p

(* When nothing of process p is under way, the ranges that the leader has  *)
(* for p are exactly the ranges that p has: nothing is lost on either side *)
(* by failed clones or moved ids (get_new_id, release_id, clone).          *)
IdMirror == \A p \in IdProcs :
    idProc[p] = "up" /\ idFatal = "no" /\ idRequests[p] = {} /\ idReplies[p] = {} =>
        {[s |-> r.start, e |-> r.end] : r \in {x \in owners : x.owner = p}}
          = {[s |-> r.start, e |-> r.end] : r \in mine[p].used \cup ({mine[p].last} \ {NoRange})}

(* The leader's tree agrees with what the processes have: always about the *)
(* ids of running threads, and about all ranges when nothing is under way. *)
IdAgreement == IdOwnerKnown /\ IdMirror
=============================================================================
