--------------------------- MODULE RuntimeProofs ----------------------------
(***************************************************************************)
(* Proofs about what one process keeps for its threads.                    *)
(*                                                                         *)
(* AsyncWorker: while a thread of the application is listed, at most one   *)
(* worker looks after async_list, however often workers give up and are    *)
(* created again, for any scripts, failures and number of threads.         *)
(*                                                                         *)
(* Vma: the tree of areas and the memory of the host agree, and the calls  *)
(* of the host never meet on a page, for any threads, scripts and sizes.   *)
(* The invariant gives every thread a zone of pages that no other thread   *)
(* works on and says, for every place a call can be at, what tree and host *)
(* have at the pages of that call.                                         *)
(***************************************************************************)
EXTENDS AsyncWorker, Vma, TLAPS

-----------------------------------------------------------------------------
(* The async worker *)

(* async_worker_state and async_worker_thread tell which worker exists,    *)
(* from its creation to its last step, until terminate_async_worker.       *)
OneWorkerInv ==
    /\ DOMAIN asPc = Actors
    /\ asListed # {} =>
         \/ asState = "NOTALIVE" /\ \A w \in AsWorkers : asPc[w] = "none"
         \/ /\ asState = "ALIVE" /\ asWorker \in AsWorkers
            /\ \A w \in AsWorkers : asPc[w] # "none" <=> w = asWorker

(* Actors are threads or workers, not both. *)
LEMMA ThreadsAreNotWorkers == \A t \in AsThreads : t \in Actors /\ t \notin AsWorkers
  BY AsAssumption DEF Actors

(* A step that moves one actor, which is no worker or does not start or    *)
(* end.                                                                    *)
LEMMA MoveKeepsOne ==
    ASSUME OneWorkerInv, UNCHANGED <<asState, asWorker>>,
           asListed' # {} => asListed # {},
           NEW a \in Actors, NEW place, Goes(a, place),
           a \in AsWorkers => asPc[a] # "none" /\ place # "none"
    PROVE  OneWorkerInv'
  BY DEF OneWorkerInv, Goes

(* A step that moves nobody. *)
LEMMA StayKeepsOne ==
    ASSUME OneWorkerInv, UNCHANGED <<asState, asWorker, asPc>>,
           asListed' # {} => asListed # {}
    PROVE  OneWorkerInv'
  BY DEF OneWorkerInv

(* install_async_event creates a worker only when there is none. *)
LEMMA InstallKeepsOne ==
    ASSUME OneWorkerInv, NEW a \in Actors, Install(a)
    PROVE  OneWorkerInv'
  <1> DEFINE e == asEvent[a]
  <1>1. asPc[a] = "install" /\ UNCHANGED asListed
    BY DEF Install
  <1>2. AfterLock(e) # "none"
    BY DEF AfterLock
  <1>3. CASE NeedsWorker /\ e.kind # "off"
    <2>1. asState = "NOTALIVE"
      BY <1>3 DEF NeedsWorker
    <2>2. ASSUME NEW w \in AsWorkers, asPc[w] = "none", asWorker' = w, asState' = "ALIVE",
                 asPc' = [asPc EXCEPT ![a] = AfterLock(e), ![w] = "started"]
          PROVE  OneWorkerInv'
      <3>1. w \in Actors /\ w # a
        BY <1>1, <2>2 DEF Actors
      <3>2. /\ DOMAIN asPc' = Actors /\ asPc'[w] = "started"
            /\ \A v \in AsWorkers : v # w /\ v # a => asPc'[v] = asPc[v]
        BY <2>2, <3>1 DEF OneWorkerInv, Actors
      <3>3. ASSUME asListed # {} PROVE a \notin AsWorkers /\ \A v \in AsWorkers : asPc[v] = "none"
        BY <3>3, <2>1, <1>1 DEF OneWorkerInv
      <3> QED BY <2>2, <3>2, <3>3, <1>1 DEF OneWorkerInv
    <2>3. CASE Goes(a, "uncreated") /\ UNCHANGED <<asWorker, asState>>
      BY <2>3, <1>1, MoveKeepsOne
    <2> QED BY <1>3, <2>2, <2>3 DEF Install
  <1>4. CASE ~(NeedsWorker /\ e.kind # "off")
    <2>1. Goes(a, AfterLock(e)) /\ UNCHANGED <<asWorker, asState>>
      BY <1>4 DEF Install
    <2> QED BY <2>1, <1>1, <1>2, MoveKeepsOne
  <1> QED BY <1>3, <1>4

(* The other steps of the threads; after terminate_async_worker nobody is  *)
(* listed.                                                                 *)
LEMMA ThreadKeepsOne ==
    ASSUME OneWorkerInv, NEW t \in AsThreads,
           \/ AsCall(t) \/ AsReturn(t) \/ AsLastExit(t) \/ AsLastSignal(t) \/ AsProcessExit(t)
    PROVE  OneWorkerInv'
  <1>0. t \in Actors /\ t \notin AsWorkers
    BY ThreadsAreNotWorkers
  <1>1. CASE AsCall(t)
    <2>1. /\ asListed' # {} => asListed # {}
          /\ UNCHANGED <<asState, asWorker>>
          /\ Goes(t, "install") \/ Goes(t, "failed")
      BY <1>1 DEF AsCall
    <2> QED BY <2>1, <1>0, MoveKeepsOne
  <1>2. CASE AsReturn(t)
    BY <1>0, <1>2, MoveKeepsOne DEF AsReturn
  <1>3. CASE AsLastExit(t)
    BY <1>0, <1>3 DEF AsLastExit, OneWorkerInv, Goes
  <1>4. CASE AsLastSignal(t)
    BY <1>0, <1>4, MoveKeepsOne DEF AsLastSignal
  <1>5. CASE AsProcessExit(t)
    BY <1>5, StayKeepsOne DEF AsProcessExit
  <1> QED BY <1>1, <1>2, <1>3, <1>4, <1>5

(* The steps of a worker: it ends under the lock in which it also gives up *)
(* its place, and never for not being async_worker_thread.                 *)
LEMMA WorkerKeepsOne ==
    ASSUME OneWorkerInv, NEW w \in AsWorkers,
           \/ WkStart(w) \/ WkTop(w) \/ WkScan(w) \/ WkPolled(w) \/ WkTimeout(w)
           \/ WkInterrupted(w) \/ WkCollect(w) \/ WkCallback(w) \/ WkItimer(w)
           \/ WkItimerDone(w) \/ WkAgain(w) \/ WkReadsFreed(w)
    PROVE  OneWorkerInv'
  <1>0. w \in Actors
    BY DEF Actors
  <1>1. CASE WkStart(w)
    <2>1. asListed # {} => asWorker = w
      BY <1>1 DEF WkStart, OneWorkerInv
    <2>2. CASE asListed # {}
      BY <1>0, <1>1, <2>1, <2>2, MoveKeepsOne DEF WkStart
    <2>3. CASE asListed = {}
      BY <1>1, <2>3 DEF WkStart, OneWorkerInv, Goes
    <2> QED BY <2>2, <2>3
  <1>2. CASE WkTop(w)
    BY <1>0, <1>2, MoveKeepsOne DEF WkTop
  <1>3. CASE WkScan(w)
    <2>1. CASE WkEnds(w) /\ Goes(w, "none")
      BY <1>0, <1>3, <2>1 DEF WkScan, WkEnds, Goes, OneWorkerInv
    <2>2. CASE UNCHANGED <<asWorker, asState>> /\ Goes(w, "poll")
      BY <1>0, <1>3, <2>2, MoveKeepsOne DEF WkScan
    <2> QED BY <1>3, <2>1, <2>2 DEF WkScan
  <1>4. CASE WkPolled(w) \/ WkTimeout(w) \/ WkInterrupted(w)
    BY <1>0, <1>4, MoveKeepsOne DEF WkPolled, WkTimeout, WkInterrupted, WkWakes
  <1>5. CASE WkCollect(w)
    <2>1. asPc[w] = "collect" /\ Goes(w, "callbacks") /\ UNCHANGED <<asState, asWorker, asListed>>
      BY <1>5 DEF WkCollect
    <2> QED BY <1>0, <2>1, MoveKeepsOne
  <1>6. CASE WkCallback(w) \/ WkReadsFreed(w)
    BY <1>6, StayKeepsOne DEF WkCallback, WkReadsFreed
  <1>7. CASE WkItimer(w)
    <2>1. /\ asPc[w] = "callbacks" /\ UNCHANGED <<asState, asWorker, asListed>>
          /\ Goes(w, "install") \/ Goes(w, "failed") \/ UNCHANGED asPc
      BY <1>7 DEF WkItimer
    <2> QED BY <1>0, <2>1, MoveKeepsOne, StayKeepsOne
  <1>8. CASE WkItimerDone(w)
    BY <1>0, <1>8, MoveKeepsOne DEF WkItimerDone
  <1>9. CASE WkAgain(w)
    BY <1>0, <1>9, MoveKeepsOne DEF WkAgain
  <1> QED BY <1>1, <1>2, <1>3, <1>4, <1>5, <1>6, <1>7, <1>8, <1>9

(* set_pollable_event, by a thread or by the worker. *)
LEMMA SignalKeepsOne ==
    ASSUME OneWorkerInv, NEW a \in Actors, Signal(a)
    PROVE  OneWorkerInv'
  BY MoveKeepsOne DEF Signal

(* The worker that install_async_event has created is the only one in the  *)
(* loop of libos_async_worker until the last thread has left the list.     *)
THEOREM OneWorkerHolds == AsSpec => []AsOneWorker
  <1>1. AsInit => OneWorkerInv
    BY ThreadsAreNotWorkers DEF AsInit, OneWorkerInv, Actors
  <1>2. ASSUME OneWorkerInv, [AsNext]_<<asVars, asFails>> PROVE OneWorkerInv'
    <2>1. CASE AsExpire \/ AsData
      BY <1>2, <2>1, StayKeepsOne DEF AsExpire, AsData
    <2>2. ASSUME NEW t \in AsThreads, AsCall(t) \/ AsLastExit(t) \/ ThreadSteps(t)
          PROVE  OneWorkerInv'
      BY <1>2, <2>2, ThreadsAreNotWorkers, ThreadKeepsOne, InstallKeepsOne, SignalKeepsOne
         DEF ThreadSteps
    <2>3. ASSUME NEW w \in AsWorkers, WorkerSteps(w) \/ WkInterrupted(w) \/ WkReadsFreed(w)
          PROVE  OneWorkerInv'
      <3>1. w \in Actors
        BY DEF Actors
      <3> QED BY <1>2, <2>3, <3>1, WorkerKeepsOne, InstallKeepsOne, SignalKeepsOne
              DEF WorkerSteps
    <2>4. CASE UNCHANGED <<asVars, asFails>>
      BY <1>2, <2>4, StayKeepsOne DEF asVars
    <2> QED BY <1>2, <2>1, <2>2, <2>3, <2>4 DEF AsNext
  <1>3. OneWorkerInv => AsOneWorker
    BY DEF OneWorkerInv, AsOneWorker, InLoop
  <1> QED BY <1>1, <1>2, <1>3, PTL DEF AsSpec

-----------------------------------------------------------------------------
(* Memory: the invariant *)

(* The protections the calls give, and where a call can be. *)
Prots == {"none", "r", "rw"}

VmPcs == {"idle", "search", "alloc", "unmap", "free", "remove_tmp", "fixed_unmap", "fixed_free",
          "fixed_map", "protect", "pal_free"}

(* Areas, and where the provers can tell one from another: an area has at  *)
(* least one page and lies below VmEnd.                                    *)
VmArea == [b : Nat, e : Nat, internal : BOOLEAN, unmapped : BOOLEAN, prot : Prots,
           off : {-1} \cup Nat]

(* An area of at least one page below VmEnd. *)
IsRange(a) == a \in VmArea /\ a.b < a.e /\ a.e <= VmEnd

(* The areas of a tree do not overlap. *)
TreeOK(T) == /\ \A a \in T : IsRange(a)
             /\ \A x, y \in T : x # y => x.e <= y.b \/ y.e <= x.b

(* What the tree says of page p. *)
View(a, p) == [internal |-> a.internal, unmapped |-> a.unmapped, at |-> Placed(a, p)]

(* There is one view of a page, or none where nothing is mapped. *)
Views(T, p) == {View(a, p) : a \in {x \in T : p \in PagesOf(x)}}

(* The user has mapped page p. *)
User(T, p) == Views(T, p) # {} /\ \A v \in Views(T, p) : ~v.internal /\ ~v.unmapped

(* The host has mapped h at a page of which the tree says at: the same     *)
(* page of the file and, unless the host has refused an mprotect, the same *)
(* protection.                                                             *)
MappedAs(h, at) == h.page = at.page /\ (~h.old => h.prot = at.prot)

(* The host has mapped h at a page of which the tree says V. *)
Agrees(V, h) == /\ \A v \in V : ~v.unmapped => MappedAs(h, v.at)
                /\ (\A v \in V : v.unmapped) => h = NotMapped

(* What a call has still to unmap. *)
TodoPages(S) == UNION {PagesOf(a) : a \in S}

(* The areas a call has still to unmap do not overlap. *)
TodoOK(S) == /\ \A a \in S : IsRange(a)
             /\ \A x, y \in S : x # y => PagesOf(x) \cap PagesOf(y) = {}

(* The pages of S are mapped by the user, not mapped in the host, of area  *)
(* a, or known to the tree.                                                *)
AllUser(T, S) == \A p \in S : User(T, p)
AllEmpty(H, S) == \A p \in S : H[p] = NotMapped
AllViews(T, a) == \A p \in PagesOf(a) : Views(T, p) = {View(a, p)}
Covered(T, S) == \A p \in S : Views(T, p) # {}

(* The local variables of a call. *)
VmOps == [pc : VmPcs, area : VmArea, tops : Seq(Nat), todo : SUBSET VmArea, new : VmArea]

(* A call without brk_lock, by where it is. *)
PlainOK(op) == op.new = NoArea /\ op.todo = {}

(* munmap and MAP_FIXED have still to unmap pages that are the user's. *)
UnmapOK(T, op) == op.new = NoArea /\ TodoOK(op.todo) /\ AllUser(T, TodoPages(op.todo))

FixedOK(op) == /\ TodoOK(op.todo) /\ TodoPages(op.todo) \subseteq PagesOf(op.new)
               /\ IsRange(op.new) /\ op.new.internal = FALSE /\ op.new.unmapped = FALSE

(* A search goes on with the ranges it has not yet looked at. *)
SearchOK(op) == /\ PlainOK(op)
                /\ op.area.b = 0 /\ op.area.e > 0 /\ op.area.unmapped = FALSE
                /\ op.tops \in Seq(0 .. VmEnd) /\ op.tops # <<>>

(* The tree has the new area, and the host nothing in its place. *)
AllocOK(T, H, op) == /\ PlainOK(op) /\ IsRange(op.area) /\ op.area.unmapped = FALSE
                     /\ AllViews(T, op.area) /\ AllEmpty(H, PagesOf(op.area))

(* A temporary area keeps the range until the host has unmapped it. *)
FreeOK(T, op) == /\ UnmapOK(T, op) /\ IsRange(op.area) /\ Tmp(op.area) \in T
                 /\ PagesOf(op.area) \cap TodoPages(op.todo) = {}

RemoveOK(T, H, op) == FreeOK(T, op) /\ AllEmpty(H, PagesOf(op.area))

(* The PAL has unmapped what the tree still has. *)
PalFreeOK(T, H, op) == /\ PlainOK(op) /\ IsRange(op.area)
                       /\ Covered(T, PagesOf(op.area)) /\ AllEmpty(H, PagesOf(op.area))

(* The tree has the new protection, the host the pages. *)
ProtectOK(T, H, op) == /\ PlainOK(op) /\ IsRange(op.area)
                       /\ \A p \in PagesOf(op.area) : \A v \in Views(T, p) :
                             v.at.prot = op.area.prot /\ v.at.page = H[p].page

(* MAP_FIXED: all of the range is to be unmapped; a temporary area keeps   *)
(* the range; the range is the user's again, and empty.                    *)
FixedUnmapOK(T, op) == /\ FixedOK(op) /\ AllUser(T, PagesOf(op.new))
                       /\ PagesOf(op.new) \subseteq TodoPages(op.todo)

FixedFreeOK(T, H, op) == /\ FixedOK(op) /\ Tmp(op.new) \in T
                         /\ AllEmpty(H, PagesOf(op.new) \ TodoPages(op.todo))

FixedMapOK(T, H, op) == /\ FixedOK(op) /\ op.todo = {}
                        /\ \A p \in PagesOf(op.new) :
                             Views(T, p) # {} /\ \A v \in Views(T, p) : ~v.internal
                        /\ AllEmpty(H, PagesOf(op.new))

(* A call without brk_lock. *)
OpOK(T, H, op) ==
    /\ op.pc = "idle" => PlainOK(op)
    /\ op.pc = "search" => SearchOK(op)
    /\ op.pc = "alloc" => AllocOK(T, H, op)
    /\ op.pc = "unmap" => UnmapOK(T, op)
    /\ op.pc = "free" => FreeOK(T, op)
    /\ op.pc = "remove_tmp" => RemoveOK(T, H, op)
    /\ op.pc = "pal_free" => PalFreeOK(T, H, op)
    /\ op.pc = "protect" => ProtectOK(T, H, op)
    /\ op.pc = "fixed_unmap" => FixedUnmapOK(T, op)
    /\ op.pc = "fixed_free" => FixedFreeOK(T, H, op)
    /\ op.pc = "fixed_map" => FixedMapOK(T, H, op)

(* The heap. *)
Heap == BrkStart .. BrkEnd - 1

(* Nothing of the heap is mapped from lim on. *)
HeapFree(T, lim) == \A p \in lim .. BrkEnd - 1 : \A v \in Views(T, p) : v.unmapped

(* A call with brk_lock. *)
BrkOK(T, H, op, cur) ==
    /\ PlainOK(op) /\ IsRange(op.area) /\ PagesOf(op.area) \subseteq Heap
    /\ \/ /\ op.pc = "alloc" /\ op.area.internal = FALSE /\ op.area.unmapped = FALSE
          /\ op.area.b = cur
          /\ AllViews(T, op.area) /\ AllEmpty(H, PagesOf(op.area))
          /\ HeapFree(T, op.area.e)
       \/ op.pc = "free" /\ op.area.e = cur /\ HeapFree(T, op.area.b)

(* The pages a call has still to work on. *)
PendingOf(op) ==
    (IF op.pc \in {"alloc", "free", "protect", "remove_tmp", "pal_free"} THEN PagesOf(op.area) ELSE {})
    \cup PagesOf(op.new) \cup TodoPages(op.todo)

(* The pages only thread t works on or has. *)
Zone(t) == vmOwn[t] \cup PagesOf(slab[t]) \cup (IF brkLock = t THEN Heap ELSE PendingOf(vmOp[t]))

(* The pages the LibOS has for itself are in the tree as one area. *)
SlabOK(T, s) == s = NoArea \/ (IsRange(s) /\ s.internal = TRUE /\ s.unmapped = FALSE /\ AllViews(T, s))

(* own pages: the user's, and apart from the pages of a call, unless it    *)
(* protects them.                                                          *)
OwnOK(T, op, own, s) ==
    /\ AllUser(T, own)
    /\ PagesOf(s) \cap (own \cup PendingOf(op)) = {}
    /\ IF op.pc = "protect" THEN PagesOf(op.area) \subseteq own ELSE own \cap PendingOf(op) = {}

(* What holds of a thread and its call. *)
ThreadOK(t) ==
    /\ OwnOK(tree, vmOp[t], vmOwn[t], slab[t])
    /\ SlabOK(tree, slab[t])
    /\ brkLock = t => BrkOK(tree, host, vmOp[t], brkCur)
    /\ brkLock # t => OpOK(tree, host, vmOp[t])

(* The types of the variables. *)
VmTypes ==
    /\ TreeOK(tree)
    /\ host \in [Pages -> [prot : Prots, page : Int, old : BOOLEAN]]
    /\ vmOp \in [VmThreads -> VmOps]
    /\ vmOwn \in [VmThreads -> SUBSET Pages]
    /\ slab \in [VmThreads -> VmArea]
    /\ brkCur \in BrkStart .. BrkEnd
    /\ brkLock \in {0} \cup VmThreads

(* No page belongs to two threads, and none of the heap to a thread without*)
(* brk_lock.                                                               *)
Apart == /\ \A t, u \in VmThreads : t # u => Zone(t) \cap Zone(u) = {}
         /\ \A t \in VmThreads : brkLock # t => Zone(t) \cap Heap = {}
         /\ \A t \in VmThreads : (vmOwn[t] \cup PagesOf(slab[t])) \cap Heap = {}

(* The tree has all of the heap as the user's, and between two calls of brk*)
(* nothing of it is mapped from brkCur on.                                 *)
HeapOK(T, lock, cur) ==
    /\ \A p \in Heap : Views(T, p) # {} /\ \A v \in Views(T, p) : ~v.internal
    /\ lock = 0 => HeapFree(T, cur)

(* Tree and host agree where no call is under way. *)
PagesOK == \A p \in Pages : (\A t \in VmThreads : p \notin PendingOf(vmOp[t]))
                               => Agrees(Views(tree, p), host[p])

(* The inductive invariant. *)
VmInv == /\ VmTypes /\ vmBug # "tree"
         /\ \A t \in VmThreads : ThreadOK(t)
         /\ Apart /\ HeapOK(tree, brkLock, brkCur) /\ PagesOK

-----------------------------------------------------------------------------
(* The tree *)

(* NoArea has no pages. *)
LEMMA NoAreaFacts == /\ NoArea \in VmArea /\ PagesOf(NoArea) = {} /\ NoArea.b = 0 /\ NoArea.e = 0
                     /\ NoArea.internal = FALSE /\ NoArea.unmapped = FALSE
  <1>1. NoArea \in VmArea /\ NoArea.b = 0 /\ NoArea.e = 0
    BY DEF NoArea, Area, VmArea, Prots
  <1>2. NoArea.internal = FALSE /\ NoArea.unmapped = FALSE
    BY DEF NoArea, Area
  <1>3. PagesOf(NoArea) = {}
    BY <1>1 DEF PagesOf
  <1> QED BY <1>1, <1>2, <1>3

(* The pages of a range are pages of the process, and there is one. *)
LEMMA RangePages ==
    ASSUME NEW a, IsRange(a)
    PROVE  /\ a.b \in Nat /\ a.e \in Nat /\ a.b \in PagesOf(a) /\ PagesOf(a) \subseteq Pages
           /\ \A p : p \in PagesOf(a) <=> p \in Int /\ a.b <= p /\ p < a.e
  <1>1. a.b \in Nat /\ a.e \in Nat /\ a.b < a.e /\ a.e <= VmEnd
    BY DEF IsRange, VmArea
  <1> QED BY <1>1, VmAssumption DEF PagesOf, Pages

(* Areas overlap a range exactly when they share a page with it. *)
LEMMA OverlapsPage ==
    ASSUME NEW a, IsRange(a), NEW b \in Nat, NEW e \in Nat, b < e
    PROVE  Overlaps(a, b, e) <=> \E p \in b .. e - 1 : p \in PagesOf(a)
  <1>1. a.b \in Nat /\ a.e \in Nat /\ a.b < a.e
    BY DEF IsRange, VmArea
  <1>2. ASSUME Overlaps(a, b, e) PROVE \E p \in b .. e - 1 : p \in PagesOf(a)
    <2>1. CASE a.b <= b
      BY <1>1, <1>2, <2>1 DEF Overlaps, PagesOf
    <2>2. CASE b < a.b
      BY <1>1, <1>2, <2>2 DEF Overlaps, PagesOf
    <2> QED BY <1>1, <2>1, <2>2
  <1>3. ASSUME NEW p \in b .. e - 1, p \in PagesOf(a) PROVE Overlaps(a, b, e)
    BY <1>1, <1>3 DEF Overlaps, PagesOf
  <1> QED BY <1>2, <1>3

(* split_vma: the lower part of an area says of its pages what the area    *)
(* said.                                                                   *)
LEMMA LowerFacts ==
    ASSUME NEW a, IsRange(a), NEW q \in Nat, a.b < q, q <= a.e
    PROVE  /\ IsRange(LowerPart(a, q)) /\ PagesOf(LowerPart(a, q)) = {p \in PagesOf(a) : p < q}
           /\ LowerPart(a, q).b = a.b /\ LowerPart(a, q).e = q
           /\ \A p \in PagesOf(a) : View(LowerPart(a, q), p) = View(a, p)
  <1>1. a \in VmArea /\ a.b \in Nat /\ a.e \in Nat /\ a.b < a.e /\ a.e <= VmEnd
    BY DEF IsRange, VmArea
  <1>2. /\ LowerPart(a, q) \in VmArea /\ LowerPart(a, q).b = a.b /\ LowerPart(a, q).e = q
        /\ LowerPart(a, q).internal = a.internal /\ LowerPart(a, q).unmapped = a.unmapped
        /\ LowerPart(a, q).prot = a.prot /\ LowerPart(a, q).off = a.off
    BY <1>1 DEF LowerPart, VmArea
  <1>3. IsRange(LowerPart(a, q))
    BY <1>1, <1>2, VmAssumption DEF IsRange
  <1>4. PagesOf(LowerPart(a, q)) = {p \in PagesOf(a) : p < q}
    BY <1>1, <1>2 DEF PagesOf
  <1>5. \A p \in PagesOf(a) : View(LowerPart(a, q), p) = View(a, p)
    BY <1>2 DEF View, Placed
  <1> QED BY <1>2, <1>3, <1>4, <1>5

(* split_vma: the upper part does so too, because its offset moves along. *)
LEMMA UpperFacts ==
    ASSUME NEW a, IsRange(a), NEW q \in Nat, a.b <= q, q < a.e
    PROVE  /\ IsRange(UpperPart(a, q)) /\ PagesOf(UpperPart(a, q)) = {p \in PagesOf(a) : q <= p}
           /\ UpperPart(a, q).b = q /\ UpperPart(a, q).e = a.e
           /\ \A p \in PagesOf(a) : q <= p => View(UpperPart(a, q), p) = View(a, p)
  <1>1. a \in VmArea /\ a.b \in Nat /\ a.e \in Nat /\ a.b < a.e /\ a.e <= VmEnd
    BY DEF IsRange, VmArea
  <1>2. a.off = -1 \/ a.off \in Nat
    BY <1>1 DEF VmArea
  <1>3. /\ UpperPart(a, q).b = q /\ UpperPart(a, q).e = a.e
        /\ UpperPart(a, q).internal = a.internal /\ UpperPart(a, q).unmapped = a.unmapped
        /\ UpperPart(a, q).prot = a.prot
        /\ UpperPart(a, q).off = IF a.off = -1 THEN -1 ELSE a.off + (q - a.b)
    BY <1>1 DEF UpperPart, VmArea
  <1>4. UpperPart(a, q).off \in {-1} \cup Nat
    BY <1>1, <1>2, <1>3
  <1>5. UpperPart(a, q) \in VmArea
    <2>1. ASSUME NEW y \in {-1} \cup Nat PROVE [a EXCEPT !.b = q, !.off = y] \in VmArea
      BY <1>1 DEF VmArea
    <2>2. UpperPart(a, q) = [a EXCEPT !.b = q, !.off = UpperPart(a, q).off]
      BY <1>3 DEF UpperPart
    <2> QED BY <1>4, <2>1, <2>2
  <1>6. IsRange(UpperPart(a, q))
    BY <1>1, <1>3, <1>5 DEF IsRange
  <1>7. PagesOf(UpperPart(a, q)) = {p \in PagesOf(a) : q <= p}
    BY <1>1, <1>3 DEF PagesOf
  <1>8. ASSUME NEW p \in PagesOf(a), q <= p PROVE View(UpperPart(a, q), p) = View(a, p)
    <2>1. p \in Int
      BY DEF PagesOf
    <2>2. Placed(UpperPart(a, q), p) = Placed(a, p)
      <3>1. CASE a.off = -1
        BY <3>1, <1>3 DEF Placed
      <3>2. CASE a.off # -1
        <4>1. a.off \in Nat /\ UpperPart(a, q).off = a.off + (q - a.b) /\ UpperPart(a, q).off # -1
          BY <3>2, <1>1, <1>2, <1>3
        <4>2. UpperPart(a, q).off + (p - UpperPart(a, q).b) = a.off + (p - a.b)
          BY <4>1, <2>1, <1>1, <1>3
        <4> QED BY <4>1, <4>2, <3>2, <1>3 DEF Placed
      <3> QED BY <3>1, <3>2
    <2> QED BY <2>2, <1>3 DEF View
  <1> QED BY <1>3, <1>6, <1>7, <1>8

(* y is what is left of x outside of [b, e). *)
LeftOf(y, x, b, e) == \/ ~Overlaps(x, b, e) /\ y = x
                      \/ Overlaps(x, b, e) /\ x.b < b /\ y = LowerPart(x, b)
                      \/ Overlaps(x, b, e) /\ e < x.e /\ y = UpperPart(x, e)

(* Outside has just the parts that are left of the areas. *)
LEMMA OutsideLeft ==
    ASSUME NEW T, NEW b, NEW e
    PROVE  \A y : y \in Outside(T, b, e) <=> \E x \in T : LeftOf(y, x, b, e)
  BY DEF Outside, Overlapping, LeftOf

(* A part that is left lies outside of the range, in its area, and says of *)
(* its pages the same.                                                     *)
LEMMA LeftFacts ==
    ASSUME NEW x, IsRange(x), NEW b \in Nat, NEW e \in Nat, b < e, NEW y, LeftOf(y, x, b, e)
    PROVE  /\ IsRange(y) /\ x.b <= y.b /\ y.e <= x.e /\ (y.e <= b \/ e <= y.b)
           /\ PagesOf(y) \subseteq PagesOf(x)
           /\ \A p \in PagesOf(y) : View(y, p) = View(x, p)
  <1>1. x.b \in Nat /\ x.e \in Nat /\ x.b < x.e
    BY DEF IsRange, VmArea
  <1>2. CASE ~Overlaps(x, b, e) /\ y = x
    BY <1>1, <1>2 DEF Overlaps
  <1>3. CASE Overlaps(x, b, e) /\ x.b < b /\ y = LowerPart(x, b)
    <2>1. b <= x.e
      BY <1>1, <1>3 DEF Overlaps
    <2> QED BY <1>1, <1>3, <2>1, LowerFacts
  <1>4. CASE Overlaps(x, b, e) /\ e < x.e /\ y = UpperPart(x, e)
    <2>1. x.b <= e
      BY <1>1, <1>4 DEF Overlaps
    <2>2. /\ IsRange(y) /\ PagesOf(y) = {p \in PagesOf(x) : e <= p} /\ y.b = e /\ y.e = x.e
          /\ \A p \in PagesOf(x) : e <= p => View(y, p) = View(x, p)
      BY <1>1, <1>4, <2>1, UpperFacts
    <2> QED BY <1>1, <2>1, <2>2
  <1> QED BY <1>2, <1>3, <1>4 DEF LeftOf

(* _vma_bkeep_remove: the tree without a range says of the other pages what*)
(* it said before.                                                         *)
LEMMA OutsideFacts ==
    ASSUME NEW T, TreeOK(T), NEW b \in Nat, NEW e \in Nat, b < e
    PROVE  /\ TreeOK(Outside(T, b, e))
           /\ \A y \in Outside(T, b, e) : y.e <= b \/ e <= y.b
           /\ \A p : Views(Outside(T, b, e), p) = IF p \in b .. e - 1 THEN {} ELSE Views(T, p)
           /\ \A x \in T : PagesOf(x) \cap (b .. e - 1) = {} => x \in Outside(T, b, e)
  <1> DEFINE O == Outside(T, b, e)
  <1>0. \A y : y \in O <=> \E x \in T : LeftOf(y, x, b, e)
    BY OutsideLeft
  <1> HIDE DEF O
  <1>1. \A x \in T : IsRange(x) /\ x.b \in Nat /\ x.e \in Nat /\ x.b < x.e
    BY DEF TreeOK, IsRange, VmArea
  <1>2. ASSUME NEW y \in O
        PROVE  /\ IsRange(y) /\ y.b \in Nat /\ y.e \in Nat /\ (y.e <= b \/ e <= y.b)
    <2>1. PICK x \in T : LeftOf(y, x, b, e)
      BY <1>0
    <2>2. IsRange(y) /\ (y.e <= b \/ e <= y.b)
      BY <1>1, <2>1, LeftFacts
    <2> QED BY <2>2 DEF IsRange, VmArea
  <1>3. ASSUME NEW y1 \in O, NEW y2 \in O, y1 # y2 PROVE y1.e <= y2.b \/ y2.e <= y1.b
    <2>1. PICK x1 \in T : LeftOf(y1, x1, b, e)
      BY <1>0
    <2>2. PICK x2 \in T : LeftOf(y2, x2, b, e)
      BY <1>0
    <2>3. /\ x1.b <= y1.b /\ y1.e <= x1.e /\ x2.b <= y2.b /\ y2.e <= x2.e
          /\ y1.b \in Nat /\ y1.e \in Nat /\ y2.b \in Nat /\ y2.e \in Nat
      BY <1>1, <1>2, <2>1, <2>2, LeftFacts
    <2>4. CASE x1 # x2
      <3>1. x1.e <= x2.b \/ x2.e <= x1.b
        BY <2>4 DEF TreeOK
      <3> QED BY <3>1, <2>3, <1>1
    <2>5. CASE x1 = x2
      <3>1. Overlaps(x1, b, e)
        BY <2>1, <2>2, <2>5, <1>3 DEF LeftOf
      <3>2. b <= x1.e /\ x1.b <= e
        BY <3>1, <1>1 DEF Overlaps
      <3>3. x1.b < b => LowerPart(x1, b).e = b /\ LowerPart(x1, b).b = x1.b
        BY <3>2, <1>1, LowerFacts
      <3>4. e < x1.e => UpperPart(x1, e).b = e /\ UpperPart(x1, e).e = x1.e
        BY <3>2, <1>1, UpperFacts
      <3>5. \/ y1 = LowerPart(x1, b) /\ y2 = UpperPart(x1, e) /\ x1.b < b /\ e < x1.e
            \/ y2 = LowerPart(x1, b) /\ y1 = UpperPart(x1, e) /\ x1.b < b /\ e < x1.e
        BY <3>1, <2>1, <2>2, <2>5, <1>3 DEF LeftOf
      <3> QED BY <3>3, <3>4, <3>5
    <2> QED BY <2>4, <2>5
  <1>4. ASSUME NEW p, p \in b .. e - 1 PROVE Views(O, p) = {}
    <2>1. ASSUME NEW y \in O, p \in PagesOf(y) PROVE FALSE
      BY <1>2, <1>4, <2>1 DEF PagesOf
    <2> QED BY <2>1 DEF Views
  <1>5. ASSUME NEW p, p \notin b .. e - 1 PROVE Views(O, p) = Views(T, p)
    <2>1. ASSUME NEW y \in O, p \in PagesOf(y)
          PROVE  \E x \in T : p \in PagesOf(x) /\ View(y, p) = View(x, p)
      <3>1. PICK x \in T : LeftOf(y, x, b, e)
        BY <1>0
      <3> QED BY <3>1, <2>1, <1>1, LeftFacts
    <2>2. ASSUME NEW x \in T, p \in PagesOf(x)
          PROVE  \E y \in O : p \in PagesOf(y) /\ View(y, p) = View(x, p)
      <3>0. IsRange(x) /\ p \in Int /\ x.b <= p /\ p < x.e /\ x.b \in Nat /\ x.e \in Nat
        BY <2>2, <1>1, RangePages
      <3>1. CASE ~Overlaps(x, b, e)
        <4>1. x \in O
          BY <1>0, <3>1 DEF LeftOf
        <4> QED BY <4>1, <2>2
      <3>2. CASE Overlaps(x, b, e) /\ p < b
        <4>1. x.b < b /\ b <= x.e
          BY <3>0, <3>2 DEF Overlaps
        <4>2. LowerPart(x, b) \in O
          BY <1>0, <3>2, <4>1 DEF LeftOf
        <4>3. p \in PagesOf(LowerPart(x, b)) /\ View(LowerPart(x, b), p) = View(x, p)
          BY <2>2, <3>0, <3>2, <4>1, LowerFacts
        <4> QED BY <4>2, <4>3
      <3>3. CASE Overlaps(x, b, e) /\ e <= p
        <4>1. x.b <= e /\ e < x.e
          BY <3>0, <3>3 DEF Overlaps
        <4>2. UpperPart(x, e) \in O
          BY <1>0, <3>3, <4>1 DEF LeftOf
        <4>3. p \in PagesOf(UpperPart(x, e)) /\ View(UpperPart(x, e), p) = View(x, p)
          BY <2>2, <3>0, <3>3, <4>1, UpperFacts
        <4> QED BY <4>2, <4>3
      <3> QED BY <3>0, <3>1, <3>2, <3>3, <1>5
    <2> QED BY <2>1, <2>2 DEF Views
  <1>6. ASSUME NEW x \in T, PagesOf(x) \cap (b .. e - 1) = {} PROVE x \in O
    <2>1. ~Overlaps(x, b, e)
      BY <1>1, <1>6, OverlapsPage
    <2> QED BY <2>1, <1>0 DEF LeftOf
  <1> QED BY <1>2, <1>3, <1>4, <1>5, <1>6 DEF TreeOK, O

(* bkeep_remove_tmp_vma: the tree without one of its areas. *)
LEMMA RemoveFacts ==
    ASSUME NEW T, TreeOK(T), NEW a \in T
    PROVE  /\ TreeOK(T \ {a})
           /\ \A p : Views(T \ {a}, p) = IF p \in PagesOf(a) THEN {} ELSE Views(T, p)
           /\ \A y \in T \ {a} : y.e <= a.b \/ a.e <= y.b
  <1>1. \A x \in T : x.b \in Nat /\ x.e \in Nat /\ x.b < x.e
    BY DEF TreeOK, IsRange, VmArea
  <1>2. ASSUME NEW y \in T \ {a} PROVE y.e <= a.b \/ a.e <= y.b
    BY <1>1 DEF TreeOK
  <1>3. ASSUME NEW y \in T \ {a}, NEW p, p \in PagesOf(y) PROVE p \notin PagesOf(a)
    <2>1. y.e <= a.b \/ a.e <= y.b
      BY <1>2
    <2>2. y.b \in Nat /\ y.e \in Nat /\ a.b \in Nat /\ a.e \in Nat
      BY <1>1
    <2> QED BY <2>1, <2>2, <1>3 DEF PagesOf
  <1>4. \A p : Views(T \ {a}, p) = IF p \in PagesOf(a) THEN {} ELSE Views(T, p)
    BY <1>3, Zenon DEF Views
  <1> QED BY <1>2, <1>4 DEF TreeOK

(* The tree with one more area, in a free place. *)
LEMMA AddFacts ==
    ASSUME NEW T, TreeOK(T), NEW a, IsRange(a), \A y \in T : y.e <= a.b \/ a.e <= y.b
    PROVE  /\ TreeOK(T \cup {a})
           /\ \A p : p \in PagesOf(a) => Views(T \cup {a}, p) = {View(a, p)}
           /\ \A p : p \notin PagesOf(a) => Views(T \cup {a}, p) = Views(T, p)
  <1>1. TreeOK(T \cup {a})
    BY DEF TreeOK
  <1>2. \A x \in T \cup {a} : x.b \in Nat /\ x.e \in Nat /\ x.b < x.e
    BY DEF TreeOK, IsRange, VmArea
  <1>3. ASSUME NEW y \in T, NEW p, p \in PagesOf(y) PROVE p \notin PagesOf(a)
    BY <1>2, <1>3 DEF PagesOf
  <1>4. ASSUME NEW p, p \in PagesOf(a) PROVE Views(T \cup {a}, p) = {View(a, p)}
    BY <1>3, <1>4, Zenon DEF Views
  <1>5. ASSUME NEW p, p \notin PagesOf(a) PROVE Views(T \cup {a}, p) = Views(T, p)
    BY <1>5, Zenon DEF Views
  <1> QED BY <1>1, <1>4, <1>5

(* The tree after a range has got one area. *)
Put(T, a) == Outside(T, a.b, a.e) \cup {a}

(* The pages of the new area are the new one's; the others are as before. *)
LEMMA PutFacts ==
    ASSUME NEW T, TreeOK(T), NEW a, IsRange(a)
    PROVE  /\ TreeOK(Put(T, a)) /\ a \in Put(T, a)
           /\ \A p : p \in PagesOf(a) => Views(Put(T, a), p) = {View(a, p)}
           /\ \A p : p \notin PagesOf(a) => Views(Put(T, a), p) = Views(T, p)
           /\ \A x \in T : PagesOf(x) \cap PagesOf(a) = {} => x \in Put(T, a)
  <1>1. a.b \in Nat /\ a.e \in Nat /\ a.b < a.e /\ PagesOf(a) = a.b .. a.e - 1
    BY DEF IsRange, VmArea, PagesOf
  <1> DEFINE O == Outside(T, a.b, a.e)
  <1>2. /\ TreeOK(O)
        /\ \A y \in O : y.e <= a.b \/ a.e <= y.b
        /\ \A p : Views(O, p) = IF p \in PagesOf(a) THEN {} ELSE Views(T, p)
        /\ \A x \in T : PagesOf(x) \cap PagesOf(a) = {} => x \in O
    BY <1>1, OutsideFacts
  <1> HIDE DEF O
  <1>3. /\ TreeOK(O \cup {a})
        /\ \A p : p \in PagesOf(a) => Views(O \cup {a}, p) = {View(a, p)}
        /\ \A p : p \notin PagesOf(a) => Views(O \cup {a}, p) = Views(O, p)
    BY <1>2, AddFacts
  <1>4. Put(T, a) = O \cup {a}
    BY DEF Put, O
  <1> QED BY <1>2, <1>3, <1>4

(* The larger of two numbers. *)
LEMMA MaxOfTwo == ASSUME NEW x \in Nat, NEW y \in Nat
                  PROVE  Max({x, y}) = IF x >= y THEN x ELSE y
  <1>1. \E z \in {x, y} : \A w \in {x, y} : z >= w
    OBVIOUS
  <1>2. Max({x, y}) \in {x, y} /\ \A w \in {x, y} : Max({x, y}) >= w
    BY <1>1 DEF Max
  <1> QED BY <1>2

(* The smaller of two numbers. *)
LEMMA MinOfTwo == ASSUME NEW x \in Nat, NEW y \in Nat
                  PROVE  Min({x, y}) = IF x <= y THEN x ELSE y
  <1>1. \E z \in {x, y} : \A w \in {x, y} : z <= w
    OBVIOUS
  <1>2. Min({x, y}) \in {x, y} /\ \A w \in {x, y} : Min({x, y}) <= w
    BY <1>1 DEF Min
  <1> QED BY <1>2

(* The part of x inside of [b, e). *)
Cut(x, b, e) == LowerPart(UpperPart(x, Max({x.b, b})), Min({x.e, e}))

(* An area cut at both ends says of its pages what the area said. *)
LEMMA CutFacts ==
    ASSUME NEW x, IsRange(x), NEW b \in Nat, NEW e \in Nat, b < e, Overlaps(x, b, e)
    PROVE  /\ IsRange(Cut(x, b, e)) /\ PagesOf(Cut(x, b, e)) = PagesOf(x) \cap (b .. e - 1)
           /\ \A p \in PagesOf(Cut(x, b, e)) : View(Cut(x, b, e), p) = View(x, p)
           /\ b <= Cut(x, b, e).b /\ Cut(x, b, e).e <= e
           /\ x.b <= Cut(x, b, e).b /\ Cut(x, b, e).e <= x.e
  <1> DEFINE lo == Max({x.b, b})
             hi == Min({x.e, e})
             up == UpperPart(x, lo)
  <1>1. x.b \in Nat /\ x.e \in Nat /\ x.b < x.e /\ x.b < e /\ b < x.e
    BY DEF IsRange, VmArea, Overlaps
  <1>2. lo = IF x.b >= b THEN x.b ELSE b
    BY <1>1, MaxOfTwo
  <1>3. hi = IF x.e <= e THEN x.e ELSE e
    BY <1>1, MinOfTwo
  <1>c. Cut(x, b, e) = LowerPart(up, hi)
    BY DEF Cut
  <1> HIDE DEF lo, hi
  <1>4. /\ lo \in Nat /\ hi \in Nat /\ x.b <= lo /\ b <= lo /\ lo < hi /\ hi <= x.e /\ hi <= e /\ lo < x.e
        /\ \A p \in Int : lo <= p /\ p < hi <=> x.b <= p /\ p < x.e /\ b <= p /\ p < e
    BY <1>1, <1>2, <1>3
  <1>5. /\ IsRange(up) /\ PagesOf(up) = {p \in PagesOf(x) : lo <= p} /\ up.b = lo /\ up.e = x.e
        /\ \A p \in PagesOf(x) : lo <= p => View(up, p) = View(x, p)
    BY <1>4, UpperFacts
  <1> HIDE DEF up
  <1>6. /\ IsRange(LowerPart(up, hi)) /\ PagesOf(LowerPart(up, hi)) = {p \in PagesOf(up) : p < hi}
        /\ LowerPart(up, hi).b = lo /\ LowerPart(up, hi).e = hi
        /\ \A p \in PagesOf(up) : View(LowerPart(up, hi), p) = View(up, p)
    BY <1>4, <1>5, LowerFacts
  <1>7. PagesOf(Cut(x, b, e)) = PagesOf(x) \cap (b .. e - 1)
    <2>1. PagesOf(Cut(x, b, e)) = {p \in PagesOf(x) : lo <= p /\ p < hi}
      BY <1>5, <1>6, <1>c
    <2>2. \A p \in PagesOf(x) : p \in Int
      BY DEF PagesOf
    <2> QED BY <2>1, <2>2, <1>1, <1>4 DEF PagesOf
  <1>8. \A p \in PagesOf(Cut(x, b, e)) : View(Cut(x, b, e), p) = View(x, p)
    BY <1>5, <1>6, <1>c
  <1> QED BY <1>4, <1>6, <1>7, <1>8, <1>c

(* Inside has just the cut areas. *)
LEMMA InsideCut ==
    ASSUME NEW T, NEW b, NEW e
    PROVE  \A y : y \in Inside(T, b, e) <=> \E x \in T : Overlaps(x, b, e) /\ y = Cut(x, b, e)
  BY DEF Inside, Overlapping, Cut

(* The parts inside of a range say of its pages what the tree says, and of *)
(* no others.                                                              *)
LEMMA InsideFacts ==
    ASSUME NEW T, TreeOK(T), NEW b \in Nat, NEW e \in Nat, b < e
    PROVE  /\ TreeOK(Inside(T, b, e))
           /\ \A y \in Inside(T, b, e) : b <= y.b /\ y.e <= e
           /\ \A p \in b .. e - 1 : Views(Inside(T, b, e), p) = Views(T, p)
           /\ \A p : p \notin b .. e - 1 => Views(Inside(T, b, e), p) = {}
  <1> DEFINE I == Inside(T, b, e)
  <1>0. \A y : y \in I <=> \E x \in T : Overlaps(x, b, e) /\ y = Cut(x, b, e)
    BY InsideCut
  <1> HIDE DEF I
  <1>1. \A x \in T : IsRange(x) /\ x.b \in Nat /\ x.e \in Nat /\ x.b < x.e
    BY DEF TreeOK, IsRange, VmArea
  <1>2. ASSUME NEW y \in I
        PROVE  \E x \in T : /\ IsRange(y) /\ y.b \in Nat /\ y.e \in Nat /\ y.b < y.e
                            /\ y = Cut(x, b, e) /\ Overlaps(x, b, e)
                            /\ b <= y.b /\ y.e <= e /\ x.b <= y.b /\ y.e <= x.e
    <2>1. PICK x \in T : Overlaps(x, b, e) /\ y = Cut(x, b, e)
      BY <1>0
    <2>2. IsRange(y) /\ b <= y.b /\ y.e <= e /\ x.b <= y.b /\ y.e <= x.e
      BY <1>1, <2>1, CutFacts
    <2>3. y.b \in Nat /\ y.e \in Nat /\ y.b < y.e
      BY <2>2 DEF IsRange, VmArea
    <2> QED BY <2>1, <2>2, <2>3
  <1>3. ASSUME NEW y1 \in I, NEW y2 \in I, y1 # y2 PROVE y1.e <= y2.b \/ y2.e <= y1.b
    <2>1. PICK x1 \in T : x1.b <= y1.b /\ y1.e <= x1.e /\ y1 = Cut(x1, b, e)
      BY <1>2
    <2>2. PICK x2 \in T : x2.b <= y2.b /\ y2.e <= x2.e /\ y2 = Cut(x2, b, e)
      BY <1>2
    <2>3. x1.e <= x2.b \/ x2.e <= x1.b
      BY <1>3, <2>1, <2>2 DEF TreeOK
    <2>4. y1.b \in Nat /\ y1.e \in Nat /\ y2.b \in Nat /\ y2.e \in Nat
      BY <1>2
    <2> QED BY <1>1, <2>1, <2>2, <2>3, <2>4
  <1>4. ASSUME NEW p \in b .. e - 1 PROVE Views(I, p) = Views(T, p)
    <2>1. ASSUME NEW y \in I, p \in PagesOf(y)
          PROVE  \E x \in T : p \in PagesOf(x) /\ View(y, p) = View(x, p)
      <3>1. PICK x \in T : Overlaps(x, b, e) /\ y = Cut(x, b, e)
        BY <1>0
      <3>2. /\ PagesOf(y) = PagesOf(x) \cap (b .. e - 1)
            /\ \A q \in PagesOf(y) : View(y, q) = View(x, q)
        BY <3>1, <1>1, CutFacts
      <3> QED BY <3>2, <2>1
    <2>2. ASSUME NEW x \in T, p \in PagesOf(x)
          PROVE  \E y \in I : p \in PagesOf(y) /\ View(y, p) = View(x, p)
      <3>1. Overlaps(x, b, e)
        BY <2>2, <1>1, OverlapsPage
      <3>2. Cut(x, b, e) \in I
        BY <3>1, <1>0
      <3>3. /\ PagesOf(Cut(x, b, e)) = PagesOf(x) \cap (b .. e - 1)
            /\ \A q \in PagesOf(Cut(x, b, e)) : View(Cut(x, b, e), q) = View(x, q)
        BY <3>1, <1>1, CutFacts
      <3> QED BY <3>2, <3>3, <2>2
    <2> QED BY <2>1, <2>2 DEF Views
  <1>5. ASSUME NEW p, p \notin b .. e - 1 PROVE Views(I, p) = {}
    <2>1. ASSUME NEW y \in I, p \in PagesOf(y) PROVE FALSE
      <3>1. y.b \in Nat /\ y.e \in Nat /\ b <= y.b /\ y.e <= e
        BY <1>2
      <3> QED BY <3>1, <2>1, <1>5 DEF PagesOf
    <2> QED BY <2>1 DEF Views
  <1>6. TreeOK(I)
    BY <1>2, <1>3 DEF TreeOK
  <1>7. \A y \in I : b <= y.b /\ y.e <= e
    BY <1>2
  <1> QED BY <1>4, <1>5, <1>6, <1>7 DEF I

(* dump_vmas_in_range lists every page of the range, if the user has       *)
(* mapped all of it.                                                       *)
DumpOf(T, b, e) == {a \in Inside(T, b, e) : ~a.internal /\ ~a.unmapped}

(* dump_vmas_in_range: where the user has mapped a whole range, its areas  *)
(* cover it.                                                               *)
LEMMA DumpFacts ==
    ASSUME NEW T, TreeOK(T), NEW b \in Nat, NEW e \in Nat, b < e, AllUser(T, b .. e - 1)
    PROVE  TodoOK(DumpOf(T, b, e)) /\ TodoPages(DumpOf(T, b, e)) = b .. e - 1
  <1> DEFINE I == Inside(T, b, e)
             D == DumpOf(T, b, e)
  <1>1. /\ TreeOK(I) /\ \A y \in I : b <= y.b /\ y.e <= e
        /\ \A p \in b .. e - 1 : Views(I, p) = Views(T, p)
    BY InsideFacts
  <1>d. \A a : a \in D <=> a \in I /\ ~a.internal /\ ~a.unmapped
    BY DEF DumpOf
  <1> HIDE DEF I, D
  <1>2. \A a \in I : IsRange(a) /\ a.b \in Nat /\ a.e \in Nat /\ a.b < a.e
    BY <1>1 DEF TreeOK, IsRange, VmArea
  <1>3. ASSUME NEW x \in D, NEW y \in D, x # y PROVE PagesOf(x) \cap PagesOf(y) = {}
    <2>1. x.e <= y.b \/ y.e <= x.b
      BY <1>1, <1>3, <1>d DEF TreeOK
    <2>2. x.b \in Nat /\ x.e \in Nat /\ y.b \in Nat /\ y.e \in Nat
      BY <1>2, <1>d
    <2> QED BY <2>1, <2>2 DEF PagesOf
  <1>4. TodoOK(D)
    BY <1>2, <1>3, <1>d DEF TodoOK
  <1>5. ASSUME NEW a \in D, NEW p \in PagesOf(a) PROVE p \in b .. e - 1
    <2>1. a.b \in Nat /\ a.e \in Nat /\ b <= a.b /\ a.e <= e
      BY <1>1, <1>2, <1>d
    <2> QED BY <2>1 DEF PagesOf
  <1>6. ASSUME NEW p \in b .. e - 1 PROVE \E a \in D : p \in PagesOf(a)
    <2>1. Views(I, p) # {} /\ \A v \in Views(I, p) : ~v.internal /\ ~v.unmapped
      BY <1>1 DEF AllUser, User
    <2>2. PICK a \in I : p \in PagesOf(a) /\ View(a, p) \in Views(I, p)
      BY <2>1 DEF Views
    <2>3. ~a.internal /\ ~a.unmapped
      BY <2>1, <2>2 DEF View
    <2> QED BY <2>2, <2>3, <1>d
  <1>7. TodoPages(D) = b .. e - 1
    BY <1>5, <1>6 DEF TodoPages
  <1> QED BY <1>4, <1>7 DEF D

(* mprotect *)
Protected(T, b, e, prot) == Outside(T, b, e) \cup {[a EXCEPT !.prot = prot] : a \in Inside(T, b, e)}

(* A view with another protection. *)
Reprot(v, prot) == [internal |-> v.internal, unmapped |-> v.unmapped,
                    at |-> [prot |-> prot, page |-> v.at.page, old |-> v.at.old]]

(* _vma_bkeep_change: the pages of the range get the protection and keep   *)
(* the rest, the others are as before.                                     *)
LEMMA ProtectedFacts ==
    ASSUME NEW T, TreeOK(T), NEW b \in Nat, NEW e \in Nat, b < e, NEW prot \in Prots
    PROVE  /\ TreeOK(Protected(T, b, e, prot))
           /\ \A p : p \notin b .. e - 1 => Views(Protected(T, b, e, prot), p) = Views(T, p)
           /\ \A p \in b .. e - 1 : Views(Protected(T, b, e, prot), p)
                                     = {Reprot(v, prot) : v \in Views(T, p)}
           /\ \A x \in T : PagesOf(x) \cap (b .. e - 1) = {} => x \in Protected(T, b, e, prot)
  <1> DEFINE O == Outside(T, b, e)
             I == Inside(T, b, e)
             R(a) == [a EXCEPT !.prot = prot]
             N == {R(a) : a \in I}
  <1>1. /\ TreeOK(O) /\ \A y \in O : y.e <= b \/ e <= y.b
        /\ \A p : Views(O, p) = IF p \in b .. e - 1 THEN {} ELSE Views(T, p)
        /\ \A x \in T : PagesOf(x) \cap (b .. e - 1) = {} => x \in O
    BY OutsideFacts
  <1>2. /\ TreeOK(I)
        /\ \A y \in I : b <= y.b /\ y.e <= e
        /\ \A p \in b .. e - 1 : Views(I, p) = Views(T, p)
        /\ \A p : p \notin b .. e - 1 => Views(I, p) = {}
    BY InsideFacts
  <1>n. \A y : y \in N <=> \E a \in I : y = R(a)
    OBVIOUS
  <1>p. Protected(T, b, e, prot) = O \cup N
    BY DEF Protected
  <1>3. ASSUME NEW a \in I
        PROVE  /\ IsRange(R(a)) /\ R(a).b = a.b /\ R(a).e = a.e
               /\ R(a).b \in Nat /\ R(a).e \in Nat /\ R(a).b < R(a).e /\ PagesOf(R(a)) = PagesOf(a)
               /\ \A p : View(R(a), p) = Reprot(View(a, p), prot)
    <2>1. a \in VmArea /\ a.b < a.e /\ a.e <= VmEnd
      BY <1>2 DEF TreeOK, IsRange
    <2>2. /\ R(a) \in VmArea /\ R(a).b = a.b /\ R(a).e = a.e
          /\ R(a).internal = a.internal /\ R(a).unmapped = a.unmapped
          /\ R(a).prot = prot /\ R(a).off = a.off
      BY <2>1 DEF VmArea
    <2>3. a.b \in Nat /\ a.e \in Nat
      BY <2>1 DEF VmArea
    <2> HIDE DEF R
    <2>4. ASSUME NEW p PROVE View(R(a), p) = Reprot(View(a, p), prot)
      <3> DEFINE q == IF a.off = -1 THEN -1 ELSE a.off + (p - a.b)
      <3>1. Placed(a, p) = [prot |-> a.prot, page |-> q, old |-> FALSE]
        BY DEF Placed
      <3>2. Placed(R(a), p) = [prot |-> prot, page |-> q, old |-> FALSE]
        BY <2>2 DEF Placed
      <3> HIDE DEF q
      <3>3. [prot |-> prot, page |-> Placed(a, p).page, old |-> Placed(a, p).old] = Placed(R(a), p)
        BY <3>1, <3>2
      <3>4. View(a, p) = [internal |-> a.internal, unmapped |-> a.unmapped, at |-> Placed(a, p)]
        BY DEF View
      <3>5. View(R(a), p) = [internal |-> a.internal, unmapped |-> a.unmapped, at |-> Placed(R(a), p)]
        BY <2>2 DEF View
      <3> QED BY <3>3, <3>4, <3>5 DEF Reprot
    <2>5. PagesOf(R(a)) = PagesOf(a)
      BY <2>2 DEF PagesOf
    <2> QED BY <2>1, <2>2, <2>3, <2>4, <2>5 DEF IsRange
  <1> HIDE DEF O, I, R, N
  <1>4. ASSUME NEW y \in N PROVE IsRange(y) /\ b <= y.b /\ y.e <= e /\ y.b \in Nat /\ y.e \in Nat
    BY <1>2, <1>3, <1>n
  <1>5. ASSUME NEW y1 \in N, NEW y2 \in N, y1 # y2 PROVE y1.e <= y2.b \/ y2.e <= y1.b
    <2>1. PICK a1 \in I : y1 = R(a1)
      BY <1>n
    <2>2. PICK a2 \in I : y2 = R(a2)
      BY <1>n
    <2>3. a1.e <= a2.b \/ a2.e <= a1.b
      BY <1>2, <1>5, <2>1, <2>2 DEF TreeOK
    <2> QED BY <2>1, <2>2, <2>3, <1>3
  <1>6. ASSUME NEW y1 \in O, NEW y2 \in N PROVE y1.e <= y2.b \/ y2.e <= y1.b
    <2>1. y1.b \in Nat /\ y1.e \in Nat
      BY <1>1 DEF TreeOK, IsRange, VmArea
    <2> QED BY <2>1, <1>1, <1>4
  <1>7. TreeOK(O \cup N)
    BY <1>1, <1>4, <1>5, <1>6 DEF TreeOK
  <1>8. ASSUME NEW p, p \notin b .. e - 1 PROVE Views(O \cup N, p) = Views(T, p)
    <2>1. ASSUME NEW y \in N PROVE p \notin PagesOf(y)
      BY <1>4, <1>8 DEF PagesOf
    <2>2. Views(O \cup N, p) = Views(O, p)
      BY <2>1, Zenon DEF Views
    <2> QED BY <2>2, <1>1, <1>8
  <1>9. ASSUME NEW p \in b .. e - 1
        PROVE  Views(O \cup N, p) = {Reprot(v, prot) : v \in Views(T, p)}
    <2>1. \A y \in O : p \notin PagesOf(y)
      <3>1. Views(O, p) = {}
        BY <1>1
      <3> QED BY <3>1 DEF Views
    <2>2. ASSUME NEW w, w \in Views(O \cup N, p) PROVE \E v \in Views(I, p) : w = Reprot(v, prot)
      <3>1. PICK y \in O \cup N : p \in PagesOf(y) /\ w = View(y, p)
        BY <2>2 DEF Views
      <3>2. PICK a \in I : y = R(a)
        BY <3>1, <2>1, <1>n
      <3>3. p \in PagesOf(a) /\ w = Reprot(View(a, p), prot)
        BY <3>1, <3>2, <1>3
      <3> QED BY <3>3 DEF Views
    <2>3. ASSUME NEW v \in Views(I, p) PROVE Reprot(v, prot) \in Views(O \cup N, p)
      <3>1. PICK a \in I : p \in PagesOf(a) /\ v = View(a, p)
        BY DEF Views
      <3>2. R(a) \in O \cup N /\ p \in PagesOf(R(a)) /\ Reprot(v, prot) = View(R(a), p)
        BY <3>1, <1>3, <1>n
      <3> QED BY <3>2 DEF Views
    <2>4. Views(I, p) = Views(T, p)
      BY <1>2
    <2> QED BY <2>2, <2>3, <2>4
  <1> QED BY <1>1, <1>7, <1>8, <1>9, <1>p

(* The flags of a view are Boolean. *)
LEMMA ViewsBool ==
    ASSUME NEW T, TreeOK(T), NEW p, NEW v \in Views(T, p)
    PROVE  v.internal \in BOOLEAN /\ v.unmapped \in BOOLEAN
  <1>1. PICK a \in T : v = View(a, p)
    BY DEF Views
  <1>2. a.internal \in BOOLEAN /\ a.unmapped \in BOOLEAN
    BY DEF TreeOK, IsRange, VmArea
  <1> QED BY <1>1, <1>2 DEF View

(* Whether an area in a range keeps a call from removing it shows in the   *)
(* pages.                                                                  *)
LEMMA RefusedViews ==
    ASSUME NEW b \in Nat, NEW e \in Nat, b < e, TreeOK(tree), NEW i \in BOOLEAN,
           \A p \in b .. e - 1 : \A v \in Views(tree, p) : v.internal = i
    PROVE  ~Refused(b, e, i)
  <1>1. ASSUME NEW a \in tree, Overlaps(a, b, e) PROVE a.internal = i
    <2>1. IsRange(a)
      BY DEF TreeOK
    <2>2. PICK p \in b .. e - 1 : p \in PagesOf(a)
      BY <1>1, <2>1, OverlapsPage
    <2>3. View(a, p) \in Views(tree, p)
      BY <2>2 DEF Views
    <2>4. View(a, p).internal = i
      BY <2>2, <2>3
    <2> QED BY <2>4 DEF View
  <1> QED BY <1>1 DEF Refused, Overlapping

-----------------------------------------------------------------------------
(* What a step of one thread leaves of the others *)

(* The temporary area covers the pages of the area it stands for. *)
LEMMA TmpFacts ==
    ASSUME NEW a, IsRange(a)
    PROVE  /\ IsRange(Tmp(a)) /\ PagesOf(Tmp(a)) = PagesOf(a) /\ Tmp(a).b = a.b /\ Tmp(a).e = a.e
           /\ Tmp(a).internal = TRUE /\ Tmp(a).unmapped = TRUE
           /\ \A p : View(Tmp(a), p).internal = TRUE /\ View(Tmp(a), p).unmapped = TRUE
  <1>1. a.b \in Nat /\ a.e \in Nat /\ a.b < a.e /\ a.e <= VmEnd
    BY DEF IsRange, VmArea
  <1>2. Tmp(a) \in VmArea /\ Tmp(a).b = a.b /\ Tmp(a).e = a.e
    BY <1>1 DEF Tmp, Area, VmArea, Prots
  <1>3. Tmp(a).internal = TRUE /\ Tmp(a).unmapped = TRUE
    BY DEF Tmp, Area
  <1>4. \A p : View(Tmp(a), p).internal = TRUE /\ View(Tmp(a), p).unmapped = TRUE
    BY <1>3 DEF View
  <1>5. PagesOf(Tmp(a)) = PagesOf(a)
    BY <1>2 DEF PagesOf
  <1> QED BY <1>1, <1>2, <1>3, <1>4, <1>5 DEF IsRange

(* Nothing changes at the pages of S. *)
Same(T, H, T2, H2, S) == /\ \A p \in S : Views(T2, p) = Views(T, p) /\ H2[p] = H[p]
                         /\ \A x \in T : PagesOf(x) \subseteq S => x \in T2

(* Nothing changes but at the pages of W. *)
Changes(T, H, T2, H2, W) == /\ \A p : p \notin W => Views(T2, p) = Views(T, p)
                            /\ \A p \in Pages : p \notin W => H2[p] = H[p]
                            /\ \A x \in T : PagesOf(x) \cap W = {} => x \in T2

(* Pages apart from those that change stay the same. *)
LEMMA ChangesSame ==
    ASSUME NEW T, NEW H, NEW T2, NEW H2, NEW W, NEW S, Changes(T, H, T2, H2, W), S \cap W = {},
           S \subseteq Pages
    PROVE  Same(T, H, T2, H2, S)
  BY DEF Changes, Same

(* A call without brk_lock does not depend on pages it does not work on. *)
LEMMA OpFrame ==
    ASSUME NEW T, NEW H, NEW T2, NEW H2, NEW S, NEW op, OpOK(T, H, op),
           Same(T, H, T2, H2, S), PendingOf(op) \subseteq S
    PROVE  OpOK(T2, H2, op)
  <1>1. /\ PagesOf(op.new) \subseteq S /\ TodoPages(op.todo) \subseteq S
        /\ op.pc \in {"alloc", "free", "protect", "remove_tmp", "pal_free"} => PagesOf(op.area) \subseteq S
    BY DEF PendingOf
  <1>2. ASSUME NEW Q, Q \subseteq S
        PROVE  /\ AllUser(T, Q) => AllUser(T2, Q)
               /\ AllEmpty(H, Q) => AllEmpty(H2, Q)
               /\ Covered(T, Q) => Covered(T2, Q)
    BY <1>2 DEF AllUser, User, AllEmpty, Covered, Same
  <1>3. ASSUME NEW a, IsRange(a), PagesOf(a) \subseteq S
        PROVE  /\ AllViews(T, a) => AllViews(T2, a)
               /\ Tmp(a) \in T => Tmp(a) \in T2
    BY <1>3, TmpFacts DEF AllViews, Same
  <1>4. UnmapOK(T, op) => UnmapOK(T2, op)
    BY <1>1, <1>2 DEF UnmapOK
  <1>5. op.pc = "alloc" => AllocOK(T2, H2, op)
    BY <1>1, <1>2, <1>3 DEF OpOK, AllocOK
  <1>6. op.pc \in {"free", "remove_tmp"} => FreeOK(T2, op)
    BY <1>1, <1>3, <1>4 DEF OpOK, FreeOK, RemoveOK
  <1>7. op.pc = "remove_tmp" => RemoveOK(T2, H2, op)
    BY <1>1, <1>2, <1>6 DEF OpOK, RemoveOK
  <1>8. op.pc = "pal_free" => PalFreeOK(T2, H2, op)
    BY <1>1, <1>2 DEF OpOK, PalFreeOK
  <1>9. op.pc = "protect" => ProtectOK(T2, H2, op)
    BY <1>1 DEF OpOK, ProtectOK, Same
  <1>10. op.pc = "fixed_unmap" => FixedUnmapOK(T2, op)
    BY <1>1, <1>2 DEF OpOK, FixedUnmapOK
  <1>11. op.pc = "fixed_free" => FixedFreeOK(T2, H2, op)
    <2>1. PagesOf(op.new) \ TodoPages(op.todo) \subseteq S
      BY <1>1
    <2> QED BY <1>1, <1>2, <1>3, <2>1 DEF OpOK, FixedFreeOK, FixedOK
  <1>12. op.pc = "fixed_map" => FixedMapOK(T2, H2, op)
    BY <1>1, <1>2 DEF OpOK, FixedMapOK, Same
  <1> QED BY <1>4, <1>5, <1>6, <1>7, <1>8, <1>9, <1>10, <1>11, <1>12 DEF OpOK

(* A call with brk_lock depends on the heap only. *)
LEMMA BrkFrame ==
    ASSUME NEW T, NEW H, NEW T2, NEW H2, NEW S, NEW op, NEW cur, BrkOK(T, H, op, cur),
           Same(T, H, T2, H2, S), Heap \subseteq S
    PROVE  BrkOK(T2, H2, op, cur)
  <1>1. IsRange(op.area) /\ PagesOf(op.area) \subseteq Heap
    BY DEF BrkOK
  <1>2. op.area.b \in Nat /\ op.area.e \in Nat /\ op.area.b < op.area.e /\ op.area.b \in PagesOf(op.area)
    BY <1>1, RangePages DEF IsRange
  <1>3. op.area.b >= BrkStart
    BY <1>1, <1>2 DEF Heap
  <1>4. op.area.b .. BrkEnd - 1 \subseteq Heap /\ op.area.e .. BrkEnd - 1 \subseteq Heap
    BY <1>2, <1>3, VmAssumption DEF Heap
  <1>5. AllViews(T, op.area) => AllViews(T2, op.area)
    BY <1>1 DEF AllViews, Same
  <1>6. AllEmpty(H, PagesOf(op.area)) => AllEmpty(H2, PagesOf(op.area))
    BY <1>1 DEF AllEmpty, Same
  <1>7. ASSUME NEW l, l .. BrkEnd - 1 \subseteq Heap PROVE HeapFree(T, l) => HeapFree(T2, l)
    BY <1>7 DEF HeapFree, Same
  <1> QED BY <1>4, <1>5, <1>6, <1>7 DEF BrkOK

(* What a thread has does not depend on other pages. *)
LEMMA OwnFrame ==
    ASSUME NEW T, NEW H, NEW T2, NEW H2, NEW S, NEW op, NEW own, NEW s,
           Same(T, H, T2, H2, S), own \subseteq S, PagesOf(s) \subseteq S
    PROVE  /\ OwnOK(T, op, own, s) => OwnOK(T2, op, own, s)
           /\ SlabOK(T, s) => SlabOK(T2, s)
  <1>1. AllUser(T, own) => AllUser(T2, own)
    BY DEF AllUser, User, Same
  <1>2. AllViews(T, s) => AllViews(T2, s)
    BY DEF AllViews, Same
  <1> QED BY <1>1, <1>2 DEF OwnOK, SlabOK

(* The pages of the calls are in the tree. *)
LEMMA OpCovered ==
    ASSUME NEW T, NEW H, NEW op, OpOK(T, H, op), NEW own, NEW s, OwnOK(T, op, own, s), op \in VmOps
    PROVE  Covered(T, PendingOf(op))
  <1>1. ASSUME NEW S, AllUser(T, S) PROVE Covered(T, S)
    BY <1>1 DEF AllUser, User, Covered
  <1>2. ASSUME NEW a, IsRange(a), Tmp(a) \in T PROVE Covered(T, PagesOf(a))
    <2>1. \A p \in PagesOf(a) : View(Tmp(a), p) \in Views(T, p)
      BY <1>2, TmpFacts DEF Views
    <2> QED BY <2>1 DEF Covered
  <1>3. ASSUME NEW a, AllViews(T, a) PROVE Covered(T, PagesOf(a))
    BY <1>3 DEF AllViews, Covered
  <1>4. ASSUME op.new = NoArea PROVE PagesOf(op.new) = {}
    BY <1>4, NoAreaFacts
  <1>5. ASSUME op.todo = {} PROVE TodoPages(op.todo) = {}
    BY <1>5 DEF TodoPages
  <1>6. ASSUME UnmapOK(T, op) PROVE PagesOf(op.new) = {} /\ Covered(T, TodoPages(op.todo))
    BY <1>1, <1>4, <1>6 DEF UnmapOK
  <1>7. ASSUME PlainOK(op) PROVE PagesOf(op.new) = {} /\ TodoPages(op.todo) = {}
    BY <1>4, <1>5, <1>7 DEF PlainOK
  <1>8. /\ Covered(T, PagesOf(op.new)) /\ Covered(T, TodoPages(op.todo))
        /\ op.pc \in {"alloc", "free", "protect", "remove_tmp", "pal_free"} => Covered(T, PagesOf(op.area))
    <2>0. Covered(T, {}) /\ \A Q, R : Covered(T, R) /\ Q \subseteq R => Covered(T, Q)
      BY DEF Covered
    <2>1. CASE op.pc \in {"idle", "search", "alloc", "pal_free", "protect"}
      <3>1. PlainOK(op)
        BY <2>1 DEF OpOK, SearchOK, AllocOK, PalFreeOK, ProtectOK
      <3>2. op.pc = "alloc" => Covered(T, PagesOf(op.area))
        BY <1>3 DEF OpOK, AllocOK
      <3>3. op.pc = "pal_free" => Covered(T, PagesOf(op.area))
        BY DEF OpOK, PalFreeOK
      <3>4. op.pc = "protect" => Covered(T, PagesOf(op.area))
        BY <1>1, <2>0 DEF OwnOK
      <3> QED BY <2>0, <2>1, <3>1, <3>2, <3>3, <3>4, <1>7
    <2>2. CASE op.pc \in {"unmap", "free", "remove_tmp"}
      <3>1. UnmapOK(T, op)
        BY <2>2 DEF OpOK, FreeOK, RemoveOK
      <3>2. op.pc \in {"free", "remove_tmp"} => Covered(T, PagesOf(op.area))
        BY <1>2 DEF OpOK, FreeOK, RemoveOK
      <3> QED BY <2>0, <2>2, <3>1, <3>2, <1>6
    <2>3. CASE op.pc \in {"fixed_unmap", "fixed_free", "fixed_map"}
      <3>1. FixedOK(op)
        BY <2>3 DEF OpOK, FixedUnmapOK, FixedFreeOK, FixedMapOK
      <3>2. op.pc = "fixed_unmap" => Covered(T, PagesOf(op.new))
        BY <1>1 DEF OpOK, FixedUnmapOK
      <3>3. op.pc = "fixed_free" => Covered(T, PagesOf(op.new))
        BY <1>2 DEF OpOK, FixedOK, FixedFreeOK
      <3>4. op.pc = "fixed_map" => Covered(T, PagesOf(op.new))
        BY DEF OpOK, FixedMapOK, Covered
      <3> QED BY <2>0, <2>3, <3>1, <3>2, <3>3, <3>4 DEF FixedOK
    <2>4. op.pc \in VmPcs
      BY DEF VmOps
    <2> QED BY <2>1, <2>2, <2>3, <2>4 DEF VmPcs
  <1> QED BY <1>8 DEF PendingOf, Covered

(* A call works on pages of its thread only. *)
LEMMA PendingInZone ==
    ASSUME VmInv, NEW u \in VmThreads
    PROVE  PendingOf(vmOp[u]) \subseteq Zone(u)
  <1>1. CASE brkLock = u
    <2>1. /\ vmOp[u].pc \in {"alloc", "free"} /\ PagesOf(vmOp[u].area) \subseteq Heap
          /\ vmOp[u].new = NoArea /\ vmOp[u].todo = {}
      BY <1>1 DEF VmInv, ThreadOK, BrkOK, PlainOK
    <2>2. PendingOf(vmOp[u]) \subseteq Heap
      BY <2>1, NoAreaFacts DEF PendingOf, TodoPages
    <2> QED BY <1>1, <2>2 DEF Zone
  <1>2. CASE brkLock # u
    BY <1>2 DEF Zone
  <1> QED BY <1>1, <1>2

(* The pages of a thread, and those of the heap, are in the tree. *)
LEMMA ZoneCovered ==
    ASSUME VmInv, NEW u \in VmThreads
    PROVE  Covered(tree, Zone(u)) /\ Covered(tree, Heap)
  <1>1. Covered(tree, Heap)
    BY DEF VmInv, HeapOK, Covered
  <1>2. OwnOK(tree, vmOp[u], vmOwn[u], slab[u]) /\ SlabOK(tree, slab[u])
    BY DEF VmInv, ThreadOK
  <1>3. Covered(tree, vmOwn[u])
    BY <1>2 DEF OwnOK, AllUser, User, Covered
  <1>4. Covered(tree, PagesOf(slab[u]))
    BY <1>2, NoAreaFacts DEF SlabOK, AllViews, Covered
  <1>5. ASSUME brkLock # u PROVE Covered(tree, PendingOf(vmOp[u]))
    <2>1. OpOK(tree, host, vmOp[u])
      BY <1>5 DEF VmInv, ThreadOK
    <2>2. vmOp[u] \in VmOps
      BY DEF VmInv, VmTypes
    <2> QED BY <1>2, <2>1, <2>2, OpCovered
  <1> QED BY <1>1, <1>3, <1>4, <1>5 DEF Zone, Covered

(* They are pages of the process. *)
LEMMA ZoneInPages ==
    ASSUME VmInv, NEW u \in VmThreads
    PROVE  Zone(u) \subseteq Pages
  <1>1. ASSUME NEW p, Views(tree, p) # {} PROVE p \in Pages
    <2>1. PICK a \in tree : p \in PagesOf(a)
      BY <1>1 DEF Views
    <2>2. IsRange(a)
      BY DEF VmInv, VmTypes, TreeOK
    <2> QED BY <2>1, <2>2, RangePages
  <1> QED BY <1>1, ZoneCovered DEF Covered

(* A step of thread t: at the pages of W, which are its own, or new ones   *)
(* of N.                                                                   *)
FullMove(t, W, N) ==
    /\ VmTypes' /\ vmBug' # "tree"
    /\ Changes(tree, host, tree', host', W)
    /\ \A u \in VmThreads : u # t => /\ vmOp'[u] = vmOp[u] /\ vmOwn'[u] = vmOwn[u]
                                     /\ slab'[u] = slab[u] /\ (brkLock' = u <=> brkLock = u)
    /\ brkLock \notin {0, t} => brkCur' = brkCur
    /\ W \subseteq Zone(t) \cup N /\ Zone(t)' \subseteq Zone(t) \cup N
    /\ \A u \in VmThreads : u # t => N \cap Zone(u) = {}
    /\ ThreadOK(t)'
    /\ brkLock' # t => Zone(t)' \cap Heap = {}
    /\ (vmOwn'[t] \cup PagesOf(slab'[t])) \cap Heap = {}
    /\ HeapOK(tree', brkLock', brkCur')
    /\ \A p \in Pages : p \in W \cup PendingOf(vmOp[t]) /\ p \notin PendingOf(vmOp'[t])
                          => Agrees(Views(tree', p), host'[p])

(* A step on pages of its own, or on new ones that no other thread has,    *)
(* keeps the invariant.                                                    *)
LEMMA StepKeeps ==
    ASSUME VmInv, NEW t \in VmThreads, NEW W, NEW N, FullMove(t, W, N)
    PROVE  VmInv'
  <1> USE DEF FullMove
  <1>1. \A u \in VmThreads : u # t => Zone(t) \cap Zone(u) = {}
    BY DEF VmInv, Apart
  <1>2. \A u \in VmThreads : u # t => W \cap Zone(u) = {} /\ Zone(t)' \cap Zone(u) = {}
    BY <1>1
  <1>3. \A u \in VmThreads : u # t => Zone(u)' = Zone(u)
    BY DEF Zone
  <1>4. ASSUME NEW u \in VmThreads, u # t PROVE ThreadOK(u)'
    <2>1. Same(tree, host, tree', host', Zone(u))
      BY <1>2, <1>4, ChangesSame, ZoneInPages
    <2>2. vmOwn[u] \subseteq Zone(u) /\ PagesOf(slab[u]) \subseteq Zone(u)
      BY DEF Zone
    <2>3. /\ OwnOK(tree, vmOp[u], vmOwn[u], slab[u]) /\ SlabOK(tree, slab[u])
          /\ brkLock = u => BrkOK(tree, host, vmOp[u], brkCur)
          /\ brkLock # u => OpOK(tree, host, vmOp[u])
      BY DEF VmInv, ThreadOK
    <2>4. OwnOK(tree', vmOp[u], vmOwn[u], slab[u]) /\ SlabOK(tree', slab[u])
      BY <2>1, <2>2, <2>3, OwnFrame
    <2>5. ASSUME brkLock = u PROVE BrkOK(tree', host', vmOp[u], brkCur')
      <3>1. Heap \subseteq Zone(u)
        BY <2>5 DEF Zone
      <3>2. brkCur' = brkCur
        BY <2>5, <1>4, VmAssumption
      <3>3. BrkOK(tree', host', vmOp[u], brkCur)
        BY <2>1, <2>3, <2>5, <3>1, BrkFrame
      <3> QED BY <3>2, <3>3
    <2>6. ASSUME brkLock # u PROVE OpOK(tree', host', vmOp[u])
      BY <2>1, <2>3, <2>6, OpFrame, PendingInZone
    <2> QED BY <2>4, <2>5, <2>6, <1>4 DEF ThreadOK
  <1>5. Apart'
    <2>1. \A u \in VmThreads : brkLock # u => Zone(u) \cap Heap = {}
      BY DEF VmInv, Apart
    <2>2. \A u \in VmThreads : brkLock' # u => Zone(u)' \cap Heap = {}
      BY <2>1, <1>3
    <2>3. \A u, v \in VmThreads : u # v => Zone(u) \cap Zone(v) = {}
      BY DEF VmInv, Apart
    <2>4. \A u, v \in VmThreads : u # v => Zone(u)' \cap Zone(v)' = {}
      BY <2>3, <1>2, <1>3
    <2>5. \A u \in VmThreads : (vmOwn[u] \cup PagesOf(slab[u])) \cap Heap = {}
      BY DEF VmInv, Apart
    <2>6. \A u \in VmThreads : (vmOwn'[u] \cup PagesOf(slab'[u])) \cap Heap = {}
      BY <2>5
    <2> QED BY <2>2, <2>4, <2>6 DEF Apart, Heap
  <1>6. PagesOK'
    <2>1. ASSUME NEW p \in Pages, \A u \in VmThreads : p \notin PendingOf(vmOp'[u])
          PROVE  Agrees(Views(tree', p), host'[p])
      <3>1. CASE p \in W \cup PendingOf(vmOp[t])
        BY <2>1, <3>1
      <3>2. CASE p \notin W \cup PendingOf(vmOp[t])
        <4>1. Views(tree', p) = Views(tree, p) /\ host'[p] = host[p]
          BY <3>2 DEF Changes
        <4>2. \A u \in VmThreads : p \notin PendingOf(vmOp[u])
          BY <2>1, <3>2
        <4>3. Agrees(Views(tree, p), host[p])
          BY <4>2 DEF VmInv, PagesOK
        <4> QED BY <4>1, <4>3
      <3> QED BY <3>1, <3>2
    <2> QED BY <2>1 DEF PagesOK
  <1> QED BY <1>4, <1>5, <1>6 DEF VmInv

(* Only the state of thread t changes. *)
Moves(t, op2, own2, s2) == /\ vmOp' = [vmOp EXCEPT ![t] = op2]
                           /\ vmOwn' = [vmOwn EXCEPT ![t] = own2]
                           /\ slab' = [slab EXCEPT ![t] = s2]

(* The memory of the host. *)
HostMem == [Pages -> [prot : Prots, page : Int, old : BOOLEAN]]

(* The state of thread t is the new one, that of the others the old one. *)
LEMMA MovesFacts ==
    ASSUME VmTypes, NEW t \in VmThreads, NEW op2 \in VmOps, NEW own2, own2 \subseteq Pages,
           NEW s2 \in VmArea, Moves(t, op2, own2, s2)
    PROVE  /\ vmOp' \in [VmThreads -> VmOps] /\ vmOwn' \in [VmThreads -> SUBSET Pages]
           /\ slab' \in [VmThreads -> VmArea]
           /\ vmOp'[t] = op2 /\ vmOwn'[t] = own2 /\ slab'[t] = s2
           /\ \A u \in VmThreads : u # t => /\ vmOp'[u] = vmOp[u] /\ vmOwn'[u] = vmOwn[u]
                                            /\ slab'[u] = slab[u]
  <1>1. vmOp' \in [VmThreads -> VmOps] /\ vmOp'[t] = op2 /\ \A u \in VmThreads : u # t => vmOp'[u] = vmOp[u]
    BY DEF VmTypes, Moves
  <1>2. /\ vmOwn' \in [VmThreads -> SUBSET Pages] /\ vmOwn'[t] = own2
        /\ \A u \in VmThreads : u # t => vmOwn'[u] = vmOwn[u]
    BY DEF VmTypes, Moves
  <1>3. /\ slab' \in [VmThreads -> VmArea] /\ slab'[t] = s2
        /\ \A u \in VmThreads : u # t => slab'[u] = slab[u]
    BY DEF VmTypes, Moves
  <1> QED BY <1>1, <1>2, <1>3

(* What stays the same, as a change. *)
LEMMA SameMoves ==
    ASSUME VmTypes, NEW t \in VmThreads
    PROVE  /\ UNCHANGED vmOwn => vmOwn' = [vmOwn EXCEPT ![t] = vmOwn[t]]
           /\ UNCHANGED slab => slab' = [slab EXCEPT ![t] = slab[t]]
  BY DEF VmTypes

(* A step without brk_lock: at the pages of W, which belong to the thread  *)
(* or are new ones of N.                                                   *)
PlainMove(t, W, N, op2, own2, s2) ==
    /\ brkLock # t /\ UNCHANGED <<brkCur, brkLock>> /\ vmBug' # "tree"
    /\ op2 \in VmOps /\ own2 \subseteq Pages /\ s2 \in VmArea
    /\ Moves(t, op2, own2, s2)
    /\ TreeOK(tree') /\ host' \in HostMem /\ Changes(tree, host, tree', host', W)
    /\ W \subseteq Zone(t) \cup N
    /\ own2 \cup PagesOf(s2) \cup PendingOf(op2) \subseteq Zone(t) \cup N
    /\ \A u \in VmThreads : u # t => N \cap Zone(u) = {}
    /\ N \cap Heap = {}
    /\ OwnOK(tree', op2, own2, s2) /\ SlabOK(tree', s2) /\ OpOK(tree', host', op2)
    /\ \A p \in Pages : p \in W \cup PendingOf(vmOp[t]) /\ p \notin PendingOf(op2)
                              => Agrees(Views(tree', p), host'[p])

(* A step without brk_lock keeps the invariant. *)
LEMMA PlainStep ==
    ASSUME VmInv, NEW t \in VmThreads, NEW W, NEW N, NEW op2, NEW own2, NEW s2,
           PlainMove(t, W, N, op2, own2, s2)
    PROVE  VmInv'
  <1> USE DEF PlainMove
  <1>1. /\ vmOp' \in [VmThreads -> VmOps] /\ vmOwn' \in [VmThreads -> SUBSET Pages]
        /\ slab' \in [VmThreads -> VmArea]
        /\ vmOp'[t] = op2 /\ vmOwn'[t] = own2 /\ slab'[t] = s2
        /\ \A u \in VmThreads : u # t => /\ vmOp'[u] = vmOp[u] /\ vmOwn'[u] = vmOwn[u]
                                         /\ slab'[u] = slab[u]
    BY MovesFacts DEF VmInv
  <1>2. VmTypes'
    BY <1>1 DEF VmInv, VmTypes, HostMem, Pages
  <1>3. ThreadOK(t)'
    BY <1>1 DEF ThreadOK
  <1>4. Zone(t)' = own2 \cup PagesOf(s2) \cup PendingOf(op2)
    BY <1>1 DEF Zone
  <1>5. Zone(t) \cap Heap = {}
    BY DEF VmInv, Apart
  <1>6. Zone(t)' \cap Heap = {} /\ (vmOwn'[t] \cup PagesOf(slab'[t])) \cap Heap = {} /\ W \cap Heap = {}
    BY <1>1, <1>4, <1>5
  <1>7. HeapOK(tree', brkLock', brkCur')
    <2>1. \A p \in Heap : Views(tree', p) = Views(tree, p)
      BY <1>6 DEF Changes
    <2>2. HeapOK(tree, brkLock, brkCur)
      BY DEF VmInv
    <2>3. brkCur .. BrkEnd - 1 \subseteq Heap
      BY VmAssumption DEF VmInv, VmTypes, Heap
    <2> QED BY <2>1, <2>2, <2>3 DEF HeapOK, HeapFree
  <1>8. FullMove(t, W, N)
    BY <1>1, <1>2, <1>3, <1>4, <1>6, <1>7 DEF FullMove
  <1> QED BY <1>8, StepKeeps

(* A thread that is in no call works on no page. *)
LEMMA IdleFacts == Idle \in VmOps /\ Idle.pc = "idle" /\ PlainOK(Idle) /\ PendingOf(Idle) = {}
  <1>1. <<>> \in Seq(Nat)
    OBVIOUS
  <1>2. Idle \in VmOps
    BY <1>1, NoAreaFacts DEF Idle, VmOps, VmPcs
  <1>3. Idle.pc = "idle" /\ Idle.new = NoArea /\ Idle.todo = {}
    BY DEF Idle
  <1> QED BY <1>2, <1>3, NoAreaFacts DEF PlainOK, PendingOf, TodoPages

(* A call at c with area a. *)
Mk(c, a) == [Idle EXCEPT !.pc = c, !.area = a]

(* It works on the pages of its area. *)
LEMMA OpMake ==
    ASSUME NEW a \in VmArea, NEW c \in VmPcs
    PROVE  /\ Mk(c, a) \in VmOps /\ Mk(c, a).pc = c /\ Mk(c, a).area = a /\ PlainOK(Mk(c, a))
           /\ PendingOf(Mk(c, a)) = IF c \in {"alloc", "free", "protect", "remove_tmp", "pal_free"}
                                    THEN PagesOf(a) ELSE {}
  <1>0. PICK op : op = Mk(c, a)
    OBVIOUS
  <1>1. op \in VmOps /\ op.pc = c /\ op.area = a /\ op.new = Idle.new /\ op.todo = Idle.todo
    BY <1>0, IdleFacts DEF VmOps, Mk
  <1>2. op.new = NoArea /\ op.todo = {}
    BY <1>1 DEF Idle
  <1> QED BY <1>0, <1>1, <1>2, NoAreaFacts DEF PlainOK, PendingOf, TodoPages

(* A call with nothing listed works on the pages of its area. *)
LEMMA PlainPending ==
    ASSUME NEW op, PlainOK(op)
    PROVE  PendingOf(op) = IF op.pc \in {"alloc", "free", "protect", "remove_tmp", "pal_free"}
                           THEN PagesOf(op.area) ELSE {}
  BY NoAreaFacts DEF PlainOK, PendingOf, TodoPages

(* What the steps take from the invariant. *)
LEMMA Facts ==
    ASSUME VmInv, NEW t \in VmThreads
    PROVE  /\ VmTypes /\ TreeOK(tree) /\ host \in HostMem /\ vmOp[t] \in VmOps /\ vmOp[t].area \in VmArea
           /\ vmOp[t].new \in VmArea /\ vmOp[t].pc \in VmPcs
           /\ vmOwn[t] \subseteq Pages /\ slab[t] \in VmArea
           /\ OwnOK(tree, vmOp[t], vmOwn[t], slab[t]) /\ SlabOK(tree, slab[t])
           /\ vmOp[t].pc \notin {"alloc", "free"} => brkLock # t
           /\ brkLock # t => /\ OpOK(tree, host, vmOp[t])
                             /\ Zone(t) = vmOwn[t] \cup PagesOf(slab[t]) \cup PendingOf(vmOp[t])
           /\ brkLock = t => BrkOK(tree, host, vmOp[t], brkCur)
  <1>1. /\ VmTypes /\ TreeOK(tree) /\ host \in HostMem /\ vmOp[t] \in VmOps
        /\ vmOwn[t] \subseteq Pages /\ slab[t] \in VmArea
    BY DEF VmInv, VmTypes, HostMem
  <1>2. vmOp[t].area \in VmArea /\ vmOp[t].new \in VmArea /\ vmOp[t].pc \in VmPcs
    BY <1>1 DEF VmOps
  <1>3. /\ OwnOK(tree, vmOp[t], vmOwn[t], slab[t]) /\ SlabOK(tree, slab[t])
        /\ brkLock # t => OpOK(tree, host, vmOp[t])
        /\ brkLock = t => BrkOK(tree, host, vmOp[t], brkCur)
    BY DEF VmInv, ThreadOK
  <1>4. brkLock = t => vmOp[t].pc \in {"alloc", "free"}
    BY <1>3 DEF BrkOK
  <1>5. brkLock # t => Zone(t) = vmOwn[t] \cup PagesOf(slab[t]) \cup PendingOf(vmOp[t])
    BY DEF Zone
  <1> QED BY <1>1, <1>2, <1>3, <1>4, <1>5

(* What a step leaves of pages it does not change. *)
LEMMA OwnAfter ==
    ASSUME NEW T, NEW H, NEW T2, NEW H2, NEW W, Changes(T, H, T2, H2, W)
    PROVE  /\ \A S : AllUser(T, S) /\ S \cap W = {} => AllUser(T2, S)
           /\ \A a : AllViews(T, a) /\ PagesOf(a) \cap W = {} => AllViews(T2, a)
           /\ \A a : SlabOK(T, a) /\ PagesOf(a) \cap W = {} => SlabOK(T2, a)
           /\ \A S : AllEmpty(H, S) /\ S \cap W = {} /\ S \subseteq Pages => AllEmpty(H2, S)
  <1>1. \A S : AllUser(T, S) /\ S \cap W = {} => AllUser(T2, S)
    BY DEF Changes, AllUser, User
  <1>2. \A a : AllViews(T, a) /\ PagesOf(a) \cap W = {} => AllViews(T2, a)
    BY DEF Changes, AllViews
  <1>3. \A a : SlabOK(T, a) /\ PagesOf(a) \cap W = {} => SlabOK(T2, a)
    BY <1>2 DEF SlabOK
  <1>4. \A S : AllEmpty(H, S) /\ S \cap W = {} /\ S \subseteq Pages => AllEmpty(H2, S)
    BY DEF Changes, AllEmpty
  <1> QED BY <1>1, <1>2, <1>3, <1>4

(* Nothing changes where tree and host stay. *)
LEMMA NoChange ==
    ASSUME NEW T, NEW H PROVE Changes(T, H, T, H, {})
  BY DEF Changes

(* An area that is put into the tree changes its pages only. *)
LEMMA PutChanges ==
    ASSUME NEW T, TreeOK(T), NEW a, IsRange(a), NEW H
    PROVE  Changes(T, H, Put(T, a), H, PagesOf(a))
  BY PutFacts DEF Changes

(* The host's side of a step: it changes only the pages of S. *)
LEMMA HostChanges ==
    ASSUME NEW T, NEW H, NEW H2, NEW S, H \in HostMem, H2 \in HostMem,
           \A p \in Pages : p \notin S => H2[p] = H[p]
    PROVE  Changes(T, H, T, H2, S)
  BY DEF Changes

-----------------------------------------------------------------------------
(* The steps *)

(* A step that changes neither the tree nor the host. *)
QuietMove(t, op2, own2) ==
    /\ brkLock # t /\ UNCHANGED <<tree, host, slab, brkCur, brkLock, vmBug>>
    /\ op2 \in VmOps /\ own2 \subseteq vmOwn[t]
    /\ vmOp' = [vmOp EXCEPT ![t] = op2] /\ vmOwn' = [vmOwn EXCEPT ![t] = own2]
    /\ PendingOf(op2) \subseteq vmOwn[t] \cup PendingOf(vmOp[t])
    /\ PendingOf(vmOp[t]) \subseteq PendingOf(op2)
    /\ OwnOK(tree, op2, own2, slab[t]) /\ OpOK(tree, host, op2)

(* It keeps the invariant. *)
LEMMA QuietStep ==
    ASSUME VmInv, NEW t \in VmThreads, NEW op2, NEW own2, QuietMove(t, op2, own2)
    PROVE  VmInv'
  <1> USE DEF QuietMove
  <1>1. /\ VmTypes /\ TreeOK(tree) /\ host \in HostMem /\ vmOwn[t] \subseteq Pages
        /\ slab[t] \in VmArea /\ SlabOK(tree, slab[t])
        /\ Zone(t) = vmOwn[t] \cup PagesOf(slab[t]) \cup PendingOf(vmOp[t])
    BY Facts
  <1>2. Moves(t, op2, own2, slab[t])
    BY <1>1, SameMoves DEF Moves
  <1>3. Changes(tree, host, tree', host', {})
    BY NoChange
  <1>4. own2 \cup PagesOf(slab[t]) \cup PendingOf(op2) \subseteq Zone(t) \cup {}
    BY <1>1
  <1>5. vmBug' # "tree"
    BY DEF VmInv
  <1>6. PlainMove(t, {}, {}, op2, own2, slab[t])
    BY <1>1, <1>2, <1>3, <1>4, <1>5 DEF PlainMove
  <1> QED BY <1>6, PlainStep

(* A free range is taken. *)
LEMMA TakeNew ==
    ASSUME VmInv, NEW t \in VmThreads, vmOp[t].pc \in {"idle", "search"},
           NEW a, IsRange(a), a.unmapped = FALSE, Overlapping(tree, a.b, a.e) = {}, tree' = Put(tree, a),
           Does(t, [Idle EXCEPT !.pc = "alloc", !.area = a]),
           UNCHANGED <<host, vmOwn, slab, brkCur, brkLock, vmBug>>
    PROVE  VmInv'
  <1>0. PICK op2 : op2 = Mk("alloc", a)
    OBVIOUS
  <1>1. /\ VmTypes /\ TreeOK(tree) /\ host \in HostMem /\ vmOwn[t] \subseteq Pages /\ slab[t] \in VmArea
        /\ brkLock # t /\ OpOK(tree, host, vmOp[t])
        /\ Zone(t) = vmOwn[t] \cup PagesOf(slab[t]) \cup PendingOf(vmOp[t])
        /\ OwnOK(tree, vmOp[t], vmOwn[t], slab[t]) /\ SlabOK(tree, slab[t])
    BY Facts
  <1>2. a \in VmArea /\ PagesOf(a) \subseteq Pages /\ a.b \in Nat /\ a.e \in Nat /\ a.b < a.e
    BY RangePages DEF IsRange
  <1>3. op2 \in VmOps /\ op2.pc = "alloc" /\ op2.area = a /\ PlainOK(op2) /\ PendingOf(op2) = PagesOf(a)
    <2>1. "alloc" \in VmPcs
      BY DEF VmPcs
    <2> QED BY <1>0, <1>2, <2>1, OpMake
  <1>4. Moves(t, op2, vmOwn[t], slab[t])
    BY <1>0, <1>1, SameMoves DEF Moves, Does, Mk
  <1>5. \A p \in PagesOf(a) : Views(tree, p) = {}
    <2>1. ASSUME NEW p \in PagesOf(a), NEW x \in tree, p \in PagesOf(x) PROVE FALSE
      <3>1. IsRange(x) /\ PagesOf(a) = a.b .. a.e - 1
        BY <1>1 DEF TreeOK, PagesOf
      <3>2. Overlaps(x, a.b, a.e)
        BY <1>2, <2>1, <3>1, OverlapsPage
      <3> QED BY <3>2 DEF Overlapping
    <2> QED BY <2>1 DEF Views
  <1>6. /\ \A u \in VmThreads : PagesOf(a) \cap Zone(u) = {}
        /\ PagesOf(a) \cap Heap = {}
    BY <1>5, ZoneCovered DEF Covered
  <1>7. AllEmpty(host, PagesOf(a))
    <2>1. ASSUME NEW p \in PagesOf(a) PROVE host[p] = NotMapped
      <3>1. \A u \in VmThreads : p \notin PendingOf(vmOp[u])
        BY <1>6, PendingInZone
      <3>2. Agrees(Views(tree, p), host[p])
        BY <3>1, <1>2 DEF VmInv, PagesOK
      <3> QED BY <3>2, <1>5 DEF Agrees
    <2> QED BY <2>1 DEF AllEmpty
  <1>8. /\ TreeOK(tree') /\ AllViews(tree', a)
    BY <1>1, PutFacts DEF AllViews
  <1>9. Changes(tree, host, tree', host', PagesOf(a))
    BY <1>1, PutChanges
  <1>10. PagesOf(a) \cap vmOwn[t] = {} /\ PagesOf(a) \cap PagesOf(slab[t]) = {}
    BY <1>1, <1>6
  <1>11. SlabOK(tree', slab[t]) /\ AllUser(tree', vmOwn[t])
    BY <1>1, <1>9, <1>10, OwnAfter DEF OwnOK
  <1>12. OwnOK(tree', op2, vmOwn[t], slab[t])
    BY <1>1, <1>3, <1>10, <1>11 DEF OwnOK
  <1>13. OpOK(tree', host', op2)
    BY <1>3, <1>7, <1>8 DEF OpOK, AllocOK
  <1>14. PendingOf(vmOp[t]) = {}
    <2>1. PlainOK(vmOp[t])
      BY <1>1 DEF OpOK, SearchOK
    <2> QED BY <2>1, PlainPending
  <1>15. vmOwn[t] \cup PagesOf(slab[t]) \cup PendingOf(op2) \subseteq Zone(t) \cup PagesOf(a)
    BY <1>1, <1>3
  <1>16. vmBug' # "tree" /\ host' \in HostMem /\ PagesOf(a) \subseteq Zone(t) \cup PagesOf(a)
    BY <1>1 DEF VmInv
  <1>17. \A p \in Pages : p \in PagesOf(a) \cup PendingOf(vmOp[t]) /\ p \notin PendingOf(op2)
                              => Agrees(Views(tree', p), host'[p])
    BY <1>3, <1>14
  <1>18. PlainMove(t, PagesOf(a), PagesOf(a), op2, vmOwn[t], slab[t])
    BY <1>1, <1>3, <1>4, <1>6, <1>8, <1>9, <1>11, <1>12, <1>13, <1>15, <1>16, <1>17 DEF PlainMove
  <1> QED BY <1>18, PlainStep

(* The ranges still to be searched. *)
LEMMA SeqFacts ==
    ASSUME NEW S, NEW s \in Seq(S), s # <<>>
    PROVE  Head(s) \in S /\ Tail(s) \in Seq(S) /\ (Len(s) # 1 => Tail(s) # <<>>)
  <1>1. Len(s) \in Nat /\ Len(s) # 0
    OBVIOUS
  <1>2. Head(s) \in S /\ Tail(s) \in Seq(S) /\ Len(Tail(s)) = Len(s) - 1
    BY <1>1
  <1>3. Len(s) # 1 => Len(Tail(s)) # 0
    BY <1>1, <1>2
  <1>4. Tail(s) = <<>> => Len(Tail(s)) = 0
    <2>1. Len(<<>>) = 0
      OBVIOUS
    <2> QED BY <2>1, Zenon
  <1> QED BY <1>2, <1>3, <1>4

(* The ranges of mmap and of the allocations of the LibOS. *)
LEMMA TupleFacts ==
    ASSUME NEW S, NEW x \in S, NEW y \in S, NEW z \in S
    PROVE  /\ <<x>> \in Seq(S) /\ <<x, y>> \in Seq(S) /\ <<x, y, z>> \in Seq(S)
           /\ <<x>> # <<>> /\ <<x, y>> # <<>> /\ <<x, y, z>> # <<>>
  OBVIOUS

(* bkeep_mmap_any_in_range takes a free range, or none. *)
LEMMA SearchKeeps ==
    ASSUME VmInv, NEW t \in VmThreads, vmOp[t].pc \in {"idle", "search"},
           NEW a \in VmArea, a.b = 0, a.e > 0, a.unmapped = FALSE,
           NEW tops \in Seq(0 .. VmEnd), tops # <<>>, Search(t, a, tops)
    PROVE  VmInv'
  <1> DEFINE top == Head(tops)
             fits == Fits(top, a.e - a.b)
  <1>1. top \in 0 .. VmEnd
    BY SeqFacts
  <1>2. a.e \in Nat /\ a.e - a.b = a.e
    BY DEF VmArea
  <1>3. brkLock # t /\ OpOK(tree, host, vmOp[t]) /\ OwnOK(tree, vmOp[t], vmOwn[t], slab[t]) /\ VmTypes
    BY Facts
  <1>4. UNCHANGED <<host, vmOwn, slab, brkCur, brkLock, vmBug>>
    BY DEF Search
  <1>5. ASSUME NEW b \in fits, NEW found, found = [a EXCEPT !.b = b, !.e = b + (a.e - a.b)],
               Replaces(found), Does(t, [Idle EXCEPT !.pc = "alloc", !.area = found])
        PROVE  VmInv'
    <2>1. b \in Nat /\ b + a.e <= VmEnd /\ Overlapping(tree, b, b + a.e) = {}
      BY <1>1, <1>2, VmAssumption DEF Fits
    <2>2. found \in VmArea /\ found.b = b /\ found.e = b + a.e /\ found.unmapped = FALSE
      <3>1. found = [a EXCEPT !.b = b, !.e = b + a.e]
        BY <1>2, <1>5
      <3>2. found.unmapped = a.unmapped
        BY <3>1 DEF VmArea
      <3>3. PICK e2 \in Nat : e2 = b + a.e
        BY <1>2, <2>1
      <3>4. found \in VmArea /\ found.b = b /\ found.e = e2
        BY <2>1, <3>1, <3>3 DEF VmArea
      <3> QED BY <3>2, <3>3, <3>4
    <2>3. IsRange(found)
      BY <2>1, <2>2, <1>2 DEF IsRange
    <2>4. tree' = Put(tree, found)
      BY <1>5 DEF Replaces, Put
    <2> QED BY <1>4, <1>5, <2>1, <2>2, <2>3, <2>4, TakeNew
  <1>6. ASSUME Does(t, IF Len(tops) = 1 THEN Idle
                       ELSE [Idle EXCEPT !.pc = "search", !.area = a, !.tops = Tail(tops)]),
               UNCHANGED tree
        PROVE  VmInv'
    <2>0. PICK op2 : op2 = IF Len(tops) = 1 THEN Idle
                       ELSE [Idle EXCEPT !.pc = "search", !.area = a, !.tops = Tail(tops)]
      OBVIOUS
    <2>1. Len(tops) # 1 => Tail(tops) \in Seq(0 .. VmEnd) /\ Tail(tops) # <<>>
      BY SeqFacts
    <2>2. op2 \in VmOps /\ PlainOK(op2) /\ op2.pc \in {"idle", "search"} /\ (op2.pc = "search" => SearchOK(op2))
      <3>1. CASE Len(tops) = 1
        BY <2>0, <3>1, IdleFacts
      <3>2. CASE Len(tops) # 1
        <4>1. op2 = [Idle EXCEPT !.pc = "search", !.area = a, !.tops = Tail(tops)]
          BY <2>0, <3>2
        <4>2. Tail(tops) \in Seq(Nat)
          BY <2>1, <3>2, VmAssumption
        <4>3. /\ op2 \in VmOps /\ op2.pc = "search" /\ op2.area = a /\ op2.tops = Tail(tops)
              /\ op2.new = Idle.new /\ op2.todo = Idle.todo
          BY <4>1, <4>2, IdleFacts DEF VmOps, VmPcs
        <4>4. PlainOK(op2)
          BY <4>3, IdleFacts DEF PlainOK
        <4> QED BY <4>3, <4>4, <2>1, <3>2 DEF SearchOK
      <3> QED BY <3>1, <3>2
    <2>3. PendingOf(op2) = {}
      BY <2>2, PlainPending
    <2>4. PendingOf(vmOp[t]) = {}
      BY <1>3, PlainPending DEF OpOK, SearchOK
    <2>5. OpOK(tree, host, op2)
      BY <2>2 DEF OpOK
    <2>6. OwnOK(tree, op2, vmOwn[t], slab[t])
      BY <1>3, <2>2, <2>3 DEF OwnOK
    <2>7. vmOp' = [vmOp EXCEPT ![t] = op2] /\ vmOwn' = [vmOwn EXCEPT ![t] = vmOwn[t]]
      BY <1>3, <1>4, <1>6, <2>0, SameMoves DEF Does
    <2>8. QuietMove(t, op2, vmOwn[t])
      BY <1>3, <1>4, <1>6, <2>2, <2>3, <2>4, <2>5, <2>6, <2>7 DEF QuietMove
    <2> QED BY <2>8, QuietStep
  <1> QED BY <1>5, <1>6 DEF Search

(* The calls that look for a place. *)
LEMMA MapKeeps ==
    ASSUME VmInv, NEW t \in VmThreads,
           MmapAny(t) \/ SearchAgain(t) \/ MmapNoReplace(t) \/ SlabAlloc(t)
    PROVE  VmInv'
  <1>1. CASE MmapAny(t)
    <2>1. PICK len \in VmLengths, off \in {-1, 0}, hint \in {VmEnd, VmEnd - 1} :
             /\ vmOp[t].pc = "idle"
             /\ Search(t, Area(0, len, FALSE, FALSE, "rw", off),
                       IF hint = VmEnd THEN <<AslrTop, VmEnd>> ELSE <<hint, AslrTop, VmEnd>>)
      BY <1>1 DEF MmapAny, Calls
    <2>2. PICK a : a = Area(0, len, FALSE, FALSE, "rw", off)
      OBVIOUS
    <2>3. len \in Nat /\ len > 0
      BY VmAssumption
    <2>4. a \in VmArea /\ a.b = 0 /\ a.e = len /\ a.unmapped = FALSE
      BY <2>2, <2>3 DEF Area, VmArea, Prots
    <2>5. PICK tops : tops = IF hint = VmEnd THEN <<AslrTop, VmEnd>> ELSE <<hint, AslrTop, VmEnd>>
      OBVIOUS
    <2>6. hint \in 0 .. VmEnd /\ AslrTop \in 0 .. VmEnd /\ VmEnd \in 0 .. VmEnd
      BY VmAssumption
    <2>7. tops \in Seq(0 .. VmEnd) /\ tops # <<>>
      BY <2>5, <2>6, TupleFacts
    <2> QED BY <2>1, <2>2, <2>3, <2>4, <2>5, <2>7, SearchKeeps
  <1>2. CASE SearchAgain(t)
    <2>1. vmOp[t].pc = "search" /\ Search(t, vmOp[t].area, vmOp[t].tops)
      BY <1>2 DEF SearchAgain, At
    <2>2. vmOp[t].area \in VmArea /\ SearchOK(vmOp[t])
      BY <2>1, Facts DEF OpOK
    <2> QED BY <2>1, <2>2, SearchKeeps DEF SearchOK
  <1>3. CASE MmapNoReplace(t)
    <2>0. PICK len \in VmLengths : \E b \in 0 .. VmEnd - len :
             /\ vmOp[t].pc = "idle" /\ Overlapping(tree, b, b + len) = {}
             /\ Replaces(Area(b, b + len, FALSE, FALSE, "r", -1))
             /\ Does(t, [Idle EXCEPT !.pc = "alloc", !.area = Area(b, b + len, FALSE, FALSE, "r", -1)])
             /\ UNCHANGED <<host, vmOwn, slab, brkCur, brkLock, vmBug>>
      BY <1>3 DEF MmapNoReplace, Calls
    <2>1. PICK b \in 0 .. VmEnd - len :
             /\ vmOp[t].pc = "idle" /\ Overlapping(tree, b, b + len) = {}
             /\ Replaces(Area(b, b + len, FALSE, FALSE, "r", -1))
             /\ Does(t, [Idle EXCEPT !.pc = "alloc", !.area = Area(b, b + len, FALSE, FALSE, "r", -1)])
             /\ UNCHANGED <<host, vmOwn, slab, brkCur, brkLock, vmBug>>
      BY <2>0
    <2>2. PICK a : a = Area(b, b + len, FALSE, FALSE, "r", -1)
      OBVIOUS
    <2>3. len \in Nat /\ len > 0 /\ b \in Nat /\ b + len <= VmEnd
      BY VmAssumption
    <2>4. a \in VmArea /\ a.b = b /\ a.e = b + len /\ a.unmapped = FALSE
      BY <2>2, <2>3 DEF Area, VmArea, Prots
    <2>5. IsRange(a)
      BY <2>3, <2>4 DEF IsRange
    <2>6. tree' = Put(tree, a)
      BY <2>1, <2>2 DEF Replaces, Put
    <2> QED BY <2>1, <2>2, <2>4, <2>5, <2>6, TakeNew
  <1>4. CASE SlabAlloc(t)
    <2>1. vmOp[t].pc = "idle" /\ Search(t, Area(0, 1, TRUE, FALSE, "rw", -1), <<VmEnd>>)
      BY <1>4 DEF SlabAlloc, Calls
    <2>2. PICK a : a = Area(0, 1, TRUE, FALSE, "rw", -1)
      OBVIOUS
    <2>4. a \in VmArea /\ a.b = 0 /\ a.e = 1 /\ a.unmapped = FALSE
      BY <2>2 DEF Area, VmArea, Prots
    <2>3. VmEnd \in 0 .. VmEnd
      BY VmAssumption
    <2>5. <<VmEnd>> \in Seq(0 .. VmEnd) /\ <<VmEnd>> # <<>>
      BY <2>3, TupleFacts
    <2>6. a.e > 0
      BY <2>4
    <2> QED BY <2>1, <2>2, <2>4, <2>5, <2>6, SearchKeeps
  <1> QED BY <1>1, <1>2, <1>3, <1>4

(* A step with brk_lock, or one that takes it: at pages of the heap. *)
BrkMove(t, W, op2) ==
    /\ brkLock \in {0, t} /\ brkLock' \in {0, t} /\ vmBug' # "tree"
    /\ UNCHANGED <<vmOwn, slab>> /\ vmOp' = [vmOp EXCEPT ![t] = op2] /\ op2 \in VmOps
    /\ brkCur' \in BrkStart .. BrkEnd
    /\ TreeOK(tree') /\ host' \in HostMem /\ Changes(tree, host, tree', host', W) /\ W \subseteq Heap
    /\ brkLock' = t => BrkOK(tree', host', op2, brkCur')
    /\ brkLock' # t => op2 = Idle
    /\ brkLock = 0 => vmOp[t].pc = "idle"
    /\ HeapOK(tree', brkLock', brkCur')
    /\ \A p \in W \cup PendingOf(vmOp[t]) : p \notin PendingOf(op2)
                          => Agrees(Views(tree', p), host'[p])

(* It keeps the invariant. *)
LEMMA BrkStep ==
    ASSUME VmInv, NEW t \in VmThreads, NEW W, NEW op2, BrkMove(t, W, op2)
    PROVE  VmInv'
  <1> USE DEF BrkMove
  <1>1. /\ VmTypes /\ vmOwn[t] \subseteq Pages /\ slab[t] \in VmArea
        /\ OwnOK(tree, vmOp[t], vmOwn[t], slab[t]) /\ SlabOK(tree, slab[t])
    BY Facts
  <1>2. Moves(t, op2, vmOwn[t], slab[t])
    BY <1>1, SameMoves DEF Moves
  <1>3. /\ vmOp' \in [VmThreads -> VmOps] /\ vmOwn' \in [VmThreads -> SUBSET Pages]
        /\ slab' \in [VmThreads -> VmArea]
        /\ vmOp'[t] = op2 /\ vmOwn'[t] = vmOwn[t] /\ slab'[t] = slab[t]
        /\ \A u \in VmThreads : u # t => /\ vmOp'[u] = vmOp[u] /\ vmOwn'[u] = vmOwn[u]
                                         /\ slab'[u] = slab[u]
    BY <1>1, <1>2, MovesFacts
  <1>4. VmTypes'
    BY <1>3 DEF VmTypes, HostMem, Pages
  <1>5. \A u \in VmThreads : u # 0
    BY VmAssumption
  <1>6. /\ (vmOwn[t] \cup PagesOf(slab[t])) \cap Heap = {}
        /\ \A u \in VmThreads : u # t => Heap \cap Zone(u) = {}
    BY <1>5 DEF VmInv, Apart
  <1>7. PendingOf(op2) \subseteq Heap /\ (brkLock' # t => PendingOf(op2) = {})
    <2>1. CASE brkLock' = t
      <3>1. PlainOK(op2) /\ PagesOf(op2.area) \subseteq Heap
        BY <2>1 DEF BrkOK
      <3> QED BY <2>1, <3>1, PlainPending
    <2>2. CASE brkLock' # t
      BY <2>2, IdleFacts
    <2> QED BY <2>1, <2>2
  <1>8. Zone(t)' \subseteq vmOwn[t] \cup PagesOf(slab[t]) \cup Heap
    BY <1>3, <1>7 DEF Zone, Heap
  <1>9. Zone(t)' \subseteq Zone(t) \cup Heap /\ (brkLock' # t => Zone(t)' \cap Heap = {})
    <2>1. vmOwn[t] \cup PagesOf(slab[t]) \subseteq Zone(t)
      BY DEF Zone
    <2>2. brkLock' # t => Zone(t)' = vmOwn[t] \cup PagesOf(slab[t]) \cup {}
      BY <1>3, <1>7 DEF Zone
    <2> QED BY <1>6, <1>8, <2>1, <2>2
  <1>10. SlabOK(tree', slab[t]) /\ AllUser(tree', vmOwn[t])
    BY <1>1, <1>6, OwnAfter DEF OwnOK
  <1>11. op2.pc # "protect"
    BY IdleFacts DEF BrkOK
  <1>12. OwnOK(tree', op2, vmOwn[t], slab[t])
    <2>1. PagesOf(slab[t]) \cap vmOwn[t] = {}
      BY <1>1 DEF OwnOK
    <2> QED BY <1>6, <1>7, <1>10, <1>11, <2>1 DEF OwnOK
  <1>13. brkLock' # t => OpOK(tree', host', op2)
    BY IdleFacts DEF OpOK
  <1>14. ThreadOK(t)'
    BY <1>3, <1>10, <1>12, <1>13 DEF ThreadOK
  <1>15. FullMove(t, W, Heap)
    BY <1>3, <1>4, <1>5, <1>6, <1>9, <1>14 DEF FullMove
  <1> QED BY <1>15, StepKeeps

(* What the host has at a page. *)
LEMMA HostTypes ==
    /\ NotMapped \in [prot : Prots, page : Int, old : BOOLEAN]
    /\ \A a, p : IsRange(a) /\ p \in PagesOf(a) => Placed(a, p) \in [prot : Prots, page : Int, old : BOOLEAN]
  <1>1. NotMapped \in [prot : Prots, page : Int, old : BOOLEAN]
    BY DEF NotMapped, Prots
  <1>2. ASSUME NEW a, NEW p, IsRange(a), p \in PagesOf(a)
        PROVE  Placed(a, p) \in [prot : Prots, page : Int, old : BOOLEAN]
    <2>1. a.b \in Nat /\ a.prot \in Prots /\ a.off \in Int /\ p \in Int
      BY <1>2 DEF IsRange, VmArea, PagesOf
    <2>2. PICK q \in Int : q = IF a.off = -1 THEN -1 ELSE a.off + (p - a.b)
      BY <2>1
    <2>3. Placed(a, p) = [prot |-> a.prot, page |-> q, old |-> FALSE]
      BY <2>2 DEF Placed
    <2> QED BY <2>1, <2>3
  <1> QED BY <1>1, <1>2

(* The host unmaps the pages of an area. *)
LEMMA WithoutFacts ==
    ASSUME host \in HostMem, NEW a, NEW T
    PROVE  /\ HostWithout(a) \in HostMem
           /\ \A p \in Pages : HostWithout(a)[p] = IF p \in PagesOf(a) THEN NotMapped ELSE host[p]
           /\ Changes(T, host, T, HostWithout(a), PagesOf(a))
           /\ PagesOf(a) \subseteq Pages => AllEmpty(HostWithout(a), PagesOf(a))
  <1>1. \A p \in Pages : HostWithout(a)[p] = IF p \in PagesOf(a) THEN NotMapped ELSE host[p]
    BY DEF HostWithout
  <1>2. HostWithout(a) \in HostMem
    BY HostTypes DEF HostWithout, HostMem
  <1>3. Changes(T, host, T, HostWithout(a), PagesOf(a))
    BY <1>1, <1>2, HostChanges
  <1>4. PagesOf(a) \subseteq Pages => AllEmpty(HostWithout(a), PagesOf(a))
    BY <1>1 DEF AllEmpty
  <1> QED BY <1>1, <1>2, <1>3, <1>4

(* PalVirtualMemoryAlloc maps just what the tree says. *)
LEMMA HostAllocKeeps ==
    ASSUME VmInv, NEW t \in VmThreads, HostAlloc(t)
    PROVE  VmInv'
  <1>0. PICK a : a = vmOp[t].area
    OBVIOUS
  <1>1. /\ vmOp[t].pc = "alloc" /\ vmOp' = [vmOp EXCEPT ![t] = Idle] /\ UNCHANGED <<tree, vmBug>>
        /\ host' = [p \in Pages |-> IF p \in PagesOf(a) THEN Placed(a, p) ELSE host[p]]
        /\ vmOwn' = [vmOwn EXCEPT ![t] = IF a.internal \/ brkLock = t THEN @ ELSE @ \cup PagesOf(a)]
        /\ slab' = [slab EXCEPT ![t] = IF a.internal THEN a ELSE @]
        /\ brkCur' = IF brkLock = t THEN a.e ELSE brkCur
        /\ brkLock' = IF brkLock = t THEN 0 ELSE brkLock
    BY <1>0 DEF HostAlloc, At, Does
  <1>2. /\ VmTypes /\ TreeOK(tree) /\ host \in HostMem /\ vmOwn[t] \subseteq Pages /\ slab[t] \in VmArea
        /\ OwnOK(tree, vmOp[t], vmOwn[t], slab[t]) /\ SlabOK(tree, slab[t])
        /\ brkLock # t => /\ OpOK(tree, host, vmOp[t])
                          /\ Zone(t) = vmOwn[t] \cup PagesOf(slab[t]) \cup PendingOf(vmOp[t])
        /\ brkLock = t => BrkOK(tree, host, vmOp[t], brkCur)
    BY Facts
  <1>3. /\ IsRange(a) /\ a.unmapped = FALSE /\ AllViews(tree, a) /\ PlainOK(vmOp[t])
        /\ brkLock = t => /\ a.internal = FALSE /\ a.b = brkCur /\ HeapFree(tree, a.e)
                          /\ PagesOf(a) \subseteq Heap
    <2>1. CASE brkLock = t
      BY <2>1, <1>0, <1>1, <1>2 DEF BrkOK
    <2>2. CASE brkLock # t
      BY <2>2, <1>0, <1>1, <1>2 DEF OpOK, AllocOK
    <2> QED BY <2>1, <2>2
  <1>4. PendingOf(vmOp[t]) = PagesOf(a)
    BY <1>0, <1>1, <1>3, PlainPending
  <1>5. PagesOf(a) \subseteq Pages /\ a \in VmArea
    BY <1>3, RangePages DEF IsRange
  <1>6. host' \in HostMem /\ \A p \in Pages : host'[p] = IF p \in PagesOf(a) THEN Placed(a, p) ELSE host[p]
    <2>1. \A p \in Pages : (IF p \in PagesOf(a) THEN Placed(a, p) ELSE host[p]) \in [prot : Prots, page : Int, old : BOOLEAN]
      BY <1>2, <1>3, HostTypes DEF HostMem
    <2> QED BY <1>1, <2>1 DEF HostMem
  <1>7. Changes(tree, host, tree', host', PagesOf(a))
    BY <1>1, <1>2, <1>6, HostChanges
  <1>8. ASSUME NEW p \in PagesOf(a)
        PROVE  /\ Agrees(Views(tree, p), host'[p])
               /\ Views(tree, p) = {View(a, p)} /\ View(a, p).internal = a.internal
               /\ View(a, p).unmapped = FALSE
    <2>1. Views(tree, p) = {View(a, p)}
      BY <1>3 DEF AllViews
    <2>2. View(a, p).internal = a.internal /\ View(a, p).unmapped = FALSE /\ View(a, p).at = Placed(a, p)
      BY <1>3 DEF View
    <2>3. host'[p] = Placed(a, p)
      BY <1>5, <1>6
    <2> QED BY <2>1, <2>2, <2>3 DEF Agrees, MappedAs
  <1>9. CASE brkLock = t
    <2>1. vmOwn' = vmOwn /\ slab' = slab
      BY <1>1, <1>2, <1>3, <1>9, SameMoves DEF VmTypes
    <2>2. brkCur' = a.e /\ brkLock' = 0
      BY <1>1, <1>9
    <2>3. a.e \in BrkStart .. BrkEnd
      <3>1. a.b \in Nat /\ a.e \in Nat /\ a.b < a.e /\ a.e - 1 \in PagesOf(a) /\ a.b \in PagesOf(a)
        BY <1>3 DEF IsRange, VmArea, PagesOf
      <3> QED BY <3>1, <1>3, <1>9, VmAssumption DEF Heap
    <2>4. HeapOK(tree', brkLock', brkCur')
      BY <1>1, <1>3, <1>9, <2>2 DEF VmInv, HeapOK
    <2>5. t # 0
      BY VmAssumption
    <2>6. BrkMove(t, PagesOf(a), Idle)
      BY <1>1, <1>2, <1>3, <1>4, <1>6, <1>7, <1>8, <1>9, <2>1, <2>2, <2>3, <2>4, <2>5, IdleFacts
         DEF BrkMove, VmInv
    <2> QED BY <2>6, BrkStep
  <1>10. CASE brkLock # t
    <2>1. PICK own2 : own2 = IF a.internal THEN vmOwn[t] ELSE vmOwn[t] \cup PagesOf(a)
      OBVIOUS
    <2>2. PICK s2 : s2 = IF a.internal THEN a ELSE slab[t]
      OBVIOUS
    <2>3. Moves(t, Idle, own2, s2)
      BY <1>1, <1>10, <2>1, <2>2 DEF Moves
    <2>4. /\ PagesOf(slab[t]) \cap (vmOwn[t] \cup PagesOf(a)) = {} /\ vmOwn[t] \cap PagesOf(a) = {}
          /\ AllUser(tree, vmOwn[t])
      BY <1>1, <1>2, <1>4 DEF OwnOK
    <2>5. a.internal \in BOOLEAN
      BY <1>5 DEF VmArea
    <2>6. /\ own2 \subseteq Pages /\ s2 \in VmArea /\ PagesOf(s2) \cap own2 = {}
          /\ own2 \cup PagesOf(s2) \subseteq vmOwn[t] \cup PagesOf(slab[t]) \cup PagesOf(a)
      BY <1>2, <1>5, <2>1, <2>2, <2>4
    <2>7. ~a.internal => AllUser(tree, PagesOf(a))
      BY <1>8 DEF AllUser, User
    <2>8. AllUser(tree, own2)
      BY <2>1, <2>4, <2>7 DEF AllUser
    <2>9. OwnOK(tree', Idle, own2, s2)
      BY <1>1, <2>6, <2>8, IdleFacts DEF OwnOK
    <2>10. SlabOK(tree', s2)
      BY <1>1, <1>2, <1>3, <2>2, <2>5 DEF SlabOK
    <2>11. OpOK(tree', host', Idle)
      BY IdleFacts DEF OpOK
    <2>12. PlainMove(t, PagesOf(a), {}, Idle, own2, s2)
      <3>1. own2 \cup PagesOf(s2) \cup PendingOf(Idle) \subseteq Zone(t) \cup {} /\ PagesOf(a) \subseteq Zone(t) \cup {}
        BY <1>2, <1>4, <1>10, <2>6, IdleFacts
      <3> QED BY <1>1, <1>2, <1>4, <1>6, <1>7, <1>8, <1>10, <2>3, <2>6, <2>9, <2>10, <2>11, <3>1, IdleFacts
              DEF PlainMove, VmInv
    <2> QED BY <2>12, PlainStep
  <1> QED BY <1>9, <1>10

(* A step on pages that the call works on already, or on those of slab. *)
InnerMove(t, W, op2, s2) ==
    /\ brkLock # t /\ UNCHANGED <<vmOwn, brkCur, brkLock, vmBug>>
    /\ vmOp' = [vmOp EXCEPT ![t] = op2] /\ op2 \in VmOps /\ op2.pc # "protect"
    /\ slab' = [slab EXCEPT ![t] = s2]
    /\ TreeOK(tree') /\ host' \in HostMem /\ Changes(tree, host, tree', host', W)
    /\ W \subseteq PagesOf(slab[t]) \cup PendingOf(vmOp[t])
    /\ s2 = NoArea \/ (s2 = slab[t] /\ W \cap PagesOf(slab[t]) = {})
    /\ PendingOf(op2) \subseteq PendingOf(vmOp[t]) \cup PagesOf(slab[t])
    /\ PendingOf(op2) \cap PagesOf(s2) = {}
    /\ vmOp[t].pc = "protect" => UNCHANGED tree /\ PendingOf(op2) = {}
    /\ OpOK(tree', host', op2)
    /\ \A p \in W \cup PendingOf(vmOp[t]) : p \notin PendingOf(op2)
                              => Agrees(Views(tree', p), host'[p])

(* It keeps the invariant. *)
LEMMA InnerStep ==
    ASSUME VmInv, NEW t \in VmThreads, NEW W, NEW op2, NEW s2, InnerMove(t, W, op2, s2)
    PROVE  VmInv'
  <1> USE DEF InnerMove
  <1>1. /\ VmTypes /\ vmOwn[t] \subseteq Pages /\ slab[t] \in VmArea
        /\ OwnOK(tree, vmOp[t], vmOwn[t], slab[t]) /\ SlabOK(tree, slab[t])
        /\ Zone(t) = vmOwn[t] \cup PagesOf(slab[t]) \cup PendingOf(vmOp[t])
    BY Facts
  <1>2. Moves(t, op2, vmOwn[t], s2)
    BY <1>1, SameMoves DEF Moves
  <1>3. s2 \in VmArea /\ PagesOf(s2) \subseteq PagesOf(slab[t]) /\ PagesOf(s2) \cap W = {}
    BY <1>1, NoAreaFacts
  <1>4. SlabOK(tree', s2)
    <2>1. CASE s2 = NoArea
      BY <2>1 DEF SlabOK
    <2>2. CASE s2 # NoArea
      BY <1>1, <1>3, <2>2, OwnAfter
    <2> QED BY <2>1, <2>2
  <1>5. PagesOf(slab[t]) \cap vmOwn[t] = {} /\ AllUser(tree, vmOwn[t])
    BY <1>1 DEF OwnOK
  <1>6. AllUser(tree', vmOwn[t]) /\ vmOwn[t] \cap PendingOf(op2) = {}
    <2>1. CASE vmOp[t].pc = "protect"
      BY <1>5, <2>1
    <2>2. CASE vmOp[t].pc # "protect"
      <3>1. vmOwn[t] \cap PendingOf(vmOp[t]) = {}
        BY <1>1, <2>2 DEF OwnOK
      <3>2. vmOwn[t] \cap W = {}
        BY <1>5, <3>1
      <3> QED BY <1>5, <3>1, <3>2, OwnAfter
    <2> QED BY <2>1, <2>2
  <1>7. OwnOK(tree', op2, vmOwn[t], s2)
    BY <1>3, <1>5, <1>6 DEF OwnOK
  <1>8. /\ W \subseteq Zone(t) \cup {}
        /\ vmOwn[t] \cup PagesOf(s2) \cup PendingOf(op2) \subseteq Zone(t) \cup {}
    BY <1>1, <1>3
  <1>9. PlainMove(t, W, {}, op2, vmOwn[t], s2)
    BY <1>1, <1>2, <1>3, <1>4, <1>7, <1>8 DEF PlainMove, VmInv
  <1> QED BY <1>9, PlainStep

(* The areas still to be unmapped, without one of them. *)
LEMMA TodoFacts ==
    ASSUME NEW S, TodoOK(S), NEW a \in S
    PROVE  /\ IsRange(a) /\ TodoOK(S \ {a}) /\ PagesOf(a) \subseteq TodoPages(S)
           /\ PagesOf(a) \cap TodoPages(S \ {a}) = {}
           /\ TodoPages(S \ {a}) \subseteq TodoPages(S)
           /\ TodoPages(S) = PagesOf(a) \cup TodoPages(S \ {a})
  BY DEF TodoOK, TodoPages

(* Nothing is left to be unmapped. *)
LEMMA TodoEmpty == TodoOK({}) /\ TodoPages({}) = {} /\ \A T : AllUser(T, {})
  BY DEF TodoOK, TodoPages, AllUser

(* munmap replaces the next area by a temporary one; it is never refused. *)
LEMMA UnmapNextKeeps ==
    ASSUME VmInv, NEW t \in VmThreads, UnmapNext(t)
    PROVE  VmInv'
  <1>1. PICK a \in vmOp[t].todo :
           /\ vmOp[t].pc = "unmap"
           /\ IF Refused(a.b, a.e, FALSE)
              THEN Bug(t)
              ELSE /\ BkeepMunmap(a)
                   /\ Does(t, [vmOp[t] EXCEPT !.pc = "free", !.area = a, !.todo = @ \ {a}])
                   /\ UNCHANGED <<host, vmOwn, slab, brkCur, brkLock, vmBug>>
    BY DEF UnmapNext, At
  <1>2. /\ VmTypes /\ TreeOK(tree) /\ host \in HostMem /\ vmOp[t] \in VmOps /\ brkLock # t
        /\ OwnOK(tree, vmOp[t], vmOwn[t], slab[t]) /\ OpOK(tree, host, vmOp[t])
    BY <1>1, Facts
  <1>3. UnmapOK(tree, vmOp[t])
    BY <1>1, <1>2 DEF OpOK
  <1>4. vmOp[t].new = NoArea /\ TodoOK(vmOp[t].todo) /\ AllUser(tree, TodoPages(vmOp[t].todo))
    BY <1>3 DEF UnmapOK
  <1>5. PICK rest : rest = vmOp[t].todo \ {a}
    OBVIOUS
  <1>6. /\ IsRange(a) /\ TodoOK(rest) /\ PagesOf(a) \subseteq TodoPages(vmOp[t].todo)
        /\ PagesOf(a) \cap TodoPages(rest) = {}
        /\ TodoPages(rest) \subseteq TodoPages(vmOp[t].todo)
        /\ TodoPages(vmOp[t].todo) = PagesOf(a) \cup TodoPages(rest)
    BY <1>4, <1>5, TodoFacts
  <1>7. ~Refused(a.b, a.e, FALSE)
    <2>1. a.b \in Nat /\ a.e \in Nat /\ a.b < a.e /\ PagesOf(a) = a.b .. a.e - 1
      BY <1>6 DEF IsRange, VmArea, PagesOf
    <2>2. \A p \in a.b .. a.e - 1 : \A v \in Views(tree, p) : ~v.internal
      BY <1>4, <1>6, <2>1 DEF AllUser, User
    <2>3. \A p \in a.b .. a.e - 1 : \A v \in Views(tree, p) : v.internal = FALSE
      BY <2>2, ViewsBool, <1>2
    <2> QED BY <1>2, <2>1, <2>3, RefusedViews
  <1>8. PICK op2 : op2 = [vmOp[t] EXCEPT !.pc = "free", !.area = a, !.todo = rest]
    OBVIOUS
  <1>9. /\ op2 \in VmOps /\ op2.pc = "free" /\ op2.area = a /\ op2.todo = rest /\ op2.new = vmOp[t].new
    <2>1. rest \in SUBSET VmArea /\ a \in VmArea
      BY <1>2, <1>5, <1>6 DEF VmOps, IsRange
    <2> QED BY <1>2, <1>8, <2>1 DEF VmOps, VmPcs
  <1>10. vmOp' = [vmOp EXCEPT ![t] = op2] /\ tree' = Put(tree, Tmp(a)) /\ UNCHANGED <<host, vmOwn, slab, brkCur, brkLock, vmBug>>
    BY <1>1, <1>5, <1>7, <1>8 DEF Does, BkeepMunmap, Replaces, Put
  <1>11. IsRange(Tmp(a)) /\ PagesOf(Tmp(a)) = PagesOf(a)
    BY <1>6, TmpFacts
  <1>12. TreeOK(tree') /\ Tmp(a) \in tree' /\ Changes(tree, host, tree', host', PagesOf(a))
    <2>1. TreeOK(Put(tree, Tmp(a))) /\ Tmp(a) \in Put(tree, Tmp(a))
      BY <1>2, <1>11, PutFacts
    <2>2. Changes(tree, host, Put(tree, Tmp(a)), host, PagesOf(Tmp(a)))
      BY <1>2, <1>11, PutChanges
    <2> QED BY <1>10, <1>11, <2>1, <2>2
  <1>13. PendingOf(vmOp[t]) = TodoPages(vmOp[t].todo) /\ PendingOf(op2) = TodoPages(vmOp[t].todo)
    BY <1>1, <1>4, <1>6, <1>9, NoAreaFacts DEF PendingOf
  <1>14. OpOK(tree', host', op2)
    <2>1. AllUser(tree', TodoPages(rest))
      <3>1. AllUser(tree, TodoPages(rest))
        BY <1>4, <1>6 DEF AllUser
      <3> QED BY <3>1, <1>6, <1>12, OwnAfter
    <2>2. UnmapOK(tree', op2)
      BY <1>4, <1>6, <1>9, <2>1 DEF UnmapOK
    <2>3. FreeOK(tree', op2)
      BY <1>6, <1>9, <1>12, <2>2 DEF FreeOK
    <2> QED BY <2>3, <1>9 DEF OpOK
  <1>15. PagesOf(a) \cap PagesOf(slab[t]) = {} /\ PendingOf(op2) \cap PagesOf(slab[t]) = {}
    BY <1>2, <1>6, <1>13 DEF OwnOK
  <1>16. InnerMove(t, PagesOf(a), op2, slab[t])
    BY <1>1, <1>2, <1>6, <1>9, <1>10, <1>12, <1>13, <1>14, <1>15, SameMoves DEF InnerMove
  <1> QED BY <1>16, InnerStep

(* A temporary area is put into the tree. *)
LEMMA TmpPut ==
    ASSUME NEW T, TreeOK(T), NEW a, IsRange(a), NEW H
    PROVE  /\ TreeOK(Put(T, Tmp(a))) /\ Tmp(a) \in Put(T, Tmp(a))
           /\ Changes(T, H, Put(T, Tmp(a)), H, PagesOf(a))
  <1>1. IsRange(Tmp(a)) /\ PagesOf(Tmp(a)) = PagesOf(a)
    BY TmpFacts
  <1>2. TreeOK(Put(T, Tmp(a))) /\ Tmp(a) \in Put(T, Tmp(a))
    BY <1>1, PutFacts
  <1>3. Changes(T, H, Put(T, Tmp(a)), H, PagesOf(Tmp(a)))
    BY <1>1, PutChanges
  <1> QED BY <1>1, <1>2, <1>3

(* A call that has just one area left, with its temporary area. *)
LEMMA TmpOp ==
    ASSUME NEW T, NEW H, NEW op, PlainOK(op), IsRange(op.area), Tmp(op.area) \in T,
           op.pc = "free" \/ (op.pc = "remove_tmp" /\ AllEmpty(H, PagesOf(op.area)))
    PROVE  OpOK(T, H, op)
  <1>1. UnmapOK(T, op)
    BY TodoEmpty DEF PlainOK, UnmapOK
  <1>2. FreeOK(T, op)
    BY <1>1, TodoEmpty DEF FreeOK, PlainOK
  <1> QED BY <1>2 DEF OpOK, RemoveOK

(* When the host cannot map, the bookkeeping is taken back. *)
LEMMA AllocFailsPlain ==
    ASSUME VmInv, NEW t \in VmThreads, HostAllocFails(t), brkLock # t
    PROVE  VmInv'
  <1>0. PICK a : a = vmOp[t].area
    OBVIOUS
  <1>1. /\ vmOp[t].pc = "alloc"
        /\ IF Refused(a.b, a.e, a.internal)
           THEN Bug(t)
           ELSE /\ BkeepMunmap(a)
                /\ Does(t, [Idle EXCEPT !.pc = "remove_tmp", !.area = a])
                /\ UNCHANGED <<host, vmOwn, slab, brkCur, brkLock, vmBug>>
    BY <1>0 DEF HostAllocFails, At
  <1>2. /\ VmTypes /\ TreeOK(tree) /\ host \in HostMem
        /\ OwnOK(tree, vmOp[t], vmOwn[t], slab[t]) /\ OpOK(tree, host, vmOp[t])
    BY Facts
  <1>3. PlainOK(vmOp[t]) /\ IsRange(a) /\ AllViews(tree, a) /\ AllEmpty(host, PagesOf(a))
    BY <1>0, <1>1, <1>2 DEF OpOK, AllocOK
  <1>4. ~Refused(a.b, a.e, a.internal)
    <2>1. /\ a.b \in Nat /\ a.e \in Nat /\ a.b < a.e /\ PagesOf(a) = a.b .. a.e - 1
          /\ a.internal \in BOOLEAN
      BY <1>3 DEF IsRange, VmArea, PagesOf
    <2>2. \A p \in a.b .. a.e - 1 : \A v \in Views(tree, p) : v.internal = a.internal
      BY <1>3, <2>1 DEF AllViews, View
    <2> QED BY <1>2, <2>1, <2>2, RefusedViews
  <1>5. PICK op2 : op2 = Mk("remove_tmp", a)
    OBVIOUS
  <1>6. /\ op2 \in VmOps /\ op2.pc = "remove_tmp" /\ op2.area = a /\ PlainOK(op2)
        /\ PendingOf(op2) = PagesOf(a)
    <2>1. "remove_tmp" \in VmPcs /\ a \in VmArea
      BY <1>3 DEF VmPcs, IsRange
    <2> QED BY <1>5, <2>1, OpMake
  <1>7. /\ vmOp' = [vmOp EXCEPT ![t] = op2] /\ tree' = Put(tree, Tmp(a))
        /\ UNCHANGED <<host, vmOwn, slab, brkCur, brkLock, vmBug>>
    BY <1>1, <1>4, <1>5 DEF Does, BkeepMunmap, Replaces, Put, Mk
  <1>8. TreeOK(tree') /\ Tmp(a) \in tree' /\ Changes(tree, host, tree', host', PagesOf(a))
    BY <1>2, <1>3, <1>7, TmpPut
  <1>9. PendingOf(vmOp[t]) = PagesOf(a)
    BY <1>0, <1>1, <1>3, PlainPending
  <1>10. OpOK(tree', host', op2)
    BY <1>3, <1>6, <1>7, <1>8, TmpOp
  <1>11. PagesOf(a) \cap PagesOf(slab[t]) = {}
    BY <1>2, <1>9 DEF OwnOK
  <1>12. InnerMove(t, PagesOf(a), op2, slab[t])
    BY <1>1, <1>2, <1>6, <1>7, <1>8, <1>9, <1>10, <1>11, SameMoves DEF InnerMove
  <1> QED BY <1>12, InnerStep

(* PalVirtualMemoryFree outside of brk: the temporary area still keeps the *)
(* range.                                                                  *)
LEMMA HostFreePlain ==
    ASSUME VmInv, NEW t \in VmThreads, HostFree(t), brkLock # t
    PROVE  VmInv'
  <1>0. PICK a : a = vmOp[t].area
    OBVIOUS
  <1>1. /\ vmOp[t].pc = "free" /\ host' = HostWithout(a)
        /\ vmOp' = [vmOp EXCEPT ![t] = [vmOp[t] EXCEPT !.pc = "remove_tmp"]]
        /\ UNCHANGED <<tree, vmOwn, slab, brkCur, brkLock, vmBug>>
    BY <1>0 DEF HostFree, At, Does
  <1>2. /\ VmTypes /\ TreeOK(tree) /\ host \in HostMem /\ vmOp[t] \in VmOps
        /\ OwnOK(tree, vmOp[t], vmOwn[t], slab[t]) /\ OpOK(tree, host, vmOp[t])
    BY Facts
  <1>3. FreeOK(tree, vmOp[t])
    BY <1>1, <1>2 DEF OpOK
  <1>4. PICK op2 : op2 = [vmOp[t] EXCEPT !.pc = "remove_tmp"]
    OBVIOUS
  <1>5. /\ op2 \in VmOps /\ op2.pc = "remove_tmp" /\ op2.area = a /\ op2.todo = vmOp[t].todo
        /\ op2.new = vmOp[t].new
    BY <1>0, <1>2, <1>4 DEF VmOps, VmPcs
  <1>6. IsRange(a) /\ PagesOf(a) \subseteq Pages
    BY <1>0, <1>3, RangePages DEF FreeOK
  <1>7. /\ host' \in HostMem /\ Changes(tree, host, tree', host', PagesOf(a))
        /\ AllEmpty(host', PagesOf(a))
    BY <1>1, <1>2, <1>6, WithoutFacts
  <1>8. PendingOf(op2) = PendingOf(vmOp[t]) /\ PagesOf(a) \subseteq PendingOf(vmOp[t])
    BY <1>0, <1>1, <1>5 DEF PendingOf
  <1>9. OpOK(tree', host', op2)
    <2>1. FreeOK(tree', op2)
      BY <1>0, <1>1, <1>3, <1>5 DEF FreeOK, UnmapOK
    <2> QED BY <1>5, <1>7, <2>1 DEF OpOK, RemoveOK
  <1>10. PendingOf(vmOp[t]) \cap PagesOf(slab[t]) = {}
    BY <1>2 DEF OwnOK
  <1>11. InnerMove(t, PagesOf(a), op2, slab[t])
    BY <1>1, <1>2, <1>4, <1>5, <1>7, <1>8, <1>9, <1>10, SameMoves DEF InnerMove
  <1> QED BY <1>11, InnerStep

(* bkeep_remove_tmp_vma gives the range free once the host has unmapped it. *)
LEMMA RemoveTmpKeeps ==
    ASSUME VmInv, NEW t \in VmThreads, RemoveTmp(t)
    PROVE  VmInv'
  <1>0. PICK a : a = vmOp[t].area
    OBVIOUS
  <1>1. PICK op2 : op2 = IF vmOp[t].todo = {} THEN Idle
                         ELSE [vmOp[t] EXCEPT !.pc = "unmap", !.area = NoArea]
    OBVIOUS
  <1>2. /\ vmOp[t].pc = "remove_tmp" /\ tree' = tree \ {Tmp(a)} /\ vmOp' = [vmOp EXCEPT ![t] = op2]
        /\ UNCHANGED <<host, vmOwn, slab, brkCur, brkLock, vmBug>>
    BY <1>0, <1>1 DEF RemoveTmp, At, Does
  <1>3. /\ VmTypes /\ TreeOK(tree) /\ host \in HostMem /\ vmOp[t] \in VmOps /\ brkLock # t
        /\ OwnOK(tree, vmOp[t], vmOwn[t], slab[t]) /\ OpOK(tree, host, vmOp[t])
    BY <1>2, Facts
  <1>4. /\ UnmapOK(tree, vmOp[t]) /\ IsRange(a) /\ Tmp(a) \in tree /\ AllEmpty(host, PagesOf(a))
        /\ PagesOf(a) \cap TodoPages(vmOp[t].todo) = {}
    BY <1>0, <1>2, <1>3 DEF OpOK, RemoveOK, FreeOK
  <1>5. vmOp[t].new = NoArea /\ TodoOK(vmOp[t].todo) /\ AllUser(tree, TodoPages(vmOp[t].todo))
    BY <1>4 DEF UnmapOK
  <1>6. PagesOf(Tmp(a)) = PagesOf(a) /\ PagesOf(a) \subseteq Pages
    BY <1>4, TmpFacts, RangePages
  <1>7. /\ TreeOK(tree') /\ \A p : Views(tree', p) = IF p \in PagesOf(a) THEN {} ELSE Views(tree, p)
    BY <1>2, <1>3, <1>4, <1>6, RemoveFacts
  <1>8. Changes(tree, host, tree', host', PagesOf(a))
    <2>1. ASSUME NEW x \in tree, PagesOf(x) \cap PagesOf(a) = {} PROVE x \in tree'
      <3>1. a.b \in PagesOf(a)
        BY <1>4, RangePages
      <3>2. x # Tmp(a)
        BY <1>6, <2>1, <3>1
      <3> QED BY <3>2, <1>2
    <2> QED BY <1>2, <1>7, <2>1 DEF Changes
  <1>9. PendingOf(vmOp[t]) = PagesOf(a) \cup TodoPages(vmOp[t].todo)
    BY <1>0, <1>2, <1>5, NoAreaFacts DEF PendingOf
  <1>10. /\ op2 \in VmOps /\ op2.pc # "protect" /\ PendingOf(op2) = TodoPages(vmOp[t].todo)
         /\ OpOK(tree', host', op2)
    <2>1. CASE vmOp[t].todo = {}
      BY <1>1, <2>1, IdleFacts, TodoEmpty DEF OpOK
    <2>2. CASE vmOp[t].todo # {}
      <3>1. op2 = [vmOp[t] EXCEPT !.pc = "unmap", !.area = NoArea]
        BY <1>1, <2>2
      <3>2. /\ op2 \in VmOps /\ op2.pc = "unmap" /\ op2.todo = vmOp[t].todo /\ op2.new = vmOp[t].new
        BY <1>3, <3>1, NoAreaFacts DEF VmOps, VmPcs
      <3>3. AllUser(tree', TodoPages(op2.todo))
        BY <1>4, <1>5, <1>8, <3>2, OwnAfter
      <3>4. UnmapOK(tree', op2)
        BY <1>5, <3>2, <3>3 DEF UnmapOK
      <3>5. PendingOf(op2) = TodoPages(vmOp[t].todo)
        BY <3>2, <1>5, NoAreaFacts DEF PendingOf
      <3> QED BY <3>2, <3>4, <3>5 DEF OpOK
    <2> QED BY <2>1, <2>2
  <1>11. PendingOf(vmOp[t]) \cap PagesOf(slab[t]) = {}
    BY <1>3 DEF OwnOK
  <1>12. ASSUME NEW p \in PagesOf(a) PROVE Agrees(Views(tree', p), host'[p])
    BY <1>2, <1>4, <1>7 DEF Agrees, AllEmpty
  <1>13. InnerMove(t, PagesOf(a), op2, slab[t])
    BY <1>2, <1>3, <1>7, <1>8, <1>9, <1>10, <1>11, <1>12, SameMoves DEF InnerMove
  <1> QED BY <1>13, InnerStep

(* munmap and MAP_FIXED begin. *)
LEMMA OwnRange ==
    ASSUME VmInv, NEW t \in VmThreads, NEW r \in OwnRanges(t)
    PROVE  /\ r[1] \in Nat /\ r[2] \in Nat /\ r[1] < r[2] /\ r[2] <= VmEnd
           /\ r[1] .. r[2] - 1 \subseteq vmOwn[t] /\ AllUser(tree, r[1] .. r[2] - 1)
           /\ TodoOK(Dump(r[1], r[2])) /\ TodoPages(Dump(r[1], r[2])) = r[1] .. r[2] - 1
           /\ Dump(r[1], r[2]) \in SUBSET VmArea
  <1>1. r[1] \in Nat /\ r[2] \in Nat /\ r[1] < r[2] /\ r[2] <= VmEnd /\ r[1] .. r[2] - 1 \subseteq vmOwn[t]
    BY VmAssumption DEF OwnRanges, Pages
  <1>2. AllUser(tree, r[1] .. r[2] - 1) /\ TreeOK(tree)
    BY <1>1, Facts DEF OwnOK, AllUser
  <1>3. Dump(r[1], r[2]) = DumpOf(tree, r[1], r[2])
    BY DEF Dump, DumpOf
  <1>4. TodoOK(Dump(r[1], r[2])) /\ TodoPages(Dump(r[1], r[2])) = r[1] .. r[2] - 1
    BY <1>1, <1>2, <1>3, DumpFacts
  <1>5. Dump(r[1], r[2]) \in SUBSET VmArea
    BY <1>4 DEF TodoOK, IsRange
  <1> QED BY <1>1, <1>2, <1>4, <1>5

(* munmap lists what it is to unmap; it covers the range. *)
LEMMA MunmapKeeps ==
    ASSUME VmInv, NEW t \in VmThreads, Munmap(t)
    PROVE  VmInv'
  <1>1. PICK r \in OwnRanges(t) :
           /\ vmOp[t].pc = "idle"
           /\ vmOp' = [vmOp EXCEPT ![t] = [Idle EXCEPT !.pc = "unmap", !.todo = Dump(r[1], r[2])]]
           /\ vmOwn' = [vmOwn EXCEPT ![t] = @ \ (r[1] .. r[2] - 1)]
           /\ UNCHANGED <<tree, host, slab, brkCur, brkLock, vmBug>>
    BY DEF Munmap, Calls, Does
  <1>2. PICK S : S = r[1] .. r[2] - 1
    OBVIOUS
  <1>3. PICK D : D = Dump(r[1], r[2])
    OBVIOUS
  <1>4. S \subseteq vmOwn[t] /\ AllUser(tree, S) /\ TodoOK(D) /\ TodoPages(D) = S /\ D \in SUBSET VmArea
    BY <1>2, <1>3, OwnRange
  <1>5. /\ brkLock # t /\ OpOK(tree, host, vmOp[t]) /\ OwnOK(tree, vmOp[t], vmOwn[t], slab[t])
    BY <1>1, Facts
  <1>6. PICK op2 : op2 = [Idle EXCEPT !.pc = "unmap", !.todo = D]
    OBVIOUS
  <1>7. /\ op2 \in VmOps /\ op2.pc = "unmap" /\ op2.todo = D /\ op2.new = NoArea
    <2>1. op2 \in VmOps /\ op2.pc = "unmap" /\ op2.todo = D /\ op2.new = Idle.new
      BY <1>4, <1>6, IdleFacts DEF VmOps, VmPcs
    <2> QED BY <2>1 DEF Idle
  <1>8. PendingOf(op2) = S
    BY <1>4, <1>7, NoAreaFacts DEF PendingOf
  <1>9. PendingOf(vmOp[t]) = {}
    BY <1>1, <1>5, PlainPending DEF OpOK
  <1>10. OpOK(tree, host, op2)
    BY <1>4, <1>7 DEF OpOK, UnmapOK
  <1>11. OwnOK(tree, op2, vmOwn[t] \ S, slab[t])
    BY <1>4, <1>5, <1>7, <1>8 DEF OwnOK, AllUser
  <1>12. vmOwn' = [vmOwn EXCEPT ![t] = vmOwn[t] \ S] /\ vmOp' = [vmOp EXCEPT ![t] = op2]
    BY <1>1, <1>2, <1>3, <1>6
  <1>13. vmOwn[t] \ S \subseteq vmOwn[t] /\ PendingOf(op2) \subseteq vmOwn[t] \cup PendingOf(vmOp[t])
    BY <1>4, <1>8
  <1>14. QuietMove(t, op2, vmOwn[t] \ S)
    BY <1>1, <1>5, <1>7, <1>9, <1>10, <1>11, <1>12, <1>13 DEF QuietMove
  <1> QED BY <1>14, QuietStep

(* MAP_FIXED does so too. *)
LEMMA MmapFixedKeeps ==
    ASSUME VmInv, NEW t \in VmThreads, MmapFixed(t)
    PROVE  VmInv'
  <1>1. PICK r \in OwnRanges(t) :
           /\ vmOp[t].pc = "idle"
           /\ vmOp' = [vmOp EXCEPT ![t] = [Idle EXCEPT !.pc = "fixed_unmap",
                                                      !.new = Area(r[1], r[2], FALSE, FALSE, "r", -1),
                                                      !.todo = Dump(r[1], r[2])]]
           /\ vmOwn' = [vmOwn EXCEPT ![t] = @ \ (r[1] .. r[2] - 1)]
           /\ UNCHANGED <<tree, host, slab, brkCur, brkLock, vmBug>>
    BY DEF MmapFixed, Calls, Does
  <1>2. PICK S : S = r[1] .. r[2] - 1
    OBVIOUS
  <1>3. PICK D : D = Dump(r[1], r[2])
    OBVIOUS
  <1>n. PICK new : new = Area(r[1], r[2], FALSE, FALSE, "r", -1)
    OBVIOUS
  <1>4. /\ S \subseteq vmOwn[t] /\ AllUser(tree, S) /\ TodoOK(D) /\ TodoPages(D) = S /\ D \in SUBSET VmArea
        /\ r[1] \in Nat /\ r[2] \in Nat /\ r[1] < r[2] /\ r[2] <= VmEnd
    BY <1>2, <1>3, OwnRange
  <1>5. /\ brkLock # t /\ OpOK(tree, host, vmOp[t]) /\ OwnOK(tree, vmOp[t], vmOwn[t], slab[t])
    BY <1>1, Facts
  <1>m. new \in VmArea /\ new.b = r[1] /\ new.e = r[2]
    BY <1>4, <1>n DEF Area, VmArea, Prots
  <1>k. new.internal = FALSE /\ new.unmapped = FALSE
    BY <1>n DEF Area
  <1>l. IsRange(new) /\ PagesOf(new) = S
    BY <1>2, <1>4, <1>m DEF IsRange, PagesOf
  <1>6. PICK op2 : op2 = [Idle EXCEPT !.pc = "fixed_unmap", !.new = new, !.todo = D]
    OBVIOUS
  <1>7. /\ op2 \in VmOps /\ op2.pc = "fixed_unmap" /\ op2.todo = D /\ op2.new = new
    BY <1>4, <1>6, <1>m, IdleFacts DEF VmOps, VmPcs
  <1>8. PendingOf(op2) = S
    BY <1>4, <1>7, <1>l DEF PendingOf
  <1>9. PendingOf(vmOp[t]) = {}
    BY <1>1, <1>5, PlainPending DEF OpOK
  <1>10. OpOK(tree, host, op2)
    <2>1. FixedOK(op2)
      BY <1>4, <1>7, <1>k, <1>l DEF FixedOK
    <2> QED BY <1>4, <1>7, <1>l, <2>1 DEF OpOK, FixedUnmapOK
  <1>11. OwnOK(tree, op2, vmOwn[t] \ S, slab[t])
    BY <1>4, <1>5, <1>7, <1>8 DEF OwnOK, AllUser
  <1>12. vmOwn' = [vmOwn EXCEPT ![t] = vmOwn[t] \ S] /\ vmOp' = [vmOp EXCEPT ![t] = op2]
    BY <1>1, <1>2, <1>3, <1>6, <1>n
  <1>13. vmOwn[t] \ S \subseteq vmOwn[t] /\ PendingOf(op2) \subseteq vmOwn[t] \cup PendingOf(vmOp[t])
    BY <1>4, <1>8
  <1>14. QuietMove(t, op2, vmOwn[t] \ S)
    BY <1>1, <1>5, <1>7, <1>9, <1>10, <1>11, <1>12, <1>13 DEF QuietMove
  <1> QED BY <1>14, QuietStep

(* The whole range becomes a temporary area. *)
LEMMA FixedUnmapKeeps ==
    ASSUME VmInv, NEW t \in VmThreads, FixedUnmap(t)
    PROVE  VmInv'
  <1>0. PICK a : a = vmOp[t].new
    OBVIOUS
  <1>1. /\ vmOp[t].pc = "fixed_unmap" /\ UNCHANGED <<host, vmOwn, slab, brkCur, brkLock, vmBug>>
        /\ ~Refused(a.b, a.e, FALSE) =>
             /\ BkeepMunmap(a)
             /\ vmOp' = [vmOp EXCEPT ![t] = [vmOp[t] EXCEPT !.pc = "fixed_free"]]
    BY <1>0 DEF FixedUnmap, At, Does
  <1>2. /\ VmTypes /\ TreeOK(tree) /\ host \in HostMem /\ vmOp[t] \in VmOps /\ brkLock # t
        /\ OwnOK(tree, vmOp[t], vmOwn[t], slab[t]) /\ OpOK(tree, host, vmOp[t])
    BY <1>1, Facts
  <1>3. /\ FixedOK(vmOp[t]) /\ AllUser(tree, PagesOf(a)) /\ PagesOf(a) \subseteq TodoPages(vmOp[t].todo)
        /\ IsRange(a) /\ TodoPages(vmOp[t].todo) \subseteq PagesOf(a)
    BY <1>0, <1>1, <1>2 DEF OpOK, FixedUnmapOK, FixedOK
  <1>4. ~Refused(a.b, a.e, FALSE)
    <2>1. a.b \in Nat /\ a.e \in Nat /\ a.b < a.e /\ PagesOf(a) = a.b .. a.e - 1
      BY <1>3 DEF IsRange, VmArea, PagesOf
    <2>2. \A p \in a.b .. a.e - 1 : \A v \in Views(tree, p) : ~v.internal
      BY <1>3, <2>1 DEF AllUser, User
    <2>3. \A p \in a.b .. a.e - 1 : \A v \in Views(tree, p) : v.internal = FALSE
      BY <1>2, <2>2, ViewsBool
    <2> QED BY <1>2, <2>1, <2>3, RefusedViews
  <1>5. PICK op2 : op2 = [vmOp[t] EXCEPT !.pc = "fixed_free"]
    OBVIOUS
  <1>6. /\ op2 \in VmOps /\ op2.pc = "fixed_free" /\ op2.todo = vmOp[t].todo /\ op2.new = a
    BY <1>0, <1>2, <1>5 DEF VmOps, VmPcs
  <1>7. /\ vmOp' = [vmOp EXCEPT ![t] = op2] /\ tree' = Put(tree, Tmp(a))
    BY <1>1, <1>4, <1>5 DEF BkeepMunmap, Replaces, Put
  <1>8. TreeOK(tree') /\ Tmp(a) \in tree' /\ Changes(tree, host, tree', host', PagesOf(a))
    BY <1>1, <1>2, <1>3, <1>7, TmpPut
  <1>9. PendingOf(vmOp[t]) = PagesOf(a) /\ PendingOf(op2) = PagesOf(a)
    BY <1>0, <1>1, <1>3, <1>6 DEF PendingOf
  <1>10. OpOK(tree', host', op2)
    <2>1. FixedOK(op2)
      BY <1>0, <1>3, <1>6 DEF FixedOK
    <2>2. AllEmpty(host', PagesOf(a) \ TodoPages(op2.todo))
      BY <1>3, <1>6 DEF AllEmpty
    <2> QED BY <1>6, <1>8, <2>1, <2>2 DEF OpOK, FixedFreeOK
  <1>11. PagesOf(a) \cap PagesOf(slab[t]) = {}
    BY <1>2, <1>9 DEF OwnOK
  <1>12. InnerMove(t, PagesOf(a), op2, slab[t])
    BY <1>1, <1>2, <1>6, <1>7, <1>8, <1>9, <1>10, <1>11, SameMoves DEF InnerMove
  <1> QED BY <1>12, InnerStep

(* The host unmaps one of the areas that were there. *)
LEMMA FixedFreeKeeps ==
    ASSUME VmInv, NEW t \in VmThreads, FixedFree(t)
    PROVE  VmInv'
  <1>1. PICK a \in vmOp[t].todo :
           /\ vmOp[t].pc = "fixed_free" /\ host' = HostWithout(a)
           /\ vmOp' = [vmOp EXCEPT ![t] = [vmOp[t] EXCEPT !.todo = @ \ {a}]]
           /\ UNCHANGED <<tree, vmOwn, slab, brkCur, brkLock, vmBug>>
    BY DEF FixedFree, At, Does
  <1>2. /\ VmTypes /\ TreeOK(tree) /\ host \in HostMem /\ vmOp[t] \in VmOps /\ brkLock # t
        /\ OwnOK(tree, vmOp[t], vmOwn[t], slab[t]) /\ OpOK(tree, host, vmOp[t])
    BY <1>1, Facts
  <1>n. PICK new : new = vmOp[t].new
    OBVIOUS
  <1>3. /\ FixedOK(vmOp[t]) /\ Tmp(new) \in tree /\ AllEmpty(host, PagesOf(new) \ TodoPages(vmOp[t].todo))
        /\ TodoOK(vmOp[t].todo) /\ TodoPages(vmOp[t].todo) \subseteq PagesOf(new) /\ IsRange(new)
    BY <1>1, <1>2, <1>n DEF OpOK, FixedFreeOK, FixedOK
  <1>4. PICK rest : rest = vmOp[t].todo \ {a}
    OBVIOUS
  <1>5. /\ IsRange(a) /\ TodoOK(rest) /\ PagesOf(a) \subseteq TodoPages(vmOp[t].todo)
        /\ TodoPages(rest) \subseteq TodoPages(vmOp[t].todo)
        /\ TodoPages(vmOp[t].todo) = PagesOf(a) \cup TodoPages(rest)
    BY <1>3, <1>4, TodoFacts
  <1>6. PICK op2 : op2 = [vmOp[t] EXCEPT !.todo = rest]
    OBVIOUS
  <1>7. op2 \in VmOps /\ op2.pc = "fixed_free" /\ op2.todo = rest /\ op2.new = new
    <2>1. rest \in SUBSET VmArea
      BY <1>2, <1>4 DEF VmOps
    <2> QED BY <1>1, <1>2, <1>6, <1>n, <2>1 DEF VmOps
  <1>8. PagesOf(a) \subseteq Pages /\ PagesOf(new) \subseteq Pages
    BY <1>3, <1>5, RangePages
  <1>9. /\ host' \in HostMem /\ Changes(tree, host, tree', host', PagesOf(a))
        /\ \A p \in Pages : host'[p] = IF p \in PagesOf(a) THEN NotMapped ELSE host[p]
    BY <1>1, <1>2, WithoutFacts
  <1>10. PendingOf(vmOp[t]) = PagesOf(new) /\ PendingOf(op2) = PagesOf(new)
    BY <1>1, <1>3, <1>5, <1>7, <1>n DEF PendingOf
  <1>11. OpOK(tree', host', op2)
    <2>1. FixedOK(op2)
      BY <1>3, <1>5, <1>7, <1>n DEF FixedOK
    <2>2. AllEmpty(host', PagesOf(new) \ TodoPages(rest))
      BY <1>3, <1>5, <1>8, <1>9 DEF AllEmpty
    <2> QED BY <1>1, <1>3, <1>7, <2>1, <2>2 DEF OpOK, FixedFreeOK
  <1>12. PagesOf(a) \cap PagesOf(slab[t]) = {} /\ PagesOf(new) \cap PagesOf(slab[t]) = {}
    BY <1>2, <1>3, <1>5, <1>10 DEF OwnOK
  <1>13. vmOp' = [vmOp EXCEPT ![t] = op2]
    BY <1>1, <1>4, <1>6
  <1>w. /\ PagesOf(a) \subseteq PagesOf(slab[t]) \cup PendingOf(vmOp[t])
        /\ PendingOf(op2) \subseteq PendingOf(vmOp[t]) \cup PagesOf(slab[t])
        /\ PendingOf(op2) \cap PagesOf(slab[t]) = {}
        /\ \A p \in PagesOf(a) \cup PendingOf(vmOp[t]) : p \in PendingOf(op2)
    BY <1>3, <1>5, <1>10, <1>12
  <1>v. TreeOK(tree') /\ op2.pc # "protect" /\ vmOp[t].pc # "protect" /\ slab' = [slab EXCEPT ![t] = slab[t]]
    BY <1>1, <1>2, <1>7, SameMoves
  <1>14. InnerMove(t, PagesOf(a), op2, slab[t])
    BY <1>1, <1>2, <1>7, <1>9, <1>11, <1>12, <1>13, <1>w, <1>v DEF InnerMove
  <1> QED BY <1>14, InnerStep

(* bkeep_convert_tmp_vma_to_user. *)
LEMMA FixedConvertKeeps ==
    ASSUME VmInv, NEW t \in VmThreads, FixedConvert(t)
    PROVE  VmInv'
  <1>0. PICK a : a = vmOp[t].new
    OBVIOUS
  <1>1. /\ vmOp[t].pc = "fixed_free" /\ vmOp[t].todo = {}
        /\ tree' = (tree \ {Tmp(a)}) \cup {[Tmp(a) EXCEPT !.internal = FALSE]}
        /\ vmOp' = [vmOp EXCEPT ![t] = [vmOp[t] EXCEPT !.pc = "fixed_map"]]
        /\ UNCHANGED <<host, vmOwn, slab, brkCur, brkLock, vmBug>>
    BY <1>0 DEF FixedConvert, At, Does, ConvertTmp
  <1>2. /\ VmTypes /\ TreeOK(tree) /\ host \in HostMem /\ vmOp[t] \in VmOps /\ brkLock # t
        /\ OwnOK(tree, vmOp[t], vmOwn[t], slab[t]) /\ OpOK(tree, host, vmOp[t])
    BY <1>1, Facts
  <1>3. /\ FixedOK(vmOp[t]) /\ Tmp(a) \in tree /\ AllEmpty(host, PagesOf(a) \ TodoPages(vmOp[t].todo))
        /\ IsRange(a)
    BY <1>0, <1>1, <1>2 DEF OpOK, FixedFreeOK, FixedOK
  <1>4. AllEmpty(host, PagesOf(a))
    BY <1>1, <1>3, TodoEmpty DEF AllEmpty
  <1>5. IsRange(Tmp(a)) /\ PagesOf(Tmp(a)) = PagesOf(a) /\ Tmp(a).b = a.b /\ Tmp(a).e = a.e
    BY <1>3, TmpFacts
  <1>6. PICK c : c = [Tmp(a) EXCEPT !.internal = FALSE]
    OBVIOUS
  <1>7. c \in VmArea /\ c.b = a.b /\ c.e = a.e
    BY <1>5, <1>6 DEF IsRange, VmArea
  <1>8. c.internal = FALSE
    BY <1>5, <1>6 DEF IsRange, VmArea
  <1>9. IsRange(c) /\ PagesOf(c) = PagesOf(a)
    BY <1>3, <1>7 DEF IsRange, PagesOf
  <1>10. /\ TreeOK(tree \ {Tmp(a)})
         /\ \A p : Views(tree \ {Tmp(a)}, p) = IF p \in PagesOf(a) THEN {} ELSE Views(tree, p)
         /\ \A y \in tree \ {Tmp(a)} : y.e <= c.b \/ c.e <= y.b
    <2>1. PICK m : m = Tmp(a)
      OBVIOUS
    <2>2. /\ TreeOK(tree \ {m})
          /\ \A p : Views(tree \ {m}, p) = IF p \in PagesOf(m) THEN {} ELSE Views(tree, p)
          /\ \A y \in tree \ {m} : y.e <= m.b \/ m.e <= y.b
      <3>1. TreeOK(tree) /\ m \in tree
        BY <1>2, <1>3, <2>1
      <3> QED BY <3>1, RemoveFacts
    <2>3. PagesOf(m) = PagesOf(a) /\ m.b = c.b /\ m.e = c.e
      BY <1>5, <1>7, <2>1
    <2> QED BY <2>1, <2>2, <2>3
  <1>11. /\ TreeOK(tree') /\ \A p \in PagesOf(a) : Views(tree', p) = {View(c, p)}
         /\ \A p : p \notin PagesOf(a) => Views(tree', p) = Views(tree, p)
    <2>1. PICK R : R = tree \ {Tmp(a)}
      OBVIOUS
    <2>2. /\ TreeOK(R \cup {c})
          /\ \A p : p \in PagesOf(c) => Views(R \cup {c}, p) = {View(c, p)}
          /\ \A p : p \notin PagesOf(c) => Views(R \cup {c}, p) = Views(R, p)
      <3>1. TreeOK(R) /\ \A y \in R : y.e <= c.b \/ c.e <= y.b
        BY <1>10, <2>1
      <3> QED BY <1>9, <3>1, AddFacts
    <2>3. tree' = R \cup {c}
      BY <1>1, <1>6, <2>1
    <2> QED BY <1>9, <1>10, <2>1, <2>2, <2>3
  <1>12. Changes(tree, host, tree', host', PagesOf(a))
    <2>1. ASSUME NEW x \in tree, PagesOf(x) \cap PagesOf(a) = {} PROVE x \in tree'
      <3>1. a.b \in PagesOf(a)
        BY <1>3, RangePages
      <3>2. x # Tmp(a)
        BY <1>5, <2>1, <3>1
      <3> QED BY <3>2, <1>1
    <2> QED BY <1>1, <1>11, <2>1 DEF Changes
  <1>13. PICK op2 : op2 = [vmOp[t] EXCEPT !.pc = "fixed_map"]
    OBVIOUS
  <1>14. op2 \in VmOps /\ op2.pc = "fixed_map" /\ op2.todo = {} /\ op2.new = a
    BY <1>0, <1>1, <1>2, <1>13 DEF VmOps, VmPcs
  <1>15. PendingOf(vmOp[t]) = PagesOf(a) /\ PendingOf(op2) = PagesOf(a)
    BY <1>0, <1>1, <1>14, TodoEmpty DEF PendingOf
  <1>16. OpOK(tree', host', op2)
    <2>1. FixedOK(op2)
      BY <1>0, <1>1, <1>3, <1>14 DEF FixedOK
    <2>2. \A p \in PagesOf(a) : Views(tree', p) # {} /\ \A v \in Views(tree', p) : ~v.internal
      <3>1. \A p : View(c, p).internal = FALSE
        BY <1>8 DEF View
      <3> QED BY <1>11, <3>1
    <2> QED BY <1>1, <1>4, <1>14, <2>1, <2>2 DEF OpOK, FixedMapOK
  <1>17. PagesOf(a) \cap PagesOf(slab[t]) = {}
    BY <1>2, <1>15 DEF OwnOK
  <1>18. InnerMove(t, PagesOf(a), op2, slab[t])
    BY <1>1, <1>2, <1>11, <1>12, <1>13, <1>14, <1>15, <1>16, <1>17, SameMoves DEF InnerMove
  <1> QED BY <1>18, InnerStep

(* The new area replaces it; this is never refused. *)
LEMMA FixedMapKeeps ==
    ASSUME VmInv, NEW t \in VmThreads, FixedMap(t)
    PROVE  VmInv'
  <1>0. PICK a : a = vmOp[t].new
    OBVIOUS
  <1>1. /\ vmOp[t].pc = "fixed_map"
        /\ IF Refused(a.b, a.e, FALSE)
           THEN Bug(t)
           ELSE /\ Replaces(a)
                /\ Does(t, [Idle EXCEPT !.pc = "alloc", !.area = a])
                /\ UNCHANGED <<host, vmOwn, slab, brkCur, brkLock, vmBug>>
    BY <1>0 DEF FixedMap, At
  <1>2. /\ VmTypes /\ TreeOK(tree) /\ host \in HostMem /\ vmOp[t] \in VmOps /\ brkLock # t
        /\ OwnOK(tree, vmOp[t], vmOwn[t], slab[t]) /\ OpOK(tree, host, vmOp[t])
    BY <1>1, Facts
  <1>3. /\ FixedMapOK(tree, host, vmOp[t]) /\ AllEmpty(host, PagesOf(a)) /\ vmOp[t].todo = {}
        /\ IsRange(a) /\ a.unmapped = FALSE
        /\ \A p \in PagesOf(a) : \A v \in Views(tree, p) : ~v.internal
    BY <1>0, <1>1, <1>2 DEF OpOK, FixedMapOK, FixedOK
  <1>4. ~Refused(a.b, a.e, FALSE)
    <2>1. a.b \in Nat /\ a.e \in Nat /\ a.b < a.e /\ PagesOf(a) = a.b .. a.e - 1
      BY <1>3 DEF IsRange, VmArea, PagesOf
    <2>2. \A p \in a.b .. a.e - 1 : \A v \in Views(tree, p) : v.internal = FALSE
      BY <1>2, <1>3, <2>1, ViewsBool
    <2> QED BY <1>2, <2>1, <2>2, RefusedViews
  <1>5. PICK op2 : op2 = Mk("alloc", a)
    OBVIOUS
  <1>6. /\ op2 \in VmOps /\ op2.pc = "alloc" /\ op2.area = a /\ PlainOK(op2)
        /\ PendingOf(op2) = PagesOf(a)
    <2>1. "alloc" \in VmPcs /\ a \in VmArea
      BY <1>3 DEF VmPcs, IsRange
    <2> QED BY <1>5, <2>1, OpMake
  <1>7. /\ vmOp' = [vmOp EXCEPT ![t] = op2] /\ tree' = Put(tree, a)
        /\ UNCHANGED <<host, vmOwn, slab, brkCur, brkLock, vmBug>>
    BY <1>1, <1>4, <1>5 DEF Does, Replaces, Put, Mk
  <1>8. TreeOK(tree') /\ AllViews(tree', a)
    BY <1>2, <1>3, <1>7, PutFacts DEF AllViews
  <1>9. Changes(tree, host, tree', host', PagesOf(a))
    BY <1>2, <1>3, <1>7, PutChanges
  <1>10. PendingOf(vmOp[t]) = PagesOf(a)
    BY <1>0, <1>1, <1>3, TodoEmpty DEF PendingOf
  <1>11. OpOK(tree', host', op2)
    BY <1>3, <1>6, <1>7, <1>8 DEF OpOK, AllocOK
  <1>12. PagesOf(a) \cap PagesOf(slab[t]) = {}
    BY <1>2, <1>10 DEF OwnOK
  <1>13. InnerMove(t, PagesOf(a), op2, slab[t])
    BY <1>1, <1>2, <1>6, <1>7, <1>8, <1>9, <1>10, <1>11, <1>12, SameMoves DEF InnerMove
  <1> QED BY <1>13, InnerStep
(* What a call that begins finds of the pages the thread has. *)
LEMMA OwnAgrees ==
    ASSUME VmInv, NEW t \in VmThreads, PendingOf(vmOp[t]) = {}, NEW p, p \in vmOwn[t] \cup PagesOf(slab[t])
    PROVE  p \in Pages /\ Agrees(Views(tree, p), host[p])
  <1>1. p \in Zone(t)
    BY DEF Zone
  <1>2. p \in Pages
    BY <1>1, ZoneInPages
  <1>3. \A u \in VmThreads : p \notin PendingOf(vmOp[u])
    <2>1. ASSUME NEW u \in VmThreads, u # t PROVE p \notin PendingOf(vmOp[u])
      <3>1. p \notin Zone(u)
        BY <1>1, <2>1 DEF VmInv, Apart
      <3> QED BY <3>1, PendingInZone
    <2> QED BY <2>1
  <1> QED BY <1>2, <1>3 DEF VmInv, PagesOK

(* Only the protection of a view changes. *)
LEMMA ReprotFacts ==
    ASSUME NEW T, TreeOK(T), NEW p, NEW v \in Views(T, p), NEW prot
    PROVE  /\ Reprot(v, prot).internal = v.internal /\ Reprot(v, prot).unmapped = v.unmapped
           /\ Reprot(v, prot).at.prot = prot /\ Reprot(v, prot).at.page = v.at.page
  <1>1. PICK a \in T : v = View(a, p)
    BY DEF Views
  <1> QED BY <1>1 DEF View, Placed, Reprot

(* mprotect in the tree. *)
LEMMA MprotectKeeps ==
    ASSUME VmInv, NEW t \in VmThreads, Mprotect(t)
    PROVE  VmInv'
  <1>1. PICK r \in OwnRanges(t), prot \in {"r", "rw"} :
           /\ vmOp[t].pc = "idle"
           /\ tree' = Protected(tree, r[1], r[2], prot)
           /\ vmOp' = [vmOp EXCEPT ![t] = Mk("protect", Area(r[1], r[2], FALSE, FALSE, prot, -1))]
           /\ UNCHANGED <<host, vmOwn, slab, brkCur, brkLock, vmBug>>
    BY DEF Mprotect, Calls, Does, Protected, Mk
  <1>2. PICK S : S = r[1] .. r[2] - 1
    OBVIOUS
  <1>3. PICK a : a = Area(r[1], r[2], FALSE, FALSE, prot, -1)
    OBVIOUS
  <1>4. /\ S \subseteq vmOwn[t] /\ AllUser(tree, S)
        /\ r[1] \in Nat /\ r[2] \in Nat /\ r[1] < r[2] /\ r[2] <= VmEnd
    BY <1>2, OwnRange
  <1>5. /\ VmTypes /\ TreeOK(tree) /\ host \in HostMem /\ vmOwn[t] \subseteq Pages /\ slab[t] \in VmArea
        /\ brkLock # t /\ OpOK(tree, host, vmOp[t])
        /\ Zone(t) = vmOwn[t] \cup PagesOf(slab[t]) \cup PendingOf(vmOp[t])
        /\ OwnOK(tree, vmOp[t], vmOwn[t], slab[t]) /\ SlabOK(tree, slab[t])
    BY <1>1, Facts
  <1>6. a \in VmArea /\ a.b = r[1] /\ a.e = r[2] /\ a.prot = prot /\ prot \in Prots
    BY <1>3, <1>4 DEF Area, VmArea, Prots
  <1>7. IsRange(a) /\ PagesOf(a) = S
    BY <1>2, <1>4, <1>6 DEF IsRange, PagesOf
  <1>8. PICK op2 : op2 = Mk("protect", a)
    OBVIOUS
  <1>9. op2 \in VmOps /\ op2.pc = "protect" /\ op2.area = a /\ PlainOK(op2) /\ PendingOf(op2) = S
    <2>1. "protect" \in VmPcs
      BY DEF VmPcs
    <2> QED BY <1>6, <1>7, <1>8, <2>1, OpMake
  <1>10. PendingOf(vmOp[t]) = {}
    BY <1>1, <1>5, PlainPending DEF OpOK
  <1>11. /\ TreeOK(tree') /\ \A p : p \notin S => Views(tree', p) = Views(tree, p)
         /\ \A p \in S : Views(tree', p) = {Reprot(v, prot) : v \in Views(tree, p)}
         /\ \A x \in tree : PagesOf(x) \cap S = {} => x \in tree'
    <2>1. PICK b, e : b = r[1] /\ e = r[2]
      OBVIOUS
    <2>2. TreeOK(tree) /\ b \in Nat /\ e \in Nat /\ b < e /\ prot \in Prots
      BY <1>4, <1>5, <1>6, <2>1
    <2>3. /\ TreeOK(Protected(tree, b, e, prot))
          /\ \A p : p \notin b .. e - 1 => Views(Protected(tree, b, e, prot), p) = Views(tree, p)
          /\ \A p \in b .. e - 1 : Views(Protected(tree, b, e, prot), p)
                                    = {Reprot(v, prot) : v \in Views(tree, p)}
          /\ \A x \in tree : PagesOf(x) \cap (b .. e - 1) = {} => x \in Protected(tree, b, e, prot)
      BY <2>2, ProtectedFacts
    <2>4. tree' = Protected(tree, b, e, prot) /\ S = b .. e - 1
      BY <1>1, <1>2, <2>1
    <2> QED BY <2>3, <2>4
  <1>12. Changes(tree, host, tree', host', S)
    BY <1>1, <1>11 DEF Changes
  <1>13. ASSUME NEW p \in S
         PROVE  /\ User(tree', p)
                /\ \A v \in Views(tree', p) : v.at.prot = prot /\ v.at.page = host[p].page
    <2>1. User(tree, p) /\ p \in vmOwn[t]
      BY <1>4 DEF AllUser
    <2>2. Agrees(Views(tree, p), host[p])
      BY <1>10, <2>1, OwnAgrees
    <2>3. ASSUME NEW v \in Views(tree', p)
          PROVE  ~v.internal /\ ~v.unmapped /\ v.at.prot = prot /\ v.at.page = host[p].page
      <3>1. PICK w \in Views(tree, p) : v = Reprot(w, prot)
        BY <1>11, <2>3
      <3>2. ~w.internal /\ ~w.unmapped /\ host[p].page = w.at.page
        BY <2>1, <2>2 DEF User, Agrees, MappedAs
      <3> QED BY <1>5, <3>1, <3>2, ReprotFacts
    <2>4. Views(tree', p) # {}
      BY <1>11, <2>1 DEF User
    <2> QED BY <2>3, <2>4 DEF User
  <1>14. PagesOf(slab[t]) \cap (vmOwn[t] \cup S) = {}
    BY <1>4, <1>5 DEF OwnOK
  <1>15. AllUser(tree', vmOwn[t])
    <2>1. \A p \in vmOwn[t] : p \notin S => User(tree', p)
      BY <1>5, <1>11 DEF OwnOK, AllUser, User
    <2> QED BY <2>1, <1>13 DEF AllUser
  <1>16. SlabOK(tree', slab[t])
    BY <1>5, <1>12, <1>14, OwnAfter
  <1>17. OwnOK(tree', op2, vmOwn[t], slab[t])
    BY <1>4, <1>7, <1>9, <1>14, <1>15 DEF OwnOK
  <1>18. OpOK(tree', host', op2)
    <2>1. ProtectOK(tree', host', op2)
      BY <1>1, <1>6, <1>7, <1>9, <1>13 DEF ProtectOK
    <2> QED BY <1>9, <2>1 DEF OpOK
  <1>19. /\ S \subseteq Zone(t) \cup {}
         /\ vmOwn[t] \cup PagesOf(slab[t]) \cup PendingOf(op2) \subseteq Zone(t) \cup {}
    BY <1>4, <1>5, <1>9
  <1>20. Moves(t, op2, vmOwn[t], slab[t])
    BY <1>1, <1>3, <1>5, <1>8, SameMoves DEF Moves
  <1>21. PlainMove(t, S, {}, op2, vmOwn[t], slab[t])
    BY <1>1, <1>5, <1>9, <1>10, <1>11, <1>12, <1>16, <1>17, <1>18, <1>19, <1>20 DEF PlainMove, VmInv
  <1> QED BY <1>21, PlainStep

(* mprotect in the host: both agree again, where it succeeds. *)
LEMMA HostProtectKeeps ==
    ASSUME VmInv, NEW t \in VmThreads, HostProtect(t)
    PROVE  VmInv'
  <1>0. PICK a : a = vmOp[t].area
    OBVIOUS
  <1>1. PICK done \in SUBSET PagesOf(a) :
        /\ vmOp[t].pc = "protect" /\ vmOp' = [vmOp EXCEPT ![t] = Idle]
        /\ host' = [p \in Pages |->
                      IF p \in done THEN [prot |-> a.prot, page |-> host[p].page, old |-> FALSE]
                      ELSE IF p \in PagesOf(a) THEN [host[p] EXCEPT !.old = TRUE] ELSE host[p]]
        /\ UNCHANGED <<tree, vmOwn, slab, brkCur, brkLock, vmBug>>
    BY <1>0 DEF HostProtect, At, Does
  <1>2. /\ VmTypes /\ TreeOK(tree) /\ host \in HostMem /\ brkLock # t
        /\ OwnOK(tree, vmOp[t], vmOwn[t], slab[t]) /\ OpOK(tree, host, vmOp[t])
    BY <1>1, Facts
  <1>3. /\ PlainOK(vmOp[t]) /\ IsRange(a)
        /\ \A p \in PagesOf(a) : \A v \in Views(tree, p) : v.at.prot = a.prot /\ v.at.page = host[p].page
    BY <1>0, <1>1, <1>2 DEF OpOK, ProtectOK
  <1>4. PendingOf(vmOp[t]) = PagesOf(a)
    BY <1>0, <1>1, <1>3, PlainPending
  <1>5. PagesOf(a) \subseteq Pages /\ a.prot \in Prots
    BY <1>3, RangePages DEF IsRange, VmArea
  <1> DEFINE new(p) == IF p \in done THEN [prot |-> a.prot, page |-> host[p].page, old |-> FALSE]
                       ELSE IF p \in PagesOf(a) THEN [host[p] EXCEPT !.old = TRUE] ELSE host[p]
  <1>6. ASSUME NEW p \in Pages
        PROVE  /\ new(p) \in [prot : Prots, page : Int, old : BOOLEAN]
               /\ p \notin PagesOf(a) => new(p) = host[p]
               /\ p \in PagesOf(a) => new(p).page = host[p].page /\ (~new(p).old => new(p).prot = a.prot)
    <2>1. host[p] \in [prot : Prots, page : Int, old : BOOLEAN]
      BY <1>2 DEF HostMem
    <2>2. CASE p \in done
      BY <1>5, <2>1, <2>2
    <2>3. CASE p \in PagesOf(a) \ done
      BY <2>1, <2>3
    <2>4. CASE p \notin PagesOf(a)
      BY <1>1, <2>1, <2>4
    <2> QED BY <2>2, <2>3, <2>4
  <1>12. host' = [p \in Pages |-> new(p)]
    BY <1>1
  <1> HIDE DEF new
  <1>13. host' \in HostMem /\ \A p \in Pages : host'[p] = new(p)
    BY <1>6, <1>12 DEF HostMem
  <1>7. Changes(tree, host, tree', host', PagesOf(a))
    <2>1. \A p \in Pages \ PagesOf(a) : host'[p] = host[p]
      BY <1>6, <1>13
    <2> QED BY <1>1, <1>2, <1>13, <2>1, HostChanges
  <1>8. PagesOf(a) \subseteq vmOwn[t] /\ PagesOf(a) \cap PagesOf(slab[t]) = {} /\ AllUser(tree, vmOwn[t])
    BY <1>0, <1>1, <1>2, <1>4 DEF OwnOK
  <1>9. ASSUME NEW p \in PagesOf(a) PROVE Agrees(Views(tree', p), host'[p])
    <2>1. User(tree, p)
      BY <1>8 DEF AllUser
    <2>2. ASSUME NEW v \in Views(tree, p) PROVE MappedAs(host'[p], v.at)
      <3>1. v.at.prot = a.prot /\ v.at.page = host[p].page
        BY <1>3
      <3>2. host'[p].page = host[p].page /\ (~host'[p].old => host'[p].prot = a.prot)
        BY <1>5, <1>6, <1>13
      <3> QED BY <3>1, <3>2 DEF MappedAs
    <2> QED BY <1>1, <2>1, <2>2 DEF Agrees, User
  <1>10. OpOK(tree', host', Idle)
    BY IdleFacts DEF OpOK
  <1>11. InnerMove(t, PagesOf(a), Idle, slab[t])
    BY <1>1, <1>2, <1>4, <1>7, <1>8, <1>9, <1>10, <1>13, IdleFacts, SameMoves DEF InnerMove
  <1> QED BY <1>11, InnerStep

(* The LibOS can always give back its memory. *)
LEMMA SlabFacts ==
    ASSUME VmInv, NEW t \in VmThreads, vmOp[t].pc = "idle", slab[t] # NoArea
    PROVE  /\ IsRange(slab[t]) /\ AllViews(tree, slab[t]) /\ brkLock # t /\ PendingOf(vmOp[t]) = {}
           /\ ~Refused(slab[t].b, slab[t].e, TRUE)
  <1>1. SlabOK(tree, slab[t]) /\ brkLock # t /\ OpOK(tree, host, vmOp[t]) /\ TreeOK(tree)
    BY Facts
  <1>2. IsRange(slab[t]) /\ slab[t].internal = TRUE /\ AllViews(tree, slab[t])
    BY <1>1 DEF SlabOK
  <1>3. PendingOf(vmOp[t]) = {}
    BY <1>1, PlainPending DEF OpOK
  <1>4. PICK a : a = slab[t]
    OBVIOUS
  <1>5. a.b \in Nat /\ a.e \in Nat /\ a.b < a.e /\ PagesOf(a) = a.b .. a.e - 1
    BY <1>2, <1>4 DEF IsRange, VmArea, PagesOf
  <1>6. \A p : View(a, p).internal = TRUE
    BY <1>2, <1>4 DEF View
  <1>7. \A p \in a.b .. a.e - 1 : \A v \in Views(tree, p) : v.internal = TRUE
    BY <1>2, <1>4, <1>5, <1>6 DEF AllViews
  <1>8. ~Refused(a.b, a.e, TRUE)
    BY <1>1, <1>5, <1>7, RefusedViews
  <1> QED BY <1>1, <1>2, <1>3, <1>4, <1>8

(* The LibOS unmaps its memory. *)
LEMMA SlabFreeKeeps ==
    ASSUME VmInv, NEW t \in VmThreads, SlabFree(t)
    PROVE  VmInv'
  <1>0. PICK a : a = slab[t]
    OBVIOUS
  <1>1. vmOp[t].pc = "idle" /\ slab[t] # NoArea
    BY DEF SlabFree, Calls
  <1>2. /\ IsRange(a) /\ AllViews(tree, a) /\ brkLock # t /\ PendingOf(vmOp[t]) = {}
        /\ ~Refused(a.b, a.e, TRUE)
    BY <1>0, <1>1, SlabFacts
  <1>3. PICK op2 : op2 = Mk("free", a)
    OBVIOUS
  <1>4. /\ op2 \in VmOps /\ op2.pc = "free" /\ op2.area = a /\ PlainOK(op2) /\ PendingOf(op2) = PagesOf(a)
    <2>1. "free" \in VmPcs /\ a \in VmArea
      BY <1>2 DEF VmPcs, IsRange
    <2> QED BY <1>3, <2>1, OpMake
  <1>5. /\ vmOp' = [vmOp EXCEPT ![t] = op2] /\ tree' = Put(tree, Tmp(a)) /\ slab' = [slab EXCEPT ![t] = NoArea]
        /\ UNCHANGED <<host, vmOwn, brkCur, brkLock, vmBug>>
    BY <1>0, <1>2, <1>3 DEF SlabFree, Does, BkeepMunmap, Replaces, Put, Mk
  <1>6. TreeOK(tree) /\ host \in HostMem
    BY Facts
  <1>7. TreeOK(tree') /\ Tmp(a) \in tree' /\ Changes(tree, host, tree', host', PagesOf(a))
    BY <1>2, <1>5, <1>6, TmpPut
  <1>8. OpOK(tree', host', op2)
    BY <1>2, <1>4, <1>7, TmpOp
  <1>9. InnerMove(t, PagesOf(a), op2, NoArea)
    BY <1>0, <1>1, <1>2, <1>4, <1>5, <1>6, <1>7, <1>8, NoAreaFacts DEF InnerMove
  <1> QED BY <1>9, InnerStep

(* The PAL has unmapped its memory, then says so. *)
LEMMA PalFreeKeeps ==
    ASSUME VmInv, NEW t \in VmThreads, PalFree(t)
    PROVE  VmInv'
  <1>0. PICK a : a = slab[t]
    OBVIOUS
  <1>1. vmOp[t].pc = "idle" /\ slab[t] # NoArea
    BY DEF PalFree, Calls
  <1>2. IsRange(a) /\ AllViews(tree, a) /\ brkLock # t /\ PendingOf(vmOp[t]) = {}
    BY <1>0, <1>1, SlabFacts
  <1>3. PICK op2 : op2 = Mk("pal_free", a)
    OBVIOUS
  <1>4. /\ op2 \in VmOps /\ op2.pc = "pal_free" /\ op2.area = a /\ PlainOK(op2) /\ PendingOf(op2) = PagesOf(a)
    <2>1. "pal_free" \in VmPcs /\ a \in VmArea
      BY <1>2 DEF VmPcs, IsRange
    <2> QED BY <1>3, <2>1, OpMake
  <1>5. /\ vmOp' = [vmOp EXCEPT ![t] = op2] /\ host' = HostWithout(a) /\ slab' = [slab EXCEPT ![t] = NoArea]
        /\ UNCHANGED <<tree, vmOwn, brkCur, brkLock, vmBug>>
    BY <1>0, <1>3 DEF PalFree, Does, Mk
  <1>6. TreeOK(tree) /\ host \in HostMem /\ PagesOf(a) \subseteq Pages
    BY <1>2, Facts, RangePages
  <1>7. /\ host' \in HostMem /\ Changes(tree, host, tree', host', PagesOf(a))
        /\ AllEmpty(host', PagesOf(a))
    BY <1>5, <1>6, WithoutFacts
  <1>8. OpOK(tree', host', op2)
    <2>1. Covered(tree', PagesOf(a))
      BY <1>2, <1>5 DEF AllViews, Covered
    <2> QED BY <1>2, <1>4, <1>7, <2>1 DEF OpOK, PalFreeOK
  <1>9. InnerMove(t, PagesOf(a), op2, NoArea)
    BY <1>0, <1>1, <1>2, <1>4, <1>5, <1>6, <1>7, <1>8, NoAreaFacts DEF InnerMove
  <1> QED BY <1>9, InnerStep

(* pal_mem_bkeep_free. *)
LEMMA PalMemBkeepFreeKeeps ==
    ASSUME VmInv, NEW t \in VmThreads, PalMemBkeepFree(t)
    PROVE  VmInv'
  <1>0. PICK a : a = vmOp[t].area
    OBVIOUS
  <1>1. PICK op2 : op2 = [vmOp[t] EXCEPT !.pc = "remove_tmp"]
    OBVIOUS
  <1>2. /\ vmOp[t].pc = "pal_free" /\ tree' = Put(tree, Tmp(a)) /\ vmOp' = [vmOp EXCEPT ![t] = op2]
        /\ UNCHANGED <<host, vmOwn, slab, brkCur, brkLock, vmBug>>
    BY <1>0, <1>1 DEF PalMemBkeepFree, At, Does, BkeepMunmap, Replaces, Put
  <1>3. /\ VmTypes /\ TreeOK(tree) /\ host \in HostMem /\ vmOp[t] \in VmOps /\ brkLock # t
        /\ OwnOK(tree, vmOp[t], vmOwn[t], slab[t]) /\ OpOK(tree, host, vmOp[t])
    BY <1>2, Facts
  <1>4. PlainOK(vmOp[t]) /\ IsRange(a) /\ AllEmpty(host, PagesOf(a))
    BY <1>0, <1>2, <1>3 DEF OpOK, PalFreeOK
  <1>5. /\ op2 \in VmOps /\ op2.pc = "remove_tmp" /\ op2.area = a /\ op2.todo = vmOp[t].todo
        /\ op2.new = vmOp[t].new
    BY <1>0, <1>1, <1>3 DEF VmOps, VmPcs
  <1>6. PlainOK(op2)
    BY <1>4, <1>5 DEF PlainOK
  <1>7. PendingOf(vmOp[t]) = PagesOf(a) /\ PendingOf(op2) = PagesOf(a)
    BY <1>0, <1>2, <1>4, <1>5, <1>6, PlainPending
  <1>8. TreeOK(tree') /\ Tmp(a) \in tree' /\ Changes(tree, host, tree', host', PagesOf(a))
    BY <1>2, <1>3, <1>4, TmpPut
  <1>9. OpOK(tree', host', op2)
    BY <1>2, <1>4, <1>5, <1>6, <1>8, TmpOp
  <1>10. PagesOf(a) \cap PagesOf(slab[t]) = {}
    BY <1>3, <1>7 DEF OwnOK
  <1>11. InnerMove(t, PagesOf(a), op2, slab[t])
    BY <1>2, <1>3, <1>5, <1>7, <1>8, <1>9, <1>10, SameMoves DEF InnerMove
  <1> QED BY <1>11, InnerStep

-----------------------------------------------------------------------------
(* brk *)

(* What brk finds of the heap. *)
LEMMA HeapFacts ==
    ASSUME VmInv, NEW t \in VmThreads, brkLock \in {0, t}
    PROVE  /\ Heap \subseteq Pages /\ brkCur \in Nat /\ BrkStart \in Nat /\ BrkEnd \in Nat
           /\ BrkStart <= brkCur /\ brkCur <= BrkEnd
           /\ \A p \in Heap : p \notin PendingOf(vmOp[t]) => Agrees(Views(tree, p), host[p])
           /\ \A p \in Heap : Views(tree, p) # {} /\ \A v \in Views(tree, p) : v.internal = FALSE
           /\ \A b \in Nat, e \in Nat : BrkStart <= b /\ b < e /\ e <= BrkEnd => ~Refused(b, e, FALSE)
  <1>1. /\ Heap \subseteq Pages /\ brkCur \in Nat /\ BrkStart \in Nat /\ BrkEnd \in Nat
        /\ BrkStart <= brkCur /\ brkCur <= BrkEnd /\ TreeOK(tree)
    BY VmAssumption DEF VmInv, VmTypes, Heap, Pages
  <1>2. ASSUME NEW p \in Heap, p \notin PendingOf(vmOp[t]) PROVE Agrees(Views(tree, p), host[p])
    <2>1. ASSUME NEW u \in VmThreads, u # t PROVE p \notin PendingOf(vmOp[u])
      <3>1. brkLock # u
        BY <2>1, VmAssumption
      <3>2. p \notin Zone(u)
        BY <3>1 DEF VmInv, Apart
      <3> QED BY <3>2, PendingInZone
    <2> QED BY <1>1, <1>2, <2>1 DEF VmInv, PagesOK
  <1>3. \A p \in Heap : Views(tree, p) # {} /\ \A v \in Views(tree, p) : v.internal = FALSE
    BY <1>1, ViewsBool DEF VmInv, HeapOK
  <1>4. ASSUME NEW b \in Nat, NEW e \in Nat, BrkStart <= b, b < e, e <= BrkEnd
        PROVE  ~Refused(b, e, FALSE)
    <2>1. b .. e - 1 \subseteq Heap
      BY <1>1, <1>4 DEF Heap
    <2>2. \A p \in b .. e - 1 : \A v \in Views(tree, p) : v.internal = FALSE
      BY <1>3, <2>1
    <2> QED BY <1>1, <1>4, <2>2, RefusedViews
  <1> QED BY <1>1, <1>2, <1>3, <1>4

(* The host has nothing mapped in the free part of the heap. *)
LEMMA HeapFreeEmpty ==
    ASSUME VmInv, NEW t \in VmThreads, brkLock \in {0, t}, NEW lim, HeapFree(tree, lim),
           NEW p \in lim .. BrkEnd - 1, p \in Heap, p \notin PendingOf(vmOp[t])
    PROVE  host[p] = NotMapped
  <1>1. Agrees(Views(tree, p), host[p])
    BY HeapFacts
  <1> QED BY <1>1 DEF Agrees, HeapFree

(* An area of the user is put into the heap. *)
LEMMA HeapPut ==
    ASSUME VmInv, NEW t \in VmThreads, brkLock \in {0, t}, NEW n, IsRange(n), n.internal = FALSE,
           PagesOf(n) \subseteq Heap, tree' = Put(tree, n), UNCHANGED host
    PROVE  /\ TreeOK(tree') /\ Changes(tree, host, tree', host', PagesOf(n)) /\ AllViews(tree', n)
           /\ \A p \in Heap : Views(tree', p) # {} /\ \A v \in Views(tree', p) : ~v.internal
           /\ \A p : p \notin PagesOf(n) => Views(tree', p) = Views(tree, p)
           /\ n.unmapped = TRUE => \A p \in PagesOf(n) : \A v \in Views(tree', p) : v.unmapped
  <1>1. TreeOK(tree)
    BY DEF VmInv, VmTypes
  <1>2. /\ TreeOK(tree')
        /\ \A p : p \in PagesOf(n) => Views(tree', p) = {View(n, p)}
        /\ \A p : p \notin PagesOf(n) => Views(tree', p) = Views(tree, p)
    BY <1>1, PutFacts
  <1>3. Changes(tree, host, tree', host', PagesOf(n))
    BY <1>1, PutChanges
  <1>4. \A p : View(n, p).internal = FALSE /\ (n.unmapped = TRUE => View(n, p).unmapped = TRUE)
    BY DEF View
  <1>5. \A p \in Heap : Views(tree', p) # {} /\ \A v \in Views(tree', p) : ~v.internal
    BY <1>2, <1>4, HeapFacts
  <1>6. n.unmapped = TRUE => \A p \in PagesOf(n) : \A v \in Views(tree', p) : v.unmapped
    BY <1>2, <1>4
  <1> QED BY <1>2, <1>3, <1>5, <1>6 DEF AllViews

(* An area in the heap. *)
LEMMA HeapArea ==
    ASSUME NEW n \in VmArea, BrkStart <= n.b, n.b < n.e, n.e <= BrkEnd
    PROVE  IsRange(n) /\ PagesOf(n) = n.b .. n.e - 1 /\ PagesOf(n) \subseteq Heap
  <1>1. n.b \in Nat /\ n.e \in Nat /\ n.e <= VmEnd
    BY VmAssumption DEF VmArea
  <1>2. PagesOf(n) \subseteq Heap
    BY <1>1, VmAssumption DEF Heap, PagesOf
  <1> QED BY <1>1, <1>2 DEF IsRange, PagesOf

(* What brk has in its hands. *)
LEMMA BrkFacts ==
    ASSUME VmInv, NEW t \in VmThreads, brkLock = t, NEW a, a = vmOp[t].area
    PROVE  /\ PlainOK(vmOp[t]) /\ IsRange(a) /\ PagesOf(a) \subseteq Heap /\ PendingOf(vmOp[t]) = PagesOf(a)
           /\ a.b \in Nat /\ a.e \in Nat /\ BrkStart <= a.b /\ a.b < a.e /\ a.e <= BrkEnd
           /\ PagesOf(a) = a.b .. a.e - 1
           /\ vmOp[t].pc = "alloc" => a.b = brkCur /\ AllEmpty(host, PagesOf(a)) /\ HeapFree(tree, a.e)
           /\ vmOp[t].pc = "free" => a.e = brkCur /\ HeapFree(tree, a.b)
  <1>1. BrkOK(tree, host, vmOp[t], brkCur)
    BY Facts
  <1>2. /\ PlainOK(vmOp[t]) /\ IsRange(a) /\ PagesOf(a) \subseteq Heap /\ vmOp[t].pc \in {"alloc", "free"}
        /\ vmOp[t].pc = "alloc" => a.b = brkCur /\ AllEmpty(host, PagesOf(a)) /\ HeapFree(tree, a.e)
        /\ vmOp[t].pc = "free" => a.e = brkCur /\ HeapFree(tree, a.b)
    BY <1>1 DEF BrkOK
  <1>3. PendingOf(vmOp[t]) = PagesOf(a)
    BY <1>2, PlainPending
  <1>4. a.b \in Nat /\ a.e \in Nat /\ a.b < a.e /\ PagesOf(a) = a.b .. a.e - 1
    BY <1>2 DEF IsRange, VmArea, PagesOf
  <1>5. a.b \in PagesOf(a) /\ a.e - 1 \in PagesOf(a)
    BY <1>4
  <1>6. BrkStart <= a.b /\ a.e <= BrkEnd
    <2>1. a.b \in Heap /\ a.e - 1 \in Heap
      BY <1>2, <1>5
    <2>2. BrkStart \in Nat /\ BrkEnd \in Nat
      BY VmAssumption
    <2> QED BY <1>4, <2>1, <2>2 DEF Heap
  <1> QED BY <1>2, <1>3, <1>4, <1>6

(* brk when the host cannot map: the heap is as before; this is never      *)
(* refused.                                                                *)
LEMMA AllocFailsBrk ==
    ASSUME VmInv, NEW t \in VmThreads, HostAllocFails(t), brkLock = t
    PROVE  VmInv'
  <1>0. PICK a : a = vmOp[t].area
    OBVIOUS
  <1>1. /\ vmOp[t].pc = "alloc"
        /\ IF Refused(a.b, BrkEnd, FALSE)
           THEN Bug(t)
           ELSE /\ Replaces(Area(a.b, BrkEnd, FALSE, TRUE, "none", -1))
                /\ vmOp' = [vmOp EXCEPT ![t] = Idle]
                /\ brkLock' = 0
                /\ UNCHANGED <<host, vmOwn, slab, brkCur, vmBug>>
    BY <1>0 DEF HostAllocFails, At, Does
  <1>2. /\ PendingOf(vmOp[t]) = PagesOf(a) /\ PagesOf(a) = a.b .. a.e - 1
        /\ a.b \in Nat /\ a.e \in Nat /\ BrkStart <= a.b /\ a.b < a.e /\ a.e <= BrkEnd
        /\ a.b = brkCur /\ AllEmpty(host, PagesOf(a)) /\ HeapFree(tree, a.e) /\ PagesOf(a) \subseteq Heap
    BY <1>0, <1>1, BrkFacts
  <1>3. BrkEnd \in Nat /\ a.b < BrkEnd /\ Heap \subseteq Pages /\ brkCur \in BrkStart .. BrkEnd
    <2>1. brkLock \in {0, t}
      OBVIOUS
    <2>2. /\ Heap \subseteq Pages /\ brkCur \in Nat /\ BrkStart \in Nat /\ BrkEnd \in Nat
          /\ BrkStart <= brkCur /\ brkCur <= BrkEnd
      BY <2>1, HeapFacts
    <2> QED BY <1>2, <2>2
  <1>4. ~Refused(a.b, BrkEnd, FALSE)
    <2>1. brkLock \in {0, t} /\ BrkEnd <= BrkEnd
      BY <1>3
    <2> QED BY <1>2, <1>3, <2>1, HeapFacts
  <1>5. PICK n : n = Area(a.b, BrkEnd, FALSE, TRUE, "none", -1)
    OBVIOUS
  <1>6. /\ IsRange(n) /\ n.internal = FALSE /\ n.unmapped = TRUE
        /\ PagesOf(n) = a.b .. BrkEnd - 1 /\ PagesOf(n) \subseteq Heap
    <2>1. n \in VmArea /\ n.b = a.b /\ n.e = BrkEnd
      BY <1>2, <1>3, <1>5 DEF Area, VmArea, Prots
    <2>2. n.internal = FALSE /\ n.unmapped = TRUE
      BY <1>5 DEF Area
    <2>3. BrkEnd <= BrkEnd
      BY <1>3
    <2> QED BY <1>2, <1>3, <2>1, <2>2, <2>3, HeapArea
  <1>7. /\ vmOp' = [vmOp EXCEPT ![t] = Idle] /\ brkLock' = 0 /\ tree' = Put(tree, n)
        /\ UNCHANGED <<host, vmOwn, slab, brkCur, vmBug>>
    <2>1. Replaces(n)
      BY <1>1, <1>4, <1>5
    <2> QED BY <1>1, <1>4, <2>1 DEF Replaces, Put
  <1>8. /\ TreeOK(tree') /\ Changes(tree, host, tree', host', PagesOf(n))
        /\ \A p \in Heap : Views(tree', p) # {} /\ \A v \in Views(tree', p) : ~v.internal
        /\ \A p \in PagesOf(n) : \A v \in Views(tree', p) : v.unmapped
    BY <1>6, <1>7, HeapPut
  <1>9. HeapOK(tree', brkLock', brkCur')
    BY <1>2, <1>6, <1>7, <1>8 DEF HeapOK, HeapFree
  <1>10. ASSUME NEW p \in PagesOf(n) PROVE Agrees(Views(tree', p), host'[p])
    <2>1. host[p] = NotMapped
      <3>1. CASE p \in PagesOf(a)
        BY <1>2, <3>1 DEF AllEmpty
      <3>2. CASE p \notin PagesOf(a)
        <4>1. p \in a.e .. BrkEnd - 1
          BY <1>2, <1>3, <1>6, <3>2
        <4> QED BY <1>2, <1>6, <3>2, <4>1, HeapFreeEmpty
      <3> QED BY <3>1, <3>2
    <2> QED BY <1>7, <1>8, <2>1 DEF Agrees
  <1>11. host \in HostMem /\ PagesOf(a) \subseteq PagesOf(n)
    BY <1>2, <1>3, <1>6, Facts
  <1>12. t # 0
    BY VmAssumption
  <1>13. BrkMove(t, PagesOf(n), Idle)
    BY <1>2, <1>3, <1>6, <1>7, <1>8, <1>9, <1>10, <1>11, <1>12, IdleFacts DEF BrkMove, VmInv
  <1> QED BY <1>13, BrkStep

(* brk after the host has unmapped the end of the heap. *)
LEMMA HostFreeBrk ==
    ASSUME VmInv, NEW t \in VmThreads, HostFree(t), brkLock = t
    PROVE  VmInv'
  <1>0. PICK a : a = vmOp[t].area
    OBVIOUS
  <1>1. /\ vmOp[t].pc = "free" /\ host' = HostWithout(a) /\ brkLock' = 0 /\ brkCur' = a.b
        /\ vmOp' = [vmOp EXCEPT ![t] = Idle] /\ UNCHANGED <<tree, vmOwn, slab, vmBug>>
    BY <1>0 DEF HostFree, At, Does
  <1>2. /\ PendingOf(vmOp[t]) = PagesOf(a) /\ PagesOf(a) = a.b .. a.e - 1
        /\ a.b \in Nat /\ a.e \in Nat /\ BrkStart <= a.b /\ a.b < a.e /\ a.e <= BrkEnd
        /\ HeapFree(tree, a.b) /\ PagesOf(a) \subseteq Heap
    BY <1>0, <1>1, BrkFacts
  <1>3. Heap \subseteq Pages /\ BrkStart \in Nat /\ BrkEnd \in Nat
    BY HeapFacts
  <1>4. a.b \in BrkStart .. BrkEnd
    BY <1>2, <1>3
  <1>5. TreeOK(tree) /\ host \in HostMem
    BY Facts
  <1>6. /\ host' \in HostMem /\ Changes(tree, host, tree', host', PagesOf(a))
        /\ AllEmpty(host', PagesOf(a))
    BY <1>1, <1>2, <1>3, <1>5, WithoutFacts
  <1>7. HeapOK(tree', brkLock', brkCur')
    BY <1>1, <1>2 DEF VmInv, HeapOK
  <1>8. ASSUME NEW p \in PagesOf(a) PROVE Agrees(Views(tree', p), host'[p])
    <2>1. p \in a.b .. BrkEnd - 1
      BY <1>2, <1>3
    <2>2. \A v \in Views(tree, p) : v.unmapped
      BY <1>2, <2>1 DEF HeapFree
    <2> QED BY <1>1, <1>6, <2>2 DEF Agrees, AllEmpty
  <1>9. t # 0
    BY VmAssumption
  <1>10. BrkMove(t, PagesOf(a), Idle)
    BY <1>1, <1>2, <1>4, <1>5, <1>6, <1>7, <1>8, <1>9, IdleFacts DEF BrkMove, VmInv
  <1> QED BY <1>10, BrkStep

(* brk takes the lock and extends the heap. *)
LEMMA BrkGrowKeeps ==
    ASSUME VmInv, NEW t \in VmThreads, BrkGrow(t)
    PROVE  VmInv'
  <1>1. PICK new \in brkCur + 1 .. BrkEnd :
           /\ vmOp[t].pc = "idle" /\ brkLock = 0
           /\ Replaces(Area(brkCur, new, FALSE, FALSE, "rw", -1))
           /\ vmOp' = [vmOp EXCEPT ![t] = Mk("alloc", Area(brkCur, new, FALSE, FALSE, "rw", -1))]
           /\ brkLock' = t /\ UNCHANGED <<host, vmOwn, slab, brkCur, vmBug>>
    BY DEF BrkGrow, Calls, Does, Mk
  <1>2. /\ brkCur \in Nat /\ BrkStart \in Nat /\ BrkEnd \in Nat /\ BrkStart <= brkCur /\ brkCur <= BrkEnd
        /\ Heap \subseteq Pages
    BY <1>1, HeapFacts
  <1>3. new \in Nat /\ brkCur < new /\ new <= BrkEnd /\ brkCur \in BrkStart .. BrkEnd
    BY <1>2
  <1>4. PICK n : n = Area(brkCur, new, FALSE, FALSE, "rw", -1)
    OBVIOUS
  <1>5. /\ IsRange(n) /\ n \in VmArea /\ n.b = brkCur /\ n.e = new /\ n.internal = FALSE /\ n.unmapped = FALSE
        /\ PagesOf(n) = brkCur .. new - 1 /\ PagesOf(n) \subseteq Heap
    <2>1. n \in VmArea /\ n.b = brkCur /\ n.e = new
      BY <1>2, <1>3, <1>4 DEF Area, VmArea, Prots
    <2>2. n.internal = FALSE /\ n.unmapped = FALSE
      BY <1>4 DEF Area
    <2> QED BY <1>2, <1>3, <2>1, <2>2, HeapArea
  <1>6. tree' = Put(tree, n)
    <2>1. Replaces(n)
      BY <1>1, <1>4
    <2> QED BY <2>1 DEF Replaces, Put
  <1>7. /\ TreeOK(tree') /\ Changes(tree, host, tree', host', PagesOf(n)) /\ AllViews(tree', n)
        /\ \A p \in Heap : Views(tree', p) # {} /\ \A v \in Views(tree', p) : ~v.internal
        /\ \A p : p \notin PagesOf(n) => Views(tree', p) = Views(tree, p)
    BY <1>1, <1>5, <1>6, HeapPut
  <1>8. PICK op2 : op2 = Mk("alloc", n)
    OBVIOUS
  <1>9. op2 \in VmOps /\ op2.pc = "alloc" /\ op2.area = n /\ PlainOK(op2) /\ PendingOf(op2) = PagesOf(n)
    <2>1. "alloc" \in VmPcs
      BY DEF VmPcs
    <2> QED BY <1>5, <1>8, <2>1, OpMake
  <1>10. t # 0 /\ brkLock # t /\ host \in HostMem /\ OpOK(tree, host, vmOp[t])
    BY <1>1, Facts, VmAssumption
  <1>11. PendingOf(vmOp[t]) = {}
    BY <1>1, <1>10, PlainPending DEF OpOK
  <1>12. HeapFree(tree, brkCur)
    BY <1>1 DEF VmInv, HeapOK
  <1>13. AllEmpty(host', PagesOf(n))
    <2>1. ASSUME NEW p \in PagesOf(n) PROVE host[p] = NotMapped
      <3>1. p \in brkCur .. BrkEnd - 1 /\ p \in Heap
        BY <1>2, <1>3, <1>5
      <3> QED BY <1>1, <1>11, <1>12, <3>1, HeapFreeEmpty
    <2> QED BY <1>1, <2>1 DEF AllEmpty
  <1>14. HeapFree(tree', new)
    <2>1. ASSUME NEW p \in new .. BrkEnd - 1 PROVE \A v \in Views(tree', p) : v.unmapped
      <3>1. p \in brkCur .. BrkEnd - 1 /\ p \notin PagesOf(n)
        BY <1>2, <1>3, <1>5
      <3> QED BY <1>7, <1>12, <3>1 DEF HeapFree
    <2> QED BY <2>1 DEF HeapFree
  <1>15. BrkOK(tree', host', op2, brkCur')
    BY <1>1, <1>5, <1>7, <1>9, <1>13, <1>14 DEF BrkOK
  <1>16. HeapOK(tree', brkLock', brkCur')
    BY <1>1, <1>7, <1>10 DEF HeapOK
  <1>17. vmOp' = [vmOp EXCEPT ![t] = op2]
    BY <1>1, <1>4, <1>8
  <1>18. BrkMove(t, PagesOf(n), op2)
    BY <1>1, <1>3, <1>5, <1>7, <1>9, <1>10, <1>11, <1>15, <1>16, <1>17 DEF BrkMove, VmInv
  <1> QED BY <1>18, BrkStep

(* brk takes the lock and cuts the heap. *)
LEMMA BrkShrinkKeeps ==
    ASSUME VmInv, NEW t \in VmThreads, BrkShrink(t)
    PROVE  VmInv'
  <1>1. PICK new \in BrkStart .. brkCur - 1 :
           /\ vmOp[t].pc = "idle" /\ brkLock = 0
           /\ Replaces(Area(new, BrkEnd, FALSE, TRUE, "none", -1))
           /\ vmOp' = [vmOp EXCEPT ![t] = Mk("free", Area(new, brkCur, FALSE, TRUE, "none", -1))]
           /\ brkLock' = t /\ UNCHANGED <<host, vmOwn, slab, brkCur, vmBug>>
    BY DEF BrkShrink, Calls, Does, Mk
  <1>2. /\ brkCur \in Nat /\ BrkStart \in Nat /\ BrkEnd \in Nat /\ BrkStart <= brkCur /\ brkCur <= BrkEnd
        /\ Heap \subseteq Pages
    BY <1>1, HeapFacts
  <1>3. /\ new \in Nat /\ BrkStart <= new /\ new < brkCur /\ new < BrkEnd /\ BrkEnd <= BrkEnd
        /\ brkCur \in BrkStart .. BrkEnd
    BY <1>2
  <1>4. PICK n : n = Area(new, BrkEnd, FALSE, TRUE, "none", -1)
    OBVIOUS
  <1>5. PICK a : a = Area(new, brkCur, FALSE, TRUE, "none", -1)
    OBVIOUS
  <1>6. /\ IsRange(n) /\ n.internal = FALSE /\ n.unmapped = TRUE
        /\ PagesOf(n) = new .. BrkEnd - 1 /\ PagesOf(n) \subseteq Heap
    <2>1. n \in VmArea /\ n.b = new /\ n.e = BrkEnd
      BY <1>2, <1>3, <1>4 DEF Area, VmArea, Prots
    <2>2. n.internal = FALSE /\ n.unmapped = TRUE
      BY <1>4 DEF Area
    <2> QED BY <1>2, <1>3, <2>1, <2>2, HeapArea
  <1>7. /\ IsRange(a) /\ a \in VmArea /\ a.b = new /\ a.e = brkCur
        /\ PagesOf(a) = new .. brkCur - 1 /\ PagesOf(a) \subseteq Heap
    <2>1. a \in VmArea /\ a.b = new /\ a.e = brkCur
      BY <1>2, <1>3, <1>5 DEF Area, VmArea, Prots
    <2> QED BY <1>2, <1>3, <2>1, HeapArea
  <1>8. tree' = Put(tree, n)
    <2>1. Replaces(n)
      BY <1>1, <1>4
    <2> QED BY <2>1 DEF Replaces, Put
  <1>9. /\ TreeOK(tree') /\ Changes(tree, host, tree', host', PagesOf(n))
        /\ \A p \in Heap : Views(tree', p) # {} /\ \A v \in Views(tree', p) : ~v.internal
        /\ \A p \in PagesOf(n) : \A v \in Views(tree', p) : v.unmapped
    BY <1>1, <1>6, <1>8, HeapPut
  <1>10. PICK op2 : op2 = Mk("free", a)
    OBVIOUS
  <1>11. op2 \in VmOps /\ op2.pc = "free" /\ op2.area = a /\ PlainOK(op2) /\ PendingOf(op2) = PagesOf(a)
    <2>1. "free" \in VmPcs
      BY DEF VmPcs
    <2> QED BY <1>7, <1>10, <2>1, OpMake
  <1>12. t # 0 /\ brkLock # t /\ host \in HostMem /\ OpOK(tree, host, vmOp[t])
    BY <1>1, Facts, VmAssumption
  <1>13. PendingOf(vmOp[t]) = {}
    BY <1>1, <1>12, PlainPending DEF OpOK
  <1>14. HeapFree(tree, brkCur)
    BY <1>1 DEF VmInv, HeapOK
  <1>15. HeapFree(tree', new)
    BY <1>6, <1>9 DEF HeapFree
  <1>16. BrkOK(tree', host', op2, brkCur')
    BY <1>1, <1>7, <1>11, <1>15 DEF BrkOK
  <1>17. HeapOK(tree', brkLock', brkCur')
    BY <1>1, <1>9, <1>12 DEF HeapOK
  <1>18. ASSUME NEW p \in PagesOf(n), p \notin PagesOf(a) PROVE Agrees(Views(tree', p), host'[p])
    <2>1. p \in brkCur .. BrkEnd - 1 /\ p \in Heap
      BY <1>2, <1>3, <1>6, <1>7, <1>18
    <2>2. host[p] = NotMapped
      BY <1>1, <1>13, <1>14, <2>1, HeapFreeEmpty
    <2> QED BY <1>1, <1>9, <2>2 DEF Agrees
  <1>19. vmOp' = [vmOp EXCEPT ![t] = op2]
    BY <1>1, <1>5, <1>10
  <1>20. BrkMove(t, PagesOf(n), op2)
    BY <1>1, <1>3, <1>6, <1>9, <1>11, <1>12, <1>13, <1>16, <1>17, <1>18, <1>19 DEF BrkMove, VmInv
  <1> QED BY <1>20, BrkStep

-----------------------------------------------------------------------------
(* The theorems *)

(* The invariant holds at the start. *)
LEMMA VmInvInit == VmInit => VmInv
  <1> SUFFICES ASSUME VmInit PROVE VmInv
    OBVIOUS
  <1> USE DEF VmInit
  <1>1. PICK n : n = Area(BrkStart, BrkEnd, FALSE, TRUE, "none", -1)
    OBVIOUS
  <1>2. BrkStart \in Nat /\ BrkEnd \in Nat /\ BrkStart < BrkEnd /\ BrkEnd <= VmEnd
    BY VmAssumption
  <1>3. /\ IsRange(n) /\ n.b = BrkStart /\ n.e = BrkEnd /\ n.internal = FALSE /\ n.unmapped = TRUE
        /\ PagesOf(n) = Heap
    <2>1. n \in VmArea /\ n.b = BrkStart /\ n.e = BrkEnd
      BY <1>1, <1>2 DEF Area, VmArea, Prots
    <2>2. n.internal = FALSE /\ n.unmapped = TRUE
      BY <1>1 DEF Area
    <2>3. IsRange(n) /\ PagesOf(n) = BrkStart .. BrkEnd - 1
      BY <1>2, <2>1 DEF IsRange, PagesOf
    <2> QED BY <2>1, <2>2, <2>3 DEF Heap
  <1>4. tree = {n}
    BY <1>1
  <1>5. TreeOK(tree)
    BY <1>3, <1>4 DEF TreeOK
  <1>6. host \in [Pages -> [prot : Prots, page : Int, old : BOOLEAN]] /\ \A p \in Pages : host[p] = NotMapped
    BY HostTypes
  <1>7. /\ vmOp \in [VmThreads -> VmOps] /\ \A t \in VmThreads : vmOp[t] = Idle
    BY IdleFacts
  <1>8. /\ vmOwn \in [VmThreads -> SUBSET Pages] /\ \A t \in VmThreads : vmOwn[t] = {}
    OBVIOUS
  <1>9. /\ slab \in [VmThreads -> VmArea] /\ \A t \in VmThreads : slab[t] = NoArea
    BY NoAreaFacts
  <1>10. VmTypes
    BY <1>2, <1>5, <1>6, <1>7, <1>8, <1>9 DEF VmTypes
  <1>11. \A t \in VmThreads : t # 0
    BY VmAssumption
  <1>12. \A t \in VmThreads : Zone(t) = {} /\ PagesOf(slab[t]) = {} /\ PendingOf(vmOp[t]) = {} /\ brkLock # t
    BY <1>7, <1>8, <1>9, <1>11, IdleFacts, NoAreaFacts DEF Zone
  <1>13. ASSUME NEW t \in VmThreads PROVE ThreadOK(t)
    <2>1. OpOK(tree, host, Idle)
      BY IdleFacts DEF OpOK
    <2>2. OwnOK(tree, Idle, {}, NoArea)
      BY IdleFacts, NoAreaFacts DEF OwnOK, AllUser
    <2> QED BY <1>7, <1>8, <1>9, <1>12, <2>1, <2>2 DEF ThreadOK, SlabOK
  <1>14. Apart
    BY <1>8, <1>12 DEF Apart
  <1>15. \A p : View(n, p).internal = FALSE /\ View(n, p).unmapped = TRUE
    BY <1>3 DEF View
  <1>16. \A p : Views(tree, p) = IF p \in Heap THEN {View(n, p)} ELSE {}
    BY <1>3, <1>4, Zenon DEF Views
  <1>17. HeapOK(tree, brkLock, brkCur)
    <2>1. \A p : \A v \in Views(tree, p) : v.internal = FALSE /\ v.unmapped = TRUE
      BY <1>15, <1>16
    <2> QED BY <1>16, <2>1 DEF HeapOK, HeapFree
  <1>18. PagesOK
    <2>1. \A p : \A v \in Views(tree, p) : v.unmapped = TRUE
      BY <1>15, <1>16
    <2> QED BY <1>6, <2>1 DEF PagesOK, Agrees
  <1> QED BY <1>10, <1>13, <1>14, <1>17, <1>18 DEF VmInv

(* The process ends when the host refuses to free memory. *)
LEMMA FreeFailsKeeps ==
    ASSUME VmInv, NEW t \in VmThreads, HostFreeFails(t)
    PROVE  VmInv'
  <1>1. UNCHANGED <<tree, host, vmOp, vmOwn, slab, brkCur, brkLock>> /\ vmBug' # "tree"
    BY DEF HostFreeFails
  <1> QED BY <1>1 DEF VmInv, VmTypes, ThreadOK, Apart, PagesOK, Zone

(* Every step keeps the invariant. *)
LEMMA VmInvStep == VmInv /\ [VmNext]_vmVars => VmInv'
  <1> SUFFICES ASSUME VmInv, [VmNext]_vmVars PROVE VmInv'
    OBVIOUS
  <1>1. CASE UNCHANGED vmVars
    BY <1>1 DEF vmVars, VmInv, VmTypes, ThreadOK, Apart, PagesOK, Zone
  <1>2. ASSUME NEW t \in VmThreads,
               \/ MmapAny(t) \/ SearchAgain(t) \/ MmapNoReplace(t) \/ SlabAlloc(t)
               \/ HostAlloc(t) \/ HostAllocFails(t) \/ Munmap(t) \/ UnmapNext(t) \/ HostFree(t)
               \/ HostFreeFails(t) \/ RemoveTmp(t) \/ MmapFixed(t) \/ FixedUnmap(t) \/ FixedFree(t) \/ FixedConvert(t)
               \/ FixedMap(t) \/ Mprotect(t) \/ HostProtect(t) \/ SlabFree(t) \/ PalFree(t)
               \/ PalMemBkeepFree(t) \/ BrkGrow(t) \/ BrkShrink(t)
        PROVE  VmInv'
    BY <1>2, MapKeeps, HostAllocKeeps, FreeFailsKeeps, AllocFailsPlain, AllocFailsBrk, MunmapKeeps, UnmapNextKeeps,
       HostFreePlain, HostFreeBrk, RemoveTmpKeeps, MmapFixedKeeps, FixedUnmapKeeps, FixedFreeKeeps,
       FixedConvertKeeps, FixedMapKeeps, MprotectKeeps, HostProtectKeeps, SlabFreeKeeps, PalFreeKeeps,
       PalMemBkeepFreeKeeps, BrkGrowKeeps, BrkShrinkKeeps
  <1> QED BY <1>1, <1>2 DEF VmNext

(* The invariant has what VmHostCalls says. *)
LEMMA InvHostCalls == VmInv => VmHostCalls
  <1> SUFFICES ASSUME VmInv PROVE VmHostCalls
    OBVIOUS
  <1>1. \A t : Pending(t) = PendingOf(vmOp[t])
    BY DEF Pending, PendingOf, TodoPages
  <1>2. ASSUME NEW t \in VmThreads, vmOp[t].pc = "alloc" PROVE AllEmpty(host, PagesOf(vmOp[t].area))
    <2>1. brkLock # t => AllocOK(tree, host, vmOp[t])
      BY <1>2, Facts DEF OpOK
    <2> QED BY <1>2, <2>1, BrkFacts DEF AllocOK
  <1>3. ASSUME NEW t \in VmThreads, NEW u \in VmThreads, t # u
        PROVE  Pending(t) \cap (Pending(u) \cup vmOwn[u] \cup PagesOf(slab[u])) = {}
    <2>1. Zone(t) \cap Zone(u) = {}
      BY <1>3 DEF VmInv, Apart
    <2>2. Pending(t) \subseteq Zone(t) /\ Pending(u) \subseteq Zone(u)
      BY <1>1, PendingInZone
    <2>3. vmOwn[u] \cup PagesOf(slab[u]) \subseteq Zone(u)
      BY DEF Zone
    <2> QED BY <2>1, <2>2, <2>3
  <1>4. vmBug # "tree"
    BY DEF VmInv
  <1> QED BY <1>2, <1>3, <1>4 DEF VmHostCalls, AllEmpty

(* The invariant has what VmHostAgrees says. *)
LEMMA InvHostAgrees == VmInv => VmHostAgrees
  <1> SUFFICES ASSUME VmInv, NEW p \in Pages, \A t \in VmThreads : p \notin Pending(t)
               PROVE  LET cover == {a \in tree : p \in PagesOf(a) /\ ~a.unmapped}
                      IN IF cover = {} THEN host[p] = NotMapped
                         ELSE \A a \in cover : /\ host[p].page = Placed(a, p).page
                                               /\ ~host[p].old => host[p].prot = a.prot
    BY DEF VmHostAgrees
  <1>1. \A t : Pending(t) = PendingOf(vmOp[t])
    BY DEF Pending, PendingOf, TodoPages
  <1>2. Agrees(Views(tree, p), host[p])
    BY <1>1 DEF VmInv, PagesOK
  <1>3. ASSUME NEW a \in tree, p \in PagesOf(a)
        PROVE  View(a, p) \in Views(tree, p) /\ View(a, p).unmapped = a.unmapped /\ View(a, p).at = Placed(a, p)
    BY <1>3 DEF Views, View
  <1>4. ASSUME NEW v \in Views(tree, p)
        PROVE  \E a \in tree : p \in PagesOf(a) /\ v = View(a, p)
    BY DEF Views
  <1>5. ASSUME NEW a \in tree, p \in PagesOf(a), ~a.unmapped 
        PROVE  host[p].page = Placed(a, p).page /\ (~host[p].old => host[p].prot = a.prot)
    <2>1. MappedAs(host[p], Placed(a, p))
      BY <1>2, <1>3, <1>5 DEF Agrees
    <2>2. Placed(a, p).prot = a.prot
      BY DEF Placed
    <2> QED BY <2>1, <2>2 DEF MappedAs
  <1>6. ASSUME \A a \in tree : p \in PagesOf(a) => a.unmapped PROVE host[p] = NotMapped
    <2>1. \A v \in Views(tree, p) : v.unmapped
      BY <1>3, <1>4, <1>6
    <2> QED BY <1>2, <2>1 DEF Agrees
  <1> QED BY <1>5, <1>6

(* What the calls do to the memory of the host outside of vma_tree_lock is *)
(* safe, for any threads, scripts, sizes and failures of the host: an      *)
(* allocation finds nothing mapped in its place, no two calls work on the  *)
(* same page, and libos_mmap.c, libos_brk.c and libos_malloc.c reach no    *)
(* BUG() but that of a host which refuses to free memory.                  *)
THEOREM HostCallsHold == VmSpec => []VmHostCalls
  BY VmInvInit, VmInvStep, InvHostCalls, PTL DEF VmSpec

(* Where no call is under way the host has mapped exactly the pages that   *)
(* the tree of areas says, each with its page of the file, however the     *)
(* areas have been split, and with its protection unless the host has      *)
(* refused an mprotect there.                                              *)
THEOREM HostAgreesHolds == VmSpec => []VmHostAgrees
  BY VmInvInit, VmInvStep, InvHostAgrees, PTL DEF VmSpec
=============================================================================
